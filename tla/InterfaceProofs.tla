-------------------------- MODULE InterfaceProofs ---------------------------
(***************************************************************************)
(* The containers whose caller says, through functions or through nodes of *)
(* his own, what they hold.                                                *)
(*                                                                         *)
(* For any texts, hash and number of strings: the dict of hash_interface.c *)
(* holds no string that was freed, no two of its entries share one, and    *)
(* MemTotal is exact; and it is a map from the contents of its keys to     *)
(* those of its values.                                                    *)
(*                                                                         *)
(* For any nodes and priorities: the links of heap_interface.c, and of its *)
(* earlier version heap.c, are those of a complete tree between any two    *)
(* rounds of the loops, the tree is ordered but for the node that moves,   *)
(* and both programs are priority queues.                                  *)
(***************************************************************************)
EXTENDS DictInterface, ValueHeap, CommonLemmas, FiniteSetTheorems, SequenceTheorems, TLAPS

-----------------------------------------------------------------------------
(* What the variables hold, for any table tb and any texts tx, so that the *)
(* lemmas below can speak of the states before and after a step.           *)
Tables == [Buckets -> Seq(Entry) \cup {Wild}]

Contents == Ints \cup Texts

EntriesIn(tb, b) == IF tb[b] = Wild THEN {} ELSE Range(tb[b])

All(tb) == UNION {EntriesIn(tb, b) : b \in Buckets}

Con(tx, x) == IF x \in Strings THEN tx[x] ELSE x

(* The chain s of bucket b: every entry is in the bucket of its key, and   *)
(* no two have the same key.                                               *)
Fits(s, tx, b) ==
  \A i \in DOMAIN s :
    /\ Con(tx, s[i].key) \in Contents /\ Con(tx, s[i].val) \in Contents
    /\ Bucket(Con(tx, s[i].key)) = b
    /\ \A j \in DOMAIN s : Con(tx, s[j].key) = Con(tx, s[i].key) => i = j

Keyed(tb, tx) == \A b \in Buckets : tb[b] # Wild => Fits(tb[b], tx, b)

(* A string is held by one entry, as its key or as its value.              *)
Owned(A, tx) ==
  /\ A \subseteq [key : Strings, val : Strings]
  /\ \A e \in A :
       /\ e.key # e.val /\ tx[e.key] # Freed /\ tx[e.val] # Freed
       /\ \A f \in A : {e.key, e.val} \cap {f.key, f.val} # {} => e = f

HeldBy(A) == UNION {{e.key, e.val} : e \in A}

Lengths(tb) == [b \in Buckets |-> IF tb[b] = Wild THEN 0 ELSE Len(tb[b])]

OfOneKind ==
  /\ state = "none" => All(table) = {}
  /\ state = "int" => All(table) \subseteq [key : Ints, val : Ints]
  /\ state = "string" => Owned(All(table), text)

Counted ==
  /\ used = Sum(Lengths(table), Buckets)
  /\ state = "string" => Cardinality(HeldBy(All(table))) = 2 * used

DictInv ==
  /\ TypeOK
  /\ Open => Keyed(table, text)
  /\ OfOneKind /\ Counted /\ MemExact

-----------------------------------------------------------------------------
(* What the assumptions say.                                               *)
LEMMA Given ==
  /\ TableSize \in Nat \ {0} /\ Hash \in [Contents -> Nat] /\ Bytes \in [Texts -> Nat \ {0}]
  /\ Freed \notin Texts /\ Wild \notin Seq(Entry) /\ NoValue \notin Texts
  /\ IsFiniteSet(Strings) /\ Strings \cap Ints = {}
  /\ DictBytes \in Nat /\ EntryBytes \in Nat /\ PointerBytes \in Nat
BY DictInterfaceAssumption DEF Contents

LEMMA BucketIn ==
  ASSUME NEW c \in Contents
  PROVE  Bucket(c) \in Buckets
<1>1. PICK h \in Nat : h = Hash[c]
  BY Given
<1>2. h % TableSize \in 0..(TableSize - 1)
  BY Given
<1>3. QED
  BY <1>1, <1>2 DEF Bucket, Buckets

LEMMA BucketsFinite == IsFiniteSet(Buckets)
BY Given, FS_Interval DEF Buckets

(* The definitions of the model, in these terms.                           *)
LEMMA ViewOfContents ==
  /\ \A x : Content(x) = Con(text, x)
  /\ \A b \in Buckets : Entries(b) = EntriesIn(table, b)
BY DEF Content, Con, Entries, EntriesIn

LEMMA ViewOfHeld == Held = IF state = "string" THEN HeldBy(All(table)) ELSE {}
<1>1. UNION {Entries(b) : b \in Buckets} = All(table)
  BY ViewOfContents DEF All
<1>2. QED
  BY <1>1 DEF Held, HeldBy

LEMMA ViewOfSums ==
  /\ EntryCount = Sum(Lengths(table), Buckets)
  /\ \A X : BytesOf(X) = Sum(StringBytes, X \cap Strings)
<1>1. \A f, S : SumFunctionOnSet(f, S) = Sum(f, S)
  BY DEF SumFunctionOnSet, FoldFunctionOnSet, Sum, MapThenSumSet
<1>2. ChainLengths = Lengths(table)
  BY DEF ChainLengths, Lengths
<1>3. QED
  BY <1>1, <1>2 DEF EntryCount, BytesOf

-----------------------------------------------------------------------------
(* A chain with another value in an entry.                                 *)
Changed(s, i, v) == [s EXCEPT ![i].val = v]

LEMMA ChangedChain ==
  ASSUME NEW s \in Seq(Entry), NEW i \in DOMAIN s, NEW v \in Ints \cup Strings
  PROVE  /\ Changed(s, i, v) \in Seq(Entry) /\ Len(Changed(s, i, v)) = Len(s)
         /\ DOMAIN Changed(s, i, v) = DOMAIN s
         /\ \A j \in DOMAIN s : Changed(s, i, v)[j] =
              IF j = i THEN [key |-> s[i].key, val |-> v] ELSE s[j]
<1>1. s = [j \in 1..Len(s) |-> s[j]] /\ \A j \in 1..Len(s) : s[j] \in Entry
  OBVIOUS
<1>2. s[i] = [key |-> s[i].key, val |-> s[i].val] /\ s[i].key \in Ints \cup Strings
  BY <1>1 DEF Entry
<1>3. \A j \in DOMAIN s : Changed(s, i, v)[j] =
        IF j = i THEN [key |-> s[i].key, val |-> v] ELSE s[j]
  BY <1>1, <1>2 DEF Changed
<1>4. DOMAIN Changed(s, i, v) = DOMAIN s
  BY DEF Changed
<1>5. \A j \in 1..Len(s) : Changed(s, i, v)[j] \in Entry
  BY <1>1, <1>2, <1>3 DEF Entry
<1>6. Changed(s, i, v) = [j \in 1..Len(s) |-> Changed(s, i, v)[j]]
  BY <1>1 DEF Changed
<1>7. Changed(s, i, v) \in Seq(Entry) /\ Len(Changed(s, i, v)) = Len(s)
  <2> DEFINE t == Changed(s, i, v)
  <2>1. Len(s) \in Nat /\ t = [j \in 1..Len(s) |-> t[j]] /\ \A j \in 1..Len(s) : t[j] \in Entry
    BY <1>5, <1>6
  <2> HIDE DEF t
  <2>2. PICK n \in Nat : n = Len(s) /\ t = [j \in 1..n |-> t[j]]
    BY <2>1
  <2>3. t \in [1..n -> Entry]
    BY <2>1, <2>2
  <2>4. t \in Seq(Entry) /\ Len(t) = n
    BY <2>2, <2>3
  <2>5. QED
    BY <2>2, <2>4 DEF t
<1>8. QED
  BY <1>3, <1>4, <1>7

-----------------------------------------------------------------------------
(* Another chain in bucket b.                                              *)
With(tb, b, s) == [tb EXCEPT ![b] = s]

Others(tb, b) == UNION {EntriesIn(tb, c) : c \in Buckets \ {b}}

LEMMA WithChain ==
  ASSUME NEW tb \in Tables, NEW b \in Buckets, NEW s \in Seq(Entry)
  PROVE  /\ With(tb, b, s) \in Tables /\ s # Wild
         /\ With(tb, b, s)[b] = s
         /\ \A c \in Buckets \ {b} : With(tb, b, s)[c] = tb[c]
         /\ All(With(tb, b, s)) = Range(s) \cup Others(tb, b)
<1>1. s # Wild
  BY Given
<1>2. With(tb, b, s) \in Tables
  BY DEF With, Tables
<1>3. /\ With(tb, b, s)[b] = s
      /\ \A c \in Buckets \ {b} : With(tb, b, s)[c] = tb[c]
  BY DEF With, Tables
<1>4. /\ EntriesIn(With(tb, b, s), b) = Range(s)
      /\ \A c \in Buckets \ {b} : EntriesIn(With(tb, b, s), c) = EntriesIn(tb, c)
  BY <1>1, <1>3 DEF EntriesIn
<1>5. All(With(tb, b, s)) = Range(s) \cup Others(tb, b)
  BY <1>4 DEF All, Others
<1>6. QED
  BY <1>1, <1>2, <1>3, <1>5

LEMMA ChainIn ==
  ASSUME NEW tb \in Tables, NEW b \in Buckets, tb[b] # Wild
  PROVE  /\ tb[b] \in Seq(Entry)
         /\ All(tb) = Range(tb[b]) \cup Others(tb, b)
         /\ Range(tb[b]) \subseteq Entry
<1>1. tb[b] \in Seq(Entry)
  BY DEF Tables
<1>2. EntriesIn(tb, b) = Range(tb[b])
  BY DEF EntriesIn
<1>3. All(tb) = Range(tb[b]) \cup Others(tb, b)
  BY <1>2 DEF All, Others
<1>4. Range(tb[b]) \subseteq Entry
  BY <1>1 DEF Range
<1>5. QED
  BY <1>1, <1>3, <1>4

LEMMA EntryIn ==
  ASSUME NEW tb \in Tables, NEW e \in All(tb)
  PROVE  \E b \in Buckets : tb[b] # Wild /\ \E i \in DOMAIN tb[b] : tb[b][i] = e
BY DEF All, EntriesIn, Range

LEMMA AllEntries ==
  ASSUME NEW tb \in Tables
  PROVE  All(tb) \subseteq Entry
<1>1. ASSUME NEW e \in All(tb)
      PROVE  e \in Entry
  <2>1. PICK b \in Buckets : tb[b] # Wild /\ \E i \in DOMAIN tb[b] : tb[b][i] = e
    BY EntryIn
  <2>2. QED
    BY <2>1, ChainIn DEF Range
<1>2. QED
  BY <1>1

(* An entry is where its key says.                                         *)
LEMMA KeyTells ==
  ASSUME NEW tb \in Tables, NEW tx, Keyed(tb, tx), NEW e \in All(tb)
  PROVE  /\ Con(tx, e.key) \in Contents /\ Con(tx, e.val) \in Contents
         /\ Bucket(Con(tx, e.key)) \in Buckets /\ tb[Bucket(Con(tx, e.key))] # Wild
         /\ \E i \in DOMAIN tb[Bucket(Con(tx, e.key))] : tb[Bucket(Con(tx, e.key))][i] = e
<1>1. PICK b \in Buckets : tb[b] # Wild /\ \E i \in DOMAIN tb[b] : tb[b][i] = e
  BY EntryIn
<1>2. PICK i \in DOMAIN tb[b] : tb[b][i] = e
  BY <1>1
<1>3. /\ Con(tx, e.key) \in Contents /\ Con(tx, e.val) \in Contents
      /\ Bucket(Con(tx, e.key)) = b
  BY <1>1, <1>2 DEF Keyed, Fits
<1>4. QED
  BY <1>1, <1>3

LEMMA KeyIdentifies ==
  ASSUME NEW tb \in Tables, NEW tx, Keyed(tb, tx), NEW e \in All(tb), NEW f \in All(tb),
         Con(tx, e.key) = Con(tx, f.key)
  PROVE  e = f
<1>1. PICK b \in Buckets : b = Bucket(Con(tx, e.key)) /\ tb[b] # Wild
  BY KeyTells
<1>2. PICK i \in DOMAIN tb[b] : tb[b][i] = e
  BY <1>1, KeyTells
<1>3. PICK j \in DOMAIN tb[b] : tb[b][j] = f
  BY <1>1, KeyTells
<1>4. Fits(tb[b], tx, b)
  BY <1>1 DEF Keyed
<1>5. i = j
  BY <1>2, <1>3, <1>4 DEF Fits
<1>6. QED
  BY <1>2, <1>3, <1>5

(* The entries that are not in the chain are not in its bucket's range.    *)
LEMMA OthersDiffer ==
  ASSUME NEW tb \in Tables, NEW tx, Keyed(tb, tx), NEW b \in Buckets, tb[b] # Wild
  PROVE  Others(tb, b) \cap Range(tb[b]) = {}
<1>1. SUFFICES ASSUME NEW e \in Others(tb, b), e \in Range(tb[b])
               PROVE  FALSE
  OBVIOUS
<1>2. Bucket(Con(tx, e.key)) = b
  <2>1. PICK i \in DOMAIN tb[b] : tb[b][i] = e
    BY <1>1 DEF Range
  <2>2. QED
    BY <2>1 DEF Keyed, Fits
<1>3. PICK c \in Buckets \ {b} : tb[c] # Wild /\ e \in Range(tb[c])
  BY <1>1 DEF Others, EntriesIn
<1>4. PICK j \in DOMAIN tb[c] : tb[c][j] = e
  BY <1>3 DEF Range
<1>5. Bucket(Con(tx, e.key)) = c
  BY <1>3, <1>4 DEF Keyed, Fits
<1>6. QED
  BY <1>2, <1>3, <1>5

LEMMA GrownTable ==
  ASSUME NEW tb \in Tables, NEW b \in Buckets, tb[b] # Wild, NEW e \in Entry
  PROVE  /\ With(tb, b, Grown(tb[b], e)) \in Tables
         /\ All(With(tb, b, Grown(tb[b], e))) = All(tb) \cup {e}
<1>1. PICK s \in Seq(Entry) : s = tb[b]
  BY ChainIn
<1>2. Grown(s, e) \in Seq(Entry) /\ Range(Grown(s, e)) = Range(s) \cup {e}
  BY GrownChain
<1>3. QED
  BY <1>1, <1>2, WithChain, ChainIn

(* The entries of a chain with another value in its i-th.                  *)
LEMMA ChangedRange ==
  ASSUME NEW s \in Seq(Entry), NEW tx, NEW b, Fits(s, tx, b), NEW i \in DOMAIN s,
         NEW v \in Ints \cup Strings
  PROVE  Range(Changed(s, i, v)) = (Range(s) \ {s[i]}) \cup {[key |-> s[i].key, val |-> v]}
<1>1. \A j \in DOMAIN s : s[j] = s[i] => j = i
  BY DEF Fits
<1> DEFINE t == Changed(s, i, v)
<1>2. /\ DOMAIN t = DOMAIN s
      /\ \A j \in DOMAIN s : t[j] = IF j = i THEN [key |-> s[i].key, val |-> v] ELSE s[j]
  BY ChangedChain
<1> HIDE DEF t
<1>3. QED
  BY <1>1, <1>2 DEF Range, t

LEMMA CutTable ==
  ASSUME NEW tb \in Tables, NEW tx, Keyed(tb, tx), NEW b \in Buckets, tb[b] # Wild,
         NEW i \in DOMAIN tb[b]
  PROVE  /\ With(tb, b, RemoveAt(tb[b], i)) \in Tables
         /\ All(With(tb, b, RemoveAt(tb[b], i))) = All(tb) \ {tb[b][i]}
         /\ tb[b][i] \in All(tb)
<1>1. PICK s \in Seq(Entry) : s = tb[b]
  BY ChainIn
<1>2. IsInjective(s)
  BY <1>1 DEF Keyed, Fits, IsInjective
<1>3. RemoveAt(s, i) \in Seq(Entry) /\ Range(RemoveAt(s, i)) = Range(s) \ {s[i]}
  BY <1>1, <1>2, CutChain, CutRange
<1>4. s[i] \in Range(s) /\ Others(tb, b) \cap Range(s) = {}
  BY <1>1, OthersDiffer DEF Range
<1>5. QED
  BY <1>1, <1>3, <1>4, WithChain, ChainIn

LEMMA ChangedTable ==
  ASSUME NEW tb \in Tables, NEW tx, Keyed(tb, tx), NEW b \in Buckets, tb[b] # Wild,
         NEW i \in DOMAIN tb[b], NEW v \in Ints \cup Strings
  PROVE  /\ With(tb, b, Changed(tb[b], i, v)) \in Tables
         /\ All(With(tb, b, Changed(tb[b], i, v))) =
              (All(tb) \ {tb[b][i]}) \cup {[key |-> tb[b][i].key, val |-> v]}
         /\ tb[b][i] \in All(tb)
<1>1. PICK s \in Seq(Entry) : s = tb[b]
  BY ChainIn
<1>2. Fits(s, tx, b)
  BY <1>1 DEF Keyed
<1>3. i \in DOMAIN s
  BY <1>1
<1>4. Changed(s, i, v) \in Seq(Entry)
  BY <1>3, ChangedChain
<1>5. Range(Changed(s, i, v)) = (Range(s) \ {s[i]}) \cup {[key |-> s[i].key, val |-> v]}
  BY <1>2, <1>3, ChangedRange
<1>6. s[i] \in Range(s) /\ Others(tb, b) \cap Range(s) = {}
  BY <1>1, OthersDiffer DEF Range
<1>7. QED
  BY <1>1, <1>4, <1>5, <1>6, WithChain, ChainIn

-----------------------------------------------------------------------------
(* The chains still fit after a change.                                    *)
LEMMA GrownFits ==
  ASSUME NEW s \in Seq(Entry), NEW tx, NEW b, Fits(s, tx, b), NEW e \in Entry,
         Con(tx, e.key) \in Contents, Con(tx, e.val) \in Contents,
         Bucket(Con(tx, e.key)) = b,
         \A i \in DOMAIN s : Con(tx, s[i].key) # Con(tx, e.key)
  PROVE  Fits(Grown(s, e), tx, b)
<1> DEFINE t == Grown(s, e)
<1>1. /\ DOMAIN t = 1..(Len(s) + 1) /\ t[1] = e
      /\ \A i \in 2..(Len(s) + 1) : t[i] = s[i - 1]
  BY GrownChain
<1>2. DOMAIN s = 1..Len(s) /\ Len(s) \in Nat
  OBVIOUS
<1> HIDE DEF t
<1>3. ASSUME NEW i \in DOMAIN t, t[i] # e
      PROVE  i - 1 \in DOMAIN s /\ t[i] = s[i - 1]
  <2>1. i \in 2..(Len(s) + 1)
    BY <1>1, <1>2, <1>3
  <2>2. i - 1 \in DOMAIN s
    BY <1>2, <2>1
  <2>3. QED
    BY <1>1, <2>1, <2>2
<1>4. \A i \in DOMAIN t : t[i] = e => i = 1
  <2>1. ASSUME NEW i \in DOMAIN t, i # 1
        PROVE  t[i] # e
    <3>1. i \in 2..(Len(s) + 1) /\ i - 1 \in DOMAIN s
      BY <1>1, <1>2, <2>1
    <3>2. QED
      BY <1>1, <3>1
  <2>2. QED
    BY <2>1
<1>5. \A i, j \in DOMAIN t : i - 1 = j - 1 => i = j
  BY <1>1, <1>2
<1>6. QED
  BY <1>3, <1>4, <1>5 DEF Fits, t

LEMMA CutFits ==
  ASSUME NEW s \in Seq(Entry), NEW tx, NEW b, Fits(s, tx, b), NEW i \in DOMAIN s
  PROVE  Fits(RemoveAt(s, i), tx, b)
<1> DEFINE t == RemoveAt(s, i)
           Old(j) == IF j < i THEN j ELSE j + 1
<1>0. DOMAIN s = 1..Len(s) /\ Len(s) \in Nat
  OBVIOUS
<1>1. DOMAIN t = 1..(Len(s) - 1) /\ \A j \in DOMAIN t : t[j] = s[Old(j)]
  BY CutChain
<1>2. \A j \in DOMAIN t : Old(j) \in DOMAIN s
  BY <1>0, <1>1
<1>3. \A j, k \in DOMAIN t : Old(j) = Old(k) => j = k
  BY <1>0, <1>1
<1> HIDE DEF t, Old
<1>4. QED
  BY <1>1, <1>2, <1>3 DEF Fits, t

LEMMA ChangedFits ==
  ASSUME NEW s \in Seq(Entry), NEW tx, NEW b, Fits(s, tx, b), NEW i \in DOMAIN s,
         NEW v \in Ints \cup Strings, Con(tx, v) \in Contents
  PROVE  Fits(Changed(s, i, v), tx, b)
<1> DEFINE t == Changed(s, i, v)
<1>1. DOMAIN t = DOMAIN s
  BY ChangedChain
<1>2. \A j \in DOMAIN s : t[j] = IF j = i THEN [key |-> s[i].key, val |-> v] ELSE s[j]
  BY ChangedChain
<1> HIDE DEF t
<1>3. QED
  BY <1>1, <1>2 DEF Fits, t

(* ... and so does a table with such a chain.                              *)
(* A bucket that holds a chain keeps one. *)
StaysCleared(tb, tc) == \A b \in Buckets : tb[b] # Wild => tc[b] # Wild

LEMMA WithCleared ==
  ASSUME NEW tb \in Tables, NEW b \in Buckets, NEW s \in Seq(Entry)
  PROVE  StaysCleared(tb, With(tb, b, s))
<1>1. s # Wild
  BY Given
<1>2. QED
  BY <1>1 DEF StaysCleared, With, Tables

LEMMA WithKeyed ==
  ASSUME NEW tb \in Tables, NEW tx, Keyed(tb, tx), NEW b \in Buckets,
         NEW s \in Seq(Entry), Fits(s, tx, b)
  PROVE  Keyed(With(tb, b, s), tx)
BY WithChain DEF Keyed

(* What the texts are counts only for the strings in the table.            *)
SameOn(A, tx, ty) ==
  \A e \in A : Con(ty, e.key) = Con(tx, e.key) /\ Con(ty, e.val) = Con(tx, e.val)

LEMMA SameContents ==
  ASSUME NEW tb \in Tables, NEW tx, NEW ty, Keyed(tb, tx), SameOn(All(tb), tx, ty)
  PROVE  Keyed(tb, ty)
<1> SUFFICES ASSUME NEW b \in Buckets, tb[b] # Wild
             PROVE  Fits(tb[b], ty, b)
  BY DEF Keyed
<1>1. Fits(tb[b], tx, b)
  BY DEF Keyed
<1>2. \A i \in DOMAIN tb[b] : tb[b][i] \in All(tb)
  BY DEF All, EntriesIn, Range
<1>3. QED
  BY <1>1, <1>2 DEF Fits, SameOn

(* The number of entries: what an operation adds to it.                    *)
LEMMA WithLength ==
  ASSUME NEW tb \in Tables, NEW b \in Buckets, tb[b] # Wild, NEW s \in Seq(Entry)
  PROVE  /\ Sum(Lengths(With(tb, b, s)), Buckets) + Len(tb[b]) = Sum(Lengths(tb), Buckets) + Len(s)
         /\ Len(tb[b]) \in Nat /\ Len(s) \in Nat
         /\ Sum(Lengths(tb), Buckets) \in Nat
         /\ Sum(Lengths(With(tb, b, s)), Buckets) \in Nat
<1>1. With(tb, b, s) \in Tables /\ With(tb, b, s)[b] = s /\ s # Wild
  BY WithChain
<1>2. \A t \in Tables : \A c \in Buckets : Lengths(t)[c] \in Nat
  BY DEF Tables, Lengths
<1>3. \A c \in Buckets \ {b} : Lengths(With(tb, b, s))[c] = Lengths(tb)[c]
  BY WithChain DEF Lengths
<1>4. Lengths(tb)[b] = Len(tb[b]) /\ Lengths(With(tb, b, s))[b] = Len(s)
  BY <1>1 DEF Lengths
<1>5. Len(tb[b]) \in Nat /\ Len(s) \in Nat
  BY ChainIn
<1> DEFINE f == Lengths(tb)
           g == Lengths(With(tb, b, s))
<1>6. /\ \A c \in Buckets : f[c] \in Nat /\ g[c] \in Nat
      /\ \A c \in Buckets \ {b} : g[c] = f[c]
  BY <1>1, <1>2, <1>3
<1>7. f[b] = Len(tb[b]) /\ g[b] = Len(s)
  BY <1>4
<1> HIDE DEF f, g
<1>8. Sum(g, Buckets) + f[b] = Sum(f, Buckets) + g[b]
  BY <1>6, BucketsFinite, SumReplace
<1>9. Sum(f, Buckets) \in Nat /\ Sum(g, Buckets) \in Nat
  BY <1>6, BucketsFinite, SumType
<1>10. QED
  BY <1>5, <1>7, <1>8, <1>9 DEF f, g

-----------------------------------------------------------------------------
(* Who holds which string.                                                 *)
Kept(tx, ty, X) == \A s \in Strings \ X : ty[s] = tx[s]

LEMMA HeldFinite ==
  ASSUME NEW A, NEW tx, Owned(A, tx)
  PROVE  HeldBy(A) \subseteq Strings /\ IsFiniteSet(HeldBy(A)) /\ Cardinality(HeldBy(A)) \in Nat
<1>1. HeldBy(A) \subseteq Strings
  BY DEF HeldBy, Owned
<1>2. IsFiniteSet(HeldBy(A))
  BY <1>1, Given, FS_Subset
<1>3. QED
  BY <1>1, <1>2, FS_CardinalityType

(* Two strings more, or less. *)
LEMMA AddTwo ==
  ASSUME NEW S, IsFiniteSet(S), NEW x, NEW y, x # y, x \notin S, y \notin S
  PROVE  Cardinality(S \cup {x, y}) = Cardinality(S) + 2
<1>1. IsFiniteSet(S \cup {x}) /\ Cardinality(S \cup {x}) = Cardinality(S) + 1
  BY FS_AddElement
<1>2. Cardinality((S \cup {x}) \cup {y}) = (Cardinality(S) + 1) + 1
  BY <1>1, FS_AddElement
<1>3. (S \cup {x}) \cup {y} = S \cup {x, y} /\ Cardinality(S) \in Nat
  BY FS_CardinalityType
<1>4. QED
  BY <1>2, <1>3

LEMMA TakeTwo ==
  ASSUME NEW S, IsFiniteSet(S), NEW x \in S, NEW y \in S, x # y
  PROVE  Cardinality(S) = Cardinality(S \ {x, y}) + 2
<1>1. IsFiniteSet(S \ {x, y})
  BY FS_Difference
<1>2. Cardinality((S \ {x, y}) \cup {x, y}) = Cardinality(S \ {x, y}) + 2
  BY <1>1, AddTwo
<1>3. (S \ {x, y}) \cup {x, y} = S
  OBVIOUS
<1>4. QED
  BY <1>2, <1>3

LEMMA OwnedAdd ==
  ASSUME NEW A, NEW tx, Owned(A, tx), NEW k \in Strings, NEW v \in Strings, k # v,
         tx[k] # Freed, tx[v] # Freed, k \notin HeldBy(A), v \notin HeldBy(A)
  PROVE  /\ Owned(A \cup {[key |-> k, val |-> v]}, tx)
         /\ Cardinality(HeldBy(A \cup {[key |-> k, val |-> v]})) = Cardinality(HeldBy(A)) + 2
<1> DEFINE e == [key |-> k, val |-> v]
<1>1. e.key = k /\ e.val = v /\ e \in [key : Strings, val : Strings]
  OBVIOUS
<1> HIDE DEF e
<1>2. \A f \in A : {f.key, f.val} \cap {k, v} = {}
  BY DEF HeldBy
<1>3. Owned(A \cup {e}, tx)
  BY <1>1, <1>2 DEF Owned
<1>4. HeldBy(A \cup {e}) = HeldBy(A) \cup {k, v}
  BY <1>1 DEF HeldBy
<1>5. Cardinality(HeldBy(A) \cup {k, v}) = Cardinality(HeldBy(A)) + 2
  BY HeldFinite, AddTwo
<1>6. QED
  BY <1>3, <1>4, <1>5 DEF e

LEMMA OwnedDrop ==
  ASSUME NEW A, NEW tx, NEW ty, Owned(A, tx), NEW e \in A, Kept(tx, ty, {e.key, e.val})
  PROVE  /\ Owned(A \ {e}, ty)
         /\ Cardinality(HeldBy(A)) = Cardinality(HeldBy(A \ {e})) + 2
<1>1. \A f \in A \ {e} : {f.key, f.val} \cap {e.key, e.val} = {}
  BY DEF Owned
<1>2. e.key \in Strings /\ e.val \in Strings /\ e.key # e.val
  BY DEF Owned
<1>3. \A f \in A : f.key \in Strings /\ f.val \in Strings
  BY DEF Owned
<1>4. \A f \in A \ {e} : ty[f.key] = tx[f.key] /\ ty[f.val] = tx[f.val]
  BY <1>1, <1>3 DEF Kept
<1>5. Owned(A \ {e}, ty)
  BY <1>4 DEF Owned
<1>6. /\ HeldBy(A \ {e}) = HeldBy(A) \ {e.key, e.val}
      /\ e.key \in HeldBy(A) /\ e.val \in HeldBy(A)
  <2>1. \A B, x : x \in HeldBy(B) <=> \E f \in B : x \in {f.key, f.val}
    BY DEF HeldBy
  <2>2. ASSUME NEW x \in HeldBy(A \ {e})
        PROVE  x \in HeldBy(A) \ {e.key, e.val}
    <3>1. PICK f \in A \ {e} : x \in {f.key, f.val}
      BY <2>1
    <3>2. x \in HeldBy(A)
      BY <2>1, <3>1
    <3>3. {f.key, f.val} \cap {e.key, e.val} = {}
      BY <1>1
    <3>4. QED
      BY <3>1, <3>2, <3>3
  <2>3. \A x \in HeldBy(A) \ {e.key, e.val} : x \in HeldBy(A \ {e})
    BY <2>1
  <2>4. e.key \in HeldBy(A) /\ e.val \in HeldBy(A)
    BY <2>1
  <2>5. QED
    BY <2>2, <2>3, <2>4
<1>7. Cardinality(HeldBy(A)) = Cardinality(HeldBy(A) \ {e.key, e.val}) + 2
  BY <1>2, <1>6, HeldFinite, TakeTwo
<1>8. QED
  BY <1>5, <1>6, <1>7

LEMMA OwnedChange ==
  ASSUME NEW A, NEW tx, NEW ty, Owned(A, tx), NEW e \in A, NEW v \in Strings,
         tx[v] # Freed, v \notin HeldBy(A), Kept(tx, ty, {e.val})
  PROVE  /\ Owned((A \ {e}) \cup {[key |-> e.key, val |-> v]}, ty)
         /\ Cardinality(HeldBy((A \ {e}) \cup {[key |-> e.key, val |-> v]})) = Cardinality(HeldBy(A))
<1> DEFINE B == A \ {e}
           n == [key |-> e.key, val |-> v]
<1>1. n.key = e.key /\ n.val = v
  OBVIOUS
<1>2. e.key \in Strings /\ e.val \in Strings /\ e.key # e.val /\ tx[e.key] # Freed
  BY DEF Owned
<1>3. e.key \in HeldBy(A) /\ e.val \in HeldBy(A)
  BY DEF HeldBy
<1>4. e.key # v /\ e.val # v /\ ty[e.key] # Freed /\ ty[v] # Freed
  BY <1>2, <1>3 DEF Kept
<1>5. Owned(B, ty) /\ Cardinality(HeldBy(A)) = Cardinality(HeldBy(B)) + 2
  <2>1. Kept(tx, ty, {e.key, e.val})
    BY DEF Kept
  <2>2. QED
    BY <2>1, OwnedDrop
<1>6. e.key \notin HeldBy(B) /\ v \notin HeldBy(B)
  BY DEF HeldBy, Owned
<1> HIDE DEF B
<1>7. Owned(B \cup {n}, ty) /\ Cardinality(HeldBy(B \cup {n})) = Cardinality(HeldBy(B)) + 2
  BY <1>2, <1>4, <1>5, <1>6, OwnedAdd
<1>8. QED
  BY <1>5, <1>7 DEF B

-----------------------------------------------------------------------------
(* The bytes of the strings.                                               *)
TextsOf == [Strings -> Texts \cup {Freed}]

BytesAt(tx) == [s \in Strings |-> IF tx[s] # Freed THEN Bytes[tx[s]] ELSE 0]

Heap(tx) == Sum(BytesAt(tx), Strings)

LEMMA BytesAreNat ==
  ASSUME NEW tx \in TextsOf
  PROVE  /\ \A s \in Strings : BytesAt(tx)[s] \in Nat
         /\ Heap(tx) \in Nat
<1>1. \A s \in Strings : BytesAt(tx)[s] \in Nat
  BY Given DEF TextsOf, BytesAt
<1>2. QED
  BY <1>1, Given, SumType DEF Heap

(* What freeing the strings of X gives back.                               *)
LEMMA FreedBytes ==
  ASSUME NEW tx \in TextsOf, NEW ty \in TextsOf, NEW X \in SUBSET Strings,
         \A s \in Strings : ty[s] = IF s \in X THEN Freed ELSE tx[s]
  PROVE  /\ Heap(ty) + Sum(BytesAt(tx), X) = Heap(tx)
         /\ Sum(BytesAt(tx), X) \in Nat
<1> DEFINE f == BytesAt(tx)
           g == BytesAt(ty)
<1>1. Cleared(f, g, Strings, X)
  BY DEF BytesAt, Cleared
<1>2. \A s \in Strings : f[s] \in Nat
  BY BytesAreNat
<1> HIDE DEF f, g
<1>3. Sum(g, Strings) + Sum(f, X) = Sum(f, Strings) /\ Sum(f, X) \in Nat
  BY <1>1, <1>2, Given, SumClear
<1>4. QED
  BY <1>3 DEF Heap, f, g

LEMMA AllocatedBytes ==
  ASSUME NEW tx \in TextsOf, NEW ty \in TextsOf, NEW s \in Strings, tx[s] = Freed,
         ty[s] # Freed, \A r \in Strings \ {s} : ty[r] = tx[r]
  PROVE  Heap(ty) = Heap(tx) + Bytes[ty[s]]
<1> DEFINE f == BytesAt(tx)
           g == BytesAt(ty)
<1>1. f[s] = 0 /\ g[s] = Bytes[ty[s]]
  BY DEF BytesAt
<1>2. \A r \in Strings \ {s} : g[r] = f[r]
  BY DEF BytesAt
<1>3. \A r \in Strings : f[r] \in Nat /\ g[r] \in Nat
  BY BytesAreNat
<1>4. Heap(tx) = Sum(f, Strings) /\ Heap(ty) = Sum(g, Strings)
  BY DEF Heap
<1> HIDE DEF f, g
<1>5. Sum(g, Strings) + f[s] = Sum(f, Strings) + g[s]
  BY <1>2, <1>3, Given, SumReplace
<1>6. Sum(g, Strings) \in Nat /\ Sum(f, Strings) \in Nat /\ g[s] \in Nat
  BY <1>3, Given, SumType
<1>7. QED
  BY <1>1, <1>4, <1>5, <1>6

(* The bytes of the live strings are those of all strings.                 *)
LEMMA LiveBytes ==
  ASSUME TypeOK
  PROVE  BytesOf({s \in Strings : Live(s)}) = Heap(text)
<1> DEFINE L == {s \in Strings : Live(s)}
           f == BytesAt(text)
<1>1. StringBytes = f /\ text \in TextsOf
  BY DEF StringBytes, BytesAt, Live, TypeOK, TextsOf
<1>2. BytesOf(L) = Sum(f, L)
  <2>1. L \cap Strings = L
    OBVIOUS
  <2>2. QED
    BY <1>1, <2>1, ViewOfSums
<1>3. \A s \in Strings : f[s] \in Nat
  BY <1>1, BytesAreNat
<1>4. \A s \in Strings \ L : f[s] = 0
  BY DEF BytesAt, Live
<1>5. L \in SUBSET Strings
  OBVIOUS
<1> HIDE DEF f, L
<1>6. Sum(f, Strings) = Sum(f, L) + Sum(f, Strings \ L)
  BY <1>3, <1>5, Given, SumSplit
<1>7. IsFiniteSet(Strings \ L)
  BY Given, FS_Difference
<1>8. Sum(f, Strings \ L) = Cardinality(Strings \ L) * 0
  BY <1>4, <1>7, SumOfEquals
<1>9. Sum(f, L) \in Nat /\ Cardinality(Strings \ L) \in Nat
  BY <1>3, <1>5, <1>7, Given, SumType, FS_CardinalityType
<1>10. Heap(text) = Sum(f, Strings)
  BY DEF Heap, f
<1>11. QED
  BY <1>2, <1>6, <1>8, <1>9, <1>10 DEF L

-----------------------------------------------------------------------------
(* The walk along a chain, and what it looks for.                          *)
LEMMA MinIn ==
  ASSUME NEW S \in SUBSET Nat, S # {}
  PROVE  Min(S) \in S
<1>1. \E x \in S : \A y \in S : x <= y
  BY Least
<1>2. QED
  BY <1>1 DEF Min

LEMMA WalkFinds ==
  ASSUME TypeOK, NEW c \in Contents, Reads(c)
  PROVE  LET s == table[Bucket(c)]
         IN  /\ Bucket(c) \in Buckets /\ s # Wild /\ s \in Seq(Entry) /\ table \in Tables
             /\ Walk(c) = 0 => \A i \in DOMAIN s : Con(text, s[i].key) # c
             /\ Walk(c) # 0 => Walk(c) \in DOMAIN s /\ Con(text, s[Walk(c)].key) = c
<1>1. Bucket(c) \in Buckets /\ table \in Tables /\ table[Bucket(c)] # Wild
  BY BucketIn DEF TypeOK, Tables, Reads
<1>2. PICK s \in Seq(Entry) : s = table[Bucket(c)]
  BY <1>1, ChainIn
<1> DEFINE found == {i \in DOMAIN s : Con(text, s[i].key) = c}
<1>3. Walk(c) = IF found = {} THEN 0 ELSE Min(found)
  BY <1>2, ViewOfContents DEF Walk
<1>4. found \in SUBSET Nat /\ 0 \notin found
  OBVIOUS
<1>5. found # {} => Min(found) \in found
  <2> HIDE DEF found
  <2>1. QED
    BY <1>4, MinIn
<1>6. Walk(c) = 0 => \A i \in DOMAIN s : Con(text, s[i].key) # c
  <2>1. Walk(c) = 0 => found = {}
    <3> HIDE DEF found
    <3>1. QED
      BY <1>3, <1>4, <1>5
  <2>2. QED
    BY <2>1
<1>7. Walk(c) # 0 => Walk(c) \in found
  <2> HIDE DEF found
  <2>1. QED
    BY <1>3, <1>5
<1>8. QED
  BY <1>1, <1>2, <1>6, <1>7

LEMMA ContentOfString ==
  ASSUME TypeOK, NEW k \in Strings, Live(k)
  PROVE  Content(k) = text[k] /\ Con(text, k) = text[k] /\ text[k] \in Contents /\ text[k] # Freed
BY DEF TypeOK, Content, Con, Live, Contents

LEMMA ContentOfInt ==
  ASSUME NEW k \in Ints, NEW tx
  PROVE  Content(k) = k /\ Con(tx, k) = k /\ k \in Contents
BY Given DEF Content, Con, Contents

LEMMA IntsSame ==
  ASSUME NEW A, A \subseteq [key : Ints, val : Ints], NEW tx, NEW ty
  PROVE  SameOn(A, tx, ty)
BY ContentOfInt DEF SameOn

LEMMA StringsSame ==
  ASSUME NEW A, A \subseteq [key : Strings, val : Strings], NEW tx, NEW ty, NEW X,
         Kept(tx, ty, X), HeldBy(A) \cap X = {}
  PROVE  SameOn(A, tx, ty)
BY DEF SameOn, Con, Kept, HeldBy

LEMMA NothingHeld ==
  ASSUME NEW tx
  PROVE  Owned({}, tx) /\ HeldBy({}) = {} /\ Cardinality(HeldBy({})) = 0
BY FS_EmptySet DEF Owned, HeldBy

(* MemTotal in terms of the bytes of all strings: Rest is what the dict    *)
(* takes in state st, with u entries.                                      *)
Rest(st, u) ==
  IF st = "none" THEN 0 ELSE DictBytes + TableSize * PointerBytes + u * EntryBytes

MemShape ==
  state \in {"none", "int", "string"} => MemTotal = Heap(text) + Rest(state, used)

LEMMA RestIs ==
  ASSUME NEW st, NEW u \in Nat
  PROVE  /\ Rest(st, u) \in Nat
         /\ st # "none" => Rest(st, u + 1) = Rest(st, u) + EntryBytes
         /\ st # "none" => Rest(st, 0) = DictBytes + TableSize * PointerBytes
         /\ st # "none" => Rest(st, u) = Rest(st, 0) + u * EntryBytes
         /\ st = "none" => Rest(st, u) = 0
         /\ TableSize * PointerBytes \in Nat
<1>1. PICK d \in Nat, p \in Nat, n \in Nat, z \in Nat :
        d = DictBytes /\ p = PointerBytes /\ n = EntryBytes /\ z = TableSize
  BY Given
<1>2. z * p \in Nat /\ u * n \in Nat /\ (u + 1) * n = u * n + n /\ 0 * n = 0
  OBVIOUS
<1>3. QED
  BY <1>1, <1>2 DEF Rest

LEMMA MemView == TypeOK /\ Counted => (MemExact <=> MemShape)
BY LiveBytes, ViewOfSums DEF MemExact, MemShape, Rest, Counted

LEMMA Typed ==
  ASSUME DictInv
  PROVE  /\ table \in Tables /\ text \in TextsOf /\ used \in Nat /\ MemTotal \in Nat
         /\ used = Sum(Lengths(table), Buckets) /\ MemShape
BY MemView DEF DictInv, TypeOK, Tables, TextsOf, Counted

(* What is left to prove of a step.                                        *)
LEMMA InvIsShape ==
  ASSUME state' \in {"none", "int", "string"}, table' \in Tables, text' \in TextsOf,
         used' \in Nat, MemTotal' \in Nat,
         Open' => Keyed(table', text'), OfOneKind', Counted', MemShape'
  PROVE  DictInv'
<1>1. TypeOK'
  BY DEF TypeOK, Tables, TextsOf
<1>2. (TypeOK /\ Counted => (MemExact <=> MemShape))'
  BY MemView, PTL
<1>3. QED
  BY <1>1, <1>2 DEF DictInv

-----------------------------------------------------------------------------
(* A table of buckets that are empty, or not cleared, has no entries.      *)
LEMMA EmptyTable ==
  ASSUME NEW tb \in [Buckets -> {<<>>, Wild}]
  PROVE  tb \in Tables /\ All(tb) = {} /\ Sum(Lengths(tb), Buckets) = 0
         /\ \A tx : Keyed(tb, tx)
<1>1. <<>> \in Seq(Entry) /\ Len(<<>>) = 0 /\ Range(<<>>) = {} /\ DOMAIN <<>> = {}
  BY DEF Range
<1>2. tb \in Tables
  BY <1>1 DEF Tables
<1>3. All(tb) = {}
  BY <1>1 DEF All, EntriesIn
<1>4. \A b \in Buckets : Lengths(tb)[b] = 0
  BY <1>1 DEF Lengths
<1>5. Sum(Lengths(tb), Buckets) = 0
  <2>1. Sum(Lengths(tb), Buckets) = Cardinality(Buckets) * 0
    BY <1>4, BucketsFinite, SumOfEquals
  <2>2. QED
    BY <2>1, BucketsFinite, FS_CardinalityType
<1>6. \A tx : Keyed(tb, tx)
  BY <1>1 DEF Keyed, Fits
<1>7. QED
  BY <1>2, <1>3, <1>5, <1>6

LEMMA InitInv == Init => DictInv
<1> SUFFICES ASSUME Init PROVE DictInv
  OBVIOUS
<1>1. table \in [Buckets -> {<<>>, Wild}] /\ state = "none" /\ used = 0 /\ MemTotal = 0
  BY DEF Init
<1>2. /\ table \in Tables /\ All(table) = {} /\ Sum(Lengths(table), Buckets) = 0
  BY <1>1, EmptyTable
<1>3. TypeOK
  BY <1>1, <1>2 DEF Init, TypeOK, Tables
<1>4. Heap(text) = 0
  <2>1. \A s \in Strings : BytesAt(text)[s] = 0
    BY DEF Init, BytesAt
  <2>2. Heap(text) = Cardinality(Strings) * 0
    BY <2>1, Given, SumOfEquals DEF Heap
  <2>3. QED
    BY <2>2, Given, FS_CardinalityType
<1>5. MemShape
  BY <1>1, <1>4, RestIs DEF MemShape
<1>6. QED
  BY <1>1, <1>2, <1>3, <1>5, MemView DEF DictInv, Open, OfOneKind, Counted

LEMMA CreateInv ==
  ASSUME DictInv, NEW type \in {"int", "string"}, DictCreate(type)
  PROVE  DictInv'
<1>1. /\ state = "none" /\ state' = type /\ used' = 0 /\ text' = text
      /\ table' \in [Buckets -> {<<>>, Wild}]
      /\ MemTotal' = MemTotal + DictBytes + TableSize * PointerBytes
  BY DEF DictCreate
<1>2. PICK tb \in [Buckets -> {<<>>, Wild}] : tb = table'
  BY <1>1
<1>3. tb \in Tables /\ All(tb) = {} /\ Sum(Lengths(tb), Buckets) = 0 /\ \A tx : Keyed(tb, tx)
  BY EmptyTable
<1>4. OfOneKind' /\ Counted' /\ (Open' => Keyed(table', text'))
  BY <1>1, <1>2, <1>3, NothingHeld DEF OfOneKind, Counted
<1>5. MemTotal' \in Nat /\ MemShape'
  <2>1. PICK m \in Nat, h \in Nat : m = MemTotal /\ h = Heap(text)
    BY Typed, BytesAreNat
  <2>2. m = h
    BY <1>1, <2>1, Typed, RestIs DEF MemShape
  <2>3. /\ TableSize * PointerBytes \in Nat /\ DictBytes \in Nat
        /\ Rest(type, 0) = DictBytes + TableSize * PointerBytes
    BY Given, RestIs
  <2>4. Heap(text)' = h
    BY <1>1, <2>1
  <2>5. QED
    BY <1>1, <2>1, <2>2, <2>3, <2>4 DEF MemShape
<1>6. QED
  BY <1>1, <1>2, <1>3, <1>4, <1>5, InvIsShape, Typed

LEMMA CreateFailsInv ==
  ASSUME DictInv, DictCreateFails
  PROVE  DictInv'
<1>1. MemTotal' = MemTotal
  BY Given, Typed DEF DictCreateFails, LeftOnFailure
<1>2. UNCHANGED <<state, table, used, text, MemTotal>>
  BY <1>1 DEF DictCreateFails
<1>3. OfOneKind' /\ Counted' /\ (Open' => Keyed(table', text')) /\ MemShape'
  BY <1>2, Typed DEF DictInv, OfOneKind, Counted, MemShape, Open
<1>4. QED
  BY <1>2, <1>3, InvIsShape, Typed DEF DictCreateFails

(* The caller's strings: none of them is held.                             *)
LEMMA CallersString ==
  ASSUME DictInv, state \in {"none", "string"}, NEW s \in Strings,
         ~Live(s) \/ s \notin Held, UNCHANGED <<state, table, used>>,
         text' \in TextsOf, Kept(text, text', {s})
  PROVE  /\ SameOn(All(table), text, text')
         /\ OfOneKind' /\ Counted' /\ (Open' => Keyed(table', text'))
<1>0. PICK ty \in TextsOf : text' = ty /\ Kept(text, ty, {s})
  OBVIOUS
<1>1. All(table) \subseteq [key : Strings, val : Strings]
  BY DEF DictInv, OfOneKind, Owned
<1>2. HeldBy(All(table)) \cap {s} = {}
  BY ViewOfHeld DEF DictInv, OfOneKind, Owned, HeldBy, Live
<1>3. SameOn(All(table), text, ty)
  BY <1>0, <1>1, <1>2, StringsSame
<1>4. Open => Keyed(table, ty)
  BY <1>3, SameContents, Typed DEF DictInv
<1>5. state = "string" => Owned(All(table), ty)
  <2>1. \A e \in All(table) : e.key \in Strings \ {s} /\ e.val \in Strings \ {s}
    BY <1>1, <1>2 DEF HeldBy
  <2>2. QED
    BY <1>0, <2>1 DEF DictInv, OfOneKind, Owned, Kept
<1>6. QED
  BY <1>0, <1>3, <1>4, <1>5 DEF DictInv, OfOneKind, Counted, Open

LEMMA NewStringInv ==
  ASSUME DictInv, NEW s \in Strings, NEW t \in Texts, NewString(s, t)
  PROVE  DictInv' /\ SameOn(All(table), text, text')
<1>1. /\ ~Live(s) /\ state \in {"none", "string"} /\ UNCHANGED <<state, table, used>>
      /\ text' = [text EXCEPT ![s] = t] /\ MemTotal' = MemTotal + Bytes[t]
  BY DEF NewString
<1>0. text' \in TextsOf /\ Kept(text, text', {s}) /\ text'[s] = t
  BY <1>1, Typed DEF TextsOf, Kept
<1>2. PICK ty \in TextsOf : ty = text' /\ Kept(text, ty, {s}) /\ ty[s] = t
  BY <1>0
<1>3. /\ SameOn(All(table), text, text')
      /\ OfOneKind' /\ Counted' /\ (Open' => Keyed(table', text'))
  BY <1>0, <1>1, CallersString
<1>4. Heap(ty) = Heap(text) + Bytes[t]
  <2>1. text \in TextsOf /\ text[s] = Freed /\ ty[s] # Freed /\ \A r \in Strings \ {s} : ty[r] = text[r]
    BY <1>1, <1>2, Given, Typed DEF Live, Kept
  <2>2. QED
    BY <1>2, <2>1, AllocatedBytes
<1>5. MemTotal' \in Nat /\ MemShape'
  <2>1. PICK m \in Nat, h \in Nat, n \in Nat : m = MemTotal /\ h = Heap(text) /\ n = Bytes[t]
    BY Given, Typed, BytesAreNat
  <2>2. Heap(text)' = h + n
    BY <1>2, <1>4, <2>1
  <2> DEFINE rest == Rest(state, used)
  <2>3. rest \in Nat
    BY Typed, RestIs
  <2>4. rest' = rest
    BY <1>1
  <2>5. m = h + rest
    BY <1>1, <2>1, Typed DEF MemShape
  <2>6. MemShape' <=> (state' \in {"none", "int", "string"} => MemTotal' = Heap(text)' + rest')
    BY DEF MemShape
  <2> HIDE DEF rest
  <2>7. QED
    BY <1>1, <2>1, <2>2, <2>3, <2>4, <2>5, <2>6
<1>6. QED
  BY <1>1, <1>2, <1>3, <1>5, InvIsShape, Typed

LEMMA FreeStringInv ==
  ASSUME DictInv, NEW s \in Strings, FreeString(s)
  PROVE  DictInv' /\ SameOn(All(table), text, text')
<1>1. /\ Live(s) /\ s \notin Held /\ state \in {"none", "string"} /\ UNCHANGED <<state, table, used>>
      /\ text' = [text EXCEPT ![s] = Freed] /\ MemTotal' = MemTotal - Bytes[text[s]]
  BY DEF FreeString
<1>0. text' \in TextsOf /\ Kept(text, text', {s}) /\ text'[s] = Freed
  BY <1>1, Typed DEF TextsOf, Kept
<1>2. PICK ty \in TextsOf : ty = text' /\ Kept(text, ty, {s}) /\ ty[s] = Freed
  BY <1>0
<1>3. /\ SameOn(All(table), text, text')
      /\ OfOneKind' /\ Counted' /\ (Open' => Keyed(table', text'))
  BY <1>0, <1>1, CallersString
<1>4. Heap(text) = Heap(ty) + Bytes[text[s]]
  <2>1. text \in TextsOf /\ ty[s] = Freed /\ text[s] # Freed /\ \A r \in Strings \ {s} : text[r] = ty[r]
    BY <1>1, <1>2, Given, Typed DEF Live, Kept
  <2>2. QED
    BY <1>2, <2>1, AllocatedBytes
<1>5. MemTotal' \in Nat /\ MemShape'
  <2>1. text[s] \in Texts
    BY <1>1, Typed DEF Live, TextsOf
  <2>2. PICK m \in Nat, h \in Nat, n \in Nat : m = MemTotal /\ h = Heap(ty) /\ n = Bytes[text[s]]
    BY <2>1, Given, Typed, BytesAreNat
  <2>3. Heap(text) = h + n /\ Heap(text)' = h
    BY <1>2, <1>4, <2>2
  <2> DEFINE rest == Rest(state, used)
  <2>4. rest \in Nat
    BY Typed, RestIs
  <2>5. rest' = rest
    BY <1>1
  <2>6. m = (h + n) + rest
    BY <1>1, <2>2, <2>3, Typed DEF MemShape
  <2>7. MemShape' <=> (state' \in {"none", "int", "string"} => MemTotal' = Heap(text)' + rest')
    BY DEF MemShape
  <2> HIDE DEF rest
  <2>8. MemTotal' = h + rest
    BY <1>1, <2>2, <2>4, <2>6
  <2>9. QED
    BY <2>2, <2>3, <2>4, <2>5, <2>7, <2>8
<1>6. QED
  BY <1>1, <1>2, <1>3, <1>5, InvIsShape, Typed

(* The program stops: nothing is said of the table any more.               *)
LEMMA StopsInv ==
  ASSUME DictInv, state' \in {"crashed", "nullStore"}, UNCHANGED <<table, used, text, MemTotal>>
  PROVE  DictInv'
<1>1. TypeOK' /\ MemExact'
  BY DEF DictInv, TypeOK, MemExact, Open
<1>2. OfOneKind' /\ Counted' /\ ~Open'
  BY DEF DictInv, OfOneKind, Counted, Open
<1>3. QED
  BY <1>1, <1>2 DEF DictInv

LEMMA StutterInv ==
  ASSUME DictInv, UNCHANGED <<state, table, used, text, MemTotal>>
  PROVE  DictInv'
<1>1. OfOneKind' /\ Counted' /\ (Open' => Keyed(table', text')) /\ MemShape'
  BY Typed DEF DictInv, OfOneKind, Counted, MemShape, Open
<1>2. TypeOK'
  BY DEF DictInv, TypeOK
<1>3. (TypeOK /\ Counted => (MemExact <=> MemShape))'
  BY MemView, PTL
<1>4. QED
  BY <1>1, <1>2, <1>3 DEF DictInv

-----------------------------------------------------------------------------
(* What a caller of dictAdd passes: integers, or two strings of its own.   *)
Passes(k, v) ==
  \/ state = "int" /\ {k, v} \subseteq Ints
  \/ state = "string" /\ {k, v} \subseteq Strings \ Held /\ k # v /\ Live(k) /\ Live(v)

LEMMA PassedIs ==
  ASSUME DictInv, NEW k, NEW v, Passes(k, v)
  PROVE  /\ k \in Ints \cup Strings /\ v \in Ints \cup Strings
         /\ Content(k) = Con(text, k) /\ Content(v) = Con(text, v)
         /\ Con(text, k) \in Contents /\ Con(text, v) \in Contents
         /\ state = "string" => /\ k \notin HeldBy(All(table)) /\ v \notin HeldBy(All(table))
                                /\ k \in Strings /\ v \in Strings /\ k # v
                                /\ text[k] # Freed /\ text[v] # Freed
         /\ state = "int" => k \in Ints /\ v \in Ints
         /\ state \in {"int", "string"} /\ Open /\ Keyed(table, text) /\ TypeOK
<1>1. CASE state = "int"
  BY <1>1, ContentOfInt DEF Passes, DictInv, Open
<1>2. CASE state = "string"
  BY <1>2, ContentOfString, ViewOfHeld DEF Passes, DictInv, Open, Live
<1>3. QED
  BY <1>1, <1>2 DEF Passes

LEMMA ReleasedText ==
  ASSUME DictInv, NEW X
  PROVE  /\ Released(X) \in TextsOf /\ Kept(text, Released(X), X)
         /\ Heap(Released(X)) + BytesOf(X) = Heap(text)
         /\ Heap(Released(X)) \in Nat /\ BytesOf(X) \in Nat
<1>1. Released(X) \in TextsOf /\ Kept(text, Released(X), X)
  BY Typed DEF Released, TextsOf, Kept
<1>2. PICK ty \in TextsOf : ty = Released(X)
  BY <1>1
<1>3. \A s \in Strings : ty[s] = IF s \in X \cap Strings THEN Freed ELSE text[s]
  BY <1>2 DEF Released
<1>4. /\ Heap(ty) + Sum(BytesAt(text), X \cap Strings) = Heap(text)
      /\ Sum(BytesAt(text), X \cap Strings) \in Nat
  <2>1. X \cap Strings \in SUBSET Strings /\ text \in TextsOf
    BY Typed
  <2>2. QED
    BY <1>3, <2>1, FreedBytes
<1>5. BytesOf(X) = Sum(BytesAt(text), X \cap Strings)
  <2>1. StringBytes = BytesAt(text)
    BY DEF StringBytes, BytesAt, Live
  <2>2. QED
    BY <2>1, ViewOfSums
<1>6. QED
  BY <1>1, <1>2, <1>4, <1>5, BytesAreNat

LEMMA AddNewTable ==
  ASSUME DictInv, NEW k, NEW v, Passes(k, v), AddNew(k, v)
  PROVE  /\ table' \in Tables /\ Keyed(table', text)
         /\ All(table') = All(table) \cup {[key |-> k, val |-> v]}
         /\ Sum(Lengths(table'), Buckets) = used + 1
         /\ \A e \in All(table) : Con(text, e.key) # Con(text, k)
         /\ StaysCleared(table, table')
<1> DEFINE c == Con(text, k)
           b == Bucket(c)
           e == [key |-> k, val |-> v]
<1>1. /\ c \in Contents /\ Con(text, v) \in Contents /\ Content(k) = c /\ e \in Entry
      /\ TypeOK /\ Keyed(table, text)
  BY PassedIs DEF Entry
<1>2. Reads(c) /\ Walk(c) = 0 /\ table' = [table EXCEPT ![b] = <<e>> \o table[b]]
  BY <1>1 DEF AddNew
<1>3. /\ b \in Buckets /\ table[b] # Wild /\ table[b] \in Seq(Entry) /\ table \in Tables
      /\ \A i \in DOMAIN table[b] : Con(text, table[b][i].key) # c
  <2> HIDE DEF c
  <2>1. QED
    BY <1>1, <1>2, WalkFinds
<1>4. PICK s \in Seq(Entry), d \in Buckets : s = table[b] /\ d = b
  BY <1>3
<1>5. e.key = k /\ e.val = v
  OBVIOUS
<1> HIDE DEF e
<1>6. table' = With(table, d, Grown(s, e))
  BY <1>2, <1>4 DEF With, Grown
<1>7. Fits(s, text, d)
  BY <1>1, <1>3, <1>4 DEF Keyed
<1>8. Grown(s, e) \in Seq(Entry) /\ Len(Grown(s, e)) = Len(s) + 1 /\ Len(s) \in Nat
  BY <1>1, GrownChain
<1>9. Fits(Grown(s, e), text, d)
  <2>1. Bucket(Con(text, e.key)) = d /\ \A i \in DOMAIN s : Con(text, s[i].key) # Con(text, e.key)
    BY <1>3, <1>4, <1>5
  <2>2. Con(text, e.key) \in Contents /\ Con(text, e.val) \in Contents
    BY <1>1, <1>5
  <2>3. QED
    BY <1>1, <1>7, <2>1, <2>2, GrownFits
<1>10. Keyed(table', text)
  BY <1>1, <1>3, <1>6, <1>8, <1>9, WithKeyed
<1>11. table' \in Tables /\ All(table') = All(table) \cup {e}
  BY <1>1, <1>3, <1>4, <1>6, GrownTable
<1>12. Sum(Lengths(table'), Buckets) = used + 1
  <2>1. /\ Sum(Lengths(With(table, d, Grown(s, e))), Buckets) + Len(table[d])
              = Sum(Lengths(table), Buckets) + Len(Grown(s, e))
        /\ Sum(Lengths(With(table, d, Grown(s, e))), Buckets) \in Nat
    BY <1>3, <1>4, <1>8, WithLength
  <2>2. PICK n \in Nat, l \in Nat :
          n = Sum(Lengths(With(table, d, Grown(s, e))), Buckets) /\ l = Len(s)
    BY <1>8, <2>1
  <2>3. n + l = used + (l + 1)
    BY <1>4, <1>8, <2>1, <2>2, Typed
  <2>4. n = used + 1
    BY <2>3, Typed
  <2>5. QED
    BY <1>6, <2>2, <2>4
<1>13. ASSUME NEW f \in All(table), Con(text, f.key) = Con(text, k)
       PROVE  FALSE
  <2>1. \E i \in DOMAIN table[Bucket(Con(text, f.key))] : table[Bucket(Con(text, f.key))][i] = f
    BY <1>1, <1>3, KeyTells
  <2>2. QED
    BY <1>3, <1>13, <2>1
<1>14. StaysCleared(table, table')
  BY <1>3, <1>6, <1>8, WithCleared
<1>15. QED
  BY <1>10, <1>11, <1>12, <1>13, <1>14 DEF e

LEMMA AddNewInv ==
  ASSUME DictInv, NEW k, NEW v, Passes(k, v), AddNew(k, v)
  PROVE  DictInv'
<1>1. /\ state' = state /\ text' = text /\ used' = used + 1 /\ MemTotal' = MemTotal + EntryBytes
      /\ state \in {"int", "string"}
  BY PassedIs DEF AddNew
<1>2. /\ table' \in Tables /\ Keyed(table', text)
      /\ All(table') = All(table) \cup {[key |-> k, val |-> v]}
      /\ Sum(Lengths(table'), Buckets) = used + 1
  BY AddNewTable
<1>3. OfOneKind'
  <2>1. CASE state = "int"
    <3>1. [key |-> k, val |-> v] \in [key : Ints, val : Ints]
      BY <2>1, PassedIs
    <3>2. QED
      BY <1>1, <1>2, <2>1, <3>1 DEF DictInv, OfOneKind
  <2>2. CASE state = "string"
    <3>1. Owned(All(table) \cup {[key |-> k, val |-> v]}, text)
      BY <2>2, PassedIs, OwnedAdd DEF DictInv, OfOneKind
    <3>2. QED
      BY <1>1, <1>2, <2>2, <3>1 DEF OfOneKind
  <2>3. QED
    BY <1>1, <2>1, <2>2
<1>4. Counted'
  <2>1. ASSUME state = "string"
        PROVE  Cardinality(HeldBy(All(table'))) = 2 * (used + 1)
    <3>1. Cardinality(HeldBy(All(table) \cup {[key |-> k, val |-> v]})) = Cardinality(HeldBy(All(table))) + 2
      BY <2>1, PassedIs, OwnedAdd DEF DictInv, OfOneKind
    <3>2. Cardinality(HeldBy(All(table))) = 2 * used /\ used \in Nat
      BY <2>1, Typed DEF DictInv, Counted
    <3>3. QED
      BY <1>2, <3>1, <3>2
  <2>2. QED
    BY <1>1, <1>2, <2>1 DEF Counted
<1>5. MemTotal' \in Nat /\ MemShape'
  <2>1. PICK m \in Nat, h \in Nat, r \in Nat : m = MemTotal /\ h = Heap(text) /\ r = Rest(state, used)
    BY Typed, BytesAreNat, RestIs
  <2>2. m = h + r
    BY <1>1, <2>1, Typed DEF MemShape
  <2>3. Rest(state', used') = r + EntryBytes
    BY <1>1, <2>1, Typed, RestIs
  <2>4. Heap(text)' = h /\ MemTotal' = m + EntryBytes
    BY <1>1, <2>1
  <2>5. MemTotal' = h + (r + EntryBytes) /\ MemTotal' \in Nat
    BY <2>2, <2>4, Given
  <2>6. QED
    BY <2>3, <2>4, <2>5 DEF MemShape
<1>6. QED
  BY <1>1, <1>2, <1>3, <1>4, <1>5, InvIsShape, Typed

(* dictAdd of a key that is there replaces one entry.                      *)
LEMMA AddExistingTable ==
  ASSUME DictInv, NEW k, NEW v, Passes(k, v), AddExisting(k, v)
  PROVE  \E e \in All(table) :
           /\ Con(text, e.key) = Con(text, k)
           /\ text' = Released({e.val}) /\ MemTotal' = MemTotal - BytesOf({e.val})
           /\ table' \in Tables /\ Keyed(table', text)
           /\ All(table') = (All(table) \ {e}) \cup {[key |-> e.key, val |-> v]}
           /\ Sum(Lengths(table'), Buckets) = used
           /\ StaysCleared(table, table')
<1> DEFINE c == Con(text, k)
           b == Bucket(c)
           i == Walk(c)
<1>1. /\ c \in Contents /\ Con(text, v) \in Contents /\ Content(k) = c /\ v \in Ints \cup Strings
      /\ TypeOK /\ Keyed(table, text)
  BY PassedIs
<1>2. /\ Reads(c) /\ i # 0 /\ table' = [table EXCEPT ![b] = [table[b] EXCEPT ![i].val = v]]
      /\ text' = Released({table[b][i].val}) /\ MemTotal' = MemTotal - BytesOf({table[b][i].val})
  BY <1>1 DEF AddExisting, WithValue
<1>3. /\ b \in Buckets /\ table[b] # Wild /\ table[b] \in Seq(Entry) /\ table \in Tables
      /\ i \in DOMAIN table[b] /\ Con(text, table[b][i].key) = c
  <2> HIDE DEF c
  <2>1. QED
    BY <1>1, <1>2, WalkFinds
<1>4. PICK s \in Seq(Entry), d \in Buckets : s = table[b] /\ d = b
  BY <1>3
<1>5. PICK j \in DOMAIN s : j = i
  BY <1>3, <1>4
<1>6. table' = With(table, d, Changed(s, j, v))
  BY <1>2, <1>4, <1>5 DEF With, Changed
<1>7. Fits(s, text, d) /\ s[j] = table[b][i] /\ Con(text, s[j].key) = c
  BY <1>1, <1>3, <1>4, <1>5 DEF Keyed
<1>8. Changed(s, j, v) \in Seq(Entry) /\ Len(Changed(s, j, v)) = Len(s) /\ Len(s) \in Nat
  <2>1. v \in Ints \cup Strings
    BY <1>1
  <2>2. Changed(s, j, v) \in Seq(Entry)
    BY <2>1, ChangedChain
  <2>3. Len(Changed(s, j, v)) = Len(s)
    BY <2>1, ChangedChain
  <2>4. QED
    BY <2>2, <2>3
<1>9. Fits(Changed(s, j, v), text, d)
  BY <1>1, <1>7, ChangedFits
<1>10. Keyed(table', text)
  BY <1>1, <1>3, <1>6, <1>8, <1>9, WithKeyed
<1>11. /\ table' \in Tables /\ s[j] \in All(table)
       /\ All(table') = (All(table) \ {s[j]}) \cup {[key |-> s[j].key, val |-> v]}
  BY <1>1, <1>3, <1>4, <1>6, ChangedTable
<1>12. Sum(Lengths(table'), Buckets) = used
  <2>1. /\ Sum(Lengths(With(table, d, Changed(s, j, v))), Buckets) + Len(table[d])
              = Sum(Lengths(table), Buckets) + Len(Changed(s, j, v))
        /\ Sum(Lengths(With(table, d, Changed(s, j, v))), Buckets) \in Nat
    BY <1>3, <1>4, <1>8, WithLength
  <2>2. PICK n \in Nat, l \in Nat :
          n = Sum(Lengths(With(table, d, Changed(s, j, v))), Buckets) /\ l = Len(s)
    BY <1>8, <2>1
  <2>3. n + l = used + l
    BY <1>4, <1>8, <2>1, <2>2, Typed
  <2>4. n = used
    BY <2>3, Typed
  <2>5. QED
    BY <1>6, <2>2, <2>4
<1>13. StaysCleared(table, table')
  BY <1>3, <1>6, <1>8, WithCleared
<1>14. QED
  BY <1>2, <1>7, <1>10, <1>11, <1>12, <1>13

(* The texts of the entries that are left when the strings of X are freed. *)
LEMMA LeftAlone ==
  ASSUME DictInv, Open, NEW A, NEW X,
         state = "int" => A \subseteq [key : Ints, val : Ints],
         state = "string" => A \subseteq [key : Strings, val : Strings] /\ HeldBy(A) \cap X = {}
  PROVE  SameOn(A, text, Released(X))
<1>1. CASE state = "int"
  BY <1>1, IntsSame
<1>2. CASE state = "string"
  <2>1. Kept(text, Released(X), X)
    BY ReleasedText
  <2>2. QED
    BY <1>2, <2>1, StringsSame
<1>3. QED
  BY <1>1, <1>2 DEF Open

LEMMA AddExistingInv ==
  ASSUME DictInv, NEW k, NEW v, Passes(k, v), AddExisting(k, v)
  PROVE  DictInv' /\ SameOn(All(table'), text, text')
<1>1. state' = state /\ used' = used /\ state \in {"int", "string"}
  BY PassedIs DEF AddExisting
<1>2. PICK e \in All(table) :
           /\ Con(text, e.key) = Con(text, k)
           /\ text' = Released({e.val}) /\ MemTotal' = MemTotal - BytesOf({e.val})
           /\ table' \in Tables /\ Keyed(table', text)
           /\ All(table') = (All(table) \ {e}) \cup {[key |-> e.key, val |-> v]}
           /\ Sum(Lengths(table'), Buckets) = used
  BY AddExistingTable
<1>3. PICK A, n : A = (All(table) \ {e}) \cup {n} /\ n = [key |-> e.key, val |-> v]
  OBVIOUS
<1>4. PICK tb \in Tables, ty \in TextsOf : tb = table' /\ ty = text' /\ Kept(text, ty, {e.val})
  BY <1>2, ReleasedText
<1>5. ASSUME state = "int"
      PROVE  A \subseteq [key : Ints, val : Ints]
  BY <1>3, <1>5, PassedIs DEF DictInv, OfOneKind
<1>6. ASSUME state = "string"
      PROVE  /\ Owned(A, ty) /\ Cardinality(HeldBy(A)) = Cardinality(HeldBy(All(table)))
             /\ A \subseteq [key : Strings, val : Strings] /\ HeldBy(A) \cap {e.val} = {}
  <2>1. Owned(All(table), text) /\ v \in Strings /\ text[v] # Freed /\ v \notin HeldBy(All(table))
    BY <1>6, PassedIs DEF DictInv, OfOneKind
  <2>2. Owned(A, ty) /\ Cardinality(HeldBy(A)) = Cardinality(HeldBy(All(table)))
    BY <1>3, <1>4, <2>1, OwnedChange
  <2>3. A \subseteq [key : Strings, val : Strings]
    BY <2>2 DEF Owned
  <2>4. ty[e.val] = Freed
    BY <1>2, <1>4, <2>1 DEF Released, Owned
  <2>5. \A f \in A : f.key # e.val /\ f.val # e.val
    BY <2>2, <2>4 DEF Owned
  <2>6. QED
    BY <2>2, <2>3, <2>5 DEF HeldBy
<1>7. SameOn(A, text, ty)
  <2>1. SameOn(A, text, Released({e.val}))
    BY <1>5, <1>6, PassedIs, LeftAlone
  <2>2. QED
    BY <1>2, <1>4, <2>1
<1>8. All(tb) = A /\ Keyed(tb, text)
  BY <1>2, <1>3, <1>4
<1>9. Keyed(table', text')
  BY <1>4, <1>7, <1>8, SameContents
<1>10. OfOneKind' /\ Counted'
  BY <1>1, <1>2, <1>4, <1>5, <1>6, <1>8 DEF OfOneKind, Counted, DictInv
<1>11. MemTotal' \in Nat /\ MemShape'
  <2>1. PICK m \in Nat, h \in Nat, r \in Nat, x \in Nat :
          m = MemTotal /\ h = Heap(ty) /\ r = Rest(state, used) /\ x = BytesOf({e.val})
    BY Typed, BytesAreNat, RestIs, ReleasedText
  <2>2. Heap(text) = h + x
    BY <1>2, <1>4, <2>1, ReleasedText
  <2>3. m = (h + x) + r
    BY <1>1, <2>1, <2>2, Typed DEF MemShape
  <2>4. MemTotal' = m - x /\ Heap(text)' = h
    BY <1>2, <1>4, <2>1
  <2>5. MemTotal' = h + r
    BY <2>3, <2>4
  <2>6. QED
    BY <1>1, <2>1, <2>4, <2>5 DEF MemShape
<1>12. QED
  BY <1>1, <1>2, <1>4, <1>7, <1>8, <1>9, <1>10, <1>11, InvIsShape, Typed

-----------------------------------------------------------------------------
(* dictFind and dictDel.                                                   *)
LEMMA SearchedIs ==
  ASSUME DictInv, Open, NEW k, Searchable(k)
  PROVE  Content(k) = Con(text, k) /\ Con(text, k) \in Contents /\ Keyed(table, text) /\ TypeOK
<1>1. CASE state = "int"
  BY <1>1, ContentOfInt DEF Searchable, DictInv
<1>2. CASE state = "string"
  BY <1>2, ContentOfString DEF Searchable, DictInv
<1>3. QED
  BY <1>1, <1>2 DEF Open

(* dictDel of a key that is there takes one entry out.                     *)
DeletesEntry(k, e) ==
  /\ Con(text, e.key) = Con(text, k)
  /\ text' = Released({e.key, e.val})
  /\ MemTotal' = MemTotal - BytesOf({e.key, e.val}) - EntryBytes
  /\ used' = used - 1
  /\ ret' = [call |-> <<"del", Con(text, k)>>, code |-> "ok", value |-> NoValue]
  /\ table' \in Tables /\ Keyed(table', text)
  /\ All(table') = All(table) \ {e}
  /\ Sum(Lengths(table'), Buckets) + 1 = used
  /\ Sum(Lengths(table'), Buckets) \in Nat
  /\ StaysCleared(table, table')

DeletesNothing(k) ==
  /\ \A e \in All(table) : Con(text, e.key) # Con(text, k)
  /\ ret' = [call |-> <<"del", Con(text, k)>>, code |-> "not_exist", value |-> NoValue]
  /\ UNCHANGED <<table, used, text, MemTotal>>

LEMMA DeleteTable ==
  ASSUME DictInv, Open, NEW k, DictDel(k)
  PROVE  DeletesNothing(k) \/ \E e \in All(table) : DeletesEntry(k, e)
<1> DEFINE c == Con(text, k)
           b == Bucket(c)
           i == Walk(c)
<1>1. c \in Contents /\ Content(k) = c /\ TypeOK /\ Keyed(table, text) /\ Reads(c)
  BY SearchedIs DEF DictDel
<1>2. /\ b \in Buckets /\ table[b] # Wild /\ table[b] \in Seq(Entry) /\ table \in Tables
      /\ i = 0 => \A j \in DOMAIN table[b] : Con(text, table[b][j].key) # c
      /\ i # 0 => i \in DOMAIN table[b] /\ Con(text, table[b][i].key) = c
  <2> HIDE DEF c
  <2>1. QED
    BY <1>1, WalkFinds
<1>3. CASE i = 0
  <2>1. /\ ret' = [call |-> <<"del", c>>, code |-> "not_exist", value |-> NoValue]
        /\ UNCHANGED <<table, used, text, MemTotal>>
    BY <1>1, <1>3 DEF DictDel, Returns
  <2>2. ASSUME NEW f \in All(table), Con(text, f.key) = c
        PROVE  FALSE
    <3>1. \E j \in DOMAIN table[Bucket(Con(text, f.key))] : table[Bucket(Con(text, f.key))][j] = f
      BY <1>1, <1>2, KeyTells
    <3>2. QED
      BY <1>2, <1>3, <2>2, <3>1
  <2>3. QED
    BY <2>1, <2>2 DEF DeletesNothing
<1>4. CASE i # 0
  <2>1. /\ table' = [table EXCEPT ![b] = RemoveAt(table[b], i)]
        /\ text' = Released({table[b][i].key, table[b][i].val})
        /\ MemTotal' = MemTotal - BytesOf({table[b][i].key, table[b][i].val}) - EntryBytes
        /\ used' = used - 1
        /\ ret' = [call |-> <<"del", c>>, code |-> "ok", value |-> NoValue]
    BY <1>1, <1>4 DEF DictDel, Returns
  <2>2. PICK s \in Seq(Entry), d \in Buckets : s = table[b] /\ d = b
    BY <1>2
  <2>3. PICK j \in DOMAIN s : j = i
    BY <1>2, <1>4, <2>2
  <2>4. table' = With(table, d, RemoveAt(s, j))
    BY <2>1, <2>2, <2>3 DEF With
  <2>5. Fits(s, text, d) /\ s[j] = table[b][i] /\ Con(text, s[j].key) = c
    BY <1>1, <1>2, <1>4, <2>2, <2>3 DEF Keyed
  <2>6. /\ RemoveAt(s, j) \in Seq(Entry) /\ Len(RemoveAt(s, j)) = Len(s) - 1
        /\ Len(s) \in Nat /\ Len(s) - 1 \in Nat
    BY CutChain
  <2>7. Fits(RemoveAt(s, j), text, d)
    BY <2>5, CutFits
  <2>8. Keyed(table', text)
    BY <1>1, <1>2, <2>4, <2>6, <2>7, WithKeyed
  <2>9. table' \in Tables /\ s[j] \in All(table) /\ All(table') = All(table) \ {s[j]}
    BY <1>1, <1>2, <2>2, <2>4, CutTable
  <2>10. /\ Sum(Lengths(table'), Buckets) + 1 = used
         /\ Sum(Lengths(table'), Buckets) \in Nat
    <3>1. /\ Sum(Lengths(With(table, d, RemoveAt(s, j))), Buckets) + Len(table[d])
                = Sum(Lengths(table), Buckets) + Len(RemoveAt(s, j))
          /\ Sum(Lengths(With(table, d, RemoveAt(s, j))), Buckets) \in Nat
      BY <1>2, <2>2, <2>6, WithLength
    <3>2. PICK n \in Nat, l \in Nat :
            n = Sum(Lengths(With(table, d, RemoveAt(s, j))), Buckets) /\ l = Len(s)
      BY <2>6, <3>1
    <3>3. n + l = used + (l - 1)
      BY <2>2, <2>6, <3>1, <3>2, Typed
    <3>4. n + 1 = used
      BY <3>3, Typed
    <3>5. QED
      BY <2>4, <3>2, <3>4
  <2>11. StaysCleared(table, table')
    BY <1>2, <2>4, <2>6, WithCleared
  <2>12. DeletesEntry(k, s[j])
    BY <2>1, <2>5, <2>8, <2>9, <2>10, <2>11 DEF DeletesEntry
  <2>13. QED
    BY <2>9, <2>12
<1>5. QED
  BY <1>3, <1>4

LEMMA DeleteEntryInv ==
  ASSUME DictInv, Open, UNCHANGED state, NEW k, NEW e \in All(table), DeletesEntry(k, e)
  PROVE  DictInv' /\ SameOn(All(table'), text, text')
<1>1. PICK A : A = All(table) \ {e}
  OBVIOUS
<1>2. PICK tb \in Tables, ty \in TextsOf :
        tb = table' /\ ty = text' /\ Kept(text, ty, {e.key, e.val}) /\ ty = Released({e.key, e.val})
  BY ReleasedText DEF DeletesEntry
<1>3. All(tb) = A /\ Keyed(tb, text)
  BY <1>1, <1>2 DEF DeletesEntry
<1>4. ASSUME state = "int"
      PROVE  A \subseteq [key : Ints, val : Ints]
  BY <1>1, <1>4 DEF DictInv, OfOneKind
<1>5. ASSUME state = "string"
      PROVE  /\ Owned(A, ty) /\ Cardinality(HeldBy(All(table))) = Cardinality(HeldBy(A)) + 2
             /\ A \subseteq [key : Strings, val : Strings] /\ HeldBy(A) \cap {e.key, e.val} = {}
  <2>1. Owned(All(table), text)
    BY <1>5 DEF DictInv, OfOneKind
  <2>2. Owned(A, ty) /\ Cardinality(HeldBy(All(table))) = Cardinality(HeldBy(A)) + 2
    BY <1>1, <1>2, <2>1, OwnedDrop
  <2>3. A \subseteq [key : Strings, val : Strings]
    BY <2>2 DEF Owned
  <2>4. ty[e.key] = Freed /\ ty[e.val] = Freed
    BY <1>2, <2>1 DEF Released, Owned
  <2>5. \A f \in A : f.key \notin {e.key, e.val} /\ f.val \notin {e.key, e.val}
    BY <2>2, <2>4 DEF Owned
  <2>6. QED
    BY <2>2, <2>3, <2>5 DEF HeldBy
<1>6. SameOn(A, text, ty)
  <2>1. SameOn(A, text, Released({e.key, e.val}))
    BY <1>4, <1>5, LeftAlone
  <2>2. QED
    BY <1>2, <2>1
<1>7. Keyed(table', text')
  BY <1>2, <1>3, <1>6, SameContents
<1>8. PICK n \in Nat, u \in Nat :
        n = Sum(Lengths(table'), Buckets) /\ u = used /\ n + 1 = u /\ used' = n
  BY Typed DEF DeletesEntry
<1>9. OfOneKind'
  BY <1>2, <1>3, <1>4, <1>5 DEF OfOneKind, Open
<1>10. Counted'
  <2>1. ASSUME state = "string"
        PROVE  Cardinality(HeldBy(A)) = 2 * n
    <3>1. Cardinality(HeldBy(All(table))) = 2 * (n + 1)
      BY <1>8, <2>1 DEF DictInv, Counted
    <3>2. PICK m \in Nat : m = Cardinality(HeldBy(A))
      BY <1>5, <2>1, HeldFinite
    <3>3. m + 2 = 2 * (n + 1)
      BY <1>5, <2>1, <3>1, <3>2
    <3>4. QED
      BY <3>2, <3>3
  <2>2. QED
    BY <1>2, <1>3, <1>8, <2>1 DEF Counted
<1>11. MemTotal' \in Nat /\ MemShape'
  <2>1. PICK m \in Nat, h \in Nat, r \in Nat, x \in Nat :
          /\ m = MemTotal /\ h = Heap(ty) /\ r = Rest(state, n) /\ x = BytesOf({e.key, e.val})
    BY <1>8, Typed, BytesAreNat, RestIs, ReleasedText
  <2>2. Heap(text) = h + x
    BY <1>2, <2>1, ReleasedText
  <2>3. state \in {"int", "string"}
    BY DEF Open
  <2>4. Rest(state, used) = r + EntryBytes
    BY <1>8, <2>1, <2>3, RestIs
  <2>5. m = (h + x) + (r + EntryBytes)
    BY <2>1, <2>2, <2>3, <2>4, Typed DEF MemShape
  <2>6. MemTotal' = m - x - EntryBytes /\ Heap(text)' = h /\ Rest(state, used)' = r
    BY <1>2, <1>8, <2>1 DEF DeletesEntry
  <2>7. MemTotal' = h + r
    BY <2>5, <2>6, Given
  <2>8. QED
    BY <2>1, <2>6, <2>7 DEF MemShape
<1>12. state' \in {"int", "string"} /\ used' \in Nat
  BY <1>8 DEF Open
<1>13. QED
  BY <1>2, <1>3, <1>6, <1>7, <1>9, <1>10, <1>11, <1>12, InvIsShape

-----------------------------------------------------------------------------
(* dictDestroy and dictDestruct: what is left is the dict and its table,   *)
(* or nothing.                                                             *)
LEMMA EmptyInv ==
  ASSUME DictInv, DictDestroy \/ DictDestruct
  PROVE  DictInv' /\ All(table') = {}
<1>1. /\ Empty /\ state' \in {state, "none"}
      /\ MemTotal' = IF state' = "none"
                       THEN MemTotal - BytesOf(Held) - EntryCount * EntryBytes
                            - TableSize * PointerBytes - DictBytes
                       ELSE MemTotal - BytesOf(Held) - EntryCount * EntryBytes
  BY DEF DictDestroy, DictDestruct, Empty, Open
<1>2. /\ state \in {"int", "string"} /\ text' = Released(Held) /\ used' = 0
      /\ table' = [b \in Buckets |-> <<>>]
  BY <1>1, Typed, ViewOfSums DEF Empty, Open
<1>3. PICK tb \in [Buckets -> {<<>>, Wild}] : tb = table'
  BY <1>2
<1>4. tb \in Tables /\ All(tb) = {} /\ Sum(Lengths(tb), Buckets) = 0 /\ \A tx : Keyed(tb, tx)
  BY EmptyTable
<1>5. OfOneKind' /\ Counted' /\ (Open' => Keyed(table', text'))
  <2>1. Keyed(tb, text') /\ Owned({}, text') /\ Cardinality(HeldBy({})) = 2 * 0
    BY <1>4, NothingHeld
  <2>2. OfOneKind'
    BY <1>3, <1>4, <2>1 DEF OfOneKind
  <2>3. Counted'
    BY <1>2, <1>3, <1>4, <2>1 DEF Counted
  <2>4. QED
    BY <1>3, <2>1, <2>2, <2>3
<1>6. PICK ty \in TextsOf : ty = text' /\ ty = Released(Held)
  BY <1>2, ReleasedText
<1>7. PICK m \in Nat, h \in Nat, x \in Nat, n \in Nat, d \in Nat :
        /\ m = MemTotal /\ h = Heap(ty) /\ x = BytesOf(Held) /\ n = used * EntryBytes
        /\ d = DictBytes + TableSize * PointerBytes
  <2>1. used * EntryBytes \in Nat /\ TableSize * PointerBytes \in Nat
    BY Given, Typed
  <2>2. DictBytes + TableSize * PointerBytes \in Nat
    BY <2>1, Given
  <2>3. QED
    BY <2>1, <2>2, Typed, BytesAreNat, ReleasedText
<1>8. Heap(text) = h + x
  BY <1>6, <1>7, ReleasedText
<1>9. m = (h + x) + (d + n)
  <2>1. Rest(state, used) = d + n
    BY <1>2, <1>7, Typed, RestIs
  <2>2. QED
    BY <1>2, <1>7, <1>8, <2>1, Typed DEF MemShape
<1>10. EntryCount = used
  BY Typed, ViewOfSums
<1>11. MemTotal' = IF state' = "none" THEN h ELSE h + d
  <2>1. PICK p \in Nat, q \in Nat : p = TableSize * PointerBytes /\ q = DictBytes /\ d = q + p
    BY <1>7, Given, RestIs
  <2>2. MemTotal' = IF state' = "none" THEN m - x - n - p - q ELSE m - x - n
    BY <1>1, <1>7, <1>10, <2>1
  <2>3. d = q + p
    BY <2>1
  <2>4. m - x - n - p - q = h /\ m - x - n = h + d
    BY <1>9, <2>3
  <2>5. QED
    BY <2>2, <2>4
<1>12. MemTotal' \in Nat /\ MemShape'
  <2>1. Heap(text)' = h /\ used' = 0
    BY <1>2, <1>6, <1>7
  <2>2. Rest(state', 0) = IF state' = "none" THEN 0 ELSE d
    BY <1>7, RestIs
  <2>3. QED
    BY <1>11, <2>1, <2>2 DEF MemShape
<1>13. QED
  BY <1>1, <1>2, <1>3, <1>4, <1>5, <1>6, <1>12, InvIsShape

-----------------------------------------------------------------------------
(* A step of the dict, by what it does to the map.                         *)
Inserts == \E k, v \in Ints \cup Strings : Passes(k, v) /\ AddNew(k, v)
Replaces == \E k, v \in Ints \cup Strings : Passes(k, v) /\ AddExisting(k, v)
Deletes == \E k \in Ints \cup Strings : DictDel(k)
Looks == \E k \in Ints \cup Strings : DictFind(k)
Empties == DictDestroy \/ DictDestruct
Stops == state' \in {"crashed", "nullStore"} /\ UNCHANGED <<table, used, text, MemTotal, ret>>
Creates == (\E type \in {"int", "string"} : DictCreate(type)) \/ DictCreateFails
Allocates ==
  (\E s \in Strings, t \in Texts : NewString(s, t)) \/ (\E s \in Strings : FreeString(s))

LEMMA NextIs ==
  ASSUME [Next]_vars
  PROVE  \/ Inserts \/ Replaces \/ Deletes \/ Looks \/ Empties \/ Stops \/ Creates
         \/ Allocates \/ UNCHANGED vars
<1>1. CASE \E k, v \in Ints \cup Strings : DictAdd(k, v)
  BY <1>1 DEF DictAdd, Passes, Inserts, Replaces, Stops, AddNoMemory
<1>2. CASE \E b \in Buckets : FollowWild(b)
  BY <1>2 DEF FollowWild, Stops
<1>3. QED
  BY <1>1, <1>2 DEF Next, Deletes, Looks, Empties, Creates, Allocates

LEMMA DeletesInv ==
  ASSUME DictInv, Deletes
  PROVE  DictInv'
<1>1. PICK k : DictDel(k)
  BY DEF Deletes
<1>2. Open /\ UNCHANGED state
  BY <1>1 DEF DictDel, Reads
<1>3. CASE DeletesNothing(k)
  BY <1>2, <1>3, StutterInv DEF DeletesNothing
<1>4. CASE \E e \in All(table) : DeletesEntry(k, e)
  BY <1>2, <1>4, DeleteEntryInv
<1>5. QED
  BY <1>1, <1>2, <1>3, <1>4, DeleteTable

LEMMA StepInv == DictInv /\ [Next]_vars => DictInv'
<1> SUFFICES ASSUME DictInv, [Next]_vars PROVE DictInv'
  OBVIOUS
<1>1. CASE Inserts
  BY <1>1, AddNewInv DEF Inserts
<1>2. CASE Replaces
  BY <1>2, AddExistingInv DEF Replaces
<1>3. CASE Deletes
  BY <1>3, DeletesInv
<1>4. CASE Looks
  BY <1>4, StutterInv DEF Looks, DictFind
<1>5. CASE Empties
  BY <1>5, EmptyInv DEF Empties
<1>6. CASE Stops
  BY <1>6, StopsInv DEF Stops
<1>7. CASE Creates
  BY <1>7, CreateInv, CreateFailsInv DEF Creates
<1>8. CASE Allocates
  BY <1>8, NewStringInv, FreeStringInv DEF Allocates
<1>9. CASE UNCHANGED vars
  BY <1>9, StutterInv DEF vars
<1>10. QED
  BY <1>1, <1>2, <1>3, <1>4, <1>5, <1>6, <1>7, <1>8, <1>9, NextIs

(* The inductive invariant of the dict: its entries are in the buckets of  *)
(* their keys, it owns the strings in them, and both counters are exact.   *)
THEOREM OwnershipInvariant == Spec => []DictInv
BY InitInv, StepInv, PTL DEF Spec

(* Nothing in the dict was freed, and no string is in it twice, after any  *)
(* sequence of operations and of failed allocations: hash_interface.c uses *)
(* nothing after it freed it, and frees nothing twice.                     *)
THEOREM HeldStringsStayLive == Spec => []HeldStringsLive
<1>1. DictInv => HeldStringsLive
  <2> SUFFICES ASSUME DictInv PROVE HeldStringsLive
    OBVIOUS
  <2>1. ASSUME state = "string"
        PROVE  (\A s \in Held : Live(s)) /\ Cardinality(Held) = 2 * used
    <3>1. Held = HeldBy(All(table)) /\ Owned(All(table), text)
      BY <2>1, ViewOfHeld DEF DictInv, OfOneKind
    <3>2. \A s \in Held : Live(s)
      BY <3>1 DEF HeldBy, Owned, Live
    <3>3. QED
      BY <2>1, <3>1, <3>2 DEF DictInv, Counted
  <2>2. QED
    BY <2>1 DEF HeldStringsLive, DictInv
<1>2. QED
  BY <1>1, OwnershipInvariant, PTL

(* MemTotal is at every moment what the caller's strings and the dict take:*)
(* when both are gone it is 0, as the tests assert.                        *)
THEOREM MemoryIsExact == Spec => []MemExact
<1>1. DictInv => MemExact
  BY DEF DictInv
<1>2. QED
  BY <1>1, OwnershipInvariant, PTL

-----------------------------------------------------------------------------
(* The buckets dictCreate clears hold chains from then on.                 *)
OnlyUncleared == \A b \in Buckets : b < Size => table[b] # Wild

LEMMA EmptyIsCleared == <<>> # Wild
<1>1. <<>> \in Seq(Entry)
  OBVIOUS
<1>2. QED
  BY <1>1, Given

LEMMA ClearedInit == Init => OnlyUncleared
<1>1. <<>> # Wild
  BY EmptyIsCleared
<1>2. QED
  BY <1>1 DEF Init, OnlyUncleared

LEMMA ClearedStep ==
  ASSUME DictInv, OnlyUncleared, [Next]_vars
  PROVE  OnlyUncleared'
<1>1. ASSUME StaysCleared(table, table')
      PROVE  OnlyUncleared'
  BY <1>1 DEF OnlyUncleared, StaysCleared
<1>2. ASSUME UNCHANGED table
      PROVE  OnlyUncleared'
  BY <1>2 DEF OnlyUncleared
<1>3. <<>> # Wild
  BY EmptyIsCleared
<1>4. CASE Inserts
  <2>1. PICK k, v : Passes(k, v) /\ AddNew(k, v)
    BY <1>4 DEF Inserts
  <2>2. StaysCleared(table, table')
    BY <2>1, AddNewTable
  <2>3. QED
    BY <1>1, <2>2
<1>5. CASE Replaces
  <2>1. PICK k, v : Passes(k, v) /\ AddExisting(k, v)
    BY <1>5 DEF Replaces
  <2>2. StaysCleared(table, table')
    BY <2>1, AddExistingTable
  <2>3. QED
    BY <1>1, <2>2
<1>6. CASE Deletes
  <2>1. PICK k : DictDel(k) /\ Open
    BY <1>6 DEF Deletes, DictDel, Reads
  <2>2. DeletesNothing(k) \/ \E e \in All(table) : DeletesEntry(k, e)
    BY <2>1, DeleteTable
  <2>3. StaysCleared(table, table') \/ UNCHANGED table
    BY <2>2 DEF DeletesNothing, DeletesEntry
  <2>4. QED
    BY <1>1, <1>2, <2>3
<1>7. CASE Looks
  BY <1>2, <1>7 DEF Looks, DictFind
<1>8. CASE Empties
  <2>1. table' = [b \in Buckets |-> <<>>]
    BY <1>8 DEF Empties, DictDestroy, DictDestruct, Empty
  <2>2. QED
    BY <1>3, <2>1 DEF OnlyUncleared
<1>9. CASE Stops
  BY <1>2, <1>9 DEF Stops
<1>10. CASE Creates
  <2>1. CASE DictCreateFails
    BY <1>2, <2>1 DEF DictCreateFails
  <2>2. CASE \E type \in {"int", "string"} : DictCreate(type)
    <3>1. \A b \in Buckets : b < Size => table'[b] = <<>>
      BY <2>2 DEF DictCreate
    <3>2. QED
      BY <1>3, <3>1 DEF OnlyUncleared
  <2>3. QED
    BY <1>10, <2>1, <2>2 DEF Creates
<1>11. CASE Allocates
  BY <1>2, <1>11 DEF Allocates, NewString, FreeString
<1>12. CASE UNCHANGED vars
  BY <1>2, <1>12 DEF vars
<1>13. QED
  BY <1>4, <1>5, <1>6, <1>7, <1>8, <1>9, <1>10, <1>11, <1>12, NextIs

(* The only steps that follow a wild pointer are those of FollowWild.      *)
LEMMA CrashIs ==
  ASSUME [Next]_vars, state # "crashed", state' = "crashed"
  PROVE  \E b \in Buckets : table[b] = Wild
<1>1. CASE \E b \in Buckets : FollowWild(b)
  BY <1>1 DEF FollowWild
<1>2. ASSUME NEW k, NEW v
      PROVE  ~DictAdd(k, v) /\ ~DictFind(k) /\ ~DictDel(k)
  BY DEF DictAdd, AddExisting, AddNew, AddNoMemory, DictFind, DictDel
<1>3. \A type \in {"int", "string"} : ~DictCreate(type)
  BY DEF DictCreate
<1>4. ~DictCreateFails /\ ~DictDestroy /\ ~DictDestruct
  BY DEF DictCreateFails, DictDestroy, DictDestruct
<1>5. \A s, t : ~NewString(s, t) /\ ~FreeString(s)
  BY DEF NewString, FreeString
<1>6. ~UNCHANGED vars
  BY DEF vars
<1>7. QED
  BY <1>1, <1>2, <1>3, <1>4, <1>5, <1>6 DEF Next

(* dictCreate's memset is the only cause of the crash: no bucket it clears *)
(* is ever followed into nowhere.                                          *)
THEOREM ClearedBucketsStay == Spec => []OnlyUncleared
<1>1. DictInv /\ OnlyUncleared /\ [Next]_vars => OnlyUncleared'
  BY ClearedStep
<1>2. QED
  BY <1>1, ClearedInit, OwnershipInvariant, PTL DEF Spec

(* ... so that a dict whose size is one that _dictNextPower leaves alone   *)
(* (4, 8, ...) never crashes: what the tests expect of dictCreate(type, 3) *)
(* holds of dictCreate(type, 4).                                           *)
THEOREM ExactSizesAreSafe ==
  ASSUME TableSize <= Size
  PROVE  Spec => []NeverFollowsWild
<1>1. Init => NeverFollowsWild
  BY DEF Init, NeverFollowsWild
<1>2. OnlyUncleared /\ NeverFollowsWild /\ [Next]_vars => NeverFollowsWild'
  <2> SUFFICES ASSUME OnlyUncleared, NeverFollowsWild, [Next]_vars, state' = "crashed"
               PROVE  FALSE
    BY DEF NeverFollowsWild
  <2>1. PICK b \in Buckets : table[b] = Wild
    BY CrashIs DEF NeverFollowsWild
  <2>2. b < Size
    BY DictInterfaceAssumption DEF Buckets
  <2>3. QED
    BY <2>1, <2>2 DEF OnlyUncleared
<1>3. QED
  BY <1>1, <1>2, ClearedBucketsStay, PTL DEF Spec

-----------------------------------------------------------------------------
(* The map: f takes the content of each key to that of its value.          *)
KeysIn(A, tx) == {Con(tx, e.key) : e \in A}

IsMap(A, tx, f) ==
  /\ f = [c \in KeysIn(A, tx) |-> f[c]]
  /\ \A e \in A : f[Con(tx, e.key)] = Con(tx, e.val)

TheMap == [c \in KeysHeld |-> ValueOf(c)]

LEMMA ViewOfKeys == KeysHeld = KeysIn(All(table), text)
<1>1. UNION {Entries(b) : b \in Buckets} = All(table)
  BY ViewOfContents DEF All
<1>2. QED
  BY <1>1, ViewOfContents DEF KeysHeld, KeysIn

(* A key is found when it is there, with its value.                        *)
LEMMA WalkOfKey ==
  ASSUME DictInv, NEW c \in Contents, Reads(c)
  PROVE  /\ Walk(c) # 0 <=> c \in KeysHeld
         /\ \A e \in All(table) : Con(text, e.key) = c => ValueOf(c) = Con(text, e.val)
<1>1. PICK b : b = Bucket(c)
  OBVIOUS
<1>2. PICK i : i = Walk(c)
  OBVIOUS
<1>3. /\ b \in Buckets /\ table[b] # Wild /\ table[b] \in Seq(Entry) /\ table \in Tables
      /\ i = 0 => \A j \in DOMAIN table[b] : Con(text, table[b][j].key) # c
      /\ i # 0 => i \in DOMAIN table[b] /\ Con(text, table[b][i].key) = c
  BY <1>1, <1>2, WalkFinds DEF DictInv
<1>4. Keyed(table, text) /\ Fits(table[b], text, b)
  BY <1>3 DEF DictInv, Reads, Keyed
<1>5. ASSUME NEW e \in All(table), Con(text, e.key) = c
      PROVE  i # 0 /\ ValueOf(c) = Con(text, e.val)
  <2>1. PICK j \in DOMAIN table[b] : table[b][j] = e
    BY <1>1, <1>3, <1>4, <1>5, KeyTells
  <2>2. i # 0
    BY <1>3, <1>5, <2>1
  <2>3. i = j
    BY <1>3, <1>4, <1>5, <2>1, <2>2 DEF Fits
  <2>4. ValueOf(c) = Content(table[b][i].val)
    BY <1>1, <1>2 DEF ValueOf
  <2>5. QED
    BY <2>1, <2>2, <2>3, <2>4, ViewOfContents
<1>6. i # 0 => c \in KeysHeld
  <2>1. i # 0 => table[b][i] \in All(table)
    BY <1>3 DEF All, EntriesIn, Range
  <2>2. QED
    BY <1>3, <2>1, ViewOfKeys DEF KeysIn
<1>7. c \in KeysHeld => i # 0
  BY <1>5, ViewOfKeys DEF KeysIn
<1>8. QED
  BY <1>2, <1>5, <1>6, <1>7

MapView ==
  DictInv /\ state \in {"none", "int", "string"} => IsMap(All(table), text, TheMap)

LEMMA TheMapIs == MapView
<1> SUFFICES ASSUME DictInv, state \in {"none", "int", "string"}
             PROVE  IsMap(All(table), text, TheMap)
  BY DEF MapView
<1>1. DOMAIN TheMap = KeysIn(All(table), text) /\ TheMap = [c \in KeysIn(All(table), text) |-> TheMap[c]]
  BY ViewOfKeys DEF TheMap
<1>2. ASSUME NEW e \in All(table)
      PROVE  TheMap[Con(text, e.key)] = Con(text, e.val)
  <2>1. Open /\ Keyed(table, text) /\ table \in Tables
    BY <1>2, Typed DEF DictInv, OfOneKind, Open
  <2>2. PICK c \in Contents : c = Con(text, e.key) /\ Reads(c)
    BY <2>1, KeyTells DEF Reads
  <2>3. ValueOf(c) = Con(text, e.val)
    BY <2>2, WalkOfKey
  <2>4. c \in KeysHeld
    BY <2>2, ViewOfKeys DEF KeysIn
  <2>5. QED
    BY <2>2, <2>3, <2>4 DEF TheMap
<1>3. QED
  BY <1>1, <1>2 DEF IsMap

(* It depends on the table and the texts only.                             *)
LEMMA SameMap ==
  ASSUME UNCHANGED <<table, text>>
  PROVE  TheMap' = TheMap
BY DEF TheMap, KeysHeld, ValueOf, Entries, Content, Walk, Bucket

(* How the map changes with the entries.                                   *)
LEMMA MapKept ==
  ASSUME NEW A, NEW tx, NEW ty, NEW f, NEW g, IsMap(A, tx, f), IsMap(A, ty, g), SameOn(A, tx, ty)
  PROVE  g = f
<1>1. KeysIn(A, ty) = KeysIn(A, tx)
  BY DEF KeysIn, SameOn
<1>2. \A c \in KeysIn(A, tx) : g[c] = f[c]
  BY DEF KeysIn, SameOn, IsMap
<1>3. QED
  BY <1>1, <1>2 DEF IsMap

MapWith(f, c, w) == [x \in DOMAIN f \cup {c} |-> IF x = c THEN w ELSE f[x]]

MapWithout(f, c) == [x \in DOMAIN f \ {c} |-> f[x]]

(* In B, the key c has the value w; the others are those of A.             *)
PutIn(A, B, tx, ty, c, w) ==
  /\ \A e \in B : \/ Con(ty, e.key) = c /\ Con(ty, e.val) = w
                  \/ /\ Con(ty, e.key) # c /\ e \in A
                     /\ Con(ty, e.key) = Con(tx, e.key) /\ Con(ty, e.val) = Con(tx, e.val)
  /\ \A e \in A : Con(tx, e.key) # c => e \in B /\ Con(ty, e.key) = Con(tx, e.key)
  /\ \E e \in B : Con(ty, e.key) = c

LEMMA MapPut ==
  ASSUME NEW A, NEW B, NEW tx, NEW ty, NEW f, NEW g, NEW c, NEW w,
         IsMap(A, tx, f), IsMap(B, ty, g), PutIn(A, B, tx, ty, c, w)
  PROVE  g = MapWith(f, c, w)
<1>1. DOMAIN f = KeysIn(A, tx)
  BY DEF IsMap
<1>2. KeysIn(B, ty) = KeysIn(A, tx) \cup {c}
  BY DEF KeysIn, PutIn
<1>3. \A x \in KeysIn(B, ty) : g[x] = IF x = c THEN w ELSE f[x]
  BY DEF KeysIn, PutIn, IsMap
<1>4. QED
  BY <1>1, <1>2, <1>3 DEF IsMap, MapWith

OnlyKey(A, tx, d, c) == Con(tx, d.key) = c /\ \A e \in A \ {d} : Con(tx, e.key) # c

LEMMA MapDrop ==
  ASSUME NEW A, NEW tx, NEW ty, NEW f, NEW g, NEW c, NEW d \in A,
         IsMap(A, tx, f), IsMap(A \ {d}, ty, g), SameOn(A \ {d}, tx, ty),
         OnlyKey(A, tx, d, c)
  PROVE  g = MapWithout(f, c) /\ c \in DOMAIN f
<1>0. Con(tx, d.key) = c /\ \A e \in A \ {d} : Con(tx, e.key) # c
  BY DEF OnlyKey
<1>1. DOMAIN f = KeysIn(A, tx) /\ c \in KeysIn(A, tx)
  BY <1>0 DEF IsMap, KeysIn
<1>2. KeysIn(A \ {d}, ty) = KeysIn(A, tx) \ {c}
  BY <1>0 DEF KeysIn, SameOn
<1>3. \A x \in KeysIn(A \ {d}, ty) : g[x] = f[x]
  BY DEF KeysIn, SameOn, IsMap
<1>4. QED
  BY <1>1, <1>2, <1>3 DEF IsMap, MapWithout

-----------------------------------------------------------------------------
(* The refinement, one step at a time.                                     *)
LEMMA Maps ==
  ASSUME DictInv, DictInv', state \in {"none", "int", "string"},
         state' \in {"none", "int", "string"}
  PROVE  IsMap(All(table), text, TheMap) /\ IsMap(All(table'), text', TheMap')
<1>1. MapView /\ MapView'
  BY TheMapIs, PTL
<1>2. QED
  BY <1>1 DEF MapView

(* The same of the state before the step, and after it.                    *)
Views == IsMap(All(table), text, TheMap) /\ IsMap(All(table'), text', TheMap')

PutHere(c, w) == PutIn(All(table), All(table'), text, text', c, w)

LEMMA PutMap ==
  ASSUME NEW c, NEW w, Views, PutHere(c, w)
  PROVE  TheMap' = MapWith(TheMap, c, w)
<1>1. PICK A : A = All(table)
  OBVIOUS
<1>2. PICK B : B = All(table')
  OBVIOUS
<1>3. PICK tx : tx = text
  OBVIOUS
<1>4. PICK ty : ty = text'
  OBVIOUS
<1>5. PICK f : f = TheMap
  OBVIOUS
<1>6. PICK g : g = TheMap'
  OBVIOUS
<1>7. IsMap(A, tx, f) /\ IsMap(B, ty, g) /\ PutIn(A, B, tx, ty, c, w)
  BY <1>1, <1>2, <1>3, <1>4, <1>5, <1>6 DEF Views, PutHere
<1>8. g = MapWith(f, c, w)
  BY <1>7, MapPut
<1>9. QED
  BY <1>5, <1>6, <1>8

PutStep(k, v, code) ==
  /\ TheMap' = MapWith(TheMap, k, v)
  /\ ret' = [call |-> <<"add", k, v>>, code |-> code, value |-> NoValue]
  /\ code = IF k \in DOMAIN TheMap THEN "exist" ELSE "ok"

LEMMA PutRefines ==
  ASSUME NEW k \in Contents, NEW v \in Contents, NEW code, PutStep(k, v, code)
  PROVE  Map!MapNext
BY DEF PutStep, MapWith, Map!MapNext, Map!Put, Map!Answers, TheMap, Contents

LEMMA InsertRefines ==
  ASSUME DictInv, DictInv', Inserts
  PROVE  Map!MapNext
<1>1. PICK k, v : Passes(k, v) /\ AddNew(k, v)
  BY DEF Inserts
<1>2. PICK c \in Contents, w \in Contents :
        c = Con(text, k) /\ w = Con(text, v) /\ c = Content(k) /\ w = Content(v)
  BY <1>1, PassedIs
<1>3. state \in {"int", "string"} /\ state' = state /\ text' = text
  BY <1>1, PassedIs DEF AddNew
<1>4. /\ All(table') = All(table) \cup {[key |-> k, val |-> v]}
      /\ \A e \in All(table) : Con(text, e.key) # c
  BY <1>1, <1>2, AddNewTable
<1>5. PutHere(c, w)
  <2>1. PICK A : A = All(table)
    OBVIOUS
  <2>2. PICK B : B = All(table')
    OBVIOUS
  <2>3. PICK tx : tx = text /\ tx = text'
    BY <1>3
  <2>4. /\ B = A \cup {[key |-> k, val |-> v]} /\ \A e \in A : Con(tx, e.key) # c
        /\ Con(tx, k) = c /\ Con(tx, v) = w
    BY <1>2, <1>4, <2>1, <2>2, <2>3
  <2>5. PICK n : n.key = k /\ n.val = v /\ B = A \cup {n}
    BY <2>4
  <2>6. PutIn(A, B, tx, tx, c, w)
    BY <2>4, <2>5 DEF PutIn
  <2>7. QED
    BY <2>1, <2>2, <2>3, <2>6 DEF PutHere
<1>6. Views
  BY <1>3, Maps DEF Views
<1>7. TheMap' = MapWith(TheMap, c, w)
  BY <1>5, <1>6, PutMap
<1>8. c \notin DOMAIN TheMap
  BY <1>4, <1>6 DEF Views, IsMap, KeysIn
<1>9. ret' = [call |-> <<"add", c, w>>, code |-> "ok", value |-> NoValue]
  BY <1>1, <1>2 DEF AddNew, Returns
<1>10. PutStep(c, w, "ok")
  BY <1>7, <1>8, <1>9 DEF PutStep
<1>11. QED
  BY <1>10, PutRefines

LEMMA ReplaceRefines ==
  ASSUME DictInv, DictInv', Replaces
  PROVE  Map!MapNext
<1>1. PICK k, v : Passes(k, v) /\ AddExisting(k, v)
  BY DEF Replaces
<1>2. PICK c \in Contents, w \in Contents :
        c = Con(text, k) /\ w = Con(text, v) /\ c = Content(k) /\ w = Content(v)
  BY <1>1, PassedIs
<1>3. state \in {"int", "string"} /\ state' = state
  BY <1>1, PassedIs DEF AddExisting
<1>4. SameOn(All(table'), text, text')
  BY <1>1, AddExistingInv
<1>5. PICK e \in All(table) :
        /\ Con(text, e.key) = Con(text, k)
        /\ All(table') = (All(table) \ {e}) \cup {[key |-> e.key, val |-> v]}
  BY <1>1, AddExistingTable
<1>6. \A f \in All(table) : Con(text, f.key) = c => f = e
  <2>1. Keyed(table, text) /\ table \in Tables
    BY <1>1, <1>3, Typed DEF DictInv, Open
  <2>2. QED
    BY <1>2, <1>5, <2>1, KeyIdentifies
<1>7. PutHere(c, w)
  <2>1. PICK A : A = All(table)
    OBVIOUS
  <2>2. PICK B : B = All(table')
    OBVIOUS
  <2>3. PICK tx : tx = text
    OBVIOUS
  <2>4. PICK ty : ty = text'
    OBVIOUS
  <2>5. PICK a : a = e.key
    OBVIOUS
  <2>6. /\ B = (A \ {e}) \cup {[key |-> a, val |-> v]} /\ e \in A
        /\ \A f \in A : Con(tx, f.key) = c => f = e
        /\ SameOn(B, tx, ty) /\ Con(tx, e.key) = c /\ Con(tx, a) = c /\ Con(tx, v) = w
    BY <1>2, <1>4, <1>5, <1>6, <2>1, <2>2, <2>3, <2>4, <2>5
  <2>7. PICK n : n \in B /\ n.key = a /\ n.val = v /\ B = (A \ {e}) \cup {n}
    BY <2>6
  <2>8. Con(ty, n.key) = c /\ Con(ty, n.val) = w
    BY <2>6, <2>7 DEF SameOn
  <2>9. PutIn(A, B, tx, ty, c, w)
    BY <2>6, <2>7, <2>8 DEF PutIn, SameOn
  <2>10. QED
    BY <2>1, <2>2, <2>3, <2>4, <2>9 DEF PutHere
<1>8. Views
  BY <1>3, Maps DEF Views
<1>9. TheMap' = MapWith(TheMap, c, w)
  BY <1>7, <1>8, PutMap
<1>10. c \in DOMAIN TheMap
  BY <1>2, <1>5, <1>8 DEF Views, IsMap, KeysIn
<1>11. ret' = [call |-> <<"add", c, w>>, code |-> "exist", value |-> NoValue]
  BY <1>1, <1>2 DEF AddExisting, Returns
<1>12. PutStep(c, w, "exist")
  BY <1>9, <1>10, <1>11 DEF PutStep
<1>13. QED
  BY <1>12, PutRefines

(* dictDel *)
DropStep(k, code) ==
  /\ TheMap' = IF k \in DOMAIN TheMap THEN MapWithout(TheMap, k) ELSE TheMap
  /\ ret' = [call |-> <<"del", k>>, code |-> code, value |-> NoValue]
  /\ code = IF k \in DOMAIN TheMap THEN "ok" ELSE "not_exist"

LEMMA DropRefines ==
  ASSUME NEW k \in Contents, NEW code, DropStep(k, code)
  PROVE  Map!MapNext
<1>1. TheMap = [x \in DOMAIN TheMap |-> TheMap[x]]
  BY DEF TheMap
<1>2. TheMap' = MapWithout(TheMap, k)
  <2>1. k \notin DOMAIN TheMap => DOMAIN TheMap \ {k} = DOMAIN TheMap
    OBVIOUS
  <2>2. QED
    BY <1>1, <2>1 DEF DropStep, MapWithout
<1>3. TheMap' = [x \in DOMAIN TheMap \ {k} |-> TheMap[x]]
  BY <1>2 DEF MapWithout
<1>4. Map!Delete(k)
  BY <1>3 DEF DropStep, Map!Delete, Map!Answers, Map!Restrict, TheMap
<1>5. QED
  BY <1>4 DEF Map!MapNext, Contents

LEMMA DropMap ==
  ASSUME NEW c, NEW e, Views, SameOn(All(table'), text, text'),
         All(table') = All(table) \ {e}, e \in All(table), OnlyKey(All(table), text, e, c)
  PROVE  TheMap' = MapWithout(TheMap, c) /\ c \in DOMAIN TheMap
<1>1. PICK A : A = All(table)
  OBVIOUS
<1>2. PICK tx : tx = text
  OBVIOUS
<1>3. PICK ty : ty = text'
  OBVIOUS
<1>4. PICK f : f = TheMap
  OBVIOUS
<1>5. PICK g : g = TheMap'
  OBVIOUS
<1>6. /\ IsMap(A, tx, f) /\ IsMap(A \ {e}, ty, g)
      /\ SameOn(A \ {e}, tx, ty) /\ e \in A /\ OnlyKey(A, tx, e, c)
  BY <1>1, <1>2, <1>3, <1>4, <1>5 DEF Views
<1>7. g = MapWithout(f, c) /\ c \in DOMAIN f
  BY <1>6, MapDrop
<1>8. QED
  BY <1>4, <1>5, <1>7

LEMMA DeleteRefines ==
  ASSUME DictInv, DictInv', Deletes
  PROVE  Map!MapNext
<1>1. PICK k : DictDel(k)
  BY DEF Deletes
<1>2. Open /\ state' = state
  BY <1>1 DEF DictDel, Reads
<1>3. PICK c \in Contents : c = Con(text, k)
  BY <1>1, <1>2, SearchedIs DEF DictDel
<1>4. Views
  BY <1>2, Maps DEF Open, Views
<1>5. CASE DeletesNothing(k)
  <2>1. TheMap' = TheMap /\ \A e \in All(table) : Con(text, e.key) # c
    BY <1>3, <1>5, SameMap DEF DeletesNothing
  <2>2. c \notin DOMAIN TheMap
    BY <1>4, <2>1 DEF Views, IsMap, KeysIn
  <2>3. DropStep(c, "not_exist")
    BY <1>3, <1>5, <2>1, <2>2 DEF DropStep, DeletesNothing
  <2>4. QED
    BY <2>3, DropRefines
<1>6. ASSUME NEW e \in All(table), DeletesEntry(k, e)
      PROVE  Map!MapNext
  <2>1. SameOn(All(table'), text, text') /\ All(table') = All(table) \ {e} /\ Con(text, e.key) = c
    BY <1>2, <1>3, <1>6, DeleteEntryInv DEF DeletesEntry
  <2>2. OnlyKey(All(table), text, e, c)
    <3>1. Keyed(table, text) /\ table \in Tables
      BY <1>2, Typed DEF DictInv
    <3>2. QED
      BY <2>1, <3>1, KeyIdentifies DEF OnlyKey
  <2>3. TheMap' = MapWithout(TheMap, c) /\ c \in DOMAIN TheMap
    BY <1>4, <2>1, <2>2, DropMap
  <2>4. DropStep(c, "ok")
    BY <1>3, <1>6, <2>3 DEF DropStep, DeletesEntry
  <2>5. QED
    BY <2>4, DropRefines
<1>7. QED
  BY <1>1, <1>2, <1>5, <1>6, DeleteTable

(* dictFind *)
LookStep(k, code, value) ==
  /\ TheMap' = TheMap
  /\ ret' = [call |-> <<"get", k>>, code |-> code, value |-> value]
  /\ k \in DOMAIN TheMap => code = "ok" /\ value = TheMap[k]
  /\ k \notin DOMAIN TheMap => code = "not_exist" /\ value = NoValue

LEMMA LookRefines ==
  ASSUME NEW k \in Contents, NEW code, NEW value, LookStep(k, code, value)
  PROVE  Map!MapNext
<1>1. Map!Lookup(k)
  BY DEF LookStep, Map!Lookup, Map!Answers, TheMap
<1>2. QED
  BY <1>1 DEF Map!MapNext, Contents

LEMMA FindRefines ==
  ASSUME DictInv, Looks
  PROVE  Map!MapNext
<1>1. PICK k : DictFind(k)
  BY DEF Looks
<1>2. Open /\ UNCHANGED <<table, text>>
  BY <1>1 DEF DictFind, Reads
<1>3. PICK c \in Contents : c = Con(text, k) /\ c = Content(k) /\ Reads(c)
  BY <1>1, <1>2, SearchedIs DEF DictFind
<1>4. TheMap' = TheMap
  BY <1>2, SameMap
<1>5. (Walk(c) # 0 <=> c \in KeysHeld) /\ DOMAIN TheMap = KeysHeld
  BY <1>3, WalkOfKey DEF TheMap
<1>6. CASE Walk(c) = 0
  <2>1. ret' = [call |-> <<"get", c>>, code |-> "not_exist", value |-> NoValue]
    BY <1>1, <1>3, <1>6 DEF DictFind, Returns
  <2>2. LookStep(c, "not_exist", NoValue)
    BY <1>4, <1>5, <1>6, <2>1 DEF LookStep
  <2>3. QED
    BY <2>2, LookRefines
<1>7. CASE Walk(c) # 0
  <2>1. PICK value : value = ValueOf(c)
    OBVIOUS
  <2>2. ret' = [call |-> <<"get", c>>, code |-> "ok", value |-> value]
    BY <1>1, <1>3, <1>7, <2>1 DEF DictFind, Returns, ValueOf
  <2>3. value = TheMap[c]
    BY <1>5, <1>7, <2>1 DEF TheMap
  <2>4. LookStep(c, "ok", value)
    BY <1>4, <1>5, <1>7, <2>2, <2>3 DEF LookStep
  <2>5. QED
    BY <2>4, LookRefines
<1>8. QED
  BY <1>6, <1>7

(* A dict without an entry is the empty map.                               *)
LEMMA NoEntryNoKey ==
  ASSUME NEW tx, NEW f, IsMap({}, tx, f)
  PROVE  f = [k \in {} |-> NoValue]
BY DEF IsMap, KeysIn

(* dictDestroy and dictDestruct *)
LEMMA EmptyRefines ==
  ASSUME DictInv, DictInv', Empties
  PROVE  Map!MapNext
<1>1. All(table') = {} /\ ret' = ret /\ state' \in {"none", "int", "string"}
  BY EmptyInv DEF Empties, DictDestroy, DictDestruct, Empty, Open
<1>2. MapView'
  BY TheMapIs, PTL
<1>3. IsMap({}, text', TheMap')
  BY <1>1, <1>2 DEF MapView
<1>4. TheMap' = [k \in {} |-> NoValue]
  BY <1>3, NoEntryNoKey
<1>5. QED
  BY <1>1, <1>4 DEF Map!MapNext, Map!Clear, TheMap

(* What else the program does leaves the map as it was.                    *)
LEMMA OthersRefine ==
  ASSUME DictInv, DictInv', Stops \/ Creates \/ Allocates \/ UNCHANGED vars
  PROVE  TheMap' = TheMap /\ ret' = ret
<1>1. CASE Stops \/ UNCHANGED vars
  BY <1>1, SameMap DEF Stops, vars
<1>2. CASE Creates
  <2>1. CASE DictCreateFails
    BY <2>1, SameMap DEF DictCreateFails
  <2>2. ASSUME NEW type \in {"int", "string"}, DictCreate(type)
        PROVE  TheMap' = TheMap /\ ret' = ret
    <3>1. /\ state = "none" /\ state' \in {"int", "string"} /\ ret' = ret
          /\ table' \in [Buckets -> {<<>>, Wild}]
      BY <2>2 DEF DictCreate
    <3>2. PICK tb \in [Buckets -> {<<>>, Wild}] : tb = table'
      BY <3>1
    <3>3. All(table') = {} /\ All(table) = {}
      BY <3>1, <3>2, EmptyTable DEF DictInv, OfOneKind
    <3>4. MapView /\ MapView'
      BY TheMapIs, PTL
    <3>5. IsMap({}, text, TheMap) /\ IsMap({}, text', TheMap')
      BY <3>1, <3>3, <3>4 DEF MapView
    <3>6. TheMap = [k \in {} |-> NoValue] /\ TheMap' = [k \in {} |-> NoValue]
      BY <3>5, NoEntryNoKey
    <3>7. QED
      BY <3>1, <3>6
  <2>3. QED
    BY <1>2, <2>1, <2>2 DEF Creates
<1>3. CASE Allocates
  <2>1. SameOn(All(table), text, text')
    BY <1>3, NewStringInv, FreeStringInv DEF Allocates
  <2>2. /\ state' = state /\ state \in {"none", "int", "string"} /\ ret' = ret
        /\ table' = table
    BY <1>3 DEF Allocates, NewString, FreeString
  <2>3. MapView /\ MapView'
    BY TheMapIs, PTL
  <2>4. PICK A : A = All(table) /\ A = All(table')
    BY <2>2
  <2>5. PICK ty : ty = text'
    OBVIOUS
  <2>6. PICK g : g = TheMap'
    OBVIOUS
  <2>7. IsMap(A, text, TheMap) /\ IsMap(A, ty, g) /\ SameOn(A, text, ty)
    BY <2>1, <2>2, <2>3, <2>4, <2>5, <2>6 DEF MapView
  <2>8. g = TheMap
    BY <2>7, MapKept
  <2>9. QED
    BY <2>2, <2>6, <2>8
<1>4. QED
  BY <1>1, <1>2, <1>3

LEMMA StepRefines == DictInv /\ DictInv' /\ [Next]_vars => [Map!MapNext]_(Map!mapVars)
<1> SUFFICES ASSUME DictInv, DictInv', [Next]_vars
             PROVE  [Map!MapNext]_(Map!mapVars)
  OBVIOUS
<1>1. CASE Inserts \/ Replaces \/ Deletes \/ Looks \/ Empties
  BY <1>1, InsertRefines, ReplaceRefines, DeleteRefines, FindRefines, EmptyRefines
<1>2. CASE Stops \/ Creates \/ Allocates \/ UNCHANGED vars
  BY <1>2, OthersRefine DEF TheMap, Map!mapVars
<1>3. QED
  BY <1>1, <1>2, NextIs

LEMMA InitRefines == Init => Map!MapInit
<1> SUFFICES ASSUME Init PROVE Map!MapInit
  OBVIOUS
<1>1. All(table) = {} /\ state = "none"
  BY InitInv DEF Init, DictInv, OfOneKind
<1>2. IsMap({}, text, TheMap)
  BY <1>1, InitInv, TheMapIs DEF MapView
<1>3. TheMap = [k \in {} |-> NoValue]
  BY <1>2, NoEntryNoKey
<1>4. QED
  BY <1>3 DEF Init, Map!MapInit, Map!NoCall, TheMap

(* hash_interface.c implements the dictionary of KeyValueMap, through the  *)
(* pointers it owns: dictFind returns what dictAdd last stored under a key *)
(* of the same content, whatever was added, deleted and freed in between.  *)
THEOREM RefinesMap == Spec => ImplementsMap
BY InitRefines, StepRefines, OwnershipInvariant, PTL DEF Spec, ImplementsMap, Map!MapSpec

-----------------------------------------------------------------------------
(* The heaps.                                                              *)

(* The node at place k of the first n places of at; there is none at 0, or *)
(* after the last.                                                         *)
Slot(at, n, k) == IF k \in 1..n THEN at[k] ELSE Null

Links == [Nodes -> Pointers]

(* The links pa, le and ri are those of the complete tree with the nodes   *)
(* at[1], at[2], ... at[n]: below place k are 2 * k and 2 * k + 1.         *)
Tree(at, n, pa, le, ri) ==
  /\ n \in Nat /\ at \in [1..n -> Nodes]
  /\ pa \in Links /\ le \in Links /\ ri \in Links
  /\ \A j, k \in 1..n : at[j] = at[k] => j = k
  /\ \A k \in 1..n : /\ pa[at[k]] = Slot(at, n, k \div 2)
                     /\ le[at[k]] = Slot(at, n, 2 * k)
                     /\ ri[at[k]] = Slot(at, n, 2 * k + 1)

LEMMA HeapGiven ==
  /\ IsFiniteSet(Nodes) /\ Null \notin Nodes /\ Priority \in [Nodes -> Int]
  /\ Cardinality(Nodes) \in Nat
BY HeapAssumption, FS_CardinalityType

LEMMA SlotFacts ==
  ASSUME NEW at, NEW n, NEW pa, NEW le, NEW ri, Tree(at, n, pa, le, ri)
  PROVE  /\ \A k \in Nat : Slot(at, n, k) \in Pointers
         /\ \A k \in 1..n : Slot(at, n, k) = at[k] /\ at[k] \in Nodes /\ at[k] # Null
         /\ \A k \in Nat, j \in 1..n : Slot(at, n, k) = at[j] <=> k = j
<1>1. \A k \in 1..n : Slot(at, n, k) = at[k] /\ at[k] \in Nodes /\ at[k] # Null
  BY HeapGiven DEF Tree, Slot
<1>2. \A k \in Nat : k \notin 1..n => Slot(at, n, k) = Null
  BY DEF Slot
<1>3. \A j, k \in 1..n : at[j] = at[k] => j = k
  BY DEF Tree
<1>4. QED
  BY <1>1, <1>2, <1>3 DEF Pointers

-----------------------------------------------------------------------------
(* The walk by the bits of a number.                                       *)
LEMMA Quotient ==
  ASSUME NEW k \in Nat, NEW d \in Nat \ {0}, NEW q \in Nat, NEW r \in 0..(d - 1), k = d * q + r
  PROVE  k \div d = q
OBVIOUS

LEMMA Halves ==
  ASSUME NEW k \in Nat, NEW o \in Nat \ {0}
  PROVE  (k \div o) \div 2 = k \div (2 * o)
<1>1. PICK q \in Nat : q = k \div o
  OBVIOUS
<1>2. PICK r \in 0..(o - 1) : k = o * q + r
  <2>1. k % o \in 0..(o - 1)
    OBVIOUS
  <2>2. k = o * (k \div o) + (k % o)
    OBVIOUS
  <2>3. QED
    BY <1>1, <2>1, <2>2
<1>3. PICK p \in Nat : p = q \div 2
  OBVIOUS
<1>4. PICK b \in {0, 1} : q = 2 * p + b
  BY <1>3
<1>5. o * q = (2 * o) * p + o * b
  BY <1>4
<1>6. o * b + r \in 0..(2 * o - 1)
  BY <1>2
<1>7. PICK d \in Nat \ {0} : d = 2 * o
  OBVIOUS
<1>8. PICK x \in 0..(d - 1) : x = o * b + r
  BY <1>6, <1>7
<1>9. k = d * p + x
  BY <1>2, <1>5, <1>7, <1>8
<1>10. k \div d = p
  BY <1>9, Quotient
<1>11. QED
  BY <1>1, <1>3, <1>7, <1>10

(* The loop of heapGetOffset: its recursion has a solution. *)
IsFrom(f, k) == f = [o \in 1..k |-> IF o > k \div 2 THEN o \div 2 ELSE f[2 * o]]

LEMMA FromExists ==
  ASSUME NEW k \in Nat \ {0}
  PROVE  \E f : IsFrom(f, k)
<1> DEFINE Above(f, m) == f = [o \in (k - m + 1)..k |-> IF o > k \div 2 THEN o \div 2 ELSE f[2 * o]]
           T == {m \in Nat : m <= k => \E f : Above(f, m)}
<1>1. 0 \in T
  <2>1. Above([o \in (k - 0 + 1)..k |-> 0], 0)
    OBVIOUS
  <2>2. QED
    BY <2>1
<1>2. ASSUME NEW m \in T \cap Nat
      PROVE  m + 1 \in T
  <2> SUFFICES ASSUME m + 1 <= k PROVE \E f : Above(f, m + 1)
    OBVIOUS
  <2>1. PICK w : Above(w, m)
    <3>1. m <= k
      BY <1>2
    <3> HIDE DEF Above
    <3>2. QED
      BY <1>2, <3>1
  <2> DEFINE x == IF k - m > k \div 2 THEN (k - m) \div 2 ELSE w[2 * (k - m)]
             v == [o \in (k - (m + 1) + 1)..k |-> IF o = k - m THEN x ELSE w[o]]
  <2>2. ASSUME NEW o \in (k - (m + 1) + 1)..k
        PROVE  v[o] = IF o > k \div 2 THEN o \div 2 ELSE v[2 * o]
    <3>1. o \in Nat \ {0} /\ (o <= k \div 2 => 2 * o \in (k - (m + 1) + 1)..k /\ 2 * o # k - m)
      BY <1>2
    <3>2. o <= k \div 2 => v[2 * o] = w[2 * o]
      BY <3>1
    <3>3. CASE o = k - m
      BY <3>2, <3>3
    <3>4. CASE o # k - m
      <4>1. o \in (k - m + 1)..k
        BY <1>2, <3>4
      <4>2. w[o] = IF o > k \div 2 THEN o \div 2 ELSE w[2 * o]
        BY <2>1, <4>1
      <4>3. v[o] = w[o]
        BY <3>4
      <4>4. QED
        BY <3>1, <3>2, <4>2, <4>3
    <3>5. QED
      BY <3>3, <3>4
  <2>3. Above(v, m + 1)
    BY <2>2
  <2>4. QED
    BY <2>3
<1>3. k \in T
  <2> HIDE DEF T
  <2>1. QED
    BY <1>1, <1>2, NatSet
<1>4. PICK f : Above(f, k)
  BY <1>3
<1>5. k - k + 1 = 1
  OBVIOUS
<1>6. IsFrom(f, k)
  BY <1>4, <1>5 DEF IsFrom
<1>7. QED
  BY <1>6

(* Every number it starts from is at most twice what it returns. *)
LEMMA FromBounds ==
  ASSUME NEW k \in Nat \ {0}, NEW f, IsFrom(f, k)
  PROVE  \A o \in 1..k : f[o] \in Nat /\ o \div 2 <= f[o] /\ f[o] <= k
<1> DEFINE Out == {o \in 1..k : ~(f[o] \in Nat /\ o \div 2 <= f[o] /\ f[o] <= k)}
           Gaps == {k - o : o \in Out}
<1> SUFFICES ASSUME Out # {} PROVE FALSE
  OBVIOUS
<1>1. Gaps \in SUBSET Nat /\ Gaps # {}
  OBVIOUS
<1>2. PICK r \in Gaps : \A q \in Gaps : r <= q
  <2> HIDE DEF Gaps
  <2>1. QED
    BY <1>1, Least
<1>3. PICK o \in Out : r = k - o
  OBVIOUS
<1>4. f[o] = IF o > k \div 2 THEN o \div 2 ELSE f[2 * o]
  BY DEF IsFrom
<1>5. o <= k \div 2
  BY <1>4
<1>6. 2 * o \in 1..k /\ 2 * o \notin Out
  <2>1. 2 * o \in 1..k /\ k - 2 * o < k - o
    BY <1>5
  <2>2. 2 * o \in Out => k - 2 * o \in Gaps
    OBVIOUS
  <2>3. 2 * o \in Out => k - o <= k - 2 * o
    <3> HIDE DEF Out, Gaps
    <3>1. QED
      BY <1>2, <1>3, <2>2
  <2>4. QED
    BY <2>1, <2>3
<1>7. f[2 * o] \in Nat /\ (2 * o) \div 2 <= f[2 * o] /\ f[2 * o] <= k
  BY <1>6
<1>8. QED
  BY <1>4, <1>5, <1>7

LEMMA OffsetIs ==
  ASSUME NEW k \in Nat \ {0}
  PROVE  \E f : IsFrom(f, k) /\ HeapGetOffset(k) = f[1]
<1> DEFINE f == CHOOSE f : IsFrom(f, k)
<1>1. IsFrom(f, k)
  BY FromExists
<1>2. HeapGetOffset(k) = f[1]
  BY DEF HeapGetOffset, IsFrom
<1>3. QED
  BY <1>1, <1>2

(* The loop that walks down from the root, by the bits of k that are not   *)
(* heavier than h.                                                         *)
IsReach(g, k, h, top, le, ri) ==
  g = [o \in 1..(2 * k) |-> IF o > h THEN top
                            ELSE IF (k \div o) % 2 = 1 THEN ri[g[2 * o]] ELSE le[g[2 * o]]]

LEMMA ReachExists ==
  ASSUME NEW k \in Nat \ {0}, NEW h \in 0..k, NEW top, NEW le, NEW ri
  PROVE  \E g : IsReach(g, k, h, top, le, ri)
<1> DEFINE Via(g, o) == IF o > h THEN top
                        ELSE IF (k \div o) % 2 = 1 THEN ri[g[2 * o]] ELSE le[g[2 * o]]
           Above(g, m) == g = [o \in (2 * k - m + 1)..(2 * k) |-> Via(g, o)]
           T == {m \in Nat : m <= 2 * k => \E g : Above(g, m)}
<1>1. 0 \in T
  <2>1. Above([o \in (2 * k - 0 + 1)..(2 * k) |-> 0], 0)
    OBVIOUS
  <2>2. QED
    BY <2>1
<1>2. ASSUME NEW m \in T \cap Nat
      PROVE  m + 1 \in T
  <2> SUFFICES ASSUME m + 1 <= 2 * k PROVE \E g : Above(g, m + 1)
    OBVIOUS
  <2>1. PICK w : Above(w, m)
    <3>1. m <= 2 * k
      BY <1>2
    <3> HIDE DEF Above
    <3>2. QED
      BY <1>2, <3>1
  <2>2. \A o \in (2 * k - m + 1)..(2 * k) : w[o] = Via(w, o)
    BY <2>1
  <2> DEFINE n == 2 * k - m
             x == Via(w, n)
             v == [o \in (2 * k - (m + 1) + 1)..(2 * k) |-> IF o = n THEN x ELSE w[o]]
  <2>3. ASSUME NEW o \in (2 * k - (m + 1) + 1)..(2 * k)
        PROVE  v[o] = Via(v, o)
    <3>1. o \in Nat \ {0} /\ n \in Nat \ {0}
          /\ (o <= h => 2 * o \in (2 * k - (m + 1) + 1)..(2 * k) /\ 2 * o # n)
      BY <1>2
    <3>2. o <= h => v[2 * o] = w[2 * o]
      BY <3>1
    <3>3. Via(v, o) = Via(w, o)
      BY <3>1, <3>2
    <3>4. CASE o = n
      BY <3>3, <3>4
    <3>5. CASE o # n
      <4>1. o \in (2 * k - m + 1)..(2 * k)
        <5>1. m \in Nat /\ k \in Nat
          BY <1>2
        <5> HIDE DEF T, v, x
        <5>2. QED
          BY <3>5, <5>1
      <4>2. w[o] = Via(w, o)
        BY <2>2, <4>1
      <4>3. v[o] = w[o]
        BY <3>5
      <4>4. QED
        BY <3>3, <4>2, <4>3
    <3>6. QED
      BY <3>4, <3>5
  <2>4. Above(v, m + 1)
    <3> HIDE DEF Via, x
    <3>1. QED
      BY <2>3
  <2>5. QED
    BY <2>4
<1>3. 2 * k \in T
  <2> HIDE DEF T
  <2>1. QED
    BY <1>1, <1>2, NatSet
<1>4. PICK g : Above(g, 2 * k)
  <2> HIDE DEF Above
  <2>1. QED
    BY <1>3
<1>5. 2 * k - 2 * k + 1 = 1
  OBVIOUS
<1>6. IsReach(g, k, h, top, le, ri)
  BY <1>4, <1>5 DEF IsReach
<1>7. QED
  BY <1>6

(* It comes to the place of that number.                                   *)
LEMMA ReachIs ==
  ASSUME NEW at, NEW n, NEW pa, NEW le, NEW ri, Tree(at, n, pa, le, ri),
         NEW k \in 1..n, NEW f, IsFrom(f, k), NEW g, IsReach(g, k, f[1], at[1], le, ri)
  PROVE  g[1] = at[k]
<1> DEFINE OnWay == {o \in 1..k : f[o] = f[1]}
           Out == {o \in OnWay : g[o] # at[k \div o]}
           Gaps == {k - o : o \in Out}
<1>1. k \in Nat \ {0} /\ n \in Nat
  BY DEF Tree
<1>2. \A o \in 1..k : f[o] \in Nat /\ o \div 2 <= f[o] /\ f[o] <= k
  BY <1>1, FromBounds
<1>3. Out = {}
  <2> SUFFICES ASSUME Out # {} PROVE FALSE
    OBVIOUS
  <2>1. Gaps \in SUBSET Nat /\ Gaps # {}
    BY <1>1
  <2>2. PICK r \in Gaps : \A q \in Gaps : r <= q
    <3> HIDE DEF Gaps
    <3>1. QED
      BY <2>1, Least
  <2>3. PICK o \in Out : r = k - o
    OBVIOUS
  <2>4. o \in 1..k /\ f[o] = f[1] /\ f[o] \in Nat /\ o \in 1..(2 * k)
    BY <1>1, <1>2
  <2>5. g[o] = IF o > f[1] THEN at[1]
               ELSE IF (k \div o) % 2 = 1 THEN ri[g[2 * o]] ELSE le[g[2 * o]]
    BY <2>4 DEF IsReach
  <2>6. CASE o > k \div 2
    <3>1. f[o] = o \div 2
      BY <2>4, <2>6 DEF IsFrom
    <3>2. k \div o = 1
      BY <1>1, <2>4, <2>6
    <3>3. o > f[1]
      BY <2>4, <3>1
    <3>4. g[o] = at[1]
      BY <2>5, <3>3
    <3>5. QED
      BY <3>2, <3>4
  <2>7. CASE ~(o > k \div 2)
    <3>1. 2 * o \in 1..k /\ o \in Nat \ {0}
      BY <1>1, <2>4, <2>7
    <3>2. f[2 * o] = f[1]
      BY <2>4, <2>7 DEF IsFrom
    <3>3. ~(o > f[1])
      <4>1. (2 * o) \div 2 = o
        BY <3>1
      <4>2. QED
        BY <1>2, <2>4, <3>1, <3>2, <4>1
    <3>4. 2 * o \notin Out
      <4>1. 2 * o \in Out => k - 2 * o \in Gaps
        OBVIOUS
      <4>2. k - 2 * o < k - o
        BY <1>1, <3>1
      <4>3. 2 * o \in Out => k - o <= k - 2 * o
        <5> HIDE DEF Out, Gaps
        <5>1. QED
          BY <2>2, <2>3, <4>1
      <4>4. QED
        BY <1>1, <3>1, <4>2, <4>3
    <3>5. g[2 * o] = at[k \div (2 * o)]
      BY <3>1, <3>2, <3>4
    <3>6. PICK q : q = k \div o /\ q \in Nat
      BY <1>1, <3>1
    <3>7. k \div (2 * o) = q \div 2
      BY <1>1, <3>1, <3>6, Halves
    <3>8. q \in 1..n /\ q \div 2 \in 1..n
      BY <1>1, <3>1, <3>6, <3>7
    <3>9. g[o] = IF q % 2 = 1 THEN ri[at[q \div 2]] ELSE le[at[q \div 2]]
      BY <2>5, <3>3, <3>5, <3>6, <3>7
    <3>10. /\ le[at[q \div 2]] = Slot(at, n, 2 * (q \div 2))
           /\ ri[at[q \div 2]] = Slot(at, n, 2 * (q \div 2) + 1)
      BY <3>8 DEF Tree
    <3>11. q = IF q % 2 = 1 THEN 2 * (q \div 2) + 1 ELSE 2 * (q \div 2)
      BY <3>6
    <3>12. g[o] = at[q]
      BY <3>8, <3>9, <3>10, <3>11 DEF Slot
    <3>13. QED
      BY <3>6, <3>12
  <2>8. QED
    BY <2>6, <2>7
<1>4. 1 \in OnWay
  BY <1>1
<1>5. k \div 1 = k
  BY <1>1
<1>6. QED
  BY <1>3, <1>4, <1>5

(* The node that Position finds. *)
LEMMA PositionIs ==
  ASSUME NEW at, NEW n, Tree(at, n, parent, left, right), NEW k \in 1..n, root = at[1]
  PROVE  Position(k) = at[k]
<1>1. k \in Nat \ {0}
  BY DEF Tree
<1>2. PICK f : IsFrom(f, k) /\ HeapGetOffset(k) = f[1]
  BY <1>1, OffsetIs
<1>3. f[1] \in 0..k
  BY <1>1, <1>2, FromBounds
<1> DEFINE g == CHOOSE g : IsReach(g, k, f[1], root, left, right)
<1>4. IsReach(g, k, f[1], root, left, right)
  BY <1>1, <1>3, ReachExists
<1>5. Position(k) = g[1]
  BY <1>2 DEF Position, IsReach
<1> HIDE DEF g
<1>6. QED
  BY <1>2, <1>4, <1>5, ReachIs

(* The nodes that the properties speak of. *)
IsAt(f, k, top, le, ri) ==
  f = [i \in 1..k |-> IF i = 1 THEN top
                      ELSE IF f[i \div 2] = Null THEN Null
                      ELSE IF i % 2 = 1 THEN ri[f[i \div 2]] ELSE le[f[i \div 2]]]

LEMMA AtExists ==
  ASSUME NEW at, NEW n, NEW pa, NEW le, NEW ri, Tree(at, n, pa, le, ri), NEW k \in 1..n
  PROVE  IsAt([i \in 1..k |-> at[i]], k, at[1], le, ri)
<1> DEFINE f == [i \in 1..k |-> at[i]]
<1>1. ASSUME NEW i \in 1..k, i # 1
      PROVE  /\ f[i \div 2] # Null
             /\ at[i] = IF i % 2 = 1 THEN ri[f[i \div 2]] ELSE le[f[i \div 2]]
  <2>1. n \in Nat /\ i \in Nat /\ i \div 2 \in 1..k /\ i \div 2 \in 1..n /\ i \in 1..n
    BY <1>1 DEF Tree
  <2>2. f[i \div 2] = at[i \div 2] /\ at[i \div 2] # Null
    BY <2>1, SlotFacts
  <2>3. /\ le[at[i \div 2]] = Slot(at, n, 2 * (i \div 2))
        /\ ri[at[i \div 2]] = Slot(at, n, 2 * (i \div 2) + 1)
    BY <2>1 DEF Tree
  <2>4. i = IF i % 2 = 1 THEN 2 * (i \div 2) + 1 ELSE 2 * (i \div 2)
    BY <2>1
  <2>5. at[i] = IF i % 2 = 1 THEN ri[at[i \div 2]] ELSE le[at[i \div 2]]
    BY <2>1, <2>3, <2>4 DEF Slot
  <2>6. QED
    BY <2>2, <2>5
<1>2. \A i \in 1..k : f[i] = IF i = 1 THEN at[1]
                             ELSE IF f[i \div 2] = Null THEN Null
                             ELSE IF i % 2 = 1 THEN ri[f[i \div 2]] ELSE le[f[i \div 2]]
  BY <1>1
<1>3. QED
  BY <1>2 DEF IsAt

LEMMA AtUnique ==
  ASSUME NEW k \in Nat, NEW top, NEW le, NEW ri,
         NEW f, NEW g, IsAt(f, k, top, le, ri), IsAt(g, k, top, le, ri)
  PROVE  f = g
<1> DEFINE Out == {i \in 1..k : f[i] # g[i]}
<1>1. Out = {}
  <2> SUFFICES ASSUME Out # {} PROVE FALSE
    OBVIOUS
  <2>1. Out \in SUBSET Nat
    OBVIOUS
  <2>2. PICK i \in Out : \A j \in Out : i <= j
    <3> HIDE DEF Out
    <3>1. QED
      BY <2>1, Least
  <2>3. i # 1
    BY <2>2 DEF IsAt
  <2>4. i \in 1..k /\ i \div 2 \in 1..k /\ ~(i <= i \div 2)
    BY <2>2, <2>3
  <2>5. f[i \div 2] = g[i \div 2]
    BY <2>2, <2>4
  <2>6. f[i] = g[i]
    BY <2>3, <2>4, <2>5 DEF IsAt
  <2>7. QED
    BY <2>2, <2>6
<1>2. \A i \in 1..k : f[i] = g[i]
  BY <1>1
<1>3. QED
  BY <1>2 DEF IsAt

LEMMA AtIs ==
  ASSUME NEW at, NEW n, Tree(at, n, parent, left, right), NEW k \in 1..n, Top = at[1]
  PROVE  At(k) = at[k]
<1> DEFINE f == CHOOSE f : IsAt(f, k, Top, left, right)
           g == [i \in 1..k |-> at[i]]
<1>1. IsAt(g, k, Top, left, right)
  BY AtExists
<1>2. IsAt(f, k, Top, left, right)
  BY <1>1
<1>3. At(k) = f[k]
  BY DEF At, IsAt
<1>4. k \in Nat \ {0}
  BY DEF Tree
<1>5. f = g
  <2> HIDE DEF f, g
  <2>1. QED
    BY <1>1, <1>2, <1>4, AtUnique
<1>6. g[k] = at[k]
  BY <1>4
<1>7. QED
  <2> HIDE DEF f, g
  <2>1. QED
    BY <1>3, <1>5, <1>6

-----------------------------------------------------------------------------
(* What the stores of an operation make of the tree.                       *)
(* A round of either loop: the nodes of places i and j, a child of i,      *)
(* change places.                                                          *)
Exchanged(pa, le, ri, pa2, le2, ri2, p, n) ==
  LET pp     == pa[p]
      onLeft == le[p] = n
      beside == IF onLeft THEN ri[p] ELSE le[p]
  IN  /\ le2 = [c \in Nodes |->
                  IF c = n THEN (IF onLeft THEN p ELSE beside)
                  ELSE IF c = p THEN le[n]
                  ELSE IF c = pp /\ le[pp] = p THEN n ELSE le[c]]
      /\ ri2 = [c \in Nodes |->
                  IF c = n THEN (IF onLeft THEN beside ELSE p)
                  ELSE IF c = p THEN ri[n]
                  ELSE IF c = pp /\ ri[pp] = p THEN n ELSE ri[c]]
      /\ pa2 = [c \in Nodes |->
                  IF c = n THEN pp
                  ELSE IF c \in {p, beside} THEN n
                  ELSE IF c \in {le[n], ri[n]} THEN p ELSE pa[c]]

Swapped(at, n, i, j) ==
  [k \in 1..n |-> IF k = i THEN at[j] ELSE IF k = j THEN at[i] ELSE at[k]]

(* Apart: the six nodes whose links a round touches are different ones, so *)
(* that its stores, in either order, are one exchange.                     *)
Apart(p, n) ==
  /\ {parent, left, right} \subseteq Links
  /\ p \in Nodes /\ n \in Nodes /\ p # n
  /\ parent[p] \notin {p, n} /\ Beside(p, n) \notin {p, n}
  /\ parent[p] # Null => left[parent[p]] = p \/ right[parent[p]] = p
  /\ parent[p] # Null => left[parent[p]] # right[parent[p]]
  /\ left[n] \notin {p, n} /\ right[n] \notin {p, n}
  /\ Beside(p, n) # Null => Beside(p, n) \notin {left[n], right[n]}

LEMMA StoreIs ==
  ASSUME NEW f \in Links, NEW c \in Pointers, NEW v \in Nodes
  PROVE  Store(f, c, v) = [d \in Nodes |-> IF d = c THEN v ELSE f[d]] /\ Store(f, c, v) \in Links
BY HeapGiven DEF Store, Links, Pointers

LEMMA RoundsExchange ==
  ASSUME NEW p, NEW n, Apart(p, n), UpRound(p, n) \/ DownRound(p, n)
  PROVE  Exchanged(parent, left, right, parent', left', right', p, n)
<1>1. PICK pp, s, l, r : pp = parent[p] /\ s = Beside(p, n) /\ l = left[n] /\ r = right[n]
  OBVIOUS
<1>2. /\ parent \in Links /\ left \in Links /\ right \in Links /\ Null \notin Nodes
      /\ p \in Nodes /\ n \in Nodes /\ p # n /\ pp \notin {p, n} /\ s \notin {p, n}
      /\ l \notin {p, n} /\ r \notin {p, n} /\ (s # Null => s \notin {l, r})
      /\ pp # Null => (left[pp] = p \/ right[pp] = p) /\ left[pp] # right[pp]
      /\ pp \in Pointers /\ s \in Pointers /\ l \in Pointers /\ r \in Pointers
  BY <1>1, HeapGiven DEF Apart, Links, Beside
<1>3. /\ left' = [c \in Nodes |-> IF c = n THEN (IF left[p] = n THEN p ELSE s)
                                 ELSE IF c = p THEN l
                                 ELSE IF c = pp /\ left[pp] = p THEN n ELSE left[c]]
      /\ right' = [c \in Nodes |-> IF c = n THEN (IF left[p] = n THEN s ELSE p)
                                  ELSE IF c = p THEN r
                                  ELSE IF c = pp /\ right[pp] = p THEN n ELSE right[c]]
  <2>1. CASE UpRound(p, n)
    <3>1. PICK lf, rg : lf = AboveL(left, pp, p, n) /\ rg = AboveR(left, right, pp, p, n)
      OBVIOUS
    <3>2. /\ lf = [c \in Nodes |-> IF c = pp /\ left[pp] = p THEN n ELSE left[c]]
          /\ rg = [c \in Nodes |-> IF c = pp /\ right[pp] = p THEN n ELSE right[c]]
      BY <1>2, <3>1 DEF AboveL, AboveR, Store, Links
    <3>3. /\ left' = [lf EXCEPT ![n] = IF left[p] = n THEN p ELSE s, ![p] = l]
          /\ right' = [rg EXCEPT ![n] = IF left[p] = n THEN s ELSE p, ![p] = r]
      BY <1>1, <2>1, <3>1 DEF UpRound
    <3>4. QED
      BY <1>2, <3>2, <3>3
  <2>2. CASE DownRound(p, n)
    <3>1. PICK la, ra : la = [left EXCEPT ![p] = l] /\ ra = [right EXCEPT ![p] = r]
      OBVIOUS
    <3>2. /\ la \in Links /\ la = [c \in Nodes |-> IF c = p THEN l ELSE left[c]]
          /\ ra \in Links /\ ra = [c \in Nodes |-> IF c = p THEN r ELSE right[c]]
      BY <1>2, <3>1 DEF Links
    <3>3. PICK lf, rg : lf = AboveL(la, pp, p, n) /\ rg = AboveR(la, ra, pp, p, n)
      OBVIOUS
    <3>4. pp # Null => la[pp] = left[pp] /\ ra[pp] = right[pp]
      BY <1>2, <3>2 DEF Pointers
    <3>5. /\ lf = [c \in Nodes |-> IF c = pp /\ left[pp] = p THEN n ELSE la[c]]
          /\ rg = [c \in Nodes |-> IF c = pp /\ right[pp] = p THEN n ELSE ra[c]]
      BY <1>2, <3>2, <3>3, <3>4 DEF AboveL, AboveR, Store, Links
    <3>6. /\ left' = [lf EXCEPT ![n] = IF left[p] = n THEN p ELSE s]
          /\ right' = [rg EXCEPT ![n] = IF left[p] = n THEN s ELSE p]
      BY <1>1, <2>2, <3>1, <3>3 DEF DownRound
    <3>7. QED
      BY <1>2, <3>2, <3>5, <3>6
  <2>3. QED
    BY <2>1, <2>2
<1>4. parent' = [c \in Nodes |-> IF c = n THEN pp
                                ELSE IF c \in {p, s} THEN n
                                ELSE IF c \in {l, r} THEN p ELSE parent[c]]
  <2>1. CASE UpRound(p, n)
    <3>1. PICK pa : pa = [parent EXCEPT ![n] = pp]
      OBVIOUS
    <3>2. pa \in Links /\ pa = [c \in Nodes |-> IF c = n THEN pp ELSE parent[c]]
      BY <1>2, <3>1 DEF Links
    <3>3. PICK pb : pb = Store(pa, s, n)
      OBVIOUS
    <3>4. pb \in Links /\ pb = [c \in Nodes |-> IF c = s THEN n ELSE pa[c]]
      BY <1>2, <3>2, <3>3, StoreIs
    <3>5. PICK pd : pd = [pb EXCEPT ![p] = n]
      OBVIOUS
    <3>6. pd \in Links /\ pd = [c \in Nodes |-> IF c = p THEN n ELSE pb[c]]
      BY <1>2, <3>4, <3>5 DEF Links, Pointers
    <3>7. PICK pe : pe = Store(pd, l, p)
      OBVIOUS
    <3>8. pe \in Links /\ pe = [c \in Nodes |-> IF c = l THEN p ELSE pd[c]]
      BY <1>2, <3>6, <3>7, StoreIs
    <3>9. parent' = Store(pe, r, p)
      BY <1>1, <2>1, <3>1, <3>3, <3>5, <3>7 DEF UpRound
    <3>10. parent' = [c \in Nodes |-> IF c = r THEN p ELSE pe[c]]
      BY <1>2, <3>8, <3>9, StoreIs
    <3>11. \A c \in Nodes : pe[c] = IF c = l THEN p
                                    ELSE IF c \in {p, s} THEN n
                                    ELSE IF c = n THEN pp ELSE parent[c]
      BY <1>2, <3>2, <3>4, <3>6, <3>8
    <3>12. QED
      BY <1>2, <3>10, <3>11
  <2>2. CASE DownRound(p, n)
    <3>1. PICK lf, rg : /\ lf = AboveL([left EXCEPT ![p] = l], pp, p, n)
                        /\ rg = AboveR([left EXCEPT ![p] = l], [right EXCEPT ![p] = r], pp, p, n)
      OBVIOUS
    <3>2. lf[n] = l /\ rg[n] = r
      BY <1>1, <1>2, <3>1 DEF AboveL, AboveR, Store, Links
    <3>3. parent' = DownParents(lf, rg, p, n)
      BY <1>1, <2>2, <3>1 DEF DownRound
    <3>4. PICK pa : pa = [parent EXCEPT ![p] = n]
      OBVIOUS
    <3>5. pa \in Links /\ pa = [c \in Nodes |-> IF c = p THEN n ELSE parent[c]]
      BY <1>2, <3>4 DEF Links, Pointers
    <3>6. PICK pb : pb = Store(pa, l, p)
      OBVIOUS
    <3>7. pb \in Links /\ pb = [c \in Nodes |-> IF c = l THEN p ELSE pa[c]]
      BY <1>2, <3>5, <3>6, StoreIs
    <3>8. PICK pd : pd = Store(pb, r, p)
      OBVIOUS
    <3>9. pd \in Links /\ pd = [c \in Nodes |-> IF c = r THEN p ELSE pb[c]]
      BY <1>2, <3>7, <3>8, StoreIs
    <3>10. PICK pe : pe = [pd EXCEPT ![n] = pp]
      OBVIOUS
    <3>11. pe \in Links /\ pe = [c \in Nodes |-> IF c = n THEN pp ELSE pd[c]]
      BY <1>2, <3>9, <3>10 DEF Links
    <3>12. parent' = Store(pe, s, n)
      BY <1>1, <3>2, <3>3, <3>4, <3>6, <3>8, <3>10 DEF DownParents
    <3>13. parent' = [c \in Nodes |-> IF c = s THEN n ELSE pe[c]]
      BY <1>2, <3>11, <3>12, StoreIs
    <3>14. \A c \in Nodes : pe[c] = IF c = n THEN pp
                                    ELSE IF c \in {l, r} THEN p
                                    ELSE IF c = p THEN n ELSE parent[c]
      BY <1>2, <3>5, <3>7, <3>9, <3>11
    <3>15. QED
      BY <1>2, <3>13, <3>14
  <2>3. QED
    BY <2>1, <2>2
<1>5. s = IF left[p] = n THEN right[p] ELSE left[p]
  BY <1>1 DEF Beside
<1>6. QED
  BY <1>1, <1>3, <1>4, <1>5 DEF Exchanged

(* ... as they are in the tree. *)
LEMMA TreeApart ==
  ASSUME NEW at, NEW n, Tree(at, n, parent, left, right), NEW i \in 1..n, NEW j \in 1..n,
         j \div 2 = i
  PROVE  Apart(at[i], at[j])
<1>1. /\ n \in Nat /\ i \in Nat \ {0} /\ j \in Nat \ {0} /\ i # j
      /\ j = 2 * i \/ j = 2 * i + 1
      /\ i \div 2 \in Nat /\ i \div 2 # i /\ i \div 2 # j
  BY DEF Tree
<1>2. /\ \A k \in Nat : Slot(at, n, k) \in Pointers
      /\ \A k \in 1..n : Slot(at, n, k) = at[k] /\ at[k] \in Nodes /\ at[k] # Null
      /\ \A k \in Nat, h \in 1..n : Slot(at, n, k) = at[h] <=> k = h
  BY SlotFacts
<1>3. \A k, h \in Nat : Slot(at, n, k) = Slot(at, n, h) /\ k # h => Slot(at, n, k) = Null
  BY <1>2 DEF Slot
<1>4. \A k \in 1..n : /\ parent[at[k]] = Slot(at, n, k \div 2)
                      /\ left[at[k]] = Slot(at, n, 2 * k)
                      /\ right[at[k]] = Slot(at, n, 2 * k + 1)
  BY DEF Tree
<1>5. PICK b \in Nat : /\ b = IF j = 2 * i THEN 2 * i + 1 ELSE 2 * i
                       /\ b # i /\ b # j /\ b # 2 * j /\ b # 2 * j + 1
  BY <1>1
<1>6. left[at[i]] = at[j] <=> j = 2 * i
  <2>1. 2 * i \in Nat
    BY <1>1
  <2>2. QED
    BY <1>2, <1>4, <2>1
<1>7. Beside(at[i], at[j]) = Slot(at, n, b)
  BY <1>1, <1>4, <1>5, <1>6 DEF Beside
<1>8. 2 * j \in Nat /\ 2 * j + 1 \in Nat /\ {2 * j, 2 * j + 1} \cap {i, j} = {}
  BY <1>1
<1>9. Slot(at, n, b) \notin {at[i], at[j]}
  BY <1>2, <1>5
<1>10. left[at[j]] \notin {at[i], at[j]} /\ right[at[j]] \notin {at[i], at[j]}
  BY <1>2, <1>4, <1>8
<1>11. Slot(at, n, b) # Null => Slot(at, n, b) \notin {left[at[j]], right[at[j]]}
  BY <1>3, <1>4, <1>5, <1>8
<1>12. parent[at[i]] \notin {at[i], at[j]}
  BY <1>1, <1>2, <1>4
<1>13. ASSUME parent[at[i]] # Null
       PROVE  /\ left[parent[at[i]]] = at[i] \/ right[parent[at[i]]] = at[i]
              /\ left[parent[at[i]]] # right[parent[at[i]]]
  <2>1. PICK k \in 1..n : k = i \div 2 /\ parent[at[i]] = at[k]
    BY <1>4, <1>13 DEF Slot
  <2>2. /\ 2 * k \in Nat /\ 2 * k + 1 \in Nat /\ 2 * k # 2 * k + 1
        /\ i = 2 * k \/ i = 2 * k + 1
    BY <1>1, <2>1
  <2>3. left[at[k]] = Slot(at, n, 2 * k) /\ right[at[k]] = Slot(at, n, 2 * k + 1)
    BY <1>4
  <2>4. left[at[k]] = at[i] \/ right[at[k]] = at[i]
    BY <1>2, <2>2, <2>3
  <2>5. left[at[k]] # right[at[k]]
    BY <1>2, <2>2, <2>3, <2>4
  <2>6. QED
    BY <2>1, <2>4, <2>5
<1>14. at[i] \in Nodes /\ at[j] \in Nodes /\ at[i] # at[j]
  BY <1>1, <1>2 DEF Tree
<1>15. parent \in Links /\ left \in Links /\ right \in Links
  BY DEF Tree
<1>16. QED
  BY <1>7, <1>9, <1>10, <1>11, <1>12, <1>13, <1>14, <1>15 DEF Apart

LEMMA ExchangeTree ==
  ASSUME NEW at, NEW n, NEW pa, NEW le, NEW ri, NEW pa2, NEW le2, NEW ri2,
         Tree(at, n, pa, le, ri), NEW i \in 1..n, NEW j \in 1..n, j \div 2 = i,
         Exchanged(pa, le, ri, pa2, le2, ri2, at[i], at[j])
  PROVE  Tree(Swapped(at, n, i, j), n, pa2, le2, ri2)
<1> DEFINE at2 == Swapped(at, n, i, j)
           b == IF j = 2 * i THEN 2 * i + 1 ELSE 2 * i
<1>1. /\ n \in Nat /\ i \in Nat \ {0} /\ j \in Nat \ {0} /\ i # j
      /\ j = 2 * i \/ j = 2 * i + 1
  BY DEF Tree
<1>2. /\ \A k \in Nat : Slot(at, n, k) \in Pointers
      /\ \A k \in 1..n : Slot(at, n, k) = at[k] /\ at[k] \in Nodes /\ at[k] # Null
      /\ \A k \in Nat, h \in 1..n : Slot(at, n, k) = at[h] <=> k = h
  BY SlotFacts
<1>3. /\ pa[at[i]] = Slot(at, n, i \div 2)
      /\ le[at[i]] = Slot(at, n, 2 * i) /\ ri[at[i]] = Slot(at, n, 2 * i + 1)
      /\ le[at[j]] = Slot(at, n, 2 * j) /\ ri[at[j]] = Slot(at, n, 2 * j + 1)
  BY DEF Tree
<1>4. le[at[i]] = at[j] <=> j = 2 * i
  BY <1>1, <1>2, <1>3
<1>5. (IF le[at[i]] = at[j] THEN ri[at[i]] ELSE le[at[i]]) = Slot(at, n, b)
  BY <1>3, <1>4
<1>6. \A k \in 1..n : /\ pa[at[k]] = Slot(at, n, k \div 2)
                      /\ le[at[k]] = Slot(at, n, 2 * k)
                      /\ ri[at[k]] = Slot(at, n, 2 * k + 1)
  BY DEF Tree
<1>7. pa \in Links /\ le \in Links /\ ri \in Links
  BY DEF Tree
<1>8. PICK x, y, z, s : x = at[i] /\ y = at[j] /\ z = Slot(at, n, i \div 2) /\ s = Slot(at, n, b)
  OBVIOUS
<1>9. x \in Nodes /\ y \in Nodes /\ x # Null /\ y # Null /\ x # y /\ z \in Pointers /\ s \in Pointers
      /\ le[y] \in Pointers /\ ri[y] \in Pointers
  BY <1>1, <1>2, <1>3, <1>7, <1>8 DEF Links
<1>10. /\ le2 = [c \in Nodes |-> IF c = y THEN (IF j = 2 * i THEN x ELSE s)
                                ELSE IF c = x THEN le[y]
                                ELSE IF c = z /\ le[z] = x THEN y ELSE le[c]]
       /\ ri2 = [c \in Nodes |-> IF c = y THEN (IF j = 2 * i THEN s ELSE x)
                                ELSE IF c = x THEN ri[y]
                                ELSE IF c = z /\ ri[z] = x THEN y ELSE ri[c]]
       /\ pa2 = [c \in Nodes |-> IF c = y THEN z
                                ELSE IF c \in {x, s} THEN y
                                ELSE IF c \in {le[y], ri[y]} THEN x ELSE pa[c]]
  BY <1>3, <1>4, <1>5, <1>8 DEF Exchanged
<1>11. pa2 \in Links /\ le2 \in Links /\ ri2 \in Links
  BY <1>7, <1>9, <1>10 DEF Links, Pointers
(* Where a node that is below or above one of the two is.                  *)
<1>12. ASSUME NEW k \in 1..n
       PROVE  /\ at[k] = y <=> k = j
              /\ at[k] = x <=> k = i
              /\ at[k] = s <=> k = b
              /\ at[k] = le[y] <=> k = 2 * j
              /\ at[k] = ri[y] <=> k = 2 * j + 1
              /\ at[k] = z /\ le[z] = x <=> 2 * k = i
              /\ at[k] = z /\ ri[z] = x <=> 2 * k + 1 = i
  <2>1. (at[k] = y <=> k = j) /\ (at[k] = x <=> k = i) /\ k \in Nat \ {0}
    BY <1>1, <1>2, <1>8
  <2>2. at[k] = s <=> k = b
    BY <1>1, <1>2, <1>8
  <2>3. (at[k] = le[y] <=> k = 2 * j) /\ (at[k] = ri[y] <=> k = 2 * j + 1)
    BY <1>1, <1>2, <1>3, <1>8
  <2>4. at[k] = z <=> k = i \div 2
    BY <1>1, <1>2, <1>8
  <2>5. (le[at[k]] = x <=> 2 * k = i) /\ (ri[at[k]] = x <=> 2 * k + 1 = i)
    BY <1>1, <1>2, <1>6, <1>8, <2>1
  <2>6. at[k] = z /\ le[z] = x <=> 2 * k = i
    BY <1>1, <2>1, <2>4, <2>5
  <2>7. at[k] = z /\ ri[z] = x <=> 2 * k + 1 = i
    BY <1>1, <2>1, <2>4, <2>5
  <2>8. QED
    BY <2>1, <2>2, <2>3, <2>6, <2>7
<1>13. ASSUME NEW k \in 1..n
       PROVE  /\ le2[at[k]] = IF k = j THEN (IF j = 2 * i THEN x ELSE s)
                              ELSE IF k = i THEN Slot(at, n, 2 * j)
                              ELSE IF 2 * k = i THEN y ELSE Slot(at, n, 2 * k)
              /\ ri2[at[k]] = IF k = j THEN (IF j = 2 * i THEN s ELSE x)
                              ELSE IF k = i THEN Slot(at, n, 2 * j + 1)
                              ELSE IF 2 * k + 1 = i THEN y ELSE Slot(at, n, 2 * k + 1)
              /\ pa2[at[k]] = IF k = j THEN z
                              ELSE IF k \in {i, b} THEN y
                              ELSE IF k \in {2 * j, 2 * j + 1} THEN x ELSE Slot(at, n, k \div 2)
  BY <1>2, <1>3, <1>6, <1>10, <1>12
<1>14. /\ at2 \in [1..n -> Nodes] /\ at2[i] = y /\ at2[j] = x
       /\ \A k \in 1..n : k # i /\ k # j => at2[k] = at[k]
  BY <1>1, <1>2, <1>8 DEF Swapped
<1>15. \A h, k \in 1..n : at2[h] = at2[k] => h = k
  <2> HIDE DEF at2
  <2>1. \A k \in 1..n : at2[k] = y <=> k = i
    BY <1>1, <1>9, <1>12, <1>14
  <2>2. \A k \in 1..n : at2[k] = x <=> k = j
    BY <1>1, <1>9, <1>12, <1>14
  <2>3. \A h, k \in 1..n : at[h] = at[k] => h = k
    BY DEF Tree
  <2>4. QED
    BY <1>14, <2>1, <2>2, <2>3
<1> HIDE DEF at2
<1>16. \A k \in Nat : Slot(at2, n, k) = IF k = i THEN y ELSE IF k = j THEN x ELSE Slot(at, n, k)
  BY <1>14 DEF Slot
<1>17. ASSUME NEW k \in 1..n
       PROVE  /\ le2[at2[k]] = Slot(at2, n, 2 * k)
              /\ ri2[at2[k]] = Slot(at2, n, 2 * k + 1)
              /\ pa2[at2[k]] = Slot(at2, n, k \div 2)
  <2>1. k \in Nat \ {0}
    BY <1>1
  <2>2. CASE k = i
    <3>1. at2[k] = at[j] /\ i \div 2 # i /\ i \div 2 # j
      BY <1>1, <1>8, <1>14, <2>2
    <3>2. QED
      BY <1>1, <1>8, <1>13, <1>16, <2>2, <3>1
  <2>3. CASE k = j
    <3>1. at2[k] = at[i]
      BY <1>1, <1>8, <1>14, <2>3
    <3>2. QED
      BY <1>1, <1>8, <1>13, <1>16, <2>3, <3>1
  <2>4. CASE k # i /\ k # j
    <3>1. at2[k] = at[k]
      BY <1>14, <2>4
    <3>2. le2[at[k]] = Slot(at2, n, 2 * k)
      BY <1>1, <1>8, <1>13, <1>16, <2>1, <2>4
    <3>3. ri2[at[k]] = Slot(at2, n, 2 * k + 1)
      BY <1>1, <1>8, <1>13, <1>16, <2>1, <2>4
    <3>4. pa2[at[k]] = Slot(at2, n, k \div 2)
      BY <1>1, <1>8, <1>13, <1>16, <2>1, <2>4
    <3>5. QED
      BY <3>1, <3>2, <3>3, <3>4
  <2>5. QED
    BY <2>2, <2>3, <2>4
<1>18. Tree(at2, n, pa2, le2, ri2)
  BY <1>1, <1>11, <1>14, <1>15, <1>17 DEF Tree
<1>19. QED
  BY <1>18 DEF at2

(* heapAdd: the next place is that of x, below the node of half its number.*)
Added(at, n, x) == [k \in 1..(n + 1) |-> IF k = n + 1 THEN x ELSE at[k]]

Appended(pa, le, ri, pa2, le2, ri2, k, x, now) ==
  /\ pa2 = [pa EXCEPT ![x] = now]
  /\ IF k % 2 = 0
       THEN /\ le2 = [le EXCEPT ![x] = Null, ![now] = x]
            /\ ri2 = [ri EXCEPT ![x] = Null]
       ELSE /\ le2 = [le EXCEPT ![x] = Null]
            /\ ri2 = [ri EXCEPT ![x] = Null, ![now] = x]

LEMMA AddTree ==
  ASSUME NEW at, NEW n, NEW pa, NEW le, NEW ri, NEW pa2, NEW le2, NEW ri2,
         Tree(at, n, pa, le, ri), n # 0, NEW x \in Nodes, \A k \in 1..n : at[k] # x,
         NEW now, now = at[(n + 1) \div 2], Appended(pa, le, ri, pa2, le2, ri2, n + 1, x, now)
  PROVE  Tree(Added(at, n, x), n + 1, pa2, le2, ri2)
<1> DEFINE at2 == Added(at, n, x)
           h == (n + 1) \div 2
<1>1. n \in Nat /\ h \in 1..n
  BY DEF Tree
<1>2. /\ \A k \in Nat : Slot(at, n, k) \in Pointers
      /\ \A k \in 1..n : Slot(at, n, k) = at[k] /\ at[k] \in Nodes /\ at[k] # Null
      /\ \A k \in Nat, j \in 1..n : Slot(at, n, k) = at[j] <=> k = j
  BY SlotFacts
<1>3. /\ \A k \in 1..n : /\ pa[at[k]] = Slot(at, n, k \div 2)
                         /\ le[at[k]] = Slot(at, n, 2 * k)
                         /\ ri[at[k]] = Slot(at, n, 2 * k + 1)
      /\ pa \in [Nodes -> Pointers] /\ le \in [Nodes -> Pointers] /\ ri \in [Nodes -> Pointers]
  BY DEF Tree, Links
<1>4. now \in Nodes /\ now # x /\ now \in Pointers /\ x \in Pointers /\ Null \in Pointers
  BY <1>1, <1>2 DEF Pointers
<1>5. /\ pa2 \in Links /\ le2 \in Links /\ ri2 \in Links
      /\ pa2[x] = now /\ le2[x] = Null /\ ri2[x] = Null
      /\ \A c \in Nodes \ {x} : /\ pa2[c] = pa[c]
                                /\ le2[c] = IF c = now /\ (n + 1) % 2 = 0 THEN x ELSE le[c]
                                /\ ri2[c] = IF c = now /\ (n + 1) % 2 # 0 THEN x ELSE ri[c]
  BY <1>3, <1>4 DEF Appended, Links
<1>6. /\ at2 \in [1..(n + 1) -> Nodes] /\ at2[n + 1] = x
      /\ \A k \in 1..n : at2[k] = at[k] /\ k # n + 1
  BY <1>1, <1>2 DEF Added
<1>7. \A j, k \in 1..(n + 1) : at2[j] = at2[k] => j = k
  <2> HIDE DEF at2
  <2>1. \A j, k \in 1..n : at[j] = at[k] => j = k
    BY DEF Tree
  <2>2. \A k \in 1..(n + 1) : k \in 1..n \/ k = n + 1
    BY <1>1
  <2>3. QED
    BY <1>6, <2>1, <2>2
<1> HIDE DEF at2
<1>8. \A k \in Nat : Slot(at2, n + 1, k) = IF k = n + 1 THEN x ELSE Slot(at, n, k)
  BY <1>1, <1>6 DEF Slot
<1>9. ASSUME NEW k \in 1..n
      PROVE  /\ pa2[at2[k]] = Slot(at2, n + 1, k \div 2)
             /\ le2[at2[k]] = Slot(at2, n + 1, 2 * k)
             /\ ri2[at2[k]] = Slot(at2, n + 1, 2 * k + 1)
  <2>1. at2[k] = at[k] /\ at[k] \in Nodes \ {x} /\ k \in Nat \ {0}
    BY <1>1, <1>2, <1>6
  <2>2. at[k] = now <=> k = h
    BY <1>1, <1>2
  <2>3. pa2[at[k]] = Slot(at2, n + 1, k \div 2)
    <3>1. k \div 2 \in Nat /\ k \div 2 # n + 1
      BY <1>1, <2>1
    <3>2. QED
      BY <1>3, <1>5, <1>8, <2>1, <3>1
  <2>4. k = h /\ (n + 1) % 2 = 0 <=> 2 * k = n + 1
    BY <1>1, <2>1
  <2>5. k = h /\ (n + 1) % 2 # 0 <=> 2 * k + 1 = n + 1
    BY <1>1, <2>1
  <2>6. le2[at[k]] = Slot(at2, n + 1, 2 * k)
    BY <1>3, <1>5, <1>8, <2>1, <2>2, <2>4
  <2>7. ri2[at[k]] = Slot(at2, n + 1, 2 * k + 1)
    BY <1>3, <1>5, <1>8, <2>1, <2>2, <2>5
  <2>8. QED
    BY <2>1, <2>3, <2>6, <2>7
<1>10. /\ pa2[at2[n + 1]] = Slot(at2, n + 1, h)
       /\ le2[at2[n + 1]] = Slot(at2, n + 1, 2 * (n + 1))
       /\ ri2[at2[n + 1]] = Slot(at2, n + 1, 2 * (n + 1) + 1)
  <2>1. Slot(at2, n + 1, h) = now
    BY <1>1, <1>2, <1>8
  <2>2. Slot(at2, n + 1, 2 * (n + 1)) = Null /\ Slot(at2, n + 1, 2 * (n + 1) + 1) = Null
    BY <1>1 DEF Slot
  <2>3. QED
    BY <1>5, <1>6, <2>1, <2>2
<1>11. \A k \in 1..(n + 1) : k \in 1..n \/ k = n + 1
  BY <1>1
<1>12. \A k \in 1..(n + 1) : /\ pa2[at2[k]] = Slot(at2, n + 1, k \div 2)
                             /\ le2[at2[k]] = Slot(at2, n + 1, 2 * k)
                             /\ ri2[at2[k]] = Slot(at2, n + 1, 2 * k + 1)
  BY <1>9, <1>10, <1>11
<1>13. Tree(at2, n + 1, pa2, le2, ri2)
  BY <1>1, <1>5, <1>6, <1>7, <1>12 DEF Tree
<1>14. QED
  BY <1>13 DEF at2

LEMMA FirstTree ==
  ASSUME NEW x \in Nodes, NEW pa \in Links, NEW le \in Links, NEW ri \in Links
  PROVE  Tree([k \in 1..1 |-> x], 1, [pa EXCEPT ![x] = Null], [le EXCEPT ![x] = Null],
              [ri EXCEPT ![x] = Null])
<1> DEFINE at == [k \in 1..1 |-> x]
           pa2 == [pa EXCEPT ![x] = Null]
           le2 == [le EXCEPT ![x] = Null]
           ri2 == [ri EXCEPT ![x] = Null]
<1>1. at \in [1..1 -> Nodes] /\ at[1] = x /\ \A k \in 1..1 : k = 1
  OBVIOUS
<1>2. /\ pa2 \in Links /\ le2 \in Links /\ ri2 \in Links
      /\ pa2[x] = Null /\ le2[x] = Null /\ ri2[x] = Null
  BY DEF Links, Pointers
<1>3. Slot(at, 1, 1 \div 2) = Null /\ Slot(at, 1, 2 * 1) = Null /\ Slot(at, 1, 2 * 1 + 1) = Null
  BY DEF Slot
<1> HIDE DEF at, pa2, le2, ri2
<1>4. Tree(at, 1, pa2, le2, ri2)
  BY <1>1, <1>2, <1>3 DEF Tree
<1>5. QED
  BY <1>4 DEF at, pa2, le2, ri2

LEMMA NoTree ==
  ASSUME NEW at, NEW pa \in Links, NEW le \in Links, NEW ri \in Links, at \in [1..0 -> Nodes]
  PROVE  Tree(at, 0, pa, le, ri)
BY DEF Tree

(* heapGet: the last node takes the place of the root.                     *)
Taken(at, n) == [k \in 1..(n - 1) |-> IF k = 1 THEN at[n] ELSE at[k]]

Unrooted(pa, le, ri, pa2, le2, ri2, top, last) ==
  LET above == pa[last]
      cutL  == IF above # Null /\ le[above] = last
                 THEN [le EXCEPT ![above] = Null] ELSE le
      cutR  == IF above # Null /\ le[above] # last /\ ri[above] = last
                 THEN [ri EXCEPT ![above] = Null] ELSE ri
  IN  /\ le2 = [cutL EXCEPT ![last] = cutL[top], ![top] = Null]
      /\ ri2 = [cutR EXCEPT ![last] = cutR[top], ![top] = Null]
      /\ pa2 = [c \in Nodes |->
                  IF c \in {last, top} THEN Null
                  ELSE IF c \in {cutL[top], cutR[top]} THEN last ELSE pa[c]]

LEMMA TakeTree ==
  ASSUME NEW at, NEW n, NEW pa, NEW le, NEW ri, NEW pa2, NEW le2, NEW ri2,
         Tree(at, n, pa, le, ri), n # 0, Unrooted(pa, le, ri, pa2, le2, ri2, at[1], at[n])
  PROVE  Tree(Taken(at, n), n - 1, pa2, le2, ri2)
<1> DEFINE at2 == Taken(at, n)
           h == n \div 2
<1>1. n \in Nat /\ 1 \in 1..n /\ n \in 1..n /\ h \in Nat /\ n - 1 \in Nat
  BY DEF Tree
<1>2. /\ \A k \in Nat : Slot(at, n, k) \in Pointers
      /\ \A k \in 1..n : Slot(at, n, k) = at[k] /\ at[k] \in Nodes /\ at[k] # Null
      /\ \A k \in Nat, j \in 1..n : Slot(at, n, k) = at[j] <=> k = j
  BY SlotFacts
<1>3. /\ \A k \in 1..n : /\ pa[at[k]] = Slot(at, n, k \div 2)
                         /\ le[at[k]] = Slot(at, n, 2 * k)
                         /\ ri[at[k]] = Slot(at, n, 2 * k + 1)
      /\ pa \in [Nodes -> Pointers] /\ le \in [Nodes -> Pointers] /\ ri \in [Nodes -> Pointers]
  BY DEF Tree, Links
<1>4. PICK top, last, above : top = at[1] /\ last = at[n] /\ above = pa[last]
  OBVIOUS
<1>5. /\ top \in Nodes /\ last \in Nodes /\ Null \in Pointers
      /\ above = Slot(at, n, h) /\ above \in Pointers
  BY <1>1, <1>2, <1>3, <1>4 DEF Pointers
<1>6. PICK cutL : cutL = IF above # Null /\ le[above] = last
                           THEN [le EXCEPT ![above] = Null] ELSE le
  OBVIOUS
<1>7. PICK cutR : cutR = IF above # Null /\ le[above] # last /\ ri[above] = last
                           THEN [ri EXCEPT ![above] = Null] ELSE ri
  OBVIOUS
<1>8. /\ le2 = [cutL EXCEPT ![last] = cutL[top], ![top] = Null]
      /\ ri2 = [cutR EXCEPT ![last] = cutR[top], ![top] = Null]
      /\ pa2 = [c \in Nodes |->
                  IF c \in {last, top} THEN Null
                  ELSE IF c \in {cutL[top], cutR[top]} THEN last ELSE pa[c]]
  BY <1>4, <1>6, <1>7 DEF Unrooted
<1>9. cutL \in [Nodes -> Pointers] /\ cutR \in [Nodes -> Pointers]
  BY <1>3, <1>5, <1>6, <1>7
<1>10. cutL[top] \in Pointers /\ cutR[top] \in Pointers /\ last \in Pointers
  BY <1>5, <1>9 DEF Pointers
<1>11. pa2 \in Links /\ le2 \in Links /\ ri2 \in Links
  BY <1>3, <1>5, <1>8, <1>9, <1>10 DEF Links
<1>12. CASE n = 1
  <2>1. n - 1 = 0 /\ at2 \in [1..0 -> Nodes]
    BY <1>12 DEF Taken
  <2>2. QED
    BY <1>11, <2>1, NoTree
<1>13. CASE n # 1
  <2>1. n - 1 \in Nat \ {0} /\ h \in 1..n /\ top # last /\ above = at[h] /\ above # Null
    BY <1>1, <1>2, <1>4, <1>5, <1>13
  <2>2. \A k \in 1..n : /\ at[k] = last <=> k = n
                        /\ at[k] = top <=> k = 1
                        /\ at[k] = above <=> k = h
    BY <1>1, <1>2, <1>4, <2>1
  (* The cut is where the last node was linked. *)
  <2>3. (le[above] = last <=> 2 * h = n) /\ (ri[above] = last <=> 2 * h + 1 = n)
    BY <1>1, <1>2, <1>3, <1>4, <2>1
  <2>4. \A k \in 1..n : /\ cutL[at[k]] = IF 2 * k = n THEN Null ELSE Slot(at, n, 2 * k)
                        /\ cutR[at[k]] = IF 2 * k + 1 = n THEN Null ELSE Slot(at, n, 2 * k + 1)
    <3>1. ASSUME NEW k \in 1..n
          PROVE  cutL[at[k]] = IF 2 * k = n THEN Null ELSE Slot(at, n, 2 * k)
      <4>1. 2 * k = n => k = h
        BY <1>1
      <4>2. at[k] \in Nodes /\ le[at[k]] = Slot(at, n, 2 * k)
        BY <1>2, <1>3
      <4>3. cutL[at[k]] = IF at[k] = above /\ 2 * h = n THEN Null ELSE le[at[k]]
        BY <1>3, <1>6, <2>1, <2>3, <4>2
      <4>4. QED
        BY <2>2, <4>1, <4>2, <4>3
    <3>2. ASSUME NEW k \in 1..n
          PROVE  cutR[at[k]] = IF 2 * k + 1 = n THEN Null ELSE Slot(at, n, 2 * k + 1)
      <4>1. (2 * k + 1 = n => k = h) /\ ~(2 * h = n /\ 2 * h + 1 = n)
        BY <1>1
      <4>2. at[k] \in Nodes /\ ri[at[k]] = Slot(at, n, 2 * k + 1)
        BY <1>2, <1>3
      <4>3. cutR[at[k]] = IF at[k] = above /\ 2 * h + 1 = n THEN Null ELSE ri[at[k]]
        BY <1>3, <1>7, <2>1, <2>3, <4>1, <4>2
      <4>4. QED
        BY <2>2, <4>1, <4>2, <4>3
    <3>3. QED
      BY <3>1, <3>2
  <2>5. /\ at2 \in [1..(n - 1) -> Nodes] /\ at2[1] = last
        /\ \A k \in 1..(n - 1) : k # 1 => at2[k] = at[k]
    BY <1>1, <1>2, <1>4, <2>1 DEF Taken
  <2> HIDE DEF at2
  <2>6. \A j, k \in 1..(n - 1) : at2[j] = at2[k] => j = k
    <3>1. \A k \in 1..(n - 1) : k \in 1..n /\ (at2[k] = last <=> k = 1)
      BY <1>1, <2>1, <2>2, <2>5
    <3>2. \A j, k \in 1..n : at[j] = at[k] => j = k
      BY DEF Tree
    <3>3. QED
      BY <2>5, <3>1, <3>2
  <2>7. \A k \in Nat : Slot(at2, n - 1, k) =
          IF k = 1 THEN last ELSE IF k = n THEN Null ELSE Slot(at, n, k)
    <3>1. ASSUME NEW k \in Nat
          PROVE  Slot(at2, n - 1, k) = IF k = 1 THEN last ELSE IF k = n THEN Null ELSE Slot(at, n, k)
      <4>1. (k \in 1..(n - 1) <=> k \in 1..n /\ k # n) /\ 1 \in 1..(n - 1)
        BY <1>1, <2>1
      <4>2. QED
        BY <2>1, <2>5, <4>1 DEF Slot
    <3>2. QED
      BY <3>1
  <2>8. ASSUME NEW k \in 1..(n - 1)
        PROVE  /\ le2[at2[k]] = Slot(at2, n - 1, 2 * k)
               /\ ri2[at2[k]] = Slot(at2, n - 1, 2 * k + 1)
               /\ pa2[at2[k]] = Slot(at2, n - 1, k \div 2)
    <3>1. k \in 1..n /\ k # n /\ k \in Nat \ {0} /\ 2 * k # 1 /\ 2 * k + 1 # 1
      BY <1>1
    <3>2. CASE k = 1
      <4>1. at2[k] = last /\ k \div 2 = 0
        BY <2>5, <3>2
      <4>2. le2[last] = cutL[top] /\ ri2[last] = cutR[top] /\ pa2[last] = Null
        BY <1>5, <1>8, <1>9, <2>1
      <4>3. Slot(at2, n - 1, 0) = Null
        BY DEF Slot
      <4>4. QED
        BY <1>1, <1>4, <2>4, <2>7, <3>1, <3>2, <4>1, <4>2, <4>3
    <3>3. CASE k # 1
      <4>1. at2[k] = at[k] /\ at[k] # last /\ at[k] # top /\ at[k] \in Nodes
        BY <1>2, <2>2, <2>5, <3>1, <3>3
      <4>2. /\ le2[at[k]] = cutL[at[k]] /\ ri2[at[k]] = cutR[at[k]]
            /\ pa2[at[k]] = IF at[k] \in {cutL[top], cutR[top]} THEN last ELSE pa[at[k]]
        BY <1>5, <1>8, <1>9, <4>1
      <4>3. le2[at[k]] = Slot(at2, n - 1, 2 * k)
        BY <2>4, <2>7, <3>1, <4>2
      <4>4. ri2[at[k]] = Slot(at2, n - 1, 2 * k + 1)
        BY <2>4, <2>7, <3>1, <4>2
      <4>5. (at[k] = cutL[top] <=> k = 2) /\ (at[k] = cutR[top] <=> k = 3)
        BY <1>1, <1>2, <1>4, <2>4, <3>1
      <4>6. pa2[at[k]] = Slot(at2, n - 1, k \div 2)
        <5>1. (k \div 2 = 1 <=> k = 2 \/ k = 3) /\ k \div 2 # n /\ k \div 2 \in Nat
          BY <3>1, <3>3
        <5>2. pa[at[k]] = Slot(at, n, k \div 2)
          BY <1>3, <3>1
        <5>3. QED
          BY <2>7, <4>2, <4>5, <5>1, <5>2
      <4>7. QED
        BY <4>1, <4>3, <4>4, <4>6
    <3>4. QED
      BY <3>2, <3>3
  <2>9. Tree(at2, n - 1, pa2, le2, ri2)
    BY <1>11, <2>1, <2>5, <2>6, <2>8 DEF Tree
  <2>10. QED
    BY <2>9 DEF at2
<1>14. QED
  BY <1>12, <1>13

-----------------------------------------------------------------------------
(* The order.  Of the n nodes, only the one at place m may be greater than *)
(* its parent (Ups), or less than a child (Downs); where it is, its        *)
(* children are not greater than its parent (Spans).                       *)
Ups(at, n, m) == \A k \in 2..n : k # m => Priority[at[k]] <= Priority[at[k \div 2]]

Downs(at, n, m) == \A k \in 2..n : k \div 2 # m => Priority[at[k]] <= Priority[at[k \div 2]]

Spans(at, n, m) == \A k \in 4..n : k \div 2 = m => Priority[at[k]] <= Priority[at[m \div 2]]

Places(at, n) == n \in Nat /\ at \in [1..n -> Nodes]

LEMMA Weighs ==
  ASSUME NEW at, NEW n, Places(at, n)
  PROVE  \A k \in 1..n : Priority[at[k]] \in Int
BY HeapGiven DEF Places

LEMMA UpSwap ==
  ASSUME NEW at, NEW n, Places(at, n), NEW j \in 2..n, Ups(at, n, j), Spans(at, n, j),
         NEW i, i = j \div 2, Priority[at[i]] < Priority[at[j]]
  PROVE  Ups(Swapped(at, n, i, j), n, i) /\ Spans(Swapped(at, n, i, j), n, i)
<1> DEFINE t == Swapped(at, n, i, j)
<1>1. n \in Nat /\ i \in 1..n /\ j \in 1..n /\ i # j /\ i \div 2 # i /\ i \div 2 # j
  BY DEF Places
<1>2. PICK p : p = [k \in 1..n |-> Priority[at[k]]]
  OBVIOUS
<1>3. PICK q : q = [k \in 1..n |-> Priority[t[k]]]
  OBVIOUS
<1>4. p \in [1..n -> Int] /\ \A k \in 1..n : p[k] = Priority[at[k]]
  BY <1>2, Weighs
<1>5. \A k \in 1..n : /\ q[k] = Priority[t[k]]
                      /\ q[k] = IF k = i THEN p[j] ELSE IF k = j THEN p[i] ELSE p[k]
  BY <1>1, <1>3, <1>4 DEF Swapped
<1>6. ASSUME NEW k \in 2..n, k # j
      PROVE  p[k] <= p[k \div 2]
  <2>1. k \in 1..n /\ k \div 2 \in 1..n
    BY <1>1
  <2>2. Priority[at[k]] <= Priority[at[k \div 2]]
    BY <1>6 DEF Ups
  <2>3. QED
    BY <1>4, <2>1, <2>2
<1>7. ASSUME NEW k \in 4..n, k \div 2 = j
      PROVE  p[k] <= p[i]
  <2>1. k \in 1..n
    BY <1>1, <1>7
  <2>2. Priority[at[k]] <= Priority[at[i]]
    BY <1>7 DEF Spans
  <2>3. QED
    BY <1>1, <1>4, <2>1, <2>2
<1>8. p[i] < p[j]
  BY <1>1, <1>4
<1>9. ASSUME NEW k \in 2..n, k # i
      PROVE  q[k] <= q[k \div 2]
  <2>1. k \in 1..n /\ k \div 2 \in 1..n /\ k \div 2 # k
    BY <1>1
  <2>2. CASE k = j
    BY <1>1, <1>4, <1>5, <1>8, <2>1, <2>2
  <2>3. CASE k # j /\ k \div 2 = j
    <3>1. k \in 4..n
      BY <1>1, <2>3
    <3>2. QED
      BY <1>1, <1>5, <1>7, <1>9, <2>1, <2>3, <3>1
  <2>4. CASE k # j /\ k \div 2 = i
    BY <1>1, <1>4, <1>5, <1>6, <1>8, <1>9, <2>1, <2>4
  <2>5. CASE k # j /\ k \div 2 # j /\ k \div 2 # i
    BY <1>5, <1>6, <1>9, <2>1, <2>5
  <2>6. QED
    BY <2>2, <2>3, <2>4, <2>5
<1>10. ASSUME NEW k \in 4..n, k \div 2 = i
       PROVE  q[k] <= q[i \div 2]
  <2>1. k \in 1..n /\ k # i /\ i \in 2..n /\ i \div 2 \in 1..n
    BY <1>1, <1>10
  <2>2. q[i \div 2] = p[i \div 2] /\ p[i] <= p[i \div 2]
    BY <1>1, <1>5, <1>6, <2>1
  <2>3. q[k] <= p[i]
    <3>1. CASE k = j
      BY <1>4, <1>5, <2>1, <3>1
    <3>2. CASE k # j
      BY <1>1, <1>5, <1>6, <1>10, <2>1, <3>2
    <3>3. QED
      BY <3>1, <3>2
  <2>4. q[k] \in Int /\ p[i] \in Int /\ p[i \div 2] \in Int
    BY <1>1, <1>4, <1>5, <2>1
  <2>5. QED
    BY <2>2, <2>3, <2>4
<1> HIDE DEF t
<1>11. Ups(t, n, i)
  <2>1. \A k \in 2..n : k \in 1..n /\ k \div 2 \in 1..n
    BY <1>1
  <2>2. QED
    BY <1>5, <1>9, <2>1 DEF Ups
<1>12. Spans(t, n, i)
  <2>1. \A k \in 4..n : k \div 2 = i => k \in 1..n /\ i \div 2 \in 1..n
    BY <1>1
  <2>2. QED
    BY <1>5, <1>10, <2>1 DEF Spans
<1>13. QED
  BY <1>11, <1>12 DEF t

LEMMA DownSwap ==
  ASSUME NEW at, NEW n, Places(at, n), NEW j \in 2..n, NEW i, i = j \div 2,
         Downs(at, n, i), Spans(at, n, i), Priority[at[i]] < Priority[at[j]],
         \A k \in 2..n : k \div 2 = i => Priority[at[k]] <= Priority[at[j]]
  PROVE  Downs(Swapped(at, n, i, j), n, j) /\ Spans(Swapped(at, n, i, j), n, j)
<1> DEFINE t == Swapped(at, n, i, j)
<1>1. n \in Nat /\ i \in 1..n /\ j \in 1..n /\ i # j /\ i \div 2 # i /\ i \div 2 # j
  BY DEF Places
<1>2. PICK p : p = [k \in 1..n |-> Priority[at[k]]]
  OBVIOUS
<1>3. PICK q : q = [k \in 1..n |-> Priority[t[k]]]
  OBVIOUS
<1>4. p \in [1..n -> Int] /\ \A k \in 1..n : p[k] = Priority[at[k]]
  BY <1>2, Weighs
<1>5. \A k \in 1..n : /\ q[k] = Priority[t[k]]
                      /\ q[k] = IF k = i THEN p[j] ELSE IF k = j THEN p[i] ELSE p[k]
  BY <1>1, <1>3, <1>4 DEF Swapped
<1>6. ASSUME NEW k \in 2..n, k \div 2 # i
      PROVE  p[k] <= p[k \div 2]
  <2>1. k \in 1..n /\ k \div 2 \in 1..n
    BY <1>1
  <2>2. Priority[at[k]] <= Priority[at[k \div 2]]
    BY <1>6 DEF Downs
  <2>3. QED
    BY <1>4, <2>1, <2>2
<1>7. ASSUME NEW k \in 4..n, k \div 2 = i
      PROVE  p[k] <= p[i \div 2]
  <2>1. k \in 1..n /\ i \div 2 \in 1..n
    BY <1>1, <1>7
  <2>2. Priority[at[k]] <= Priority[at[i \div 2]]
    BY <1>7 DEF Spans
  <2>3. QED
    BY <1>4, <2>1, <2>2
<1>8. p[i] < p[j] /\ \A k \in 2..n : k \div 2 = i => p[k] <= p[j]
  BY <1>1, <1>4
<1>9. ASSUME NEW k \in 2..n, k \div 2 # j
      PROVE  q[k] <= q[k \div 2]
  <2>1. k \in 1..n /\ k \div 2 \in 1..n /\ k \div 2 # k
    BY <1>1
  <2>2. CASE k = i
    <3>1. j \in 4..n
      BY <1>1, <2>2
    <3>2. p[j] <= p[i \div 2]
      BY <1>7, <3>1
    <3>3. QED
      BY <1>1, <1>5, <2>1, <2>2, <3>2
  <2>3. CASE k = j
    BY <1>1, <1>4, <1>5, <1>8, <2>1, <2>3
  <2>4. CASE k # i /\ k # j /\ k \div 2 = i
    BY <1>1, <1>5, <1>8, <2>1, <2>4
  <2>5. CASE k # i /\ k # j /\ k \div 2 # i
    BY <1>5, <1>6, <1>9, <2>1, <2>5
  <2>6. QED
    BY <2>2, <2>3, <2>4, <2>5
<1>10. ASSUME NEW k \in 4..n, k \div 2 = j
       PROVE  q[k] <= q[j \div 2]
  <2>1. k \in 1..n /\ k # i /\ k # j /\ k \in 2..n /\ k \div 2 # i
    BY <1>1, <1>10
  <2>2. p[k] <= p[j]
    BY <1>6, <1>10, <2>1
  <2>3. QED
    BY <1>1, <1>5, <2>1, <2>2
<1> HIDE DEF t
<1>11. Downs(t, n, j)
  <2>1. \A k \in 2..n : k \in 1..n /\ k \div 2 \in 1..n
    BY <1>1
  <2>2. QED
    BY <1>5, <1>9, <2>1 DEF Downs
<1>12. Spans(t, n, j)
  <2>1. \A k \in 4..n : k \in 1..n
    BY <1>1
  <2>2. QED
    BY <1>1, <1>5, <1>10, <2>1 DEF Spans
<1>13. QED
  BY <1>11, <1>12 DEF t

LEMMA UpDone ==
  ASSUME NEW at, NEW n, Places(at, n), NEW m \in 1..n, Ups(at, n, m),
         m # 1 => Priority[at[m]] <= Priority[at[m \div 2]]
  PROVE  Ups(at, n, 0)
BY DEF Ups, Places

LEMMA DownDone ==
  ASSUME NEW at, NEW n, Places(at, n), NEW m \in 1..n, Downs(at, n, m),
         \A k \in 2..n : k \div 2 = m => Priority[at[k]] <= Priority[at[m]]
  PROVE  Ups(at, n, 0)
BY DEF Ups, Downs, Places

LEMMA AddedOrder ==
  ASSUME NEW at, NEW n, Places(at, n), NEW x, Ups(at, n, 0)
  PROVE  Ups(Added(at, n, x), n + 1, n + 1) /\ Spans(Added(at, n, x), n + 1, n + 1)
<1>1. n \in Nat /\ \A k \in 1..n : Added(at, n, x)[k] = at[k]
  BY DEF Added, Places
<1>2. \A k \in 2..(n + 1) : k # n + 1 => k \in 2..n /\ k # 0 /\ k \in 1..n /\ k \div 2 \in 1..n
  BY <1>1
<1>3. \A k \in 4..(n + 1) : k \div 2 # n + 1
  BY <1>1
<1>4. Ups(Added(at, n, x), n + 1, n + 1)
  BY <1>1, <1>2 DEF Ups
<1>5. Spans(Added(at, n, x), n + 1, n + 1)
  BY <1>3 DEF Spans
<1>6. QED
  BY <1>4, <1>5

LEMMA TakenOrder ==
  ASSUME NEW at, NEW n, Places(at, n), Ups(at, n, 0)
  PROVE  Downs(Taken(at, n), n - 1, 1) /\ Spans(Taken(at, n), n - 1, 1)
<1>1. n \in Nat /\ \A k \in 1..(n - 1) : k # 1 => Taken(at, n)[k] = at[k]
  BY DEF Taken, Places
<1>2. \A k \in 2..(n - 1) : k \in 2..n /\ k # 0 /\ k # 1 /\ k \in 1..(n - 1) /\ k \div 2 \in 1..(n - 1)
  BY <1>1
<1>3. \A k \in 4..(n - 1) : k \div 2 # 1
  BY <1>1
<1>4. Downs(Taken(at, n), n - 1, 1)
  BY <1>1, <1>2 DEF Ups, Downs
<1>5. Spans(Taken(at, n), n - 1, 1)
  BY <1>3 DEF Spans
<1>6. QED
  BY <1>4, <1>5

(* The greatest node is at the top: a greatest counterexample has a parent.*)
LEMMA GreatestFirst ==
  ASSUME NEW at, NEW n, Places(at, n), Ups(at, n, 0)
  PROVE  \A k \in 1..n : Priority[at[k]] <= Priority[at[1]]
<1> DEFINE Out == {k \in 1..n : ~(Priority[at[k]] <= Priority[at[1]])}
<1> SUFFICES ASSUME Out # {} PROVE FALSE
  OBVIOUS
<1>1. Out \in SUBSET Nat /\ n \in Nat
  BY DEF Places
<1>2. PICK k \in Out : \A j \in Out : k <= j
  <2> HIDE DEF Out
  <2>1. QED
    BY <1>1, Least
<1>3. \A j \in 1..n : Priority[at[j]] \in Int
  BY Weighs
<1>4. k \in 1..n /\ k # 1 /\ 1 \in 1..n
  BY <1>1, <1>3
<1>5. k \in 2..n /\ k \div 2 \in 1..n /\ ~(k <= k \div 2) /\ k # 0
  BY <1>1, <1>4
<1>6. Priority[at[k]] <= Priority[at[k \div 2]]
  BY <1>5 DEF Ups
<1>7. k \div 2 \notin Out
  <2> HIDE DEF Out
  <2>1. QED
    BY <1>2, <1>5
<1>8. Priority[at[k \div 2]] <= Priority[at[1]]
  BY <1>5, <1>7
<1>9. QED
  BY <1>3, <1>4, <1>5, <1>6, <1>8

-----------------------------------------------------------------------------
(* The heap between two steps: at[k] is the node at place k, m the place   *)
(* of the node that moves, or 0.  The root pointer lags behind when the    *)
(* new node has reached the top.                                           *)
Shape(at, m) ==
  /\ Tree(at, cnt, parent, left, right)
  /\ pc \in {"idle", "up", "down", "freed"}
  /\ root \in Pointers /\ got \in Pointers /\ destroying \in BOOLEAN
  /\ m \in 0..cnt /\ node = Slot(at, cnt, m)
  /\ m # 0 <=> pc \in {"up", "down"}
  /\ ~(pc = "up" /\ m = 1) => root = Slot(at, cnt, 1)
  /\ pc = "up" => root \in Nodes /\ Ups(at, cnt, m) /\ Spans(at, cnt, m)
  /\ pc = "down" => Downs(at, cnt, m) /\ Spans(at, cnt, m)
  /\ pc \in {"idle", "freed"} => Ups(at, cnt, 0)

NodesOf(at, n) == {at[k] : k \in 1..n}

LEMMA TopIs ==
  ASSUME NEW at, NEW m, Shape(at, m)
  PROVE  Top = Slot(at, cnt, 1)
<1>1. CASE pc = "up"
  <2>1. cnt \in Nat /\ m \in 1..cnt /\ 1 \in 1..cnt /\ m \div 2 \in Nat
    BY <1>1 DEF Shape, Tree
  <2>2. node = at[m] /\ Slot(at, cnt, 1) = at[1]
    BY <2>1 DEF Shape, Slot
  <2>3. parent[node] = Slot(at, cnt, m \div 2)
    BY <2>1, <2>2 DEF Shape, Tree
  <2>4. CASE m = 1
    <3>1. parent[node] = Null
      BY <2>3, <2>4 DEF Slot
    <3>2. QED
      BY <1>1, <2>2, <2>4, <3>1 DEF Top
  <2>5. CASE m # 1
    <3>1. m \div 2 \in 1..cnt
      BY <2>1, <2>5
    <3>2. parent[node] # Null
      BY <2>3, <3>1, SlotFacts DEF Shape
    <3>3. QED
      BY <2>5, <3>2 DEF Shape, Top
  <2>6. QED
    BY <2>4, <2>5
<1>2. CASE pc # "up"
  BY <1>2 DEF Shape, Top
<1>3. QED
  BY <1>1, <1>2

LEMMA NodesAt ==
  ASSUME NEW at, NEW m, Shape(at, m)
  PROVE  \A k \in 1..cnt : At(k) = at[k] /\ at[k] \in Nodes
<1> SUFFICES ASSUME NEW k \in 1..cnt
             PROVE  At(k) = at[k] /\ at[k] \in Nodes
  OBVIOUS
<1>1. Tree(at, cnt, parent, left, right) /\ cnt \in Nat /\ at[k] \in Nodes
  BY DEF Shape, Tree
<1>2. 1 \in 1..cnt
  BY <1>1
<1>3. Top = at[1]
  BY <1>2, TopIs DEF Slot
<1>4. QED
  BY <1>1, <1>3, AtIs

LEMMA MembersIs ==
  ASSUME NEW at, NEW m, Shape(at, m)
  PROVE  Members = NodesOf(at, cnt)
BY NodesAt DEF Members, NodesOf

LEMMA PlacesOf ==
  ASSUME NEW at, NEW m, Shape(at, m)
  PROVE  /\ Places(at, cnt) /\ cnt \in Nat /\ m \in 0..cnt
         /\ \A k \in 1..cnt : Slot(at, cnt, k) = at[k] /\ at[k] # Null /\ Priority[at[k]] \in Int
         /\ Slot(at, cnt, 0) = Null
<1>1. Tree(at, cnt, parent, left, right) /\ Places(at, cnt) /\ cnt \in Nat
  BY DEF Shape, Tree, Places
<1>2. QED
  BY <1>1, SlotFacts, Weighs DEF Shape, Slot

LEMMA MoveUpShape ==
  ASSUME NEW at, NEW m, Shape(at, m), MoveUp
  PROVE  /\ m \in 2..cnt
         /\ \E t : t = Swapped(at, cnt, m \div 2, m) /\ Shape(t, m \div 2)'
<1> DEFINE i == m \div 2
<1>0. PICK t : t = Swapped(at, cnt, i, m)
  OBVIOUS
<1>1. /\ Places(at, cnt) /\ cnt \in Nat /\ m \in 1..cnt
      /\ node = at[m] /\ Tree(at, cnt, parent, left, right)
      /\ pc = "up" /\ Ups(at, cnt, m) /\ Spans(at, cnt, m) /\ root \in Nodes
  BY PlacesOf DEF Shape, MoveUp
<1>2. parent[at[m]] = Slot(at, cnt, m \div 2)
  BY <1>1 DEF Tree
<1>3. m \in 2..cnt /\ i \in 1..cnt /\ m # i
  <2>1. m # 1
    <3>1. SUFFICES ASSUME m = 1 PROVE FALSE
      OBVIOUS
    <3>2. Slot(at, cnt, m \div 2) = Null
      BY <3>1 DEF Slot
    <3>3. QED
      BY <1>1, <1>2, <3>2 DEF MoveUp
  <2>2. QED
    BY <1>1, <2>1
<1>4. parent[node] = at[i] /\ at[i] # Null /\ Priority[at[i]] \in Int /\ Priority[at[m]] \in Int
  BY <1>1, <1>2, <1>3, PlacesOf
<1>5. Priority[at[i]] < Priority[at[m]]
  <2>1. Priority[at[i]] - Priority[at[m]] < 0
    BY <1>1, <1>4 DEF MoveUp, Cmp
  <2>2. QED
    BY <1>4, <2>1
<1>6. Exchanged(parent, left, right, parent', left', right', at[i], at[m])
  <2>1. UpRound(at[i], at[m])
    BY <1>1, <1>4 DEF MoveUp
  <2>2. Apart(at[i], at[m])
    BY <1>1, <1>3, TreeApart
  <2>3. QED
    BY <2>1, <2>2, RoundsExchange
<1>7. UNCHANGED <<root, cnt, pc, node, destroying, got>>
  BY DEF MoveUp
<1>8. Tree(t, cnt, parent', left', right')
  BY <1>0, <1>1, <1>3, <1>6, ExchangeTree
<1>9. Ups(t, cnt, i) /\ Spans(t, cnt, i)
  BY <1>0, <1>1, <1>3, <1>5, UpSwap
<1>10. node = Slot(t, cnt, i)
  BY <1>0, <1>1, <1>3 DEF Slot, Swapped
<1>11. i # 1 => root = Slot(t, cnt, 1)
  <2>1. SUFFICES ASSUME i # 1 PROVE root = Slot(t, cnt, 1)
    OBVIOUS
  <2>2. m # 1 /\ 1 \in 1..cnt
    BY <1>1, <1>3
  <2>3. root = at[1]
    BY <2>2, PlacesOf DEF Shape
  <2>4. t[1] = at[1]
    BY <1>0, <2>1, <2>2 DEF Swapped
  <2>5. QED
    BY <2>2, <2>3, <2>4 DEF Slot
<1>12. QED
  <2> HIDE DEF i
  <2>1. /\ i \in 0..cnt /\ i # 0
        /\ root \in Pointers /\ got \in Pointers /\ destroying \in BOOLEAN
    BY <1>1, <1>3 DEF Shape
  <2>2. Shape(t, i)'
    BY <1>1, <1>7, <1>8, <1>9, <1>10, <1>11, <2>1 DEF Shape
  <2>3. QED
    BY <1>0, <1>3, <2>2 DEF i

LEMMA UpEndsShape ==
  ASSUME NEW at, NEW m, Shape(at, m), AdjustUpEnds
  PROVE  Shape(at, 0)'
<1>1. /\ Places(at, cnt) /\ cnt \in Nat /\ m \in 1..cnt
      /\ node = at[m] /\ Tree(at, cnt, parent, left, right)
      /\ pc = "up" /\ Ups(at, cnt, m) /\ root \in Nodes
  BY PlacesOf DEF Shape, AdjustUpEnds
<1>2. parent[at[m]] = Slot(at, cnt, m \div 2)
  BY <1>1 DEF Tree
<1>3. m # 1 => /\ parent[node] = at[m \div 2] /\ at[m \div 2] # Null
               /\ Priority[at[m]] <= Priority[at[m \div 2]]
  <2>1. SUFFICES ASSUME m # 1
                 PROVE  /\ parent[node] = at[m \div 2] /\ at[m \div 2] # Null
                        /\ Priority[at[m]] <= Priority[at[m \div 2]]
    OBVIOUS
  <2>2. m \div 2 \in 1..cnt
    BY <1>1, <2>1
  <2>3. /\ parent[node] = at[m \div 2] /\ at[m \div 2] # Null
        /\ Priority[at[m \div 2]] \in Int /\ Priority[at[m]] \in Int
    BY <1>1, <1>2, <2>2, PlacesOf
  <2>4. Priority[at[m \div 2]] - Priority[at[m]] >= 0
    BY <1>1, <2>3 DEF AdjustUpEnds, Cmp
  <2>5. QED
    BY <2>3, <2>4
<1>4. Ups(at, cnt, 0)
  BY <1>1, <1>3, UpDone
<1>5. root' = Slot(at, cnt, 1)
  <2>1. CASE m = 1
    <3>1. Slot(at, cnt, m \div 2) = Null
      BY <2>1 DEF Slot
    <3>2. root' = at[1]
      BY <1>1, <1>2, <2>1, <3>1 DEF AdjustUpEnds, RootAfterUp
    <3>3. QED
      BY <1>1, <2>1, <3>2 DEF Slot
  <2>2. CASE m # 1
    BY <1>1, <1>3, <2>2 DEF AdjustUpEnds, RootAfterUp, Shape
  <2>3. QED
    BY <2>1, <2>2
<1>6. root' \in Pointers /\ got \in Pointers /\ destroying \in BOOLEAN
  <2>1. Slot(at, cnt, 1) \in Pointers
    BY <1>1, SlotFacts
  <2>2. QED
    BY <1>5, <2>1 DEF Shape
<1>7. Slot(at, cnt, 0) = Null
  BY DEF Slot
<1>8. UNCHANGED <<parent, left, right, cnt, destroying, got>> /\ pc' = "idle" /\ node' = Null
  BY DEF AdjustUpEnds, links
<1>9. QED
  BY <1>1, <1>4, <1>5, <1>6, <1>7, <1>8 DEF Shape

LEMMA IdleShape ==
  ASSUME NEW at, NEW m, Shape(at, m), pc = "idle"
  PROVE  /\ m = 0 /\ node = Null /\ root = Slot(at, cnt, 1)
         /\ root = Null <=> cnt = 0
         /\ Ups(at, cnt, 0) /\ Tree(at, cnt, parent, left, right)
<1>1. m = 0 /\ root = Slot(at, cnt, 1) /\ node = Slot(at, cnt, 0) /\ Ups(at, cnt, 0)
  BY DEF Shape
<1>2. cnt # 0 => Slot(at, cnt, 1) # Null
  BY PlacesOf
<1>3. cnt = 0 => Slot(at, cnt, 1) = Null
  BY DEF Slot
<1>4. QED
  BY <1>1, <1>2, <1>3, PlacesOf DEF Shape

LEMMA AddFirstShape ==
  ASSUME NEW at, NEW m, Shape(at, m), NEW x \in Nodes, HeapAddFirst(x)
  PROVE  cnt = 0 /\ Shape([k \in 1..1 |-> x], 0)'
<1>1. PICK t : t = [k \in 1..1 |-> x]
  OBVIOUS
<1>2. m = 0 /\ node = Null /\ cnt = 0 /\ parent \in Links /\ left \in Links /\ right \in Links
  BY IdleShape DEF HeapAddFirst, Tree
<1>3. Tree(t, 1, [parent EXCEPT ![x] = Null], [left EXCEPT ![x] = Null], [right EXCEPT ![x] = Null])
  BY <1>1, <1>2, FirstTree
<1>4. Tree(t, cnt', parent', left', right')
  BY <1>2, <1>3 DEF HeapAddFirst
<1>5. cnt' = 1 /\ root' = x /\ got' = Null /\ UNCHANGED <<pc, node, destroying>> /\ pc = "idle"
  BY <1>2 DEF HeapAddFirst
<1>6. Slot(t, 1, 1) = x /\ Slot(t, 1, 0) = Null /\ Ups(t, 1, 0)
  BY <1>1 DEF Slot, Ups
<1>7. x \in Pointers /\ Null \in Pointers /\ destroying \in BOOLEAN
  BY DEF Pointers, Shape
<1>8. Shape(t, 0)'
  BY <1>2, <1>4, <1>5, <1>6, <1>7 DEF Shape
<1>9. QED
  BY <1>1, <1>2, <1>8

LEMMA AddShape ==
  ASSUME NEW at, NEW m, Shape(at, m), NEW x \in Nodes, HeapAdd(x)
  PROVE  /\ cnt # 0 /\ \A k \in 1..cnt : at[k] # x
         /\ \E t, k : t = Added(at, cnt, x) /\ k = cnt + 1 /\ Shape(t, k)'
<1>1. PICK t : t = Added(at, cnt, x)
  OBVIOUS
<1>2. PICK n : n = cnt
  OBVIOUS
<1>3. /\ Places(at, n) /\ n \in Nat /\ n # 0
      /\ root = at[1] /\ Tree(at, n, parent, left, right) /\ Ups(at, n, 0)
  <2>1. root # Null /\ root = Slot(at, cnt, 1) /\ cnt # 0 /\ Ups(at, cnt, 0)
    BY IdleShape DEF HeapAdd
  <2>2. 1 \in 1..cnt
    BY <2>1, PlacesOf
  <2>3. QED
    BY <1>2, <2>1, <2>2, PlacesOf DEF Shape
<1>4. \A k \in 1..n : Position(k) = at[k]
  BY <1>2, <1>3, PositionIs
<1>5. \A k \in 1..n : at[k] # x
  BY <1>2, <1>4 DEF HeapAdd, Linked
<1>6. PICK now : now = Position((n + 1) \div 2)
  OBVIOUS
<1>7. now = at[(n + 1) \div 2]
  <2>1. (n + 1) \div 2 \in 1..n
    BY <1>3
  <2>2. QED
    BY <1>4, <1>6, <2>1
<1>8. Appended(parent, left, right, parent', left', right', n + 1, x, now)
  BY <1>2, <1>6 DEF HeapAdd, Appended
<1>9. Tree(t, n + 1, parent', left', right')
  BY <1>1, <1>2, <1>3, <1>5, <1>7, <1>8, AddTree
<1>10. Ups(t, n + 1, n + 1) /\ Spans(t, n + 1, n + 1)
  BY <1>1, <1>2, <1>3, AddedOrder
<1>11. /\ cnt' = n + 1 /\ pc' = "up" /\ node' = x /\ got' = Null
       /\ root' = root /\ destroying' = destroying
  BY <1>2 DEF HeapAdd
<1>12. n + 1 \in 1..(n + 1) /\ n + 1 # 1 /\ 1 \in 1..(n + 1) /\ 1 \in 1..n
  BY <1>3
<1>13. Slot(t, n + 1, n + 1) = x /\ Slot(t, n + 1, 1) = at[1]
  BY <1>1, <1>2, <1>12 DEF Slot, Added
<1>14. at[1] \in Nodes /\ at[1] \in Pointers /\ Null \in Pointers /\ destroying \in BOOLEAN
  BY <1>3, <1>12 DEF Places, Pointers, Shape
<1>15. n + 1 \in 0..(n + 1) /\ n + 1 # 0
  BY <1>3
<1>16. Shape(t, n + 1)'
  BY <1>3, <1>9, <1>10, <1>11, <1>12, <1>13, <1>14, <1>15 DEF Shape
<1>17. QED
  BY <1>1, <1>2, <1>3, <1>5, <1>16

LEMMA GetShape ==
  ASSUME NEW at, NEW m, Shape(at, m), HeapGet
  PROVE  /\ cnt # 0 /\ Ups(at, cnt, 0) /\ got' = at[1] /\ cnt' = cnt - 1
         /\ \E t, k : t = Taken(at, cnt) /\ Shape(t, k)'
<1>1. PICK t : t = Taken(at, cnt)
  OBVIOUS
<1>2. PICK n : n = cnt
  OBVIOUS
<1>3. /\ Places(at, n) /\ n \in Nat /\ n # 0 /\ 1 \in 1..n /\ n \in 1..n
      /\ root = at[1] /\ Tree(at, n, parent, left, right) /\ Ups(at, n, 0)
  <2>1. root # Null /\ root = Slot(at, cnt, 1) /\ cnt # 0 /\ Ups(at, cnt, 0)
    BY IdleShape DEF HeapGet
  <2>2. 1 \in 1..cnt /\ cnt \in 1..cnt
    BY <2>1, PlacesOf
  <2>3. QED
    BY <1>2, <2>1, <2>2, PlacesOf DEF Shape
<1>4. Position(n) = at[n]
  BY <1>3, PositionIs
<1>5. Unrooted(parent, left, right, parent', left', right', at[1], at[n])
  BY <1>2, <1>3, <1>4 DEF HeapGet, Unrooted
<1>6. Tree(t, n - 1, parent', left', right')
  BY <1>1, <1>2, <1>3, <1>5, TakeTree
<1>7. Downs(t, n - 1, 1) /\ Spans(t, n - 1, 1)
  BY <1>1, <1>2, <1>3, TakenOrder
<1>8. root' = Slot(t, n - 1, 1)
  <2>1. root' = IF at[1] = at[n] THEN Null ELSE at[n]
    BY <1>2, <1>3, <1>4 DEF HeapGet
  <2>2. at[1] = at[n] <=> n = 1
    BY <1>3 DEF Tree
  <2>3. CASE n = 1
    BY <2>1, <2>2, <2>3 DEF Slot
  <2>4. CASE n # 1
    <3>1. 1 \in 1..(n - 1)
      BY <1>3, <2>4
    <3>2. QED
      BY <1>1, <1>2, <2>1, <2>2, <2>4, <3>1 DEF Slot, Taken
  <2>5. QED
    BY <2>3, <2>4
<1>9. /\ cnt' = n - 1 /\ node' = root' /\ got' = at[1] /\ destroying' = destroying
      /\ pc' = IF root' = Null THEN "idle" ELSE "down"
  BY <1>2, <1>3 DEF HeapGet
<1>10. at[1] \in Pointers /\ destroying \in BOOLEAN
  BY <1>3 DEF Places, Pointers, Shape
<1>11. \E k : Shape(t, k)'
  <2>1. CASE n = 1
    <3>1. root' = Null /\ Null \in Pointers /\ Slot(t, 0, 0) = Null /\ Slot(t, 0, 1) = Null
      BY <1>8, <2>1 DEF Slot, Pointers
    <3>2. Ups(t, 0, 0)
      BY DEF Ups
    <3>3. cnt' = 0 /\ Tree(t, 0, parent', left', right') /\ n - 1 = 0
      BY <1>6, <1>9, <2>1
    <3>4. Shape(t, 0)'
      BY <1>9, <1>10, <3>1, <3>2, <3>3 DEF Shape
    <3>5. QED
      BY <3>4
  <2>2. CASE n # 1
    <3>1. n - 1 \in Nat /\ 1 \in 1..(n - 1) /\ 1 \in 0..(n - 1)
      BY <1>3, <2>2
    <3>2. root' \in Pointers /\ root' # Null
      BY <1>6, <1>8, <3>1, SlotFacts
    <3>3. Shape(t, 1)'
      BY <1>6, <1>7, <1>8, <1>9, <1>10, <3>1, <3>2 DEF Shape
    <3>4. QED
      BY <3>3
  <2>3. QED
    BY <2>1, <2>2
<1>12. QED
  BY <1>1, <1>2, <1>3, <1>9, <1>11

(* The child that goes up is the greatest of the family.                   *)
Greater(at, n, m, j) ==
  /\ j \in 2..n /\ j \div 2 = m /\ Child = at[j]
  /\ Priority[at[m]] < Priority[at[j]]
  /\ \A k \in 2..n : k \div 2 = m => Priority[at[k]] <= Priority[at[j]]

LEMMA ChildIs ==
  ASSUME NEW at, NEW m, Shape(at, m), m # 0
  PROVE  \/ Child = Null /\ \A k \in 2..cnt : k \div 2 = m => Priority[at[k]] <= Priority[at[m]]
         \/ \E j : Greater(at, cnt, m, j)
<1>1. /\ cnt \in Nat /\ m \in 1..cnt /\ node = at[m]
      /\ Tree(at, cnt, parent, left, right)
      /\ \A k \in 1..cnt : Slot(at, cnt, k) = at[k] /\ at[k] # Null /\ Priority[at[k]] \in Int
  BY PlacesOf DEF Shape
<1>2. left[node] = Slot(at, cnt, 2 * m) /\ right[node] = Slot(at, cnt, 2 * m + 1)
  BY <1>1 DEF Tree
<1>3. \A k \in 2..cnt : k \div 2 = m <=> k = 2 * m \/ k = 2 * m + 1
  BY <1>1
<1>4. CASE 2 * m + 1 <= cnt
  <2>1. 2 * m \in 2..cnt /\ 2 * m + 1 \in 2..cnt /\ 2 * m \in 1..cnt /\ 2 * m + 1 \in 1..cnt
    BY <1>1, <1>4
  <2>2. PICK l : l = at[2 * m]
    OBVIOUS
  <2>3. PICK r : r = at[2 * m + 1]
    OBVIOUS
  <2>4. PICK x : x = at[m]
    OBVIOUS
  <2>5. /\ left[node] = l /\ right[node] = r /\ l # Null /\ r # Null /\ node = x
        /\ Priority[l] \in Int /\ Priority[r] \in Int /\ Priority[x] \in Int
    BY <1>1, <1>2, <2>1, <2>2, <2>3, <2>4
  <2>6. \/ Child = Null /\ Priority[l] <= Priority[x] /\ Priority[r] <= Priority[x]
        \/ Child = l /\ Priority[x] < Priority[l] /\ Priority[r] <= Priority[l]
        \/ Child = r /\ Priority[x] < Priority[r] /\ Priority[l] <= Priority[r]
    BY <2>5 DEF Child, Cmp
  <2>7. CASE Child = Null /\ Priority[l] <= Priority[x] /\ Priority[r] <= Priority[x]
    BY <1>3, <2>2, <2>3, <2>4, <2>7
  <2>8. CASE Child = l /\ Priority[x] < Priority[l] /\ Priority[r] <= Priority[l]
    <3>1. \A k \in 2..cnt : k \div 2 = m => Priority[at[k]] <= Priority[l]
      BY <1>3, <2>2, <2>3, <2>5, <2>8
    <3>2. Greater(at, cnt, m, 2 * m)
      BY <1>3, <2>1, <2>2, <2>4, <2>8, <3>1 DEF Greater
    <3>3. QED
      BY <3>2
  <2>9. CASE Child = r /\ Priority[x] < Priority[r] /\ Priority[l] <= Priority[r]
    <3>1. \A k \in 2..cnt : k \div 2 = m => Priority[at[k]] <= Priority[r]
      BY <1>3, <2>2, <2>3, <2>5, <2>9
    <3>2. Greater(at, cnt, m, 2 * m + 1)
      BY <1>3, <2>1, <2>3, <2>4, <2>9, <3>1 DEF Greater
    <3>3. QED
      BY <3>2
  <2>10. QED
    BY <2>6, <2>7, <2>8, <2>9
<1>5. CASE 2 * m = cnt
  <2>1. 2 * m \in 2..cnt /\ 2 * m \in 1..cnt /\ 2 * m + 1 \notin 1..cnt /\ 2 * m + 1 \notin 2..cnt
    BY <1>1, <1>5
  <2>2. /\ left[node] = at[2 * m] /\ right[node] = Null /\ at[2 * m] # Null
        /\ Priority[at[2 * m]] \in Int /\ Priority[at[m]] \in Int
    BY <1>1, <1>2, <2>1 DEF Slot
  <2>3. \A k \in 2..cnt : k \div 2 = m => k = 2 * m
    BY <1>3, <2>1
  <2>4. \/ Child = Null /\ Priority[at[2 * m]] <= Priority[at[m]]
        \/ Child = at[2 * m] /\ Priority[at[m]] < Priority[at[2 * m]]
    BY <1>1, <2>2 DEF Child, Cmp
  <2>5. Priority[at[2 * m]] <= Priority[at[2 * m]]
    BY <2>2
  <2>6. CASE Child = at[2 * m] /\ Priority[at[m]] < Priority[at[2 * m]]
    <3>1. \A k \in 2..cnt : k \div 2 = m => Priority[at[k]] <= Priority[at[2 * m]]
      BY <2>3, <2>5
    <3>2. Greater(at, cnt, m, 2 * m)
      BY <1>3, <2>1, <2>6, <3>1 DEF Greater
    <3>3. QED
      BY <3>2
  <2>7. QED
    BY <2>3, <2>4, <2>6
<1>6. CASE 2 * m > cnt
  <2>1. 2 * m \notin 1..cnt /\ 2 * m + 1 \notin 1..cnt
    BY <1>1, <1>6
  <2>2. left[node] = Null /\ right[node] = Null
    BY <1>2, <2>1 DEF Slot
  <2>3. \A k \in 2..cnt : k \div 2 # m
    BY <1>1, <1>6
  <2>4. QED
    BY <2>2, <2>3 DEF Child
<1>7. QED
  BY <1>1, <1>4, <1>5, <1>6

LEMMA MoveDownShape ==
  ASSUME NEW at, NEW m, Shape(at, m), MoveDown
  PROVE  \E j \in 2..cnt : /\ j \div 2 = m /\ m \in 1..cnt
                           /\ \E t : t = Swapped(at, cnt, m, j) /\ Shape(t, j)'
<1>1. /\ Places(at, cnt) /\ cnt \in Nat /\ m \in 1..cnt /\ m # 0
      /\ node = at[m] /\ Tree(at, cnt, parent, left, right)
      /\ pc = "down" /\ Downs(at, cnt, m) /\ Spans(at, cnt, m)
  BY PlacesOf DEF Shape, MoveDown
<1>2. PICK j : Greater(at, cnt, m, j)
  BY <1>1, ChildIs DEF MoveDown
<1>3. /\ j \in 2..cnt /\ j \div 2 = m /\ Child = at[j] /\ Priority[at[m]] < Priority[at[j]]
      /\ \A k \in 2..cnt : k \div 2 = m => Priority[at[k]] <= Priority[at[j]]
  BY <1>2 DEF Greater
<1>4. PICK t : t = Swapped(at, cnt, m, j)
  OBVIOUS
<1>5. j \in 1..cnt /\ 1 \in 1..cnt /\ j # m /\ j # 1 /\ j \in 0..cnt /\ j # 0
  BY <1>1, <1>3
<1>6. Exchanged(parent, left, right, parent', left', right', at[m], at[j])
  <2>1. DownRound(at[m], at[j])
    BY <1>1, <1>3 DEF MoveDown
  <2>2. Apart(at[m], at[j])
    BY <1>1, <1>3, <1>5, TreeApart
  <2>3. QED
    BY <2>1, <2>2, RoundsExchange
<1>7. Tree(t, cnt, parent', left', right')
  BY <1>1, <1>3, <1>4, <1>5, <1>6, ExchangeTree
<1>8. Downs(t, cnt, j) /\ Spans(t, cnt, j)
  BY <1>1, <1>3, <1>4, DownSwap
<1>9. node = Slot(t, cnt, j)
  BY <1>1, <1>4, <1>5 DEF Slot, Swapped
<1>10. UNCHANGED <<cnt, pc, node, destroying, got>>
  BY DEF MoveDown
<1>11. root' = Slot(t, cnt, 1)
  <2>1. root = at[1] /\ root' = IF root = node THEN Child ELSE root
    BY <1>1, <1>5, PlacesOf DEF MoveDown, Shape
  <2>2. root = node <=> m = 1
    BY <1>1, <1>5, <2>1 DEF Tree
  <2>3. root' = IF m = 1 THEN at[j] ELSE at[1]
    BY <1>3, <2>1, <2>2
  <2>4. t[1] = IF m = 1 THEN at[j] ELSE at[1]
    BY <1>4, <1>5 DEF Swapped
  <2>5. QED
    BY <1>5, <2>3, <2>4 DEF Slot
<1>12. root' \in Pointers /\ got \in Pointers /\ destroying \in BOOLEAN
  BY <1>7, <1>11, SlotFacts DEF Shape
<1>13. Shape(t, j)'
  BY <1>1, <1>5, <1>7, <1>8, <1>9, <1>10, <1>11, <1>12 DEF Shape
<1>14. QED
  BY <1>1, <1>3, <1>4, <1>13

LEMMA DownEndsShape ==
  ASSUME NEW at, NEW m, Shape(at, m), AdjustDownEnds
  PROVE  Shape(at, 0)'
<1>1. /\ Places(at, cnt) /\ cnt \in Nat /\ m \in 1..cnt /\ m # 0 /\ 0 \in 0..cnt
      /\ pc = "down" /\ Downs(at, cnt, m)
  BY PlacesOf DEF Shape, AdjustDownEnds
<1>2. \A k \in 2..cnt : k \div 2 = m => Priority[at[k]] <= Priority[at[m]]
  <2>1. ASSUME NEW j, Greater(at, cnt, m, j) PROVE Child # Null
    <3>1. j \in 1..cnt /\ Child = at[j]
      BY <1>1, <2>1 DEF Greater
    <3>2. QED
      BY <3>1, PlacesOf
  <2>2. QED
    BY <1>1, <2>1, ChildIs DEF AdjustDownEnds, Breaks
<1>3. Ups(at, cnt, 0)
  BY <1>1, <1>2, DownDone
<1>4. Slot(at, cnt, 0) = Null
  BY DEF Slot
<1>5. UNCHANGED <<parent, left, right, root, cnt, destroying, got>> /\ pc' = "idle" /\ node' = Null
  BY DEF AdjustDownEnds, links
<1>6. /\ Tree(at, cnt, parent, left, right) /\ root = Slot(at, cnt, 1)
      /\ root \in Pointers /\ got \in Pointers /\ destroying \in BOOLEAN
  BY <1>1 DEF Shape
<1>7. QED
  BY <1>1, <1>3, <1>4, <1>5, <1>6 DEF Shape

LEMMA EmptyShape ==
  ASSUME NEW at, NEW m, Shape(at, m), HeapGetEmpty \/ HeapDestruct \/ HeapFree
  PROVE  Shape(at, m)' /\ cnt' = cnt /\ (root = Null => cnt = 0)
<1>1. CASE HeapGetEmpty
  <2>1. UNCHANGED <<parent, left, right, root, cnt, pc, node, destroying>> /\ got' \in Pointers
    BY <1>1 DEF HeapGetEmpty, links, Pointers
  <2>2. QED
    BY <1>1, <2>1, IdleShape DEF Shape, HeapGetEmpty
<1>2. CASE HeapDestruct
  <2>1. UNCHANGED <<parent, left, right, root, cnt, pc, node, got>> /\ destroying' \in BOOLEAN
    BY <1>2 DEF HeapDestruct, links
  <2>2. QED
    BY <1>2, <2>1, IdleShape DEF Shape, HeapDestruct
<1>3. CASE HeapFree
  <2>1. m = 0 /\ cnt = 0 /\ Ups(at, cnt, 0)
    BY <1>3, IdleShape DEF HeapFree
  <2>2. /\ UNCHANGED <<parent, left, right, root, cnt, node, destroying>>
        /\ got' \in Pointers /\ pc' = "freed"
    BY <1>3, <2>1 DEF HeapFree, links, Pointers
  <2>3. QED
    BY <1>3, <2>1, <2>2 DEF Shape, HeapFree
<1>4. QED
  BY <1>1, <1>2, <1>3

LEMMA CreateShape ==
  ASSUME HeapCreate
  PROVE  cnt = 0 /\ \E at : Shape(at, 0)
<1>1. PICK at : at = [k \in 1..0 |-> Null]
  OBVIOUS
<1>2. at \in [1..0 -> Nodes]
  BY <1>1
<1>3. parent \in Links /\ left \in Links /\ right \in Links /\ cnt = 0
  BY DEF HeapCreate, Links, Pointers
<1>4. Tree(at, cnt, parent, left, right)
  BY <1>2, <1>3, NoTree
<1>5. Slot(at, cnt, 0) = Null /\ Slot(at, cnt, 1) = Null /\ Ups(at, cnt, 0) /\ 0 \in 0..cnt
  BY <1>3 DEF Slot, Ups
<1>6. root = Null /\ node = Null /\ got = Null /\ destroying = FALSE /\ pc = "idle"
  BY DEF HeapCreate
<1>7. Null \in Pointers /\ FALSE \in BOOLEAN
  BY DEF Pointers
<1>8. Shape(at, 0)
  BY <1>4, <1>5, <1>6, <1>7 DEF Shape
<1>9. QED
  BY <1>3, <1>8

-----------------------------------------------------------------------------
(* The blocks of heap.c: one for each place.                               *)
BlocksOf(at, n) == {at[k][1] : k \in 1..n}

OwnBlocks(at, n) == \A j, k \in 1..n : at[j][1] = at[k][1] => j = k

Memory(at) ==
  /\ program \in {"heap_interface.c", "heap.c"}
  /\ program = "heap_interface.c" => allocated = {}
  /\ program = "heap.c" => allocated = BlocksOf(at, cnt) /\ OwnBlocks(at, cnt)

HeapInv == \E at, m : Shape(at, m) /\ Memory(at)

LEMMA SwappedNodes ==
  ASSUME NEW at, NEW n \in Nat, NEW i \in 1..n, NEW j \in 1..n, i # j,
         NEW t, t = Swapped(at, n, i, j)
  PROVE  /\ NodesOf(t, n) = NodesOf(at, n) /\ BlocksOf(t, n) = BlocksOf(at, n)
         /\ OwnBlocks(at, n) => OwnBlocks(t, n)
<1> DEFINE s == [k \in 1..n |-> IF k = i THEN j ELSE IF k = j THEN i ELSE k]
<1>1. \A k \in 1..n : s[k] \in 1..n /\ t[k] = at[s[k]] /\ s[s[k]] = k
  BY DEF Swapped
<1>2. \A k \in 1..n : t[s[k]] = at[k]
  <2> HIDE DEF s
  <2>1. QED
    BY <1>1
<1>3. QED
  <2> HIDE DEF s
  <2>1. NodesOf(t, n) = NodesOf(at, n)
    BY <1>1, <1>2 DEF NodesOf
  <2>2. BlocksOf(t, n) = BlocksOf(at, n)
    BY <1>1, <1>2 DEF BlocksOf
  <2>3. OwnBlocks(at, n) => OwnBlocks(t, n)
    BY <1>1 DEF OwnBlocks
  <2>4. QED
    BY <2>1, <2>2, <2>3

LEMMA AddedNodes ==
  ASSUME NEW at, NEW n \in Nat, NEW x, NEW t, t = Added(at, n, x)
  PROVE  /\ NodesOf(t, n + 1) = NodesOf(at, n) \cup {x}
         /\ BlocksOf(t, n + 1) = BlocksOf(at, n) \cup {x[1]}
         /\ OwnBlocks(at, n) /\ x[1] \notin BlocksOf(at, n) => OwnBlocks(t, n + 1)
<1>1. /\ \A k \in 1..n : k \in 1..(n + 1) /\ k # n + 1 /\ t[k] = at[k]
      /\ n + 1 \in 1..(n + 1) /\ t[n + 1] = x
      /\ \A k \in 1..(n + 1) : k = n + 1 \/ k \in 1..n
  BY DEF Added
<1>2. NodesOf(t, n + 1) = NodesOf(at, n) \cup {x}
  BY <1>1 DEF NodesOf
<1>3. BlocksOf(t, n + 1) = BlocksOf(at, n) \cup {x[1]}
  BY <1>1 DEF BlocksOf
<1>4. ASSUME OwnBlocks(at, n), x[1] \notin BlocksOf(at, n)
      PROVE  OwnBlocks(t, n + 1)
  BY <1>1, <1>4 DEF OwnBlocks, BlocksOf
<1>5. QED
  BY <1>2, <1>3, <1>4

LEMMA TakenNodes ==
  ASSUME NEW at, NEW n \in Nat, n # 0, NEW t, t = Taken(at, n)
  PROVE  /\ (\A j, k \in 1..n : at[j] = at[k] => j = k)
              => NodesOf(t, n - 1) = NodesOf(at, n) \ {at[1]}
         /\ OwnBlocks(at, n) => /\ BlocksOf(t, n - 1) = BlocksOf(at, n) \ {at[1][1]}
                                /\ OwnBlocks(t, n - 1)
<1> DEFINE s == [k \in 1..(n - 1) |-> IF k = 1 THEN n ELSE k]
           u == [k \in 2..n |-> IF k = n THEN 1 ELSE k]
<1>1. /\ \A k \in 1..(n - 1) : s[k] \in 2..n /\ s[k] \in 1..n /\ t[k] = at[s[k]] /\ u[s[k]] = k
      /\ \A k \in 2..n : u[k] \in 1..(n - 1) /\ s[u[k]] = k /\ k \in 1..n /\ k # 1
      /\ \A k \in 1..n : k = 1 \/ k \in 2..n
      /\ 1 \in 1..n
  BY DEF Taken
<1>2. QED
  <2> HIDE DEF s, u
  <2>1. ASSUME \A j, k \in 1..n : at[j] = at[k] => j = k
        PROVE  NodesOf(t, n - 1) = NodesOf(at, n) \ {at[1]}
    BY <1>1, <2>1 DEF NodesOf
  <2>2. ASSUME OwnBlocks(at, n)
        PROVE  BlocksOf(t, n - 1) = BlocksOf(at, n) \ {at[1][1]}
    BY <1>1, <2>2 DEF BlocksOf, OwnBlocks
  <2>3. ASSUME OwnBlocks(at, n)
        PROVE  OwnBlocks(t, n - 1)
    BY <1>1, <2>3 DEF OwnBlocks
  <2>4. QED
    BY <2>1, <2>2, <2>3

-----------------------------------------------------------------------------
(* What the operations do to the nodes in the tree: at before, t after.    *)
Same(at, t, n) ==
  /\ NodesOf(t, n) = NodesOf(at, n) /\ BlocksOf(t, n) = BlocksOf(at, n)
  /\ OwnBlocks(at, n) => OwnBlocks(t, n)

More(at, t, n, x) ==
  /\ x \notin NodesOf(at, n)
  /\ NodesOf(t, n + 1) = NodesOf(at, n) \cup {x}
  /\ BlocksOf(t, n + 1) = BlocksOf(at, n) \cup {x[1]}
  /\ OwnBlocks(at, n) /\ x[1] \notin BlocksOf(at, n) => OwnBlocks(t, n + 1)

Fewer(at, t, n, x) ==
  /\ x \in NodesOf(at, n) /\ \A y \in NodesOf(at, n) : Priority[y] <= Priority[x]
  /\ NodesOf(t, n - 1) = NodesOf(at, n) \ {x}
  /\ OwnBlocks(at, n) => BlocksOf(t, n - 1) = BlocksOf(at, n) \ {x[1]} /\ OwnBlocks(t, n - 1)

LEMMA AddNodes ==
  ASSUME NEW at, NEW m, Shape(at, m), NEW x \in Nodes, HeapAddFirst(x) \/ HeapAdd(x)
  PROVE  \E t, k : Shape(t, k)' /\ More(at, t, cnt, x) /\ cnt' = cnt + 1 /\ got' = Null
<1>1. PICK n \in Nat : n = cnt
  BY PlacesOf
<1>2. PICK t, k : t = Added(at, n, x) /\ Shape(t, k)' /\ \A h \in 1..n : at[h] # x
  <2>1. CASE HeapAddFirst(x)
    <3>1. PICK s : s = [k \in 1..1 |-> x]
      OBVIOUS
    <3>2. n = 0 /\ Shape(s, 0)'
      BY <1>1, <2>1, <3>1, AddFirstShape
    <3>3. s = Added(at, n, x)
      BY <3>1, <3>2 DEF Added
    <3>4. \A h \in 1..n : at[h] # x
      BY <3>2
    <3>5. QED
      BY <3>2, <3>3, <3>4
  <2>2. CASE HeapAdd(x)
    BY <1>1, <2>2, AddShape
  <2>3. QED
    BY <2>1, <2>2
<1>3. x \notin NodesOf(at, n)
  BY <1>2 DEF NodesOf
<1>4. More(at, t, n, x)
  <2>1. /\ NodesOf(t, n + 1) = NodesOf(at, n) \cup {x}
        /\ BlocksOf(t, n + 1) = BlocksOf(at, n) \cup {x[1]}
        /\ OwnBlocks(at, n) /\ x[1] \notin BlocksOf(at, n) => OwnBlocks(t, n + 1)
    BY <1>2, AddedNodes
  <2>2. QED
    BY <1>3, <2>1 DEF More
<1>5. cnt' = cnt + 1 /\ got' = Null
  BY DEF HeapAddFirst, HeapAdd
<1>6. QED
  BY <1>1, <1>2, <1>4, <1>5

LEMMA MoveNodes ==
  ASSUME NEW at, NEW m, Shape(at, m), MoveUp \/ AdjustUpEnds \/ MoveDown \/ AdjustDownEnds
  PROVE  \E t, k : Shape(t, k)' /\ Same(at, t, cnt) /\ UNCHANGED <<cnt, got>>
<1>1. PICK n \in Nat : n = cnt
  BY PlacesOf
<1>2. UNCHANGED <<cnt, got>>
  BY DEF MoveUp, AdjustUpEnds, MoveDown, AdjustDownEnds
<1>3. Same(at, at, n)
  BY DEF Same
<1>4. CASE MoveUp
  <2>1. PICK t : m \in 2..n /\ t = Swapped(at, n, m \div 2, m) /\ Shape(t, m \div 2)'
    BY <1>1, <1>4, MoveUpShape
  <2>2. m \in 1..n /\ m \div 2 \in 1..n /\ m \div 2 # m
    BY <2>1
  <2>3. Same(at, t, n)
    BY <2>1, <2>2, SwappedNodes DEF Same
  <2>4. QED
    BY <1>1, <1>2, <2>1, <2>3
<1>5. CASE MoveDown
  <2>1. PICK j \in 2..n : /\ j \div 2 = m /\ m \in 1..n
                          /\ \E t : t = Swapped(at, n, m, j) /\ Shape(t, j)'
    BY <1>1, <1>5, MoveDownShape
  <2>2. PICK t : t = Swapped(at, n, m, j) /\ Shape(t, j)'
    BY <2>1
  <2>3. j \in 1..n /\ m # j
    BY <2>1
  <2>4. Same(at, t, n)
    BY <2>1, <2>2, <2>3, SwappedNodes DEF Same
  <2>5. QED
    BY <1>1, <1>2, <2>2, <2>4
<1>6. CASE AdjustUpEnds
  BY <1>1, <1>2, <1>3, <1>6, UpEndsShape
<1>7. CASE AdjustDownEnds
  BY <1>1, <1>2, <1>3, <1>7, DownEndsShape
<1>8. QED
  BY <1>4, <1>5, <1>6, <1>7

LEMMA GetNodes ==
  ASSUME NEW at, NEW m, Shape(at, m), HeapGet
  PROVE  \E t, k : /\ Shape(t, k)' /\ Fewer(at, t, cnt, at[1])
                   /\ cnt' = cnt - 1 /\ got' = at[1] /\ at[1] \in Nodes
<1>1. PICK n \in Nat : n = cnt
  BY PlacesOf
<1>2. PICK t, k : /\ t = Taken(at, n) /\ Shape(t, k)' /\ n # 0 /\ Ups(at, n, 0)
                  /\ cnt' = cnt - 1 /\ got' = at[1]
  BY <1>1, GetShape
<1>3. /\ Places(at, n) /\ 1 \in 1..n /\ at[1] \in Nodes
      /\ \A j, h \in 1..n : at[j] = at[h] => j = h
  <2>1. Places(at, n) /\ 1 \in 1..n
    BY <1>1, <1>2, PlacesOf
  <2>2. \A j, h \in 1..n : at[j] = at[h] => j = h
    BY <1>1 DEF Shape, Tree
  <2>3. QED
    BY <2>1, <2>2 DEF Places
<1>4. \A y \in NodesOf(at, n) : Priority[y] <= Priority[at[1]]
  BY <1>2, <1>3, GreatestFirst DEF NodesOf
<1>5. Fewer(at, t, n, at[1])
  <2>1. NodesOf(t, n - 1) = NodesOf(at, n) \ {at[1]}
    BY <1>2, <1>3, TakenNodes
  <2>2. OwnBlocks(at, n) => /\ BlocksOf(t, n - 1) = BlocksOf(at, n) \ {at[1][1]}
                            /\ OwnBlocks(t, n - 1)
    BY <1>2, TakenNodes
  <2>3. at[1] \in NodesOf(at, n)
    BY <1>3 DEF NodesOf
  <2>4. QED
    BY <1>4, <2>1, <2>2, <2>3 DEF Fewer
<1>6. QED
  BY <1>1, <1>2, <1>3, <1>5

-----------------------------------------------------------------------------
LEMMA InitHeap == HeapInit => HeapInv
<1> SUFFICES ASSUME HeapInit PROVE HeapInv
  OBVIOUS
<1>1. PICK at : Shape(at, 0) /\ cnt = 0
  BY CreateShape DEF HeapInit
<1>2. Memory(at)
  BY <1>1 DEF Memory, HeapInit, BlocksOf, OwnBlocks
<1>3. QED
  BY <1>1, <1>2 DEF HeapInv

(* A step of the tree with what it does to the memory.                     *)
AddStep(x) ==
  /\ HeapAddFirst(x) \/ HeapAdd(x)
  /\ program' = program
  /\ \/ program = "heap_interface.c" /\ allocated' = allocated
     \/ /\ program = "heap.c" /\ x[1] \notin allocated
        /\ allocated' = allocated \cup {x[1]}

MoveStep ==
  /\ MoveUp \/ AdjustUpEnds \/ MoveDown \/ AdjustDownEnds
  /\ UNCHANGED <<program, allocated>>

GetStep ==
  /\ HeapGet
  /\ program' = program
  /\ \/ program = "heap_interface.c" /\ allocated' = allocated
     \/ program = "heap.c" /\ allocated' = {b \in allocated : got' = Null \/ b # got'[1]}

EmptyStep ==
  /\ HeapGetEmpty \/ HeapDestruct \/ HeapFree
  /\ UNCHANGED <<program, allocated>>

LEMMA StepsAre ==
  ASSUME HeapNext
  PROVE  (\E x \in Nodes : AddStep(x)) \/ MoveStep \/ GetStep \/ EmptyStep
<1>1. CASE ByCaller /\ \E n \in Embedded : HeapAddFirst(n) \/ HeapAdd(n)
  BY <1>1, ValueHeapAssumption DEF ByCaller, AddStep
<1>2. CASE \E b \in Blocks, v \in Values : AddValue(b, v)
  <2>1. PICK b \in Blocks, v \in Values : AddValue(b, v)
    BY <1>2
  <2>2. <<b, v>> \in Nodes /\ <<b, v>>[1] = b
    BY ValueHeapAssumption
  <2>3. AddStep(<<b, v>>)
    BY <2>1, <2>2 DEF AddValue, ByValue, AddStep
  <2>4. QED
    BY <2>2, <2>3
<1>3. CASE \/ ByCaller /\ (MoveUp \/ AdjustUpEnds)
           \/ ByCaller /\ (MoveDown \/ AdjustDownEnds)
           \/ AdjustUp \/ AdjustDown
  BY <1>3 DEF ByCaller, ByValue, AdjustUp, AdjustDown, MoveStep
<1>4. CASE (ByCaller /\ HeapGet) \/ GetValue
  BY <1>4 DEF ByCaller, ByValue, GetValue, FreedNode, GetStep
<1>5. CASE \/ ByCaller /\ HeapGetEmpty
           \/ GetValueEmpty
           \/ ByCaller /\ (HeapDestruct \/ HeapFree)
  BY <1>5 DEF ByCaller, ByValue, GetValueEmpty, EmptyStep
<1>6. QED
  BY <1>1, <1>2, <1>3, <1>4, <1>5 DEF HeapNext

(* The nodes in the tree before a step and after it.                       *)
Seen == \A at, m : Shape(at, m) => Members = NodesOf(at, cnt)

LEMMA MembersSeen == Seen
BY MembersIs DEF Seen

LEMMA MembersNext ==
  ASSUME NEW at, NEW m, Shape(at, m)'
  PROVE  Members' = NodesOf(at, cnt')
<1>1. Seen'
  BY MembersSeen, PTL
<1>2. QED
  BY <1>1 DEF Seen

LEMMA AddKeeps ==
  ASSUME HeapInv, NEW x \in Nodes, AddStep(x)
  PROVE  HeapInv' /\ Queue!Insert(x)
<1>1. PICK at, m : Shape(at, m) /\ Memory(at)
  BY DEF HeapInv
<1>2. PICK t, k : Shape(t, k)' /\ More(at, t, cnt, x) /\ cnt' = cnt + 1 /\ got' = Null
  BY <1>1, AddNodes DEF AddStep
<1>3. Memory(t)'
  BY <1>1, <1>2 DEF Memory, More, AddStep
<1>4. Members = NodesOf(at, cnt) /\ Members' = NodesOf(t, cnt + 1)
  BY <1>1, <1>2, MembersIs, MembersNext
<1>5. Queue!Insert(x)
  BY <1>2, <1>4 DEF More, Queue!Insert
<1>6. QED
  BY <1>2, <1>3, <1>5 DEF HeapInv

LEMMA MoveKeeps ==
  ASSUME HeapInv, MoveStep
  PROVE  HeapInv' /\ UNCHANGED <<Members, got>>
<1>1. PICK at, m : Shape(at, m) /\ Memory(at)
  BY DEF HeapInv
<1>2. PICK t, k : Shape(t, k)' /\ Same(at, t, cnt) /\ UNCHANGED <<cnt, got>>
  BY <1>1, MoveNodes DEF MoveStep
<1>3. Memory(t)'
  BY <1>1, <1>2 DEF Memory, Same, MoveStep
<1>4. Members = NodesOf(at, cnt) /\ Members' = NodesOf(t, cnt)
  BY <1>1, <1>2, MembersIs, MembersNext
<1>5. QED
  BY <1>2, <1>3, <1>4 DEF HeapInv, Same

LEMMA GetKeeps ==
  ASSUME HeapInv, GetStep
  PROVE  HeapInv' /\ \E x \in Nodes : Queue!RemoveGreatest(x)
<1>1. PICK at, m : Shape(at, m) /\ Memory(at)
  BY DEF HeapInv
<1>2. PICK x : x = at[1]
  OBVIOUS
<1>3. PICK t, k : /\ Shape(t, k)' /\ Fewer(at, t, cnt, x)
                  /\ cnt' = cnt - 1 /\ got' = x /\ x \in Nodes /\ x # Null
  BY <1>1, <1>2, GetNodes, HeapGiven DEF GetStep
<1>4. Memory(t)'
  BY <1>1, <1>3 DEF Memory, Fewer, GetStep
<1>5. Members = NodesOf(at, cnt) /\ Members' = NodesOf(t, cnt - 1)
  BY <1>1, <1>3, MembersIs, MembersNext
<1>6. Queue!RemoveGreatest(x)
  BY <1>3, <1>5 DEF Fewer, Queue!RemoveGreatest
<1>7. QED
  BY <1>3, <1>4, <1>6 DEF HeapInv

LEMMA EmptyKeeps ==
  ASSUME HeapInv, EmptyStep
  PROVE  HeapInv' /\ (UNCHANGED <<Members, got>> \/ Queue!FindEmpty)
<1>1. PICK at, m : Shape(at, m) /\ Memory(at)
  BY DEF HeapInv
<1>2. Shape(at, m)' /\ cnt' = cnt /\ (root = Null => cnt = 0)
  BY <1>1, EmptyShape DEF EmptyStep
<1>3. Memory(at)'
  BY <1>1, <1>2 DEF Memory, EmptyStep
<1>4. Members = NodesOf(at, cnt) /\ Members' = NodesOf(at, cnt)
  BY <1>1, <1>2, MembersIs, MembersNext
<1>5. cnt = 0 => NodesOf(at, cnt) = {}
  BY DEF NodesOf
<1>6. UNCHANGED <<Members, got>> \/ Queue!FindEmpty
  BY <1>2, <1>4, <1>5 DEF EmptyStep, HeapGetEmpty, HeapDestruct, HeapFree, Queue!FindEmpty
<1>7. QED
  BY <1>2, <1>3, <1>6 DEF HeapInv

LEMMA StepHeap == HeapInv /\ [HeapNext]_heapVars => HeapInv'
<1> SUFFICES ASSUME HeapInv, [HeapNext]_heapVars PROVE HeapInv'
  OBVIOUS
<1>1. CASE HeapNext
  BY <1>1, StepsAre, AddKeeps, MoveKeeps, GetKeeps, EmptyKeeps
<1>2. CASE UNCHANGED heapVars
  BY <1>2 DEF heapVars, treeVars, links, HeapInv, Shape, Memory
<1>3. QED
  BY <1>1, <1>2

(* The links are those of a complete tree of which only the node that      *)
(* moves is out of order, and heap.c has allocated a block for each place. *)
THEOREM HeapInvariant == HeapSpec => []HeapInv
BY InitHeap, StepHeap, PTL DEF HeapSpec

LEMMA CompleteOf == HeapInv => CompleteTree
<1> SUFFICES ASSUME HeapInv PROVE CompleteTree
  OBVIOUS
<1>1. PICK at, m : Shape(at, m)
  BY DEF HeapInv
<1>2. PICK n \in Nat : n = cnt
  BY <1>1, PlacesOf
<1>3. /\ at \in [1..n -> Nodes] /\ parent \in Links /\ left \in Links /\ right \in Links
      /\ \A j, k \in 1..n : at[j] = at[k] => j = k
      /\ \A k \in 1..n : /\ parent[at[k]] = Slot(at, n, k \div 2)
                         /\ left[at[k]] = Slot(at, n, 2 * k)
                         /\ right[at[k]] = Slot(at, n, 2 * k + 1)
  BY <1>1, <1>2 DEF Shape, Tree
<1>4. \A k \in 1..n : At(k) = at[k] /\ at[k] # Null /\ at[k] \in Nodes
  BY <1>1, <1>2, <1>3, NodesAt, HeapGiven
<1>5. HeapTypeOK
  <2>1. n <= Cardinality(Nodes)
    <3>1. at \in Injection(1..n, Nodes)
      BY <1>3 DEF Injection, IsInjective
    <3>2. Cardinality(1..n) <= Cardinality(Nodes)
      BY <3>1, HeapGiven, FS_Injection
    <3>3. Cardinality(1..n) = IF 1 > n THEN 0 ELSE n - 1 + 1
      BY FS_Interval
    <3>4. QED
      BY <3>2, <3>3
  <2>2. cnt \in 0..Cardinality(Nodes)
    BY <1>2, <2>1, HeapGiven
  <2>3. node \in Pointers
    BY <1>1, <1>3, SlotFacts DEF Shape
  <2>4. QED
    BY <1>1, <1>3, <2>2, <2>3 DEF HeapTypeOK, Shape, Links
<1>6. root = Null <=> n = 0
  <2>1. CASE pc = "up" /\ m = 1
    BY <1>1, <1>2, <2>1, HeapGiven DEF Shape
  <2>2. CASE ~(pc = "up" /\ m = 1)
    <3>1. root = Slot(at, n, 1)
      BY <1>1, <1>2, <2>2 DEF Shape
    <3>2. 1 \in 1..n <=> n # 0
      OBVIOUS
    <3>3. QED
      BY <1>4, <3>1, <3>2 DEF Slot
  <2>3. QED
    BY <2>1, <2>2
<1>7. ASSUME NEW k \in 1..n
      PROVE  /\ At(k) # Null
             /\ parent[At(k)] = IF k = 1 THEN Null ELSE At(k \div 2)
             /\ left[At(k)] = IF 2 * k <= n THEN At(2 * k) ELSE Null
             /\ right[At(k)] = IF 2 * k + 1 <= n THEN At(2 * k + 1) ELSE Null
  <2>1. k \div 2 \in 1..n <=> k # 1
    OBVIOUS
  <2>2. (2 * k \in 1..n <=> 2 * k <= n) /\ (2 * k + 1 \in 1..n <=> 2 * k + 1 <= n)
    OBVIOUS
  <2>3. parent[At(k)] = IF k = 1 THEN Null ELSE At(k \div 2)
    BY <1>3, <1>4, <2>1 DEF Slot
  <2>4. left[At(k)] = IF 2 * k <= n THEN At(2 * k) ELSE Null
    BY <1>3, <1>4, <2>2 DEF Slot
  <2>5. right[At(k)] = IF 2 * k + 1 <= n THEN At(2 * k + 1) ELSE Null
    BY <1>3, <1>4, <2>2 DEF Slot
  <2>6. QED
    BY <1>4, <2>3, <2>4, <2>5
<1>8. \A j, k \in 1..n : At(j) = At(k) => j = k
  BY <1>3, <1>4
<1>9. QED
  BY <1>2, <1>5, <1>6, <1>7, <1>8 DEF CompleteTree

(* heap_interface.c and heap.c: in whatever order nodes are added and      *)
(* removed, the links are those of the complete tree of cnt nodes between  *)
(* any two rounds of heapAdjustUp and heapAdjustDown.                      *)
THEOREM TreeComplete == HeapSpec => []CompleteTree
BY HeapInvariant, CompleteOf, PTL

LEMMA OrderOf == HeapInv => HeapOrder
<1> SUFFICES ASSUME HeapInv PROVE HeapOrder
  OBVIOUS
<1>1. PICK at, m : Shape(at, m)
  BY DEF HeapInv
<1>2. PICK c \in Nat : c = cnt
  BY <1>1, PlacesOf
<1>3. /\ \A k \in 1..c : parent[at[k]] = Slot(at, c, k \div 2)
      /\ \A k \in 1..c : Slot(at, c, k) = at[k] /\ at[k] # Null /\ Priority[at[k]] \in Int
      /\ \A j, k \in 1..c : at[j] = at[k] => j = k
      /\ node = Slot(at, c, m) /\ m \in 0..c
  BY <1>1, <1>2, PlacesOf DEF Shape, Tree
<1>4. SUFFICES ASSUME NEW n \in Members \ {Top}
               PROVE  /\ \/ pc = "up" /\ n = node
                         \/ pc = "down" /\ parent[n] = node
                         \/ Cmp(parent[n], n) >= 0
                      /\ parent[n] = node /\ parent[parent[n]] # Null
                           => Cmp(parent[parent[n]], n) >= 0
  BY DEF HeapOrder
<1>5. PICK k \in 1..c : n = at[k]
  BY <1>1, <1>2, MembersIs DEF NodesOf
<1>6. k # 1 /\ k \in 2..c /\ k \div 2 \in 1..c
  <2>1. Top = Slot(at, c, 1)
    BY <1>1, <1>2, TopIs
  <2>2. k # 1
    BY <1>3, <1>5, <2>1
  <2>3. QED
    BY <2>2
<1>7. parent[n] = at[k \div 2]
  BY <1>3, <1>5, <1>6
<1>8. ASSUME ~(pc = "up" /\ n = node), ~(pc = "down" /\ parent[n] = node)
      PROVE  Cmp(parent[n], n) >= 0
  <2>1. Priority[at[k]] <= Priority[at[k \div 2]]
    <3>1. CASE pc = "up"
      <4>1. Ups(at, c, m) /\ m # 0
        BY <1>1, <1>2, <3>1 DEF Shape
      <4>2. k # m
        BY <1>3, <1>5, <1>8, <3>1
      <4>3. QED
        BY <1>6, <4>1, <4>2 DEF Ups
    <3>2. CASE pc = "down"
      <4>1. Downs(at, c, m) /\ m # 0
        BY <1>1, <1>2, <3>2 DEF Shape
      <4>2. k \div 2 # m
        BY <1>3, <1>6, <1>7, <1>8, <3>2
      <4>3. QED
        BY <1>6, <4>1, <4>2 DEF Downs
    <3>3. CASE pc \in {"idle", "freed"}
      <4>1. Ups(at, c, 0) /\ k # 0
        BY <1>1, <1>2, <1>6, <3>3 DEF Shape
      <4>2. QED
        BY <1>6, <4>1 DEF Ups
    <3>4. QED
      BY <1>1, <3>1, <3>2, <3>3 DEF Shape
  <2>2. Priority[at[k]] \in Int /\ Priority[at[k \div 2]] \in Int
    BY <1>3, <1>6
  <2>3. QED
    BY <1>5, <1>7, <2>1, <2>2 DEF Cmp
<1>9. ASSUME parent[n] = node, parent[parent[n]] # Null
      PROVE  Cmp(parent[parent[n]], n) >= 0
  <2>1. m # 0
    <3>1. Slot(at, c, 0) = Null
      BY DEF Slot
    <3>2. QED
      BY <1>3, <1>6, <1>7, <1>9, <3>1
  <2>2. k \div 2 = m /\ m \in 1..c
    <3>1. m \in 1..c
      BY <1>3, <2>1
    <3>2. at[k \div 2] = at[m]
      BY <1>3, <1>7, <1>9, <3>1
    <3>3. k \div 2 = m
      <4>1. PICK q \in 1..c : q = k \div 2
        BY <1>6
      <4>2. QED
        BY <1>3, <3>1, <3>2, <4>1
    <3>4. QED
      BY <3>1, <3>3
  <2>3. m # 1
    <3>1. SUFFICES ASSUME m = 1 PROVE FALSE
      OBVIOUS
    <3>2. m \div 2 \notin 1..c
      BY <3>1
    <3>3. QED
      BY <1>3, <1>7, <1>9, <2>2, <3>2 DEF Slot
  <2>4. k \in 4..c /\ m \div 2 \in 1..c
    BY <1>6, <2>2, <2>3
  <2>5. parent[parent[n]] = at[m \div 2]
    BY <1>3, <1>7, <2>2, <2>4
  <2>6. Spans(at, c, m)
    BY <1>1, <1>2, <2>1 DEF Shape
  <2>7. Priority[at[k]] <= Priority[at[m \div 2]]
    BY <2>2, <2>4, <2>6 DEF Spans
  <2>8. Priority[at[k]] \in Int /\ Priority[at[m \div 2]] \in Int
    BY <1>3, <2>4
  <2>9. QED
    BY <1>5, <2>5, <2>7, <2>8 DEF Cmp
<1>10. QED
  BY <1>8, <1>9

(* When a heap is idle no node is greater than its parent; while a node    *)
(* moves, the others are in order, also across it.                         *)
THEOREM TreeOrdered == HeapSpec => []HeapOrder
BY HeapInvariant, OrderOf, PTL

LEMMA OwnedOf == HeapInv => OwnedNodes
<1> SUFFICES ASSUME HeapInv PROVE OwnedNodes
  OBVIOUS
<1>1. PICK at, m : Shape(at, m) /\ Memory(at)
  BY DEF HeapInv
<1>2. PICK c \in Nat : c = cnt
  BY <1>1, PlacesOf
<1>3. {n[1] : n \in Members} = BlocksOf(at, c)
  <2>1. Members = NodesOf(at, c)
    BY <1>1, <1>2, MembersIs
  <2>2. QED
    BY <2>1 DEF NodesOf, BlocksOf
<1>4. ASSUME OwnBlocks(at, c)
      PROVE  Cardinality(BlocksOf(at, c)) = c
  <2>1. PICK f : f = [k \in 1..c |-> at[k][1]]
    OBVIOUS
  <2>2. f \in Bijection(1..c, BlocksOf(at, c))
    BY <1>4, <2>1 DEF Bijection, Injection, Surjection, IsInjective, OwnBlocks, BlocksOf
  <2>3. ExistsBijection(1..c, BlocksOf(at, c))
    BY <2>2 DEF ExistsBijection
  <2>4. QED
    BY <2>3, FS_CountingElements
<1>5. QED
  BY <1>1, <1>2, <1>3, <1>4 DEF Memory, OwnedNodes

(* heap.c: the blocks that malloc gave out and heapGet has not freed are   *)
(* those of the nodes in the tree, one for each of the cnt nodes.          *)
THEOREM BlocksOwned == HeapSpec => []OwnedNodes
BY HeapInvariant, OwnedOf, PTL

LEMMA QueueInitially == HeapInit => Queue!QueueInit
<1> SUFFICES ASSUME HeapInit PROVE Queue!QueueInit
  OBVIOUS
<1>1. cnt = 0 /\ got = Null
  BY DEF HeapInit, HeapCreate
<1>2. Members = {}
  BY <1>1 DEF Members
<1>3. QED
  BY <1>1, <1>2 DEF Queue!QueueInit

LEMMA QueueStep == HeapInv /\ [HeapNext]_heapVars => [Queue!QueueNext]_(Queue!pqVars)
<1> SUFFICES ASSUME HeapInv, [HeapNext]_heapVars
             PROVE  [Queue!QueueNext]_(Queue!pqVars)
  OBVIOUS
<1>1. CASE HeapNext
  BY <1>1, StepsAre, AddKeeps, MoveKeeps, GetKeeps, EmptyKeeps DEF Queue!QueueNext, Queue!pqVars
<1>2. CASE UNCHANGED heapVars
  <2>1. PICK at, m : Shape(at, m)
    BY DEF HeapInv
  <2>2. Shape(at, m)' /\ UNCHANGED <<cnt, got>>
    BY <1>2, <2>1 DEF heapVars, treeVars, links, Shape
  <2>3. Members = NodesOf(at, cnt) /\ Members' = NodesOf(at, cnt)
    BY <2>1, <2>2, MembersIs, MembersNext
  <2>4. QED
    BY <2>2, <2>3 DEF Queue!pqVars
<1>3. QED
  BY <1>1, <1>2

(* Both programs are priority queues: heapGet hands out a greatest node,   *)
(* each node once, and heapAdd loses none, however long a node moves.      *)
THEOREM RefinesQueue == HeapSpec => ImplementsQueue
BY QueueInitially, QueueStep, HeapInvariant, PTL DEF HeapSpec, ImplementsQueue, Queue!QueueSpec

=============================================================================
