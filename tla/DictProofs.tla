----------------------------- MODULE DictProofs ------------------------------
(***************************************************************************)
(* For any number of buckets and any keys and values: the chains of hash.c *)
(* hold the allocated entries, each once and in the bucket of its key, and *)
(* no two of them have the same key; and the table is the map that its     *)
(* entries spell.                                                          *)
(***************************************************************************)
EXTENDS Dict, CommonLemmas, FiniteSetTheorems, SequenceTheorems, TLAPS

-----------------------------------------------------------------------------
(* What the variables hold, for any table tb and cells c.                  *)
Pointers == Entries \cup {Null}

Cell == [key : Nat, value : Values \cup {NoValue}, next : Pointers]

Cells == [Entries -> Cell]

Tables == [Buckets -> Pointers]

Nth(s, m) == IF m \in DOMAIN s THEN s[m] ELSE Null

(* s is the sequence of the entries that first leads to, each of them once.*)
Path(first, c, s) ==
  /\ s \in Seq(Entries) /\ IsInjective(s)
  /\ first = Nth(s, 1)
  /\ \A m \in DOMAIN s : c[s[m]].next = Nth(s, m + 1)

Chains == [b \in Buckets |-> Chain(b)]

(* The chains ch hold the entries al, by their keys.                       *)
Holds(c, ch, al) ==
  /\ al = UNION {Range(ch[b]) : b \in Buckets}
  /\ \A b \in Buckets : \A e \in Range(ch[b]) : Index(c[e].key) = b
  /\ \A e \in al : c[e].key \in Keys /\ c[e].value \in Values
  /\ \A d, e \in al : c[d].key = c[e].key => d = e

Good(tb, c, ch, al) ==
  /\ tb \in Tables /\ c \in Cells /\ ch \in [Buckets -> Seq(Entries)]
  /\ \A b \in Buckets : Path(tb[b], c, ch[b])
  /\ Holds(c, ch, al)

DictInv ==
  /\ Good(table, cell, Chains, allocated)
  /\ cnt = Cardinality(allocated)

-----------------------------------------------------------------------------
LEMMA Given ==
  /\ Cap \in Nat \ {0} /\ Keys \subseteq Nat /\ IsFiniteSet(Keys)
  /\ IsFiniteSet(Entries) /\ Null \notin Entries /\ NoValue \notin Values
  /\ Cardinality(Entries) \in Nat
BY DictAssumption, FS_CardinalityType

LEMMA IndexIn ==
  ASSUME NEW key \in Nat
  PROVE  Index(key) \in Buckets
BY Given DEF Index, Buckets

(* A sequence of distinct entries is no longer than there are entries.     *)
LEMMA Fits ==
  ASSUME NEW s \in Seq(Entries), IsInjective(s)
  PROVE  Len(s) \in Nat /\ Len(s) <= Cardinality(Entries)
<1>1. Len(s) \in Nat /\ s \in [1..Len(s) -> Entries]
  BY LenProperties
<1>2. s \in Injection(1..Len(s), Entries)
  BY <1>1 DEF Injection, IsInjective
<1>3. Cardinality(1..Len(s)) <= Cardinality(Entries)
  BY <1>2, Given, FS_Injection
<1>4. Cardinality(1..Len(s)) = Len(s)
  <2>1. Cardinality(1..Len(s)) = IF 1 > Len(s) THEN 0 ELSE Len(s) - 1 + 1
    BY <1>1, FS_Interval
  <2>2. QED
    BY <1>1, <2>1
<1>5. QED
  BY <1>1, <1>3, <1>4

(* The walk of the model along the links. *)
IsWalk(at, first, c) ==
  at = [m \in 1..Cardinality(Entries) |->
          IF m = 1 THEN first ELSE IF at[m - 1] = Null THEN Null ELSE c[at[m - 1]].next]

LEMMA NthIn ==
  ASSUME NEW s \in Seq(Entries), NEW m \in Nat \ {0}
  PROVE  /\ Nth(s, m) = IF m <= Len(s) THEN s[m] ELSE Null
         /\ Nth(s, m) # Null <=> m <= Len(s)
<1>1. DOMAIN s = 1..Len(s) /\ Len(s) \in Nat
  OBVIOUS
<1>2. m \in DOMAIN s <=> m <= Len(s)
  BY <1>1
<1>3. m \in DOMAIN s => s[m] \in Entries
  OBVIOUS
<1>4. QED
  BY <1>2, <1>3, Given DEF Nth

(* It meets the path, and then NULL.                                       *)
LEMMA WalkExists ==
  ASSUME NEW first, NEW c, NEW s, Path(first, c, s)
  PROVE  IsWalk([m \in 1..Cardinality(Entries) |-> Nth(s, m)], first, c)
<1>1. s \in Seq(Entries) /\ DOMAIN s = 1..Len(s) /\ Len(s) \in Nat
  BY DEF Path
<1> DEFINE w == [m \in 1..Cardinality(Entries) |-> Nth(s, m)]
<1>2. ASSUME NEW m \in 1..Cardinality(Entries)
      PROVE  Nth(s, m) = IF m = 1 THEN first ELSE IF w[m - 1] = Null THEN Null ELSE c[w[m - 1]].next
  <2>1. CASE m = 1
    BY <2>1 DEF Path
  <2>2. CASE m # 1
    <3>1. m - 1 \in 1..Cardinality(Entries) /\ m - 1 \in Nat \ {0} /\ m \in Nat \ {0}
      BY <2>2, Given
    <3>2. w[m - 1] = Nth(s, m - 1)
      BY <3>1
    <3>3. CASE m - 1 <= Len(s)
      <4>1. m - 1 \in DOMAIN s /\ (m - 1) + 1 = m
        BY <1>1, <3>1, <3>3
      <4>2. Nth(s, m - 1) = s[m - 1] /\ Nth(s, m - 1) # Null
        BY <1>1, <3>1, <3>3, NthIn
      <4>3. c[s[m - 1]].next = Nth(s, m)
        BY <4>1 DEF Path
      <4>4. QED
        BY <2>2, <3>2, <4>2, <4>3
    <3>4. CASE ~(m - 1 <= Len(s))
      <4>1. ~(m <= Len(s))
        BY <1>1, <3>1, <3>4
      <4>2. Nth(s, m - 1) = Null /\ Nth(s, m) = Null
        BY <1>1, <3>1, <3>4, <4>1, NthIn
      <4>3. QED
        BY <2>2, <3>2, <4>2
    <3>5. QED
      BY <3>3, <3>4
  <2>3. QED
    BY <2>1, <2>2
<1>3. QED
  BY <1>2 DEF IsWalk

LEMMA WalkUnique ==
  ASSUME NEW first, NEW c, NEW v, NEW w, IsWalk(v, first, c), IsWalk(w, first, c)
  PROVE  v = w
<1> DEFINE N == Cardinality(Entries)
           T == {m \in 1..N : v[m] # w[m]}
<1>1. T = {}
  <2> SUFFICES ASSUME T # {} PROVE FALSE
    OBVIOUS
  <2>1. T \in SUBSET Nat
    BY Given
  <2>2. PICK m \in T : \A n \in T : m <= n
    <3> HIDE DEF T
    <3>1. QED
      BY <2>1, Least
  <2>3. m # 1
    BY <2>2 DEF IsWalk
  <2>4. m \in 1..N /\ m - 1 \in 1..N /\ ~(m <= m - 1)
    BY <2>2, <2>3, Given
  <2>5. v[m - 1] = w[m - 1]
    BY <2>2, <2>4
  <2>6. v[m] = w[m]
    BY <2>3, <2>4, <2>5 DEF IsWalk
  <2>7. QED
    BY <2>2, <2>6
<1>2. \A m \in 1..N : v[m] = w[m]
  BY <1>1
<1>3. QED
  BY <1>2 DEF IsWalk

LEMMA LinkedIs ==
  ASSUME NEW first, NEW c, NEW s, Path(first, c, s)
  PROVE  Linked(first, c) = s
<1> DEFINE N == Cardinality(Entries)
           at == CHOOSE f : IsWalk(f, first, c)
           w == [m \in 1..N |-> Nth(s, m)]
<1>1. IsWalk(w, first, c)
  BY WalkExists
<1>2. at = w
  <2>1. IsWalk(at, first, c)
    BY <1>1
  <2> HIDE DEF at, w
  <2>2. QED
    BY <1>1, <2>1, WalkUnique
<1>3. Linked(first, c) = [n \in 1..Max({0} \cup {m \in DOMAIN at : at[m] # Null}) |-> at[n]]
  BY DEF Linked, IsWalk
<1>4. s \in Seq(Entries) /\ IsInjective(s) /\ Len(s) \in Nat /\ Len(s) <= N /\ N \in Nat
  BY Fits, Given DEF Path
<1>5. {0} \cup {m \in DOMAIN w : w[m] # Null} = 0..Len(s)
  <2>1. \A m \in 1..N : w[m] # Null <=> m <= Len(s)
    BY <1>4, NthIn
  <2>2. QED
    BY <1>4, <2>1
<1>6. Max(0..Len(s)) = Len(s)
  BY <1>4 DEF Max
<1>7. Linked(first, c) = [n \in 1..Len(s) |-> w[n]]
  <2> HIDE DEF at, w
  <2>1. QED
    BY <1>2, <1>3, <1>5, <1>6
<1>8. \A n \in 1..Len(s) : w[n] = s[n]
  BY <1>4, NthIn
<1>9. s = [n \in 1..Len(s) |-> s[n]]
  BY <1>4
<1>10. QED
  BY <1>7, <1>8, <1>9

-----------------------------------------------------------------------------
(* What the stores of an operation make of a path.                         *)
SameNext(c, d, A) == \A e \in A : d[e].next = c[e].next

LEMMA PathKept ==
  ASSUME NEW first, NEW c, NEW d, NEW s, Path(first, c, s), SameNext(c, d, Range(s))
  PROVE  Path(first, d, s)
BY DEF Path, SameNext, Range

(* dictAdd: e is linked before the first entry.                            *)
LEMMA PathGrown ==
  ASSUME NEW first, NEW c, NEW d, NEW s, Path(first, c, s), SameNext(c, d, Range(s)),
         NEW e \in Entries, e \notin Range(s), NEW x, d[e] = x, x.next = first
  PROVE  Path(e, d, Grown(s, e))
<1> DEFINE t == Grown(s, e)
<1>1. s \in Seq(Entries) /\ IsInjective(s) /\ DOMAIN s = 1..Len(s) /\ Len(s) \in Nat
  BY DEF Path
<1>2. /\ t \in Seq(Entries) /\ Len(t) = Len(s) + 1 /\ DOMAIN t = 1..(Len(s) + 1) /\ t[1] = e
      /\ \A m \in 2..(Len(s) + 1) : t[m] = s[m - 1]
  BY <1>1, GrownChain
<1> HIDE DEF t
<1>3. \A m \in DOMAIN t : m # 1 => m - 1 \in DOMAIN s /\ t[m] = s[m - 1]
  BY <1>1, <1>2
<1>4. \A m \in DOMAIN s : s[m] # e
  BY DEF Range
<1>5. IsInjective(t)
  <2>1. ASSUME NEW m \in DOMAIN t, NEW n \in DOMAIN t, t[m] = t[n]
        PROVE  m = n
    <3>1. m \in Int /\ n \in Int
      BY <1>1, <1>2
    <3>2. CASE m = 1 \/ n = 1
      BY <1>2, <1>3, <1>4, <2>1, <3>2
    <3>3. CASE m # 1 /\ n # 1
      <4>1. m - 1 = n - 1
        BY <1>1, <1>3, <2>1, <3>3 DEF IsInjective
      <4>2. QED
        BY <3>1, <4>1
    <3>4. QED
      BY <3>2, <3>3
  <2>2. QED
    BY <2>1 DEF IsInjective
<1>6. ASSUME NEW m \in Nat \ {0}
      PROVE  Nth(t, m + 1) = Nth(s, m)
  <2>1. CASE m <= Len(s)
    <3>1. m + 1 \in 2..(Len(s) + 1) /\ m + 1 \in DOMAIN t /\ m \in DOMAIN s /\ (m + 1) - 1 = m
      BY <1>1, <1>2, <2>1
    <3>2. t[m + 1] = s[m]
      BY <1>2, <3>1
    <3>3. QED
      BY <3>1, <3>2 DEF Nth
  <2>2. CASE ~(m <= Len(s))
    <3>1. m + 1 \notin DOMAIN t /\ m \notin DOMAIN s
      BY <1>1, <1>2, <2>2
    <3>2. QED
      BY <3>1 DEF Nth
  <2>3. QED
    BY <2>1, <2>2
<1>7. ASSUME NEW m \in DOMAIN t
      PROVE  d[t[m]].next = Nth(t, m + 1)
  <2>1. CASE m = 1
    <3>1. d[t[m]].next = first
      BY <1>2, <2>1
    <3>2. QED
      BY <1>6, <2>1, <3>1 DEF Path
  <2>2. CASE m # 1
    <3>1. m - 1 \in DOMAIN s /\ t[m] = s[m - 1] /\ (m - 1) + 1 = m /\ m \in Nat \ {0}
      BY <1>1, <1>2, <1>3, <2>2
    <3>2. d[s[m - 1]].next = Nth(s, m)
      BY <3>1 DEF Path, SameNext, Range
    <3>3. QED
      BY <1>6, <3>1, <3>2
  <2>3. QED
    BY <2>1, <2>2
<1>8. e = Nth(t, 1)
  BY <1>1, <1>2 DEF Nth
<1>9. Path(e, d, t)
  BY <1>2, <1>5, <1>7, <1>8 DEF Path
<1>10. QED
  BY <1>9 DEF t

(* dictDel: the link to the i-th entry is led past it.                     *)
Bypass(first, first2, c, d, s, i) ==
  /\ first2 = IF i = 1 THEN c[s[i]].next ELSE first
  /\ \A j \in DOMAIN s \ {i} : d[s[j]].next = IF j = i - 1 THEN c[s[i]].next ELSE c[s[j]].next

LEMMA PathCut ==
  ASSUME NEW first, NEW first2, NEW c, NEW d, NEW s, Path(first, c, s),
         NEW i \in DOMAIN s, Bypass(first, first2, c, d, s, i)
  PROVE  Path(first2, d, RemoveAt(s, i))
<1> DEFINE t == RemoveAt(s, i)
           After(j) == IF j < i THEN j ELSE j + 1
<1>1. /\ s \in Seq(Entries) /\ IsInjective(s) /\ DOMAIN s = 1..Len(s) /\ Len(s) \in Nat
      /\ i \in 1..Len(s)
  BY DEF Path
<1>2. /\ t \in Seq(Entries) /\ Len(t) = Len(s) - 1 /\ DOMAIN t = 1..(Len(s) - 1)
      /\ \A j \in 1..(Len(s) - 1) : t[j] = s[After(j)]
  BY <1>1, CutChain
<1> HIDE DEF t
<1>3. \A j \in DOMAIN t : After(j) \in DOMAIN s \ {i} /\ t[j] = s[After(j)]
  BY <1>1, <1>2
<1>4. IsInjective(t)
  <2>1. ASSUME NEW m \in DOMAIN t, NEW n \in DOMAIN t, t[m] = t[n]
        PROVE  m = n
    <3>1. After(m) = After(n)
      <4> HIDE DEF After
      <4>1. QED
        BY <1>1, <1>3, <2>1 DEF IsInjective
    <3>2. QED
      BY <1>1, <1>2, <3>1
  <2>2. QED
    BY <2>1 DEF IsInjective
<1>5. ASSUME NEW j \in Nat \ {0}
      PROVE  Nth(t, j) = Nth(s, After(j))
  <2>1. CASE j \in DOMAIN t
    BY <1>3, <2>1 DEF Nth
  <2>2. CASE j \notin DOMAIN t
    <3>1. After(j) \notin DOMAIN s
      BY <1>1, <1>2, <2>2
    <3>2. QED
      BY <2>2, <3>1 DEF Nth
  <2>3. QED
    BY <2>1, <2>2
<1>6. c[s[i]].next = Nth(s, i + 1)
  BY DEF Path
<1>7. first2 = Nth(t, 1)
  <2>1. CASE i = 1
    <3>1. After(1) = i + 1
      BY <2>1
    <3>2. QED
      BY <1>5, <1>6, <2>1, <3>1 DEF Bypass
  <2>2. CASE i # 1
    <3>1. After(1) = 1
      BY <1>1, <2>2
    <3>2. QED
      BY <1>5, <2>2, <3>1 DEF Bypass, Path
  <2>3. QED
    BY <2>1, <2>2
<1>8. ASSUME NEW j \in DOMAIN t
      PROVE  d[t[j]].next = Nth(t, j + 1)
  <2>1. j \in Int /\ i \in Int /\ j + 1 \in Nat \ {0}
    BY <1>1, <1>2
  <2>2. d[t[j]].next = IF After(j) = i - 1 THEN c[s[i]].next ELSE c[s[After(j)]].next
    <3> HIDE DEF After
    <3>1. QED
      BY <1>3 DEF Bypass
  <2>3. c[s[After(j)]].next = Nth(s, After(j) + 1)
    <3> HIDE DEF After
    <3>1. QED
      BY <1>3 DEF Path
  <2>4. Nth(t, j + 1) = Nth(s, After(j + 1))
    BY <1>5, <2>1
  <2>5. CASE After(j) = i - 1
    <3>1. After(j + 1) = i + 1
      BY <2>1, <2>5
    <3>2. QED
      BY <1>6, <2>2, <2>4, <2>5, <3>1
  <2>6. CASE After(j) # i - 1
    <3>1. After(j + 1) = After(j) + 1
      BY <2>1, <2>6
    <3>2. QED
      BY <2>2, <2>3, <2>4, <2>6, <3>1
  <2>7. QED
    BY <2>5, <2>6
<1>9. Path(first2, d, t)
  BY <1>2, <1>4, <1>7, <1>8 DEF Path
<1>10. QED
  BY <1>9 DEF t

-----------------------------------------------------------------------------
(* What they make of the table: another chain in bucket b.                 *)
With(ch, b, s) == [ch EXCEPT ![b] = s]

LEMMA Apart ==
  ASSUME NEW tb, NEW c, NEW ch, NEW al, Good(tb, c, ch, al),
         NEW b \in Buckets, NEW d \in Buckets, b # d, NEW e \in Range(ch[b])
  PROVE  e \notin Range(ch[d])
BY DEF Good, Holds

LEMMA InChain ==
  ASSUME NEW tb, NEW c, NEW ch, NEW al, Good(tb, c, ch, al), NEW e
  PROVE  e \in al <=> e \in Entries /\ \E b \in Buckets : e \in Range(ch[b])
<1>1. \A b \in Buckets : Range(ch[b]) \subseteq Entries
  BY DEF Good, Range
<1>2. al = UNION {Range(ch[b]) : b \in Buckets}
  BY DEF Good, Holds
<1>3. QED
  BY <1>1, <1>2

(* An entry is in the chain of its key.                                    *)
LEMMA KeyTells ==
  ASSUME NEW tb, NEW c, NEW ch, NEW al, Good(tb, c, ch, al), NEW e \in al
  PROVE  /\ e \in Entries /\ c[e].key \in Keys /\ c[e].value \in Values
         /\ Index(c[e].key) \in Buckets /\ e \in Range(ch[Index(c[e].key)])
<1>1. PICK b \in Buckets : e \in Range(ch[b])
  BY InChain
<1>2. e \in Entries
  BY InChain
<1>3. Index(c[e].key) = b /\ c[e].key \in Keys /\ c[e].value \in Values
  BY <1>1 DEF Good, Holds
<1>4. QED
  BY <1>1, <1>2, <1>3

(* dictAdd of a new key. *)
Absence(c, al, key) == \A e \in al : c[e].key # key

LEMMA Inserted ==
  ASSUME NEW tb, NEW c, NEW ch, NEW al, Good(tb, c, ch, al),
         NEW key \in Keys, NEW value \in Values, NEW e \in Entries \ al, Absence(c, al, key)
  PROVE  LET b == Index(key)
         IN  Good([tb EXCEPT ![b] = e],
                  [c EXCEPT ![e] = [key |-> key, value |-> value, next |-> tb[b]]],
                  With(ch, b, Grown(ch[b], e)), al \cup {e})
<1> DEFINE b == Index(key)
           x == [key |-> key, value |-> value, next |-> tb[b]]
           tb2 == [tb EXCEPT ![b] = e]
           d == [c EXCEPT ![e] = x]
           s == ch[b]
           ch2 == With(ch, b, Grown(s, e))
<1>1. b \in Buckets /\ key \in Nat
  BY IndexIn, Given
<1>2. tb \in Tables /\ c \in Cells /\ ch \in [Buckets -> Seq(Entries)] /\ s \in Seq(Entries)
  BY <1>1 DEF Good
<1>3. x \in Cell
  BY <1>1, <1>2 DEF Cell, Tables
<1>4. tb2 \in Tables /\ d \in Cells
  BY <1>1, <1>2, <1>3 DEF Tables, Cells, Pointers
<1>5. /\ d[e] = x /\ x.key = key /\ x.value = value /\ x.next = tb[b]
      /\ \A f \in Entries \ {e} : d[f] = c[f]
      /\ tb2[b] = e /\ \A a \in Buckets \ {b} : tb2[a] = tb[a]
  BY <1>1, <1>2 DEF Cells, Tables
<1> HIDE DEF x, tb2, d
<1>6. Grown(s, e) \in Seq(Entries) /\ Range(Grown(s, e)) = Range(s) \cup {e}
  <2>1. e \in Entries
    OBVIOUS
  <2> HIDE DEF s
  <2>2. QED
    BY <1>2, <2>1, GrownChain
<1>7. /\ ch2 \in [Buckets -> Seq(Entries)] /\ ch2[b] = Grown(s, e)
      /\ \A a \in Buckets \ {b} : ch2[a] = ch[a]
  BY <1>1, <1>2, <1>6 DEF With
<1> HIDE DEF ch2
<1>8. \A a \in Buckets : e \notin Range(ch[a]) /\ SameNext(c, d, Range(ch[a]))
  <2>0. al \subseteq Entries
    BY InChain
  <2>1. \A a \in Buckets : Range(ch[a]) \subseteq al
    BY DEF Good, Holds
  <2>2. QED
    BY <1>5, <2>0, <2>1 DEF SameNext
<1>9. ASSUME NEW a \in Buckets
      PROVE  Path(tb2[a], d, ch2[a])
  <2>1. Path(tb[a], c, ch[a])
    BY DEF Good
  <2>2. CASE a = b
    <3>1. Path(e, d, Grown(s, e))
      BY <1>5, <1>8, <2>1, <2>2, PathGrown
    <3>2. QED
      BY <1>5, <1>7, <2>2, <3>1
  <2>3. CASE a # b
    <3>1. Path(tb[a], d, ch[a])
      BY <1>8, <2>1, PathKept
    <3>2. QED
      BY <1>5, <1>7, <2>3, <3>1
  <2>4. QED
    BY <2>2, <2>3
<1>10. al \subseteq Entries /\ \A f \in al : d[f] = c[f]
  BY <1>5, InChain
<1>11. Holds(d, ch2, al \cup {e})
  <2>1. al \cup {e} = UNION {Range(ch2[a]) : a \in Buckets}
    <3>1. al = UNION {Range(ch[a]) : a \in Buckets}
      BY DEF Good, Holds
    <3>2. \A a \in Buckets : Range(ch2[a]) = IF a = b THEN Range(ch[a]) \cup {e} ELSE Range(ch[a])
      BY <1>6, <1>7
    <3>3. \A f : f \in al \cup {e} <=> \E a \in Buckets : f \in Range(ch2[a])
      BY <1>1, <3>1, <3>2
    <3>4. QED
      BY <3>3
  <2>2. ASSUME NEW a \in Buckets, NEW f \in Range(ch2[a])
        PROVE  Index(d[f].key) = a
    <3>1. CASE f = e
      <4>1. a = b
        BY <1>7, <1>8, <3>1
      <4>2. QED
        BY <1>5, <3>1, <4>1
    <3>2. CASE f # e
      <4>1. f \in Range(ch[a])
        BY <1>6, <1>7, <3>2
      <4>2. f \in al /\ Index(c[f].key) = a
        BY <4>1 DEF Good, Holds
      <4>3. QED
        BY <1>10, <4>2
    <3>3. QED
      BY <3>1, <3>2
  <2>3. \A f \in al \cup {e} : d[f].key \in Keys /\ d[f].value \in Values
    BY <1>5, <1>10 DEF Good, Holds
  <2>4. \A f, g \in al \cup {e} : d[f].key = d[g].key => f = g
    BY <1>5, <1>10 DEF Good, Holds, Absence
  <2>5. QED
    BY <2>1, <2>2, <2>3, <2>4 DEF Holds
<1>12. Good(tb2, d, ch2, al \cup {e})
  BY <1>4, <1>7, <1>9, <1>11 DEF Good
<1>13. QED
  BY <1>12 DEF x, tb2, d, ch2

(* dictAdd of a key that is there. *)
LEMMA Updated ==
  ASSUME NEW tb, NEW c, NEW ch, NEW al, Good(tb, c, ch, al), NEW e \in al, NEW value \in Values
  PROVE  Good(tb, [c EXCEPT ![e].value = value], ch, al)
<1> DEFINE d == [c EXCEPT ![e].value = value]
<1>1. e \in Entries /\ al \subseteq Entries /\ c \in Cells
  BY InChain DEF Good
<1>2. \A f \in Entries : c[f] = [key |-> c[f].key, value |-> c[f].value, next |-> c[f].next]
                         /\ c[f] \in Cell
  BY <1>1 DEF Cells, Cell
<1>3. /\ d[e] = [key |-> c[e].key, value |-> value, next |-> c[e].next]
      /\ \A f \in Entries \ {e} : d[f] = c[f]
  BY <1>1, <1>2 DEF Cells
<1>4. d \in Cells
  <2>1. d = [f \in Entries |-> d[f]]
    BY <1>1 DEF Cells
  <2> HIDE DEF d
  <2>2. c[e].key \in Nat /\ c[e].next \in Pointers
    BY <1>1, <1>2 DEF Cell
  <2>3. d[e] \in Cell
    BY <1>3, <2>2 DEF Cell
  <2>4. \A f \in Entries : d[f] \in Cell
    BY <1>2, <1>3, <2>3
  <2>5. QED
    BY <2>1, <2>4 DEF Cells
<1> HIDE DEF d
<1>5. \A f \in Entries : /\ d[f].key = c[f].key /\ d[f].next = c[f].next
                         /\ d[f].value = IF f = e THEN value ELSE c[f].value
  BY <1>3
<1>6. \A b \in Buckets : Path(tb[b], d, ch[b])
  <2>1. ASSUME NEW b \in Buckets
        PROVE  Path(tb[b], d, ch[b])
    <3>1. Path(tb[b], c, ch[b]) /\ Range(ch[b]) \subseteq Entries
      BY DEF Good, Range
    <3>2. SameNext(c, d, Range(ch[b]))
      BY <1>5, <3>1 DEF SameNext
    <3>3. QED
      BY <3>1, <3>2, PathKept
  <2>2. QED
    BY <2>1
<1>7. Holds(d, ch, al)
  <2>1. /\ al = UNION {Range(ch[b]) : b \in Buckets}
        /\ \A b \in Buckets : Range(ch[b]) \subseteq Entries
        /\ \A b \in Buckets : \A f \in Range(ch[b]) : Index(c[f].key) = b
    BY DEF Good, Holds, Range
  <2>2. \A b \in Buckets : \A f \in Range(ch[b]) : Index(d[f].key) = b
    BY <1>5, <2>1
  <2>3. \A f \in al : d[f].key \in Keys /\ d[f].value \in Values
    BY <1>1, <1>5 DEF Good, Holds
  <2>4. \A f, g \in al : d[f].key = d[g].key => f = g
    BY <1>1, <1>5 DEF Good, Holds
  <2>5. QED
    BY <2>1, <2>2, <2>3, <2>4 DEF Holds
<1>8. Good(tb, d, ch, al)
  BY <1>4, <1>6, <1>7 DEF Good
<1>9. QED
  BY <1>8 DEF d

(* dictDel.  The cells of the other entries keep their keys and values.    *)
Cut(tb, tb2, c, d, ch, al, b, i) ==
  /\ tb2 \in Tables /\ d \in Cells
  /\ Bypass(tb[b], tb2[b], c, d, ch[b], i)
  /\ \A a \in Buckets \ {b} : tb2[a] = tb[a]
  /\ \A f \in al \ {ch[b][i]} : d[f].key = c[f].key /\ d[f].value = c[f].value
  /\ \A f \in al \ Range(ch[b]) : d[f].next = c[f].next

LEMMA Deleted ==
  ASSUME NEW tb, NEW tb2, NEW c, NEW d, NEW ch, NEW al, Good(tb, c, ch, al),
         NEW b \in Buckets, NEW i \in DOMAIN ch[b], Cut(tb, tb2, c, d, ch, al, b, i)
  PROVE  /\ Good(tb2, d, With(ch, b, RemoveAt(ch[b], i)), al \ {ch[b][i]})
         /\ ch[b][i] \in al
<1> DEFINE s == ch[b]
           e == s[i]
           ch2 == With(ch, b, RemoveAt(s, i))
<1>1. Path(tb[b], c, s) /\ s \in Seq(Entries) /\ IsInjective(s) /\ ch \in [Buckets -> Seq(Entries)]
  BY DEF Good, Path
<1>2. RemoveAt(s, i) \in Seq(Entries) /\ Range(RemoveAt(s, i)) = Range(s) \ {e}
  BY <1>1, CutChain, CutRange
<1>3. /\ ch2 \in [Buckets -> Seq(Entries)] /\ ch2[b] = RemoveAt(s, i)
      /\ \A a \in Buckets \ {b} : ch2[a] = ch[a]
  BY <1>1, <1>2 DEF With
<1>4. e \in Range(s) /\ e \in al
  BY <1>1, InChain DEF Range
<1>5. \A a \in Buckets \ {b} : e \notin Range(ch[a])
  BY <1>4, Apart
<1> HIDE DEF ch2
<1>6. ASSUME NEW a \in Buckets
      PROVE  Path(tb2[a], d, ch2[a])
  <2>1. CASE a = b
    <3>1. Path(tb2[b], d, RemoveAt(s, i))
      BY <1>1, PathCut DEF Cut
    <3>2. QED
      BY <1>3, <2>1, <3>1
  <2>2. CASE a # b
    <3>1. Path(tb[a], c, ch[a]) /\ \A f \in Range(ch[a]) : f \in al \ Range(s)
      BY <2>2, Apart, InChain DEF Good, Holds
    <3>2. SameNext(c, d, Range(ch[a]))
      BY <3>1 DEF Cut, SameNext
    <3>3. Path(tb[a], d, ch[a])
      BY <3>1, <3>2, PathKept
    <3>4. QED
      BY <1>3, <2>2, <3>3 DEF Cut
  <2>3. QED
    BY <2>1, <2>2
<1>7. Holds(d, ch2, al \ {e})
  <2>1. \A a \in Buckets : Range(ch2[a]) = Range(ch[a]) \ {e}
    BY <1>2, <1>3, <1>5
  <2>2. al = UNION {Range(ch[a]) : a \in Buckets}
    BY DEF Good, Holds
  <2>3. al \ {e} = UNION {Range(ch2[a]) : a \in Buckets}
    <3>1. \A f : f \in al \ {e} <=> \E a \in Buckets : f \in Range(ch2[a])
      BY <2>1, <2>2
    <3>2. QED
      BY <3>1
  <2>4. \A f \in al \ {e} : d[f].key = c[f].key /\ d[f].value = c[f].value
    BY DEF Cut
  <2>5. \A a \in Buckets : \A f \in Range(ch2[a]) : Index(d[f].key) = a
    <3>1. \A a \in Buckets : \A f \in Range(ch[a]) : Index(c[f].key) = a /\ f \in al
      BY <2>2 DEF Good, Holds
    <3>2. QED
      BY <2>1, <2>4, <3>1
  <2>6. \A f \in al \ {e} : d[f].key \in Keys /\ d[f].value \in Values
    BY <2>4 DEF Good, Holds
  <2>7. \A f, g \in al \ {e} : d[f].key = d[g].key => f = g
    BY <2>4 DEF Good, Holds
  <2>8. QED
    BY <2>3, <2>5, <2>6, <2>7 DEF Holds
<1>8. Good(tb2, d, ch2, al \ {e})
  BY <1>3, <1>6, <1>7 DEF Good, Cut
<1>9. QED
  BY <1>4, <1>8 DEF ch2

-----------------------------------------------------------------------------
(* What the state says of the chains, before a step and after it.          *)
LEMMA ChainsAre ==
  ASSUME NEW ch, NEW al, Good(table', cell', ch, al)
  PROVE  Chains' = ch
<1>1. PICK tb : tb = table'
  OBVIOUS
<1>2. PICK c : c = cell'
  OBVIOUS
<1>3. Good(tb, c, ch, al)
  BY <1>1, <1>2
<1>4. \A b \in Buckets : Linked(tb[b], c) = ch[b]
  <2>1. ASSUME NEW b \in Buckets
        PROVE  Linked(tb[b], c) = ch[b]
    <3>1. Path(tb[b], c, ch[b])
      BY <1>3 DEF Good
    <3>2. QED
      BY <3>1, LinkedIs
  <2>2. QED
    BY <2>1
<1>5. Chains' = [b \in Buckets |-> Linked(tb[b], c)]
  BY <1>1, <1>2 DEF Chains, Chain
<1>6. ch = [b \in Buckets |-> ch[b]]
  BY <1>3 DEF Good
<1>7. QED
  BY <1>4, <1>5, <1>6

LEMMA Kept ==
  ASSUME NEW ch, NEW al, Good(table', cell', ch, al), allocated' = al, cnt' = Cardinality(al)
  PROVE  DictInv'
<1>1. Chains' = ch
  BY ChainsAre
<1>2. PICK x : x = Chains' /\ x = ch
  BY <1>1
<1>3. QED
  BY <1>2 DEF DictInv

LEMMA ChainOf ==
  ASSUME DictInv, NEW key \in Keys
  PROVE  /\ Index(key) \in Buckets /\ Chains[Index(key)] = Chain(Index(key))
         /\ Chain(Index(key)) \in Seq(Entries) /\ Range(Chain(Index(key))) \subseteq allocated
         /\ Path(table[Index(key)], cell, Chain(Index(key)))
<1>1. Index(key) \in Buckets
  BY IndexIn, Given
<1>2. Chains[Index(key)] = Chain(Index(key))
  BY <1>1 DEF Chains
<1>3. QED
  BY <1>1, <1>2 DEF DictInv, Good, Holds

LEMMA FindIs ==
  ASSUME DictInv, NEW key \in Keys
  PROVE  /\ Find(key) = 0 => Absence(cell, allocated, key)
         /\ Find(key) # 0 =>
              /\ Find(key) \in DOMAIN Chain(Index(key))
              /\ Chain(Index(key))[Find(key)] \in allocated
              /\ cell[Chain(Index(key))[Find(key)]].key = key
<1> DEFINE s == Chain(Index(key))
           found == {m \in DOMAIN s : cell[s[m]].key = key}
<1>1. s \in Seq(Entries) /\ DOMAIN s = 1..Len(s) /\ Len(s) \in Nat /\ Range(s) \subseteq allocated
  BY ChainOf
<1>2. Find(key) = IF found = {} THEN 0 ELSE Min(found)
  BY DEF Find
<1>3. found = {} => Absence(cell, allocated, key)
  <2>1. ASSUME NEW e \in allocated, cell[e].key = key
        PROVE  found # {}
    <3>1. e \in Range(Chains[Index(key)])
      BY <2>1, KeyTells DEF DictInv
    <3>2. PICK m \in DOMAIN s : s[m] = e
      BY <3>1, ChainOf DEF Range
    <3>3. QED
      BY <2>1, <3>2
  <2>2. QED
    BY <2>1 DEF Absence
<1>4. found # {} => Min(found) \in found
  <2> SUFFICES ASSUME found # {} PROVE Min(found) \in found
    OBVIOUS
  <2>1. found \in SUBSET Nat
    BY <1>1
  <2> HIDE DEF found
  <2>2. \E n \in found : \A m \in found : n <= m
    BY <2>1, Least
  <2>3. QED
    BY <2>2 DEF Min
<1>5. \A m \in found : m \in DOMAIN s /\ m # 0 /\ s[m] \in allocated /\ cell[s[m]].key = key
  BY <1>1 DEF Range
<1>6. QED
  BY <1>2, <1>3, <1>4, <1>5

LEMMA Allocated ==
  ASSUME DictInv
  PROVE  /\ allocated \subseteq Entries /\ IsFiniteSet(allocated)
         /\ cell \in Cells /\ table \in Tables
         /\ \A e \in allocated : cell[e].key \in Keys /\ cell[e].value \in Values
<1>1. allocated \subseteq Entries
  BY InChain DEF DictInv
<1>2. IsFiniteSet(allocated)
  BY <1>1, Given, FS_Subset
<1>3. QED
  BY <1>1, <1>2 DEF DictInv, Good, Holds

-----------------------------------------------------------------------------
(* One step of the dict: what it keeps, and what becomes of the entries.   *)
PutIn(c, al, d, al2, key, value) ==
  /\ \A e \in al2 : \/ d[e].key = key /\ d[e].value = value
                    \/ /\ d[e].key # key /\ e \in al
                       /\ d[e].key = c[e].key /\ d[e].value = c[e].value
  /\ \A e \in al : c[e].key # key => e \in al2 /\ d[e].key = c[e].key
  /\ \E e \in al2 : d[e].key = key

LEMMA UpdateKeeps ==
  ASSUME DictInv, NEW key \in Keys, NEW value \in Values, Update(key, value)
  PROVE  /\ DictInv' /\ PutIn(cell, allocated, cell', allocated', key, value)
         /\ ~Absence(cell, allocated, key)
<1>1. PICK e \in allocated : /\ cell[e].key = key
                             /\ cell' = [cell EXCEPT ![e].value = value]
  BY FindIs DEF Update
<1>2. UNCHANGED <<table, cnt, allocated>>
  BY DEF Update
<1>3. Good(table', cell', Chains, allocated)
  BY <1>1, <1>2, Updated DEF DictInv
<1>4. DictInv'
  BY <1>2, <1>3, Kept DEF DictInv
<1>5. \A f \in allocated : /\ cell'[f].key = cell[f].key
                           /\ cell'[f].value = IF f = e THEN value ELSE cell[f].value
  <2>1. \A f \in Entries : cell[f] = [key |-> cell[f].key, value |-> cell[f].value, next |-> cell[f].next]
    BY Allocated DEF Cells, Cell
  <2>2. cell'[e] = [key |-> cell[e].key, value |-> value, next |-> cell[e].next]
    BY <1>1, <2>1, Allocated DEF Cells
  <2>3. \A f \in allocated \ {e} : cell'[f] = cell[f]
    BY <1>1, Allocated DEF Cells
  <2>4. QED
    BY <2>2, <2>3
<1>6. \A f \in allocated : cell[f].key = key => f = e
  BY <1>1 DEF DictInv, Good, Holds
<1>7. PutIn(cell, allocated, cell', allocated', key, value)
  BY <1>1, <1>2, <1>5, <1>6 DEF PutIn
<1>8. QED
  BY <1>1, <1>4, <1>7 DEF Absence

LEMMA InsertKeeps ==
  ASSUME DictInv, NEW key \in Keys, NEW value \in Values, Insert(key, value)
  PROVE  /\ DictInv' /\ PutIn(cell, allocated, cell', allocated', key, value)
         /\ Absence(cell, allocated, key)
<1>1. Absence(cell, allocated, key)
  BY FindIs DEF Insert, Absent
<1> DEFINE b == Index(key)
<1>2. PICK e \in Entries \ allocated :
        /\ allocated' = allocated \cup {e}
        /\ cell' = [cell EXCEPT ![e] = [key |-> key, value |-> value, next |-> table[b]]]
        /\ table' = [table EXCEPT ![b] = e]
  BY DEF Insert
<1>3. Good(table', cell', With(Chains, b, Grown(Chains[b], e)), allocated \cup {e})
  BY <1>1, <1>2, Inserted DEF DictInv
<1>4. cnt' = Cardinality(allocated \cup {e})
  BY <1>2, Allocated, FS_AddElement DEF Insert, DictInv
<1>5. DictInv'
  BY <1>2, <1>3, <1>4, Kept
<1>6. /\ cell'[e].key = key /\ cell'[e].value = value
      /\ \A f \in allocated : cell'[f] = cell[f]
  BY <1>2, Allocated DEF Cells
<1>7. PutIn(cell, allocated, cell', allocated', key, value)
  BY <1>1, <1>2, <1>6 DEF PutIn, Absence
<1>8. QED
  BY <1>1, <1>5, <1>7

Drops(e, key) ==
  /\ e \in allocated /\ cell[e].key = key
  /\ allocated' = allocated \ {e}
  /\ \A f \in allocated \ {e} : cell'[f].key = cell[f].key /\ cell'[f].value = cell[f].value

(* The stores of a deletion, of the m-th entry of the chain.               *)
LEMMA CutKeeps ==
  ASSUME DictInv, NEW key \in Keys, NEW m \in DOMAIN Chain(Index(key)),
         cell[Chain(Index(key))[m]].key = key,
         Cut(table, table', cell, cell', Chains, allocated, Index(key), m),
         Release(Chain(Index(key))[m], key)
  PROVE  DictInv' /\ Drops(Chain(Index(key))[m], key)
<1>1. PICK b \in Buckets : b = Index(key)
  BY ChainOf
<1>2. PICK e : e = Chain(b)[m] /\ e = Chains[b][m]
  BY <1>1, ChainOf
<1>3. m \in DOMAIN Chains[b]
  BY <1>1, ChainOf
<1>4. PICK d : d = cell'
  OBVIOUS
<1>5. PICK tb : tb = table'
  OBVIOUS
<1>6. Good(table, cell, Chains, allocated) /\ Cut(table, tb, cell, d, Chains, allocated, b, m)
  BY <1>1, <1>4, <1>5 DEF DictInv
<1>7. /\ Good(tb, d, With(Chains, b, RemoveAt(Chains[b], m)), allocated \ {e})
      /\ e \in allocated
  <2>1. PICK ch : ch = Chains
    OBVIOUS
  <2>2. PICK al : al = allocated
    OBVIOUS
  <2>3. PICK c : c = cell
    OBVIOUS
  <2>4. Good(table, c, ch, al) /\ Cut(table, tb, c, d, ch, al, b, m) /\ m \in DOMAIN ch[b]
    BY <1>3, <1>6, <2>1, <2>2, <2>3
  <2>5. Good(tb, d, With(ch, b, RemoveAt(ch[b], m)), al \ {ch[b][m]}) /\ ch[b][m] \in al
    BY <2>4, Deleted
  <2>6. QED
    BY <1>2, <2>1, <2>2, <2>5
<1>8. allocated' = allocated \ {e} /\ cnt' = cnt - 1
  BY <1>1, <1>2 DEF Release
<1>9. cnt' = Cardinality(allocated \ {e})
  BY <1>7, <1>8, Allocated, FS_RemoveElement DEF DictInv
<1>10. DictInv'
  BY <1>4, <1>5, <1>7, <1>8, <1>9, Kept
<1>11. Drops(e, key)
  BY <1>1, <1>2, <1>4, <1>6, <1>7, <1>8 DEF Drops, Cut
<1>12. QED
  BY <1>1, <1>2, <1>10, <1>11

LEMMA JunkIsCell == Junk \in Cell
BY DEF Junk, Cell, Pointers

LEMMA DeleteFirstKeeps ==
  ASSUME DictInv, NEW key \in Keys, DeleteFirst(key)
  PROVE  DictInv' /\ \E e : Drops(e, key)
<1> DEFINE b == Index(key)
           s == Chain(b)
           e == s[1]
<1>1. /\ b \in Buckets /\ Chains[b] = s /\ s \in Seq(Entries) /\ Path(table[b], cell, s)
      /\ DOMAIN s = 1..Len(s) /\ Len(s) \in Nat /\ IsInjective(s)
  BY ChainOf DEF Path
<1>2. 1 \in DOMAIN s /\ e \in allocated /\ e \in Entries /\ cell[e].key = key
  BY FindIs, Allocated DEF DeleteFirst
<1>3. table[b] = e
  BY <1>1, <1>2 DEF Path, Nth
<1>4. /\ table' = [table EXCEPT ![b] = cell[e].next] /\ cell' = [cell EXCEPT ![e] = Junk]
      /\ Release(e, key)
  BY <1>3 DEF DeleteFirst
<1> HIDE DEF b, s, e
<1>5. table' \in Tables /\ cell' \in Cells
  <2>1. cell[e].next \in Pointers
    BY <1>2, Allocated DEF Cells, Cell
  <2>2. QED
    BY <1>1, <1>2, <1>4, <2>1, Allocated, JunkIsCell DEF Tables, Cells
<1>6. table'[b] = cell[e].next /\ \A a \in Buckets \ {b} : table'[a] = table[a]
  BY <1>1, <1>4, Allocated DEF Tables
<1>7. \A f \in Entries \ {e} : cell'[f] = cell[f]
  BY <1>4, Allocated DEF Cells
<1>8. \A j \in DOMAIN s \ {1} : s[j] \in Entries \ {e} /\ j # 1 - 1
  BY <1>1, <1>2 DEF IsInjective, e
<1>9. Bypass(table[b], table'[b], cell, cell', s, 1)
  BY <1>6, <1>7, <1>8 DEF Bypass, e
<1>10. Cut(table, table', cell, cell', Chains, allocated, b, 1)
  <2>1. e \in Range(s)
    BY <1>2 DEF Range, e
  <2>2. \A f \in allocated \ {e} : cell'[f] = cell[f]
    BY <1>7, Allocated
  <2>3. QED
    BY <1>1, <1>5, <1>6, <1>9, <2>1, <2>2 DEF Cut, e
<1>11. DictInv' /\ Drops(e, key)
  BY <1>2, <1>4, <1>10, CutKeeps DEF b, s, e
<1>12. QED
  BY <1>11

LEMMA DeleteLaterKeeps ==
  ASSUME DictInv, NEW key \in Keys, DeleteLater(key)
  PROVE  DictInv' /\ \E e : Drops(e, key)
<1> DEFINE b == Index(key)
           s == Chain(b)
           m == Find(key)
           e == s[m]
           p == s[m - 1]
<1>1. /\ b \in Buckets /\ Chains[b] = s /\ s \in Seq(Entries) /\ Path(table[b], cell, s)
      /\ DOMAIN s = 1..Len(s) /\ Len(s) \in Nat /\ IsInjective(s)
  BY ChainOf DEF Path
<1>2. m \in DOMAIN s /\ e \in allocated /\ e \in Entries /\ cell[e].key = key /\ m > 1
  <2>1. m > 1
    BY DEF DeleteLater
  <2>2. m # 0
    BY <2>1
  <2>3. QED
    BY <2>1, <2>2, FindIs, Allocated
<1>3. /\ cell' = [cell EXCEPT ![p].next = cell[e].next, ![e] = Junk]
      /\ table' = table /\ Release(e, key)
  BY DEF DeleteLater, Beyond
<1> HIDE DEF b, s, m, e, p
<1>4. m - 1 \in DOMAIN s /\ m - 1 # m
  BY <1>1, <1>2
<1>5. p \in Entries /\ p # e /\ p \in Range(s) /\ e \in Range(s)
  BY <1>1, <1>2, <1>4 DEF IsInjective, Range, e, p
<1>6. /\ cell'[p] = [key |-> cell[p].key, value |-> cell[p].value, next |-> cell[e].next]
      /\ cell'[e] = Junk
      /\ \A f \in Entries \ {e, p} : cell'[f] = cell[f]
      /\ cell' = [f \in Entries |-> cell'[f]]
  <2>1. cell[p] = [key |-> cell[p].key, value |-> cell[p].value, next |-> cell[p].next]
    BY <1>5, Allocated DEF Cells, Cell
  <2>2. QED
    BY <1>2, <1>3, <1>5, <2>1, Allocated DEF Cells
<1>7. cell' \in Cells
  <2>1. cell[p] \in Cell /\ cell[e] \in Cell
    BY <1>2, <1>5, Allocated DEF Cells
  <2>2. cell[e].next \in Pointers /\ cell[p].key \in Nat /\ cell[p].value \in Values \cup {NoValue}
    BY <2>1 DEF Cell
  <2>3. cell'[p] \in Cell
    BY <1>6, <2>2 DEF Cell
  <2>4. \A f \in Entries : cell'[f] \in Cell
    BY <1>6, <2>3, Allocated, JunkIsCell DEF Cells
  <2>5. QED
    BY <1>6, <2>4 DEF Cells
<1>8. \A j \in DOMAIN s \ {m} : /\ s[j] \in Entries \ {e}
                                /\ j = m - 1 => s[j] = p
                                /\ j # m - 1 => s[j] \in Entries \ {e, p}
  BY <1>1, <1>2, <1>4 DEF IsInjective, e, p
<1>9. Bypass(table[b], table'[b], cell, cell', s, m)
  <2>1. \A j \in DOMAIN s \ {m} :
          cell'[s[j]].next = IF j = m - 1 THEN cell[e].next ELSE cell[s[j]].next
    BY <1>6, <1>8
  <2>2. table'[b] = IF m = 1 THEN cell[e].next ELSE table[b]
    BY <1>2, <1>3
  <2>3. e = s[m]
    BY DEF e
  <2>4. PICK x : x = s[m] /\ x = e
    BY <2>3
  <2>5. QED
    BY <2>1, <2>2, <2>4 DEF Bypass
<1>10. Cut(table, table', cell, cell', Chains, allocated, b, m)
  <2>1. \A f \in allocated \ {e} : cell'[f].key = cell[f].key /\ cell'[f].value = cell[f].value
    BY <1>5, <1>6, Allocated
  <2>2. \A f \in allocated \ Range(s) : cell'[f].next = cell[f].next
    BY <1>5, <1>6, Allocated
  <2>3. QED
    BY <1>1, <1>3, <1>7, <1>9, <2>1, <2>2, Allocated DEF Cut, e
<1>11. DictInv' /\ Drops(e, key)
  <2>1. m \in DOMAIN Chain(Index(key)) /\ e = Chain(Index(key))[m]
    BY <1>2 DEF b, s, e
  <2>2. QED
    BY <1>2, <1>3, <1>10, <2>1, CutKeeps DEF b
<1>12. QED
  BY <1>11

-----------------------------------------------------------------------------
LEMMA InitInv == Init => DictInv
<1> SUFFICES ASSUME Init PROVE DictInv
  OBVIOUS
<1> DEFINE none == [b \in Buckets |-> <<>>]
<1>1. none \in [Buckets -> Seq(Entries)] /\ \A b \in Buckets : none[b] = <<>> /\ Range(none[b]) = {}
  BY DEF Range
<1>2. cell \in Cells /\ table \in Tables
  BY JunkIsCell DEF Init, Cells, Tables, Pointers
<1>3. \A c : Path(Null, c, <<>>)
  BY DEF Path, Nth, IsInjective
<1>4. \A b \in Buckets : table[b] = Null
  BY DEF Init
<1> HIDE DEF none
<1>5. Holds(cell, none, {})
  BY <1>1 DEF Holds
<1>6. \A b \in Buckets : Path(table[b], cell, none[b])
  BY <1>1, <1>3, <1>4
<1>7. Good(table, cell, none, {})
  BY <1>1, <1>2, <1>5, <1>6 DEF Good
<1>8. Chains = none
  <2>1. \A b \in Buckets : Chain(b) = none[b]
    BY <1>6, LinkedIs DEF Chain
  <2>2. QED
    BY <1>1, <2>1 DEF Chains
<1>9. QED
  BY <1>7, <1>8, FS_EmptySet DEF Init, DictInv

LEMMA StutterInv ==
  ASSUME DictInv, UNCHANGED <<table, cnt, cell, allocated>>
  PROVE  DictInv'
BY DEF DictInv, Chains, Chain

LEMMA StepInv == DictInv /\ [Next]_vars => DictInv'
<1> SUFFICES ASSUME DictInv, [Next]_vars PROVE DictInv'
  OBVIOUS
<1>1. ASSUME NEW key \in Keys, NEW value \in Values, Update(key, value) \/ Insert(key, value)
      PROVE  DictInv'
  BY <1>1, UpdateKeeps, InsertKeeps
<1>2. ASSUME NEW key \in Keys, DeleteFirst(key) \/ DeleteLater(key)
      PROVE  DictInv'
  BY <1>2, DeleteFirstKeeps, DeleteLaterKeeps
<1>3. ASSUME NEW key \in Keys, DeleteMissing(key) \/ Get(key)
      PROVE  DictInv'
  BY <1>3, StutterInv DEF DeleteMissing, Get
<1>4. CASE UNCHANGED vars
  BY <1>4, StutterInv DEF vars
<1>5. QED
  BY <1>1, <1>2, <1>3, <1>4 DEF Next

(* The inductive invariant: the links from each bucket spell a chain, and  *)
(* the chains hold the allocated entries.                                  *)
THEOREM ChainInvariant == Spec => []DictInv
BY InitInv, StepInv, PTL DEF Spec

(* Every key has one entry at most: there are no more entries than keys.   *)
LEMMA CountFits ==
  ASSUME DictInv
  PROVE  cnt \in 0..Cardinality(Keys)
<1>1. PICK al : al = allocated
  OBVIOUS
<1>2. PICK f : f = [e \in al |-> cell[e].key]
  OBVIOUS
<1>3. f \in Injection(al, Keys)
  <2>1. \A e \in al : f[e] \in Keys
    BY <1>1, <1>2 DEF DictInv, Good, Holds
  <2>2. \A d, e \in al : f[d] = f[e] => d = e
    BY <1>1, <1>2 DEF DictInv, Good, Holds
  <2>3. QED
    BY <1>2, <2>1, <2>2 DEF Injection, IsInjective
<1>4. Cardinality(al) <= Cardinality(Keys)
  BY <1>1, <1>3, Given, Allocated, FS_Injection
<1>5. cnt = Cardinality(al) /\ Cardinality(al) \in Nat /\ Cardinality(Keys) \in Nat
  BY <1>1, Given, Allocated, FS_CardinalityType DEF DictInv
<1>6. QED
  BY <1>4, <1>5

LEMMA InvGivesType == DictInv => TypeOK
BY Allocated, CountFits DEF TypeOK, Tables, Cells, Cell, Pointers

(* An entry that the table reaches has not been freed, an entry that has   *)
(* not been freed is reached, by one chain and once, and cnt counts them;  *)
(* and no key has two entries, or an entry where dictGet will not look.    *)
THEOREM HeapFollowsTable == Spec => []HeapMatchesTable
<1>1. DictInv => HeapMatchesTable
  <2> SUFFICES ASSUME DictInv PROVE HeapMatchesTable
    OBVIOUS
  <2>1. \A b \in Buckets : Chains[b] = Chain(b)
    BY DEF Chains
  <2>2. UNION {Range(Chain(b)) : b \in Buckets} = allocated
    BY <2>1 DEF DictInv, Good, Holds
  <2>3. \A b \in Buckets : IsInjective(Chain(b))
    BY <2>1 DEF DictInv, Good, Path
  <2>4. \A b, c \in Buckets : b # c => Range(Chain(b)) \cap Range(Chain(c)) = {}
    <3>1. \A b, c \in Buckets : b # c => \A e \in Range(Chains[b]) : e \notin Range(Chains[c])
      BY Apart DEF DictInv
    <3>2. QED
      BY <2>1, <3>1
  <2>5. OneEntryPerKey
    BY <2>1 DEF DictInv, Good, Holds, OneEntryPerKey
  <2>6. QED
    BY <2>2, <2>3, <2>4, <2>5, InvGivesType DEF HeapMatchesTable, DictInv
<1>2. QED
  BY <1>1, ChainInvariant, PTL

-----------------------------------------------------------------------------
(* The map: f takes the key of each entry to its value.                    *)
KeysIn(c, al) == {c[e].key : e \in al}

IsMap(c, al, f) ==
  /\ f = [key \in KeysIn(c, al) |-> f[key]]
  /\ \A e \in al : f[c[e].key] = c[e].value

TheMap == [key \in {cell[e].key : e \in allocated} |-> cell[EntryOf(key)].value]

MapView == DictInv => IsMap(cell, allocated, TheMap)

LEMMA EntryOfIs ==
  ASSUME DictInv, NEW e \in allocated
  PROVE  EntryOf(cell[e].key) = e
<1>1. \A d \in allocated : cell[d].key = cell[e].key => d = e
  BY DEF DictInv, Good, Holds
<1>2. EntryOf(cell[e].key) \in allocated /\ cell[EntryOf(cell[e].key)].key = cell[e].key
  BY DEF EntryOf
<1>3. QED
  BY <1>1, <1>2

LEMMA TheMapIs == MapView
<1> SUFFICES ASSUME DictInv PROVE IsMap(cell, allocated, TheMap)
  BY DEF MapView
<1>1. DOMAIN TheMap = KeysIn(cell, allocated)
      /\ TheMap = [key \in KeysIn(cell, allocated) |-> TheMap[key]]
  BY DEF TheMap, KeysIn
<1>2. ASSUME NEW e \in allocated
      PROVE  TheMap[cell[e].key] = cell[e].value
  <2>1. TheMap[cell[e].key] = cell[EntryOf(cell[e].key)].value
    BY DEF TheMap
  <2>2. QED
    BY <2>1, EntryOfIs
<1>3. QED
  BY <1>1, <1>2 DEF IsMap

LEMMA SameMap ==
  ASSUME UNCHANGED <<cell, allocated>>
  PROVE  TheMap' = TheMap
BY DEF TheMap, EntryOf

(* How the map changes with the entries.                                   *)
MapWith(f, key, value) == [x \in DOMAIN f \cup {key} |-> IF x = key THEN value ELSE f[x]]

MapWithout(f, key) == [x \in DOMAIN f \ {key} |-> f[x]]

LEMMA MapPut ==
  ASSUME NEW c, NEW al, NEW d, NEW al2, NEW f, NEW g, NEW key, NEW value,
         IsMap(c, al, f), IsMap(d, al2, g), PutIn(c, al, d, al2, key, value)
  PROVE  g = MapWith(f, key, value)
<1>1. DOMAIN f = KeysIn(c, al)
  BY DEF IsMap
<1>2. KeysIn(d, al2) = KeysIn(c, al) \cup {key}
  BY DEF KeysIn, PutIn
<1>3. \A x \in KeysIn(d, al2) : g[x] = IF x = key THEN value ELSE f[x]
  BY DEF KeysIn, PutIn, IsMap
<1>4. QED
  BY <1>1, <1>2, <1>3 DEF IsMap, MapWith

(* Entry e is gone, and it alone had the key. *)
DropIn(c, al, d, al2, e, key) ==
  /\ e \in al /\ al2 = al \ {e} /\ c[e].key = key
  /\ \A f \in al2 : c[f].key # key /\ d[f].key = c[f].key /\ d[f].value = c[f].value

LEMMA MapDrop ==
  ASSUME NEW c, NEW al, NEW d, NEW al2, NEW f, NEW g, NEW e, NEW key,
         IsMap(c, al, f), IsMap(d, al2, g), DropIn(c, al, d, al2, e, key)
  PROVE  g = MapWithout(f, key) /\ key \in DOMAIN f
<1>1. DOMAIN f = KeysIn(c, al) /\ key \in KeysIn(c, al)
  BY DEF IsMap, KeysIn, DropIn
<1>2. KeysIn(d, al2) = KeysIn(c, al) \ {key}
  BY DEF KeysIn, DropIn
<1>3. \A x \in KeysIn(d, al2) : g[x] = f[x]
  BY DEF KeysIn, DropIn, IsMap
<1>4. QED
  BY <1>1, <1>2, <1>3 DEF IsMap, MapWithout

(* The same of the state before a step, and after it.                      *)
Views == IsMap(cell, allocated, TheMap) /\ IsMap(cell', allocated', TheMap')

LEMMA Maps ==
  ASSUME DictInv, DictInv'
  PROVE  Views
<1>1. MapView /\ MapView'
  BY TheMapIs, PTL
<1>2. QED
  BY <1>1 DEF MapView, Views

LEMMA PutMap ==
  ASSUME NEW key, NEW value, Views, PutIn(cell, allocated, cell', allocated', key, value)
  PROVE  TheMap' = MapWith(TheMap, key, value)
<1>1. PICK c : c = cell
  OBVIOUS
<1>2. PICK al : al = allocated
  OBVIOUS
<1>3. PICK d : d = cell'
  OBVIOUS
<1>4. PICK al2 : al2 = allocated'
  OBVIOUS
<1>5. PICK f : f = TheMap
  OBVIOUS
<1>6. PICK g : g = TheMap'
  OBVIOUS
<1>7. IsMap(c, al, f) /\ IsMap(d, al2, g) /\ PutIn(c, al, d, al2, key, value)
  BY <1>1, <1>2, <1>3, <1>4, <1>5, <1>6 DEF Views
<1>8. g = MapWith(f, key, value)
  BY <1>7, MapPut
<1>9. QED
  BY <1>5, <1>6, <1>8

LEMMA DropMap ==
  ASSUME NEW e, NEW key, DictInv, Views, Drops(e, key)
  PROVE  TheMap' = MapWithout(TheMap, key) /\ key \in DOMAIN TheMap
<1>1. PICK c : c = cell
  OBVIOUS
<1>2. PICK al : al = allocated
  OBVIOUS
<1>3. PICK d : d = cell'
  OBVIOUS
<1>4. PICK al2 : al2 = allocated'
  OBVIOUS
<1>5. PICK f : f = TheMap
  OBVIOUS
<1>6. PICK g : g = TheMap'
  OBVIOUS
<1>7. \A h \in al \ {e} : c[h].key # key
  BY <1>1, <1>2 DEF DictInv, Good, Holds, Drops
<1>8. IsMap(c, al, f) /\ IsMap(d, al2, g) /\ DropIn(c, al, d, al2, e, key)
  BY <1>1, <1>2, <1>3, <1>4, <1>5, <1>6, <1>7 DEF Views, Drops, DropIn
<1>9. g = MapWithout(f, key) /\ key \in DOMAIN f
  BY <1>8, MapDrop
<1>10. QED
  BY <1>5, <1>6, <1>9

(* A key is in the map when an entry has it.                               *)
LEMMA Present ==
  ASSUME NEW key
  PROVE  key \in DOMAIN TheMap <=> ~Absence(cell, allocated, key)
BY DEF TheMap, Absence

-----------------------------------------------------------------------------
(* The refinement, one step at a time.                                     *)
PutStep(k, v, code) ==
  /\ TheMap' = MapWith(TheMap, k, v)
  /\ ret' = [call |-> <<"add", k, v>>, code |-> code, value |-> NoValue]
  /\ code = IF k \in DOMAIN TheMap THEN "exist" ELSE "ok"

LEMMA PutRefines ==
  ASSUME NEW k \in Keys, NEW v \in Values, NEW code, PutStep(k, v, code)
  PROVE  Map!MapNext
BY DEF PutStep, MapWith, Map!MapNext, Map!Put, Map!Answers, TheMap

LEMMA AddRefines ==
  ASSUME DictInv, NEW key \in Keys, NEW value \in Values, Update(key, value) \/ Insert(key, value)
  PROVE  Map!MapNext
<1>1. DictInv' /\ PutIn(cell, allocated, cell', allocated', key, value)
  BY UpdateKeeps, InsertKeeps
<1>2. TheMap' = MapWith(TheMap, key, value)
  BY <1>1, Maps, PutMap
<1>3. CASE Update(key, value)
  <2>1. key \in DOMAIN TheMap
    BY <1>3, UpdateKeeps, Present
  <2>2. PutStep(key, value, "exist")
    BY <1>2, <1>3, <2>1 DEF PutStep, Update, Returns
  <2>3. QED
    BY <2>2, PutRefines
<1>4. CASE Insert(key, value)
  <2>1. key \notin DOMAIN TheMap
    BY <1>4, InsertKeeps, Present
  <2>2. PutStep(key, value, "ok")
    BY <1>2, <1>4, <2>1 DEF PutStep, Insert, Returns
  <2>3. QED
    BY <2>2, PutRefines
<1>5. QED
  BY <1>3, <1>4

DropStep(k, code) ==
  /\ TheMap' = IF k \in DOMAIN TheMap THEN MapWithout(TheMap, k) ELSE TheMap
  /\ ret' = [call |-> <<"del", k>>, code |-> code, value |-> NoValue]
  /\ code = IF k \in DOMAIN TheMap THEN "ok" ELSE "not_exist"

LEMMA DropRefines ==
  ASSUME NEW k \in Keys, NEW code, DropStep(k, code)
  PROVE  Map!MapNext
<1>1. TheMap = [x \in DOMAIN TheMap |-> TheMap[x]]
  BY DEF TheMap
<1>2. TheMap' = MapWithout(TheMap, k)
  <2>1. k \notin DOMAIN TheMap => DOMAIN TheMap \ {k} = DOMAIN TheMap
    OBVIOUS
  <2>2. QED
    BY <1>1, <2>1 DEF DropStep, MapWithout
<1>3. TheMap' = [x \in DOMAIN TheMap \ {k} |-> TheMap[x]]
  BY <1>2 DEF MapWithout
<1>4. Map!Delete(k)
  BY <1>3 DEF DropStep, Map!Delete, Map!Answers, Map!Restrict, TheMap
<1>5. QED
  BY <1>4 DEF Map!MapNext

LEMMA DeleteRefines ==
  ASSUME DictInv, NEW key \in Keys, DeleteFirst(key) \/ DeleteLater(key)
  PROVE  Map!MapNext
<1>1. DictInv' /\ \E e : Drops(e, key)
  BY DeleteFirstKeeps, DeleteLaterKeeps
<1>2. TheMap' = MapWithout(TheMap, key) /\ key \in DOMAIN TheMap
  BY <1>1, Maps, DropMap
<1>3. ret' = [call |-> <<"del", key>>, code |-> "ok", value |-> NoValue]
  BY DEF DeleteFirst, DeleteLater, Release, Returns
<1>4. DropStep(key, "ok")
  BY <1>2, <1>3 DEF DropStep
<1>5. QED
  BY <1>4, DropRefines

LEMMA MissRefines ==
  ASSUME DictInv, NEW key \in Keys, DeleteMissing(key)
  PROVE  Map!MapNext
<1>1. TheMap' = TheMap /\ Find(key) = 0
  BY SameMap DEF DeleteMissing, Absent
<1>2. key \notin DOMAIN TheMap
  BY <1>1, FindIs, Present
<1>3. DropStep(key, "not_exist")
  BY <1>1, <1>2 DEF DropStep, DeleteMissing, Returns
<1>4. QED
  BY <1>3, DropRefines

LookStep(k, code, value) ==
  /\ TheMap' = TheMap
  /\ ret' = [call |-> <<"get", k>>, code |-> code, value |-> value]
  /\ k \in DOMAIN TheMap => code = "ok" /\ value = TheMap[k]
  /\ k \notin DOMAIN TheMap => code = "not_exist" /\ value = NoValue

LEMMA LookRefines ==
  ASSUME NEW k \in Keys, NEW code, NEW value, LookStep(k, code, value)
  PROVE  Map!MapNext
<1>1. Map!Lookup(k)
  BY DEF LookStep, Map!Lookup, Map!Answers, TheMap
<1>2. QED
  BY <1>1 DEF Map!MapNext

LEMMA GetRefines ==
  ASSUME DictInv, NEW key \in Keys, Get(key)
  PROVE  Map!MapNext
<1>1. TheMap' = TheMap
  BY SameMap DEF Get
<1>2. CASE Find(key) = 0
  <2>1. key \notin DOMAIN TheMap
    BY <1>2, FindIs, Present
  <2>2. LookStep(key, "not_exist", NoValue)
    BY <1>1, <1>2, <2>1 DEF LookStep, Get, Absent, Returns
  <2>3. QED
    BY <2>2, LookRefines
<1>3. CASE Find(key) # 0
  <2>1. PICK e \in allocated : e = Chain(Index(key))[Find(key)] /\ cell[e].key = key
    BY <1>3, FindIs
  <2>2. key \in DOMAIN TheMap
    BY <2>1, Present DEF Absence
  <2>3. TheMap[key] = cell[e].value
    <3>1. IsMap(cell, allocated, TheMap)
      BY TheMapIs DEF MapView
    <3>2. QED
      BY <2>1, <3>1 DEF IsMap
  <2>4. LookStep(key, "ok", cell[e].value)
    BY <1>1, <1>3, <2>1, <2>2, <2>3 DEF LookStep, Get, Absent, Returns
  <2>5. QED
    BY <2>4, LookRefines
<1>4. QED
  BY <1>2, <1>3

LEMMA StepRefines == DictInv /\ [Next]_vars => [Map!MapNext]_(Map!mapVars)
<1> SUFFICES ASSUME DictInv, [Next]_vars
             PROVE  [Map!MapNext]_(Map!mapVars)
  OBVIOUS
<1>1. CASE Next
  BY <1>1, AddRefines, DeleteRefines, MissRefines, GetRefines DEF Next
<1>2. CASE UNCHANGED vars
  BY <1>2, SameMap DEF vars, TheMap, Map!mapVars
<1>3. QED
  BY <1>1, <1>2

LEMMA InitRefines == Init => Map!MapInit
<1> SUFFICES ASSUME Init PROVE Map!MapInit
  OBVIOUS
<1>1. TheMap = [k \in {} |-> NoValue]
  BY DEF Init, TheMap
<1>2. QED
  BY <1>1 DEF Init, Map!MapInit, Map!NoCall, TheMap

(* hash.c implements the dictionary of KeyValueMap: dictGet returns what   *)
(* dictAdd last stored under the key, and the return codes tell whether    *)
(* the key was there, whatever was added and deleted in between.           *)
THEOREM RefinesMap == Spec => ImplementsMap
BY InitRefines, StepRefines, ChainInvariant, PTL DEF Spec, ImplementsMap, Map!MapSpec

=============================================================================
