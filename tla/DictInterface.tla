--------------------------- MODULE DictInterface ----------------------------
(***************************************************************************)
(* src/clib/hash_interface.c: the hash table whose keys and values are     *)
(* pointers, of a type with callbacks.  Of DictTypeInt they are integers,  *)
(* and nobody's; of DictTypeString they are strings on the heap that the   *)
(* dict frees with their entry.  Every allocation is counted in MemTotal.  *)
(* A chain is a sequence (module Dict has the links); what matters is who  *)
(* owns a string.                                                          *)
(***************************************************************************)
EXTENDS SequencesExt, FiniteSetsExt, Functions

CONSTANTS Size,        \* the argument of dictCreate
          Ints,        \* the integers that are used as keys and values
          Texts,       \* what a string may hold
          Hash,        \* dictIntHash of an integer, dictStringHash of a text
          Bytes,       \* strlen + 1, of a text
          Strings,     \* the pointers dictMalloc can give to a string
          Freed,       \* content of memory that is not allocated
          Wild,        \* the value of an uninitialised bucket that is not 0
          NoValue,     \* "no value was returned"
          DictBytes, EntryBytes, PointerBytes   \* the sizeofs

(* _dictNextPower: doubling from DICT_HT_INITIAL_SIZE.  Sizes are below    *)
(* LONG_MAX, from which on it returns LONG_MAX and no table can be had.    *)
NextPower(size) == 4 * Min({2^i : i \in {j \in 0..size : 4 * 2^j >= size}})

(* d->size *)
TableSize == NextPower(Size)

Buckets == 0..(TableSize - 1)

(* A dictEntry: its place in the chain is its next.                         *)
Entry == [key : Ints \cup Strings, val : Ints \cup Strings]

(* The loop of _dictNextPower ends: TableSize is a number.                 *)
ASSUME DictInterfaceAssumption ==
  /\ Size \in Nat /\ TableSize \in Nat \ {0}
  /\ Hash \in [Ints \cup Texts -> Nat] /\ Bytes \in [Texts -> Nat \ {0}]
  /\ Freed \notin Texts /\ NoValue \notin Texts /\ Wild \notin Seq(Entry)
  /\ IsFiniteSet(Strings) /\ Strings \cap Ints = {}
  /\ {DictBytes, EntryBytes, PointerBytes} \subseteq Nat

VARIABLES state,      \* "none"; the type of the dict there is; or, when the program
                      \* has followed a wild pointer or NULL, "crashed" or "nullStore"
          table,      \* each bucket's chain, or Wild
          used,       \* d->used
          text,       \* the text of each string, or Freed
          MemTotal,
          ret         \* the last call, and what it returned

vars == <<state, table, used, text, MemTotal, ret>>

(* hash & sizemask *)
Bucket(c) == Hash[c] % TableSize

Live(s) == text[s] # Freed

Open == state \in {"int", "string"}

(* What hashFunction and keyCompare look at. *)
Content(x) == IF x \in Strings THEN text[x] ELSE x

(* The entries of a bucket whose content is known. *)
Entries(b) == IF table[b] = Wild THEN {} ELSE Range(table[b])

(* The strings that the entries of the dict hold. *)
Held ==
  IF state = "string" THEN UNION {{e.key, e.val} : e \in UNION {Entries(b) : b \in Buckets}}
                      ELSE {}

(* The strings among X are freed, if anything is: DictTypeInt has no       *)
(* destructors.                                                            *)
Released(X) == [s \in Strings |-> IF s \in X THEN Freed ELSE text[s]]

StringBytes == [s \in Strings |-> IF Live(s) THEN Bytes[text[s]] ELSE 0]

BytesOf(X) == SumFunctionOnSet(StringBytes, X \cap Strings)

Init ==
  /\ state = "none"
  /\ table = [b \in Buckets |-> <<>>]
  /\ used = 0
  /\ text = [s \in Strings |-> Freed]
  /\ MemTotal = 0
  /\ ret = [call |-> <<>>, code |-> "none", value |-> NoValue]

Returns(call, code, value) == ret' = [call |-> call, code |-> code, value |-> value]

-----------------------------------------------------------------------------
(* dictCreate; the memset clears the first size buckets of the table, and  *)
(* not all the _dictNextPower(size) it has.  A program with a dict of      *)
(* integers has no strings.                                                *)
DictCreate(type) ==
  /\ state = "none"
  /\ type = "int" => \A s \in Strings : ~Live(s)
  /\ state' = type
  /\ table' \in [Buckets -> {<<>>, Wild}]
  /\ \A b \in Buckets : b < Size => table'[b] = <<>>
  /\ used' = 0
  /\ MemTotal' = MemTotal + DictBytes + TableSize * PointerBytes
  /\ UNCHANGED <<text, ret>>

(* Mutant: the first allocation is leaked. *)
KeptOnFailure(got) == got

(* What is left of the first allocation when the second one fails. *)
LeftOnFailure(got) == got - got

DictCreateFails ==
  /\ state = "none"
  /\ \E got \in {0, DictBytes} : MemTotal' = MemTotal + LeftOnFailure(got)
  /\ UNCHANGED <<state, table, used, text, ret>>

(* The caller allocates a string, and frees one the dict does not hold.    *)
NewString(s, t) ==
  /\ ~Live(s) /\ state \in {"none", "string"}
  /\ text' = [text EXCEPT ![s] = t]
  /\ MemTotal' = MemTotal + Bytes[t]
  /\ UNCHANGED <<state, table, used, ret>>

FreeString(s) ==
  /\ Live(s) /\ s \notin Held /\ state \in {"none", "string"}
  /\ text' = [text EXCEPT ![s] = Freed]
  /\ MemTotal' = MemTotal - Bytes[text[s]]
  /\ UNCHANGED <<state, table, used, ret>>

-----------------------------------------------------------------------------
(* Mutant: the first entry of the chain, whatever its key. *)
WalkFirst(c) == IF table[Bucket(c)] = <<>> THEN 0 ELSE 1

(* The walk along the chain of content c: the place of its entry, or 0.    *)
Walk(c) ==
  LET chain == table[Bucket(c)]
      found == {i \in DOMAIN chain : Content(chain[i].key) = c}
  IN  IF found = {} THEN 0 ELSE Min(found)

(* An operation on content c begins by reading the bucket, and follows the *)
(* pointer it finds; so does dictDestroy, with every bucket.               *)
Reads(c) == Open /\ table[Bucket(c)] # Wild

FollowWild(b) ==
  /\ Open /\ table[b] = Wild
  /\ state' = "crashed"
  /\ UNCHANGED <<table, used, text, MemTotal, ret>>

(* Mutant: the freed value stays in the entry. *)
KeepsValue(chain, i, v) == chain

WithValue(chain, i, v) == [chain EXCEPT ![i].val = v]

(* dictAdd of a key that is there: the value is freed and replaced, and    *)
(* the key that was passed stays the caller's.                             *)
AddExisting(k, v) ==
  LET b   == Bucket(Content(k))
      i   == Walk(Content(k))
      old == table[b][i].val
  IN  /\ Reads(Content(k)) /\ i # 0
      /\ text' = Released({old})
      /\ MemTotal' = MemTotal - BytesOf({old})
      /\ table' = [table EXCEPT ![b] = WithValue(@, i, v)]
      /\ Returns(<<"add", Content(k), Content(v)>>, "exist", NoValue)
      /\ UNCHANGED <<state, used>>

(* dictAdd of a new key: the dict holds the key and the value.             *)
AddNew(k, v) ==
  /\ Reads(Content(k)) /\ Walk(Content(k)) = 0
  /\ table' = [table EXCEPT ![Bucket(Content(k))] = <<[key |-> k, val |-> v]>> \o @]
  /\ used' = used + 1
  /\ MemTotal' = MemTotal + EntryBytes
  /\ Returns(<<"add", Content(k), Content(v)>>, "ok", NoValue)
  /\ UNCHANGED <<state, text>>

(* ... when malloc fails: the key is stored through NULL.                  *)
AddNoMemory(k) ==
  /\ Reads(Content(k)) /\ Walk(Content(k)) = 0
  /\ state' = "nullStore"
  /\ UNCHANGED <<table, used, text, MemTotal, ret>>

(* The caller passes integers, or two strings of its own. *)
DictAdd(k, v) ==
  /\ \/ state = "int" /\ {k, v} \subseteq Ints
     \/ state = "string" /\ {k, v} \subseteq Strings \ Held /\ k # v /\ Live(k) /\ Live(v)
  /\ AddExisting(k, v) \/ AddNew(k, v) \/ AddNoMemory(k)

(* A key to look for: any string that holds the text, the stored key       *)
(* included.                                                               *)
Searchable(k) == IF state = "int" THEN k \in Ints ELSE k \in Strings /\ Live(k)

DictFind(k) ==
  /\ Searchable(k) /\ Reads(Content(k))
  /\ LET c == Content(k)
     IN  IF Walk(c) = 0
           THEN Returns(<<"get", c>>, "not_exist", NoValue)
           ELSE Returns(<<"get", c>>, "ok", Content(table[Bucket(c)][Walk(c)].val))
  /\ UNCHANGED <<state, table, used, text, MemTotal>>

(* dictDel; the key that was passed may be the one that is freed.          *)
DictDel(k) ==
  /\ Searchable(k) /\ Reads(Content(k))
  /\ LET b == Bucket(Content(k))
         i == Walk(Content(k))
         e == table[b][i]
     IN  \/ /\ i = 0
            /\ Returns(<<"del", Content(k)>>, "not_exist", NoValue)
            /\ UNCHANGED <<table, used, text, MemTotal>>
         \/ /\ i # 0
            /\ table' = [table EXCEPT ![b] = RemoveAt(@, i)]
            /\ text' = Released({e.key, e.val})
            /\ MemTotal' = MemTotal - BytesOf({e.key, e.val}) - EntryBytes
            /\ used' = used - 1
            /\ Returns(<<"del", Content(k)>>, "ok", NoValue)
  /\ UNCHANGED state

-----------------------------------------------------------------------------
ChainLengths == [b \in Buckets |-> IF table[b] = Wild THEN 0 ELSE Len(table[b])]

EntryCount == SumFunctionOnSet(ChainLengths, Buckets)

(* dictDestroy: every entry is freed, with its key and its value, and used *)
(* is decremented for each; the code asserts that it is 0 then.            *)
Empty ==
  /\ Open /\ \A b \in Buckets : table[b] # Wild
  /\ text' = Released(Held)
  /\ table' = [b \in Buckets |-> <<>>]
  /\ used' = used - EntryCount
  /\ UNCHANGED ret

DictDestroy ==
  /\ Empty
  /\ MemTotal' = MemTotal - BytesOf(Held) - EntryCount * EntryBytes
  /\ UNCHANGED state

(* dictDestruct: dictDestroy, then the table and the dict itself.          *)
DictDestruct ==
  /\ Empty
  /\ MemTotal' = MemTotal - BytesOf(Held) - EntryCount * EntryBytes
                          - TableSize * PointerBytes - DictBytes
  /\ state' = "none"

Next ==
  \/ \E type \in {"int", "string"} : DictCreate(type)
  \/ DictCreateFails \/ DictDestroy \/ DictDestruct
  \/ \E s \in Strings, t \in Texts : NewString(s, t)
  \/ \E s \in Strings : FreeString(s)
  \/ \E k \in Ints \cup Strings : DictFind(k) \/ DictDel(k)
  \/ \E k, v \in Ints \cup Strings : DictAdd(k, v)
  \/ \E b \in Buckets : FollowWild(b)

Spec == Init /\ [][Next]_vars

-----------------------------------------------------------------------------
TypeOK ==
  /\ state \in {"none", "int", "string", "crashed", "nullStore"}
  /\ table \in [Buckets -> Seq(Entry) \cup {Wild}]
  /\ used \in Nat
  /\ text \in [Strings -> Texts \cup {Freed}]
  /\ MemTotal \in Nat

(* No entry of the dict holds a freed string, and no two entries share     *)
(* one: nothing is used after it was freed, or freed twice.                *)
HeldStringsLive ==
  /\ TypeOK
  /\ state = "string" =>
       /\ \A s \in Held : Live(s)
       /\ Cardinality(Held) = 2 * used

(* MemTotal is exact at every moment: what the tests assert at the end     *)
(* ("0 == MemTotal", once the caller's strings are freed too) holds after  *)
(* any sequence of operations and failed allocations; and used is the      *)
(* number of entries, as dictDestroy asserts.                              *)
MemExact ==
  /\ Open => used = EntryCount
  /\ state \in {"none", "int", "string"} =>
       MemTotal = BytesOf({s \in Strings : Live(s)})
                  + IF state = "none" THEN 0
                    ELSE DictBytes + TableSize * PointerBytes + used * EntryBytes

(* An operation never follows the pointer of a bucket dictCreate has not   *)
(* cleared; test_int expects dictAdd on a dict of 3 to return DICT_OK.     *)
NeverFollowsWild == state # "crashed"

KeysHeld == {Content(e.key) : e \in UNION {Entries(b) : b \in Buckets}}

ValueOf(c) == Content(table[Bucket(c)][Walk(c)].val)

Map == INSTANCE KeyValueMap
         WITH Keys <- Ints \cup Texts, Values <- Ints \cup Texts,
              map <- [c \in KeysHeld |-> ValueOf(c)]

(* hash_interface.c implements the dictionary, on integers and on texts.   *)
ImplementsMap == Map!MapSpec

=============================================================================
