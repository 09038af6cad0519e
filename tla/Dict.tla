-------------------------------- MODULE Dict --------------------------------
(***************************************************************************)
(* src/clib/hash.c: a hash table with chaining, keys and values are ints.  *)
(* The entries are cells of a heap; an operation is one step, its loops    *)
(* are the walk along one chain.                                           *)
(***************************************************************************)
EXTENDS SequencesExt, FiniteSetsExt, Functions

CONSTANTS Cap,        \* the number of buckets, dictCreate's argument
          Keys,       \* the keys used: none negative, see Index
          Values,
          NoValue,    \* "no value was returned"
          Entries,    \* the cells malloc can give to dictAdd
          Null        \* the NULL pointer

(* malloc does not fail: there is a cell for every key. *)
ASSUME DictAssumption ==
  /\ Cap \in Nat \ {0} /\ Keys \subseteq Nat /\ IsFiniteSet(Keys)
  /\ IsFiniteSet(Entries) /\ Null \notin Entries
  /\ Cardinality(Entries) >= Cardinality(Keys)
  /\ NoValue \notin Values

VARIABLES table,        \* the first entry of each bucket
          cnt,          \* d->cnt
          cell,         \* each entry's key, value and next
          allocated,    \* entries malloc has given and free has not taken back
          ret           \* the last call, and what it returned

vars == <<table, cnt, cell, allocated, ret>>

Buckets == 0..(Cap - 1)

(* "key % d->cap"; of a negative key C's remainder is negative, and the    *)
(* table would be read before its start.                                   *)
Index(key) == key % Cap

(* What is in a cell that is not allocated; free makes it indeterminate.   *)
Junk == [key |-> 0, value |-> NoValue, next |-> Null]

(* dictCreate, when both allocations succeed *)
Init ==
  /\ table = [b \in Buckets |-> Null]
  /\ cnt = 0
  /\ cell = [e \in Entries |-> Junk]
  /\ allocated = {}
  /\ ret = [call |-> <<>>, code |-> "none", value |-> NoValue]

(* The entries that a pointer leads to, in the order of their links: from  *)
(* at[n] the next pointer is at[n + 1], until it is NULL.                  *)
Linked(first, entry) ==
  LET at[n \in 1..Cardinality(Entries)] ==
        IF n = 1 THEN first
        ELSE IF at[n - 1] = Null THEN Null ELSE entry[at[n - 1]].next
  IN  [n \in 1..Max({0} \cup {m \in DOMAIN at : at[m] # Null}) |-> at[n]]

(* The entries of a bucket. *)
Chain(b) == Linked(table[b], cell)

(* The place of the first entry with this key in its chain, or 0. *)
Find(key) ==
  LET chain == Chain(Index(key))
      found == {i \in DOMAIN chain : cell[chain[i]].key = key}
  IN  IF found = {} THEN 0 ELSE Min(found)

Returns(call, code, value) == ret' = [call |-> call, code |-> code, value |-> value]

-----------------------------------------------------------------------------
(* Mutant: the key is not looked up first. *)
AbsentUnchecked(key) == TRUE

Absent(key) == Find(key) = 0

(* dictAdd, of a key that is there *)
Update(key, value) ==
  /\ Find(key) # 0
  /\ cell' = [cell EXCEPT ![Chain(Index(key))[Find(key)]].value = value]
  /\ Returns(<<"add", key, value>>, "exist", NoValue)
  /\ UNCHANGED <<table, cnt, allocated>>

(* dictAdd, of a new key: the entry becomes the first of its chain. *)
Insert(key, value) ==
  /\ Absent(key)
  /\ \E e \in Entries \ allocated :
       /\ allocated' = allocated \cup {e}
       /\ cell' = [cell EXCEPT ![e] = [key |-> key, value |-> value, next |-> table[Index(key)]]]
       /\ table' = [table EXCEPT ![Index(key)] = e]
  /\ cnt' = cnt + 1
  /\ Returns(<<"add", key, value>>, "ok", NoValue)

(* free, the bookkeeping and the return code of a successful dictDel *)
Release(e, key) ==
  /\ allocated' = allocated \ {e}
  /\ cnt' = cnt - 1
  /\ Returns(<<"del", key>>, "ok", NoValue)

(* dictDel, of the first entry of a chain *)
DeleteFirst(key) ==
  /\ Find(key) = 1
  /\ LET e == table[Index(key)]
     IN  /\ table' = [table EXCEPT ![Index(key)] = cell[e].next]
         /\ cell' = [cell EXCEPT ![e] = Junk]
         /\ Release(e, key)

(* Mutant: the chain ends where the deleted entry was. *)
BeyondLost(e) == Null

(* The entry that follows e when e is deleted. *)
Beyond(e) == cell[e].next

(* dictDel, of a later entry: the one before it is linked past it. *)
DeleteLater(key) ==
  /\ Find(key) > 1
  /\ LET chain == Chain(Index(key))
         e     == chain[Find(key)]
     IN  /\ cell' = [cell EXCEPT ![chain[Find(key) - 1]].next = Beyond(e), ![e] = Junk]
         /\ Release(e, key)
  /\ UNCHANGED table

DeleteMissing(key) ==
  /\ Absent(key)
  /\ Returns(<<"del", key>>, "not_exist", NoValue)
  /\ UNCHANGED <<table, cnt, cell, allocated>>

(* dictGet *)
Get(key) ==
  /\ IF Absent(key) THEN Returns(<<"get", key>>, "not_exist", NoValue)
                    ELSE Returns(<<"get", key>>, "ok", cell[Chain(Index(key))[Find(key)]].value)
  /\ UNCHANGED <<table, cnt, cell, allocated>>

Next ==
  \E key \in Keys :
    \/ \E value \in Values : Update(key, value) \/ Insert(key, value)
    \/ DeleteFirst(key) \/ DeleteLater(key) \/ DeleteMissing(key)
    \/ Get(key)

Spec == Init /\ [][Next]_vars

-----------------------------------------------------------------------------
TypeOK ==
  /\ table \in [Buckets -> Entries \cup {Null}]
  /\ cnt \in 0..Cardinality(Keys)
  /\ cell \in [Entries -> [key : Nat, value : Values \cup {NoValue},
                           next : Entries \cup {Null}]]
  /\ allocated \subseteq Entries

OneEntryPerKey ==
  /\ \A b \in Buckets : \A e \in Range(Chain(b)) : Index(cell[e].key) = b
  /\ \A d, e \in allocated : cell[d].key = cell[e].key => d = e

(* An entry of the heap that is reached from the table has not been freed, *)
(* one that has not been freed is reached, by one chain and once, and cnt  *)
(* counts them: dictDel neither leaves a chain pointing at freed memory    *)
(* nor loses the entries behind the one it deletes.  A key has one entry   *)
(* at most, in the bucket dictGet looks for it in: an update never hides   *)
(* behind an older value.                                                  *)
HeapMatchesTable ==
  LET linked == UNION {Range(Chain(b)) : b \in Buckets}
  IN  /\ TypeOK
      /\ linked = allocated
      /\ cnt = Cardinality(allocated)
      /\ \A b \in Buckets : IsInjective(Chain(b))
      /\ \A b, c \in Buckets : b # c => Range(Chain(b)) \cap Range(Chain(c)) = {}
      /\ OneEntryPerKey

EntryOf(key) == CHOOSE e \in allocated : cell[e].key = key

Map == INSTANCE KeyValueMap
         WITH map <- [key \in {cell[e].key : e \in allocated} |-> cell[EntryOf(key)].value]

(* hash.c implements the dictionary, return codes and values included.     *)
ImplementsMap == Map!MapSpec

=============================================================================
