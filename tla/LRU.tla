-------------------------------- MODULE LRU ---------------------------------
(***************************************************************************)
(* src/golib/lru.go: a cache made of a map from keys to nodes and a ring   *)
(* of the same nodes with a head, the last one used first.  The ring keeps *)
(* no copy of the map: each operation must change both alike.  A call is a *)
(* step, as the cache is of one goroutine; a node the cache no longer      *)
(* refers to is garbage and may be given out again.                        *)
(***************************************************************************)
EXTENDS Integers, FiniteSets

CONSTANTS Keys, Vals,
          Memory,    \* the nodes that can be allocated
          Top,       \* the node embedded in the LRU, head of the ring
          Capacity,  \* l.size; NewLRU returns nil when it is not positive
          Null

(* What a module that instantiates this one has to assume. *)
LRUAssumption == Capacity \in Nat \ {0} /\ Top \notin Memory /\ Null \notin Memory

VARIABLES nodes,     \* l.nodes: the node of each key, or Null
          ring,      \* the fields pre and next of all nodes
          key, val,  \* the other fields of each node
          ret        \* history: the last call, <<"add", key, value>> or <<"get", key, answer>>

cacheVars == <<nodes, ring, key, val, ret>>

(* NewLRU *)
Init ==
  /\ nodes = [k \in Keys |-> Null]
  /\ ring = [pre  |-> [n \in Memory \cup {Top} |-> n],
             next |-> [n \in Memory \cup {Top} |-> n]]
  /\ key = [n \in Memory |-> Null]
  /\ val = [n \in Memory |-> Null]
  /\ ret = <<"none">>

Cached == {k \in Keys : nodes[k] # Null}

(* NewLRUNode, on the links *)
Alone(g, n) == [pre |-> [g.pre EXCEPT ![n] = n], next |-> [g.next EXCEPT ![n] = n]]

(* The stores of n.del(): the links of n itself stay as they are. *)
Del(g, n) == [pre  |-> [g.pre EXCEPT ![g.next[n]] = g.pre[n]],
              next |-> [g.next EXCEPT ![g.pre[n]] = g.next[n]]]

(* The stores of l.insert(n), which puts n first. *)
Insert(g, n) == [pre  |-> [g.pre EXCEPT ![n] = Top, ![g.next[Top]] = n],
                 next |-> [g.next EXCEPT ![n] = g.next[Top], ![Top] = n]]

(* Mutant: the place of a node in the ring is not refreshed. *)
NotRefreshed(g, n) == g

Refreshed(g, n) == Insert(Del(g, n), n)

-----------------------------------------------------------------------------
(* Mutant: the node keeps its value. *)
ReplaceKeepsValue(k, v) ==
  /\ nodes[k] # Null
  /\ ring' = Refreshed(ring, nodes[k])
  /\ ret' = <<"add", k, v>>
  /\ UNCHANGED <<nodes, key, val>>

(* Add of a key that is there *)
Replace(k, v) ==
  /\ nodes[k] # Null
  /\ val' = [val EXCEPT ![nodes[k]] = v]
  /\ ring' = Refreshed(ring, nodes[k])
  /\ ret' = <<"add", k, v>>
  /\ UNCHANGED <<nodes, key>>

(* Add of a new key, in a node n that is allocated for it.  A full cache   *)
(* first drops the node before the head: from the map by the key it holds, *)
(* then from the ring.                                                     *)
AddNew(k, v, n) ==
  LET full   == Cardinality(Cached) >= Capacity
      victim == ring.pre[Top]
  IN  /\ nodes[k] = Null
      /\ n \notin {nodes[x] : x \in Keys}
      /\ nodes' = [x \in Keys |-> IF x = k THEN n
                                  ELSE IF full /\ x = key[victim] THEN Null ELSE nodes[x]]
      /\ ring' = Insert(Alone(IF full THEN Del(ring, victim) ELSE ring, n), n)
      /\ key' = [key EXCEPT ![n] = k]
      /\ val' = [val EXCEPT ![n] = v]
      /\ ret' = <<"add", k, v>>

Get(k) ==
  /\ nodes[k] # Null
  /\ ring' = Refreshed(ring, nodes[k])
  /\ ret' = <<"get", k, val[nodes[k]]>>
  /\ UNCHANGED <<nodes, key, val>>

(* Null: Get returns nil and false. *)
GetMissing(k) ==
  /\ nodes[k] = Null
  /\ ret' = <<"get", k, Null>>
  /\ UNCHANGED <<nodes, ring, key, val>>

Next ==
  \E k \in Keys :
    \/ Get(k) \/ GetMissing(k)
    \/ \E v \in Vals : Replace(k, v) \/ \E n \in Memory : AddNew(k, v, n)

Spec == Init /\ [][Next]_cacheVars

-----------------------------------------------------------------------------
(* The keys met on the way round the ring. *)
Steps == 1..Cardinality(Memory) + 1

Met == LET m[i \in Steps] == IF i = 1 THEN ring.next[Top] ELSE ring.next[m[i - 1]]
       IN  m

Length == (CHOOSE i \in Steps : Met[i] = Top /\ \A j \in 1..(i - 1) : Met[j] # Top) - 1

(* lru.go implements a cache with recency order: map and ring hold the     *)
(* same keys, Add leaves its key with its value, the key dropped is the    *)
(* one not used for longest, and Get of a key answers with the value last  *)
(* added for it, or with nothing if the cache does not hold it.            *)
Cache == INSTANCE Recency WITH
           order <- [i \in 1..Length |-> key[Met[i]]],
           value <- [k \in Cached |-> val[nodes[k]]]

ImplementsRecency == Cache!RecencySpec

=============================================================================
