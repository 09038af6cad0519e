-------------------------- MODULE MCIntrusiveList ---------------------------
(* The two linked lists of the repository: in a behaviour, either list.h   *)
(* is used, with two lists that share their nodes, or the cache of lru.go, *)
(* with the same nodes.                                                    *)
EXTENDS IntrusiveList, TLC

CONSTANTS Keys, Vals, Top, Capacity

VARIABLES program, nodes, ring, key, val, ret

Lru == INSTANCE LRU WITH Memory <- Nodes

ASSUME CacheAssumption == Lru!LRUAssumption

cacheVars == <<nodes, ring, key, val, ret>>

MCInit == Init /\ Lru!Init /\ program \in {"list.h", "lru.go"}

MCNext ==
  \/ program = "list.h" /\ Next /\ UNCHANGED <<program, cacheVars>>
  \/ program = "lru.go" /\ Lru!Next /\ UNCHANGED <<program, vars>>

MCSpec == MCInit /\ [][MCNext]_<<program, vars, cacheVars>>

ImplementsRecency == Lru!ImplementsRecency

ListSymmetry == Permutations(Heads) \cup Permutations(Nodes)

=============================================================================
