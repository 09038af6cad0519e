---------------------------- MODULE KeyValueMap -----------------------------
(***************************************************************************)
(* What a dictionary promises: a partial function from keys to values,     *)
(* and return codes that tell what an operation did.                       *)
(***************************************************************************)
EXTENDS Functions

CONSTANTS Keys, Values,
          NoValue          \* "no value was returned"

VARIABLES map,     \* the function
          ret      \* the last call, and what it returned: a code, and a value

mapVars == <<map, ret>>

NoCall == [call |-> <<>>, code |-> "none", value |-> NoValue]

MapInit ==
  /\ map = [k \in {} |-> NoValue]
  /\ ret = NoCall

Answers(call, code, value) == ret' = [call |-> call, code |-> code, value |-> value]

Put(k, v) ==
  /\ map' = [x \in DOMAIN map \cup {k} |-> IF x = k THEN v ELSE map[x]]
  /\ Answers(<<"add", k, v>>, IF k \in DOMAIN map THEN "exist" ELSE "ok", NoValue)

Delete(k) ==
  /\ map' = Restrict(map, DOMAIN map \ {k})
  /\ Answers(<<"del", k>>, IF k \in DOMAIN map THEN "ok" ELSE "not_exist", NoValue)

Lookup(k) ==
  /\ UNCHANGED map
  /\ IF k \in DOMAIN map THEN Answers(<<"get", k>>, "ok", map[k])
                          ELSE Answers(<<"get", k>>, "not_exist", NoValue)

Clear ==
  /\ map' = [k \in {} |-> NoValue]
  /\ UNCHANGED ret

MapNext == Clear \/ \E k \in Keys : Delete(k) \/ Lookup(k) \/ \E v \in Values : Put(k, v)

MapSpec == MapInit /\ [][MapNext]_mapVars

=============================================================================
