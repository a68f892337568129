----------------------------- MODULE PartialMap -----------------------------
(***************************************************************************)
(* What users of the cache may rely on: a map from keys to values that may *)
(* lose any of them at any time, and never holds or returns anything but   *)
(* the value that was last set.                                            *)
(***************************************************************************)
CONSTANTS Keys, Values, None

VARIABLES map,    \* what the cache holds for each key, or None
          answer  \* what the last call returned

Answers == Values \cup {None, "ok", "failed"}

Init == map \in [Keys -> Values \cup {None}] /\ answer = None

without(S) == [k \in Keys |-> IF k \in S THEN None ELSE map[k]]

Set(k, v) == map' = [map EXCEPT ![k] = v] /\ answer' = "ok"

\* A call that fails may lose what was held for the key.
Fails(k) == map' \in {map, without({k})} /\ answer' = "failed"

\* None is a miss or an error; either makes the caller ask the server.
Get(k) == answer' \in {map[k], None} /\ UNCHANGED map

Delete(k) == map' = without({k}) /\ answer' = "ok"

Clear == map' = without(Keys) /\ answer' = "ok"

ClearFails == (\E S \in SUBSET Keys : map' = without(S)) /\ answer' = "failed"

Lose == (\E S \in SUBSET Keys : map' = without(S)) /\ UNCHANGED answer

Next == \/ \E k \in Keys : \/ \E v \in Values : Set(k, v)
                           \/ Fails(k) \/ Get(k) \/ Delete(k)
        \/ Clear \/ ClearFails \/ Lose

Spec == Init /\ [][Next]_<<map, answer>>
=============================================================================
