---------------------------- MODULE WriteOnceMap ----------------------------
(* What the persistent cache promises: a map whose keys are bound at most  *)
(* once and never change, as long as nothing disturbs it.                  *)
EXTENDS Naturals

CONSTANTS Keys, Values, None

VARIABLES map, disturbed

Init == map = [k \in Keys |-> None] /\ disturbed = FALSE

Put(k, v) ==
  /\ ~disturbed'
  /\ map[k] = None
  /\ map' = [map EXCEPT ![k] = v]

(* Nothing is promised from here on.                                       *)
Disturb == disturbed'

Next == Disturb \/ \E k \in Keys, v \in Values : Put(k, v)

Spec == Init /\ [][Next]_<<map, disturbed>>
=============================================================================
