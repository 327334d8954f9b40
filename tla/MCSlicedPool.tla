---------------------------- MODULE MCSlicedPool ----------------------------
(* Small instances of the sliced pool, with a history variable.            *)
EXTENDS SlicedPool

VARIABLE freed   \* the last handle of a slice was dropped during this call

MCInit == Init /\ freed = FALSE

(* Bound: only the first slice of the first page has its handle cloned.    *)
ClonesBounded == \A s \in SliceIds \ {1} : refs'[s] <= 1

MCNext ==
  /\ Next /\ ClonesBounded
  /\ freed' = /\ call'.pc # "idle"
              /\ freed \/ \E s \in SliceIds : refs[s] > 0 /\ refs'[s] = 0

MCSpec == MCInit /\ [][MCNext]_<<vars, freed>> /\ WF_vars(Serve)

(* When both passes of find_free_slice have failed and a page is to be     *)
(* allocated, no free slice would have done but for one freed during the   *)
(* search, on an excluded page, or on the page where the cursor stood      *)
(* (which the second pass does not visit again).                           *)
MissesOnlyCursorPage ==
  call.pc = "check" /\ ~InRange /\ call.pass = 2 /\ ~freed =>
    \A s \in ids : Fits(s) => slices[s].chunk \in call.exclude \cup {call.max_second}
=============================================================================
