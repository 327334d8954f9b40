----------------------------- MODULE MCAutotune -----------------------------
(* Small instances of the two levels of autotuning side by side: behaviours *)
(* of threads that share a local tuner, and behaviours of one benchmark     *)
(* that follows its plan.                                                   *)
EXTENDS LocalTuner, TunePlan

VARIABLE level  \* the level of this behaviour; the other one is at rest

(* Bounds: only one tunable, at only one place, is listed more than once,   *)
(* and another one has at most one place.                                   *)
ListedAtMostOnce ==
  LET once == [Priorities \X Priorities -> 0 .. 1]
      single == CHOOSE t \in Tunables : t # CHOOSE u \in Tunables : TRUE
  IN  {m \in [Tunables -> once] :
         \A p, q \in Priorities \X Priorities : m[single][p] + m[single][q] = 2 => p = q}

SmallPlans ==
  LET repeated == CHOOSE t \in Tunables : TRUE
  IN  ListedAtMostOnce
      \cup {[m EXCEPT ![repeated][place] = MaxTimes] :
              m \in ListedAtMostOnce, place \in Priorities \X Priorities}

(* Bound: only one key was tuned before for an older tunable set.           *)
TunedForOlder == {k \in Keys : disk[k].old # NoIndex}

(* A plan without groups, carried out.                                      *)
PlanAtRest ==
  /\ member = [t \in Tunables |-> [place \in Priorities \X Priorities |-> 0]]
  /\ priorities = {} /\ no_groups = {} /\ groups = <<>>
  /\ phase = "done" /\ batch = EmptyBag /\ ok = {} /\ tried = [t \in Tunables |-> 1]

(* A tuner that nobody has called.                                          *)
TunerAtRest ==
  /\ platform = "native" /\ candidates = 1 /\ logging = FALSE
  /\ disk = [k \in Keys |-> [current |-> NoIndex, old |-> NoIndex]]
  /\ Init

MCInit ==
  \/ level = "tuner" /\ Init /\ PlanAtRest
     /\ TunedForOlder \subseteq {CHOOSE k \in Keys : TRUE}
  \/ level = "plan" /\ TunerAtRest /\ member \in SmallPlans /\ InitPlan

MCNext ==
  /\ \/ level = "tuner" /\ Next /\ UNCHANGED loopVars
     \/ level = "plan" /\ NextOfPlan /\ UNCHANGED vars
  /\ UNCHANGED level

MCSpec ==
  /\ MCInit /\ [][MCNext]_<<level, vars, loopVars>>
  /\ WF_vars(level = "tuner" /\ TaskEnds /\ UNCHANGED <<level, loopVars>>)
  /\ \A t \in Threads : WF_vars(level = "tuner" /\ ThreadStep(t) /\ UNCHANGED <<level, loopVars>>)
  /\ WF_loopVars(level = "plan" /\ NextOfPlan /\ UNCHANGED <<level, vars>>)
=============================================================================
