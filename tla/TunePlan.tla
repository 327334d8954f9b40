------------------------------ MODULE TunePlan ------------------------------
(***************************************************************************)
(* The order in which autotuning tries candidates (TunePlan) and the loop  *)
(* that follows it until a candidate works (Tuner::execute_tune_plan).     *)
(*                                                                         *)
(* A tunable is a member of groups; for a key, a membership is a pair of   *)
(* the group's priority and the priority within the group. Two groups of   *)
(* one priority merge, so a tunable can be listed twice at one place:      *)
(* lists of tunables are bags.                                             *)
(***************************************************************************)
EXTENDS Integers, FiniteSets, FiniteSetsExt, Functions

CONSTANTS
  Tunables,
  Priorities,  \* of groups, and within groups
  MaxTimes     \* bound: how often a tunable is listed at one place

ASSUME PlanAssumption ==
  Priorities \subseteq Nat /\ MaxTimes \in Nat /\ IsFiniteSet(Priorities)

Bag == [Tunables -> 0 .. MaxTimes]
EmptyBag == [t \in Tunables |-> 0]
Members(b) == {t \in Tunables : b[t] > 0}

VARIABLES
  member,                        \* how often each tunable is listed at a place
  priorities, no_groups, groups, \* the plan
  phase, batch, tried, ok        \* the loop; tried counts benchmarks up to two

planVars == <<priorities, no_groups, groups>>
loopVars == <<member, planVars, phase, batch, tried, ok>>

Places(t) == {place \in Priorities \X Priorities : member[t][place] > 0}

-----------------------------------------------------------------------------
(* TunePlan::new sorts the tunables into the groups of their priorities.   *)
NewPlan ==
  /\ priorities = {g \in Priorities : \E t \in Tunables : \E w \in Priorities : <<g, w>> \in Places(t)}
  /\ no_groups = {t \in Tunables : Places(t) = {}}
  /\ groups = [g \in priorities |->
       LET within == {w \in Priorities : \E t \in Tunables : <<g, w>> \in Places(t)}
       IN  [priorities |-> within,
            indices |-> [w \in within |-> [t \in Tunables |-> member[t][<<g, w>>]]]]]

InitPlan ==
  /\ member \in [Tunables -> [Priorities \X Priorities -> 0 .. MaxTimes]]
  /\ NewPlan
  /\ phase = "plan" /\ batch = EmptyBag /\ ok = {}
  /\ tried = [t \in Tunables |-> 0]

(* group_plan_next takes the tunables of the highest priority within the   *)
(* group and crosses them off everywhere, once for each time taken.        *)
CrossOff_NotElsewhere(b, taken) == b
CrossOff(b, taken) == [t \in Tunables |-> IF b[t] > taken[t] THEN b[t] - taken[t] ELSE 0]

Taken(p) == groups[p].indices[Max(groups[p].priorities)]

Pruned(p) ==
  [g \in DOMAIN groups |->
     LET gone == IF g = p THEN {Max(groups[p].priorities)} ELSE {}
         kept == DOMAIN groups[g].indices \ gone
     IN  [priorities |-> groups[g].priorities \ gone,
          indices |-> [w \in kept |-> CrossOff(groups[g].indices[w], Taken(p))]]]

(* cleanup drops the lists that became empty, and the groups without any   *)
(* other list.                                                             *)
EmptyLists(group) == {w \in DOMAIN group.indices : group.indices[w] = EmptyBag}

EmptyGroups(plan) ==
  {g \in DOMAIN plan : Cardinality(EmptyLists(plan[g])) = Cardinality(plan[g].priorities)}

Cleanup(plan) ==
  /\ priorities' = priorities \ EmptyGroups(plan)
  /\ groups' = [g \in DOMAIN plan \ EmptyGroups(plan) |->
       [priorities |-> plan[g].priorities \ EmptyLists(plan[g]),
        indices |-> Restrict(plan[g].indices, DOMAIN plan[g].indices \ EmptyLists(plan[g]))]]

(* TunePlan::next: the tunables without a group come with the first batch. *)
(* The loop panics on an empty batch.                                      *)
First(S) == [t \in Tunables |-> IF t \in S THEN 1 ELSE 0]

NoGroupsLeft_Cloned == no_groups
NoGroupsLeft == {}

NextBatch ==
  /\ phase = "plan"
  /\ no_groups' = NoGroupsLeft
  /\ IF priorities = {}
     THEN batch' = First(no_groups) /\ UNCHANGED <<priorities, groups>>
     ELSE /\ batch' = [t \in Tunables |-> First(no_groups)[t] + Taken(Max(priorities))[t]]
          /\ Cleanup(Pruned(Max(priorities)))
  /\ phase' = IF batch' = EmptyBag THEN "panic" ELSE "bench"
  /\ UNCHANGED <<member, tried, ok>>

(* Every tunable of the batch is benchmarked; the loop ends when one of    *)
(* them worked.                                                            *)
LoopOn(S) == S = {}

Benchmark ==
  /\ phase = "bench"
  /\ \E S \in SUBSET Members(batch) :
       /\ ok' = S
       /\ phase' = IF LoopOn(S) THEN "plan" ELSE "done"
  /\ tried' = [t \in Tunables |-> Min({2, tried[t] + batch[t]})]
  /\ UNCHANGED <<member, planVars, batch>>

NextOfPlan == NextBatch \/ Benchmark

PlanSpec == InitPlan /\ [][NextOfPlan]_loopVars
FairPlanSpec == PlanSpec /\ WF_loopVars(NextOfPlan)

-----------------------------------------------------------------------------
(* Properties                                                              *)

(* The plan has its type, and no list or group of it is empty: next and    *)
(* cleanup unwrap what they find there.                                    *)
PlanTypeOK ==
  /\ member \in [Tunables -> [Priorities \X Priorities -> 0 .. MaxTimes]]
  /\ priorities \subseteq Priorities /\ DOMAIN groups = priorities
  /\ no_groups \subseteq Tunables
  /\ \A g \in priorities :
       /\ groups[g].priorities \subseteq Priorities
       /\ groups[g].priorities # {}
       /\ DOMAIN groups[g].indices = groups[g].priorities
       /\ \A w \in groups[g].priorities : groups[g].indices[w] \in Bag \ {EmptyBag}
  /\ phase \in {"plan", "bench", "done", "panic"}
  /\ batch \in [Tunables -> Nat] /\ tried \in [Tunables -> 0 .. 2] /\ ok \subseteq Tunables

(* The best place among those of the tunables not benchmarked yet.         *)
Untried == {t \in Tunables : tried[t] = 0}
Above(a, b) == a[1] > b[1] \/ (a[1] = b[1] /\ a[2] >= b[2])
BestPlaces ==
  LET places == UNION {Places(t) : t \in Untried}
  IN  {a \in places : \A b \in places : Above(a, b)}

(* Not listed twice at one place.                                          *)
ListedOnce(t) == \A place \in Places(t) : member[t][place] = 1

(* A batch is what the documentation of TuneGroup promises: the tunables   *)
(* with the highest priority within the highest prioritised group, of      *)
(* those not benchmarked yet, and the ungrouped ones with the first batch. *)
(* Stated for tunables listed at most once at a place.                     *)
BatchIsTop ==
  phase = "bench" /\ (\A t \in Tunables : ListedOnce(t)) =>
    Members(batch) = {t \in Untried : Places(t) = {} \/ Places(t) \cap BestPlaces # {}}

(* A tunable is benchmarked once, whatever groups it is in, unless it is   *)
(* listed more than once at one place.                                     *)
BenchmarkedOnce ==
  \A t \in Tunables : ListedOnce(t) =>
    tried[t] <= 1 /\ (phase = "bench" /\ batch[t] > 0 => batch[t] = 1 /\ tried[t] = 0)

(* The loop gives up only after every tunable was benchmarked and failed.  *)
GivesUpLast == (phase = "panic" => Untried = {}) /\ (phase # "done" => ok = {})

(* Taken out of the plan, to be benchmarked or benchmarked already.        *)
TakenOut(t) == tried[t] > 0 \/ (phase = "bench" /\ batch[t] > 0)

(* A tunable not taken out is still listed at all of its places; one taken *)
(* out, and listed once at a place, is nowhere.                            *)
ListsMatch ==
  \A t \in Tunables :
    /\ ~TakenOut(t) => \A g, w \in Priorities : member[t][<<g, w>>] > 0 =>
         /\ g \in priorities /\ w \in groups[g].priorities
         /\ groups[g].indices[w][t] = member[t][<<g, w>>]
    /\ t \in no_groups => Places(t) = {} /\ ~TakenOut(t)
    /\ Places(t) = {} /\ ~TakenOut(t) => t \in no_groups
    /\ \A g \in priorities : \A w \in groups[g].priorities :
         /\ groups[g].indices[w][t] <= member[t][<<g, w>>]
         /\ TakenOut(t) /\ ListedOnce(t) => groups[g].indices[w][t] = 0

(* next and cleanup keep the plan in order: no empty list or group is left *)
(* for a later unwrap, batches come by priority, what was taken from one   *)
(* list is taken from all, and everything is tried before the loop panics. *)
(* As it stands this is inductive.                                         *)
PlanInv == PlanTypeOK /\ ListsMatch /\ BatchIsTop /\ BenchmarkedOnce /\ GivesUpLast

(* The loop ends.                                                          *)
LoopEnds == <>(phase \in {"done", "panic"})

=============================================================================
