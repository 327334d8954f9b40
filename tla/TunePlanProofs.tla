--------------------------- MODULE TunePlanProofs ---------------------------
(***************************************************************************)
(* Proofs about the plan that orders the candidates of one benchmark, for  *)
(* every set of tunables and every way to list them in groups.             *)
(***************************************************************************)
EXTENDS TunePlan, FiniteSetTheorems, SequenceTheorems, WellFoundedInduction, TLAPS

-----------------------------------------------------------------------------
(* The largest of finitely many numbers                                    *)

(* A set of numbers that is not empty has a least element.                 *)
LEMMA LeastElement ==
  ASSUME NEW S \in SUBSET Nat, S # {}
  PROVE  \E x \in S : \A y \in S : x <= y
<1>1. PICK x \in S : \A y \in S : ~(<<y, x>> \in OpToRel(<, Nat))
  BY ONLY S \in SUBSET Nat, S # {}, NatLessThanWellFounded, WFMin, Zenon
<1>2. \A y \in S : ~(y < x)
  BY <1>1, Zenon DEF OpToRel
<1> QED BY <1>2

(* A finite set of numbers that is not empty has a largest one: the one    *)
(* with the fewest others above it.                                        *)
LEMMA MaxOf ==
  ASSUME NEW S \in SUBSET Nat, S # {}, IsFiniteSet(S)
  PROVE  Max(S) \in S /\ \A y \in S : y <= Max(S)
<1> DEFINE above(x) == {y \in S : y > x}
           C == {Cardinality(above(x)) : x \in S}
<1>1. \A x \in S : IsFiniteSet(above(x)) /\ Cardinality(above(x)) \in Nat
  BY Zenon, FS_Subset, FS_CardinalityType
<1>2. C \in SUBSET Nat /\ C # {} BY Zenon, <1>1
<1>3. PICK c \in C : \A d \in C : c <= d BY Zenon, <1>2, LeastElement
<1>4. PICK x \in S : c = Cardinality(above(x)) BY Zenon, <1>3
<1>5. ASSUME NEW y \in S, y > x PROVE FALSE
  <2>1. above(y) \subseteq above(x)
    <3>1. \A z \in S : z > y => z > x BY <1>5
    <3> QED BY <3>1, Zenon
  <2>2. y \in above(x) /\ y \notin above(y) BY <1>5
  <2>3. Cardinality(above(y)) <= Cardinality(above(x)) /\ Cardinality(above(y)) # Cardinality(above(x))
    BY Zenon, <1>1, <2>1, <2>2, FS_Subset
  <2>4. Cardinality(above(y)) \in C BY Zenon, <1>5
  <2> HIDE DEF above, C
  <2> QED BY <1>1, <1>3, <1>4, <1>5, <2>3, <2>4
<1>6. \A y \in S : x >= y BY <1>5
<1> QED BY <1>6, Zenon DEF Max

(* Counting stops at two.                                                  *)
LEMMA MinTwo ==
  ASSUME NEW n \in Nat
  PROVE  Min({2, n}) = IF n < 2 THEN n ELSE 2
<1> DEFINE m == IF n < 2 THEN n ELSE 2
<1>1. m \in {2, n} /\ \A y \in {2, n} : m <= y OBVIOUS
<1>2. \A x \in {2, n} : (\A y \in {2, n} : x <= y) => x = m OBVIOUS
<1> HIDE DEF m
<1>3. Min({2, n}) = m BY Zenon, <1>1, <1>2 DEF Min
<1> QED BY Zenon, <1>3 DEF m

-----------------------------------------------------------------------------
(* The plan: what a step of next leaves                                    *)

LEMMA PlanBounds ==
  /\ Priorities \in SUBSET Nat /\ IsFiniteSet(Priorities) /\ MaxTimes \in Nat
BY Zenon, PlanAssumption

LEMMA MemberType ==
  ASSUME PlanTypeOK, NEW t \in Tunables, NEW g \in Priorities, NEW w \in Priorities
  PROVE  member[t][<<g, w>>] \in 0 .. MaxTimes /\ member[t][<<g, w>>] \in Nat
BY PlanBounds DEF PlanTypeOK

LEMMA IndexType ==
  ASSUME PlanTypeOK, NEW g \in priorities, NEW w \in groups[g].priorities, NEW t \in Tunables
  PROVE  /\ g \in Priorities /\ w \in Priorities
         /\ groups[g].indices[w] \in Bag /\ groups[g].indices[w][t] \in Nat
         /\ groups[g].indices[w][t] <= MaxTimes
<1>1. g \in Priorities /\ w \in Priorities /\ groups[g].indices[w] \in Bag
  BY Zenon DEF PlanTypeOK
<1> QED BY <1>1, PlanBounds DEF Bag

(* The place next takes from, and what it takes.                           *)
LEMMA TopPlace ==
  ASSUME PlanTypeOK, priorities # {}
  PROVE  LET p == Max(priorities)
             top == Max(groups[p].priorities)
         IN  /\ p \in priorities /\ \A g \in priorities : g <= p
             /\ top \in groups[p].priorities /\ \A w \in groups[p].priorities : w <= top
             /\ Taken(p) = groups[p].indices[top] /\ Taken(p) \in Bag \ {EmptyBag}
<1> DEFINE p == Max(priorities)
           top == Max(groups[p].priorities)
<1>1. p \in priorities /\ \A g \in priorities : g <= p
  <2>1. priorities \in SUBSET Nat /\ IsFiniteSet(priorities)
    BY Zenon, PlanBounds, FS_Subset DEF PlanTypeOK
  <2> QED BY Zenon, <2>1, MaxOf
<1> HIDE DEF p
<1>2. top \in groups[p].priorities /\ \A w \in groups[p].priorities : w <= top
  <2>1. groups[p].priorities \in SUBSET Nat /\ groups[p].priorities # {} /\ IsFiniteSet(groups[p].priorities)
    BY Zenon, <1>1, PlanBounds, FS_Subset DEF PlanTypeOK
  <2> QED BY Zenon, <2>1, MaxOf
<1>3. Taken(p) = groups[p].indices[top] BY Zenon DEF Taken
<1> HIDE DEF top
<1>4. Taken(p) \in Bag \ {EmptyBag} BY Zenon, <1>1, <1>2, <1>3 DEF PlanTypeOK
<1> QED BY Zenon, <1>1, <1>2, <1>3, <1>4 DEF p, top

(* The bag after taking: counts go down to zero, never below.              *)
Left(n, taken) == IF n > taken THEN n - taken ELSE 0

LEMMA CrossedOff ==
  ASSUME NEW b \in Bag, NEW taken \in Bag
  PROVE  CrossOff(b, taken) \in Bag /\ \A t \in Tunables : CrossOff(b, taken)[t] = Left(b[t], taken[t])
<1>1. \A t \in Tunables : b[t] \in 0 .. MaxTimes /\ taken[t] \in 0 .. MaxTimes BY Zenon DEF Bag
<1>2. \A t \in Tunables : Left(b[t], taken[t]) \in 0 .. MaxTimes BY <1>1, PlanBounds DEF Left
<1> QED BY Zenon, <1>2 DEF CrossOff, Bag, Left

(* What a list is after taking: gone, or crossed off.                      *)
Survives(g, w, p, top, taken) ==
  ~(g = p /\ w = top) /\ CrossOff(groups[g].indices[w], taken) # EmptyBag

(* group_plan_next and cleanup keep exactly the lists with something left, *)
(* and the groups with such a list: counting empty lists against the       *)
(* priorities finds them.                                                  *)
LEMMA CleanupEffect ==
  ASSUME PlanTypeOK, priorities # {}, Cleanup(Pruned(Max(priorities)))
  PROVE  LET p == Max(priorities)
             top == Max(groups[p].priorities)
             kept(g) == {w \in groups[g].priorities : Survives(g, w, p, top, Taken(p))}
         IN  /\ priorities' = {g \in priorities : kept(g) # {}}
             /\ DOMAIN groups' = priorities'
             /\ \A g \in priorities' :
                  /\ groups'[g].priorities = kept(g)
                  /\ DOMAIN groups'[g].indices = kept(g)
                  /\ \A w \in kept(g) : groups'[g].indices[w] = CrossOff(groups[g].indices[w], Taken(p))
<1> DEFINE p == Max(priorities)
           top == Max(groups[p].priorities)
           plan == Pruned(p)
           kept(g) == {w \in groups[g].priorities : Survives(g, w, p, top, Taken(p))}
           gone(g) == IF g = p THEN {top} ELSE {}
<1>1. /\ DOMAIN groups = priorities
      /\ \A g \in priorities : /\ DOMAIN groups[g].indices = groups[g].priorities
                               /\ groups[g].priorities \subseteq Priorities
  BY Zenon DEF PlanTypeOK
<1>2. /\ DOMAIN plan = priorities
      /\ \A g \in priorities :
           /\ plan[g].priorities = groups[g].priorities \ gone(g)
           /\ DOMAIN plan[g].indices = groups[g].priorities \ gone(g)
           /\ \A w \in groups[g].priorities \ gone(g) :
                plan[g].indices[w] = CrossOff(groups[g].indices[w], Taken(p))
  BY Zenon, <1>1 DEF Pruned
<1>3. /\ priorities' = priorities \ EmptyGroups(plan)
      /\ groups' = [g \in DOMAIN plan \ EmptyGroups(plan) |->
           [priorities |-> plan[g].priorities \ EmptyLists(plan[g]),
            indices |-> Restrict(plan[g].indices, DOMAIN plan[g].indices \ EmptyLists(plan[g]))]]
  BY Zenon DEF Cleanup
<1> HIDE DEF plan, p, top
<1>4. \A g \in priorities :
        /\ EmptyLists(plan[g]) \subseteq plan[g].priorities
        /\ plan[g].priorities \ EmptyLists(plan[g]) = kept(g)
  BY Zenon, <1>2 DEF EmptyLists, Survives
<1>5. ASSUME NEW g \in priorities PROVE g \in EmptyGroups(plan) <=> kept(g) = {}
  <2>1. plan[g].priorities \in SUBSET Priorities BY Zenon, <1>1, <1>2
  <2>2. IsFiniteSet(plan[g].priorities) BY Zenon, <2>1, PlanBounds, FS_Subset
  <2>3. Cardinality(EmptyLists(plan[g])) = Cardinality(plan[g].priorities)
          <=> EmptyLists(plan[g]) = plan[g].priorities
    BY Zenon, <2>2, <1>4, FS_Subset
  <2>4. EmptyLists(plan[g]) = plan[g].priorities <=> kept(g) = {} BY Zenon, <1>4
  <2> QED BY Zenon, <1>2, <2>3, <2>4 DEF EmptyGroups
<1>6. priorities' = {g \in priorities : kept(g) # {}} BY Zenon, <1>3, <1>5
<1>7. DOMAIN groups' = priorities' BY Zenon, <1>2, <1>3
<1>8. ASSUME NEW g \in priorities'
      PROVE  /\ groups'[g].priorities = kept(g) /\ DOMAIN groups'[g].indices = kept(g)
             /\ \A w \in kept(g) : groups'[g].indices[w] = CrossOff(groups[g].indices[w], Taken(p))
  <2>1. g \in priorities /\ g \in DOMAIN plan \ EmptyGroups(plan) BY Zenon, <1>2, <1>3
  <2>2. groups'[g].priorities = kept(g) BY Zenon, <1>3, <1>4, <2>1
  <2>3. groups'[g].indices = [w \in DOMAIN plan[g].indices \ EmptyLists(plan[g]) |-> plan[g].indices[w]]
    BY Zenon, <1>3, <2>1 DEF Restrict
  <2>4. DOMAIN plan[g].indices \ EmptyLists(plan[g]) = kept(g) BY Zenon, <1>2, <1>4, <2>1
  <2>5. \A w \in kept(g) : w \in groups[g].priorities \ gone(g) BY Zenon DEF Survives
  <2> QED BY <1>2, <2>1, <2>2, <2>3, <2>4, <2>5
<1> QED BY Zenon, <1>6, <1>7, <1>8 DEF p, top

(* What next does, in both of its cases, with the bag it takes.            *)
BatchTakes(taken) ==
  /\ taken \in Bag
  /\ batch' = [t \in Tunables |-> First(no_groups)[t] + taken[t]]
  /\ priorities' \subseteq priorities /\ DOMAIN groups' = priorities'
  /\ \A g \in priorities' :
       /\ groups'[g].priorities \subseteq groups[g].priorities /\ groups'[g].priorities # {}
       /\ DOMAIN groups'[g].indices = groups'[g].priorities
       /\ \A w \in groups'[g].priorities :
            /\ groups'[g].indices[w] \in Bag \ {EmptyBag}
            /\ \A t \in Tunables : groups'[g].indices[w][t] = Left(groups[g].indices[w][t], taken[t])
  /\ \A g \in priorities : \A w \in groups[g].priorities : \A t \in Tunables :
       groups[g].indices[w][t] > 0 /\ taken[t] = 0 => g \in priorities' /\ w \in groups'[g].priorities
  /\ priorities = {} => taken = EmptyBag
  /\ priorities # {} =>
       /\ taken # EmptyBag
       /\ Max(priorities) \in priorities /\ \A g \in priorities : g <= Max(priorities)
       /\ LET top == Max(groups[Max(priorities)].priorities)
          IN  /\ top \in groups[Max(priorities)].priorities
              /\ \A w \in groups[Max(priorities)].priorities : w <= top
              /\ taken = groups[Max(priorities)].indices[top]

LEMMA EmptyIsBag == EmptyBag \in Bag /\ \A t \in Tunables : EmptyBag[t] = 0
BY PlanBounds DEF EmptyBag, Bag

LEMMA BatchEffect ==
  ASSUME PlanTypeOK, NextBatch
  PROVE  \E taken : BatchTakes(taken)
<1>1. CASE priorities = {}
  <2>1. batch' = First(no_groups) /\ priorities' = priorities /\ groups' = groups
    BY Zenon, <1>1 DEF NextBatch
  <2>2. First(no_groups) = [t \in Tunables |-> First(no_groups)[t] + EmptyBag[t]]
    BY EmptyIsBag DEF First
  <2>3. DOMAIN groups' = priorities' BY Zenon, <2>1 DEF PlanTypeOK
  <2>4. BatchTakes(EmptyBag) BY Zenon, <1>1, <2>1, <2>2, <2>3, EmptyIsBag DEF BatchTakes
  <2> QED BY Zenon, <2>4
<1>2. CASE priorities # {}
  <2> DEFINE p == Max(priorities)
             top == Max(groups[p].priorities)
             taken == Taken(p)
             kept(g) == {w \in groups[g].priorities : Survives(g, w, p, top, taken)}
  <2>1. /\ p \in priorities /\ \A g \in priorities : g <= p
        /\ top \in groups[p].priorities /\ \A w \in groups[p].priorities : w <= top
        /\ taken = groups[p].indices[top] /\ taken \in Bag \ {EmptyBag}
    BY Zenon, <1>2, TopPlace
  <2>2. batch' = [t \in Tunables |-> First(no_groups)[t] + taken[t]] /\ Cleanup(Pruned(p))
    BY Zenon, <1>2 DEF NextBatch
  <2>3. /\ priorities' = {g \in priorities : kept(g) # {}} /\ DOMAIN groups' = priorities'
        /\ \A g \in priorities' :
             /\ groups'[g].priorities = kept(g) /\ DOMAIN groups'[g].indices = kept(g)
             /\ \A w \in kept(g) : groups'[g].indices[w] = CrossOff(groups[g].indices[w], taken)
    BY Zenon, <1>2, <2>2, CleanupEffect
  <2> HIDE DEF p, top, taken
  <2>4. ASSUME NEW g \in priorities, NEW w \in groups[g].priorities
        PROVE  /\ CrossOff(groups[g].indices[w], taken) \in Bag
               /\ \A t \in Tunables : CrossOff(groups[g].indices[w], taken)[t] = Left(groups[g].indices[w][t], taken[t])
               /\ \A t \in Tunables : groups[g].indices[w][t] \in Nat /\ taken[t] \in Nat
    <3>1. groups[g].indices[w] \in Bag BY Zenon, <2>4 DEF PlanTypeOK
    <3>2. \A t \in Tunables : groups[g].indices[w][t] \in Nat /\ taken[t] \in Nat
      BY <2>1, <3>1, PlanBounds DEF Bag
    <3> QED BY Zenon, <2>1, <3>1, <3>2, CrossedOff
  <2>5. ASSUME NEW g \in priorities'
        PROVE  /\ groups'[g].priorities \subseteq groups[g].priorities /\ groups'[g].priorities # {}
               /\ DOMAIN groups'[g].indices = groups'[g].priorities
               /\ \A w \in groups'[g].priorities :
                    /\ groups'[g].indices[w] \in Bag \ {EmptyBag}
                    /\ \A t \in Tunables : groups'[g].indices[w][t] = Left(groups[g].indices[w][t], taken[t])
    <3>1. g \in priorities /\ kept(g) # {} /\ groups'[g].priorities = kept(g) /\ DOMAIN groups'[g].indices = kept(g)
      BY Zenon, <2>3
    <3>2. ASSUME NEW w \in kept(g)
          PROVE  /\ groups'[g].indices[w] \in Bag \ {EmptyBag}
                 /\ \A t \in Tunables : groups'[g].indices[w][t] = Left(groups[g].indices[w][t], taken[t])
      <4>1. w \in groups[g].priorities /\ CrossOff(groups[g].indices[w], taken) # EmptyBag BY Zenon DEF Survives
      <4>2. groups'[g].indices[w] = CrossOff(groups[g].indices[w], taken) BY Zenon, <2>3
      <4> QED BY <2>4, <3>1, <4>1, <4>2
    <3> HIDE DEF kept
    <3>3. kept(g) \subseteq groups[g].priorities BY Zenon DEF kept
    <3> QED BY Zenon, <3>1, <3>2, <3>3
  <2>6. ASSUME NEW g \in priorities, NEW w \in groups[g].priorities, NEW t \in Tunables,
               groups[g].indices[w][t] > 0, taken[t] = 0
        PROVE  g \in priorities' /\ w \in groups'[g].priorities
    <3>1. CrossOff(groups[g].indices[w], taken)[t] > 0 BY <2>4, <2>6 DEF Left
    <3>2. CrossOff(groups[g].indices[w], taken) # EmptyBag BY <3>1, EmptyIsBag
    <3>3. ~(g = p /\ w = top) BY <2>1, <2>6
    <3>4. w \in kept(g) BY Zenon, <3>2, <3>3 DEF Survives
    <3> QED BY Zenon, <2>3, <3>4
  <2>7. BatchTakes(taken)
    <3>1. priorities' \subseteq priorities BY Zenon, <2>3
    <3> HIDE DEF kept
    <3>2. taken \in Bag /\ taken # EmptyBag BY Zenon, <2>1
    <3>3. taken = groups[Max(priorities)].indices[Max(groups[Max(priorities)].priorities)] /\ p = Max(priorities)
          /\ top = Max(groups[Max(priorities)].priorities)
      BY Zenon, <2>1 DEF p, top
    <3> QED BY <1>2, <2>1, <2>2, <2>3, <2>5, <2>6, <3>1, <3>2, <3>3, Zenon DEF BatchTakes
  <2> QED BY Zenon, <2>7
<1> QED BY Zenon, <1>1, <1>2

-----------------------------------------------------------------------------
(* The plan: the invariant                                                 *)

(* Once at each place: at most one.                                        *)
LEMMA OnceOrNever ==
  ASSUME PlanTypeOK, NEW t \in Tunables, ListedOnce(t), NEW g \in Priorities, NEW w \in Priorities
  PROVE  member[t][<<g, w>>] \in {0, 1}
BY MemberType DEF ListedOnce, Places

LEMMA PlanInit == InitPlan => PlanInv
<1> SUFFICES ASSUME InitPlan PROVE PlanInv BY Zenon
<1>1. /\ member \in [Tunables -> [Priorities \X Priorities -> 0 .. MaxTimes]]
      /\ phase = "plan" /\ batch = EmptyBag /\ ok = {} /\ tried = [t \in Tunables |-> 0]
  BY Zenon DEF InitPlan
<1>2. /\ priorities = {g \in Priorities : \E t \in Tunables : \E w \in Priorities : <<g, w>> \in Places(t)}
      /\ no_groups = {t \in Tunables : Places(t) = {}}
      /\ DOMAIN groups = priorities
      /\ \A g \in priorities :
           /\ groups[g].priorities = {w \in Priorities : \E t \in Tunables : <<g, w>> \in Places(t)}
           /\ DOMAIN groups[g].indices = groups[g].priorities
           /\ \A w \in groups[g].priorities : groups[g].indices[w] = [t \in Tunables |-> member[t][<<g, w>>]]
  BY Zenon DEF InitPlan, NewPlan
<1>3. \A t \in Tunables, g, w \in Priorities : member[t][<<g, w>>] \in 0 .. MaxTimes /\ member[t][<<g, w>>] \in Nat
  BY <1>1, PlanBounds
<1>4. \A t \in Tunables, g, w \in Priorities : <<g, w>> \in Places(t) <=> member[t][<<g, w>>] > 0
  BY Zenon DEF Places
<1>5. PlanTypeOK
  <2>1. ASSUME NEW g \in priorities
        PROVE  /\ groups[g].priorities \subseteq Priorities /\ groups[g].priorities # {}
               /\ \A w \in groups[g].priorities : groups[g].indices[w] \in Bag \ {EmptyBag}
    <3>1. groups[g].priorities \subseteq Priorities /\ groups[g].priorities # {} /\ g \in Priorities
      BY Zenon, <1>2
    <3>2. ASSUME NEW w \in groups[g].priorities PROVE groups[g].indices[w] \in Bag \ {EmptyBag}
      <4>1. groups[g].indices[w] = [t \in Tunables |-> member[t][<<g, w>>]] BY Zenon, <1>2
      <4>2. PICK t \in Tunables : member[t][<<g, w>>] > 0
        <5>1. w \in Priorities /\ \E t \in Tunables : <<g, w>> \in Places(t) BY <1>2, Zenon
        <5> QED BY Zenon, <1>4, <3>1, <5>1
      <4>3. groups[g].indices[w] # EmptyBag BY <4>1, <4>2, EmptyIsBag
      <4> QED BY <1>3, <3>1, <4>1, <4>3 DEF Bag
    <3> QED BY Zenon, <3>1, <3>2
  <2>2. priorities \subseteq Priorities /\ no_groups \subseteq Tunables BY Zenon, <1>2
  <2>3. batch \in [Tunables -> Nat] BY Zenon, <1>1 DEF EmptyBag
  <2>4. tried \in [Tunables -> 0 .. 2] /\ ok \subseteq Tunables /\ phase \in {"plan", "bench", "done", "panic"}
    BY <1>1
  <2> QED BY <1>1, <1>2, <2>1, <2>2, <2>3, <2>4, Zenon DEF PlanTypeOK
<1>6. \A t \in Tunables : ~TakenOut(t) BY <1>1 DEF TakenOut
<1>7. ListsMatch
  <2> SUFFICES ASSUME NEW t \in Tunables
               PROVE  /\ \A g, w \in Priorities : member[t][<<g, w>>] > 0 =>
                           /\ g \in priorities /\ w \in groups[g].priorities
                           /\ groups[g].indices[w][t] = member[t][<<g, w>>]
                      /\ t \in no_groups <=> Places(t) = {}
                      /\ \A g \in priorities : \A w \in groups[g].priorities :
                           groups[g].indices[w][t] <= member[t][<<g, w>>]
    BY Zenon, <1>6 DEF ListsMatch
  <2>1. \A g, w \in Priorities : member[t][<<g, w>>] > 0 => g \in priorities /\ w \in groups[g].priorities
    BY Zenon, <1>2, <1>4
  <2>2. \A g \in priorities : \A w \in groups[g].priorities :
          g \in Priorities /\ w \in Priorities /\ groups[g].indices[w][t] = member[t][<<g, w>>]
    <3> TAKE g \in priorities
    <3> TAKE w \in groups[g].priorities
    <3>1. g \in Priorities /\ w \in Priorities BY <1>2, Zenon
    <3>2. groups[g].indices[w] = [u \in Tunables |-> member[u][<<g, w>>]] BY <1>2, Zenon
    <3> QED BY <3>1, <3>2, Zenon
  <2>3. t \in no_groups <=> Places(t) = {} BY <1>2, Zenon
  <2>4. \A g \in priorities : \A w \in groups[g].priorities : groups[g].indices[w][t] <= member[t][<<g, w>>]
    <3> TAKE g \in priorities
    <3> TAKE w \in groups[g].priorities
    <3>1. groups[g].indices[w][t] = member[t][<<g, w>>] /\ member[t][<<g, w>>] \in Nat BY <1>3, <2>2, Zenon
    <3> QED BY <3>1
  <2> QED BY <2>1, <2>2, <2>3, <2>4, Zenon
<1>8. BatchIsTop /\ BenchmarkedOnce /\ GivesUpLast BY <1>1 DEF BatchIsTop, BenchmarkedOnce, GivesUpLast
<1> QED BY Zenon, <1>5, <1>7, <1>8 DEF PlanInv

LEMMA NextBatchStep ==
  ASSUME PlanInv, NextBatch
  PROVE  PlanInv'
<1> USE DEF PlanInv
<1>1. PICK taken : BatchTakes(taken) BY Zenon, BatchEffect
<1>2. /\ phase = "plan" /\ no_groups' = {} /\ phase' = (IF batch' = EmptyBag THEN "panic" ELSE "bench")
      /\ member' = member /\ tried' = tried /\ ok' = ok
  BY Zenon DEF NextBatch, NoGroupsLeft
<1>3. \A t \in Tunables : taken[t] \in Nat /\ tried[t] \in Nat
  BY <1>1, PlanBounds DEF BatchTakes, Bag, PlanTypeOK
<1>4. \A t \in Tunables :
        /\ batch'[t] = (IF t \in no_groups THEN 1 ELSE 0) + taken[t]
        /\ batch'[t] > 0 <=> t \in no_groups \/ taken[t] > 0
  BY <1>1, <1>3 DEF BatchTakes, First
<1>5. batch' \in [Tunables -> Nat] BY <1>1, <1>3 DEF BatchTakes, First
<1>6. \A t \in Tunables : TakenOut(t) <=> tried[t] > 0 BY Zenon, <1>2 DEF TakenOut
<1>7. \A t \in Tunables : TakenOut(t)' <=> tried[t] > 0 \/ t \in no_groups \/ taken[t] > 0
  <2>1. CASE batch' = EmptyBag
    <3>1. \A t \in Tunables : ~(batch'[t] > 0) BY <2>1, EmptyIsBag
    <3> QED BY Zenon, <1>2, <1>4, <2>1, <3>1 DEF TakenOut
  <2>2. CASE batch' # EmptyBag BY Zenon, <1>2, <1>4, <2>2 DEF TakenOut
  <2> QED BY Zenon, <2>1, <2>2
<1>8. \A t \in Tunables : Places(t)' = Places(t) /\ ListedOnce(t)' = ListedOnce(t)
  BY Zenon, <1>2 DEF Places, ListedOnce
<1>9. PlanTypeOK'
  <2>1. priorities' \subseteq priorities /\ DOMAIN groups' = priorities'
        /\ \A g \in priorities' :
             /\ groups'[g].priorities \subseteq groups[g].priorities /\ groups'[g].priorities # {}
             /\ DOMAIN groups'[g].indices = groups'[g].priorities
             /\ \A w \in groups'[g].priorities : groups'[g].indices[w] \in Bag \ {EmptyBag}
    BY Zenon, <1>1 DEF BatchTakes
  <2> QED BY Zenon, <1>2, <1>5, <2>1 DEF PlanTypeOK
<1>10. ASSUME NEW t \in Tunables, ~TakenOut(t)', NEW g \in Priorities, NEW w \in Priorities, member[t][<<g, w>>] > 0
       PROVE  g \in priorities' /\ w \in groups'[g].priorities /\ groups'[g].indices[w][t] = member[t][<<g, w>>]
  <2>1. ~TakenOut(t) /\ taken[t] = 0 BY <1>3, <1>6, <1>7, <1>10
  <2>2. g \in priorities /\ w \in groups[g].priorities /\ groups[g].indices[w][t] = member[t][<<g, w>>]
    BY <1>10, <2>1 DEF ListsMatch
  <2>3. g \in priorities' /\ w \in groups'[g].priorities BY Zenon, <1>1, <1>10, <2>1, <2>2 DEF BatchTakes
  <2>4. groups'[g].indices[w][t] = Left(groups[g].indices[w][t], taken[t]) BY <1>1, <2>3 DEF BatchTakes
  <2> QED BY <1>10, <2>1, <2>2, <2>3, <2>4, MemberType DEF Left
<1>11. ASSUME NEW t \in Tunables, Places(t) = {}, ~TakenOut(t)' PROVE FALSE
  BY Zenon, <1>6, <1>7, <1>11 DEF ListsMatch
<1>12. ASSUME NEW t \in Tunables, NEW g \in priorities', NEW w \in groups'[g].priorities
       PROVE  /\ groups'[g].indices[w][t] <= member[t][<<g, w>>]
              /\ TakenOut(t)' /\ ListedOnce(t) => groups'[g].indices[w][t] = 0
  <2>1. g \in priorities /\ w \in groups[g].priorities /\ groups'[g].indices[w][t] = Left(groups[g].indices[w][t], taken[t])
    BY <1>1 DEF BatchTakes
  <2>2. groups[g].indices[w][t] \in Nat /\ g \in Priorities /\ w \in Priorities BY Zenon, <2>1, IndexType
  <2>3. member[t][<<g, w>>] \in Nat BY Zenon, <2>2, MemberType
  <2>4. groups[g].indices[w][t] <= member[t][<<g, w>>] BY Zenon, <2>1 DEF ListsMatch
  <2>5. ASSUME TakenOut(t)', ListedOnce(t) PROVE groups'[g].indices[w][t] = 0
    <3>1. member[t][<<g, w>>] \in {0, 1} BY Zenon, <2>2, <2>5, OnceOrNever
    <3>2. CASE tried[t] > 0
      <4>1. groups[g].indices[w][t] = 0 BY Zenon, <1>6, <2>1, <2>5, <3>2 DEF ListsMatch
      <4> QED BY <1>3, <2>1, <4>1 DEF Left
    <3>3. CASE t \in no_groups
      <4>1. Places(t) = {} BY Zenon, <3>3 DEF ListsMatch
      <4>2. member[t][<<g, w>>] = 0 BY <4>1, <2>2, <2>3 DEF Places
      <4> QED BY <1>3, <2>1, <2>2, <2>4, <4>2 DEF Left
    <3>4. CASE taken[t] > 0 BY <1>3, <2>1, <2>2, <2>4, <3>1, <3>4 DEF Left
    <3> QED BY Zenon, <1>7, <2>5, <3>2, <3>3, <3>4
  <2> QED BY SMTT(20), <1>3, <2>1, <2>2, <2>3, <2>4, <2>5 DEF Left
<1>13. ListsMatch'
  <2>1. \A t \in Tunables : t \notin no_groups' BY Zenon, <1>2
  <2> QED BY <1>2, <1>8, <1>10, <1>11, <1>12, <2>1 DEF ListsMatch
<1>14. ASSUME NEW t \in Tunables, ListedOnce(t), taken[t] > 0
       PROVE  /\ priorities # {} /\ tried[t] = 0 /\ t \notin no_groups /\ taken[t] = 1
              /\ <<Max(priorities), Max(groups[Max(priorities)].priorities)>> \in Places(t)
  <2> DEFINE p == Max(priorities)
             top == Max(groups[p].priorities)
  <2>1. priorities # {} BY <1>1, <1>14, EmptyIsBag DEF BatchTakes
  <2>2. p \in priorities /\ top \in groups[p].priorities /\ taken = groups[p].indices[top]
    BY Zenon, <1>1, <2>1 DEF BatchTakes
  <2> HIDE DEF p, top
  <2>3. p \in Priorities /\ top \in Priorities BY Zenon, <2>2, IndexType
  <2>4. taken[t] <= member[t][<<p, top>>] BY Zenon, <2>2 DEF ListsMatch
  <2>5. member[t][<<p, top>>] = 1 /\ taken[t] = 1 BY <1>3, <1>14, <2>3, <2>4, OnceOrNever
  <2>6. <<p, top>> \in Places(t) BY <2>3, <2>5 DEF Places
  <2>7. ~TakenOut(t)
    <3>1. TakenOut(t) => taken[t] = 0 BY <1>14, <2>2, Zenon DEF ListsMatch
    <3> QED BY <1>14, <3>1
  <2>8. t \notin no_groups BY Zenon, <2>6 DEF ListsMatch
  <2> QED BY <1>3, <1>6, <2>1, <2>5, <2>6, <2>7, <2>8 DEF p, top
<1>15. BenchmarkedOnce'
  <2> SUFFICES ASSUME NEW t \in Tunables, ListedOnce(t)
               PROVE  tried[t] <= 1 /\ (batch'[t] > 0 => batch'[t] = 1 /\ tried[t] = 0)
    BY Zenon, <1>2, <1>8 DEF BenchmarkedOnce
  <2>1. tried[t] <= 1 BY Zenon DEF BenchmarkedOnce
  <2>2. CASE taken[t] > 0 BY <1>4, <1>14, <2>1, <2>2
  <2>3. CASE taken[t] = 0
    <3>1. t \in no_groups => tried[t] = 0 BY <1>3, <1>6 DEF ListsMatch
    <3> QED BY <1>4, <2>1, <2>3, <3>1
  <2> QED BY <1>3, <2>2, <2>3
<1>16. BatchIsTop'
  <2> SUFFICES ASSUME \A t \in Tunables : ListedOnce(t)
               PROVE  Members(batch') = {t \in Untried : Places(t) = {} \/ Places(t) \cap BestPlaces # {}}
    <3>1. Untried' = Untried BY Zenon, <1>2 DEF Untried
    <3>2. BestPlaces' = BestPlaces BY <1>8, <3>1 DEF BestPlaces, Untried
    <3> QED BY Zenon, <1>8, <3>1, <3>2 DEF BatchIsTop, Members, Untried
  <2>1. \A t \in Tunables : t \in no_groups <=> t \in Untried /\ Places(t) = {}
    BY <1>3, <1>6 DEF ListsMatch, Untried
  <2>2. ASSUME NEW t \in Tunables PROVE taken[t] > 0 <=> t \in Untried /\ Places(t) \cap BestPlaces # {}
    <3>1. CASE priorities = {}
      <4>1. ~(taken[t] > 0) BY <1>1, <3>1, EmptyIsBag DEF BatchTakes
      <4>2. t \in Untried => Places(t) = {}
        BY <1>6, <3>1, MemberType DEF ListsMatch, Untried, Places
      <4> QED BY Zenon, <4>1, <4>2
    <3>2. CASE priorities # {}
      <4> DEFINE p == Max(priorities)
                 top == Max(groups[p].priorities)
      <4>1. /\ p \in priorities /\ \A g \in priorities : g <= p
            /\ top \in groups[p].priorities /\ \A w \in groups[p].priorities : w <= top
            /\ taken = groups[p].indices[top] /\ taken # EmptyBag
        BY Zenon, <1>1, <3>2 DEF BatchTakes
      <4>2. \A u \in Tunables : taken[u] > 0 => u \in Untried /\ <<p, top>> \in Places(u)
        BY Zenon, <1>14 DEF Untried
      <4> HIDE DEF p, top
      <4>3. PICK u \in Tunables : taken[u] > 0
        <5> SUFFICES ASSUME \A u \in Tunables : taken[u] = 0 PROVE FALSE BY <1>3
        <5>1. taken = EmptyBag BY Zenon, <1>1 DEF BatchTakes, Bag, EmptyBag
        <5> QED BY Zenon, <4>1, <5>1
      <4>4. ASSUME NEW v \in Untried, NEW b \in Places(v)
            PROVE  b[1] \in priorities /\ b[2] \in groups[b[1]].priorities /\ b = <<b[1], b[2]>>
        <5>1. b \in Priorities \X Priorities /\ member[v][b] > 0 /\ v \in Tunables BY Zenon, <4>4 DEF Places, Untried
        <5>2. b = <<b[1], b[2]>> /\ b[1] \in Priorities /\ b[2] \in Priorities BY <5>1
        <5>3. ~TakenOut(v) BY <1>6, <4>4 DEF Untried
        <5> QED BY Zenon, <5>1, <5>2, <5>3 DEF ListsMatch
      <4>5. \A v \in Untried : \A b \in Places(v) : Above(<<p, top>>, b)
        <5> SUFFICES ASSUME NEW v \in Untried, NEW b \in Places(v) PROVE Above(<<p, top>>, b) BY Zenon
        <5>1. b[1] \in priorities /\ b[2] \in groups[b[1]].priorities BY Zenon, <4>4
        <5>2. b[1] \in Nat /\ p \in Nat /\ b[2] \in Nat /\ top \in Nat
          BY Zenon, <4>1, <5>1, PlanBounds DEF PlanTypeOK
        <5> QED BY <4>1, <5>1, <5>2 DEF Above
      <4>6. \A v \in Untried : \A b \in Places(v) : Above(b, <<p, top>>) => b = <<p, top>>
        <5> SUFFICES ASSUME NEW v \in Untried, NEW b \in Places(v), Above(b, <<p, top>>) PROVE b = <<p, top>> BY Zenon
        <5>1. b[1] \in priorities /\ b[2] \in groups[b[1]].priorities /\ b = <<b[1], b[2]>> BY Zenon, <4>4
        <5>2. b[1] \in Nat /\ p \in Nat /\ b[2] \in Nat /\ top \in Nat
          BY Zenon, <4>1, <5>1, PlanBounds DEF PlanTypeOK
        <5>3. b[1] = p BY <4>1, <5>1, <5>2 DEF Above
        <5>4. b[2] = top BY <4>1, <5>1, <5>2, <5>3 DEF Above
        <5> QED BY Zenon, <5>1, <5>3, <5>4
      <4>7. BestPlaces = {<<p, top>>}
        <5>1. <<p, top>> \in BestPlaces BY Zenon, <4>2, <4>3, <4>5 DEF BestPlaces
        <5>2. \A b \in BestPlaces : b = <<p, top>> BY <4>2, <4>3, <4>6 DEF BestPlaces
        <5> QED BY Zenon, <5>1, <5>2
      <4>8. ASSUME t \in Untried, <<p, top>> \in Places(t) PROVE taken[t] > 0
        <5>1. ~TakenOut(t) BY <1>6, <4>8 DEF Untried
        <5>2. p \in Priorities /\ top \in Priorities /\ member[t][<<p, top>>] > 0 BY Zenon, <4>8 DEF Places
        <5> QED BY <4>1, <5>1, <5>2 DEF ListsMatch
      <4> QED BY Zenon, <4>2, <4>7, <4>8
    <3> QED BY Zenon, <3>1, <3>2
  <2> QED BY Zenon, <1>4, <2>1, <2>2 DEF Members, Untried
<1>17. GivesUpLast'
  <2>1. ok' = {} BY Zenon, <1>2 DEF GivesUpLast
  <2>2. ASSUME phase' = "panic", NEW t \in Tunables, tried[t] = 0 PROVE FALSE
    <3>1. batch' = EmptyBag BY Zenon, <1>2, <2>2
    <3>2. \A u \in Tunables : taken[u] = 0 /\ u \notin no_groups BY <1>3, <1>4, <3>1, EmptyIsBag
    <3>3. taken = EmptyBag BY Zenon, <1>1, <3>2 DEF BatchTakes, Bag, EmptyBag
    <3>4. priorities = {} BY Zenon, <1>1, <3>3 DEF BatchTakes
    <3>5. ~TakenOut(t) BY <1>6, <2>2
    <3>6. Places(t) = {} BY <3>4, <3>5 DEF ListsMatch, Places
    <3> QED BY Zenon, <3>2, <3>5, <3>6 DEF ListsMatch
  <2> QED BY Zenon, <1>2, <2>1, <2>2 DEF GivesUpLast, Untried
<1> QED BY Zenon, <1>9, <1>13, <1>15, <1>16, <1>17

LEMMA BenchmarkStep ==
  ASSUME PlanInv, Benchmark
  PROVE  PlanInv'
<1> USE DEF PlanInv
<1>1. /\ phase = "bench" /\ phase' \in {"plan", "done"} /\ (phase' = "plan" => ok' = {})
      /\ ok' \subseteq Tunables
      /\ tried' = [t \in Tunables |-> Min({2, tried[t] + batch[t]})]
      /\ member' = member /\ priorities' = priorities /\ no_groups' = no_groups /\ groups' = groups /\ batch' = batch
  BY Zenon DEF Benchmark, LoopOn, planVars, Members
<1>2. \A t \in Tunables : tried[t] \in Nat /\ batch[t] \in Nat /\ tried[t] <= 2 BY DEF PlanTypeOK
<1>3. \A t \in Tunables : tried'[t] = IF tried[t] + batch[t] < 2 THEN tried[t] + batch[t] ELSE 2
  BY <1>1, <1>2, MinTwo
<1>4. tried' \in [Tunables -> 0 .. 2]
  <2>1. \A t \in Tunables : tried'[t] \in 0 .. 2 BY <1>2, <1>3
  <2> QED BY Zenon, <1>1, <2>1
<1>5. PlanTypeOK' BY Zenon, <1>1, <1>4 DEF PlanTypeOK
<1>6. \A t \in Tunables : /\ TakenOut(t)' <=> TakenOut(t)
                          /\ Places(t)' = Places(t) /\ ListedOnce(t)' = ListedOnce(t)
  <2>1. \A t \in Tunables : TakenOut(t)' <=> TakenOut(t) BY <1>1, <1>2, <1>3 DEF TakenOut
  <2> QED BY Zenon, <1>1, <2>1 DEF Places, ListedOnce
<1>7. ListsMatch' BY <1>1, <1>6 DEF ListsMatch
<1>8. BatchIsTop' BY Zenon, <1>1 DEF BatchIsTop
<1>9. BenchmarkedOnce' BY <1>1, <1>2, <1>3, <1>6 DEF BenchmarkedOnce
<1>10. GivesUpLast' BY Zenon, <1>1 DEF GivesUpLast
<1> QED BY Zenon, <1>5, <1>7, <1>8, <1>9, <1>10

(* TunePlan::next and cleanup keep the plan in order for any tunables,     *)
(* groups and priorities: batches come by priority, a tunable taken from   *)
(* one list is taken from all, no empty list or group is left to unwrap,   *)
(* and the loop panics only after every tunable was tried.                 *)
THEOREM PlanFollowed == PlanSpec => []PlanInv
<1>1. PlanInv /\ [NextOfPlan]_loopVars => PlanInv'
  <2> SUFFICES ASSUME PlanInv, [NextOfPlan]_loopVars PROVE PlanInv' BY Zenon
  <2>1. CASE NextOfPlan BY Zenon, <2>1, NextBatchStep, BenchmarkStep DEF NextOfPlan
  <2>2. CASE UNCHANGED loopVars
    <3> USE <2>2 DEF loopVars, planVars, PlanInv
    <3>1. PlanTypeOK' BY Zenon DEF PlanTypeOK
    <3>2. \A t : Places(t)' = Places(t) /\ (TakenOut(t)' <=> TakenOut(t)) BY Zenon DEF Places, TakenOut
    <3>3. \A t : ListedOnce(t)' <=> ListedOnce(t) BY Zenon, <3>2 DEF ListedOnce
    <3>4. ListsMatch' BY <3>2, <3>3 DEF ListsMatch
    <3>5. BatchIsTop' BY <3>2, <3>3 DEF BatchIsTop, BestPlaces, Untried, Members
    <3>6. BenchmarkedOnce' /\ GivesUpLast' BY Zenon, <3>3 DEF BenchmarkedOnce, GivesUpLast, Untried
    <3> QED BY Zenon, <3>1, <3>4, <3>5, <3>6
  <2> QED BY Zenon, <2>1, <2>2
<1> QED BY <1>1, PlanInit, PTL DEF PlanSpec
=============================================================================
