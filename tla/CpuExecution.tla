----------------------------- MODULE CpuExecution -----------------------------
(***************************************************************************)
(* Kernel launches of cubecl-cpu: the scheduler deals the units of a cube  *)
(* out to its worker threads and waits for all of them; kernels call       *)
(* sync_cube, a barrier over a static counter.                             *)
(*                                                                         *)
(* A unit runs the kernel for all cubes; what is modelled of that is how   *)
(* often it calls sync_cube. Sending to the workers does not block, so all *)
(* messages of a launch are sent in one step.                              *)
(***************************************************************************)
EXTENDS Integers, Sequences, FiniteSets

CONSTANTS
  NumWorkers,
  Dims,        \* numbers of units of a cube
  BarrierDims, \* those of kernels that call sync_cube
  Barriers     \* how often those call it

ASSUME CpuAssumption ==
  /\ NumWorkers \in Nat \ {0} /\ Barriers \in Nat
  /\ Dims \subseteq Nat \ {0} /\ BarrierDims \subseteq Dims

VARIABLES
  nbCubeToSync,  \* NB_CUBE_TO_SYNC
  cubeDim,       \* units of the launch that execute waits for, or 0
  msgCount,      \* answers it still waits for
  acks,          \* answers sent
  inbox,         \* messages of each worker
  todo,          \* units of the task each worker computes
  barriersLeft,  \* of the unit it runs
  step,          \* where that unit is
  ran            \* history: how often each unit of the last launch ran

scheduler == <<cubeDim, msgCount>>
launchVars == <<nbCubeToSync, scheduler, acks, inbox, todo, barriersLeft, step, ran>>

Workers == 1 .. NumWorkers
EndTask == <<>>    \* any other message is the units of a task

InitLaunches ==
  /\ nbCubeToSync = -1 /\ cubeDim = 0 /\ msgCount = 0 /\ acks = 0
  /\ inbox = [w \in Workers |-> <<>>] /\ todo = [w \in Workers |-> <<>>]
  /\ barriersLeft = [w \in Workers |-> 0] /\ step = [w \in Workers |-> "idle"]
  /\ ran = <<>>

-----------------------------------------------------------------------------
(* Scheduler::dispatch_execute                                             *)
ChunkSize_Floor(dim) == IF dim < NumWorkers THEN 1 ELSE dim \div NumWorkers
ChunkSize(dim) == (dim + NumWorkers - 1) \div NumWorkers

Chunk(dim, w) ==
  LET size == ChunkSize(dim)
      before == (w - 1) * size
      len == IF dim <= before THEN 0 ELSE IF dim - before < size THEN dim - before ELSE size
  IN [i \in 1 .. len |-> before + i]

Orders(chunk) == <<chunk, EndTask>>

Dispatch(dim) ==
  /\ cubeDim = 0
  /\ cubeDim' = dim
  /\ inbox' = [w \in Workers |->
       IF Chunk(dim, w) = <<>> THEN inbox[w] ELSE inbox[w] \o Orders(Chunk(dim, w))]
  /\ msgCount' = Cardinality({w \in Workers : Chunk(dim, w) # <<>>})
  /\ acks' = 0 /\ ran' = [u \in 1 .. dim |-> 0]
  /\ UNCHANGED <<nbCubeToSync, todo, barriersLeft, step>>

Receive ==
  /\ cubeDim # 0 /\ acks > 0
  /\ acks' = acks - 1 /\ msgCount' = msgCount - 1
  /\ cubeDim' = IF msgCount = 1 THEN 0 ELSE cubeDim
  /\ UNCHANGED <<nbCubeToSync, inbox, todo, barriersLeft, step, ran>>

-----------------------------------------------------------------------------
(* InnerWorker::work                                                       *)
Goto(w, s) == step' = [step EXCEPT ![w] = s]
SyncsOf(dim) == IF dim \in BarrierDims THEN Barriers ELSE 0

TakeTask(w) ==
  /\ step[w] = "idle" /\ inbox[w] # <<>> /\ Head(inbox[w]) # EndTask
  /\ todo' = [todo EXCEPT ![w] = Head(inbox[w])]
  /\ inbox' = [inbox EXCEPT ![w] = Tail(@)]
  /\ barriersLeft' = [barriersLeft EXCEPT ![w] = SyncsOf(Len(ran))]
  /\ Goto(w, "run")
  /\ UNCHANGED <<nbCubeToSync, scheduler, acks, ran>>

TakeEnd(w) ==
  /\ step[w] = "idle" /\ inbox[w] # <<>> /\ Head(inbox[w]) = EndTask
  /\ inbox' = [inbox EXCEPT ![w] = Tail(@)]
  /\ acks' = acks + 1
  /\ UNCHANGED <<nbCubeToSync, scheduler, todo, barriersLeft, step, ran>>

(* ComputeTask::compute: the unit at the head ran to its end.              *)
EndUnit(w) ==
  /\ step[w] = "run" /\ barriersLeft[w] = 0
  /\ ran' = [ran EXCEPT ![Head(todo[w])] = @ + 1]
  /\ todo' = [todo EXCEPT ![w] = Tail(@)]
  /\ barriersLeft' = [barriersLeft EXCEPT ![w] = SyncsOf(Len(ran))]
  /\ Goto(w, IF Len(todo[w]) = 1 THEN "idle" ELSE "run")
  /\ UNCHANGED <<nbCubeToSync, scheduler, acks, inbox>>

-----------------------------------------------------------------------------
(* sync_cube, one step per access to the counter                           *)
syncUnchanged == UNCHANGED <<scheduler, acks, inbox, todo, ran>>

Arrive(w) ==
  /\ step[w] = "run" /\ barriersLeft[w] > 0
  /\ Goto(w, IF nbCubeToSync = -1 THEN "store" ELSE "count")
  /\ UNCHANGED <<nbCubeToSync, barriersLeft>> /\ syncUnchanged

Others_All(dim) == dim
Others(dim) == dim - 1

Store(w) ==
  /\ step[w] = "store"
  /\ nbCubeToSync' = Others(Len(ran))
  /\ Goto(w, "spin")
  /\ UNCHANGED barriersLeft /\ syncUnchanged

(* fetch_sub(-1)                                                           *)
Count(w) ==
  /\ step[w] = "count"
  /\ nbCubeToSync' = nbCubeToSync - (-1)
  /\ Goto(w, "spin")
  /\ UNCHANGED barriersLeft /\ syncUnchanged

Passed(w) == barriersLeft' = [barriersLeft EXCEPT ![w] = @ - 1]

Spin(w) ==
  /\ step[w] = "spin" /\ nbCubeToSync \in {0, -1}
  /\ IF nbCubeToSync = 0
     THEN Goto(w, "reset") /\ UNCHANGED barriersLeft
     ELSE Goto(w, "run") /\ Passed(w)
  /\ UNCHANGED nbCubeToSync /\ syncUnchanged

SpinOn(w) ==
  /\ step[w] = "spin" /\ nbCubeToSync \notin {0, -1}
  /\ UNCHANGED launchVars

Reset(w) ==
  /\ step[w] = "reset"
  /\ nbCubeToSync' = -1
  /\ Goto(w, "run") /\ Passed(w)
  /\ syncUnchanged

Worker(w) ==
  TakeTask(w) \/ TakeEnd(w) \/ EndUnit(w) \/ Arrive(w) \/ Store(w) \/ Count(w) \/ Spin(w)
  \/ SpinOn(w) \/ Reset(w)

NextOfLaunches == (\E dim \in Dims : Dispatch(dim)) \/ Receive \/ \E w \in Workers : Worker(w)

(* Threads that can take a step do.                                        *)
LaunchSpec ==
  /\ InitLaunches /\ [][NextOfLaunches]_launchVars
  /\ WF_launchVars(Receive) /\ \A w \in Workers : WF_launchVars(Worker(w))

-----------------------------------------------------------------------------
(* Properties                                                              *)

(* Every variable has its type.                                            *)
LaunchTypes ==
  /\ nbCubeToSync \in Nat \cup {-1} /\ cubeDim \in Dims \cup {0}
  /\ msgCount \in Nat /\ acks \in Nat
  /\ inbox \in [Workers -> Seq(Seq(Nat))] /\ todo \in [Workers -> Seq(Nat)]
  /\ barriersLeft \in [Workers -> Nat]
  /\ step \in [Workers -> {"idle", "run", "store", "count", "spin", "reset"}]
  /\ ran \in Seq(Nat)

(* A worker that computes has units to run and the end of its task behind  *)
(* it in its channel; an idle one has nothing, the end of a task, or a     *)
(* whole task before it.                                                   *)
TasksWhole ==
  \A w \in Workers :
    \/ step[w] # "idle" /\ inbox[w] = <<EndTask>> /\ todo[w] # <<>>
    \/ step[w] = "idle" /\ inbox[w] \in {<<>>, <<EndTask>>}
    \/ step[w] = "idle" /\ inbox[w][1] # EndTask /\ inbox[w] = Orders(inbox[w][1])

(* execute waits for exactly the workers that still owe it an answer, and  *)
(* as long as there are any.                                               *)
Owing == {w \in Workers : inbox[w] # <<>>}
AnswersAwaited ==
  /\ msgCount = acks + Cardinality(Owing)
  /\ cubeDim = 0 <=> msgCount = 0
  /\ cubeDim # 0 => cubeDim = Len(ran)

(* A unit of the launch either ran, once, or one worker still has it, in   *)
(* one place, however the number of units relates to that of workers.      *)
Units(w) ==
  IF step[w] # "idle" THEN todo[w]
  ELSE IF Len(inbox[w]) = 2 THEN inbox[w][1] ELSE <<>>
Has(w, u) == \E i \in DOMAIN Units(w) : Units(w)[i] = u
UnitsDealt ==
  /\ \A w \in Workers : \A i \in DOMAIN Units(w) : Units(w)[i] \in DOMAIN ran
  /\ \A w, x \in Workers : \A i \in DOMAIN Units(w), j \in DOMAIN Units(x) :
       Units(w)[i] = Units(x)[j] => w = x /\ i = j
  /\ \A u \in DOMAIN ran : ran[u] = IF \E w \in Workers : Has(w, u) THEN 0 ELSE 1

(* When execute has returned no worker touches the buffers of the launch   *)
(* any more (all are idle, with nothing left in their channels) and every  *)
(* unit of the cube ran once.                                              *)
LaunchComplete ==
  cubeDim = 0 => /\ \A w \in Workers : step[w] = "idle" /\ inbox[w] = <<>>
                 /\ \A u \in DOMAIN ran : ran[u] = 1

(* The counter is -1 when nobody is at a barrier; a unit that is alone     *)
(* finds it 0 and resets it; where units meet it never gets to 0 again.    *)
CounterInv ==
  LET syncs == SyncsOf(Len(ran))
  IN /\ \A w \in Workers : step[w] # "idle" =>
          /\ barriersLeft[w] <= syncs /\ (step[w] # "run" => barriersLeft[w] > 0)
     /\ nbCubeToSync # -1 => \E w \in Workers : step[w] \in {"count", "spin", "reset"}
     /\ Len(ran) = 1 => \A w \in Workers :
          step[w] # "count" /\ (step[w] \in {"spin", "reset"} => nbCubeToSync = 0)
     /\ Len(ran) # 1 =>
          /\ nbCubeToSync # 0
          /\ \A w \in Workers :
               /\ step[w] # "reset" /\ (step[w] \in {"count", "spin"} => nbCubeToSync # -1)
               /\ step[w] # "idle" => barriersLeft[w] = syncs
          /\ syncs # 0 => \A u \in DOMAIN ran : ran[u] = 0

(* Barriers that a unit of the launch has arrived at, and got past.        *)
Runs(w, u) == step[w] # "idle" /\ Head(todo[w]) = u
Passes(u) ==
  IF ran[u] > 0 THEN SyncsOf(Len(ran))
  ELSE IF \E w \in Workers : Runs(w, u)
  THEN SyncsOf(Len(ran)) - barriersLeft[CHOOSE w \in Workers : Runs(w, u)]
  ELSE 0
Arrivals(u) ==
  Passes(u) + IF \E w \in Workers : Runs(w, u) /\ step[w] \in {"spin", "reset"} THEN 1 ELSE 0

(* No unit gets past a barrier that another unit of its cube has not       *)
(* arrived at, whatever the order of the accesses to the counter.          *)
NoUnitPassesEarly == \A u, v \in DOMAIN ran : Passes(u) <= Arrivals(v)

(* A launch is complete when execute returns: every unit ran, once, no     *)
(* worker is left at work, and no unit went past a barrier early.          *)
LaunchInv ==
  /\ LaunchTypes /\ TasksWhole /\ AnswersAwaited /\ UnitsDealt /\ LaunchComplete
  /\ CounterInv /\ NoUnitPassesEarly

(* Every launch returns whose units need not wait for each other at a      *)
(* barrier: dispatch_execute counts the answers that come, and a unit that *)
(* is alone in its cube gets past its barriers. EveryLaunchReturns is      *)
(* about the others.                                                       *)
LaunchReturns == cubeDim # 0 /\ (cubeDim = 1 \/ SyncsOf(cubeDim) = 0) ~> cubeDim = 0

(* All units of a cube begin executing again after a barrier, as the       *)
(* description of sync_cube has it, and so every launch returns. But       *)
(* fetch_sub(-1) counts away from 0: units that meet wait forever.         *)
EveryLaunchReturns == cubeDim # 0 ~> cubeDim = 0
=============================================================================
