------------------------------- MODULE MCShared -------------------------------
(* Small instances of three systems side by side: processes that share the   *)
(* persistent cache, clients that share pages of exclusive memory, and       *)
(* workers that share the units of a launch.                                 *)
EXTENDS PersistentCache, ExclusiveMemory, MCCpuExecution

VARIABLE level  \* the system of this behaviour; the others stay where they start

(* Two pools of pages of up to 4 and 6 units, checked after every reserve    *)
(* and after every second one.                                               *)
MCPools == <<[max |-> 4, period |-> 1], [max |-> 6, period |-> 2]>>

(* A cache that nobody has used, by processes that have opened it.           *)
CacheAtRest ==
  /\ exists = TRUE /\ first = FALSE /\ disturbed = {} /\ answered = {} /\ faults = 0
  /\ file = <<>> /\ lock = Absent
  /\ pc = [p \in Procs |-> "idle"] /\ op = [p \in Procs |-> Load]
  /\ mem = [p \in Procs |-> Empty] /\ cursor = [p \in Procs |-> 0]
  /\ result = [p \in Procs |-> None] /\ ops = [p \in Procs |-> 0]

MCInit ==
  /\ \/ level = "cache" /\ Init
     \/ level \in {"memory", "launches"} /\ CacheAtRest
  /\ InitMemory /\ InitLaunches

(* Processes come to rest after their last operation.                        *)
AtRest ==
  /\ \A p \in Procs : pc[p] = "idle" /\ ops[p] = MaxOps
  /\ UNCHANGED vars

MCNext ==
  /\ \/ level = "cache" /\ (Next \/ AtRest) /\ UNCHANGED <<memoryVars, launchVars>>
     \/ level = "memory" /\ NextOfMemory /\ UNCHANGED <<vars, launchVars>>
     \/ level = "launches" /\ NextOfLaunches /\ UNCHANGED <<vars, memoryVars>>
  /\ UNCHANGED level

InCache(A) == level = "cache" /\ A /\ UNCHANGED <<level, memoryVars, launchVars>>
InMemory(A) == level = "memory" /\ A /\ UNCHANGED <<level, vars, launchVars>>
InLaunches(A) == level = "launches" /\ A /\ UNCHANGED <<level, vars, memoryVars>>

MCSpec ==
  /\ MCInit /\ [][MCNext]_<<level, vars, memoryVars, launchVars>>
  /\ \A p \in Procs : WF_vars(InCache(Step(p) \/ Restart(p)))
  /\ WF_vars(InCache(Expire))
  /\ WF_memoryVars(InMemory(Cleanup(FALSE)))
  /\ WF_memoryVars(InMemory(SetMode("auto")))
  /\ SF_memoryVars(InMemory(mode = "auto" /\ Reserve))
  /\ WF_launchVars(InLaunches(Receive))
  /\ \A w \in Workers : WF_launchVars(InLaunches(Worker(w)))
=============================================================================
