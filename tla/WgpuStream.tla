----------------------------- MODULE WgpuStream -----------------------------
(***************************************************************************)
(* WgpuStream and WgpuMemManager of cubecl-wgpu: tasks and copies are      *)
(* recorded, writes are queued, and a submission runs the queued writes    *)
(* BEFORE everything recorded. A page with recorded work is kept in        *)
(* pending_operations so that no write is queued to it.                    *)
(*                                                                         *)
(* The memory pools are those of SlicedPool and ExclusiveMemory; here a    *)
(* reserve takes any free slice outside the excluded pages, which covers   *)
(* both, and a slice never used stands for one on a new page. The device   *)
(* finishes tasks in order of submission. The timings of the stream are    *)
(* in QueryProfiler, its polling thread in WgpuPoll.                       *)
(***************************************************************************)
EXTENDS Integers, FiniteSets

CONSTANTS
  Slices, Pages, PageOf,  \* the slices, and the page (storage) of each
  None,
  TasksMax,               \* tasks_max
  MaxPending,             \* tasks_max * 8 in the code
  MaxTotalTasks,          \* MAX_TOTAL_TASKS, 512 in the code
  MaxBacklog              \* bound: unfinished tasks above which a wait does not time out

ASSUME StreamAssumption ==
  /\ PageOf \in [Slices -> Pages] /\ None \notin Slices
  /\ IsFiniteSet(Pages)
  /\ TasksMax \in Nat \ {0} /\ MaxPending \in Nat /\ MaxTotalTasks \in Nat \ {0}
  /\ MaxBacklog \in Nat

VARIABLES
  held,     \* slices a client has a handle of
  stream    \* the state of the stream, see Stream

vars == <<held, stream>>

Stream ==
  [pending : SUBSET Pages,       \* pending_operations
   recorded : SUBSET Slices,     \* buffers and uniforms of the tasks in the encoder
   counts : SUBSET Slices,       \* slices that those tasks are dispatched from
   late : SUBSET Slices,         \* history: recorded slices that create wrote to
   overtaken : SUBSET Slices,    \* history: other slices written to while recorded work uses them
   tasks_count : Nat,
   started : BOOLEAN,            \* SubmissionLoad is Init
   submitted : Nat,              \* tasks_count_submitted
   old : Nat, new : Nat,         \* unfinished tasks up to, and after, last_index
   overdue : BOOLEAN]            \* history: a wait for the device timed out

Init ==
  /\ held = {}
  /\ stream = [pending |-> {}, recorded |-> {}, counts |-> {}, late |-> {},
               overtaken |-> {}, tasks_count |-> 0, started |-> FALSE, submitted |-> 0,
               old |-> 0, new |-> 0, overdue |-> FALSE]

-----------------------------------------------------------------------------
(* SubmissionLoad::regulate. Every MAX_TOTAL_TASKS tasks it waits for the  *)
(* submission at which it waited, or started, the time before.             *)
Waited_Never(st, ok) == st.old
Waited(st, ok) == IF ok THEN 0 ELSE st.old
Overdue(st, ok) == IF ok THEN st.overdue ELSE TRUE

Regulate(st, ok) ==
  LET total == st.submitted + st.tasks_count
      after == st.new + st.tasks_count
  IN CASE ~st.started -> [st EXCEPT !.started = TRUE, !.old = st.tasks_count]
       [] st.started /\ total < MaxTotalTasks -> [st EXCEPT !.submitted = total, !.new = after]
       [] OTHER -> [st EXCEPT !.submitted = 0, !.new = 0, !.old = Waited(st, ok) + after,
                           !.overdue = Overdue(st, ok)]

Emptied(st) == [st EXCEPT !.pending = {}, !.recorded = {}, !.counts = {}]

Flushed(st, ok) == [Emptied(Regulate(st, ok)) EXCEPT !.tasks_count = 0]

FlushIfNeeded(st, ok) ==
  IF st.tasks_count >= TasksMax \/ Cardinality(st.pending) > MaxPending
  THEN Flushed(st, ok)
  ELSE st

(* WgpuMemManager::get_resource                                            *)
Used_Forgotten(st, slices) == st
Used(st, slices) == [st EXCEPT !.pending = @ \cup {PageOf[s] : s \in slices}]

(* copy_to_handle: a write queued ahead of what is recorded. The history   *)
(* tells apart what is written by create, which reserves the slice outside *)
(* of the pending pages, and by create_tensors, which does not.            *)
Written(st, s) ==
  [st EXCEPT !.late = @ \cup ({s} \cap st.recorded),
             !.overtaken = @ \cup ({s} \cap st.counts)]

WrittenByTensors(st, s) ==
  [st EXCEPT !.overtaken = @ \cup ({s} \cap (st.recorded \cup st.counts))]

Copied(st, s, ok) == FlushIfNeeded(Used(Written(st, s), {s}), ok)

CopiedByTensors(st, s, ok) == FlushIfNeeded(Used(WrittenByTensors(st, s), {s}), ok)

(* WgpuMemManager::reserve                                                 *)
Reservable(st, s, exclude) == s \notin held /\ (exclude => PageOf[s] \notin st.pending)

(* The outcomes of waiting for the device. An operation flushes up to      *)
(* four times but waits at most once, since it records one task.          *)
WaitOk == {TRUE} \cup {ok \in {FALSE} : stream.old + stream.new <= MaxBacklog}

-----------------------------------------------------------------------------
Create(s) ==
  /\ Reservable(stream, s, TRUE)
  /\ held' = held \cup {s}
  /\ \E ok \in WaitOk : stream' = Copied(stream, s, ok)

(* create_tensors: the tensors of a call share one slice.                  *)
CreateTensors(s) ==
  /\ Reservable(stream, s, FALSE)
  /\ held' = held \cup {s}
  /\ \E ok \in WaitOk : stream' = CopiedByTensors(stream, s, ok)

Empty(s) ==
  /\ Reservable(stream, s, FALSE)
  /\ held' = held \cup {s}
  /\ UNCHANGED stream

(* The metadata of a launch, or its scalars of one element type, if it has *)
(* any of them.                                                            *)
Uniform(st, s, ok) == IF s = None THEN st ELSE Copied(st, s, ok)

Recorded(st, slices, count) ==
  [st EXCEPT !.recorded = @ \cup slices, !.counts = @ \cup count, !.tasks_count = @ + 1]

(* WgpuStream::register. The handles of the uniforms are dropped when it   *)
(* returns; the clients' handles last until then. Each element type has a  *)
(* uniform of its own for its scalars: a launch has at most two here.      *)
Register(buffers, dispatch, info, scalar, other) ==
  /\ buffers \subseteq held
  /\ dispatch # None => dispatch \in held
  /\ other # None => scalar # None
  /\ \E ok \in WaitOk :
       LET count == {dispatch} \ {None}
           uniforms == {info, scalar, other} \ {None}
           st1 == Used(stream, count)
           st2 == Uniform(st1, info, ok)
           st3 == Uniform(st2, scalar, ok)
           st4 == Uniform(st3, other, ok)
           st5 == Used(st4, buffers \cup uniforms)
       IN /\ info # None => Reservable(st1, info, TRUE)
          /\ scalar # None => Reservable(st2, scalar, TRUE) /\ scalar # info
          /\ other # None => Reservable(st3, other, TRUE) /\ other \notin {info, scalar}
          /\ stream' = FlushIfNeeded(Recorded(st5, buffers \cup uniforms, count), ok)
  /\ UNCHANGED held

(* WgpuServer::get_resource                                                *)
GetResource(s) ==
  /\ s \in held
  /\ stream' = Used(stream, {s})
  /\ UNCHANGED held

(* flush, read_buffers and, with device timing, end_profile. The copies of *)
(* a read are recorded and submitted at once.                              *)
Flush ==
  /\ \E ok \in WaitOk : stream' = Flushed(stream, ok)
  /\ UNCHANGED held

(* sync and, with system timing, start_profile and end_profile.            *)
Sync ==
  /\ \E ok \in WaitOk : LET st == Flushed(stream, ok)
                        IN stream' = IF ok THEN [st EXCEPT !.old = 0, !.new = 0]
                                         ELSE [st EXCEPT !.overdue = TRUE]
  /\ UNCHANGED held

DropHandle(s) == s \in held /\ held' = held \ {s} /\ UNCHANGED stream

(* The device finishes a task.                                             *)
Finish ==
  /\ stream.old + stream.new > 0
  /\ stream' = IF stream.old > 0 THEN [stream EXCEPT !.old = @ - 1]
                                 ELSE [stream EXCEPT !.new = @ - 1]
  /\ UNCHANGED held

Next ==
  \/ \E s \in Slices : \/ Create(s) \/ CreateTensors(s) \/ Empty(s)
                       \/ GetResource(s) \/ DropHandle(s)
  \/ \E buffers \in SUBSET held, dispatch \in held \cup {None},
        info, scalar, other \in (Slices \ held) \cup {None} :
       Register(buffers, dispatch, info, scalar, other)
  \/ Flush \/ Sync \/ Finish

Spec == Init /\ [][Next]_vars

-----------------------------------------------------------------------------
(* Properties                                                              *)

(* Every variable has its type; no more tasks are recorded than may be.    *)
TypeOK == held \subseteq Slices /\ stream \in Stream /\ stream.tasks_count < TasksMax

(* No write of create, nor of the uniforms of a launch, overtakes the work *)
(* that should run before it: the slice written to is not a buffer of a    *)
(* task that is recorded but not submitted, although its last handle may   *)
(* be gone and the pool may have reused it.                                *)
WritesNotLate == stream.late = {}

(* Every page on which recorded tasks have buffers or uniforms is in       *)
(* pending_operations, whatever flushes the limits force in the middle of  *)
(* recording a launch.                                                     *)
PendingCovers == \A s \in stream.recorded : PageOf[s] \in stream.pending

(* The order of writes and tasks is kept: at the end of every operation no *)
(* write of create or of a launch has overtaken recorded work, and         *)
(* pending_operations cover that work.                                     *)
StreamInv == TypeOK /\ WritesNotLate /\ PendingCovers

(* The backlog of the device: whatever the clients do, the tasks submitted *)
(* and not finished are fewer than two rounds of regulation and one        *)
(* submission, as long as no wait times out.                               *)
BacklogBounded ==
  ~stream.overdue => stream.old + stream.new <= 2 * (MaxTotalTasks - 1) + TasksMax

(* A buffer that is copied to has no outstanding compute work: what a      *)
(* comment of copy_to_handle demands of every caller.                      *)
NoOutstandingWork == stream.late \cup stream.overtaken = {}
=============================================================================
