------------------------------ MODULE WgpuProofs ------------------------------
(***************************************************************************)
(* The stream of cubecl-wgpu, for every value of the constants.            *)
(*  - WgpuStream, for every set of slices and pages and all limits: it     *)
(*    never holds tasks_max tasks; pending operations cover the buffers    *)
(*    and uniforms of the recorded tasks, and no write of create or of a   *)
(*    launch overtakes them; until a wait times out, the backlog of the    *)
(*    device is bounded.                                                   *)
(*  - Its timings, for any number of profiles and readers: query sets are  *)
(*    counted exactly, there are never more of them than profiles open at  *)
(*    a time, and the polling thread never sleeps on a reader.             *)
(***************************************************************************)
EXTENDS WgpuStream, WgpuTimings, FiniteSetTheorems, TLAPS

(* Recorded work is pending and nothing was written too late.              *)
Safe(st) == st.late = {} /\ \A s \in st.recorded : PageOf[s] \in st.pending

(* The accounts of regulate: what came after last_index was counted, and   *)
(* what came before is less than a round and a submission.                 *)
Accounts(st) ==
  /\ st.submitted < MaxTotalTasks /\ st.new <= st.submitted
  /\ ~st.overdue => st.old < MaxTotalTasks + TasksMax
  /\ ~st.started => st.old = 0 /\ st.new = 0

-----------------------------------------------------------------------------
(* The operations on the stream keep its type.                             *)

(* regulate changes counters only.                                         *)
LEMMA RegulateType ==
  ASSUME NEW st \in Stream, NEW ok \in BOOLEAN
  PROVE  Regulate(st, ok) \in Stream /\ Regulate(st, ok).late = st.late
  <1> DEFINE total == st.submitted + st.tasks_count
             after == st.new + st.tasks_count
             left == Waited(st, ok) + after
             mark == Overdue(st, ok)
  <1>0. /\ total \in Nat /\ after \in Nat /\ left \in Nat
        /\ st.tasks_count \in Nat
    BY DEF Waited, Stream
  <1>4. mark \in BOOLEAN
    BY Zenon DEF Overdue, Stream
  <1> HIDE DEF total, after, left, mark
  <1>1. CASE ~st.started
    BY Zenon, <1>0, <1>1 DEF Regulate, Stream
  <1>2. CASE st.started /\ total < MaxTotalTasks
    <2>1. Regulate(st, ok) = [st EXCEPT !.submitted = total, !.new = after]
      BY Zenon, <1>2 DEF Regulate, total, after
    <2> QED BY Zenon, <2>1, <1>0 DEF Stream
  <1>3. CASE st.started /\ ~(total < MaxTotalTasks)
    <2> DEFINE mid == [st EXCEPT !.submitted = 0, !.new = 0]
               end == [mid EXCEPT !.old = left]
    <2>1. Regulate(st, ok) = [st EXCEPT !.submitted = 0, !.new = 0, !.old = left, !.overdue = mark]
      BY Zenon, <1>3 DEF Regulate, total, after, left, mark
    <2>2. mid \in Stream /\ mid.late = st.late
      BY Zenon DEF Stream
    <2>3. Regulate(st, ok) = [end EXCEPT !.overdue = mark]
      BY Zenon, <2>1 DEF Stream
    <2> HIDE DEF mid
    <2>4. end \in Stream /\ end.late = st.late
      BY Zenon, <1>0, <2>2 DEF Stream
    <2> HIDE DEF end
    <2> QED BY Zenon, <1>4, <2>3, <2>4 DEF Stream
  <1> QED BY Zenon, <1>1, <1>2, <1>3

(* A flush yields a stream with nothing recorded.                          *)
LEMMA FlushedType ==
  ASSUME NEW st \in Stream, NEW ok \in BOOLEAN
  PROVE  /\ Flushed(st, ok) \in Stream
         /\ Flushed(st, ok).tasks_count = 0
         /\ Safe(st) => Safe(Flushed(st, ok))
  <1> DEFINE re == Regulate(st, ok)
             mid == Emptied(re)
  <1>1. re \in Stream /\ re.late = st.late
    BY Zenon, RegulateType
  <1>2. Flushed(st, ok) = [mid EXCEPT !.tasks_count = 0]
    BY Zenon DEF Flushed
  <1> HIDE DEF re
  <1>3. mid \in Stream /\ mid.late = st.late /\ mid.recorded = {}
    BY Zenon, <1>1 DEF Emptied, Stream
  <1> HIDE DEF mid
  <1>4. /\ Flushed(st, ok) \in Stream /\ Flushed(st, ok).tasks_count = 0
        /\ Flushed(st, ok).late = st.late /\ Flushed(st, ok).recorded = {}
    BY <1>2, <1>3 DEF Stream
  <1> QED BY Zenon, <1>4 DEF Safe

(* flush_if_needed keeps safety and leaves fewer than tasks_max tasks.     *)
LEMMA FlushIfNeededType ==
  ASSUME NEW st \in Stream, NEW ok \in BOOLEAN
  PROVE  /\ FlushIfNeeded(st, ok) \in Stream
         /\ FlushIfNeeded(st, ok).tasks_count < TasksMax
         /\ Safe(st) => Safe(FlushIfNeeded(st, ok))
  <1>1. CASE FlushIfNeeded(st, ok) = Flushed(st, ok)
    <2>1. 0 < TasksMax
      BY StreamAssumption
    <2> QED BY Zenon, <1>1, <2>1, FlushedType
  <1>2. CASE FlushIfNeeded(st, ok) = st /\ st.tasks_count < TasksMax
    BY Zenon, <1>2
  <1> QED BY <1>1, <1>2, StreamAssumption DEF FlushIfNeeded, Stream

(* Marking pages as pending keeps safety.                                  *)
LEMMA UsedType ==
  ASSUME NEW st \in Stream, NEW slices \in SUBSET Slices
  PROVE  /\ Used(st, slices) \in Stream
         /\ Used(st, slices).tasks_count = st.tasks_count
         /\ Safe(st) => Safe(Used(st, slices))
         /\ \A s \in slices : PageOf[s] \in Used(st, slices).pending
  BY StreamAssumption DEF Used, Stream, Safe

(* The history of writes keeps the type of the stream.                     *)
LEMMA WrittenType ==
  ASSUME NEW st \in Stream, NEW s \in Slices
  PROVE  Written(st, s) \in Stream /\ WrittenByTensors(st, s) \in Stream
  <1> DEFINE late == st.late \cup ({s} \cap st.recorded)
             over == st.overtaken \cup ({s} \cap st.counts)
             both == st.overtaken \cup ({s} \cap (st.recorded \cup st.counts))
  <1>1. late \in SUBSET Slices /\ over \in SUBSET Slices /\ both \in SUBSET Slices
    BY Zenon DEF Stream
  <1>2. /\ Written(st, s) = [st EXCEPT !.late = late, !.overtaken = over]
        /\ WrittenByTensors(st, s) = [st EXCEPT !.overtaken = both]
    BY Zenon DEF Written, WrittenByTensors
  <1> HIDE DEF late, over, both
  <1> QED BY Zenon, <1>1, <1>2 DEF Stream

(* A write to a page that is not pending is not late.                      *)
LEMMA CopiedType ==
  ASSUME NEW st \in Stream, NEW s \in Slices, NEW ok \in BOOLEAN
  PROVE  /\ Copied(st, s, ok) \in Stream
         /\ Copied(st, s, ok).tasks_count < TasksMax
         /\ Safe(st) /\ PageOf[s] \notin st.pending => Safe(Copied(st, s, ok))
  <1> DEFINE mid == Written(st, s)
  <1>1. mid \in Stream
    BY Zenon, WrittenType
  <1>2. ASSUME Safe(st), PageOf[s] \notin st.pending
        PROVE  Safe(mid)
    <2>1. {s} \cap st.recorded = {}
      BY Zenon, <1>2 DEF Safe
    <2>2. /\ mid.late = st.late \cup ({s} \cap st.recorded)
          /\ mid.recorded = st.recorded /\ mid.pending = st.pending
      BY Zenon DEF Written, Stream
    <2> QED BY Zenon, <1>2, <2>1, <2>2 DEF Safe
  <1> HIDE DEF mid
  <1>3. Used(mid, {s}) \in Stream /\ (Safe(mid) => Safe(Used(mid, {s})))
    BY Zenon, <1>1, UsedType
  <1>4. Copied(st, s, ok) = FlushIfNeeded(Used(mid, {s}), ok)
    BY Zenon DEF mid, Copied
  <1> QED BY Zenon, <1>2, <1>3, <1>4, FlushIfNeededType

(* The writes of create_tensors are not counted as late.                   *)
LEMMA TensorsType ==
  ASSUME NEW st \in Stream, NEW s \in Slices, NEW ok \in BOOLEAN
  PROVE  /\ CopiedByTensors(st, s, ok) \in Stream
         /\ CopiedByTensors(st, s, ok).tasks_count < TasksMax
         /\ Safe(st) => Safe(CopiedByTensors(st, s, ok))
  <1> DEFINE mid == WrittenByTensors(st, s)
  <1>1. mid \in Stream
    BY Zenon, WrittenType
  <1>2. Safe(st) => Safe(mid)
    BY Zenon DEF WrittenByTensors, Stream, Safe
  <1> HIDE DEF mid
  <1>3. Used(mid, {s}) \in Stream /\ (Safe(mid) => Safe(Used(mid, {s})))
    BY Zenon, <1>1, UsedType
  <1>4. CopiedByTensors(st, s, ok) = FlushIfNeeded(Used(mid, {s}), ok)
    BY Zenon DEF mid, CopiedByTensors
  <1> QED BY Zenon, <1>2, <1>3, <1>4, FlushIfNeededType

(* The uniforms of a launch, where the pool may place them.                *)
LEMMA UniformType ==
  ASSUME NEW st \in Stream, st.tasks_count < TasksMax,
         NEW s \in Slices \cup {None}, NEW ok \in BOOLEAN
  PROVE  /\ Uniform(st, s, ok) \in Stream
         /\ Uniform(st, s, ok).tasks_count < TasksMax
         /\ Safe(st) /\ (s # None => PageOf[s] \notin st.pending) => Safe(Uniform(st, s, ok))
  <1>1. CASE s = None
    BY Zenon, <1>1 DEF Uniform
  <1>2. CASE s # None
    BY Zenon, <1>2, CopiedType DEF Uniform
  <1> QED BY Zenon, <1>1, <1>2

(* Recording a task whose pages are pending keeps safety.                  *)
LEMMA RecordedType ==
  ASSUME NEW st \in Stream, NEW slices \in SUBSET Slices, NEW count \in SUBSET Slices
  PROVE  /\ Recorded(st, slices, count) \in Stream
         /\ Safe(st) /\ (\A s \in slices : PageOf[s] \in st.pending)
              => Safe(Recorded(st, slices, count))
  <1> DEFINE re == Recorded(st, slices, count)
  <1>1. re \in Stream
    <2> DEFINE union == st.recorded \cup slices
               both == st.counts \cup count
               n == st.tasks_count + 1
    <2>1. union \in SUBSET Slices /\ both \in SUBSET Slices /\ n \in Nat
      BY DEF Stream
    <2>2. re = [st EXCEPT !.recorded = union, !.counts = both, !.tasks_count = n]
      BY Zenon DEF Recorded
    <2> HIDE DEF union, both, n, re
    <2> QED BY Zenon, <2>1, <2>2 DEF Stream
  <1>2. re.late = st.late /\ re.pending = st.pending /\ re.recorded = st.recorded \cup slices
    BY Zenon DEF Recorded, Stream
  <1> QED BY Zenon, <1>1, <1>2 DEF Safe

-----------------------------------------------------------------------------
(* Register keeps the type and safety.                                     *)
LEMMA RegisterStep ==
  ASSUME TypeOK, NEW buffers \in SUBSET held,
         NEW dispatch \in held \cup {None}, NEW info \in (Slices \ held) \cup {None},
         NEW scalar \in (Slices \ held) \cup {None}, NEW other \in (Slices \ held) \cup {None},
         Register(buffers, dispatch, info, scalar, other)
  PROVE  TypeOK' /\ (Safe(stream) => Safe(stream'))
  <1> DEFINE count == {dispatch} \ {None}
             uniforms == {info, scalar, other} \ {None}
             st1 == Used(stream, count)
  <1>0. PICK ok \in WaitOk :
          LET st2 == Uniform(st1, info, ok)
              st3 == Uniform(st2, scalar, ok)
              st4 == Uniform(st3, other, ok)
              st5 == Used(st4, buffers \cup uniforms)
          IN /\ info # None => Reservable(st1, info, TRUE)
             /\ scalar # None => Reservable(st2, scalar, TRUE) /\ scalar # info
             /\ other # None => Reservable(st3, other, TRUE) /\ other \notin {info, scalar}
             /\ stream' = FlushIfNeeded(Recorded(st5, buffers \cup uniforms, count), ok)
    BY Zenon DEF Register
  <1> DEFINE st2 == Uniform(st1, info, ok)
             st3 == Uniform(st2, scalar, ok)
             st4 == Uniform(st3, other, ok)
             st5 == Used(st4, buffers \cup uniforms)
             st6 == Recorded(st5, buffers \cup uniforms, count)
  <1>1. ok \in BOOLEAN /\ stream \in Stream /\ stream.tasks_count < TasksMax /\ held \subseteq Slices
    BY Zenon DEF TypeOK, WaitOk
  <1>2. count \in SUBSET Slices /\ uniforms \in SUBSET Slices /\ buffers \in SUBSET Slices
    BY Zenon, <1>1
  <1>3. /\ info # None => PageOf[info] \notin st1.pending
        /\ scalar # None => PageOf[scalar] \notin st2.pending
        /\ other # None => PageOf[other] \notin st3.pending
        /\ stream' = FlushIfNeeded(st6, ok)
    BY Zenon, <1>0 DEF Reservable
  <1> HIDE DEF count, uniforms
  <1>5. st1 \in Stream /\ st1.tasks_count < TasksMax /\ (Safe(stream) => Safe(st1))
    BY Zenon, <1>1, <1>2, UsedType
  <1> HIDE DEF st1
  <1>6. st2 \in Stream /\ st2.tasks_count < TasksMax /\ (Safe(stream) => Safe(st2))
    BY Zenon, <1>1, <1>3, <1>5, UniformType
  <1> HIDE DEF st2
  <1>7. st3 \in Stream /\ st3.tasks_count < TasksMax /\ (Safe(stream) => Safe(st3))
    BY Zenon, <1>1, <1>3, <1>6, UniformType
  <1> HIDE DEF st3
  <1>8. st4 \in Stream /\ (Safe(stream) => Safe(st4))
    BY Zenon, <1>1, <1>3, <1>7, UniformType
  <1> HIDE DEF st4
  <1>9. /\ st5 \in Stream /\ (Safe(stream) => Safe(st5))
        /\ \A s \in buffers \cup uniforms : PageOf[s] \in st5.pending
    BY Zenon, <1>2, <1>8, UsedType
  <1> HIDE DEF st5
  <1>10. st6 \in Stream /\ (Safe(stream) => Safe(st6))
    BY Zenon, <1>2, <1>9, RecordedType
  <1> HIDE DEF st6
  <1>11. stream' \in Stream /\ stream'.tasks_count < TasksMax /\ (Safe(stream) => Safe(stream'))
    BY Zenon, <1>1, <1>3, <1>10, FlushIfNeededType
  <1> QED BY Zenon, <1>1, <1>11 DEF TypeOK, Register
-----------------------------------------------------------------------------
(* Every step keeps the type and safety.                                   *)
LEMMA StepType ==
  ASSUME TypeOK, [Next]_vars
  PROVE  TypeOK' /\ (Safe(stream) => Safe(stream'))
  <1>0. held \subseteq Slices /\ stream \in Stream /\ stream.tasks_count < TasksMax
    BY Zenon DEF TypeOK
  <1>1. ASSUME NEW s \in Slices, Create(s)
        PROVE  TypeOK' /\ (Safe(stream) => Safe(stream'))
    <2>1. PICK ok \in WaitOk : stream' = Copied(stream, s, ok)
      BY Zenon, <1>1 DEF Create
    <2>2. ok \in BOOLEAN
      BY Zenon DEF WaitOk
    <2>3. held' \subseteq Slices /\ PageOf[s] \notin stream.pending
      BY Zenon, <1>0, <1>1 DEF Create, Reservable
    <2> QED BY Zenon, <1>0, <2>1, <2>2, <2>3, CopiedType DEF TypeOK
  <1>9. ASSUME NEW s \in Slices, CreateTensors(s)
        PROVE  TypeOK' /\ (Safe(stream) => Safe(stream'))
    <2>1. PICK ok \in WaitOk : stream' = CopiedByTensors(stream, s, ok)
      BY Zenon, <1>9 DEF CreateTensors
    <2>2. ok \in BOOLEAN
      BY Zenon DEF WaitOk
    <2>3. held' \subseteq Slices
      BY Zenon, <1>0, <1>9 DEF CreateTensors
    <2> QED BY Zenon, <1>0, <2>1, <2>2, <2>3, TensorsType DEF TypeOK
  <1>2. ASSUME NEW s \in Slices, Empty(s) \/ DropHandle(s)
        PROVE  TypeOK' /\ (Safe(stream) => Safe(stream'))
    BY Zenon, <1>0, <1>2 DEF Empty, DropHandle, TypeOK
  <1>3. ASSUME NEW s \in Slices, GetResource(s)
        PROVE  TypeOK' /\ (Safe(stream) => Safe(stream'))
    BY Zenon, <1>0, <1>3, UsedType DEF GetResource, TypeOK
  <1>4. ASSUME NEW buffers \in SUBSET held, NEW dispatch \in held \cup {None},
               NEW info \in (Slices \ held) \cup {None}, NEW scalar \in (Slices \ held) \cup {None},
               NEW other \in (Slices \ held) \cup {None}, Register(buffers, dispatch, info, scalar, other)
        PROVE  TypeOK' /\ (Safe(stream) => Safe(stream'))
    BY Zenon, <1>4, RegisterStep
  <1>5. ASSUME Flush
        PROVE  TypeOK' /\ (Safe(stream) => Safe(stream'))
    <2>1. PICK ok \in WaitOk : stream' = Flushed(stream, ok)
      BY Zenon, <1>5 DEF Flush
    <2>2. ok \in BOOLEAN /\ 0 < TasksMax /\ held' = held
      <3>1. ok \in BOOLEAN
        BY Zenon DEF WaitOk
      <3>2. 0 < TasksMax
        BY StreamAssumption
      <3> QED BY Zenon, <1>5, <3>1, <3>2 DEF Flush
    <2> QED BY Zenon, <1>0, <2>1, <2>2, FlushedType DEF TypeOK
  <1>6. ASSUME Sync
        PROVE  TypeOK' /\ (Safe(stream) => Safe(stream'))
    <2>1. PICK ok \in WaitOk : LET st == Flushed(stream, ok)
                               IN stream' = IF ok THEN [st EXCEPT !.old = 0, !.new = 0]
                                                        ELSE [st EXCEPT !.overdue = TRUE]
      BY Zenon, <1>6 DEF Sync
    <2> DEFINE st == Flushed(stream, ok)
    <2>2. ok \in BOOLEAN /\ 0 < TasksMax /\ held' = held
      <3>1. ok \in BOOLEAN
        BY Zenon DEF WaitOk
      <3>2. 0 < TasksMax
        BY StreamAssumption
      <3> QED BY Zenon, <1>6, <3>1, <3>2 DEF Sync
    <2>3. st \in Stream /\ st.tasks_count = 0 /\ (Safe(stream) => Safe(st))
      BY Zenon, <1>0, <2>2, FlushedType
    <2>4. stream' = IF ok THEN [st EXCEPT !.old = 0, !.new = 0]
                          ELSE [st EXCEPT !.overdue = TRUE]
      BY Zenon, <2>1
    <2> HIDE DEF st
    <2>5. stream' \in Stream /\ stream'.tasks_count = 0 /\ (Safe(stream) => Safe(stream'))
      BY Zenon, <2>3, <2>4 DEF Stream, Safe
    <2> QED BY Zenon, <1>0, <2>2, <2>5 DEF TypeOK
  <1>7. ASSUME Finish
        PROVE  TypeOK' /\ (Safe(stream) => Safe(stream'))
    <2>1. CASE stream.old > 0
      BY <1>0, <1>7, <2>1 DEF Finish, Stream, Safe, TypeOK
    <2>2. CASE ~(stream.old > 0)
      <3>1. stream.new > 0 /\ stream.old \in Nat /\ stream.new \in Nat
        BY <1>0, <1>7, <2>2 DEF Finish, Stream
      <3> QED BY <1>0, <1>7, <2>2, <3>1 DEF Finish, Stream, Safe, TypeOK
    <2> QED BY Zenon, <2>1, <2>2
  <1>8. ASSUME UNCHANGED vars
        PROVE  TypeOK' /\ (Safe(stream) => Safe(stream'))
    BY Zenon, <1>8 DEF vars, TypeOK
  <1> QED BY Zenon, <1>1, <1>2, <1>3, <1>4, <1>5, <1>6, <1>7, <1>8, <1>9 DEF Next

(* The initial stream is typed, safe and has its accounts in order.        *)
LEMMA InitStream == Init => TypeOK /\ Safe(stream) /\ Accounts(stream)
  BY StreamAssumption DEF Init, TypeOK, Stream, Safe, Accounts

(* Every variable keeps its type, and fewer than tasks_max tasks are       *)
(* recorded between any two operations.                                    *)
THEOREM StreamTyped == Spec => []TypeOK
  <1>1. TypeOK /\ [Next]_vars => TypeOK'
    BY Zenon, StepType
  <1> QED BY <1>1, InitStream, PTL DEF Spec

(* create and register never queue a write to a buffer of recorded work,   *)
(* and pending_operations cover that work, whatever else the clients call. *)
THEOREM WritesInOrder == Spec => []StreamInv
  <1> DEFINE Inv == TypeOK /\ Safe(stream)
  <1>1. Init => Inv
    BY Zenon, InitStream
  <1>2. Inv /\ [Next]_vars => Inv'
    BY Zenon, StepType
  <1>3. Inv => StreamInv
    BY Zenon DEF Safe, StreamInv, WritesNotLate, PendingCovers
  <1> QED BY <1>1, <1>2, <1>3, PTL DEF Spec
-----------------------------------------------------------------------------
(* The accounts of regulate                                                *)

(* A flush of at most tasks_max tasks keeps the accounts.                  *)
LEMMA FlushedAccounts ==
  ASSUME NEW st \in Stream, NEW ok \in BOOLEAN, Accounts(st), st.tasks_count <= TasksMax
  PROVE  Accounts(Flushed(st, ok))
  <1> DEFINE total == st.submitted + st.tasks_count
             after == st.new + st.tasks_count
             re == Regulate(st, ok)
             fl == Flushed(st, ok)
  <1>1. /\ st.submitted \in Nat /\ st.tasks_count \in Nat /\ st.new \in Nat /\ st.old \in Nat
        /\ TasksMax \in Nat /\ MaxTotalTasks \in Nat /\ 0 < MaxTotalTasks
    BY StreamAssumption DEF Stream
  <1>2. re \in Stream
    BY Zenon, RegulateType
  <1>3. /\ fl.started = re.started /\ fl.old = re.old
        /\ fl.new = re.new /\ fl.submitted = re.submitted
        /\ fl.overdue = re.overdue
    BY Zenon, <1>2 DEF Flushed, Emptied, Stream
  <1>4. CASE ~st.started
    <2>1. /\ re.started = TRUE /\ re.old = st.tasks_count
          /\ re.new = st.new /\ re.submitted = st.submitted /\ re.overdue = st.overdue
      BY Zenon, <1>4 DEF Regulate, Stream
    <2> HIDE DEF re, fl
    <2>2. Accounts(fl)
      BY <1>1, <1>3, <1>4, <2>1 DEF Accounts
    <2> QED BY Zenon, <2>2 DEF fl
  <1>5. CASE st.started /\ total < MaxTotalTasks
    <2>1. /\ re.started = TRUE /\ re.old = st.old
          /\ re.new = after /\ re.submitted = total /\ re.overdue = st.overdue
      BY Zenon, <1>5 DEF Regulate, Stream
    <2> HIDE DEF re, fl
    <2>2. Accounts(fl)
      BY <1>1, <1>3, <1>5, <2>1 DEF Accounts
    <2> QED BY Zenon, <2>2 DEF fl
  <1>6. CASE st.started /\ ~(total < MaxTotalTasks)
    <2>1. re.started = TRUE /\ re.new = 0 /\ re.submitted = 0
      BY Zenon, <1>6 DEF Regulate, Stream
    <2>2. ok => re.old = 0 + after
      BY Zenon, <1>6 DEF Regulate, Waited, Stream
    <2>3. ~ok => re.overdue = TRUE
      BY Zenon, <1>6 DEF Regulate, Overdue, Stream
    <2>4. fl.started = TRUE
      BY Zenon, <1>3, <2>1
    <2>5. ~ok => fl.overdue = TRUE
      BY Zenon, <1>3, <2>3
    <2> HIDE DEF re, fl
    <2>6. fl.submitted < MaxTotalTasks /\ fl.new <= fl.submitted
      BY <1>1, <1>3, <2>1
    <2>7. ok => fl.old < MaxTotalTasks + TasksMax
      BY <1>1, <1>3, <2>2 DEF Accounts
    <2> QED BY Zenon, <2>4, <2>5, <2>6, <2>7 DEF Accounts, fl
  <1> QED BY Zenon, <1>4, <1>5, <1>6

(* flush_if_needed keeps the accounts.                                     *)
LEMMA FlushIfNeededAccounts ==
  ASSUME NEW st \in Stream, NEW ok \in BOOLEAN, Accounts(st), st.tasks_count <= TasksMax
  PROVE  Accounts(FlushIfNeeded(st, ok))
  BY Zenon, FlushedAccounts DEF FlushIfNeeded

(* Marking pages changes none of the counters.                             *)
LEMMA UsedAccounts ==
  ASSUME NEW st \in Stream, NEW slices, Accounts(st)
  PROVE  Accounts(Used(st, slices))
  BY Zenon DEF Used, Accounts, Stream

(* A copy and the uniforms of a launch keep the accounts.                  *)
LEMMA UniformAccounts ==
  ASSUME NEW st \in Stream, NEW ok \in BOOLEAN, Accounts(st), st.tasks_count < TasksMax,
         NEW s \in Slices \cup {None}
  PROVE  Accounts(Uniform(st, s, ok)) /\ (s # None => Accounts(Copied(st, s, ok)))
  <1>1. CASE s = None
    BY Zenon, <1>1 DEF Uniform
  <1>2. CASE s # None
    <2> DEFINE mid == Written(st, s)
               end == Used(mid, {s})
    <2>1. mid \in Stream /\ mid.tasks_count = st.tasks_count /\ Accounts(mid)
      <3>1. mid \in Stream
        BY Zenon, <1>2, WrittenType
      <3> QED BY Zenon, <3>1 DEF Written, Stream, Accounts
    <2> HIDE DEF mid
    <2>2. end \in Stream /\ end.tasks_count = st.tasks_count /\ Accounts(end)
      BY Zenon, <1>2, <2>1, UsedType, UsedAccounts
    <2> HIDE DEF end
    <2>3. st.tasks_count <= TasksMax
      BY StreamAssumption DEF Stream
    <2>4. Accounts(FlushIfNeeded(end, ok))
      BY Zenon, <2>2, <2>3, FlushIfNeededAccounts
    <2> QED BY Zenon, <1>2, <2>4 DEF Uniform, Copied, mid, end
  <1> QED BY Zenon, <1>1, <1>2

(* A copy of create_tensors keeps the accounts.                            *)
LEMMA TensorsAccounts ==
  ASSUME NEW st \in Stream, NEW ok \in BOOLEAN, Accounts(st), st.tasks_count < TasksMax,
         NEW s \in Slices
  PROVE  Accounts(CopiedByTensors(st, s, ok))
  <1> DEFINE mid == WrittenByTensors(st, s)
             end == Used(mid, {s})
  <1>1. mid \in Stream /\ mid.tasks_count = st.tasks_count /\ Accounts(mid)
    <2>1. mid \in Stream
      BY Zenon, WrittenType
    <2> QED BY Zenon, <2>1 DEF WrittenByTensors, Stream, Accounts
  <1> HIDE DEF mid
  <1>2. end \in Stream /\ end.tasks_count = st.tasks_count /\ Accounts(end)
    BY Zenon, <1>1, UsedType, UsedAccounts
  <1> HIDE DEF end
  <1>3. st.tasks_count <= TasksMax
    BY StreamAssumption DEF Stream
  <1>4. Accounts(FlushIfNeeded(end, ok))
    BY Zenon, <1>2, <1>3, FlushIfNeededAccounts
  <1> QED BY Zenon, <1>4 DEF CopiedByTensors, mid, end

(* Every step keeps the accounts.                                          *)
LEMMA StepAccounts ==
  ASSUME TypeOK, Accounts(stream), [Next]_vars
  PROVE  Accounts(stream')
  <1>0. /\ held \subseteq Slices /\ stream \in Stream /\ stream.tasks_count < TasksMax
        /\ stream.tasks_count <= TasksMax
    BY StreamAssumption DEF TypeOK, Stream
  <1>a. WaitOk \subseteq BOOLEAN
    BY Zenon DEF WaitOk
  <1>1. ASSUME NEW s \in Slices, Create(s)
        PROVE  Accounts(stream')
    <2>1. PICK ok \in BOOLEAN : stream' = Copied(stream, s, ok)
      BY Zenon, <1>a, <1>1 DEF Create
    <2>2. s # None
      BY Zenon, StreamAssumption
    <2> QED BY Zenon, <1>0, <2>1, <2>2, UniformAccounts
  <1>8. ASSUME NEW s \in Slices, CreateTensors(s)
        PROVE  Accounts(stream')
    <2>1. PICK ok \in BOOLEAN : stream' = CopiedByTensors(stream, s, ok)
      BY Zenon, <1>a, <1>8 DEF CreateTensors
    <2> QED BY Zenon, <1>0, <2>1, TensorsAccounts
  <1>2. ASSUME NEW s \in Slices, Empty(s) \/ DropHandle(s) \/ GetResource(s)
        PROVE  Accounts(stream')
    BY Zenon, <1>0, <1>2, UsedAccounts DEF Empty, DropHandle, GetResource
  <1>3. ASSUME NEW buffers \in SUBSET held, NEW dispatch \in held \cup {None},
               NEW info \in (Slices \ held) \cup {None}, NEW scalar \in (Slices \ held) \cup {None},
               NEW other \in (Slices \ held) \cup {None}, Register(buffers, dispatch, info, scalar, other)
        PROVE  Accounts(stream')
    <2>0. PICK ok \in BOOLEAN :
             LET count == {dispatch} \ {None}
                 uniforms == {info, scalar, other} \ {None}
                 st1 == Used(stream, count)
                 st2 == Uniform(st1, info, ok)
                 st3 == Uniform(st2, scalar, ok)
                 st4 == Uniform(st3, other, ok)
                 st5 == Used(st4, buffers \cup uniforms)
             IN stream' = FlushIfNeeded(Recorded(st5, buffers \cup uniforms, count), ok)
      BY Zenon, <1>a, <1>3 DEF Register
    <2> DEFINE count == {dispatch} \ {None}
               uniforms == {info, scalar, other} \ {None}
               st1 == Used(stream, count)
               st2 == Uniform(st1, info, ok)
               st3 == Uniform(st2, scalar, ok)
               st4 == Uniform(st3, other, ok)
               st5 == Used(st4, buffers \cup uniforms)
               st6 == Recorded(st5, buffers \cup uniforms, count)
    <2>1. stream' = FlushIfNeeded(st6, ok)
      BY Zenon, <2>0
    <2>2. count \in SUBSET Slices /\ uniforms \in SUBSET Slices /\ buffers \in SUBSET Slices
      BY Zenon, <1>0
    <2> HIDE DEF count, uniforms
    <2>3. st1 \in Stream /\ st1.tasks_count < TasksMax /\ Accounts(st1)
      BY Zenon, <1>0, <2>2, UsedType, UsedAccounts
    <2> HIDE DEF st1
    <2>4. st2 \in Stream /\ st2.tasks_count < TasksMax /\ Accounts(st2)
      BY Zenon, <2>3, UniformType, UniformAccounts
    <2> HIDE DEF st2
    <2>5. st3 \in Stream /\ st3.tasks_count < TasksMax /\ Accounts(st3)
      BY Zenon, <2>4, UniformType, UniformAccounts
    <2> HIDE DEF st3
    <2>6. st4 \in Stream /\ st4.tasks_count < TasksMax /\ Accounts(st4)
      BY Zenon, <2>5, UniformType, UniformAccounts
    <2> HIDE DEF st4
    <2>7. st5 \in Stream /\ st5.tasks_count < TasksMax /\ Accounts(st5)
      BY Zenon, <2>2, <2>6, UsedType, UsedAccounts
    <2> HIDE DEF st5
    <2>8. st6 \in Stream
      BY Zenon, <2>2, <2>7, RecordedType
    <2>9. st6.tasks_count <= TasksMax
      <3>1. st6.tasks_count = st5.tasks_count + 1 /\ st5.tasks_count \in Nat
        BY Zenon, <2>7 DEF Recorded, Stream
      <3>2. TasksMax \in Nat
        BY Zenon, StreamAssumption
      <3> QED BY <2>7, <3>1, <3>2
    <2>10. Accounts(st6)
      BY Zenon, <2>7 DEF Recorded, Stream, Accounts
    <2> HIDE DEF st6
    <2> QED BY Zenon, <2>1, <2>8, <2>9, <2>10, FlushIfNeededAccounts
  <1>4. ASSUME Flush
        PROVE  Accounts(stream')
    <2>1. PICK ok \in BOOLEAN : stream' = Flushed(stream, ok)
      BY Zenon, <1>a, <1>4 DEF Flush
    <2> QED BY Zenon, <1>0, <2>1, FlushedAccounts
  <1>5. ASSUME Sync
        PROVE  Accounts(stream')
    <2>0. PICK ok \in BOOLEAN :
             LET st == Flushed(stream, ok)
             IN stream' = IF ok THEN [st EXCEPT !.old = 0, !.new = 0]
                                ELSE [st EXCEPT !.overdue = TRUE]
      BY Zenon, <1>a, <1>5 DEF Sync
    <2> DEFINE st == Flushed(stream, ok)
    <2>1. stream' = IF ok THEN [st EXCEPT !.old = 0, !.new = 0]
                          ELSE [st EXCEPT !.overdue = TRUE]
      BY Zenon, <2>0
    <2>2. st \in Stream /\ Accounts(st)
      BY Zenon, <1>0, FlushedType, FlushedAccounts
    <2> HIDE DEF st
    <2> QED BY <2>1, <2>2, StreamAssumption DEF Accounts, Stream
  <1>6. ASSUME Finish
        PROVE  Accounts(stream')
    <2>1. CASE stream.old > 0
      BY <1>0, <1>6, <2>1, StreamAssumption DEF Finish, Accounts, Stream
    <2>2. CASE ~(stream.old > 0)
      BY <1>0, <1>6, <2>2, StreamAssumption DEF Finish, Accounts, Stream
    <2> QED BY Zenon, <2>1, <2>2
  <1>7. ASSUME UNCHANGED vars
        PROVE  Accounts(stream')
    BY Zenon, <1>7 DEF vars
  <1> QED BY Zenon, <1>1, <1>2, <1>3, <1>4, <1>5, <1>6, <1>7, <1>8 DEF Next

(* regulate bounds the tasks that the device has been given and has not    *)
(* finished, until a wait for the device times out.                        *)
THEOREM Backlog == Spec => []BacklogBounded
  <1> DEFINE Inv == TypeOK /\ Accounts(stream)
  <1>1. Init => Inv
    BY Zenon, InitStream
  <1>2. Inv /\ [Next]_vars => Inv'
    BY Zenon, StepType, StepAccounts
  <1>3. Inv => BacklogBounded
    BY StreamAssumption DEF TypeOK, Accounts, BacklogBounded, Stream
  <1> QED BY <1>1, <1>2, <1>3, PTL DEF Spec

-----------------------------------------------------------------------------
(* The query profiler                                                      *)
LEMMA ProfilerTypes ==
  ASSUME ProfilerTypeOK
  PROVE  /\ Active \subseteq Tokens /\ init_tokens \subseteq Tokens
         /\ timestamps \in [Active -> Ids \cup {NoQuerySet}]
         /\ query_sets \in [DOMAIN query_sets -> Nat] /\ DOMAIN query_sets \subseteq Ids
         /\ current \in Ids \cup {NoQuerySet} /\ pool \in Nat
         /\ pool + Cardinality(DOMAIN query_sets) <= Cardinality(Tokens)
         /\ pass \in {"none", "timed", "untimed"} /\ cut \subseteq Active
         /\ work \in [Tokens -> {"none", "timed", "untimed"}]
  BY Zenon DEF ProfilerTypeOK

LEMMA TokensFinite ==
  ASSUME NEW S \in SUBSET Tokens
  PROVE  /\ IsFiniteSet(S) /\ Cardinality(S) \in Nat /\ Cardinality(S) <= Cardinality(Tokens)
         /\ (Cardinality(S) = 0 <=> S = {})
<1>1. IsFiniteSet(S) /\ Cardinality(S) <= Cardinality(Tokens)
  BY Zenon, ProfilerAssumption, FS_Subset
<1> QED BY Zenon, <1>1, FS_CardinalityType, FS_EmptySet

LEMMA SetsFinite ==
  ASSUME NEW S \in SUBSET Ids
  PROVE  /\ IsFiniteSet(Ids) /\ Cardinality(Ids) = Cardinality(Tokens) + 2
         /\ IsFiniteSet(S) /\ Cardinality(S) \in Nat
         /\ Cardinality(Tokens) \in Nat /\ NoQuerySet \notin Ids /\ Ids \subseteq Nat
<1>1. Cardinality(Tokens) \in Nat
  BY Zenon, ProfilerAssumption, FS_CardinalityType
<1>2. IsFiniteSet(Ids) /\ Cardinality(Ids) = Cardinality(Tokens) + 2
  BY SMTT(20), <1>1, FS_Interval DEF Ids
<1>3. IsFiniteSet(S) /\ Cardinality(S) \in Nat
  BY Zenon, <1>2, FS_Subset, FS_CardinalityType
<1>4. NoQuerySet \notin Ids /\ Ids \subseteq Nat
  BY ProfilerAssumption, <1>1 DEF Ids
<1> QED BY Zenon, <1>1, <1>2, <1>3, <1>4

(* A new query set always finds an id.                                     *)
LEMMA NewIdFree ==
  ASSUME ProfilerTypeOK
  PROVE  NewId \in Ids /\ NewId \notin DOMAIN query_sets /\ NewId # current
<1> DEFINE D == DOMAIN query_sets
<1>1. D \subseteq Ids /\ pool \in Nat /\ pool + Cardinality(D) <= Cardinality(Tokens)
  BY Zenon, ProfilerTypes
<1>2. IsFiniteSet(D) /\ Cardinality(D) \in Nat /\ Cardinality(Tokens) \in Nat
      /\ Cardinality(Ids) = Cardinality(Tokens) + 2
  BY Zenon, <1>1, SetsFinite
<1>3. IsFiniteSet(D \cup {current}) /\ Cardinality(D \cup {current}) <= Cardinality(D) + 1
  BY <1>2, FS_AddElement
<1>4. Cardinality(D \cup {current}) \in Nat
  BY Zenon, <1>3, FS_CardinalityType
<1>5. Cardinality(D \cup {current}) < Cardinality(Ids)
  <2> HIDE DEF D
  <2> QED BY <1>1, <1>2, <1>3, <1>4
<1>6. ~ Ids \subseteq D \cup {current}
  <2> SUFFICES ASSUME Ids \subseteq D \cup {current} PROVE FALSE
    BY Zenon
  <2>1. Cardinality(Ids) <= Cardinality(D \cup {current})
    BY Zenon, <1>3, FS_Subset
  <2> HIDE DEF D
  <2> QED BY <1>2, <1>4, <1>5, <2>1
<1>7. PICK id \in Ids : id \notin D \cup {current}
  BY Zenon, <1>6
<1>8. NewId \in Ids /\ NewId \notin D \cup {current}
  BY Zenon, <1>7 DEF NewId
<1> QED BY Zenon, <1>8

LEMMA ProfilerInit == InitProfiler => ProfilerInv
<1> SUFFICES ASSUME InitProfiler PROVE ProfilerInv
  BY Zenon
<1>1. DOMAIN timestamps = {} /\ DOMAIN query_sets = {} /\ Active = {} /\ Started = {}
  BY DEF InitProfiler, Active, Started
<1>2. ProfilerTypeOK
  <2>1. timestamps \in [{} -> Ids \cup {NoQuerySet}] /\ query_sets \in [{} -> Nat]
    BY <1>1 DEF InitProfiler
  <2>2. Cardinality({}) = 0 /\ Cardinality(Tokens) \in Nat
    BY Zenon, FS_EmptySet, ProfilerAssumption, FS_CardinalityType
  <2>3. pool + Cardinality({}) <= Cardinality(Tokens) /\ pool \in Nat
    BY <2>2 DEF InitProfiler
  <2>4. work \in [Tokens -> {"none", "timed", "untimed"}] /\ pass = "none" /\ cut = {}
    BY DEF InitProfiler
  <2>5. init_tokens = {} /\ current = NoQuerySet
    BY DEF InitProfiler
  <2> QED BY Zenon, <1>1, <2>1, <2>3, <2>4, <2>5 DEF ProfilerTypeOK
<1>3. PassesTimed /\ NoStartNoWork /\ WorkMeasured
  BY <1>1 DEF InitProfiler, PassesTimed, NoStartNoWork, WorkMeasured
<1>4. RefsExact
  BY <1>1 DEF InitProfiler, RefsExact
<1> QED BY Zenon, <1>2, <1>3, <1>4 DEF ProfilerInv

LEMMA StartsStep ==
  ASSUME ProfilerInv, NEW t \in Tokens, ProfileStarts(t)
  PROVE  ProfilerInv'
<1>0. ProfilerTypeOK /\ PassesTimed /\ RefsExact /\ NoStartNoWork /\ WorkMeasured
  BY Zenon DEF ProfilerInv
<1>1. /\ t \notin Active /\ pass' = "none" /\ init_tokens' = init_tokens \cup {t}
      /\ timestamps' = [y \in Active \cup {t} |-> IF y = t THEN NoQuerySet ELSE timestamps[y]]
      /\ work' = [work EXCEPT ![t] = "none"] /\ cut' = (cut \cup Started) \ {t}
      /\ query_sets' = query_sets /\ current' = current /\ cleanups' = cleanups /\ pool' = pool
  BY Zenon DEF ProfileStarts, With, Active
<1>2. Active' = Active \cup {t} /\ timestamps'[t] = NoQuerySet
      /\ \A s \in Active : s # t /\ timestamps'[s] = timestamps[s]
  BY <1>1 DEF Active
<1>3. Started' = Started /\ Started \subseteq Active
  BY Zenon, <1>2 DEF Started
<1>4. ProfilerTypeOK'
  <2>1. Active' \subseteq Tokens /\ init_tokens' \subseteq Tokens
    BY Zenon, <1>0, <1>1, <1>2, ProfilerTypes
  <2>2. timestamps' \in [Active' -> Ids \cup {NoQuerySet}]
    BY Zenon, <1>0, <1>1, <1>2, ProfilerTypes
  <2>3. cut' \subseteq Active' /\ pass' \in {"none", "timed", "untimed"}
    BY Zenon, <1>0, <1>1, <1>2, <1>3, ProfilerTypes
  <2>4. work' \in [Tokens -> {"none", "timed", "untimed"}]
    BY Zenon, <1>0, <1>1, ProfilerTypes
  <2> QED BY Zenon, <1>0, <1>1, <2>1, <2>2, <2>3, <2>4 DEF ProfilerTypeOK
<1>5. PassesTimed'
  BY Zenon, <1>0, <1>1, <1>2, <1>3 DEF PassesTimed, Started
<1>6. RefsExact'
  <2>1. \A id \in DOMAIN query_sets : {s \in Active' : timestamps'[s] = id} = {s \in Active : timestamps[s] = id}
    <3>1. NoQuerySet \notin DOMAIN query_sets
      BY Zenon, <1>0, ProfilerTypes, SetsFinite
    <3> QED BY Zenon, <1>2, <3>1
  <2>2. \A id \in DOMAIN query_sets : query_sets[id] = Cardinality({s \in Active' : timestamps'[s] = id})
    BY <1>0, <2>1 DEF RefsExact
  <2> QED BY Zenon, <1>0, <1>1, <1>2, <2>2 DEF RefsExact
<1>7. NoStartNoWork' /\ WorkMeasured'
  <2>1. work'[t] = "none" /\ \A s \in Active : work'[s] = work[s]
    BY Zenon, <1>0, <1>1, <1>2, ProfilerTypes
  <2>2. NoStartNoWork'
    BY Zenon, <1>0, <1>2, <2>1 DEF NoStartNoWork
  <2>3. \A s \in Active' \ cut' : timestamps'[s] = NoQuerySet
    BY Zenon, <1>1, <1>2 DEF Started
  <2>4. \A s \in Active' \ cut' : work'[s] = "none"
    BY Zenon, <2>2, <2>3 DEF NoStartNoWork
  <2> QED BY Zenon, <2>2, <2>3, <2>4 DEF WorkMeasured
<1> QED BY Zenon, <1>4, <1>5, <1>6, <1>7 DEF ProfilerInv

LEMMA ClosesStep ==
  ASSUME ProfilerInv, PassCloses
  PROVE  ProfilerInv'
<1>0. ProfilerTypeOK /\ PassesTimed /\ RefsExact /\ NoStartNoWork /\ WorkMeasured
  BY Zenon DEF ProfilerInv
<1>1. /\ pass' = "none" /\ cut' = cut \cup Started /\ timestamps' = timestamps
      /\ init_tokens' = init_tokens /\ query_sets' = query_sets /\ current' = current
      /\ cleanups' = cleanups /\ pool' = pool /\ work' = work
  BY Zenon DEF PassCloses, profiler
<1>2. Active' = Active /\ Started' = Started /\ Started \subseteq Active
  BY Zenon, <1>1 DEF Active, Started
<1>3. ProfilerTypeOK'
  BY Zenon, <1>0, <1>1, <1>2 DEF ProfilerTypeOK
<1>4. PassesTimed'
  BY Zenon, <1>0, <1>1, <1>2 DEF PassesTimed
<1>5. RefsExact' /\ NoStartNoWork'
  BY <1>0, <1>1, <1>2 DEF RefsExact, NoStartNoWork
<1>6. WorkMeasured'
  BY Zenon, <1>0, <1>1, <1>2 DEF WorkMeasured, NoStartNoWork
<1> QED BY Zenon, <1>3, <1>4, <1>5, <1>6 DEF ProfilerInv

LEMMA StopsStep ==
  ASSUME ProfilerInv, NEW t \in Tokens, ProfileStops(t)
  PROVE  ProfilerInv'
<1>0. ProfilerTypeOK /\ PassesTimed /\ RefsExact /\ NoStartNoWork /\ WorkMeasured
  BY Zenon DEF ProfilerInv
<1>1. /\ t \in Active /\ pass' = "none" /\ cut' = (cut \cup Started) \ {t}
      /\ timestamps' = [y \in Active \ {t} |-> timestamps[y]]
      /\ init_tokens' = init_tokens /\ current' = current /\ pool' = pool /\ work' = work
  BY Zenon DEF ProfileStops, Only
<1>2. Active' = Active \ {t} /\ \A s \in Active \ {t} : timestamps'[s] = timestamps[s]
  BY <1>1 DEF Active
<1>3. Started' = Started \ {t} /\ Started \subseteq Active
  BY Zenon, <1>2 DEF Started
<1>4. RefsExact' /\ query_sets' \in [DOMAIN query_sets -> Nat]
  <2>1. CASE timestamps[t] = NoQuerySet \/ current = NoQuerySet
    <3>1. query_sets' = query_sets /\ cleanups' = cleanups
      BY <2>1 DEF ProfileStops
    <3>2. timestamps[t] = NoQuerySet
      BY Zenon, <1>0, <1>1, <2>1 DEF PassesTimed, Started
    <3>3. \A id \in DOMAIN query_sets : {s \in Active' : timestamps'[s] = id} = {s \in Active : timestamps[s] = id}
      <4>1. NoQuerySet \notin DOMAIN query_sets
        BY Zenon, <1>0, ProfilerTypes, SetsFinite
      <4> QED BY Zenon, <1>2, <3>2, <4>1
    <3>4. \A id \in DOMAIN query_sets : query_sets[id] = Cardinality({s \in Active' : timestamps'[s] = id})
      BY <1>0, <3>3 DEF RefsExact
    <3> QED BY Zenon, <1>0, <1>2, <3>1, <3>4, ProfilerTypes DEF RefsExact
  <2>2. CASE timestamps[t] # NoQuerySet /\ current # NoQuerySet
    <3>0. PICK start \in DOMAIN query_sets : start = timestamps[t]
      BY Zenon, <1>0, <1>1, <2>2 DEF RefsExact
    <3>1. /\ query_sets' = [query_sets EXCEPT ![start] = query_sets[start] - 1]
          /\ cleanups' = IF query_sets[start] = 1 THEN cleanups \cup {start} ELSE cleanups
      BY <2>2, <3>0 DEF ProfileStops, Unreferenced
    <3> DEFINE Refs(id) == {s \in Active : timestamps[s] = id}
    <3>2. /\ t \in Refs(start) /\ IsFiniteSet(Refs(start)) /\ Cardinality(Refs(start)) \in Nat
          /\ query_sets[start] = Cardinality(Refs(start)) /\ Refs(start) # {}
      <4>1. t \in Refs(start) /\ Refs(start) \subseteq Tokens
        BY Zenon, <1>0, <1>1, <3>0, ProfilerTypes
      <4>2. query_sets[start] = Cardinality(Refs(start))
        BY <1>0 DEF RefsExact
      <4> QED BY Zenon, <4>1, <4>2, TokensFinite
    <3>3. Cardinality(Refs(start) \ {t}) = Cardinality(Refs(start)) - 1
          /\ Cardinality(Refs(start) \ {t}) \in Nat
      <4>1. IsFiniteSet(Refs(start) \ {t}) /\ Cardinality(Refs(start) \ {t}) = Cardinality(Refs(start)) - 1
        BY Zenon, <3>2, FS_RemoveElement
      <4> QED BY Zenon, <4>1, FS_CardinalityType
    <3>4. {s \in Active' : timestamps'[s] = start} = Refs(start) \ {t}
      BY Zenon, <1>2
    <3>5. \A id \in DOMAIN query_sets : id # start => {s \in Active' : timestamps'[s] = id} = Refs(id)
      BY Zenon, <1>2, <3>0
    <3>6. query_sets \in [DOMAIN query_sets -> Nat]
      BY Zenon, <1>0, ProfilerTypes
    <3>7. /\ DOMAIN query_sets' = DOMAIN query_sets /\ query_sets'[start] = query_sets[start] - 1
          /\ \A id \in DOMAIN query_sets : id # start => query_sets'[id] = query_sets[id]
      BY <3>1, <3>6
    <3>8. query_sets'[start] \in Nat /\ query_sets' \in [DOMAIN query_sets -> Nat]
      <4>1. query_sets[start] - 1 \in Nat
        BY Zenon, <3>2, <3>3
      <4> QED BY Zenon, <3>1, <3>6, <3>7, <4>1
    <3>9. \A id \in DOMAIN query_sets : query_sets[id] = Cardinality(Refs(id))
      BY <1>0 DEF RefsExact
    <3>10. \A id \in DOMAIN query_sets' : query_sets'[id] = Cardinality({s \in Active' : timestamps'[s] = id})
      <4> SUFFICES ASSUME NEW id \in DOMAIN query_sets
                   PROVE  query_sets'[id] = Cardinality({s \in Active' : timestamps'[s] = id})
        BY Zenon, <3>7
      <4>1. CASE id = start
        BY Zenon, <3>2, <3>3, <3>4, <3>7, <4>1
      <4>2. CASE id # start
        BY Zenon, <3>5, <3>7, <3>9, <4>2
      <4> QED BY Zenon, <4>1, <4>2
    <3>11. cleanups' = {id \in DOMAIN query_sets' : query_sets'[id] = 0}
      <4>1. cleanups = {id \in DOMAIN query_sets : query_sets[id] = 0}
        BY Zenon, <1>0 DEF RefsExact
      <4>2. query_sets[start] \in Nat /\ query_sets[start] # 0
        BY Zenon, <3>2, TokensFinite, FS_EmptySet
      <4>3. query_sets'[start] = 0 <=> query_sets[start] = 1
        BY <3>7, <4>2
      <4> QED BY <3>1, <3>7, <4>1, <4>2, <4>3
    <3>12. \A s \in Active' : timestamps'[s] # NoQuerySet => timestamps'[s] \in DOMAIN query_sets'
      BY Zenon, <1>0, <1>2, <3>7 DEF RefsExact
    <3> QED BY Zenon, <3>8, <3>10, <3>11, <3>12 DEF RefsExact
  <2> QED BY Zenon, <2>1, <2>2
<1>5. DOMAIN query_sets' = DOMAIN query_sets
  BY <1>4
<1>6. ProfilerTypeOK'
  <2>1. Active' \subseteq Tokens /\ init_tokens' \subseteq Tokens
    BY Zenon, <1>0, <1>1, <1>2, ProfilerTypes
  <2>2. timestamps' \in [Active' -> Ids \cup {NoQuerySet}]
    BY Zenon, <1>0, <1>1, <1>2, ProfilerTypes
  <2>3. cut' \subseteq Active' /\ pass' \in {"none", "timed", "untimed"}
    BY Zenon, <1>0, <1>1, <1>2, <1>3, ProfilerTypes
  <2> QED BY Zenon, <1>0, <1>1, <1>4, <1>5, <2>1, <2>2, <2>3 DEF ProfilerTypeOK
<1>7. PassesTimed'
  <2>1. current' = NoQuerySet => Started' = {}
    BY Zenon, <1>0, <1>1, <1>3 DEF PassesTimed
  <2>2. \A s \in Active' : timestamps'[s] = NoQuerySet <=> s \in init_tokens'
    BY Zenon, <1>0, <1>1, <1>2 DEF PassesTimed
  <2>3. Started' \subseteq cut'
    BY Zenon, <1>1, <1>3
  <2> QED BY Zenon, <1>1, <2>1, <2>2, <2>3 DEF PassesTimed
<1>8. NoStartNoWork'
  BY Zenon, <1>0, <1>1, <1>2 DEF NoStartNoWork
<1>9. WorkMeasured'
  <2>1. \A s \in Active' \ cut' : timestamps'[s] = NoQuerySet
    BY Zenon, <1>1, <1>2 DEF Started
  <2>2. \A s \in Active' \ cut' : work'[s] = "none"
    BY Zenon, <1>8, <2>1 DEF NoStartNoWork
  <2> QED BY Zenon, <2>1, <2>2 DEF WorkMeasured
<1> QED BY Zenon, <1>4, <1>6, <1>7, <1>8, <1>9 DEF ProfilerInv

(* Query sets that stay are referred to by profiles, each by its own.      *)
LEMMA KeptReferenced ==
  ASSUME ProfilerInv
  PROVE  /\ Kept \subseteq DOMAIN query_sets /\ Kept \subseteq Ids
         /\ \A id \in Kept : \E t \in Active : timestamps[t] = id
         /\ \A t \in Active : timestamps[t] # NoQuerySet => timestamps[t] \in Kept
         /\ Cardinality(Kept) = Cardinality(DOMAIN query_sets) - Cardinality(cleanups)
         /\ Cardinality(cleanups) \in Nat /\ Cardinality(Kept) \in Nat
         /\ Cardinality(DOMAIN query_sets) \in Nat
         /\ IsFiniteSet(Kept)
<1>0. ProfilerTypeOK /\ RefsExact
  BY Zenon DEF ProfilerInv
<1>1. Kept \subseteq DOMAIN query_sets /\ DOMAIN query_sets \subseteq Ids
  BY Zenon, <1>0, ProfilerTypes DEF Kept
<1>2. \A id \in DOMAIN query_sets : query_sets[id] = Cardinality({t \in Active : timestamps[t] = id})
  BY <1>0 DEF RefsExact
<1>3. \A id \in DOMAIN query_sets : query_sets[id] = 0 <=> {t \in Active : timestamps[t] = id} = {}
  <2> SUFFICES ASSUME NEW id \in DOMAIN query_sets
               PROVE  query_sets[id] = 0 <=> {t \in Active : timestamps[t] = id} = {}
    BY Zenon
  <2>1. {t \in Active : timestamps[t] = id} \subseteq Tokens
    BY Zenon, <1>0, ProfilerTypes
  <2>2. IsFiniteSet({t \in Active : timestamps[t] = id})
    BY Zenon, <2>1, TokensFinite
  <2> QED BY Zenon, <1>2, <2>2, FS_EmptySet
<1>4. cleanups = {id \in DOMAIN query_sets : query_sets[id] = 0}
  BY Zenon, <1>0 DEF RefsExact
<1>5. \A id \in Kept : \E t \in Active : timestamps[t] = id
  BY Zenon, <1>3, <1>4 DEF Kept
<1>6. \A t \in Active : timestamps[t] # NoQuerySet => timestamps[t] \in Kept
  BY Zenon, <1>0, <1>3, <1>4 DEF Kept, RefsExact
<1>7. IsFiniteSet(DOMAIN query_sets) /\ DOMAIN query_sets \cap cleanups = cleanups
  BY Zenon, <1>1, <1>4, SetsFinite
<1>8. /\ IsFiniteSet(Kept) /\ IsFiniteSet(cleanups)
      /\ Cardinality(Kept) = Cardinality(DOMAIN query_sets) - Cardinality(cleanups)
  <2>1. IsFiniteSet(DOMAIN query_sets \ cleanups) /\ Cardinality(DOMAIN query_sets \ cleanups)
          = Cardinality(DOMAIN query_sets) - Cardinality(DOMAIN query_sets \cap cleanups)
    BY Zenon, <1>7, FS_Difference
  <2>2. IsFiniteSet(DOMAIN query_sets \cap cleanups)
    BY Zenon, <1>7, FS_Intersection
  <2> QED BY Zenon, <1>7, <2>1, <2>2 DEF Kept
<1>9. Cardinality(cleanups) \in Nat /\ Cardinality(Kept) \in Nat /\ Cardinality(DOMAIN query_sets) \in Nat
  BY Zenon, <1>7, <1>8, FS_CardinalityType
<1> QED BY Zenon, <1>1, <1>5, <1>6, <1>8, <1>9

(* There are fewer of them than profiles, if one is about to start.        *)
LEMMA KeptBounded ==
  ASSUME ProfilerInv, Starting # {}
  PROVE  Cardinality(Kept) + 1 <= Cardinality(Tokens)
<1>0. ProfilerTypeOK /\ PassesTimed
  BY Zenon DEF ProfilerInv
<1>1. PICK t \in Starting : t \in Active /\ timestamps[t] = NoQuerySet
  BY Zenon, <1>0 DEF Starting, PassesTimed
<1>2. NoQuerySet \notin Kept
  BY Zenon, <1>0, KeptReferenced, SetsFinite
<1> DEFINE f == [id \in Kept |-> CHOOSE s \in Active : timestamps[s] = id]
<1>3. \A id \in Kept : f[id] \in Active /\ timestamps[f[id]] = id
  BY Zenon, KeptReferenced
<1>4. f \in [Kept -> Tokens \ {t}]
  <2>1. \A id \in Kept : f[id] \in Tokens /\ f[id] # t
    BY Zenon, <1>0, <1>1, <1>2, <1>3, ProfilerTypes
  <2> QED BY Zenon, <2>1
<1>5. \A a, b \in Kept : f[a] = f[b] => a = b
  BY Zenon, <1>3
<1> HIDE DEF f
<1>6. f \in Injection(Kept, Tokens \ {t})
  BY Zenon, <1>4, <1>5 DEF Injection, IsInjective
<1>7. /\ t \in Tokens /\ IsFiniteSet(Tokens \ {t})
      /\ Cardinality(Tokens \ {t}) = Cardinality(Tokens) - 1
  BY Zenon, <1>0, <1>1, ProfilerTypes, ProfilerAssumption, FS_RemoveElement
<1>8. Cardinality(Kept) <= Cardinality(Tokens \ {t})
  BY Zenon, <1>6, <1>7, FS_Injection
<1>9. Cardinality(Kept) \in Nat /\ Cardinality(Tokens) \in Nat
  BY Zenon, KeptReferenced, ProfilerAssumption, FS_CardinalityType
<1> QED BY <1>7, <1>8, <1>9

(* A pass is opened for the profiles that wait for one.                    *)
LEMMA OpenTimedStep ==
  ASSUME ProfilerInv, TaskRuns, OpenTimed, Opened
  PROVE  ProfilerInv'
<1>0. ProfilerTypeOK /\ PassesTimed /\ RefsExact /\ NoStartNoWork /\ WorkMeasured
  BY Zenon DEF ProfilerInv
<1>1. /\ pass = "none" /\ Starting # {} /\ current' = NewId
      /\ timestamps' = [t \in Active |-> IF t \in Starting THEN NewId ELSE timestamps[t]]
      /\ query_sets' = With(Only(query_sets, Kept), NewId, Cardinality(Starting))
      /\ pool' = IF pool + Cardinality(cleanups) = 0 THEN 0 ELSE pool + Cardinality(cleanups) - 1
      /\ init_tokens' = {} /\ cleanups' = {}
  BY Zenon DEF OpenTimed, Opened, UsedLast
<1>2. /\ pass' \in {"timed", "none"}
      /\ work' = [t \in Tokens |-> IF t \in Active THEN "timed" ELSE work[t]]
      /\ cut' = IF pass' = "none" THEN Active ELSE cut
  BY <1>1 DEF TaskRuns
<1>3. /\ NewId \in Ids /\ NewId \notin DOMAIN query_sets /\ NewId # NoQuerySet
      /\ NoQuerySet \notin DOMAIN query_sets
  BY Zenon, <1>0, NewIdFree, ProfilerTypes, SetsFinite
<1>4. Active' = Active /\ \A t \in Active : timestamps'[t] = IF t \in Starting THEN NewId ELSE timestamps[t]
  BY <1>1 DEF Active
<1>5. \A t \in Active : t \in Starting <=> timestamps[t] = NoQuerySet
  BY Zenon, <1>0 DEF PassesTimed, Starting
<1>6. Starting \subseteq Active /\ Starting \subseteq Tokens
  BY Zenon, <1>0, ProfilerTypes DEF Starting
<1>7. Started' = Active
  BY Zenon, <1>3, <1>4, <1>5 DEF Started
<1>8. /\ DOMAIN query_sets' = Kept \cup {NewId} /\ query_sets'[NewId] = Cardinality(Starting)
      /\ \A id \in Kept : id # NewId /\ query_sets'[id] = query_sets[id]
      /\ query_sets' = [id \in Kept \cup {NewId} |-> query_sets'[id]]
  <2>1. query_sets' = [id \in Kept \cup {NewId} |-> IF id = NewId THEN Cardinality(Starting) ELSE Only(query_sets, Kept)[id]]
    BY <1>1 DEF With, Only
  <2>2. \A id \in Kept : id # NewId /\ Only(query_sets, Kept)[id] = query_sets[id]
    BY Zenon, <1>3, KeptReferenced DEF Only
  <2> QED BY Zenon, <2>1, <2>2
<1>9. Cardinality(Starting) \in Nat /\ Cardinality(Starting) # 0
  BY Zenon, <1>1, <1>6, TokensFinite
<1>10. ProfilerTypeOK'
  <2>1. timestamps' \in [Active' -> Ids \cup {NoQuerySet}]
    BY Zenon, <1>0, <1>1, <1>3, <1>4, ProfilerTypes
  <2>2. query_sets' \in [DOMAIN query_sets' -> Nat] /\ DOMAIN query_sets' \subseteq Ids
    <3>1. \A id \in Kept : query_sets[id] \in Nat
      BY Zenon, <1>0, ProfilerTypes, KeptReferenced
    <3>2. \A id \in Kept \cup {NewId} : query_sets'[id] \in Nat
      BY Zenon, <1>8, <1>9, <3>1
    <3> QED BY Zenon, <1>3, <1>8, <3>2, KeptReferenced
  <2>3. pool' \in Nat /\ pool' + Cardinality(DOMAIN query_sets') <= Cardinality(Tokens)
    <3>1. Cardinality(Kept \cup {NewId}) = Cardinality(Kept) + 1
      BY Zenon, <1>8, KeptReferenced, FS_AddElement
    <3>2. /\ Cardinality(Kept) + 1 <= Cardinality(Tokens) /\ Cardinality(Tokens) \in Nat
          /\ Cardinality(Kept) = Cardinality(DOMAIN query_sets) - Cardinality(cleanups)
          /\ Cardinality(cleanups) \in Nat /\ Cardinality(Kept) \in Nat
          /\ Cardinality(DOMAIN query_sets) \in Nat
      BY Zenon, <1>1, KeptReferenced, KeptBounded, ProfilerAssumption, FS_CardinalityType
    <3>3. pool \in Nat /\ pool + Cardinality(DOMAIN query_sets) <= Cardinality(Tokens)
      BY Zenon, <1>0, ProfilerTypes
    <3>4. pool' \in Nat /\ pool' + (Cardinality(Kept) + 1) <= Cardinality(Tokens)
      BY <1>1, <3>2, <3>3
    <3> QED BY Zenon, <1>8, <3>1, <3>4
  <2>4. cut' \subseteq Active' /\ pass' \in {"none", "timed", "untimed"}
    BY Zenon, <1>0, <1>2, <1>4, ProfilerTypes
  <2>5. work' \in [Tokens -> {"none", "timed", "untimed"}]
    BY Zenon, <1>0, <1>2, ProfilerTypes
  <2> QED BY Zenon, <1>0, <1>1, <1>3, <1>4, <2>1, <2>2, <2>3, <2>4, <2>5, ProfilerTypes DEF ProfilerTypeOK
<1>11. PassesTimed'
  <2>1. \A t \in Active' : timestamps'[t] # NoQuerySet
    BY Zenon, <1>3, <1>4, <1>5
  <2>2. current' # NoQuerySet /\ pass' # "untimed"
    BY Zenon, <1>1, <1>2, <1>3
  <2>3. IF pass' = "none" THEN Started' \subseteq cut' ELSE Started' = Active'
    BY Zenon, <1>2, <1>4, <1>7
  <2> QED BY Zenon, <1>1, <2>1, <2>2, <2>3 DEF PassesTimed
<1>12. RefsExact'
  <2>1. \A t \in Active' : timestamps'[t] \in DOMAIN query_sets'
    BY Zenon, <1>4, <1>5, <1>8, KeptReferenced
  <2>2. {t \in Active' : timestamps'[t] = NewId} = Starting
    BY Zenon, <1>0, <1>3, <1>4, <1>5, <1>6 DEF RefsExact
  <2>3. \A id \in Kept : {t \in Active' : timestamps'[t] = id} = {t \in Active : timestamps[t] = id}
    <3>1. \A id \in Kept : id # NewId /\ id # NoQuerySet
      BY Zenon, <1>3, <1>8, KeptReferenced
    <3>2. \A id \in Kept : \A t \in Active : timestamps'[t] = id <=> timestamps[t] = id
      BY Zenon, <1>4, <1>5, <3>1
    <3> QED BY Zenon, <1>4, <3>2
  <2>4. \A id \in Kept : query_sets[id] = Cardinality({t \in Active : timestamps[t] = id}) /\ query_sets[id] # 0
    BY <1>0, KeptReferenced DEF RefsExact, Kept
  <2>5. \A id \in DOMAIN query_sets' : query_sets'[id] = Cardinality({t \in Active' : timestamps'[t] = id}) /\ query_sets'[id] # 0
    <3> SUFFICES ASSUME NEW id \in Kept \cup {NewId}
                 PROVE  query_sets'[id] = Cardinality({t \in Active' : timestamps'[t] = id}) /\ query_sets'[id] # 0
      BY Zenon, <1>8
    <3>1. CASE id = NewId
      BY Zenon, <1>8, <1>9, <2>2, <3>1
    <3>2. CASE id \in Kept
      BY Zenon, <1>8, <2>3, <2>4, <3>2
    <3> QED BY Zenon, <3>1, <3>2
  <2> QED BY Zenon, <1>1, <2>1, <2>5 DEF RefsExact
<1>13. NoStartNoWork'
  BY Zenon, <1>7, <1>4 DEF NoStartNoWork, Started
<1>14. WorkMeasured'
  <2>1. \A t \in Active' \ cut' : t \in Starting /\ work'[t] = "timed"
    BY Zenon, <1>0, <1>1, <1>2, <1>4, <1>5, ProfilerTypes DEF PassesTimed, Started
  <2> QED BY Zenon, <1>1, <1>4, <1>8, <2>1 DEF WorkMeasured
<1> QED BY Zenon, <1>10, <1>11, <1>12, <1>13, <1>14 DEF ProfilerInv

(* A pass is opened that no profile starts with: all were cut before.      *)
LEMMA OpenUntimedStep ==
  ASSUME ProfilerInv, TaskRuns, OpenUntimed, Opened
  PROVE  ProfilerInv'
<1>0. ProfilerTypeOK /\ PassesTimed /\ RefsExact /\ NoStartNoWork /\ WorkMeasured
  BY Zenon DEF ProfilerInv
<1>1. /\ pass = "none" /\ Starting = {} /\ query_sets' = [id \in Kept |-> query_sets[id]]
      /\ pool' = pool + Cardinality(cleanups) /\ current' = current /\ timestamps' = timestamps
      /\ init_tokens' = {} /\ cleanups' = {}
  BY Zenon DEF OpenUntimed, Opened, Only
<1>2. /\ pass' \in {"untimed", "none"}
      /\ work' = [t \in Tokens |-> IF t \in Active THEN "untimed" ELSE work[t]]
      /\ cut' = IF pass' = "none" THEN Active ELSE cut
  BY <1>1 DEF TaskRuns
<1>3. Active' = Active /\ Started' = Started
  BY Zenon, <1>1 DEF Active, Started
<1>4. \A t \in Active : timestamps[t] # NoQuerySet
  BY Zenon, <1>0, <1>1 DEF PassesTimed, Starting
<1>5. Started = Active /\ Active \subseteq cut /\ cut' = Active
  <2>1. Started = Active
    BY Zenon, <1>4 DEF Started
  <2> QED BY Zenon, <1>0, <1>1, <1>2, <2>1, ProfilerTypes DEF PassesTimed
<1>6. DOMAIN query_sets' = Kept /\ \A id \in Kept : query_sets'[id] = query_sets[id]
  BY <1>1
<1>7. ProfilerTypeOK'
  <2>1. query_sets' \in [DOMAIN query_sets' -> Nat] /\ DOMAIN query_sets' \subseteq Ids
    BY Zenon, <1>0, <1>1, <1>6, ProfilerTypes, KeptReferenced
  <2>2. pool' \in Nat /\ pool' + Cardinality(DOMAIN query_sets') <= Cardinality(Tokens)
    <3>1. /\ Cardinality(Kept) = Cardinality(DOMAIN query_sets) - Cardinality(cleanups)
          /\ Cardinality(cleanups) \in Nat /\ Cardinality(Kept) \in Nat
          /\ Cardinality(DOMAIN query_sets) \in Nat
      BY Zenon, KeptReferenced
    <3>2. pool \in Nat /\ pool + Cardinality(DOMAIN query_sets) <= Cardinality(Tokens)
      BY Zenon, <1>0, ProfilerTypes
    <3>3. pool' \in Nat /\ pool' + Cardinality(Kept) = pool + Cardinality(DOMAIN query_sets)
      BY <1>1, <3>1, <3>2
    <3> QED BY Zenon, <1>6, <3>2, <3>3
  <2>3. pass' \in {"none", "timed", "untimed"} /\ cut' \subseteq Active'
    BY Zenon, <1>2, <1>3, <1>5
  <2>4. work' \in [Tokens -> {"none", "timed", "untimed"}]
    BY Zenon, <1>0, <1>2, ProfilerTypes
  <2> QED BY Zenon, <1>0, <1>1, <1>3, <2>1, <2>2, <2>3, <2>4 DEF ProfilerTypeOK
<1>8. PassesTimed'
  BY Zenon, <1>0, <1>1, <1>3, <1>4, <1>5 DEF PassesTimed
<1>9. RefsExact'
  <2>1. \A id \in Kept : query_sets[id] = Cardinality({t \in Active : timestamps[t] = id}) /\ query_sets[id] # 0
    BY <1>0, KeptReferenced DEF RefsExact, Kept
  <2>2. \A id \in DOMAIN query_sets' : query_sets'[id] = Cardinality({t \in Active' : timestamps'[t] = id}) /\ query_sets'[id] # 0
    BY <1>1, <1>3, <1>6, <2>1
  <2>3. \A t \in Active' : timestamps'[t] # NoQuerySet => timestamps'[t] \in DOMAIN query_sets'
    BY Zenon, <1>1, <1>3, <1>6, KeptReferenced
  <2> QED BY Zenon, <1>1, <2>2, <2>3 DEF RefsExact
<1>10. NoStartNoWork' /\ WorkMeasured'
  BY Zenon, <1>1, <1>3, <1>4, <1>5 DEF NoStartNoWork, WorkMeasured
<1> QED BY Zenon, <1>7, <1>8, <1>9, <1>10 DEF ProfilerInv

(* A task joins the pass that is open.                                     *)
LEMMA PassGoesOnStep ==
  ASSUME ProfilerInv, TaskRuns, pass # "none", UNCHANGED profiler
  PROVE  ProfilerInv'
<1>0. ProfilerTypeOK /\ PassesTimed /\ RefsExact /\ NoStartNoWork /\ WorkMeasured
  BY Zenon DEF ProfilerInv
<1>1. /\ timestamps' = timestamps /\ init_tokens' = init_tokens /\ query_sets' = query_sets
      /\ current' = current /\ cleanups' = cleanups /\ pool' = pool
  BY Zenon DEF profiler
<1>2. /\ pass' \in {pass, "none"}
      /\ work' = [t \in Tokens |-> IF t \in Active THEN pass ELSE work[t]]
      /\ cut' = IF pass' = "none" THEN Active ELSE cut
  BY DEF TaskRuns
<1>3. Active' = Active /\ Started' = Started /\ Started = Active
  BY Zenon, <1>0, <1>1 DEF Active, Started, PassesTimed
<1>4. ProfilerTypeOK'
  <2>1. pass' \in {"none", "timed", "untimed"} /\ cut' \subseteq Active'
    BY Zenon, <1>0, <1>2, <1>3, ProfilerTypes
  <2>2. work' \in [Tokens -> {"none", "timed", "untimed"}]
    BY Zenon, <1>0, <1>2, ProfilerTypes
  <2> QED BY Zenon, <1>0, <1>1, <1>3, <2>1, <2>2 DEF ProfilerTypeOK
<1>5. PassesTimed'
  BY Zenon, <1>0, <1>1, <1>2, <1>3 DEF PassesTimed
<1>6. RefsExact'
  BY <1>0, <1>1, <1>3 DEF RefsExact
<1>7. NoStartNoWork'
  BY Zenon, <1>1, <1>3 DEF NoStartNoWork, Started
<1>8. WorkMeasured'
  <2>1. \A t \in Active' \ cut' : t \in Active \ cut /\ pass # "untimed" /\ work'[t] = pass
    BY Zenon, <1>0, <1>2, <1>3, ProfilerTypes DEF PassesTimed
  <2> QED BY Zenon, <1>0, <1>1, <1>3, <2>1 DEF WorkMeasured
<1> QED BY Zenon, <1>4, <1>5, <1>6, <1>7, <1>8 DEF ProfilerInv

LEMMA ProfilerStutters ==
  ASSUME ProfilerInv, UNCHANGED profilerVars
  PROVE  ProfilerInv'
<1>1. /\ timestamps' = timestamps /\ init_tokens' = init_tokens /\ query_sets' = query_sets
      /\ current' = current /\ cleanups' = cleanups /\ pool' = pool
      /\ pass' = pass /\ work' = work /\ cut' = cut
  BY Zenon DEF profilerVars, profiler
<1>2. Active' = Active /\ Started' = Started
  BY Zenon, <1>1 DEF Active, Started
<1>3. ProfilerTypeOK' /\ PassesTimed' /\ NoStartNoWork' /\ WorkMeasured'
  BY Zenon, <1>1, <1>2 DEF ProfilerInv, ProfilerTypeOK, PassesTimed, NoStartNoWork, WorkMeasured
<1>4. RefsExact'
  BY <1>1, <1>2 DEF ProfilerInv, RefsExact
<1> QED BY Zenon, <1>3, <1>4 DEF ProfilerInv

LEMMA TaskStep ==
  ASSUME ProfilerInv, TaskRuns
  PROVE  ProfilerInv'
<1>1. \/ OpenTimed /\ Opened
      \/ OpenUntimed /\ Opened
      \/ pass # "none" /\ UNCHANGED profiler
  BY Zenon DEF TaskRuns
<1> QED BY Zenon, <1>1, OpenTimedStep, OpenUntimedStep, PassGoesOnStep

(* For any number of profiles open at once, and any order of them, of the  *)
(* tasks and of the flushes: a query set counts the profiles that use it,  *)
(* and goes back to the pool when there are none; a profile that a pass    *)
(* has started is the only kind that can have work; and the work of every  *)
(* profile not cut by a flush is measured by its own pass.                 *)
THEOREM QuerySetsExact == SpecProfiler => []ProfilerInv
<1>1. ProfilerInv /\ [NextProfiler]_profilerVars => ProfilerInv'
  BY Zenon, StartsStep, StopsStep, TaskStep, ClosesStep, ProfilerStutters DEF NextProfiler
<1> QED BY ProfilerInit, <1>1, PTL DEF SpecProfiler

-----------------------------------------------------------------------------
(* The references counted by the thread are natural numbers, more than two *)
(* if the owner lives and a reader holds a handle.                         *)
LEMMA CountAboveTwo ==
  ASSUME PollTypeOK, owner # "dropped", handles # {}
  PROVE  StrongCount > 2
<1>1. IsFiniteSet(handles)
  BY Zenon, PollAssumption, FS_Subset DEF PollTypeOK
<1>2. Cardinality(handles) \in Nat /\ Cardinality(handles) # 0
  BY Zenon, <1>1, FS_EmptySet, FS_CardinalityType
<1> QED BY <1>2 DEF StrongCount

LEMMA PollInit == InitPoll => PollInv
BY Zenon DEF InitPoll, PollInv, PollTypeOK, HandlesHeld, NoLostWakeup

(* The steps of a reader keep the invariant.                               *)
LEMMA PollReaderStep ==
  ASSUME PollInv, NEW r \in Readers,
         StartPolling(r) \/ StartedPolling(r) \/ DeviceReady(r) \/ FinishRead(r) \/ Abandon(r)
  PROVE  PollInv'
<1> USE DEF PollInv, HandlesHeld
<1>1. CASE StartPolling(r)
  <2>1. handles' = handles \cup {r} /\ token' = token
    BY Zenon, <1>1 DEF StartPolling, StartStep, Order
  <2>2. PollTypeOK' BY Zenon, <1>1, <2>1 DEF StartPolling, StartStep, PollTypeOK
  <2>3. NoLostWakeup'
    BY <1>1, <2>1 DEF StartPolling, StartStep, PollTypeOK, NoLostWakeup
  <2> QED BY Zenon, <1>1, <2>1, <2>2, <2>3 DEF StartPolling, PollTypeOK
<1>2. CASE StartedPolling(r)
  <2>1. handles' = handles /\ token' = TRUE
    BY Zenon, <1>2 DEF StartedPolling, StartStep, Order
  <2>2. PollTypeOK' BY Zenon, <1>2, <2>1 DEF StartedPolling, StartStep, PollTypeOK
  <2>3. NoLostWakeup' BY Zenon, <2>1 DEF NoLostWakeup
  <2> QED BY Zenon, <1>2, <2>1, <2>2, <2>3 DEF StartedPolling, PollTypeOK
<1>3. CASE DeviceReady(r)
  BY Zenon, <1>3 DEF DeviceReady, PollTypeOK, NoLostWakeup
<1>4. CASE FinishRead(r)
  BY Zenon, <1>4 DEF FinishRead, Released, PollTypeOK, NoLostWakeup
<1>5. CASE Abandon(r)
  BY Zenon, <1>5 DEF Abandon, Released, PollTypeOK, NoLostWakeup
<1> QED BY Zenon, <1>1, <1>2, <1>3, <1>4, <1>5

(* The steps of the thread keep the invariant. It goes on to look for the  *)
(* cancel message, and to park, only if it counted no reader.              *)
LEMMA PollThreadStep ==
  ASSUME PollInv, Thread
  PROVE  PollInv'
<1> USE DEF PollInv, HandlesHeld
<1>1. CASE Check
  <2>1. owner = "alive" /\ thread' = "receive" => handles = {}
    BY Zenon, <1>1, CountAboveTwo DEF Check, Needed
  <2> QED BY Zenon, <1>1, <2>1 DEF Check, PollTypeOK, NoLostWakeup
<1>2. CASE Poll
  BY Zenon, <1>2 DEF Poll, PollTypeOK, NoLostWakeup
<1>3. CASE TryReceive
  BY Zenon, <1>3 DEF TryReceive, PollTypeOK, NoLostWakeup
<1>4. CASE Park
  BY Zenon, <1>4 DEF Park, PollTypeOK, NoLostWakeup
<1> QED BY Zenon, <1>1, <1>2, <1>3, <1>4 DEF Thread

(* Dropping the owner keeps the invariant.                                 *)
LEMMA PollOwnerStep ==
  ASSUME PollInv, DropSend \/ DropUnpark \/ DropFields \/ UNCHANGED pollVars
  PROVE  PollInv'
<1> USE DEF PollInv, HandlesHeld, PollTypeOK, NoLostWakeup
<1>1. CASE DropSend BY Zenon, <1>1 DEF DropSend
<1>2. CASE DropUnpark BY Zenon, <1>2 DEF DropUnpark, Unparked
<1>3. CASE DropFields BY Zenon, <1>3 DEF DropFields
<1>4. CASE UNCHANGED pollVars BY Zenon, <1>4 DEF pollVars
<1> QED BY Zenon, <1>1, <1>2, <1>3, <1>4


(* For any number of readers: a reader to whom start_polling has returned  *)
(* never waits for a thread that parks without a token to wake it.         *)
THEOREM WakeupsKept == SpecPoll => []PollInv
<1>1. PollInv /\ [NextPoll]_pollVars => PollInv'
  BY Zenon, PollReaderStep, PollThreadStep, PollOwnerStep DEF NextPoll, Over
<1> QED BY PollInit, <1>1, PTL DEF SpecPoll

-----------------------------------------------------------------------------
(* The stream with both                                                    *)

(* end_profile drops the handle at once when nothing is to be awaited.     *)
LEMMA DropsAtOnce ==
  ASSUME PollInv, NEW t \in Readers,
         reader' = [reader EXCEPT ![t] = "none"],
         handles' = Released(t), token' = TRUE,
         UNCHANGED <<owner, cancel, thread>>
  PROVE  PollInv'
<1>1. owner' = owner /\ cancel' = cancel /\ thread' = thread
  OBVIOUS
<1> QED BY Zenon, <1>1 DEF PollInv, PollTypeOK, HandlesHeld, NoLostWakeup, Released

LEMMA TimingsStep ==
  ASSUME PollInv, ProfilerInv, NextTimings
  PROVE  PollInv' /\ ProfilerInv'
<1>1. ASSUME NEW t \in Tokens, StartProfile(t)
      PROVE  PollInv' /\ ProfilerInv'
  BY Zenon, <1>1, StartsStep, PollOwnerStep DEF StartProfile
<1>2. ASSUME NEW t \in Tokens, StartEnd(t)
      PROVE  PollInv' /\ ProfilerInv'
  BY Zenon, <1>2, TimingsAssumption, PollReaderStep, ProfilerStutters DEF StartEnd
<1>3. ASSUME NEW t \in Tokens, EndProfile(t)
      PROVE  PollInv' /\ ProfilerInv'
  <2>1. t \in Readers /\ t \in Active /\ ProfileStops(t)
    BY Zenon, <1>3, TimingsAssumption DEF EndProfile
  <2>2. CASE StartedPolling(t)
    BY Zenon, <2>1, <2>2, PollReaderStep, StopsStep
  <2>3. CASE /\ reader' = [reader EXCEPT ![t] = "none"]
             /\ handles' = Released(t) /\ token' = TRUE
             /\ UNCHANGED <<owner, cancel, thread>>
    BY Zenon, <2>1, <2>3, DropsAtOnce, StopsStep
  <2> QED BY Zenon, <1>3, <2>2, <2>3 DEF EndProfile
<1>4. ASSUME NEW r \in Readers, StartRead(r) \/ ReadStarted(r)
      PROVE  PollInv' /\ ProfilerInv'
  BY Zenon, <1>4, PollReaderStep, ClosesStep, ProfilerStutters DEF StartRead, ReadStarted
<1>5. CASE Task
  BY Zenon, <1>5, TaskStep, PollOwnerStep DEF Task
<1>6. CASE FlushStream
  BY Zenon, <1>6, ClosesStep, PollOwnerStep DEF FlushStream
<1>7. CASE Elsewhere
  BY Zenon, <1>7, PollReaderStep, PollThreadStep, PollOwnerStep, ProfilerStutters DEF Elsewhere, Over
<1> QED BY Zenon, <1>1, <1>2, <1>3, <1>4, <1>5, <1>6, <1>7 DEF NextTimings

(* The stream keeps what its two parts promise, although end_profile takes *)
(* a handle of the one while it works on the other, and gives it back by   *)
(* itself when there is nothing to await.                                  *)
THEOREM TimingsSound == SpecTimings => []PollInv /\ []ProfilerInv
<1>1. PollInv /\ ProfilerInv /\ [NextTimings]_allVars => PollInv' /\ ProfilerInv'
  <2>1. PollInv /\ ProfilerInv /\ UNCHANGED allVars => PollInv' /\ ProfilerInv'
    BY Zenon, PollOwnerStep, ProfilerStutters DEF allVars
  <2> QED BY Zenon, <2>1, TimingsStep
<1>2. InitTimings => PollInv /\ ProfilerInv
  BY Zenon, PollInit, ProfilerInit DEF InitTimings
<1> QED BY <1>1, <1>2, PTL DEF SpecTimings
=============================================================================
