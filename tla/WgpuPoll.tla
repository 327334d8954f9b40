------------------------------- MODULE WgpuPoll -------------------------------
(***************************************************************************)
(* WgpuPoll of cubecl-wgpu: the thread that polls the device while a read  *)
(* or a profile waits for a buffer to be mapped, woken by unpark and       *)
(* cancelled when its owner, the stream, is dropped.                       *)
(*                                                                         *)
(* The thread counts references: its own, the owner's and one per reader.  *)
(* Cloning a handle and unparking the thread are separate steps, and so    *)
(* are the thread's look at the count, at the channel and its parking.     *)
(***************************************************************************)
EXTENDS Integers, FiniteSets

CONSTANT Readers   \* reads and profiles in flight

ASSUME PollAssumption == IsFiniteSet(Readers)

VARIABLES
  reader,    \* state of each reader
  handles,   \* readers that hold a handle
  owner,     \* "alive", or how far its drop got: "sent", "unparked", "dropped"
  cancel,    \* whether the cancel message is in the channel
  token,     \* whether the thread's unpark token is set
  thread     \* "check", "poll", "receive", "park", or "done"

pollVars == <<reader, handles, owner, cancel, token, thread>>

InitPoll ==
  /\ reader = [r \in Readers |-> "none"] /\ handles = {}
  /\ owner = "alive" /\ cancel = FALSE /\ token = FALSE
  /\ thread = "check"

-----------------------------------------------------------------------------
(* start_polling: two steps, during which the owner is borrowed.           *)
Order_Swapped == <<"unpark", "clone">>
Order == <<"clone", "unpark">>

StartStep(r, i) ==
  /\ handles' = IF Order[i] = "clone" THEN handles \cup {r} ELSE handles
  /\ token' = IF Order[i] = "unpark" THEN TRUE ELSE token
  /\ UNCHANGED <<owner, cancel, thread>>

StartPolling(r) ==
  /\ reader[r] = "none" /\ owner = "alive"
  /\ StartStep(r, 1)
  /\ reader' = [reader EXCEPT ![r] = "starting"]

StartedPolling(r) ==
  /\ reader[r] = "starting"
  /\ StartStep(r, 2)
  /\ reader' = [reader EXCEPT ![r] = "waiting"]

(* The device finishes the work and the copy that the reader waits for;    *)
(* a later poll calls back.                                                *)
DeviceReady(r) ==
  /\ reader[r] = "waiting"
  /\ reader' = [reader EXCEPT ![r] = "ready"]
  /\ UNCHANGED <<handles, owner, cancel, token, thread>>

(* The future resumes and drops its handle.                                *)
Released(r) == handles \ {r}

FinishRead(r) ==
  /\ reader[r] = "mapped"
  /\ reader' = [reader EXCEPT ![r] = "none"]
  /\ handles' = Released(r)
  /\ UNCHANGED <<owner, cancel, token, thread>>

(* The future is dropped before it is done.                                *)
Abandon(r) ==
  /\ reader[r] \in {"waiting", "ready"}
  /\ reader' = [reader EXCEPT ![r] = "none"]
  /\ handles' = Released(r)
  /\ UNCHANGED <<owner, cancel, token, thread>>

-----------------------------------------------------------------------------
(* The loop of the thread                                                  *)
StrongCount == 1 + (IF owner = "dropped" THEN 0 ELSE 1) + Cardinality(handles)

Needed_More == StrongCount > 3
Needed == StrongCount > 2

Check ==
  /\ thread = "check"
  /\ thread' = IF Needed THEN "poll" ELSE "receive"
  /\ UNCHANGED <<reader, handles, owner, cancel, token>>

Poll ==
  /\ thread = "poll"
  /\ reader' = [r \in Readers |-> IF reader[r] = "ready" THEN "mapped" ELSE reader[r]]
  /\ thread' = "check"
  /\ UNCHANGED <<handles, owner, cancel, token>>

TryReceive ==
  /\ thread = "receive"
  /\ thread' = IF cancel THEN "done" ELSE "park"
  /\ cancel' = FALSE
  /\ UNCHANGED <<reader, handles, owner, token>>

(* park returns once the token is set, and takes it. (It may also return   *)
(* for no reason: the loop then goes round once more.)                     *)
Park ==
  /\ thread = "park" /\ token
  /\ token' = FALSE
  /\ thread' = "check"
  /\ UNCHANGED <<reader, handles, owner, cancel>>

Thread == Check \/ Poll \/ TryReceive \/ Park

-----------------------------------------------------------------------------
(* Drop of the owner: send, unpark, and then its fields, the handle among  *)
(* them. Nobody borrows it any more.                                       *)
DropSend ==
  /\ owner = "alive" /\ \A r \in Readers : reader[r] # "starting"
  /\ owner' = "sent" /\ cancel' = TRUE
  /\ UNCHANGED <<reader, handles, token, thread>>

Unparked_Not == token
Unparked == TRUE

DropUnpark ==
  /\ owner = "sent"
  /\ owner' = "unparked" /\ token' = Unparked
  /\ UNCHANGED <<reader, handles, cancel, thread>>

DropFields ==
  /\ owner = "unparked"
  /\ owner' = "dropped"
  /\ UNCHANGED <<reader, handles, cancel, token, thread>>

(* The program ends, or goes on without the device.                        *)
Over ==
  /\ owner = "dropped" /\ handles = {}
  /\ UNCHANGED pollVars

NextPoll ==
  \/ \E r \in Readers :
       StartPolling(r) \/ StartedPolling(r) \/ DeviceReady(r) \/ FinishRead(r) \/ Abandon(r)
  \/ Thread
  \/ DropSend \/ DropUnpark \/ DropFields \/ Over

(* Threads that can run do, the device finishes its work, and a future     *)
(* that can resume does.                                                   *)
FairnessPoll ==
  /\ WF_pollVars(Thread) /\ WF_pollVars(DropUnpark) /\ WF_pollVars(DropFields)
  /\ \A r \in Readers :
       WF_pollVars(StartedPolling(r)) /\ WF_pollVars(DeviceReady(r)) /\ WF_pollVars(FinishRead(r))

SpecPoll == InitPoll /\ [][NextPoll]_pollVars /\ FairnessPoll

-----------------------------------------------------------------------------
(* Properties                                                              *)

(* Every variable has its type, and only readers that started and did not  *)
(* finish hold a handle.                                                   *)
PollTypeOK ==
  /\ reader \in [Readers -> {"none", "starting", "waiting", "ready", "mapped"}]
  /\ handles \subseteq {r \in Readers : reader[r] # "none"}
  /\ owner \in {"alive", "sent", "unparked", "dropped"}
  /\ cancel \in BOOLEAN /\ token \in BOOLEAN
  /\ thread \in {"check", "poll", "receive", "park", "done"}

(* A reader holds its handle from the first step of start_polling until it *)
(* is done: the order of clone and unpark in start_polling.                *)
HandlesHeld == \A r \in Readers : reader[r] # "none" => r \in handles

(* No wakeup is lost: when the thread sleeps, or is about to, and          *)
(* start_polling has returned to a reader, the token that wakes it is set. *)
NoLostWakeup ==
  thread \in {"receive", "park"} /\ owner = "alive" =>
    \A r \in Readers : reader[r] \in {"waiting", "ready"} => token

(* Readers hold their handles for as long as they wait, and the thread     *)
(* never sleeps on a reader, between any two steps of the thread, the      *)
(* readers and the owner that is dropped.                                  *)
PollInv == PollTypeOK /\ HandlesHeld /\ NoLostWakeup

(* The thread does not spin when nobody needs it: without handles it ends  *)
(* up waiting for a token, or ends.                                        *)
ThreadSleeps == <>[](handles = {}) => <>[](thread \in {"park", "done"})

(* When the owner is gone the thread ends, once nobody reads.              *)
ThreadEnds == owner = "dropped" /\ handles = {} ~> thread = "done" \/ handles # {}

(* The thread comes to rest: it sleeps when nobody reads, and ends when    *)
(* the owner is gone too.                                                  *)
ThreadRests == ThreadSleeps /\ ThreadEnds
=============================================================================
