----------------------------- MODULE WgpuTimings -----------------------------
(***************************************************************************)
(* WgpuStream with device timings: its QueryProfiler and its WgpuPoll.     *)
(*                                                                         *)
(* end_profile starts polling, resolves the query sets of the profile and  *)
(* hands both to a future, which is awaited on another thread while the    *)
(* stream goes on. A token is used again here once the future of its       *)
(* profile is gone.                                                        *)
(***************************************************************************)
EXTENDS WgpuPoll, QueryProfiler

ASSUME TimingsAssumption == Tokens \subseteq Readers

allVars == <<pollVars, profilerVars>>

InitTimings == InitPoll /\ InitProfiler

-----------------------------------------------------------------------------
(* The stream's thread is in start_polling, or the stream is dropped.      *)
Busy == owner # "alive" \/ \E r \in Readers : reader[r] = "starting"

StartProfile(t) ==
  /\ ~Busy /\ reader[t] = "none"
  /\ ProfileStarts(t) /\ UNCHANGED pollVars

Task == ~Busy /\ TaskRuns /\ UNCHANGED pollVars

(* flush, and sync without a buffer to read                                *)
FlushStream == ~Busy /\ PassCloses /\ UNCHANGED pollVars

(* read_buffers flushes and starts polling.                                *)
StartRead(r) == ~Busy /\ r \notin Tokens /\ StartPolling(r) /\ PassCloses

ReadStarted(r) == r \notin Tokens /\ StartedPolling(r) /\ UNCHANGED profilerVars

(* end_profile starts polling,                                             *)
StartEnd(t) ==
  /\ ~Busy /\ t \in Active
  /\ StartPolling(t) /\ UNCHANGED profilerVars

(* and goes on. Without a start the profile takes no time and nothing is   *)
(* awaited; when the last unwrap of stop_profile_setup panics nothing is   *)
(* either. The handle is dropped at once then.                             *)
Timed(t) == timestamps[t] # NoQuerySet /\ current \in DOMAIN query_sets

EndProfile(t) ==
  /\ reader[t] = "starting" /\ t \in Active
  /\ ProfileStops(t)
  /\ \/ Timed(t) /\ StartedPolling(t)
     \/ /\ ~Timed(t)
        /\ reader' = [reader EXCEPT ![t] = "none"]
        /\ handles' = Released(t) /\ token' = TRUE
        /\ UNCHANGED <<owner, cancel, thread>>

(* The device, the futures, the polling thread and the drop of the stream. *)
Elsewhere ==
  /\ \/ \E r \in Readers : DeviceReady(r) \/ FinishRead(r) \/ Abandon(r)
     \/ Thread \/ DropSend \/ DropUnpark \/ DropFields \/ Over
  /\ UNCHANGED profilerVars

NextTimings ==
  \/ \E t \in Tokens : StartProfile(t) \/ StartEnd(t) \/ EndProfile(t)
  \/ \E r \in Readers : StartRead(r) \/ ReadStarted(r)
  \/ Task \/ FlushStream \/ Elsewhere

FairnessTimings ==
  /\ WF_allVars(Thread /\ UNCHANGED profilerVars)
  /\ WF_allVars(DropUnpark /\ UNCHANGED profilerVars)
  /\ WF_allVars(DropFields /\ UNCHANGED profilerVars)
  /\ \A r \in Readers :
       /\ WF_allVars(IF r \in Tokens THEN EndProfile(r) ELSE ReadStarted(r))
       /\ WF_allVars(DeviceReady(r) /\ UNCHANGED profilerVars)
       /\ WF_allVars(FinishRead(r) /\ UNCHANGED profilerVars)

SpecTimings == InitTimings /\ [][NextTimings]_allVars /\ FairnessTimings

-----------------------------------------------------------------------------
(* Properties                                                              *)

(* The timing of a profile and the data of a read arrive, although the     *)
(* stream is not used any more, unless their future or the stream is       *)
(* dropped: the thread polls for as long as it has to.                     *)
TimingsArrive ==
  \A r \in Readers : reader[r] # "none" ~> reader[r] = "none" \/ owner # "alive"
=============================================================================
