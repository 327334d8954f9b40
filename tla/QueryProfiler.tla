---------------------------- MODULE QueryProfiler ----------------------------
(***************************************************************************)
(* QueryProfiler of cubecl-wgpu: profiles timed by query sets that compute *)
(* passes write at their start and their end, driven by WgpuStream, which  *)
(* opens a pass for the first task after the last one was closed.          *)
(*                                                                         *)
(* Tokens and query set ids are taken from counters; since the ones that   *)
(* nothing mentions any more cannot be told apart, a free one is taken     *)
(* here. The values of the timestamps are not modelled.                    *)
(***************************************************************************)
EXTENDS Integers, FiniteSets

CONSTANTS
  Tokens,     \* profiles active at a time
  NoQuerySet

ASSUME ProfilerAssumption == IsFiniteSet(Tokens) /\ NoQuerySet \notin Nat

VARIABLES
  timestamps,   \* token |-> start query set, or NoQuerySet
  init_tokens,  \* profiles started since the last pass was opened
  query_sets,   \* id |-> num_ref
  current,      \* the query set used last
  cleanups,     \* query sets to return to the pool
  pool,         \* number of query sets in query_set_pool
  pass,         \* "none", or the open pass: "timed" or "untimed"
  work,         \* history: the pass of its last task, for each profile
  cut           \* history: the profiles that were started when a pass was closed

profiler == <<timestamps, init_tokens, query_sets, current, cleanups, pool>>
profilerVars == <<profiler, pass, work, cut>>

(* At most one set per profile, one in use last, one to be created.        *)
Ids == 0 .. Cardinality(Tokens) + 1
Active == DOMAIN timestamps
With(f, x, v) == [y \in DOMAIN f \cup {x} |-> IF y = x THEN v ELSE f[y]]
Only(f, S) == [x \in S |-> f[x]]

InitProfiler ==
  /\ timestamps = <<>> /\ init_tokens = {} /\ query_sets = <<>> /\ current = NoQuerySet
  /\ cleanups = {} /\ pool = 0
  /\ pass = "none" /\ work = [t \in Tokens |-> "none"] /\ cut = {}

-----------------------------------------------------------------------------
Started == {t \in Active : timestamps[t] # NoQuerySet}

(* start_profile closes the pass, so that the next task opens one.         *)
ProfileStarts(t) ==
  /\ t \notin Active
  /\ pass' = "none"
  /\ init_tokens' = init_tokens \cup {t}
  /\ timestamps' = With(timestamps, t, NoQuerySet)
  /\ work' = [work EXCEPT ![t] = "none"]
  /\ cut' = (cut \cup Started) \ {t}
  /\ UNCHANGED <<query_sets, current, cleanups, pool>>

(* init_query_set: the profiles for which this pass is the first. One that *)
(* ended before any task is skipped.                                       *)
Starting_Ended == init_tokens
Starting == init_tokens \cap Active

NewId == CHOOSE id \in Ids : id \notin DOMAIN query_sets \cup {current}

UsedLast == NewId

(* cleanup_query_sets: whatever nobody started with any more.              *)
Kept == DOMAIN query_sets \ cleanups

(* register_profile_device, for a new pass                                 *)
OpenTimed ==
  /\ pass = "none" /\ Starting # {}
  /\ current' = UsedLast
  /\ timestamps' = [t \in Active |-> IF t \in Starting THEN NewId ELSE timestamps[t]]
  /\ query_sets' = With(Only(query_sets, Kept), NewId, Cardinality(Starting))
  /\ pool' = IF pool + Cardinality(cleanups) = 0 THEN 0 ELSE pool + Cardinality(cleanups) - 1

OpenUntimed ==
  /\ pass = "none" /\ Starting = {}
  /\ query_sets' = Only(query_sets, Kept)
  /\ pool' = pool + Cardinality(cleanups)
  /\ UNCHANGED <<current, timestamps>>

Opened == init_tokens' = {} /\ cleanups' = {}

(* A task, and the flush that may follow it and closes the pass.           *)
TaskRuns ==
  /\ \/ OpenTimed /\ Opened
     \/ OpenUntimed /\ Opened
     \/ pass # "none" /\ UNCHANGED profiler
  /\ LET now == IF pass # "none" THEN pass ELSE IF Starting # {} THEN "timed" ELSE "untimed"
     IN /\ pass' \in {now, "none"}
        /\ work' = [t \in Tokens |-> IF t \in Active THEN now ELSE work[t]]
        /\ cut' = IF pass' = "none" THEN Active ELSE cut

(* flush, sync, read: the pass is closed.                                  *)
PassCloses == pass' = "none" /\ cut' = cut \cup Started /\ UNCHANGED <<profiler, work>>

-----------------------------------------------------------------------------
(* stop_profile_setup, after the pass was closed, and the flush. A panic   *)
(* of its last unwrap, when the set used last is gone, leaves the same     *)
(* state.                                                                  *)
Unreferenced(id) == query_sets[id] = 1

ProfileStops(t) ==
  /\ t \in Active
  /\ pass' = "none"
  /\ timestamps' = Only(timestamps, Active \ {t})
  /\ LET start == timestamps[t]
     IN IF start = NoQuerySet \/ current = NoQuerySet
        THEN UNCHANGED <<query_sets, cleanups>>
        ELSE /\ query_sets' = [query_sets EXCEPT ![start] = @ - 1]
             /\ cleanups' = IF Unreferenced(start) THEN cleanups \cup {start} ELSE cleanups
  /\ cut' = (cut \cup Started) \ {t}
  /\ UNCHANGED <<init_tokens, current, pool, work>>

NextProfiler == (\E t \in Tokens : ProfileStarts(t) \/ ProfileStops(t)) \/ TaskRuns \/ PassCloses

SpecProfiler == InitProfiler /\ [][NextProfiler]_profilerVars

-----------------------------------------------------------------------------
(* Properties                                                              *)

(* Every variable has its type. No more query sets are ever created than   *)
(* profiles can be active.                                                 *)
ProfilerTypeOK ==
  /\ Active \subseteq Tokens /\ init_tokens \subseteq Tokens
  /\ timestamps \in [Active -> Ids \cup {NoQuerySet}]
  /\ query_sets \in [DOMAIN query_sets -> Nat] /\ DOMAIN query_sets \subseteq Ids
  /\ current \in Ids \cup {NoQuerySet} /\ pool \in Nat
  /\ pool + Cardinality(DOMAIN query_sets) <= Cardinality(Tokens)
  /\ pass \in {"none", "timed", "untimed"} /\ cut \subseteq Active
  /\ work \in [Tokens -> {"none", "timed", "untimed"}]

(* A profile has no start query set exactly until a pass is opened for it: *)
(* no profile is without one while a pass is open, profiles are cut by     *)
(* every pass that is closed, and a pass without timestamps is opened only *)
(* where every profile was cut before.                                     *)
PassesTimed ==
  /\ \A t \in Active : timestamps[t] = NoQuerySet <=> t \in init_tokens
  /\ current = NoQuerySet => Started = {}
  /\ IF pass = "none" THEN Started \subseteq cut ELSE Started = Active
  /\ pass = "untimed" => Active \subseteq cut

(* The reference counts are exact: a query set is there for every profile  *)
(* that starts with it, it is to be cleaned up when the last one ended and *)
(* not before, and cleanup_query_sets never meets an unknown set.          *)
RefsExact ==
  /\ \A t \in Active : timestamps[t] # NoQuerySet => timestamps[t] \in DOMAIN query_sets
  /\ \A id \in DOMAIN query_sets :
       query_sets[id] = Cardinality({t \in Active : timestamps[t] = id})
  /\ cleanups = {id \in DOMAIN query_sets : query_sets[id] = 0}

(* A profile that has no start query set, which end_profile reports as     *)
(* taking no time, contains no task.                                       *)
NoStartNoWork == \A t \in Active : timestamps[t] = NoQuerySet => work[t] = "none"

(* A profile that no flush and no other profile cuts in two starts and     *)
(* ends with the same query set, which is there when stop_profile_setup    *)
(* looks for it, and no task of it runs in a pass without timestamps.      *)
WorkMeasured ==
  \A t \in Active \ cut :
    /\ work[t] # "untimed"
    /\ timestamps[t] # NoQuerySet => timestamps[t] = current /\ current \in DOMAIN query_sets

(* The bookkeeping of query sets is exact however profiles overlap, with   *)
(* each other and with reads: no set leaks or is released twice, a profile *)
(* reported as taking no time contains no task, and one that is not cut in *)
(* two is measured.                                                        *)
ProfilerInv == ProfilerTypeOK /\ PassesTimed /\ RefsExact /\ NoStartNoWork /\ WorkMeasured
=============================================================================
