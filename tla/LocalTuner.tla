----------------------------- MODULE LocalTuner -----------------------------
(***************************************************************************)
(* Autotuning of cubecl-runtime: threads of a process execute operations   *)
(* through one LocalTuner. A call looks its key up under the state lock,   *)
(* benchmarks the candidates outside it when nobody else does, and takes   *)
(* the lock again to apply the results that arrived on a channel.          *)
(*                                                                         *)
(* One device id, hence one Tuner at a time; gen tells the Tuners that     *)
(* clear() separates apart. The disk is the write-once map that the        *)
(* persistent cache implements (PersistentCache), shared with other        *)
(* processes; on wasm there is none. A candidate is its index in the       *)
(* tunable set.                                                            *)
(***************************************************************************)
EXTENDS Integers, Sequences

CONSTANTS
  Threads, Keys,
  MaxTunables,   \* bound: candidates in the tunable set
  Platforms,     \* of "native" and "wasm", where benchmarks run as detached tasks
  None,
  MaxClears      \* bound: calls of clear

ASSUME TunerAssumption ==
  /\ MaxTunables \in Nat \ {0} /\ MaxClears \in Nat
  /\ Platforms \subseteq {"native", "wasm"}
  /\ None \notin Threads /\ Threads # {} /\ Keys # {}

VARIABLES
  platform,    \* what the program was built for
  candidates,  \* the size of the tunable set
  logging,     \* the autotune log level is not Disabled
  lock,        \* the holder of the state lock while it handles results
  gen,         \* the Tuner in the state, 0 when there is none
  cache, autotuning, channel,  \* of that Tuner
  disk,        \* the persistent cache: key, checksum |-> index
  tasks,       \* detached benchmarks (wasm)
  pc, key, sender, index,  \* of each thread; sender is a Tuner
  clears,
  benchmarks   \* history: benchmarks started for each key on this Tuner

tunerVars == <<cache, autotuning, channel, benchmarks>>
build == <<platform, candidates, logging>>
vars == <<build, lock, gen, tunerVars, disk, tasks, pc, key, sender, index, clears>>

Wasm == platform = "wasm"
RunningThreads == IF Wasm THEN {CHOOSE t \in Threads : TRUE} ELSE Threads

Indices == 0 .. candidates - 1
Stale == MaxTunables           \* an index of an older, larger tunable set
NoIndex == -1
Sums == {"current", "old"}     \* checksums of this and of an older tunable set

CacheEntry == [state : {"none", "pending", "unverified", "nomatch", "match"},
               sum : Sums, index : Indices \cup {Stale, NoIndex}]
NoEntry == [state |-> "none", sum |-> "current", index |-> NoIndex]
PendingEntry == [state |-> "pending", sum |-> "current", index |-> NoIndex]
MatchEntry(i) == [state |-> "match", sum |-> "current", index |-> i]

Message == [key : Keys, kind : {"pending", "done"}, index : Indices \cup {NoIndex},
            measured : BOOLEAN]

Init ==
  /\ platform \in Platforms /\ candidates \in 1 .. MaxTunables /\ logging \in BOOLEAN
  /\ lock = None /\ gen = 0 /\ clears = 0
  /\ cache = [k \in Keys |-> NoEntry]
  /\ autotuning = {} /\ channel = <<>>
  /\ disk \in [Keys -> [current : Indices \cup {NoIndex}, old : {Stale, NoIndex}]]
  /\ Wasm => \A k \in Keys : disk[k] = [current |-> NoIndex, old |-> NoIndex]
  /\ tasks = {}
  /\ pc = [t \in Threads |-> "idle"]
  /\ key = [t \in Threads |-> CHOOSE k \in Keys : TRUE]
  /\ sender = [t \in Threads |-> 0]
  /\ index = [t \in Threads |-> NoIndex]
  /\ benchmarks = [k \in Keys |-> 0]

Go(t, step) == pc' = [pc EXCEPT ![t] = step]

-----------------------------------------------------------------------------
(* TuneCache::fastest                                                      *)
Fastest(c, k) ==
  CASE c[k].state = "match"      -> "hit"
    [] c[k].state = "pending"    -> "pending"
    [] c[k].state = "unverified" -> "unchecked"
    [] OTHER                     -> "miss"

(* TuneCache::load: the entries of a key with different checksums come in  *)
(* any order and the last one stays.                                       *)
Loads ==
  LET Kept(k) == {s \in Sums : disk[k][s] # NoIndex}
      Load(pick) == [k \in Keys |->
        IF Kept(k) = {} THEN NoEntry
        ELSE [state |-> "unverified", sum |-> pick[k], index |-> disk[k][pick[k]]]]
  IN  {Load(pick) : pick \in {f \in [Keys -> Sums] : \A k \in Keys : Kept(k) # {} => f[k] \in Kept(k)}}

(* TuneCache::validate_checksum                                            *)
Validated(c, k) ==
  IF c[k].state # "unverified" THEN c
  ELSE [c EXCEPT ![k].state = IF c[k].sum = "current" THEN "match" ELSE "nomatch"]

(* The first lock block of execute: the call runs what is known, or joins  *)
(* the benchmark of the key, or starts it.                                 *)
MustTune_Always(k, tuning) == TRUE
MustTune(k, tuning) == k \notin tuning

Execute(t, k) ==
  /\ pc[t] = "idle" /\ lock = None
  /\ key' = [key EXCEPT ![t] = k]
  /\ gen' = IF gen = 0 THEN clears + 1 ELSE gen
  /\ \E loaded \in (IF gen = 0 THEN Loads ELSE {cache}) :
       LET c == Validated(loaded, k)
           found == Fastest(c, k)
           tune == found \notin {"hit", "pending"} /\ MustTune(k, autotuning)
       IN  /\ cache' = c
           /\ index' = [index EXCEPT ![t] = CASE found = "hit" -> c[k].index
                                              [] found = "pending" -> 0
                                              [] OTHER -> NoIndex]
           /\ Go(t, IF found \in {"hit", "pending"} THEN "run"
                    ELSE IF tune THEN "job" ELSE "wait")
           /\ autotuning' = IF tune THEN autotuning \cup {k} ELSE autotuning
           /\ benchmarks' = IF tune THEN [benchmarks EXCEPT ![k] = @ + 1] ELSE benchmarks
           /\ sender' = [sender EXCEPT ![t] = IF tune THEN gen' ELSE @]
  /\ UNCHANGED <<lock, channel, disk, tasks, clears, build>>

-----------------------------------------------------------------------------
(* The job of prepare_autotune, outside the lock. A single candidate is    *)
(* not measured. Sending to a Tuner that clear() dropped panics.           *)
Done(k, i) == [key |-> k, kind |-> "done", index |-> i, measured |-> candidates > 1]
Pending(k) == [key |-> k, kind |-> "pending", index |-> NoIndex, measured |-> FALSE]

Send(t, msg) ==
  IF sender[t] = gen
  THEN channel' = Append(channel, msg) /\ Go(t, "wait")
  ELSE UNCHANGED channel /\ Go(t, "lost_channel")

RunJob_Forgets(t) ==
  /\ pc[t] = "job"
  /\ Go(t, "wait")
  /\ UNCHANGED <<tasks, channel, lock, gen, cache, autotuning, disk, key, sender, index, clears, benchmarks, build>>

RunJob_HoldsLock(t) ==
  /\ pc[t] = "job" /\ lock = None
  /\ lock' = t
  /\ \E i \in Indices : Send(t, Done(key[t], i))
  /\ UNCHANGED <<tasks, gen, cache, autotuning, disk, key, sender, index, clears, benchmarks, build>>

RunJob(t) ==
  /\ pc[t] = "job"
  /\ IF Wasm /\ candidates > 1
     THEN Send(t, Pending(key[t])) /\ tasks' = tasks \cup {[key |-> key[t], gen |-> sender[t]]}
     ELSE /\ \E i \in Indices : Send(t, Done(key[t], i))
          /\ UNCHANGED tasks
  /\ UNCHANGED <<lock, gen, cache, autotuning, disk, key, sender, index, clears, benchmarks, build>>

(* No candidate runs: execute_tune_plan or generate_tune_message panics.   *)
JobFails(t) ==
  /\ pc[t] = "job" /\ candidates > 1 /\ ~Wasm
  /\ Go(t, "no_candidate")
  /\ UNCHANGED <<lock, gen, tunerVars, disk, tasks, key, sender, index, clears, build>>

(* A detached benchmark ends, between two calls as nothing runs in         *)
(* parallel; nobody may be left to receive its result.                     *)
TaskEnds ==
  /\ \A t \in Threads : pc[t] = "idle"
  /\ \E task \in tasks, i \in Indices :
       /\ tasks' = tasks \ {task}
       /\ channel' = IF task.gen = gen THEN Append(channel, Done(task.key, i)) ELSE channel
  /\ UNCHANGED <<lock, gen, cache, autotuning, disk, pc, key, sender, index, clears, benchmarks, build>>

-----------------------------------------------------------------------------
(* The second lock block of execute.                                       *)
Relock(t) ==
  /\ pc[t] = "wait" /\ lock = None
  /\ IF gen = 0 THEN Go(t, "no_state") /\ UNCHANGED lock
     ELSE Go(t, "drain") /\ lock' = t
  /\ UNCHANGED <<gen, tunerVars, disk, tasks, key, sender, index, clears, build>>

(* Tuner::handle_result: the log of a result wants a measured one; the     *)
(* in-memory entry is replaced, the one on disk only added.                *)
HandleResult(c, msg) ==
  [c EXCEPT ![msg.key] = IF msg.kind = "pending" THEN PendingEntry ELSE MatchEntry(msg.index)]

Saved(msg) ==
  IF msg.kind = "done" /\ ~Wasm /\ disk[msg.key].current = NoIndex
  THEN [disk EXCEPT ![msg.key].current = msg.index] ELSE disk

Drain(t) ==
  /\ pc[t] = "drain" /\ channel # <<>>
  /\ channel' = Tail(channel)
  /\ LET msg == Head(channel) IN
     IF msg.kind = "done" /\ logging /\ ~msg.measured
     THEN Go(t, "no_result") /\ lock' = None /\ UNCHANGED <<cache, disk>>
     ELSE /\ cache' = HandleResult(cache, msg)
          /\ disk' = Saved(msg)
          /\ UNCHANGED <<pc, lock>>
  /\ UNCHANGED <<gen, autotuning, tasks, key, sender, index, clears, benchmarks, build>>

Settle(t) ==
  /\ pc[t] = "drain" /\ channel = <<>>
  /\ lock' = None
  /\ LET found == Fastest(cache, key[t]) IN
     /\ Go(t, IF found = "unchecked" THEN "unchecked" ELSE "run")
     /\ index' = [index EXCEPT ![t] = IF found = "hit" THEN cache[key[t]].index ELSE 0]
  /\ UNCHANGED <<gen, tunerVars, disk, tasks, key, sender, clears, build>>

(* The chosen operation runs, outside the lock, and execute returns.       *)
Return(t) ==
  /\ pc[t] = "run"
  /\ Go(t, "idle")
  /\ index' = [index EXCEPT ![t] = NoIndex]
  /\ UNCHANGED <<lock, gen, tunerVars, disk, tasks, key, sender, clears, build>>

(* Or it returns an error, which execute does not expect: the default was  *)
(* perhaps never measured, a cached candidate not with these inputs.       *)
RunFails(t) ==
  /\ pc[t] = "run"
  /\ Go(t, "failed_run")
  /\ UNCHANGED <<lock, gen, tunerVars, disk, tasks, key, sender, index, clears, build>>

-----------------------------------------------------------------------------
(* clear drops the Tuner, its channel and everything it knows.             *)
Clear(t) ==
  /\ pc[t] = "idle" /\ lock = None /\ clears < MaxClears
  /\ clears' = clears + 1
  /\ gen' = 0
  /\ cache' = [k \in Keys |-> NoEntry]
  /\ autotuning' = {} /\ channel' = <<>>
  /\ benchmarks' = [k \in Keys |-> 0]
  /\ UNCHANGED <<lock, disk, tasks, pc, key, sender, index, build>>

(* Another process tunes the same operations.                              *)
OtherProcess ==
  /\ ~Wasm
  /\ \E k \in Keys, i \in Indices :
       /\ disk[k].current = NoIndex
       /\ disk' = [disk EXCEPT ![k].current = i]
  /\ UNCHANGED <<lock, gen, tunerVars, tasks, pc, key, sender, index, clears, build>>

ThreadStep(t) ==
  RunJob(t) \/ JobFails(t) \/ Relock(t) \/ Drain(t) \/ Settle(t) \/ Return(t) \/ RunFails(t)

Next ==
  \/ \E t \in RunningThreads : ThreadStep(t) \/ Clear(t) \/ \E k \in Keys : Execute(t, k)
  \/ TaskEnds \/ OtherProcess

Spec == Init /\ [][Next]_vars

(* A call that was entered goes on, and detached tasks run.                *)
FairSpec == Spec /\ WF_vars(TaskEnds) /\ \A t \in Threads : WF_vars(ThreadStep(t))

-----------------------------------------------------------------------------
(* Properties                                                              *)

Panics == {"lost_channel", "no_candidate", "no_state", "no_result", "unchecked", "failed_run"}

(* Every variable has its type.                                            *)
TypeOK ==
  /\ platform \in Platforms /\ candidates \in 1 .. MaxTunables /\ logging \in BOOLEAN
  /\ lock \in Threads \cup {None} /\ gen \in 0 .. MaxClears + 1
  /\ cache \in [Keys -> CacheEntry]
  /\ autotuning \subseteq Keys /\ channel \in Seq(Message)
  /\ disk \in [Keys -> [current : Indices \cup {NoIndex}, old : {Stale, NoIndex}]]
  /\ tasks \subseteq [key : Keys, gen : 0 .. MaxClears + 1]
  /\ pc \in [Threads -> {"idle", "job", "wait", "drain", "run"} \cup Panics]
  /\ key \in [Threads -> Keys]
  /\ sender \in [Threads -> 0 .. MaxClears + 1]
  /\ index \in [Threads -> Indices \cup {NoIndex, Stale}]
  /\ clears \in 0 .. MaxClears
  /\ benchmarks \in [Keys -> Nat]

(* A key is benchmarked at most once by a Tuner, whatever threads ask for  *)
(* it meanwhile: the set autotuning is read and written under the lock.    *)
TunedOnce == \A k \in Keys : benchmarks[k] <= 1

Caches(k, i) == cache[k].state = "match" /\ cache[k].index = i

(* The operation run is one of the set: an index saved for another tunable *)
(* set is never used, as its checksum is compared first. And it is the one *)
(* that is cached for the key, so measured or validated, or the default.   *)
RunsKnown ==
  \A t \in Threads : pc[t] \in {"run", "failed_run"} =>
    /\ index[t] \in Indices
    /\ index[t] = 0 \/ clears > 0 \/ Caches(key[t], index[t])

(* An assertion of execute, prepare_autotune or handle_result fails only   *)
(* when a benchmark has no valid candidate, when the operation to run      *)
(* returns an error (it is one of RunsKnown then), when clear drops the    *)
(* Tuner a call is using, or when an unmeasured result is to be logged.    *)
PanicsAccounted ==
  \A t \in Threads :
    /\ pc[t] \in {"lost_channel", "no_state", "unchecked"} => clears > 0
    /\ pc[t] = "no_result" => logging /\ candidates = 1

(* The thread that handles results, and no other, holds the lock.          *)
LockHeld == \A t \in Threads : lock = t <=> pc[t] = "drain"

(* Threads and tasks send to this Tuner or to one that clear dropped, never *)
(* to a later one; without a Tuner there is nothing of one.                *)
Latest == IF gen = 0 THEN clears ELSE gen
Generations ==
  /\ gen \in {0, clears + 1}
  /\ gen = 0 => (\A k \in Keys : cache[k] = NoEntry) /\ autotuning = {} /\ channel = <<>>
  /\ \A t \in Threads : sender[t] <= Latest /\ (pc[t] = "job" => sender[t] > 0)
  /\ \A task \in tasks : task.gen <= Latest /\ task.gen > 0

(* What is cached or sent as a result is a candidate of the present set.   *)
EntriesSound ==
  \A k \in Keys :
    /\ benchmarks[k] = IF k \in autotuning THEN 1 ELSE 0
    /\ k \in autotuning => cache[k].state # "unverified"
    /\ cache[k].state = "match" => cache[k].index \in Indices
    /\ cache[k].state = "unverified" /\ cache[k].sum = "current" => cache[k].index \in Indices
MessagesSound ==
  \A i \in DOMAIN channel : channel[i].kind = "done" =>
    channel[i].index \in Indices /\ (channel[i].measured <=> candidates > 1)

(* A call keeps the Tuner it began with, and its key stays validated,      *)
(* until a clear.                                                          *)
CallsKnown ==
  \A t \in Threads : pc[t] \in {"job", "wait", "drain"} /\ clears = 0 =>
    /\ gen # 0 /\ cache[key[t]].state # "unverified"
    /\ pc[t] = "job" => sender[t] = gen

(* A result of a key is on its way at most once: with the thread that      *)
(* benchmarks it, with the detached task, or in the channel, and then it   *)
(* is not in the cache yet.                                                *)
Tunes(t, k) == pc[t] = "job" /\ sender[t] = gen /\ key[t] = k
Task(k) == [key |-> k, gen |-> gen]
Sent(k) == {i \in DOMAIN channel : channel[i].key = k}
OneResult(k) ==
  /\ (\E t \in Threads : Tunes(t, k)) \/ Task(k) \in tasks \/ Sent(k) # {} =>
       k \in autotuning /\ cache[k].state # "match"
  /\ \A t \in Threads : Tunes(t, k) =>
       Sent(k) = {} /\ Task(k) \notin tasks /\ \A u \in Threads : Tunes(u, k) => u = t
  /\ Task(k) \in tasks => \A i \in Sent(k) : channel[i].kind = "pending"
  /\ \A i, j \in Sent(k) : i < j => channel[i].kind = "pending" /\ channel[j].kind = "done"

(* And at least once, until it is cached or something panicked.            *)
ResultComes(k) ==
  \/ cache[k].state = "match" \/ Task(k) \in tasks
  \/ \E i \in Sent(k) : channel[i].kind = "done"
  \/ \E u \in Threads : key[u] = k /\ sender[u] = gen /\ pc[u] \in {"job", "no_candidate"}
  \/ \E u \in Threads : pc[u] = "no_result"

ResultsOnTheWay == \A k \in Keys : OneResult(k) /\ (k \in autotuning => ResultComes(k))

(* The state shared by the threads stays sound: a key is benchmarked once, *)
(* only the default or a measured or validated candidate of the present    *)
(* set is run, and assertions fail only as accounted for, however lookups, *)
(* benchmarks and results interleave. As it stands this is inductive.      *)
TunerInv ==
  /\ TypeOK /\ TunedOnce /\ RunsKnown /\ PanicsAccounted
  /\ LockHeld /\ Generations /\ EntriesSound /\ MessagesSound /\ CallsKnown /\ ResultsOnTheWay

(* A call that runs the default although the Tuner has benchmarked its key *)
(* can only do so while the result is on its way, or when the benchmark or *)
(* the thread that took the result panicked. While it is on its way is not *)
(* only on wasm, see DefaultOnlyOnWasm.                                    *)
DefaultOnlyMeanwhile ==
  \A t \in Threads :
    /\ pc[t] = "drain" /\ channel = <<>>
    /\ Fastest(cache, key[t]) # "hit" /\ benchmarks[key[t]] > 0
    => \/ \E u \in Threads : key[u] = key[t] /\ sender[u] = gen /\ pc[u] \in {"job", "no_candidate"}
       \/ \E u \in Threads : pc[u] = "no_result"
       \/ \E task \in tasks : task.key = key[t] /\ task.gen = gen

(* A lookup after handle_results misses only on wasm, where nobody can     *)
(* wait for the benchmark, as execute says. But a native thread does not   *)
(* wait for the benchmark of another one either.                           *)
DefaultOnlyOnWasm ==
  \A t \in Threads :
    pc[t] = "drain" /\ channel = <<>> /\ Fastest(cache, key[t]) = "miss" => Wasm

(* Once a fastest candidate is known it stays the fastest one: later calls *)
(* of every thread run the same candidate.                                 *)
FastestStable ==
  [][\A k \in Keys : Fastest(cache, k) = "hit" /\ gen' = gen => cache'[k] = cache[k]]_vars

(* A benchmark that was started ends in a cached result, or no candidate   *)
(* of its runs, or clear drops the Tuner, or the result is one that cannot *)
(* be logged: neither an operation that fails in another thread nor any    *)
(* order of the threads at the lock keeps the result from the cache.       *)
TuningEnds ==
  \A k \in Keys :
    ~Wasm /\ (\E t \in Threads : pc[t] = "job" /\ key[t] = k)
      ~> \/ Fastest(cache, k) = "hit" \/ clears > 0
         \/ \E t \in Threads : pc[t] = "no_result" \/ (pc[t] = "no_candidate" /\ key[t] = k)
=============================================================================
