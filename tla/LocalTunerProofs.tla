-------------------------- MODULE LocalTunerProofs --------------------------
(***************************************************************************)
(* Proofs about the tuner that the threads of a process share, for every   *)
(* number of threads, keys, candidates and clears.                         *)
(***************************************************************************)
EXTENDS LocalTuner, TLAPS

-----------------------------------------------------------------------------
(* Types, messages and keys                                                *)

LEMMA BuildTypes ==
  TypeOK => /\ candidates \in 1 .. MaxTunables /\ clears \in 0 .. MaxClears
            /\ gen \in 0 .. MaxClears + 1 /\ lock \in Threads \cup {None}
BY Zenon DEF TypeOK

LEMMA CacheTypes ==
  TypeOK => /\ cache \in [Keys -> CacheEntry] /\ autotuning \subseteq Keys
            /\ benchmarks \in [Keys -> Nat]
            /\ disk \in [Keys -> [current : Indices \cup {NoIndex}, old : {Stale, NoIndex}]]
BY Zenon DEF TypeOK

LEMMA ChannelType == TypeOK => channel \in Seq(Message)
BY Zenon DEF TypeOK

Steps == {"idle", "job", "wait", "drain", "run"} \cup Panics

LEMMA ThreadTypes ==
  TypeOK => /\ pc \in [Threads -> Steps] /\ key \in [Threads -> Keys]
            /\ sender \in [Threads -> 0 .. MaxClears + 1]
            /\ index \in [Threads -> Indices \cup {NoIndex, Stale}]
BY Zenon DEF TypeOK, Steps

LEMMA TasksType == TypeOK => tasks \subseteq [key : Keys, gen : 0 .. MaxClears + 1]
BY Zenon DEF TypeOK

LEMMA SameBuild ==
  ASSUME candidates' = candidates
  PROVE  Indices' = Indices /\ CacheEntry' = CacheEntry /\ Message' = Message
BY Zenon DEF Indices, CacheEntry, Message

LEMMA ZeroIsIndex == TypeOK => 0 \in Indices
BY BuildTypes DEF Indices

LEMMA ThreadGoes ==
  ASSUME TypeOK, NEW t \in Threads, NEW step \in Steps, Go(t, step)
  PROVE  /\ pc' \in [Threads -> Steps] /\ pc'[t] = step
         /\ \A u \in Threads \ {t} : pc'[u] = pc[u]
BY Zenon, ThreadTypes DEF Go

LEMMA IsStep ==
  /\ "idle" \in Steps /\ "job" \in Steps /\ "wait" \in Steps /\ "drain" \in Steps
  /\ "run" \in Steps /\ "lost_channel" \in Steps /\ "no_candidate" \in Steps
  /\ "no_state" \in Steps /\ "no_result" \in Steps /\ "unchecked" \in Steps
  /\ "failed_run" \in Steps
BY Zenon DEF Steps, Panics

(* Sending to the channel, and taking from it.                             *)
LEMMA ChannelFacts ==
  ASSUME TypeOK
  PROVE  /\ Len(channel) \in Nat /\ DOMAIN channel = 1 .. Len(channel)
         /\ \A i \in 1 .. Len(channel) : channel[i] \in Message
<1>1. channel \in Seq(Message) BY Zenon, ChannelType
<1> QED BY <1>1

LEMMA Appended ==
  ASSUME TypeOK, NEW m \in Message, channel' = Append(channel, m)
  PROVE  /\ channel' \in Seq(Message) /\ DOMAIN channel' = 1 .. Len(channel) + 1
         /\ \A i \in 1 .. Len(channel) : channel'[i] = channel[i]
         /\ channel'[Len(channel) + 1] = m
         /\ \A k \in Keys : Sent(k)' = IF m.key = k THEN Sent(k) \cup {Len(channel) + 1} ELSE Sent(k)
         /\ \A k \in Keys : Sent(k) \subseteq 1 .. Len(channel)
<1>1. channel \in Seq(Message) BY Zenon, ChannelType
<1>2. /\ channel' \in Seq(Message) /\ Len(channel') = Len(channel) + 1
      /\ \A i \in 1 .. Len(channel) : channel'[i] = channel[i]
      /\ channel'[Len(channel) + 1] = m
  BY <1>1
<1>3. DOMAIN channel' = 1 .. Len(channel) + 1 BY <1>2
<1>4. Len(channel) \in Nat /\ DOMAIN channel = 1 .. Len(channel) BY Zenon, ChannelFacts
<1>5. ASSUME NEW k \in Keys
      PROVE  Sent(k)' = IF m.key = k THEN Sent(k) \cup {Len(channel) + 1} ELSE Sent(k)
  BY <1>2, <1>3, <1>4 DEF Sent
<1>6. \A k \in Keys : Sent(k) \subseteq 1 .. Len(channel) BY Zenon, <1>4 DEF Sent
<1> QED BY Zenon, <1>2, <1>3, <1>5, <1>6

LEMMA Dequeued ==
  ASSUME TypeOK, channel # <<>>, channel' = Tail(channel)
  PROVE  /\ channel' \in Seq(Message) /\ Head(channel) = channel[1] /\ channel[1] \in Message
         /\ Len(channel) \in Nat \ {0} /\ DOMAIN channel = 1 .. Len(channel)
         /\ DOMAIN channel' = 1 .. Len(channel) - 1
         /\ \A i \in 1 .. Len(channel) - 1 : channel'[i] = channel[i + 1] /\ i + 1 \in 1 .. Len(channel)
         /\ \A k \in Keys : \A i \in Sent(k)' : i + 1 \in Sent(k) /\ i \in Nat \ {0} /\ channel'[i] = channel[i + 1]
         /\ \A k \in Keys : \A i \in Sent(k) : i = 1 \/ (i - 1 \in Sent(k)' /\ channel'[i - 1] = channel[i])
<1>1. channel \in Seq(Message) BY Zenon, ChannelType
<1>2. /\ channel' \in Seq(Message) /\ Len(channel') = Len(channel) - 1
      /\ \A i \in 1 .. Len(channel') : channel'[i] = channel[i + 1]
  BY <1>1
<1>3. Len(channel) \in Nat \ {0} /\ DOMAIN channel = 1 .. Len(channel) BY <1>1
<1>4. DOMAIN channel' = 1 .. Len(channel) - 1 BY <1>2
<1>5. \A i \in 1 .. Len(channel) - 1 : channel'[i] = channel[i + 1] /\ i + 1 \in 1 .. Len(channel)
  BY <1>2, <1>3
<1>6. Head(channel) = channel[1] /\ channel[1] \in Message BY <1>1, <1>3
<1>7. \A k \in Keys : \A i \in Sent(k)' : i + 1 \in Sent(k) /\ i \in Nat \ {0} /\ channel'[i] = channel[i + 1]
  BY <1>3, <1>4, <1>5 DEF Sent
<1>8. ASSUME NEW k \in Keys, NEW i \in Sent(k), i # 1 PROVE i - 1 \in Sent(k)' /\ channel'[i - 1] = channel[i]
  <2>1. i \in 1 .. Len(channel) /\ channel[i].key = k BY Zenon, <1>3 DEF Sent
  <2>2. i - 1 \in 1 .. Len(channel) - 1 /\ (i - 1) + 1 = i BY <1>3, <1>8, <2>1
  <2>3. channel'[i - 1] = channel[i] BY Zenon, <1>5, <2>2
  <2> QED BY Zenon, <1>4, <2>1, <2>2, <2>3 DEF Sent
<1> QED BY <1>2, <1>3, <1>4, <1>5, <1>6, <1>7, <1>8, Zenon

LEMMA MessagesTyped ==
  ASSUME TypeOK, NEW k \in Keys
  PROVE  /\ Pending(k) \in Message /\ Pending(k).key = k /\ Pending(k).kind = "pending"
         /\ \A i \in Indices : /\ Done(k, i) \in Message /\ Done(k, i).key = k
                               /\ Done(k, i).kind = "done" /\ Done(k, i).index = i
                               /\ Done(k, i).measured <=> candidates > 1
<1>1. (candidates > 1) \in BOOLEAN BY BuildTypes
<1>2. Pending(k) \in Message /\ Pending(k).key = k /\ Pending(k).kind = "pending"
  BY Zenon DEF Pending, Message
<1>3. ASSUME NEW i \in Indices
      PROVE  /\ Done(k, i) \in Message /\ Done(k, i).key = k
             /\ Done(k, i).kind = "done" /\ Done(k, i).index = i
             /\ Done(k, i).measured <=> candidates > 1
  BY <1>1, Zenon DEF Done, Message
<1> QED BY Zenon, <1>2, <1>3

(* The channel after sending a message.                                    *)
LEMMA MessagesKept ==
  ASSUME TypeOK, MessagesSound, NEW m \in Message, candidates' = candidates,
         channel' = channel \/ channel' = Append(channel, m),
         m.kind = "done" => m.index \in Indices /\ (m.measured <=> candidates > 1)
  PROVE  MessagesSound'
<1>1. Indices' = Indices BY Zenon, SameBuild
<1>2. CASE channel' = channel BY Zenon, <1>1, <1>2 DEF MessagesSound
<1>3. CASE channel' = Append(channel, m)
  <2>1. ASSUME NEW i \in DOMAIN channel', i \in 1 .. Len(channel)
        PROVE  i \in DOMAIN channel /\ channel'[i] = channel[i]
    BY Zenon, <1>3, <2>1, Appended, ChannelFacts
  <2>2. ASSUME NEW i \in DOMAIN channel', i \notin 1 .. Len(channel) PROVE channel'[i] = m
    BY <1>3, <2>2, Appended, ChannelFacts
  <2> QED BY Zenon, <1>1, <2>1, <2>2 DEF MessagesSound
<1> QED BY Zenon, <1>2, <1>3

LEMMA EntriesKept ==
  ASSUME EntriesSound, cache' = cache, autotuning' = autotuning, benchmarks' = benchmarks,
         candidates' = candidates
  PROVE  EntriesSound'
BY Zenon, SameBuild DEF EntriesSound

(* A step that leaves the results of a key where they are.                 *)
Undisturbed(k) ==
  /\ Sent(k)' = Sent(k) /\ \A i \in Sent(k) : channel'[i] = channel[i]
  /\ Task(k)' \in tasks' <=> Task(k) \in tasks
  /\ \A u \in Threads : Tunes(u, k)' => Tunes(u, k)
  /\ k \in autotuning' <=> k \in autotuning
  /\ k \in autotuning =>
       /\ cache'[k].state = "match" <=> cache[k].state = "match"
       /\ \A u \in Threads : key[u] = k /\ sender[u] = gen /\ pc[u] \in {"job", "no_candidate"} =>
            key'[u] = k /\ sender'[u] = gen' /\ pc'[u] \in {"job", "no_candidate"}
  /\ \A u \in Threads : pc[u] = "no_result" => pc'[u] = "no_result"

LEMMA KeyKept ==
  ASSUME NEW k \in Keys, ResultsOnTheWay, Undisturbed(k)
  PROVE  OneResult(k)' /\ (k \in autotuning' => ResultComes(k)')
<1>1. OneResult(k) /\ (k \in autotuning => ResultComes(k)) BY Zenon DEF ResultsOnTheWay
<1>2. OneResult(k)'
  <2>1. ASSUME (\E t \in Threads : Tunes(t, k)') \/ Task(k)' \in tasks' \/ Sent(k)' # {}
        PROVE  k \in autotuning' /\ cache'[k].state # "match"
    BY Zenon, <1>1, <2>1 DEF Undisturbed, OneResult
  <2>2. ASSUME NEW t \in Threads, Tunes(t, k)'
        PROVE  Sent(k)' = {} /\ Task(k)' \notin tasks' /\ \A u \in Threads : Tunes(u, k)' => u = t
    BY Zenon, <1>1, <2>2 DEF Undisturbed, OneResult
  <2>3. ASSUME Task(k)' \in tasks', NEW i \in Sent(k)' PROVE channel'[i].kind = "pending"
    BY Zenon, <1>1, <2>3 DEF Undisturbed, OneResult
  <2>4. ASSUME NEW i \in Sent(k)', NEW j \in Sent(k)', i < j
        PROVE  channel'[i].kind = "pending" /\ channel'[j].kind = "done"
    BY Zenon, <1>1, <2>4 DEF Undisturbed, OneResult
  <2> QED BY Zenon, <2>1, <2>2, <2>3, <2>4 DEF OneResult
<1>3. k \in autotuning' => ResultComes(k)' BY Zenon, <1>1 DEF Undisturbed, ResultComes
<1> QED BY Zenon, <1>2, <1>3

-----------------------------------------------------------------------------
(* The tuner: one lemma per action                                         *)

(* Steps of a thread that leave the Tuner alone.                           *)
LEMMA QuietStep ==
  ASSUME TunerInv, gen' = gen, cache' = cache, autotuning' = autotuning, channel' = channel,
         benchmarks' = benchmarks, tasks' = tasks, key' = key, sender' = sender, clears' = clears,
         platform' = platform, candidates' = candidates, logging' = logging,
         TypeOK', RunsKnown', PanicsAccounted', LockHeld',
         \A t \in Threads :
           /\ pc'[t] \in {"job", "wait", "drain"} => pc[t] \in {"job", "wait", "drain"}
           /\ pc'[t] = "job" => pc[t] = "job"
           /\ pc[t] \in {"job", "no_candidate"} => pc'[t] \in {"job", "no_candidate"}
           /\ pc[t] = "no_result" => pc'[t] = "no_result"
  PROVE  TunerInv'
<1> USE DEF TunerInv
<1>1. Indices' = Indices BY Zenon, SameBuild
<1>2. TunedOnce' BY Zenon DEF TunedOnce
<1>3. Generations' BY Zenon DEF Generations, Latest
<1>4. EntriesSound' BY Zenon, EntriesKept
<1>5. MessagesSound' BY Zenon, <1>1 DEF MessagesSound
<1>6. CallsKnown' BY Zenon DEF CallsKnown
<1>7. ASSUME NEW k \in Keys PROVE Undisturbed(k)
  <2>1. Sent(k)' = Sent(k) /\ Task(k)' = Task(k) BY Zenon DEF Sent, Task
  <2>2. \A t \in Threads : Tunes(t, k)' => Tunes(t, k) BY Zenon DEF Tunes
  <2> QED BY Zenon, <2>1, <2>2 DEF Undisturbed
<1>8. ResultsOnTheWay' BY Zenon, <1>7, KeyKept DEF ResultsOnTheWay
<1> QED BY Zenon, <1>2, <1>3, <1>4, <1>5, <1>6, <1>8

LEMMA ThreadAloneStep ==
  ASSUME TunerInv, NEW t \in Threads, JobFails(t) \/ Relock(t) \/ Settle(t) \/ Return(t) \/ RunFails(t)
  PROVE  TunerInv'
<1> USE DEF TunerInv
<1>1. /\ gen' = gen /\ cache' = cache /\ autotuning' = autotuning /\ channel' = channel
      /\ benchmarks' = benchmarks /\ tasks' = tasks /\ key' = key /\ sender' = sender /\ clears' = clears
      /\ platform' = platform /\ candidates' = candidates /\ logging' = logging /\ disk' = disk
  BY Zenon DEF JobFails, Relock, Settle, Return, RunFails, tunerVars, build
<1> DEFINE found == Fastest(cache, key[t])
<1>2. PICK to \in Steps :
        /\ Go(t, to)
        /\ \/ pc[t] = "job" /\ to = "no_candidate" /\ lock' = lock /\ index' = index
           \/ pc[t] = "wait" /\ lock = None /\ index' = index /\ gen = 0 /\ to = "no_state" /\ lock' = lock
           \/ pc[t] = "wait" /\ lock = None /\ index' = index /\ gen # 0 /\ to = "drain" /\ lock' = t
           \/ /\ pc[t] = "drain" /\ lock' = None
              /\ to = IF found = "unchecked" THEN "unchecked" ELSE "run"
              /\ index' = [index EXCEPT ![t] = IF found = "hit" THEN cache[key[t]].index ELSE 0]
           \/ pc[t] = "run" /\ to = "idle" /\ lock' = lock /\ index' = [index EXCEPT ![t] = NoIndex]
           \/ pc[t] = "run" /\ to = "failed_run" /\ lock' = lock /\ index' = index
  <2>1. CASE JobFails(t) BY Zenon, <2>1, IsStep DEF JobFails
  <2>2. CASE Relock(t) BY Zenon, <2>2, IsStep DEF Relock
  <2>3. CASE Settle(t) BY Zenon, <2>3, IsStep DEF Settle
  <2>4. CASE Return(t) BY Zenon, <2>4, IsStep DEF Return
  <2>5. CASE RunFails(t) BY Zenon, <2>5, IsStep DEF RunFails
  <2> QED BY Zenon, <2>1, <2>2, <2>3, <2>4, <2>5
<1>3. /\ key[t] \in Keys
      /\ (found = "hit" => cache[key[t]].state = "match" /\ cache[key[t]].index \in Indices)
      /\ (found = "unchecked" => cache[key[t]].state = "unverified")
  BY Zenon, ThreadTypes DEF Fastest, EntriesSound
<1> HIDE DEF found
<1>4. /\ pc' \in [Threads -> Steps] /\ pc'[t] = to /\ \A u \in Threads \ {t} : pc'[u] = pc[u]
  BY Zenon, <1>2, ThreadGoes
<1>5. Indices' = Indices /\ CacheEntry' = CacheEntry /\ Message' = Message BY Zenon, <1>1, SameBuild
<1>6. /\ index' \in [Threads -> Indices \cup {NoIndex, Stale}]
      /\ pc'[t] \in {"run", "failed_run"} =>
           \/ index'[t] = 0
           \/ cache[key[t]].state = "match" /\ index'[t] = cache[key[t]].index /\ index'[t] \in Indices
           \/ pc[t] = "run" /\ index'[t] = index[t]
      /\ \A u \in Threads \ {t} : index'[u] = index[u]
  BY <1>2, <1>3, <1>4, ThreadTypes, ZeroIsIndex
<1>7. TypeOK'
  <2>1. lock' \in Threads \cup {None} BY Zenon, <1>2, BuildTypes
  <2> QED BY <1>1, <1>4, <1>5, <1>6, <2>1, Zenon DEF TypeOK, Steps
<1>8. RunsKnown'
  <2>1. pc'[t] \in {"run", "failed_run"} =>
          index'[t] \in Indices /\ (index'[t] = 0 \/ clears > 0 \/ Caches(key[t], index'[t]))
    BY Zenon, <1>6, ZeroIsIndex DEF RunsKnown, Caches
  <2> QED BY Zenon, <1>1, <1>4, <1>5, <1>6, <2>1 DEF RunsKnown, Caches
<1>9. PanicsAccounted'
  <2>1. clears \in Nat BY BuildTypes
  <2>2. pc'[t] \in {"lost_channel", "no_state", "unchecked"} => clears > 0
    BY <1>2, <1>3, <1>4, <2>1 DEF CallsKnown
  <2>3. pc'[t] # "no_result" BY Zenon, <1>2, <1>4
  <2> QED BY Zenon, <1>1, <1>4, <2>2, <2>3 DEF PanicsAccounted
<1>10. LockHeld' BY <1>2, <1>4, TunerAssumption DEF LockHeld
<1>11. \A u \in Threads :
           /\ pc'[u] \in {"job", "wait", "drain"} => pc[u] \in {"job", "wait", "drain"}
           /\ pc'[u] = "job" => pc[u] = "job"
           /\ pc[u] \in {"job", "no_candidate"} => pc'[u] \in {"job", "no_candidate"}
           /\ pc[u] = "no_result" => pc'[u] = "no_result"
  BY Zenon, <1>2, <1>4
<1> QED BY Zenon, <1>1, <1>7, <1>8, <1>9, <1>10, <1>11, QuietStep

LEMMA OtherProcessStep ==
  ASSUME TunerInv, OtherProcess
  PROVE  TunerInv'
<1> USE DEF TunerInv
<1>1. /\ gen' = gen /\ cache' = cache /\ autotuning' = autotuning /\ channel' = channel
      /\ benchmarks' = benchmarks /\ tasks' = tasks /\ key' = key /\ sender' = sender /\ clears' = clears
      /\ platform' = platform /\ candidates' = candidates /\ logging' = logging
      /\ pc' = pc /\ lock' = lock /\ index' = index
      /\ \E k \in Keys, i \in Indices : disk' = [disk EXCEPT ![k].current = i]
  BY Zenon DEF OtherProcess, tunerVars, build
<1> USE <1>1
<1>2. Indices' = Indices /\ CacheEntry' = CacheEntry /\ Message' = Message BY Zenon, SameBuild
<1>3. disk' \in [Keys -> [current : Indices \cup {NoIndex}, old : {Stale, NoIndex}]]
  BY Zenon, CacheTypes
<1>4. TypeOK' BY <1>2, <1>3, Zenon DEF TypeOK
<1>5. RunsKnown' /\ PanicsAccounted' /\ LockHeld'
  BY Zenon, <1>2 DEF RunsKnown, Caches, PanicsAccounted, LockHeld
<1> QED BY Zenon, <1>4, <1>5, QuietStep

(* What is cached for the running operations stays.                        *)
LEMMA RunsKept ==
  ASSUME RunsKnown, candidates' = candidates, index' = index, key' = key, clears' = clears,
         \A k \in Keys : cache[k].state = "match" => cache'[k] = cache[k],
         \A t \in Threads :
           key[t] \in Keys /\ (pc'[t] \in {"run", "failed_run"} => pc[t] \in {"run", "failed_run"})
  PROVE  RunsKnown'
BY Zenon, SameBuild DEF RunsKnown, Caches

(* The Tuner stays, and so do most of its parts.                           *)
LEMMA SameTuner ==
  ASSUME TunerInv, gen' = gen, clears' = clears, candidates' = candidates,
         TypeOK', RunsKnown', PanicsAccounted', LockHeld', EntriesSound', MessagesSound', CallsKnown',
         ResultsOnTheWay',
         gen = 0 => (\A k \in Keys : cache'[k] = cache[k]) /\ autotuning' = autotuning /\ channel' = channel,
         \A t \in Threads : sender'[t] <= Latest /\ (pc'[t] = "job" => sender'[t] > 0),
         \A task \in tasks' : task.gen <= Latest /\ task.gen > 0
  PROVE  TunerInv'
<1> USE DEF TunerInv
<1>1. Generations' BY Zenon DEF Generations, Latest
<1>2. TunedOnce'
  <2>1. \A k \in Keys : benchmarks'[k] = (IF k \in autotuning' THEN 1 ELSE 0) BY Zenon DEF EntriesSound
  <2> QED BY <2>1 DEF TunedOnce
<1> QED BY Zenon, <1>1, <1>2

(* The benchmark ends or is detached, and its result or a notice is sent.  *)
LEMMA RunJobStep ==
  ASSUME TunerInv, NEW t \in Threads, RunJob(t)
  PROVE  TunerInv'
<1> USE DEF TunerInv
<1>1. /\ pc[t] = "job" /\ lock' = lock /\ gen' = gen /\ cache' = cache /\ autotuning' = autotuning
      /\ disk' = disk /\ key' = key /\ sender' = sender /\ index' = index /\ clears' = clears
      /\ benchmarks' = benchmarks /\ platform' = platform /\ candidates' = candidates /\ logging' = logging
  BY Zenon DEF RunJob, build
<1> USE <1>1
<1>2. PICK k \in Keys : key[t] = k BY Zenon, ThreadTypes
<1>3. PICK m \in Message :
        /\ m.key = k /\ Send(t, m)
        /\ m.kind = "done" => m.index \in Indices /\ (m.measured <=> candidates > 1)
        /\ \/ m.kind = "pending" /\ tasks' = tasks \cup {[key |-> k, gen |-> sender[t]]}
           \/ m.kind = "done" /\ tasks' = tasks
  <2>2. CASE Wasm /\ candidates > 1 BY <1>2, <2>2, MessagesTyped DEF RunJob
  <2>3. CASE ~(Wasm /\ candidates > 1)
    <3>1. PICK i \in Indices : Send(t, Done(k, i)) /\ tasks' = tasks BY Zenon, <1>2, <2>3 DEF RunJob
    <3> QED BY <3>1, MessagesTyped
  <2> QED BY Zenon, <2>2, <2>3
<1>4. PICK to \in {"wait", "lost_channel"} :
        /\ Go(t, to)
        /\ \/ to = "wait" /\ sender[t] = gen /\ channel' = Append(channel, m)
           \/ to = "lost_channel" /\ sender[t] # gen /\ channel' = channel
  BY Zenon, <1>3 DEF Send
<1>5. /\ pc' \in [Threads -> Steps] /\ pc'[t] = to /\ pc'[t] # "job"
      /\ \A u \in Threads \ {t} : pc'[u] = pc[u]
  BY Zenon, <1>4, ThreadGoes, IsStep
<1>6. sender[t] \in 0 .. MaxClears + 1 /\ sender[t] > 0 /\ sender[t] <= Latest
  BY Zenon, ThreadTypes DEF Generations
<1>7. TypeOK'
  <2>1. channel' \in Seq(Message) BY Zenon, <1>4, Appended, ChannelType
  <2>2. tasks' \subseteq [key : Keys, gen : 0 .. MaxClears + 1] BY <1>3, <1>6, TasksType
  <2> QED BY <1>5, <2>1, <2>2, SameBuild, Zenon DEF TypeOK, Steps
<1>8. RunsKnown' BY Zenon, <1>4, <1>5, RunsKept, ThreadTypes
<1>81. LockHeld' BY Zenon, <1>4, <1>5 DEF LockHeld
<1>9. PanicsAccounted'
  <2>1. clears \in Nat BY BuildTypes
  <2>2. to = "lost_channel" => clears > 0 BY <1>4, <2>1 DEF CallsKnown
  <2> QED BY Zenon, <1>4, <1>5, <2>2 DEF PanicsAccounted
<1>10. EntriesSound' /\ MessagesSound' BY Zenon, <1>3, <1>4, EntriesKept, MessagesKept
<1>11. CallsKnown' BY Zenon, <1>4, <1>5 DEF CallsKnown
<1>12. /\ \A u \in Threads : sender'[u] <= Latest /\ (pc'[u] = "job" => sender'[u] > 0)
       /\ \A task \in tasks' : task.gen <= Latest /\ task.gen > 0
  BY <1>3, <1>5, <1>6 DEF Generations
<1>13. ASSUME NEW j \in Keys
       PROVE  Task(j)' = Task(j) /\ \A u \in Threads : Tunes(u, j)' <=> u # t /\ Tunes(u, j)
  BY Zenon, <1>5 DEF Task, Tunes
<1>14. \A u \in Threads : pc[u] = "no_result" => pc'[u] = "no_result" BY Zenon, <1>5
<1>15. ASSUME NEW j \in Keys, j # k \/ sender[t] # gen PROVE Undisturbed(j)
  <2>1. Sent(j)' = Sent(j) /\ \A i \in Sent(j) : channel'[i] = channel[i]
    <3>1. CASE channel' = channel BY Zenon, <3>1 DEF Sent
    <3>2. CASE channel' = Append(channel, m) /\ j # k BY Zenon, <1>3, <3>2, Appended
    <3> QED BY Zenon, <1>4, <1>15, <3>1, <3>2
  <2>2. Task(j) \in tasks' <=> Task(j) \in tasks BY Zenon, <1>3, <1>15 DEF Task
  <2>3. \A u \in Threads : key[u] = j /\ sender[u] = gen => pc'[u] = pc[u] BY Zenon, <1>2, <1>5, <1>15
  <2> QED BY Zenon, <1>13, <1>14, <2>1, <2>2, <2>3 DEF Undisturbed
<1>16. ASSUME sender[t] = gen PROVE OneResult(k)' /\ (k \in autotuning' => ResultComes(k)')
  <2>1. PICK n \in Nat : n = Len(channel) + 1 BY ChannelFacts
  <2>2. channel' = Append(channel, m) BY Zenon, <1>4, <1>16
  <2>3. /\ Sent(k) = {} /\ Task(k) \notin tasks /\ k \in autotuning /\ cache[k].state # "match"
        /\ \A u \in Threads : ~Tunes(u, k)'
    <3>1. Tunes(t, k) BY Zenon, <1>2, <1>16 DEF Tunes
    <3> QED BY Zenon, <1>13, <3>1 DEF OneResult, ResultsOnTheWay
  <2>4. Sent(k)' = {n} /\ channel'[n] = m BY Zenon, <1>3, <2>1, <2>2, <2>3, Appended
  <2>5. m.kind = "pending" <=> Task(k)' \in tasks' BY Zenon, <1>3, <1>13, <1>16, <2>3 DEF Task
  <2>6. OneResult(k)' BY <2>1, <2>3, <2>4, <2>5 DEF OneResult
  <2>7. ResultComes(k)' BY Zenon, <1>3, <2>4, <2>5 DEF ResultComes
  <2> QED BY Zenon, <2>6, <2>7
<1>17. ResultsOnTheWay' BY Zenon, <1>15, <1>16, KeyKept DEF ResultsOnTheWay
<1>18. gen = 0 => channel' = channel BY <1>4, <1>6
<1> QED BY Zenon, <1>7, <1>8, <1>81, <1>9, <1>10, <1>11, <1>12, <1>17, <1>18, SameTuner

(* A detached benchmark ends.                                              *)
LEMMA TaskEndsStep ==
  ASSUME TunerInv, TaskEnds
  PROVE  TunerInv'
<1> USE DEF TunerInv
<1>1. /\ lock' = lock /\ gen' = gen /\ cache' = cache /\ autotuning' = autotuning /\ pc' = pc
      /\ disk' = disk /\ key' = key /\ sender' = sender /\ index' = index /\ clears' = clears
      /\ benchmarks' = benchmarks /\ platform' = platform /\ candidates' = candidates /\ logging' = logging
  BY Zenon DEF TaskEnds, build
<1> USE <1>1
<1>2. PICK task \in tasks, i \in Indices :
        /\ tasks' = tasks \ {task}
        /\ channel' = IF task.gen = gen THEN Append(channel, Done(task.key, i)) ELSE channel
  BY Zenon DEF TaskEnds
<1>3. task.key \in Keys /\ task = [key |-> task.key, gen |-> task.gen] BY Zenon, TasksType
<1>4. PICK k \in Keys, m \in Message :
        /\ task = [key |-> k, gen |-> task.gen] /\ m.key = k
        /\ m.kind = "done" /\ m.index \in Indices /\ (m.measured <=> candidates > 1)
        /\ channel' = IF task.gen = gen THEN Append(channel, m) ELSE channel
  BY <1>2, <1>3, MessagesTyped
<1>5. TypeOK'
  <2>1. channel' \in Seq(Message) BY Zenon, <1>4, Appended, ChannelType
  <2>2. tasks' \subseteq [key : Keys, gen : 0 .. MaxClears + 1] BY Zenon, <1>2, TasksType
  <2> QED BY <2>1, <2>2, SameBuild, Zenon DEF TypeOK
<1>6. RunsKnown' /\ PanicsAccounted' /\ LockHeld' /\ CallsKnown'
  BY Zenon, SameBuild DEF RunsKnown, Caches, PanicsAccounted, LockHeld, CallsKnown
<1>7. EntriesSound' /\ MessagesSound' BY Zenon, <1>4, EntriesKept, MessagesKept
<1>8. ASSUME NEW j \in Keys PROVE Task(j)' = Task(j) /\ \A u \in Threads : ~Tunes(u, j)' /\ ~Tunes(u, j)
  <2>1. \A u \in Threads : pc[u] = "idle" BY Zenon DEF TaskEnds
  <2> QED BY Zenon, <2>1 DEF Task, Tunes
<1>9. ASSUME NEW j \in Keys, j # k \/ task.gen # gen PROVE Undisturbed(j)
  <2>1. Sent(j)' = Sent(j) /\ \A a \in Sent(j) : channel'[a] = channel[a]
    <3>1. CASE channel' = channel BY Zenon, <3>1 DEF Sent
    <3>2. CASE channel' = Append(channel, m) /\ j # k BY Zenon, <1>4, <3>2, Appended
    <3> QED BY Zenon, <1>4, <1>9, <3>1, <3>2
  <2>2. Task(j) \in tasks' <=> Task(j) \in tasks BY <1>2, <1>4, <1>9 DEF Task
  <2> QED BY Zenon, <1>8, <2>1, <2>2 DEF Undisturbed
<1>10. ASSUME task.gen = gen PROVE OneResult(k)' /\ (k \in autotuning' => ResultComes(k)')
  <2>1. PICK n \in Nat : n = Len(channel) + 1 BY ChannelFacts
  <2>2. channel' = Append(channel, m) /\ task = Task(k) BY Zenon, <1>4, <1>10 DEF Task
  <2>3. /\ Sent(k)' = Sent(k) \cup {n} /\ channel'[n] = m
        /\ \A a \in Sent(k) : channel'[a] = channel[a] /\ a \in Nat /\ a < n
    <3>1. /\ \A a \in 1 .. Len(channel) : channel'[a] = channel[a]
          /\ channel'[n] = m /\ Sent(k)' = Sent(k) \cup {n} /\ Sent(k) \subseteq 1 .. Len(channel)
      BY Zenon, <1>4, <2>1, <2>2, Appended
    <3>2. \A a \in 1 .. Len(channel) : a \in Nat /\ a < n BY <2>1, ChannelFacts
    <3> QED BY Zenon, <3>1, <3>2
  <2>4. k \in autotuning /\ cache[k].state # "match" /\ \A a \in Sent(k) : channel[a].kind = "pending"
    BY Zenon, <2>2 DEF OneResult, ResultsOnTheWay
  <2>5. Task(k)' \notin tasks' BY Zenon, <1>2, <1>8, <2>2
  <2>6. ASSUME NEW a \in Sent(k)', NEW b \in Sent(k)', a < b
        PROVE  channel'[a].kind = "pending" /\ channel'[b].kind = "done"
    <3>1. a \in Sent(k) /\ channel'[a] = channel[a] BY <2>1, <2>3, <2>6
    <3>2. b = n BY Zenon, <2>3, <2>4, <2>6, <3>1 DEF OneResult, ResultsOnTheWay
    <3> QED BY Zenon, <1>4, <2>3, <2>4, <3>1, <3>2
  <2>7. OneResult(k)' BY Zenon, <1>8, <2>4, <2>5, <2>6 DEF OneResult
  <2>8. ResultComes(k)' BY Zenon, <1>4, <2>3 DEF ResultComes
  <2> QED BY Zenon, <2>7, <2>8
<1>11. ResultsOnTheWay' BY Zenon, <1>9, <1>10, KeyKept DEF ResultsOnTheWay
<1>12. /\ gen = 0 => channel' = channel
       /\ \A x \in tasks' : x.gen <= Latest /\ x.gen > 0
  BY <1>2, <1>4 DEF Generations
<1>13. \A u \in Threads : sender'[u] <= Latest /\ (pc'[u] = "job" => sender'[u] > 0) BY Zenon DEF Generations
<1> QED BY Zenon, <1>5, <1>6, <1>7, <1>11, <1>12, <1>13, SameTuner

(* The first message of the channel, and the messages behind it.           *)
LEMMA FirstMessage ==
  ASSUME TunerInv, channel # <<>>, channel' = Tail(channel), gen' = gen, tasks' = tasks
  PROVE  /\ channel[1] \in Message /\ Head(channel) = channel[1]
         /\ \E k \in Keys :
              /\ channel[1].key = k /\ 1 \in Sent(k)
              /\ k \in autotuning /\ cache[k].state # "match" /\ \A u \in Threads : ~Tunes(u, k)
              /\ channel[1].kind = "done" => Task(k) \notin tasks /\ Sent(k)' = {}
         /\ channel[1].kind \in {"pending", "done"}
         /\ channel[1].kind = "done" =>
              channel[1].index \in Indices /\ (channel[1].measured <=> candidates > 1)
<1> USE DEF TunerInv
<1>1. PICK m \in Message : m = channel[1] /\ m = Head(channel) /\ 1 \in DOMAIN channel BY Dequeued
<1>2. PICK k \in Keys : m.key = k BY Zenon DEF Message
<1>3. m.kind \in {"pending", "done"} BY Zenon DEF Message
<1>4. 1 \in Sent(k) BY Zenon, <1>1, <1>2 DEF Sent
<1>5. m.kind = "done" => m.index \in Indices /\ (m.measured <=> candidates > 1)
  BY Zenon, <1>1 DEF MessagesSound
<1>6. OneResult(k) BY Zenon DEF ResultsOnTheWay
<1>7. /\ k \in autotuning /\ cache[k].state # "match" /\ \A u \in Threads : ~Tunes(u, k)
      /\ m.kind = "done" => Task(k) \notin tasks
  BY Zenon, <1>1, <1>4, <1>6 DEF OneResult
<1>8. ASSUME m.kind = "done", NEW i \in Sent(k)' PROVE FALSE
  <2>1. i + 1 \in Sent(k) /\ 1 < i + 1 BY <1>8, Dequeued
  <2> QED BY Zenon, <1>1, <1>4, <1>6, <1>8, <2>1 DEF OneResult
<1> QED BY Zenon, <1>1, <1>2, <1>3, <1>4, <1>5, <1>7, <1>8

(* The results of a key after its messages moved up, or one was taken.     *)
LEMMA MovedUp ==
  ASSUME TunerInv, channel # <<>>, channel' = Tail(channel), gen' = gen, tasks' = tasks,
         autotuning' = autotuning, NEW j \in Keys,
         \A u \in Threads : Tunes(u, j)' => Tunes(u, j),
         cache'[j].state = "match" =>
           cache[j].state = "match" \/ (Sent(j)' = {} /\ Task(j) \notin tasks /\ \A u \in Threads : ~Tunes(u, j))
  PROVE  OneResult(j)'
<1>1. /\ \A i \in Sent(j)' : i + 1 \in Sent(j) /\ i \in Nat \ {0} /\ channel'[i] = channel[i + 1]
      /\ Task(j)' = Task(j)
  BY Zenon, Dequeued DEF TunerInv, Task
<1>2. OneResult(j) BY Zenon DEF TunerInv, ResultsOnTheWay
<1>3. ASSUME (\E u \in Threads : Tunes(u, j)') \/ Task(j)' \in tasks' \/ Sent(j)' # {}
      PROVE  j \in autotuning' /\ cache'[j].state # "match"
  <2>1. (\E u \in Threads : Tunes(u, j)) \/ Task(j) \in tasks \/ Sent(j) # {} BY Zenon, <1>1, <1>3
  <2>2. j \in autotuning /\ cache[j].state # "match" BY Zenon, <1>2, <2>1 DEF OneResult
  <2> QED BY Zenon, <1>1, <1>3, <2>2
<1>4. ASSUME NEW u \in Threads, Tunes(u, j)'
      PROVE  Sent(j)' = {} /\ Task(j)' \notin tasks' /\ \A v \in Threads : Tunes(v, j)' => v = u
  BY Zenon, <1>1, <1>2, <1>4 DEF OneResult
<1>5. ASSUME Task(j)' \in tasks', NEW i \in Sent(j)' PROVE channel'[i].kind = "pending"
  <2>1. i + 1 \in Sent(j) /\ channel'[i] = channel[i + 1] /\ Task(j) \in tasks BY Zenon, <1>1, <1>5
  <2>2. \A a \in Sent(j) : channel[a].kind = "pending" BY <1>2, <2>1, Zenon DEF OneResult
  <2> QED BY <2>1, <2>2, Zenon
<1>6. ASSUME NEW a \in Sent(j)', NEW b \in Sent(j)', a < b
      PROVE  channel'[a].kind = "pending" /\ channel'[b].kind = "done"
  <2>1. /\ a \in Nat /\ a + 1 \in Sent(j) /\ channel'[a] = channel[a + 1]
        /\ b \in Nat /\ b + 1 \in Sent(j) /\ channel'[b] = channel[b + 1]
    BY Zenon, <1>1, <1>6
  <2>2. a + 1 < b + 1 BY <1>6, <2>1
  <2>3. channel[a + 1].kind = "pending" /\ channel[b + 1].kind = "done"
    BY <1>2, <2>1, <2>2, Zenon DEF OneResult
  <2> QED BY <2>1, <2>3, Zenon
<1> QED BY Zenon, <1>3, <1>4, <1>5, <1>6 DEF OneResult

LEMMA MessagesMovedUp ==
  ASSUME TunerInv, channel # <<>>, channel' = Tail(channel), candidates' = candidates
  PROVE  MessagesSound'
<1>1. Indices' = Indices BY Zenon, SameBuild
<1>2. \A i \in DOMAIN channel' : i + 1 \in DOMAIN channel /\ channel'[i] = channel[i + 1]
  BY Zenon, Dequeued DEF TunerInv
<1> QED BY Zenon, <1>1, <1>2 DEF TunerInv, MessagesSound

(* A result that was not measured is to be logged.                         *)
LEMMA DrainPanics ==
  ASSUME TunerInv, NEW t \in Threads, Drain(t), channel[1].kind = "done", logging, ~channel[1].measured,
         Go(t, "no_result"), lock' = None, cache' = cache, disk' = disk
  PROVE  TunerInv'
<1> USE DEF TunerInv
<1>1. /\ pc[t] = "drain" /\ channel # <<>> /\ channel' = Tail(channel)
      /\ gen' = gen /\ autotuning' = autotuning /\ tasks' = tasks
      /\ key' = key /\ sender' = sender /\ index' = index /\ clears' = clears
      /\ benchmarks' = benchmarks /\ platform' = platform /\ candidates' = candidates /\ logging' = logging
  BY Zenon DEF Drain, build
<1> USE <1>1
<1>2. Indices' = Indices /\ CacheEntry' = CacheEntry /\ Message' = Message BY Zenon, SameBuild
<1>3. channel' \in Seq(Message) /\ gen # 0 BY Zenon, Dequeued DEF Generations
<1>4. pc' \in [Threads -> Steps] /\ pc'[t] = "no_result" /\ \A u \in Threads \ {t} : pc'[u] = pc[u]
  BY Zenon, ThreadGoes, IsStep
<1>5. TypeOK' BY <1>2, <1>3, <1>4, Zenon DEF TypeOK, Steps
<1>6. RunsKnown' /\ CallsKnown' BY Zenon, <1>2, <1>4, RunsKept, ThreadTypes DEF CallsKnown
<1>7. PanicsAccounted'
  <2>1. candidates = 1 BY FirstMessage, BuildTypes
  <2> QED BY Zenon, <1>4, <2>1 DEF PanicsAccounted
<1>8. LockHeld' BY Zenon, <1>4, TunerAssumption DEF LockHeld
<1>9. EntriesSound' /\ MessagesSound' BY Zenon, EntriesKept, MessagesMovedUp
<1>10. ASSUME NEW j \in Keys PROVE OneResult(j)' /\ ResultComes(j)'
  <2>1. \A u \in Threads : Tunes(u, j)' => Tunes(u, j) BY Zenon, <1>4 DEF Tunes
  <2>2. OneResult(j)' BY Zenon, <2>1, MovedUp
  <2> QED BY Zenon, <1>4, <2>2 DEF ResultComes
<1>11. ResultsOnTheWay' BY Zenon, <1>10 DEF ResultsOnTheWay
<1>12. \A u \in Threads : sender'[u] <= Latest /\ (pc'[u] = "job" => sender'[u] > 0)
  BY Zenon, <1>4 DEF Generations
<1>13. \A x \in tasks' : x.gen <= Latest /\ x.gen > 0 BY Zenon DEF Generations
<1> QED BY Zenon, <1>3, <1>5, <1>6, <1>7, <1>8, <1>9, <1>11, <1>12, <1>13, SameTuner

(* handle_result caches and saves the result.                              *)
LEMMA DrainHandles ==
  ASSUME TunerInv, NEW t \in Threads, Drain(t), cache' = HandleResult(cache, channel[1]),
         disk' = Saved(channel[1]), pc' = pc, lock' = lock
  PROVE  TunerInv'
<1> USE DEF TunerInv
<1>1. /\ channel # <<>> /\ channel' = Tail(channel)
      /\ gen' = gen /\ autotuning' = autotuning /\ tasks' = tasks
      /\ key' = key /\ sender' = sender /\ index' = index /\ clears' = clears
      /\ benchmarks' = benchmarks /\ platform' = platform /\ candidates' = candidates /\ logging' = logging
  BY Zenon DEF Drain, build
<1> USE <1>1
<1>2. Indices' = Indices /\ CacheEntry' = CacheEntry /\ Message' = Message BY Zenon, SameBuild
<1>3. channel' \in Seq(Message) /\ gen # 0 BY Zenon, Dequeued DEF Generations
<1>4. PICK k \in Keys, m \in Message :
        /\ m = channel[1] /\ m.key = k /\ 1 \in Sent(k)
        /\ k \in autotuning /\ cache[k].state # "match" /\ \A u \in Threads : ~Tunes(u, k)
        /\ m.kind = "done" => Task(k) \notin tasks /\ Sent(k)' = {}
        /\ m.kind \in {"pending", "done"} /\ (m.kind = "done" => m.index \in Indices)
  BY FirstMessage, Zenon
<1>5. PICK e \in CacheEntry :
        /\ cache' = [cache EXCEPT ![k] = e] /\ e.state # "unverified"
        /\ m.kind = "pending" => e.state = "pending"
        /\ m.kind = "done" => e.state = "match" /\ e.index \in Indices
  <2>1. PICK e : /\ cache' = [cache EXCEPT ![k] = e]
                 /\ e = IF m.kind = "pending" THEN PendingEntry ELSE MatchEntry(m.index)
    BY <1>4, Zenon DEF HandleResult
  <2>2. CASE m.kind = "pending"
    <3>1. e = PendingEntry BY <2>1, <2>2, Zenon
    <3>2. e \in CacheEntry /\ e.state = "pending" BY Zenon, <3>1 DEF CacheEntry, PendingEntry, Sums
    <3> QED BY Zenon, <2>1, <2>2, <3>2
  <2>3. CASE m.kind = "done"
    <3>1. e = MatchEntry(m.index) BY Zenon, <2>1, <2>3
    <3>2. m.index \in Indices BY <1>4, <2>3, Zenon
    <3>3. e \in CacheEntry /\ e.state = "match" /\ e.index = m.index
      BY Zenon, <3>1, <3>2 DEF CacheEntry, MatchEntry, Sums
    <3> QED BY Zenon, <2>1, <2>3, <3>2, <3>3
  <2> QED BY <1>4, <2>2, <2>3, Zenon
<1>6. cache' \in [Keys -> CacheEntry] /\ cache'[k] = e /\ \A j \in Keys \ {k} : cache'[j] = cache[j]
  BY Zenon, <1>5, CacheTypes
<1>7. disk' \in [Keys -> [current : Indices \cup {NoIndex}, old : {Stale, NoIndex}]]
  <2>1. CASE disk' = disk BY Zenon, <2>1, CacheTypes
  <2>2. CASE m.kind = "done" /\ disk' = [disk EXCEPT ![k].current = m.index]
    <3>1. m.index \in Indices BY <1>4, <2>2, Zenon
    <3>2. disk \in [Keys -> [current : Indices \cup {NoIndex}, old : {Stale, NoIndex}]] BY CacheTypes, Zenon
    <3> QED BY Zenon, <2>2, <3>1, <3>2
  <2>3. disk' = disk \/ (m.kind = "done" /\ disk' = [disk EXCEPT ![k].current = m.index])
    BY <1>4, Zenon DEF Saved
  <2> QED BY <2>1, <2>2, <2>3, Zenon
<1>8. TypeOK' BY <1>2, <1>3, <1>6, <1>7, Zenon DEF TypeOK
<1>9. RunsKnown' /\ PanicsAccounted' /\ LockHeld'
  <2>1. RunsKnown' BY Zenon, <1>4, <1>6, RunsKept, ThreadTypes
  <2> QED BY Zenon, <2>1 DEF PanicsAccounted, LockHeld
<1>10. CallsKnown' BY Zenon, <1>5, <1>6, ThreadTypes DEF CallsKnown
<1>11. EntriesSound'
  <2>1. ASSUME NEW j \in Keys
        PROVE  /\ benchmarks'[j] = IF j \in autotuning' THEN 1 ELSE 0
               /\ j \in autotuning' => cache'[j].state # "unverified"
               /\ cache'[j].state = "match" => cache'[j].index \in Indices'
               /\ cache'[j].state = "unverified" /\ cache'[j].sum = "current" => cache'[j].index \in Indices'
    <3>1. CASE j = k BY Zenon, <1>2, <1>4, <1>5, <1>6, <3>1 DEF EntriesSound
    <3>2. CASE j # k
      <4>1. cache'[j] = cache[j] BY Zenon, <1>6, <3>2
      <4> QED BY Zenon, <1>2, <4>1 DEF EntriesSound
    <3> QED BY Zenon, <3>1, <3>2
  <2> QED BY Zenon, <2>1 DEF EntriesSound
<1>12. ASSUME NEW j \in Keys PROVE OneResult(j)'
  <2>1. \A u \in Threads : Tunes(u, j)' => Tunes(u, j) BY Zenon DEF Tunes
  <2>2. cache'[j].state = "match" =>
          cache[j].state = "match" \/ (Sent(j)' = {} /\ Task(j) \notin tasks /\ \A u \in Threads : ~Tunes(u, j))
    <3>1. CASE j = k BY Zenon, <1>4, <1>5, <1>6, <3>1
    <3>2. CASE j # k BY Zenon, <1>6, <3>2
    <3> QED BY Zenon, <3>1, <3>2
  <2> QED BY Zenon, <2>1, <2>2, MovedUp
<1>13. ASSUME NEW j \in Keys, j \in autotuning' PROVE ResultComes(j)'
  <2>1. ResultComes(j) BY Zenon, <1>13 DEF ResultsOnTheWay
  <2>2. cache[j].state = "match" => cache'[j].state = "match" BY Zenon, <1>4, <1>6
  <2>3. ASSUME NEW i \in Sent(j), channel[i].kind = "done"
        PROVE  cache'[j].state = "match" \/ \E a \in Sent(j)' : channel'[a].kind = "done"
    <3>1. CASE i = 1
      <4>1. j = k /\ m.kind = "done" BY Zenon, <1>4, <2>3, <3>1 DEF Sent
      <4> QED BY Zenon, <1>5, <1>6, <4>1
    <3>2. CASE i # 1
      <4>1. i - 1 \in Sent(j)' /\ channel'[i - 1] = channel[i] BY Zenon, <3>2, Dequeued
      <4> QED BY Zenon, <2>3, <4>1
    <3> QED BY Zenon, <3>1, <3>2
  <2>4. Task(j)' = Task(j) BY Zenon DEF Task
  <2> QED BY Zenon, <2>1, <2>2, <2>3, <2>4 DEF ResultComes
<1>14. ResultsOnTheWay' BY Zenon, <1>12, <1>13 DEF ResultsOnTheWay
<1>15. \A u \in Threads : sender'[u] <= Latest /\ (pc'[u] = "job" => sender'[u] > 0) BY Zenon DEF Generations
<1>16. \A x \in tasks' : x.gen <= Latest /\ x.gen > 0 BY Zenon DEF Generations
<1> QED BY Zenon, <1>3, <1>8, <1>9, <1>10, <1>11, <1>14, <1>15, <1>16, MessagesMovedUp, SameTuner

LEMMA DrainStep ==
  ASSUME TunerInv, NEW t \in Threads, Drain(t)
  PROVE  TunerInv'
<1>1. Head(channel) = channel[1]
  <2>1. channel # <<>> /\ channel' = Tail(channel) BY Zenon DEF Drain
  <2> QED BY Zenon, <2>1, Dequeued DEF TunerInv
<1>2. \/ /\ channel[1].kind = "done" /\ logging /\ ~channel[1].measured
         /\ Go(t, "no_result") /\ lock' = None /\ cache' = cache /\ disk' = disk
      \/ /\ cache' = HandleResult(cache, channel[1]) /\ disk' = Saved(channel[1])
         /\ pc' = pc /\ lock' = lock
  BY <1>1, Zenon DEF Drain
<1> QED BY Zenon, <1>2, DrainPanics, DrainHandles

(* clear drops the Tuner: no thread and no task belongs to the next one.   *)
LEMMA ClearStep ==
  ASSUME TunerInv, NEW t \in Threads, Clear(t)
  PROVE  TunerInv'
<1> USE DEF TunerInv
<1>1. /\ clears < MaxClears /\ clears' = clears + 1 /\ gen' = 0 /\ cache' = [k \in Keys |-> NoEntry]
      /\ autotuning' = {} /\ channel' = <<>> /\ benchmarks' = [k \in Keys |-> 0]
      /\ lock' = lock /\ disk' = disk /\ tasks' = tasks /\ pc' = pc /\ key' = key /\ sender' = sender
      /\ index' = index /\ platform' = platform /\ candidates' = candidates /\ logging' = logging
  BY Zenon DEF Clear, build
<1> USE <1>1
<1>2. Indices' = Indices /\ CacheEntry' = CacheEntry /\ Message' = Message BY Zenon, SameBuild
<1>3. clears \in Nat /\ MaxClears \in Nat /\ Latest <= clears + 1 /\ Latest \in Nat
  BY BuildTypes, TunerAssumption DEF Generations, Latest
<1>4. NoEntry \in CacheEntry /\ NoEntry.state = "none" BY Zenon DEF NoEntry, CacheEntry, Sums
<1>5. TypeOK'
  <2>1. clears' \in 0 .. MaxClears /\ gen' \in 0 .. MaxClears + 1 BY <1>3
  <2>2. cache' \in [Keys -> CacheEntry] /\ benchmarks' \in [Keys -> Nat] BY Zenon, <1>4
  <2>3. channel' \in Seq(Message) OBVIOUS
  <2>4. autotuning' \subseteq Keys BY Zenon
  <2> QED BY <1>2, <2>1, <2>2, <2>3, <2>4, Zenon DEF TypeOK
<1>6. TunedOnce' BY DEF TunedOnce
<1>7. RunsKnown' /\ LockHeld'
  <2>1. clears' > 0 BY <1>3
  <2> QED BY Zenon, <1>2, <2>1 DEF RunsKnown, LockHeld
<1>8. PanicsAccounted' /\ CallsKnown' BY <1>3 DEF PanicsAccounted, CallsKnown
<1>9. Generations'
  <2>1. Latest' = clears + 1 BY Zenon DEF Latest
  <2>2. ASSUME NEW u \in Threads PROVE sender'[u] <= Latest' /\ (pc'[u] = "job" => sender'[u] > 0)
    <3>1. sender[u] <= Latest /\ (pc[u] = "job" => sender[u] > 0) /\ sender[u] \in Nat
      BY ThreadTypes DEF Generations
    <3> QED BY <1>3, <2>1, <3>1
  <2>3. ASSUME NEW task \in tasks' PROVE task.gen <= Latest' /\ task.gen > 0
    <3>1. task.gen <= Latest /\ task.gen > 0 /\ task.gen \in Nat BY TasksType DEF Generations
    <3> QED BY <1>3, <2>1, <3>1
  <2> QED BY Zenon, <2>2, <2>3 DEF Generations
<1>10. EntriesSound' /\ MessagesSound' BY <1>4 DEF EntriesSound, MessagesSound
<1>11. \A j \in Keys : /\ Sent(j)' = {} /\ Task(j)' \notin tasks' /\ \A u \in Threads : ~Tunes(u, j)'
  <2> SUFFICES ASSUME NEW j \in Keys
               PROVE  Sent(j)' = {} /\ Task(j)' \notin tasks' /\ \A u \in Threads : ~Tunes(u, j)'
    BY Zenon
  <2>1. Sent(j)' = {} BY DEF Sent
  <2>2. Task(j)'.gen = 0 BY Zenon DEF Task
  <2>3. Task(j)' \notin tasks' BY <2>2 DEF Generations
  <2>4. \A u \in Threads : ~Tunes(u, j)' BY DEF Tunes, Generations
  <2> QED BY Zenon, <2>1, <2>3, <2>4
<1>12. \A j \in Keys : OneResult(j)' BY Zenon, <1>11 DEF OneResult
<1>13. ResultsOnTheWay' BY Zenon, <1>12 DEF ResultsOnTheWay
<1> QED BY Zenon, <1>5, <1>6, <1>7, <1>8, <1>9, <1>10, <1>13

(* A new Tuner loads entries that are to be validated.                     *)
LEMMA LoadFacts ==
  ASSUME TunerInv, NEW loaded \in (IF gen = 0 THEN Loads ELSE {cache})
  PROVE  /\ loaded \in [Keys -> CacheEntry] /\ (gen # 0 => loaded = cache)
         /\ \A j \in Keys :
              /\ loaded[j].state = "match" => loaded[j].index \in Indices
              /\ loaded[j].state = "unverified" /\ loaded[j].sum = "current" => loaded[j].index \in Indices
              /\ j \in autotuning => gen # 0 /\ loaded[j].state # "unverified"
<1> USE DEF TunerInv
<1>1. CASE gen # 0 BY Zenon, <1>1, CacheTypes DEF EntriesSound
<1>2. CASE gen = 0
  <2> DEFINE Kept(k) == {s \in Sums : disk[k][s] # NoIndex}
  <2>1. PICK pick \in [Keys -> Sums] :
          /\ \A k \in Keys : Kept(k) # {} => pick[k] \in Kept(k)
          /\ loaded = [k \in Keys |-> IF Kept(k) = {} THEN NoEntry
                         ELSE [state |-> "unverified", sum |-> pick[k], index |-> disk[k][pick[k]]]]
    BY Zenon, <1>2 DEF Loads
  <2>2. autotuning = {} BY Zenon, <1>2 DEF Generations
  <2>3. ASSUME NEW j \in Keys
        PROVE  /\ loaded[j] \in CacheEntry /\ loaded[j].state # "match"
               /\ loaded[j].state = "unverified" /\ loaded[j].sum = "current" => loaded[j].index \in Indices
    <3>1. CASE Kept(j) = {}
      <4>1. loaded[j] = NoEntry BY Zenon, <2>1, <3>1
      <4> QED BY <4>1 DEF NoEntry, CacheEntry, Sums
    <3>2. CASE Kept(j) # {}
      <4>1. loaded[j] = [state |-> "unverified", sum |-> pick[j], index |-> disk[j][pick[j]]] BY Zenon, <2>1, <3>2
      <4>2. pick[j] \in Sums /\ disk[j][pick[j]] # NoIndex BY Zenon, <2>1, <3>2
      <4>3. disk[j] \in [current : Indices \cup {NoIndex}, old : {Stale, NoIndex}] BY Zenon, CacheTypes
      <4>4. pick[j] = "current" \/ pick[j] = "old" BY Zenon, <4>2 DEF Sums
      <4>5. disk[j][pick[j]] \in Indices \cup {Stale, NoIndex} /\ (pick[j] = "current" => disk[j][pick[j]] \in Indices)
        BY Zenon, <4>2, <4>3, <4>4
      <4> QED BY <4>1, <4>2, <4>5 DEF CacheEntry
    <3> QED BY Zenon, <3>1, <3>2
  <2>4. loaded \in [Keys -> CacheEntry]
    <3>1. DOMAIN loaded = Keys /\ loaded = [k \in Keys |-> loaded[k]] BY Zenon, <2>1
    <3> QED BY Zenon, <2>3, <3>1
  <2> QED BY Zenon, <1>2, <2>2, <2>3, <2>4
<1> QED BY Zenon, <1>1, <1>2

(* validate_checksum decides on the entry of the key, and on nothing else. *)
LEMMA ValidatedFacts ==
  ASSUME NEW c \in [Keys -> CacheEntry], NEW k \in Keys
  PROVE  /\ Validated(c, k) \in [Keys -> CacheEntry] /\ Validated(c, k)[k].state # "unverified"
         /\ Validated(c, k)[k].index = c[k].index
         /\ \A j \in Keys : j # k \/ c[j].state # "unverified" => Validated(c, k)[j] = c[j]
         /\ Validated(c, k)[k].state = "match" =>
              c[k].state = "match" \/ (c[k].state = "unverified" /\ c[k].sum = "current")
<1>1. CASE c[k].state # "unverified" BY Zenon, <1>1 DEF Validated
<1>2. CASE c[k].state = "unverified"
  <2>1. PICK to \in {"match", "nomatch"} :
          /\ Validated(c, k) = [c EXCEPT ![k].state = to] /\ (to = "match" <=> c[k].sum = "current")
    BY Zenon, <1>2 DEF Validated
  <2>2. PICK e : e = [c[k] EXCEPT !.state = to] BY Zenon
  <2>3. e \in CacheEntry /\ e.state = to /\ e.index = c[k].index BY Zenon, <2>2 DEF CacheEntry
  <2>4. Validated(c, k) = [c EXCEPT ![k] = e] BY Zenon, <2>1, <2>2
  <2>5. /\ Validated(c, k) \in [Keys -> CacheEntry] /\ Validated(c, k)[k] = e
        /\ \A j \in Keys : j # k => Validated(c, k)[j] = c[j]
    BY Zenon, <2>3, <2>4
  <2> QED BY Zenon, <1>2, <2>1, <2>3, <2>5
<1> QED BY Zenon, <1>1, <1>2

(* A call looks a key up: the results on their way stay there, and a       *)
(* benchmark is started only where there is none.                          *)
LEMMA ExecuteResults ==
  ASSUME TunerInv, NEW t \in Threads, NEW k \in Keys, NEW tune \in BOOLEAN,
         channel' = channel, tasks' = tasks, gen' = IF gen = 0 THEN clears + 1 ELSE gen,
         pc[t] = "idle", pc'[t] = "job" <=> tune, key'[t] = k,
         \A u \in Threads \ {t} : pc'[u] = pc[u] /\ key'[u] = key[u] /\ sender'[u] = sender[u],
         tune => sender'[t] = gen' /\ k \notin autotuning /\ cache'[k].state # "match",
         autotuning' = IF tune THEN autotuning \cup {k} ELSE autotuning,
         \A j \in autotuning : cache'[j] = cache[j]
  PROVE  ResultsOnTheWay'
<1> USE DEF TunerInv
<1>1. /\ gen' # gen => gen = 0 /\ gen' > Latest /\ autotuning = {}
      /\ \A u \in Threads : sender[u] <= Latest /\ sender[u] \in Nat
      /\ \A x \in tasks : x.gen <= Latest /\ x.gen > 0 /\ x.gen \in Nat
      /\ gen' \in Nat /\ Latest \in Nat
  BY BuildTypes, ThreadTypes, TasksType DEF Generations, Latest
<1>2. \A j \in Keys : Sent(j)' = Sent(j) BY Zenon DEF Sent
<1>3. ASSUME NEW j \in Keys PROVE Task(j)' \in tasks' <=> Task(j) \in tasks
  <2>1. CASE gen' = gen BY Zenon, <2>1 DEF Task
  <2>2. CASE gen' # gen
    <3>1. Task(j)'.gen = gen' /\ Task(j).gen = gen BY Zenon DEF Task
    <3>2. Task(j)' \notin tasks BY <1>1, <2>2, <3>1
    <3>3. Task(j) \notin tasks BY <1>1, <2>2, <3>1
    <3> QED BY Zenon, <3>2, <3>3
  <2> QED BY Zenon, <2>1, <2>2
<1>4. ASSUME NEW j \in Keys, NEW u \in Threads, Tunes(u, j)', ~(tune /\ j = k) PROVE Tunes(u, j)
  <2>1. u # t BY Zenon, <1>4 DEF Tunes
  <2>2. pc[u] = "job" /\ sender[u] = gen' /\ key[u] = j BY Zenon, <1>4, <2>1 DEF Tunes
  <2>3. gen' = gen BY <1>1, <2>2
  <2> QED BY Zenon, <2>2, <2>3 DEF Tunes
<1>5. ASSUME NEW j \in Keys, ~(tune /\ j = k) PROVE Undisturbed(j)
  <2>1. j \in autotuning' <=> j \in autotuning BY Zenon, <1>5
  <2>2. ASSUME j \in autotuning
        PROVE  /\ cache'[j].state = "match" <=> cache[j].state = "match"
               /\ \A u \in Threads : key[u] = j /\ sender[u] = gen /\ pc[u] \in {"job", "no_candidate"} =>
                    key'[u] = j /\ sender'[u] = gen' /\ pc'[u] \in {"job", "no_candidate"}
    <3>1. gen' = gen BY Zenon, <1>1, <2>2
    <3>2. \A u \in Threads : pc[u] \in {"job", "no_candidate"} => u # t BY Zenon
    <3> QED BY Zenon, <2>2, <3>1, <3>2
  <2>3. \A u \in Threads : pc[u] = "no_result" => pc'[u] = "no_result" BY Zenon
  <2>4. \A i \in Sent(j) : channel'[i] = channel[i] BY Zenon
  <2> QED BY <1>2, <1>3, <1>4, <1>5, <2>1, <2>2, <2>3, <2>4, Zenon DEF Undisturbed
<1>6. ASSUME tune PROVE OneResult(k)' /\ ResultComes(k)'
  <2>1. OneResult(k) BY Zenon DEF ResultsOnTheWay
  <2>2. Sent(k) = {} /\ Task(k) \notin tasks BY <1>6, <2>1, Zenon DEF OneResult
  <2>3. \A u \in Threads : Tunes(u, k)' => u = t
    <3> SUFFICES ASSUME NEW u \in Threads, Tunes(u, k)', u # t PROVE FALSE BY Zenon
    <3>1. pc[u] = "job" /\ sender[u] = gen' /\ key[u] = k BY Zenon DEF Tunes
    <3>2. gen' = gen BY <1>1, <3>1
    <3>3. Tunes(u, k) BY Zenon, <3>1, <3>2 DEF Tunes
    <3> QED BY <1>6, <2>1, <3>3, Zenon DEF OneResult
  <2>4. OneResult(k)'
    <3>1. Sent(k)' = {} /\ Task(k)' \notin tasks' BY Zenon, <1>2, <1>3, <2>2
    <3>2. k \in autotuning' /\ cache'[k].state # "match" BY Zenon, <1>6
    <3> QED BY Zenon, <2>3, <3>1, <3>2 DEF OneResult
  <2>5. ResultComes(k)' BY Zenon, <1>6 DEF ResultComes
  <2> QED BY Zenon, <2>4, <2>5
<1> QED BY Zenon, <1>5, <1>6, KeyKept DEF ResultsOnTheWay

(* A call finds its key: it runs, tunes or waits.                          *)
LEMMA ExecuteStep ==
  ASSUME TunerInv, NEW t \in Threads, NEW k \in Keys, Execute(t, k)
  PROVE  /\ TunerInv'
         /\ \A j \in Keys : gen # 0 /\ cache[j].state # "unverified" => cache'[j] = cache[j]
<1> USE DEF TunerInv
<1>1. /\ pc[t] = "idle" /\ lock = None /\ key' = [key EXCEPT ![t] = k]
      /\ gen' = IF gen = 0 THEN clears + 1 ELSE gen
      /\ lock' = lock /\ channel' = channel /\ disk' = disk /\ tasks' = tasks /\ clears' = clears
      /\ platform' = platform /\ candidates' = candidates /\ logging' = logging
  BY Zenon DEF Execute, build
<1> USE <1>1
<1>2. PICK loaded \in (IF gen = 0 THEN Loads ELSE {cache}) :
        LET c == Validated(loaded, k)
            found == Fastest(c, k)
            tuned == found \notin {"hit", "pending"} /\ k \notin autotuning
        IN  /\ cache' = c
            /\ index' = [index EXCEPT ![t] = CASE found = "hit" -> c[k].index
                                               [] found = "pending" -> 0
                                               [] OTHER -> NoIndex]
            /\ Go(t, IF found \in {"hit", "pending"} THEN "run" ELSE IF tuned THEN "job" ELSE "wait")
            /\ autotuning' = IF tuned THEN autotuning \cup {k} ELSE autotuning
            /\ benchmarks' = IF tuned THEN [benchmarks EXCEPT ![k] = @ + 1] ELSE benchmarks
            /\ sender' = [sender EXCEPT ![t] = IF tuned THEN gen' ELSE @]
  BY Zenon DEF Execute, MustTune
<1> DEFINE found == Fastest(cache', k)
           tune == found \notin {"hit", "pending"} /\ k \notin autotuning
           to == IF found \in {"hit", "pending"} THEN "run" ELSE IF tune THEN "job" ELSE "wait"
           i == CASE found = "hit" -> cache'[k].index [] found = "pending" -> 0 [] OTHER -> NoIndex
<1>22. /\ cache' = Validated(loaded, k) /\ index' = [index EXCEPT ![t] = i] /\ Go(t, to)
       /\ autotuning' = IF tune THEN autotuning \cup {k} ELSE autotuning
       /\ benchmarks' = IF tune THEN [benchmarks EXCEPT ![k] = @ + 1] ELSE benchmarks
       /\ sender' = [sender EXCEPT ![t] = IF tune THEN gen' ELSE @]
  BY <1>2, Zenon
<1>3. Indices' = Indices /\ CacheEntry' = CacheEntry /\ Message' = Message BY Zenon, SameBuild
<1>4. /\ gen' \in 0 .. MaxClears + 1 /\ gen' = clears + 1 /\ clears \in Nat
      /\ Latest \in Nat /\ Latest <= gen' /\ Latest' = gen' /\ (gen = 0 => Latest < gen')
  BY BuildTypes, TunerAssumption DEF Generations, Latest
<1>5. /\ cache' \in [Keys -> CacheEntry] /\ cache'[k].state # "unverified"
      /\ \A j \in Keys :
           /\ gen # 0 /\ cache[j].state # "unverified" => cache'[j] = cache[j]
           /\ cache'[j].state = "match" => cache'[j].index \in Indices
           /\ cache'[j].state = "unverified" /\ cache'[j].sum = "current" => cache'[j].index \in Indices
           /\ j \in autotuning => gen # 0 /\ cache'[j].state # "unverified" /\ cache'[j] = cache[j]
  <2>1. /\ loaded \in [Keys -> CacheEntry] /\ (gen # 0 => loaded = cache)
        /\ \A j \in Keys :
             /\ loaded[j].state = "match" => loaded[j].index \in Indices
             /\ loaded[j].state = "unverified" /\ loaded[j].sum = "current" => loaded[j].index \in Indices
             /\ j \in autotuning => gen # 0 /\ loaded[j].state # "unverified"
    BY Zenon, LoadFacts
  <2>2. /\ cache' \in [Keys -> CacheEntry] /\ cache'[k].state # "unverified"
        /\ cache'[k].index = loaded[k].index
        /\ \A j \in Keys : j # k \/ loaded[j].state # "unverified" => cache'[j] = loaded[j]
        /\ cache'[k].state = "match" =>
             loaded[k].state = "match" \/ (loaded[k].state = "unverified" /\ loaded[k].sum = "current")
    BY <1>22, <2>1, ValidatedFacts
  <2>3. ASSUME NEW j \in Keys
        PROVE  /\ gen # 0 /\ cache[j].state # "unverified" => cache'[j] = cache[j]
               /\ cache'[j].state = "match" => cache'[j].index \in Indices
               /\ cache'[j].state = "unverified" /\ cache'[j].sum = "current" => cache'[j].index \in Indices
               /\ j \in autotuning => gen # 0 /\ cache'[j].state # "unverified" /\ cache'[j] = cache[j]
    <3>1. CASE j = k BY Zenon, <2>1, <2>2, <3>1
    <3>2. CASE j # k
      <4>1. cache'[j] = loaded[j] BY Zenon, <2>2, <3>2
      <4> QED BY Zenon, <2>1, <4>1
    <3> QED BY Zenon, <3>1, <3>2
  <2> QED BY Zenon, <2>2, <2>3
<1>6. /\ to \in {"run", "job", "wait"} /\ (to = "job" <=> tune)
      /\ i \in Indices \cup {NoIndex, Stale} /\ (to = "run" => i \in Indices)
      /\ to = "run" => i = 0 \/ (cache'[k].state = "match" /\ i = cache'[k].index)
      /\ tune => k \notin autotuning /\ cache'[k].state # "match"
  <2>1. /\ Fastest(cache', k) = "hit" <=> cache'[k].state = "match"
        /\ cache'[k].index \in Indices \cup {Stale, NoIndex}
    BY Zenon, <1>5 DEF Fastest, CacheEntry
  <2>2. 0 \in Indices BY Zenon, ZeroIsIndex
  <2>3. cache'[k].state = "match" => cache'[k].index \in Indices BY Zenon, <1>5
  <2> QED BY Zenon, <2>1, <2>2, <2>3
<1> HIDE DEF found, tune, to, i
<1>7. /\ pc' \in [Threads -> Steps] /\ pc'[t] = to /\ \A u \in Threads \ {t} : pc'[u] = pc[u]
  <2>1. to \in Steps BY Zenon, <1>6, IsStep
  <2>2. Go(t, to) BY Zenon, <1>22
  <2> QED BY Zenon, <2>1, <2>2, ThreadGoes
<1>8. /\ key' \in [Threads -> Keys] /\ key'[t] = k
      /\ sender' \in [Threads -> 0 .. MaxClears + 1] /\ (tune => sender'[t] = gen') /\ (~tune => sender'[t] = sender[t])
      /\ index' \in [Threads -> Indices \cup {NoIndex, Stale}] /\ index'[t] = i
      /\ \A u \in Threads \ {t} : key'[u] = key[u] /\ sender'[u] = sender[u] /\ index'[u] = index[u]
  <2>1. key' \in [Threads -> Keys] /\ key'[t] = k /\ \A u \in Threads \ {t} : key'[u] = key[u]
    BY Zenon, ThreadTypes
  <2>2. /\ index' \in [Threads -> Indices \cup {NoIndex, Stale}] /\ index'[t] = i
        /\ \A u \in Threads \ {t} : index'[u] = index[u]
    BY Zenon, <1>22, <1>6, ThreadTypes
  <2>3. sender' = [sender EXCEPT ![t] = IF tune THEN gen' ELSE sender[t]] BY Zenon, <1>22, ThreadTypes
  <2>4. /\ sender' \in [Threads -> 0 .. MaxClears + 1] /\ (tune => sender'[t] = gen')
        /\ (~tune => sender'[t] = sender[t]) /\ \A u \in Threads \ {t} : sender'[u] = sender[u]
    BY Zenon, <1>4, <2>3, ThreadTypes
  <2> QED BY Zenon, <2>1, <2>2, <2>4
<1>9. /\ autotuning' \subseteq Keys /\ autotuning' = IF tune THEN autotuning \cup {k} ELSE autotuning
      /\ benchmarks' \in [Keys -> Nat]
      /\ \A j \in Keys : benchmarks'[j] = IF j \in autotuning' THEN 1 ELSE 0
  <2>1. /\ autotuning' = IF tune THEN autotuning \cup {k} ELSE autotuning
        /\ benchmarks' = IF tune THEN [benchmarks EXCEPT ![k] = benchmarks[k] + 1] ELSE benchmarks
    BY Zenon, <1>22, CacheTypes
  <2>2. \A j \in Keys : benchmarks[j] = IF j \in autotuning THEN 1 ELSE 0 BY Zenon DEF EntriesSound
  <2>3. CASE tune
    <3>1. benchmarks[k] = 0 BY Zenon, <1>6, <2>2, <2>3
    <3>2. benchmarks' = [benchmarks EXCEPT ![k] = 1] BY <2>1, <2>3, <3>1
    <3> QED BY <2>1, <2>2, <2>3, <3>2, CacheTypes
  <2>4. CASE ~tune
    <3>1. autotuning' = autotuning /\ benchmarks' = benchmarks BY <2>1, <2>4, Zenon
    <3> QED BY Zenon, <2>1, <2>2, <3>1, CacheTypes
  <2> QED BY Zenon, <2>3, <2>4
<1>10. TypeOK'
  <2>1. gen' \in 0 .. MaxClears + 1 BY <1>4, Zenon
  <2> QED BY <1>3, <1>5, <1>7, <1>8, <1>9, <2>1, Zenon DEF TypeOK, Steps
<1>11. TunedOnce' BY <1>9 DEF TunedOnce
<1>12. RunsKnown'
  <2>1. \A j \in Keys : cache[j].state = "match" => cache'[j] = cache[j]
    <3>1. gen = 0 => \A j \in Keys : cache[j].state = "none" BY DEF Generations, NoEntry
    <3> QED BY Zenon, <1>5, <3>1
  <2>2. to = "run" => i = 0 \/ (cache'[k].state = "match" /\ i = cache'[k].index) BY Zenon, <1>6
  <2>3. ASSUME NEW u \in Threads, pc'[u] \in {"run", "failed_run"}
        PROVE  /\ index'[u] \in Indices
               /\ \/ index'[u] = 0 \/ clears' > 0
                  \/ cache'[key'[u]].state = "match" /\ cache'[key'[u]].index = index'[u]
    <3>1. CASE u = t BY Zenon, <1>6, <1>7, <1>8, <2>2, <2>3, <3>1
    <3>2. CASE u # t
      <4>1. pc[u] \in {"run", "failed_run"} /\ index'[u] = index[u] /\ key'[u] = key[u] /\ key[u] \in Keys
        BY Zenon, <1>7, <1>8, <2>3, <3>2, ThreadTypes
      <4> QED BY Zenon, <2>1, <4>1 DEF RunsKnown, Caches
    <3> QED BY Zenon, <3>1, <3>2
  <2> QED BY Zenon, <1>3, <2>3 DEF RunsKnown, Caches
<1>13. PanicsAccounted' BY Zenon, <1>6, <1>7 DEF PanicsAccounted
<1>14. LockHeld' BY Zenon, <1>6, <1>7 DEF LockHeld
<1>15. Generations'
  <2>1. ASSUME NEW u \in Threads PROVE sender'[u] <= Latest' /\ (pc'[u] = "job" => sender'[u] > 0)
    <3>1. sender[u] <= Latest /\ (pc[u] = "job" => sender[u] > 0) /\ sender[u] \in Nat
      BY ThreadTypes DEF Generations
    <3> QED BY <1>4, <1>6, <1>7, <1>8, <3>1
  <2>2. ASSUME NEW task \in tasks' PROVE task.gen <= Latest' /\ task.gen > 0
    <3>1. task.gen <= Latest /\ task.gen > 0 /\ task.gen \in Nat BY TasksType DEF Generations
    <3> QED BY SMTT(20), <1>4, <3>1
  <2> QED BY SMTT(20), <1>4, <2>1, <2>2 DEF Generations
<1>16. EntriesSound' /\ MessagesSound'
  <2>1. \A j \in Keys : j \in autotuning' => cache'[j].state # "unverified" BY Zenon, <1>5, <1>9
  <2>2. EntriesSound' BY Zenon, <1>3, <1>5, <1>9, <2>1 DEF EntriesSound
  <2>3. MessagesSound' BY Zenon, <1>3 DEF MessagesSound
  <2> QED BY Zenon, <2>2, <2>3
<1>17. CallsKnown'
  <2> SUFFICES ASSUME NEW u \in Threads, pc'[u] \in {"job", "wait", "drain"}, clears' = 0
               PROVE  gen' # 0 /\ cache'[key'[u]].state # "unverified" /\ (pc'[u] = "job" => sender'[u] = gen')
    BY Zenon DEF CallsKnown
  <2>1. CASE u = t BY <1>4, <1>5, <1>6, <1>7, <1>8, <2>1
  <2>2. CASE u # t
    <3>1. /\ gen # 0 /\ cache[key[u]].state # "unverified" /\ (pc[u] = "job" => sender[u] = gen) /\ key[u] \in Keys
      BY Zenon, <1>7, <2>2, ThreadTypes DEF CallsKnown
    <3> QED BY Zenon, <1>4, <1>5, <1>7, <1>8, <2>2, <3>1
  <2> QED BY Zenon, <2>1, <2>2
<1>18. ResultsOnTheWay'
  <2>1. tune \in BOOLEAN BY Zenon DEF tune
  <2>2. \A j \in autotuning : cache'[j] = cache[j] BY Zenon, <1>5, CacheTypes
  <2>3. \A u \in Threads \ {t} : pc'[u] = pc[u] /\ key'[u] = key[u] /\ sender'[u] = sender[u] BY Zenon, <1>7, <1>8
  <2>4. (pc'[t] = "job" <=> tune) /\ key'[t] = k BY Zenon, <1>6, <1>7, <1>8
  <2>5. tune => sender'[t] = gen' /\ k \notin autotuning /\ cache'[k].state # "match" BY Zenon, <1>6, <1>8
  <2>6. autotuning' = IF tune THEN autotuning \cup {k} ELSE autotuning BY Zenon, <1>9
  <2> QED BY Zenon, <2>1, <2>2, <2>3, <2>4, <2>5, <2>6, ExecuteResults
<1> QED BY Zenon, <1>5, <1>10, <1>11, <1>12, <1>13, <1>14, <1>15, <1>16, <1>17, <1>18

LEMMA TunerInit == Init => TunerInv
<1> SUFFICES ASSUME Init PROVE TunerInv BY Zenon
<1>1. /\ platform \in Platforms /\ candidates \in 1 .. MaxTunables /\ logging \in BOOLEAN
      /\ lock = None /\ gen = 0 /\ clears = 0 /\ cache = [k \in Keys |-> NoEntry]
      /\ autotuning = {} /\ channel = <<>> /\ tasks = {} /\ pc = [t \in Threads |-> "idle"]
      /\ disk \in [Keys -> [current : Indices \cup {NoIndex}, old : {Stale, NoIndex}]]
      /\ key = [t \in Threads |-> CHOOSE k \in Keys : TRUE] /\ sender = [t \in Threads |-> 0]
      /\ index = [t \in Threads |-> NoIndex] /\ benchmarks = [k \in Keys |-> 0]
  BY Zenon DEF Init
<1> USE <1>1
<1>2. NoEntry \in CacheEntry /\ NoEntry.state = "none" BY Zenon DEF NoEntry, CacheEntry, Sums
<1>3. TypeOK
  <2>1. lock \in Threads \cup {None} /\ gen \in 0 .. MaxClears + 1 /\ clears \in 0 .. MaxClears
    BY TunerAssumption
  <2>2. cache \in [Keys -> CacheEntry] /\ benchmarks \in [Keys -> Nat] /\ autotuning \subseteq Keys BY Zenon, <1>2
  <2>3. channel \in Seq(Message) OBVIOUS
  <2>4. tasks \subseteq [key : Keys, gen : 0 .. MaxClears + 1] BY Zenon
  <2>5. pc \in [Threads -> Steps] BY Zenon, IsStep
  <2>6. (CHOOSE k \in Keys : TRUE) \in Keys BY TunerAssumption, Zenon
  <2>7. key \in [Threads -> Keys] BY <2>6, Zenon
  <2>8. sender \in [Threads -> 0 .. MaxClears + 1] /\ index \in [Threads -> Indices \cup {NoIndex, Stale}]
    BY TunerAssumption
  <2> QED BY <2>1, <2>2, <2>3, <2>4, <2>5, <2>7, <2>8, Zenon DEF TypeOK, Steps
<1>4. TunedOnce /\ RunsKnown /\ PanicsAccounted BY DEF TunedOnce, RunsKnown, PanicsAccounted
<1>5. LockHeld BY TunerAssumption, Zenon DEF LockHeld
<1>6. Generations BY DEF Generations, Latest
<1>7. EntriesSound /\ MessagesSound BY <1>2 DEF EntriesSound, MessagesSound
<1>8. CallsKnown BY Zenon DEF CallsKnown
<1>9. ResultsOnTheWay
  <2>1. \A k \in Keys : OneResult(k) BY DEF OneResult, Tunes, Sent
  <2> QED BY Zenon, <2>1 DEF ResultsOnTheWay
<1> QED BY Zenon, <1>3, <1>4, <1>5, <1>6, <1>7, <1>8, <1>9 DEF TunerInv

LEMMA RunningAreThreads == RunningThreads \subseteq Threads
<1>1. (CHOOSE t \in Threads : TRUE) \in Threads BY TunerAssumption, Zenon
<1> QED BY Zenon, <1>1 DEF RunningThreads

LEMMA TunerNext == TunerInv /\ [Next]_vars => TunerInv'
<1> SUFFICES ASSUME TunerInv, [Next]_vars PROVE TunerInv' BY Zenon
<1>1. CASE UNCHANGED vars
  <2>1. /\ gen' = gen /\ cache' = cache /\ autotuning' = autotuning /\ channel' = channel
        /\ benchmarks' = benchmarks /\ tasks' = tasks /\ key' = key /\ sender' = sender /\ clears' = clears
        /\ platform' = platform /\ candidates' = candidates /\ logging' = logging
        /\ pc' = pc /\ lock' = lock /\ index' = index /\ disk' = disk
    BY Zenon, <1>1 DEF vars, tunerVars, build
  <2>2. Indices' = Indices /\ CacheEntry' = CacheEntry /\ Message' = Message BY Zenon, <2>1, SameBuild
  <2>3. TypeOK' BY <2>1, <2>2, Zenon DEF TunerInv, TypeOK
  <2>4. RunsKnown' /\ PanicsAccounted' /\ LockHeld'
    BY Zenon, <2>1, <2>2 DEF TunerInv, RunsKnown, Caches, PanicsAccounted, LockHeld
  <2> QED BY Zenon, <2>1, <2>3, <2>4, QuietStep
<1>2. ASSUME NEW t \in RunningThreads, ThreadStep(t) \/ Clear(t) \/ \E k \in Keys : Execute(t, k) PROVE TunerInv'
  <2>1. t \in Threads BY Zenon, RunningAreThreads
  <2> QED BY Zenon, <1>2, <2>1, RunJobStep, ThreadAloneStep, DrainStep, ClearStep, ExecuteStep DEF ThreadStep
<1> QED BY Zenon, <1>1, <1>2, TaskEndsStep, OtherProcessStep DEF Next

(* For any number of threads, keys, candidates and clears: a Tuner          *)
(* benchmarks a key once; before a clear a call runs the default or the     *)
(* candidate cached for its key, always one of the present set; and of the  *)
(* assertions about the tuner itself none fails but for a clear or an       *)
(* unmeasured result in the log (an operation's own error is RunFails).     *)
THEOREM TunerSound == Spec => []TunerInv
BY TunerInit, TunerNext, PTL DEF Spec

LEMMA MeanwhileFollows == TunerInv => DefaultOnlyMeanwhile
<1> SUFFICES ASSUME TunerInv, NEW t \in Threads, pc[t] = "drain", channel = <<>>,
                    Fastest(cache, key[t]) # "hit", benchmarks[key[t]] > 0
             PROVE  \/ \E u \in Threads : key[u] = key[t] /\ sender[u] = gen /\ pc[u] \in {"job", "no_candidate"}
                    \/ \E u \in Threads : pc[u] = "no_result"
                    \/ \E task \in tasks : task.key = key[t] /\ task.gen = gen
  BY Zenon DEF DefaultOnlyMeanwhile
<1> USE DEF TunerInv
<1>1. PICK k \in Keys : k = key[t] BY Zenon, ThreadTypes
<1>2. k \in autotuning BY <1>1 DEF EntriesSound
<1>3. cache[k].state # "match" BY Zenon, <1>1 DEF Fastest
<1>4. Sent(k) = {} BY DEF Sent
<1>5. Task(k).key = k /\ Task(k).gen = gen BY Zenon DEF Task
<1>6. ResultComes(k) BY Zenon, <1>2 DEF ResultsOnTheWay
<1> QED BY Zenon, <1>1, <1>3, <1>4, <1>5, <1>6 DEF ResultComes

(* For any number of threads and keys: a call that runs the default        *)
(* although its key was benchmarked does so only while the result is on    *)
(* its way, or after a panic.                                              *)
THEOREM ResultsNotLost == Spec => []DefaultOnlyMeanwhile
BY TunerSound, MeanwhileFollows, PTL

LEMMA FastestKept ==
  ASSUME TunerInv, [Next]_vars
  PROVE  [\A k \in Keys : Fastest(cache, k) = "hit" /\ gen' = gen => cache'[k] = cache[k]]_vars
<1> SUFFICES ASSUME Next, NEW k \in Keys, Fastest(cache, k) = "hit", gen' = gen
             PROVE  cache'[k] = cache[k]
  BY Zenon
<1> USE DEF TunerInv
<1>1. cache[k].state = "match" BY Zenon DEF Fastest
<1>2. gen # 0 BY <1>1 DEF Generations, NoEntry
<1>3. ASSUME NEW t \in RunningThreads, ThreadStep(t) PROVE cache'[k] = cache[k]
  <2>1. CASE ~Drain(t)
    BY Zenon, <1>3, <2>1 DEF ThreadStep, RunJob, JobFails, Relock, Settle, Return, RunFails, tunerVars
  <2>2. CASE Drain(t)
    <3>1. channel # <<>> /\ channel' = Tail(channel) BY Zenon, <2>2 DEF Drain
    <3>2. PICK m \in Message : m = Head(channel) /\ m = channel[1] /\ 1 \in DOMAIN channel BY <3>1, Dequeued
    <3>3. 1 \in Sent(k) => cache[k].state # "match" BY Zenon DEF OneResult, ResultsOnTheWay
    <3>4. m.key # k BY Zenon, <1>1, <3>2, <3>3 DEF Sent
    <3>5. cache' = cache \/ cache' = HandleResult(cache, m) BY Zenon, <2>2, <3>2 DEF Drain
    <3> QED BY Zenon, <3>4, <3>5, CacheTypes DEF HandleResult
  <2> QED BY Zenon, <2>1, <2>2
<1>4. ASSUME NEW t \in RunningThreads, Clear(t) PROVE cache'[k] = cache[k]
  BY Zenon, <1>2, <1>4 DEF Clear
<1>5. ASSUME NEW t \in RunningThreads, NEW j \in Keys, Execute(t, j) PROVE cache'[k] = cache[k]
  BY Zenon, <1>1, <1>2, <1>5, ExecuteStep, RunningAreThreads
<1>6. CASE TaskEnds \/ OtherProcess BY Zenon, <1>6 DEF TaskEnds, OtherProcess, tunerVars
<1> QED BY Zenon, <1>3, <1>4, <1>5, <1>6 DEF Next

(* For any number of threads and keys: the fastest candidate of a Tuner,   *)
(* once known, is never replaced.                                          *)
THEOREM FastestNeverReplaced == Spec => FastestStable
<1>1. TunerInv /\ [Next]_vars
        => [\A k \in Keys : Fastest(cache, k) = "hit" /\ gen' = gen => cache'[k] = cache[k]]_vars
  BY Zenon, FastestKept
<1> QED BY <1>1, TunerSound, PTL DEF Spec, FastestStable

=============================================================================
