----------------------------- MODULE ServerProofs -----------------------------
(***************************************************************************)
(* What a compute server rests on, for every value of the constants.       *)
(*  - Its channel, for any number of clients and messages: the operations  *)
(*    of a client are applied once and in the order of its program, and    *)
(*    what returned was applied.                                           *)
(*  - Its memory, for all pools, page sizes and sequences of operations:   *)
(*    pages and storage agree, and a page whose slice is held stays.       *)
(***************************************************************************)
EXTENDS MpscChannel, ExclusiveMemory, SequenceTheorems, WellFoundedInduction, TLAPS

-----------------------------------------------------------------------------
(* The channel                                                             *)
-----------------------------------------------------------------------------
(* The channel: sequences of messages                                      *)

(* A sequence followed by another one.                                     *)
LEMMA Joined ==
  ASSUME NEW S, NEW s \in Seq(S), NEW t \in Seq(S)
  PROVE  /\ s \o t \in Seq(S) /\ Len(s \o t) = Len(s) + Len(t)
         /\ \A i \in 1 .. Len(s) : (s \o t)[i] = s[i]
         /\ \A i \in 1 .. Len(t) : (s \o t)[Len(s) + i] = t[i]
OBVIOUS

LEMMA Extended ==
  ASSUME NEW S, NEW s \in Seq(S), NEW x \in S
  PROVE  /\ Append(s, x) \in Seq(S) /\ Len(Append(s, x)) = Len(s) + 1
         /\ \A i \in 1 .. Len(s) : Append(s, x)[i] = s[i]
         /\ Append(s, x)[Len(s) + 1] = x
         /\ Range(Append(s, x)) = Range(s) \cup {x}
<1>1. /\ Append(s, x) \in Seq(S) /\ Len(Append(s, x)) = Len(s) + 1
      /\ \A i \in 1 .. Len(s) : Append(s, x)[i] = s[i]
      /\ Append(s, x)[Len(s) + 1] = x
  OBVIOUS
<1>2. Len(s) \in Nat /\ DOMAIN s = 1 .. Len(s) /\ DOMAIN Append(s, x) = 1 .. Len(s) + 1
  BY <1>1
<1>3. Range(Append(s, x)) = Range(s) \cup {x}
  BY <1>1, <1>2 DEF Range
<1> QED BY Zenon, <1>1, <1>3

LEMMA Shifted ==
  ASSUME NEW S, NEW s \in Seq(S), NEW t \in Seq(S), t # <<>>
  PROVE  /\ Head(t) \in S /\ Tail(t) \in Seq(S)
         /\ Append(s, Head(t)) \o Tail(t) = s \o t
         /\ Range(Tail(t)) \subseteq Range(t) /\ Head(t) \in Range(t)
<1>1. /\ Head(t) \in S /\ Tail(t) \in Seq(S) /\ Len(Tail(t)) = Len(t) - 1 /\ Len(t) \in Nat \ {0}
      /\ Head(t) = t[1] /\ \A i \in 1 .. Len(t) - 1 : Tail(t)[i] = t[i + 1]
  OBVIOUS
<1>2. Range(Tail(t)) \subseteq Range(t) /\ Head(t) \in Range(t)
  BY <1>1 DEF Range
<1> DEFINE l == Append(s, Head(t)) \o Tail(t)
           r == s \o t
<1>3. /\ l \in Seq(S) /\ Len(l) = Len(s) + 1 + (Len(t) - 1)
      /\ \A i \in 1 .. Len(s) : l[i] = s[i]
      /\ l[Len(s) + 1] = t[1]
      /\ \A i \in 1 .. Len(t) - 1 : l[Len(s) + 1 + i] = t[i + 1]
  BY <1>1, Joined, Extended
<1>4. /\ r \in Seq(S) /\ Len(r) = Len(s) + Len(t) /\ Len(s) \in Nat
      /\ \A i \in 1 .. Len(s) : r[i] = s[i]
      /\ \A i \in 1 .. Len(t) : r[Len(s) + i] = t[i]
  BY Joined
<1> HIDE DEF l, r
<1>5. Len(l) = Len(r) BY <1>1, <1>3, <1>4
<1>6. ASSUME NEW i \in 1 .. Len(l) PROVE l[i] = r[i]
  <2>1. CASE i <= Len(s) BY <2>1, <1>3, <1>4
  <2>2. CASE i = Len(s) + 1 BY <2>2, <1>1, <1>3, <1>4
  <2>3. CASE i > Len(s) + 1
    <3> DEFINE k == i - (Len(s) + 1)
    <3>1. k \in 1 .. Len(t) - 1 /\ i = Len(s) + 1 + k /\ i = Len(s) + (k + 1) /\ k + 1 \in 1 .. Len(t)
      BY <2>3, <1>1, <1>3, <1>4
    <3>2. l[Len(s) + 1 + k] = t[k + 1] /\ r[Len(s) + (k + 1)] = t[k + 1]
      BY Zenon, <3>1, <1>3, <1>4
    <3> QED BY Zenon, <3>1, <3>2
  <2> QED BY <2>1, <2>2, <2>3, <1>3, <1>4
<1>7. l = r BY Zenon, <1>3, <1>4, <1>5, <1>6, SeqEqual
<1> QED BY Zenon, <1>1, <1>2, <1>7 DEF l, r

(* Sending appends to the log.                                             *)
LEMMA Sent ==
  ASSUME NEW S, NEW s \in Seq(S), NEW t \in Seq(S), NEW x \in S
  PROVE  s \o Append(t, x) = Append(s \o t, x)
OBVIOUS

-----------------------------------------------------------------------------
(* The channel: what is issued and what is sent                            *)

LEMMA MessageFields ==
  ASSUME NEW m \in Messages
  PROVE  m.by \in Clients /\ m.nr \in Nat /\ m.nr \in 1 .. MaxMessages /\ m.kind \in MessageKinds
BY ChannelAssumption DEF Messages

LEMMA QueueTypes ==
  ASSUME ChannelTypeOK
  PROVE  /\ queue \in Seq(Messages) /\ applied \in Seq(Messages)
         /\ serving # NoMessage => serving \in Messages
BY Zenon DEF ChannelTypeOK

LEMMA IssuedType ==
  ASSUME ChannelTypeOK
  PROVE  /\ issued \in [Clients -> Seq(MessageKinds)]
         /\ \A c \in Clients : Len(issued[c]) <= MaxMessages
BY Zenon DEF ChannelTypeOK

FutureStates == [state : {"none", "created", "sent"}, nr : 0 .. MaxMessages]

LEMMA ClientTypes ==
  ASSUME ChannelTypeOK
  PROVE  /\ waits \in [Clients -> {"idle", "waiting", "panicked"}]
         /\ future \in [Clients -> FutureStates]
BY Zenon DEF ChannelTypeOK, FutureStates

LEMMA NoFutureType == NoFuture \in FutureStates /\ NoFuture.state = "none"
BY ChannelAssumption DEF NoFuture, FutureStates

LEMMA LogType ==
  ASSUME ChannelTypeOK
  PROVE  /\ Log \in Seq(Messages) /\ Len(Log) = Len(applied) + Len(queue)
         /\ DOMAIN Log = 1 .. Len(Log)
         /\ DOMAIN applied = 1 .. Len(applied) /\ DOMAIN queue = 1 .. Len(queue)
         /\ \A i \in 1 .. Len(applied) : Log[i] = applied[i]
         /\ \A i \in 1 .. Len(queue) : Log[Len(applied) + i] = queue[i]
         /\ \A c \in Clients : Len(issued[c]) \in Nat /\ DOMAIN issued[c] = 1 .. Len(issued[c])
<1>1. applied \in Seq(Messages) /\ queue \in Seq(Messages) BY Zenon, QueueTypes
<1>2. \A c \in Clients : Len(issued[c]) \in Nat /\ DOMAIN issued[c] = 1 .. Len(issued[c])
  BY IssuedType
<1> QED BY <1>1, <1>2, Joined DEF Log

(* The operations issued so far stay what they are.                        *)
IssuedKept ==
  \A c \in Clients : \A n \in DOMAIN issued[c] :
    n \in DOMAIN issued'[c] /\ issued'[c][n] = issued[c][n]

LogInv == ProgramOrder /\ SentOnce /\ SentIsIssued

(* A message that was not sent before is appended to the log.              *)
LEMMA SendKeepsLog ==
  ASSUME ChannelTypeOK, LogInv, NEW m \in Messages, Log' = Append(Log, m), IssuedKept, alive,
         m.nr \in DOMAIN issued'[m.by], m.kind = issued'[m.by][m.nr],
         \A i \in DOMAIN Log : ~IsMessage(Log[i], m.by, m.nr),
         \A n \in 1 .. m.nr - 1 : n \in DOMAIN issued[m.by],
         \A c \in Clients : \A n \in DOMAIN issued'[c] \ DOMAIN issued[c] :
           issued'[c][n] # "future" => IsMessage(m, c, n)
  PROVE  LogInv'
<1> DEFINE N == Len(Log)
<1>1. /\ Log \in Seq(Messages) /\ N \in Nat /\ DOMAIN Log = 1 .. N /\ DOMAIN Log' = 1 .. N + 1
      /\ \A i \in 1 .. N : Log'[i] = Log[i] /\ Log[i] \in Messages
      /\ Log'[N + 1] = m
  BY LogType, Extended
<1>2. m.by \in Clients /\ m.nr \in Nat /\ \A i \in 1 .. N : Log[i].by \in Clients /\ Log[i].nr \in Nat
  BY <1>1, MessageFields, Zenon
<1> HIDE DEF N
<1>3. ProgramOrder'
  <2> SUFFICES ASSUME NEW j \in 1 .. N + 1, NEW n \in 1 .. Log'[j].nr - 1,
                      issued'[Log'[j].by][n] # "future"
               PROVE  \E i \in 1 .. j - 1 : IsMessage(Log'[i], Log'[j].by, n)
    BY SMTT(20), <1>1 DEF ProgramOrder, IsMessage
  <2>1. CASE j \in 1 .. N
    <3>1. Log'[j] = Log[j] /\ j \in DOMAIN Log /\ Log[j].by \in Clients BY Zenon, <1>1, <1>2, <2>1
    <3>2. Log[j].nr \in DOMAIN issued[Log[j].by] BY Zenon, <3>1 DEF LogInv, SentIsIssued
    <3>3. n \in DOMAIN issued[Log[j].by] BY <3>1, <3>2, LogType
    <3>4. issued[Log[j].by][n] # "future" BY Zenon, <3>1, <3>3 DEF IssuedKept
    <3>5. PICK i \in 1 .. j - 1 : IsMessage(Log[i], Log[j].by, n)
      BY Zenon, <3>1, <3>4 DEF LogInv, ProgramOrder
    <3>6. i \in 1 .. N BY <1>1, <2>1
    <3> QED BY Zenon, <1>1, <3>1, <3>5, <3>6
  <2>2. CASE j = N + 1
    <3>1. n \in DOMAIN issued[m.by] BY Zenon, <1>1, <2>2
    <3>2. issued[m.by][n] # "future" BY Zenon, <1>1, <1>2, <2>2, <3>1 DEF IssuedKept
    <3>3. PICK i \in 1 .. N : IsMessage(Log[i], m.by, n)
      BY Zenon, <1>1, <1>2, <3>1, <3>2 DEF LogInv, SentIsIssued
    <3>4. i \in 1 .. j - 1 BY <1>1, <2>2
    <3> QED BY Zenon, <1>1, <2>2, <3>3, <3>4
  <2> QED BY <1>1, <2>1, <2>2
<1>4. SentOnce'
  <2> SUFFICES ASSUME NEW i \in 1 .. N + 1, NEW j \in 1 .. N + 1,
                      Log'[i].by = Log'[j].by, Log'[i].nr = Log'[j].nr
               PROVE  i = j
    BY Zenon, <1>1 DEF SentOnce
  <2>1. CASE i \in 1 .. N /\ j \in 1 .. N BY <1>1, <2>1 DEF LogInv, SentOnce
  <2>2. CASE i = N + 1 /\ j \in 1 .. N BY Zenon, <1>1, <2>2 DEF IsMessage
  <2>3. CASE j = N + 1 /\ i \in 1 .. N BY Zenon, <1>1, <2>3 DEF IsMessage
  <2> QED BY <1>1, <2>1, <2>2, <2>3
<1>5. SentIsIssued'
  <2>1. ASSUME NEW i \in 1 .. N + 1
        PROVE  /\ Log'[i].nr \in DOMAIN issued'[Log'[i].by]
               /\ Log'[i].kind = issued'[Log'[i].by][Log'[i].nr]
    <3>1. CASE i \in 1 .. N
      <4>1. Log'[i] = Log[i] /\ i \in DOMAIN Log /\ Log[i].by \in Clients BY Zenon, <1>1, <1>2, <3>1
      <4>2. Log[i].nr \in DOMAIN issued[Log[i].by] /\ Log[i].kind = issued[Log[i].by][Log[i].nr]
        BY Zenon, <4>1 DEF LogInv, SentIsIssued
      <4> QED BY <4>1, <4>2, Zenon DEF IssuedKept
    <3>2. CASE i = N + 1 BY Zenon, <1>1, <3>2
    <3> QED BY <1>1, <3>1, <3>2
  <2>2. ASSUME NEW c \in Clients, NEW n \in DOMAIN issued'[c], issued'[c][n] # "future"
        PROVE  \E i \in 1 .. N + 1 : IsMessage(Log'[i], c, n)
    <3>1. CASE n \in DOMAIN issued[c]
      <4>1. issued[c][n] # "future" BY Zenon, <2>2, <3>1 DEF IssuedKept
      <4>2. PICK i \in 1 .. N : IsMessage(Log[i], c, n)
        BY Zenon, <1>1, <3>1, <4>1 DEF LogInv, SentIsIssued
      <4> QED BY <1>1, <4>2
    <3>2. CASE n \notin DOMAIN issued[c] BY <1>1, <2>2, <3>2
    <3> QED BY Zenon, <3>1, <3>2
  <2> QED BY SMTT(20), <1>1, <2>1, <2>2 DEF SentIsIssued, IsMessage
<1> QED BY Zenon, <1>3, <1>4, <1>5 DEF LogInv

(* The log stays, or loses messages at its end when the task is gone.      *)
LEMMA LogKept ==
  ASSUME ChannelTypeOK, ChannelTypeOK', LogInv, IssuedKept, alive' => alive,
         Log' = Log \/ (Log' = applied /\ ~alive'),
         alive' => \A c \in Clients : \A n \in DOMAIN issued'[c] \ DOMAIN issued[c] :
                     issued'[c][n] = "future"
  PROVE  LogInv'
<1> DEFINE N == Len(Log)
           M == Len(Log')
<1>1. /\ N \in Nat /\ DOMAIN Log = 1 .. N /\ \A i \in 1 .. N : Log[i] \in Messages
      /\ M \in 0 .. N /\ DOMAIN Log' = 1 .. M /\ \A i \in 1 .. M : Log'[i] = Log[i]
      /\ alive' => M = N
  <2>1. Log \in Seq(Messages) /\ Len(applied) \in Nat /\ Len(queue) \in Nat
    BY Zenon, LogType, QueueTypes, LenProperties
  <2>2. N \in Nat /\ DOMAIN Log = 1 .. N /\ \A i \in 1 .. N : Log[i] \in Messages
    BY Zenon, <2>1, LenProperties, ElementOfSeq
  <2>3. CASE Log' = Log BY <2>2, <2>3
  <2>4. CASE Log' = applied /\ ~alive'
    <3>1. /\ N = Len(applied) + Len(queue) /\ DOMAIN applied = 1 .. Len(applied)
          /\ \A i \in 1 .. Len(applied) : Log[i] = applied[i]
      BY Zenon, LogType
    <3>2. M = Len(applied) BY Zenon, <2>4
    <3> HIDE DEF M, N
    <3>3. M \in 0 .. N BY <2>1, <3>1, <3>2
    <3>4. DOMAIN Log' = 1 .. M /\ \A i \in 1 .. M : Log'[i] = Log[i] BY <2>4, <3>1, <3>2, Zenon
    <3> QED BY <2>2, <2>4, <3>3, <3>4, Zenon
  <2> QED BY Zenon, <2>2, <2>3, <2>4
<1>2. \A i \in 1 .. N : Log[i].by \in Clients /\ Log[i].nr \in Nat
  BY <1>1, MessageFields, Zenon
<1> HIDE DEF N, M
<1>3. ProgramOrder'
  <2> SUFFICES ASSUME NEW j \in 1 .. M, NEW n \in 1 .. Log'[j].nr - 1,
                      issued'[Log'[j].by][n] # "future"
               PROVE  \E i \in 1 .. j - 1 : IsMessage(Log'[i], Log'[j].by, n)
    BY Zenon, <1>1 DEF ProgramOrder, IsMessage
  <2>1. Log'[j] = Log[j] /\ j \in 1 .. N /\ Log[j].by \in Clients BY <1>1, <1>2
  <2>2. Log[j].nr \in DOMAIN issued[Log[j].by] BY Zenon, <1>1, <2>1 DEF LogInv, SentIsIssued
  <2>3. n \in DOMAIN issued[Log[j].by] BY <2>1, <2>2, LogType
  <2>4. issued[Log[j].by][n] # "future" BY Zenon, <2>1, <2>3 DEF IssuedKept
  <2>5. PICK i \in 1 .. j - 1 : IsMessage(Log[i], Log[j].by, n)
    BY Zenon, <1>1, <2>1, <2>4 DEF LogInv, ProgramOrder
  <2>6. i \in 1 .. M BY <1>1
  <2> QED BY Zenon, <1>1, <2>1, <2>5, <2>6
<1>4. SentOnce'
  BY <1>1 DEF LogInv, SentOnce
<1>5. SentIsIssued'
  <2>1. ASSUME NEW i \in 1 .. M
        PROVE  /\ Log'[i].nr \in DOMAIN issued'[Log'[i].by]
               /\ Log'[i].kind = issued'[Log'[i].by][Log'[i].nr]
    <3>1. Log'[i] = Log[i] /\ i \in DOMAIN Log /\ Log[i].by \in Clients BY <1>1, <1>2
    <3>2. Log[i].nr \in DOMAIN issued[Log[i].by] /\ Log[i].kind = issued[Log[i].by][Log[i].nr]
      BY Zenon, <3>1 DEF LogInv, SentIsIssued
    <3> QED BY <3>1, <3>2, Zenon DEF IssuedKept
  <2>2. ASSUME alive', NEW c \in Clients, NEW n \in DOMAIN issued'[c], issued'[c][n] # "future"
        PROVE  \E i \in 1 .. M : IsMessage(Log'[i], c, n)
    <3>1. n \in DOMAIN issued[c] /\ issued[c][n] # "future" BY Zenon, <2>2 DEF IssuedKept
    <3>2. PICK i \in 1 .. N : IsMessage(Log[i], c, n)
      BY Zenon, <1>1, <2>2, <3>1 DEF LogInv, SentIsIssued
    <3> QED BY Zenon, <1>1, <2>2, <3>2
  <2> QED BY <1>1, <2>1, <2>2 DEF SentIsIssued, IsMessage
<1> QED BY Zenon, <1>3, <1>4, <1>5 DEF LogInv

(* What sending does, whether the task runs or not.                        *)
LEMMA SendEffect ==
  ASSUME ChannelTypeOK, NEW m \in Messages, NEW after \in {"idle", "waiting"}, Send(m, after)
  PROVE  /\ queue' \in Seq(Messages) /\ applied' = applied /\ serving' = serving
         /\ alive' = alive /\ dropped' = dropped
         /\ waits' \in [Clients -> {"idle", "waiting", "panicked"}]
         /\ \A d \in Clients \ {m.by} : waits'[d] = waits[d]
         /\ alive => /\ Log' = Append(Log, m) /\ Range(queue') = Range(queue) \cup {m}
                     /\ waits'[m.by] = after
         /\ ~alive => Log' = Log /\ queue' = queue /\ waits'[m.by] = "panicked"
<1>1. m.by \in Clients /\ queue \in Seq(Messages) /\ applied \in Seq(Messages)
  BY Zenon, MessageFields, QueueTypes
<1>2. CASE alive
  <2>1. queue' = Append(queue, m) /\ applied' = applied BY Zenon, <1>2 DEF Send, Enqueued
  <2>2. Log' = Append(Log, m) BY <1>1, <2>1, Sent DEF Log
  <2>3. queue' \in Seq(Messages) /\ Range(queue') = Range(queue) \cup {m}
    BY <1>1, <2>1, Extended
  <2> QED BY Zenon, <1>1, <1>2, <2>2, <2>3, ClientTypes DEF Send
<1>3. CASE ~alive
  BY Zenon, <1>1, <1>3, ClientTypes DEF Send, Log
<1> QED BY Zenon, <1>2, <1>3

(* What issuing an operation does.                                         *)
LEMMA IssueEffect ==
  ASSUME ChannelTypeOK, NEW c \in Clients, NEW kind \in MessageKinds, Issue(c, kind)
  PROVE  /\ waits[c] = "idle" /\ issued' \in [Clients -> Seq(MessageKinds)]
         /\ \A d \in Clients : Len(issued'[d]) <= MaxMessages
         /\ Len(issued'[c]) = Len(issued[c]) + 1 /\ issued'[c][Len(issued[c]) + 1] = kind
         /\ DOMAIN issued'[c] = 1 .. Len(issued[c]) + 1
         /\ \A d \in Clients \ {c} : issued'[d] = issued[d]
         /\ IssuedKept
         /\ Message(c, Len(issued[c]) + 1, kind) \in Messages
<1> DEFINE s == issued[c]
<1>1. /\ s \in Seq(MessageKinds) /\ Len(s) \in Nat /\ Len(s) < MaxMessages /\ waits[c] = "idle"
      /\ DOMAIN s = 1 .. Len(s)
  BY IssuedType DEF Issue
<1>2. /\ Append(s, kind) \in Seq(MessageKinds) /\ Len(Append(s, kind)) = Len(s) + 1
      /\ \A i \in 1 .. Len(s) : Append(s, kind)[i] = s[i]
      /\ Append(s, kind)[Len(s) + 1] = kind /\ DOMAIN Append(s, kind) = 1 .. Len(s) + 1
  BY <1>1, Extended
<1>3. issued'[c] = Append(s, kind) /\ \A d \in Clients \ {c} : issued'[d] = issued[d]
  BY Zenon, IssuedType DEF Issue
<1>4. issued' \in [Clients -> Seq(MessageKinds)]
  <2>1. issued' = [issued EXCEPT ![c] = Append(s, kind)] BY Zenon DEF Issue
  <2> HIDE DEF s
  <2> QED BY <1>2, <2>1, IssuedType, Zenon
<1> HIDE DEF s
<1>5. IssuedKept
  <2> SUFFICES ASSUME NEW d \in Clients, NEW n \in DOMAIN issued[d]
               PROVE  n \in DOMAIN issued'[d] /\ issued'[d][n] = issued[d][n]
    BY Zenon DEF IssuedKept
  <2>1. CASE d = c BY <2>1, <1>1, <1>2, <1>3 DEF s
  <2>2. CASE d # c BY Zenon, <2>2, <1>3
  <2> QED BY Zenon, <2>1, <2>2
<1>6. \A d \in Clients : Len(issued'[d]) <= MaxMessages
  BY SMTT(20), <1>1, <1>2, <1>3, IssuedType, ChannelAssumption
<1>7. Message(c, Len(s) + 1, kind) \in Messages
  BY <1>1, ChannelAssumption DEF Message, Messages
<1> QED BY Zenon, <1>1, <1>2, <1>3, <1>4, <1>5, <1>6, <1>7 DEF s

(* A future that was created and not polled.                               *)
LEMMA FutureMessage ==
  ASSUME ChannelInv, NEW c \in Clients, future[c].state # "none"
  PROVE  Message(c, future[c].nr, "future") \in Messages
<1>1. future[c].nr \in 1 .. Len(issued[c]) /\ Len(issued[c]) \in Nat /\ Len(issued[c]) <= MaxMessages
  BY Zenon, LogType, IssuedType DEF ChannelInv, FuturesAreIssued
<1> QED BY <1>1, ChannelAssumption DEF Message, Messages, MessageKinds

LEMMA IssuedSame == ASSUME issued' = issued PROVE IssuedKept
BY Zenon DEF IssuedKept

(* A position of the log after a send.                                     *)
LEMMA AppendedAt ==
  ASSUME ChannelTypeOK, NEW m \in Messages, NEW i \in DOMAIN Log',
         alive => Log' = Append(Log, m), ~alive => Log' = Log
  PROVE  (i \in DOMAIN Log /\ Log'[i] = Log[i]) \/ Log'[i] = m
<1>1. CASE alive
  <2>1. Log \in Seq(Messages) /\ DOMAIN Log = 1 .. Len(Log) BY Zenon, LogType
  <2>2. Len(Log) \in Nat /\ Log' \in Seq(Messages) /\ Len(Log') = Len(Log) + 1
        /\ Log'[Len(Log) + 1] = m /\ \A k \in 1 .. Len(Log) : Log'[k] = Log[k]
    BY <1>1, <2>1, Extended
  <2>3. i \in 1 .. Len(Log) + 1 BY <2>2
  <2> QED BY <2>1, <2>2, <2>3
<1>2. CASE ~alive BY Zenon, <1>2
<1> QED BY Zenon, <1>1, <1>2

(* As long as no future is dropped, it is enough that whoever waited still *)
(* waits.                                                                  *)
LEMMA AwaitedKept ==
  ASSUME ChannelTypeOK, DiesOnlyOfDrop, ~dropped, dropped' = dropped, alive' = alive,
         serving' = serving,
         \A k \in Range(queue') : k \in Range(queue) \/ k.kind = "cast" \/ Awaited(k)',
         \A k \in Messages : Awaited(k) => Awaited(k)'
  PROVE  DiesOnlyOfDrop'
<1>1. \A k \in Range(queue) : k \in Messages BY QueueTypes DEF Range
<1>2. serving # NoMessage => serving \in Messages BY Zenon, QueueTypes
<1>3. alive' BY Zenon DEF DiesOnlyOfDrop
<1>4. \A k \in Range(queue') : k.kind # "cast" => Awaited(k)' BY Zenon, <1>1 DEF DiesOnlyOfDrop
<1>5. serving' # NoMessage => Awaited(serving)' BY Zenon, <1>2 DEF DiesOnlyOfDrop
<1> QED BY Zenon, <1>3, <1>4, <1>5 DEF DiesOnlyOfDrop

(* Calls and casts are issued and sent.                                    *)
LEMMA CallStep ==
  ASSUME ChannelInv, NEW c \in Clients, CallServer(c) \/ Cast(c)
  PROVE  ChannelInv'
<1> USE DEF ChannelInv
<1> DEFINE N == Len(issued[c])
<1>1. PICK kind \in {"call", "cast"} :
        /\ Issue(c, kind) /\ Send(Message(c, N + 1, kind), IF kind = "call" THEN "waiting" ELSE "idle")
        /\ UNCHANGED future
  BY Zenon DEF CallServer, Cast, AfterCall
<1> DEFINE m == Message(c, N + 1, kind)
<1>2. kind \in MessageKinds /\ kind # "future" BY Zenon DEF MessageKinds
<1>3. /\ waits[c] = "idle" /\ issued' \in [Clients -> Seq(MessageKinds)]
      /\ \A d \in Clients : Len(issued'[d]) <= MaxMessages
      /\ Len(issued'[c]) = N + 1 /\ issued'[c][N + 1] = kind
      /\ DOMAIN issued'[c] = 1 .. N + 1
      /\ \A d \in Clients \ {c} : issued'[d] = issued[d]
      /\ IssuedKept /\ m \in Messages
  BY Zenon, <1>1, <1>2, IssueEffect
<1>4. m.by = c /\ m.nr = N + 1 /\ m.kind = kind BY Zenon DEF Message
<1> HIDE DEF m
<1>5. /\ queue' \in Seq(Messages) /\ applied' = applied /\ serving' = serving
      /\ alive' = alive /\ dropped' = dropped
      /\ waits' \in [Clients -> {"idle", "waiting", "panicked"}]
      /\ \A d \in Clients \ {c} : waits'[d] = waits[d]
      /\ alive => /\ Log' = Append(Log, m) /\ Range(queue') = Range(queue) \cup {m}
                  /\ waits'[c] = IF kind = "call" THEN "waiting" ELSE "idle"
      /\ ~alive => Log' = Log /\ queue' = queue /\ waits'[c] = "panicked"
  BY Zenon, <1>1, <1>3, <1>4, SendEffect DEF m
<1>6. ChannelTypeOK' BY <1>1, <1>3, <1>5, Zenon DEF ChannelTypeOK
<1>7. N \in Nat /\ DOMAIN issued[c] = 1 .. N BY Zenon, LogType
<1>8. \A i \in DOMAIN Log : ~IsMessage(Log[i], c, N + 1)
  BY <1>7 DEF SentIsIssued, IsMessage
<1>9. LogInv'
  <2>1. CASE alive
    <3>1. \A d \in Clients : \A n \in DOMAIN issued'[d] \ DOMAIN issued[d] : IsMessage(m, d, n)
      BY <1>3, <1>4, <1>7 DEF IsMessage
    <3>2. m.nr \in DOMAIN issued'[m.by] /\ m.kind = issued'[m.by][m.nr]
      BY <1>3, <1>4, <1>7
    <3>3. \A n \in 1 .. m.nr - 1 : n \in DOMAIN issued[m.by]
      BY <1>4, <1>7
    <3> QED BY SMTT(20), <2>1, <1>3, <1>4, <1>5, <1>8, <3>1, <3>2, <3>3, SendKeepsLog DEF LogInv
  <2>2. CASE ~alive BY Zenon, <2>2, <1>3, <1>5, <1>6, LogKept DEF LogInv
  <2> QED BY Zenon, <2>1, <2>2
<1>10. FuturesAreIssued'
  <2> SUFFICES ASSUME NEW d \in Clients, future[d].state # "none"
               PROVE  /\ future[d].nr \in DOMAIN issued'[d] /\ issued'[d][future[d].nr] = "future"
                      /\ future[d].state = "created" =>
                           \A i \in DOMAIN Log' : ~IsMessage(Log'[i], d, future[d].nr)
    BY Zenon, <1>1 DEF FuturesAreIssued, IsMessage
  <2>1. future[d].nr \in DOMAIN issued[d] /\ issued[d][future[d].nr] = "future"
    BY Zenon DEF FuturesAreIssued
  <2>2. future[d].nr \in DOMAIN issued'[d] /\ issued'[d][future[d].nr] = "future"
    BY Zenon, <2>1, <1>3 DEF IssuedKept
  <2>3. ASSUME future[d].state = "created", NEW i \in DOMAIN Log'
        PROVE  ~IsMessage(Log'[i], d, future[d].nr)
    <3>1. CASE i \in DOMAIN Log /\ Log'[i] = Log[i] BY Zenon, <2>3, <3>1 DEF FuturesAreIssued
    <3>2. CASE Log'[i] = m BY <1>4, <1>7, <2>1, <3>2 DEF IsMessage
    <3>3. (i \in DOMAIN Log /\ Log'[i] = Log[i]) \/ Log'[i] = m
      BY Zenon, <2>3, <1>3, <1>5, AppendedAt
    <3> QED BY Zenon, <3>1, <3>2, <3>3
  <2> QED BY Zenon, <2>2, <2>3
<1>11. ReturnedIsApplied'
  <2>1. ASSUME NEW d \in Clients, waits'[d] # "panicked", NEW n \in DOMAIN issued'[d],
               issued'[d][n] = "call", waits'[d] = "waiting" => n < Len(issued'[d])
        PROVE  Message(d, n, "call") \in Range(applied)
    <3>1. CASE d # c BY Zenon, <2>1, <3>1, <1>3, <1>5 DEF ReturnedIsApplied
    <3>2. CASE d = c
      <4>1. n \in 1 .. N BY <2>1, <3>2, <1>3, <1>5, <1>7
      <4>2. issued[c][n] = "call" BY Zenon, <2>1, <3>2, <4>1, <1>3, <1>7 DEF IssuedKept
      <4> QED BY Zenon, <3>2, <4>1, <4>2, <1>3, <1>7 DEF ReturnedIsApplied
    <3> QED BY Zenon, <3>1, <3>2
  <2> QED BY Zenon, <2>1, <1>5 DEF ReturnedIsApplied, Message
<1>12. DiesOnlyOfDrop'
  <2> SUFFICES ASSUME ~dropped PROVE DiesOnlyOfDrop' BY Zenon, <1>5 DEF DiesOnlyOfDrop
  <2>1. alive BY Zenon DEF DiesOnlyOfDrop
  <2>2. ASSUME NEW k \in Messages, Awaited(k) PROVE Awaited(k)'
    <3>1. k.by \in Clients /\ (k.kind = "call" => k.by # c)
      BY Zenon, <2>2, <1>3, MessageFields DEF Awaited
    <3>2. k.kind = "call" => waits'[k.by] = waits[k.by] /\ issued'[k.by] = issued[k.by]
      BY <3>1, <1>3, <1>5, Zenon
    <3> QED BY <2>2, <3>2, <1>1, Zenon DEF Awaited
  <2>3. ASSUME NEW k, k = m, k.kind # "cast" PROVE Awaited(k)'
    <3>1. k.by = c /\ k.nr = N + 1 /\ k.kind = "call" /\ kind = "call" BY Zenon, <2>3, <1>4
    <3>2. waits'[c] = "waiting" BY <2>1, <3>1, <1>5, Zenon
    <3> QED BY <3>1, <3>2, <1>3, Zenon DEF Awaited
  <2>4. \A k \in Range(queue') : k \in Range(queue) \/ k.kind = "cast" \/ Awaited(k)'
    <3>1. Range(queue') = Range(queue) \cup {m} BY <2>1, <1>5, Zenon
    <3> QED BY Zenon, <2>3, <3>1
  <2> QED BY Zenon, <2>2, <2>4, <1>5, AwaitedKept
<1> QED BY Zenon, <1>6, <1>9, <1>10, <1>11, <1>12 DEF LogInv

(* A future is created: its operation is issued and not sent.              *)
LEMMA NewFutureStep ==
  ASSUME ChannelInv, NEW c \in Clients, NewFuture(c)
  PROVE  ChannelInv'
<1> USE DEF ChannelInv
<1> DEFINE N == Len(issued[c])
<1>1. /\ Issue(c, "future") /\ future[c].state = "none"
      /\ future' = [future EXCEPT ![c] = [state |-> "created", nr |-> N + 1]]
      /\ queue' = queue /\ serving' = serving /\ alive' = alive /\ waits' = waits
      /\ applied' = applied /\ dropped' = dropped
  BY Zenon DEF NewFuture
<1>2. "future" \in MessageKinds BY Zenon DEF MessageKinds
<1>3. /\ waits[c] = "idle" /\ issued' \in [Clients -> Seq(MessageKinds)]
      /\ \A d \in Clients : Len(issued'[d]) <= MaxMessages
      /\ Len(issued'[c]) = N + 1 /\ issued'[c][N + 1] = "future"
      /\ DOMAIN issued'[c] = 1 .. N + 1
      /\ \A d \in Clients \ {c} : issued'[d] = issued[d]
      /\ IssuedKept
  BY Zenon, <1>1, <1>2, IssueEffect
<1>4. N \in Nat /\ DOMAIN issued[c] = 1 .. N BY Zenon, LogType
<1>5. /\ future'[c] = [state |-> "created", nr |-> N + 1]
      /\ \A d \in Clients \ {c} : future'[d] = future[d]
      /\ future' \in [Clients -> FutureStates]
  <2>1. [state |-> "created", nr |-> N + 1] \in FutureStates
    BY <1>3, <1>4, ChannelAssumption DEF FutureStates
  <2> QED BY <1>1, <2>1, ClientTypes, Zenon
<1>6. ChannelTypeOK' BY <1>1, <1>3, <1>5, Zenon DEF ChannelTypeOK, FutureStates
<1>7. Log' = Log BY Zenon, <1>1 DEF Log
<1>8. LogInv'
  <2>1. \A d \in Clients : \A n \in DOMAIN issued'[d] \ DOMAIN issued[d] : issued'[d][n] = "future"
    BY <1>3, <1>4
  <2> QED BY Zenon, <2>1, <1>1, <1>3, <1>6, <1>7, LogKept DEF LogInv
<1>9. FuturesAreIssued'
  <2> SUFFICES ASSUME NEW d \in Clients, future'[d].state # "none"
               PROVE  /\ future'[d].nr \in DOMAIN issued'[d] /\ issued'[d][future'[d].nr] = "future"
                      /\ future'[d].state = "created" =>
                           \A i \in DOMAIN Log : ~IsMessage(Log[i], d, future'[d].nr)
    BY Zenon, <1>7 DEF FuturesAreIssued, IsMessage
  <2>1. CASE d = c
    <3>1. \A i \in DOMAIN Log : ~IsMessage(Log[i], c, N + 1)
      BY <1>4 DEF SentIsIssued, IsMessage
    <3> QED BY <2>1, <3>1, <1>3, <1>4, <1>5
  <2>2. CASE d # c BY SMTT(20), <2>2, <1>3, <1>5 DEF FuturesAreIssued
  <2> QED BY Zenon, <2>1, <2>2
<1>10. ReturnedIsApplied'
  <2>1. ASSUME NEW d \in Clients, waits[d] # "panicked", NEW n \in DOMAIN issued'[d],
               issued'[d][n] = "call", waits[d] = "waiting" => n < Len(issued'[d])
        PROVE  Message(d, n, "call") \in Range(applied)
    <3>1. CASE d # c BY Zenon, <2>1, <3>1, <1>3 DEF ReturnedIsApplied
    <3>2. CASE d = c
      <4>1. n \in 1 .. N BY <2>1, <3>2, <1>3, <1>4
      <4>2. issued[c][n] = "call" BY Zenon, <2>1, <3>2, <4>1, <1>3, <1>4 DEF IssuedKept
      <4> QED BY Zenon, <3>2, <4>1, <4>2, <1>3, <1>4 DEF ReturnedIsApplied
    <3> QED BY Zenon, <3>1, <3>2
  <2> QED BY Zenon, <2>1, <1>1 DEF ReturnedIsApplied, Message
<1>11. DiesOnlyOfDrop'
  <2> SUFFICES ASSUME ~dropped PROVE DiesOnlyOfDrop' BY Zenon, <1>1 DEF DiesOnlyOfDrop
  <2>1. ASSUME NEW k \in Messages, Awaited(k) PROVE Awaited(k)'
    <3>1. k.by \in Clients /\ k.by # c
      BY <2>1, <1>1, <1>3 DEF Messages, Awaited
    <3> QED BY Zenon, <2>1, <3>1, <1>1, <1>3, <1>5 DEF Awaited
  <2> QED BY Zenon, <2>1, <1>1, AwaitedKept
<1> QED BY Zenon, <1>6, <1>8, <1>9, <1>10, <1>11 DEF LogInv

(* A future is polled for the first time: its message is sent.             *)
LEMMA PollStep ==
  ASSUME ChannelInv, NEW c \in Clients, PollFuture(c)
  PROVE  ChannelInv'
<1> USE DEF ChannelInv
<1> DEFINE m == Message(c, future[c].nr, "future")
<1>1. /\ waits[c] = "idle" /\ future[c].state = "created" /\ Send(m, "idle") /\ issued' = issued
      /\ future' = [future EXCEPT ![c] = IF alive THEN [@ EXCEPT !.state = "sent"] ELSE NoFuture]
  BY Zenon DEF PollFuture
<1>2. m \in Messages BY Zenon, <1>1, FutureMessage
<1>3. m.by = c /\ m.nr = future[c].nr /\ m.kind = "future" BY Zenon DEF Message
<1> HIDE DEF m
<1>4. /\ queue' \in Seq(Messages) /\ applied' = applied /\ serving' = serving
      /\ alive' = alive /\ dropped' = dropped
      /\ waits' \in [Clients -> {"idle", "waiting", "panicked"}]
      /\ \A d \in Clients \ {c} : waits'[d] = waits[d]
      /\ alive => /\ Log' = Append(Log, m) /\ Range(queue') = Range(queue) \cup {m}
                  /\ waits'[c] = "idle"
      /\ ~alive => Log' = Log /\ queue' = queue /\ waits'[c] = "panicked"
  BY Zenon, <1>1, <1>2, <1>3, SendEffect
<1>5. /\ future'[c] = IF alive THEN [state |-> "sent", nr |-> future[c].nr] ELSE NoFuture
      /\ \A d \in Clients \ {c} : future'[d] = future[d]
      /\ future' \in [Clients -> FutureStates]
  <2>1. future[c] \in FutureStates BY Zenon, ClientTypes
  <2>2. /\ [future[c] EXCEPT !.state = "sent"] = [state |-> "sent", nr |-> future[c].nr]
        /\ [state |-> "sent", nr |-> future[c].nr] \in FutureStates
    BY <2>1 DEF FutureStates
  <2>3. CASE alive
    <3>1. future' = [future EXCEPT ![c] = [state |-> "sent", nr |-> future[c].nr]]
      BY Zenon, <1>1, <2>2, <2>3, ClientTypes
    <3> QED BY <2>2, <2>3, <3>1, ClientTypes, Zenon
  <2>4. CASE ~alive
    <3>1. future' = [future EXCEPT ![c] = NoFuture] BY Zenon, <1>1, <2>4, ClientTypes
    <3> QED BY <2>4, <3>1, ClientTypes, NoFutureType, Zenon
  <2> QED BY Zenon, <2>3, <2>4
<1>6. ChannelTypeOK' BY <1>1, <1>4, <1>5, Zenon DEF ChannelTypeOK, FutureStates
<1>7. IssuedKept BY Zenon, <1>1, IssuedSame
<1>8. future[c].nr \in DOMAIN issued[c] /\ issued[c][future[c].nr] = "future"
      /\ \A i \in DOMAIN Log : ~IsMessage(Log[i], c, future[c].nr)
  BY Zenon, <1>1 DEF FuturesAreIssued
<1>9. LogInv'
  <2>1. CASE alive
    <3>1. m.nr \in DOMAIN issued'[m.by] /\ m.kind = issued'[m.by][m.nr]
      BY Zenon, <1>1, <1>3, <1>8
    <3>2. \A n \in 1 .. m.nr - 1 : n \in DOMAIN issued[m.by]
      BY <1>3, <1>8, LogType
    <3> QED BY Zenon, <2>1, <1>1, <1>2, <1>3, <1>4, <1>7, <1>8, <3>1, <3>2, SendKeepsLog DEF LogInv
  <2>2. CASE ~alive BY Zenon, <2>2, <1>1, <1>4, <1>6, <1>7, LogKept DEF LogInv
  <2> QED BY Zenon, <2>1, <2>2
<1>10. FuturesAreIssued'
  <2> SUFFICES ASSUME NEW d \in Clients, future'[d].state # "none"
               PROVE  /\ future'[d].nr \in DOMAIN issued[d] /\ issued[d][future'[d].nr] = "future"
                      /\ future'[d].state = "created" =>
                           \A i \in DOMAIN Log' : ~IsMessage(Log'[i], d, future'[d].nr)
    BY Zenon, <1>1 DEF FuturesAreIssued, IsMessage
  <2>1. CASE d = c
    <3>1. alive /\ future'[c].nr = future[c].nr /\ future'[c].state = "sent"
      BY <1>5, <2>1 DEF NoFuture
    <3> QED BY Zenon, <2>1, <3>1, <1>8
  <2>2. CASE d # c
    <3>1. future'[d] = future[d] BY Zenon, <1>5, <2>2
    <3>2. ASSUME future[d].state = "created", NEW i \in DOMAIN Log'
          PROVE  ~IsMessage(Log'[i], d, future[d].nr)
      <4>1. CASE i \in DOMAIN Log /\ Log'[i] = Log[i] BY Zenon, <3>2, <4>1 DEF FuturesAreIssued
      <4>2. CASE Log'[i] = m BY Zenon, <1>3, <2>2, <4>2 DEF IsMessage
      <4>3. (i \in DOMAIN Log /\ Log'[i] = Log[i]) \/ Log'[i] = m
        BY Zenon, <3>2, <1>2, <1>4, AppendedAt
      <4> QED BY Zenon, <4>1, <4>2, <4>3
    <3> QED BY Zenon, <3>1, <3>2 DEF FuturesAreIssued
  <2> QED BY Zenon, <2>1, <2>2
<1>11. ReturnedIsApplied'
  <2>1. ASSUME NEW d \in Clients, waits'[d] # "panicked" PROVE waits'[d] = waits[d]
    BY Zenon, <2>1, <1>1, <1>4
  <2> QED BY Zenon, <2>1, <1>1, <1>4 DEF ReturnedIsApplied, Message
<1>12. DiesOnlyOfDrop'
  <2> SUFFICES ASSUME ~dropped PROVE DiesOnlyOfDrop' BY Zenon, <1>4 DEF DiesOnlyOfDrop
  <2>1. alive BY Zenon DEF DiesOnlyOfDrop
  <2>2. ASSUME NEW k \in Messages, Awaited(k) PROVE Awaited(k)'
    <3>1. k.by \in Clients /\ k.by # c
      BY <2>2, <1>1 DEF Messages, Awaited
    <3> QED BY Zenon, <2>2, <3>1, <1>1, <1>4, <1>5 DEF Awaited
  <2>3. ASSUME NEW k, k = m PROVE Awaited(k)'
    <3>1. future'[c] = [state |-> "sent", nr |-> future[c].nr] BY <2>1, <1>5, Zenon
    <3>2. k.by = c /\ k.nr = future[c].nr /\ k.kind = "future" BY Zenon, <2>3, <1>3
    <3> QED BY Zenon, <3>1, <3>2 DEF Awaited
  <2>4. \A k \in Range(queue') : k \in Range(queue) \/ k.kind = "cast" \/ Awaited(k)'
    <3>1. Range(queue') = Range(queue) \cup {m} BY <2>1, <1>4, Zenon
    <3> QED BY Zenon, <2>3, <3>1
  <2> QED BY Zenon, <2>2, <2>4, <1>4, AwaitedKept
<1> QED BY Zenon, <1>6, <1>9, <1>10, <1>11, <1>12 DEF LogInv

(* A future is dropped, or a client finds its callback gone.               *)
LEMMA DropStep ==
  ASSUME ChannelInv, NEW c \in Clients, DropFuture(c) \/ Disconnected(c)
  PROVE  ChannelInv'
<1> USE DEF ChannelInv
<1>1. /\ queue' = queue /\ serving' = serving /\ alive' = alive /\ issued' = issued
      /\ applied' = applied /\ Log' = Log /\ IssuedKept
  BY Zenon, IssuedSame DEF DropFuture, Disconnected, Log
<1>2. ChannelTypeOK'
  <2>1. future' \in [Clients -> FutureStates] BY Zenon, NoFutureType, ClientTypes DEF DropFuture, Disconnected
  <2>2. waits' \in [Clients -> {"idle", "waiting", "panicked"}] BY Zenon, ClientTypes DEF DropFuture, Disconnected
  <2>3. dropped' \in BOOLEAN BY Zenon DEF DropFuture, Disconnected, ChannelTypeOK
  <2> QED BY <1>1, <2>1, <2>2, <2>3, Zenon DEF ChannelTypeOK, FutureStates
<1>3. LogInv' BY Zenon, <1>1, <1>2, LogKept DEF LogInv
<1>4. FuturesAreIssued'
  <2>1. \A d \in Clients : future'[d].state # "none" => future'[d] = future[d]
    BY Zenon, ClientTypes, NoFutureType DEF DropFuture, Disconnected
  <2> QED BY <2>1, <1>1 DEF FuturesAreIssued, IsMessage
<1>5. ReturnedIsApplied'
  <2>1. \A d \in Clients : waits'[d] # "panicked" => waits'[d] = waits[d]
    BY Zenon, ClientTypes DEF DropFuture, Disconnected
  <2> QED BY Zenon, <2>1, <1>1 DEF ReturnedIsApplied, Message
<1>6. DiesOnlyOfDrop'
  <2>1. dropped' \/ (dropped' = dropped /\ ~alive)
    BY Zenon DEF DropFuture, Disconnected, Unanswerable
  <2> QED BY Zenon, <2>1 DEF DiesOnlyOfDrop
<1> QED BY Zenon, <1>2, <1>3, <1>4, <1>5, <1>6 DEF LogInv

(* The server takes the next message and applies it.                       *)
LEMMA ServeStep ==
  ASSUME ChannelInv, Serve
  PROVE  ChannelInv'
<1> USE DEF ChannelInv
<1> DEFINE m == Head(queue)
<1>1. /\ alive /\ serving = NoMessage /\ queue # <<>> /\ queue' = Tail(queue)
      /\ applied' = Append(applied, m) /\ serving' = IF m.kind = "cast" THEN NoMessage ELSE m
      /\ alive' = alive /\ issued' = issued /\ waits' = waits /\ future' = future
      /\ dropped' = dropped
  BY Zenon DEF Serve, clientVars
<1>2. /\ m \in Messages /\ Tail(queue) \in Seq(Messages)
      /\ Append(applied, m) \o Tail(queue) = applied \o queue
      /\ Range(Tail(queue)) \subseteq Range(queue) /\ m \in Range(queue)
  BY Zenon, <1>1, Shifted, QueueTypes
<1>3. Append(applied, m) \in Seq(Messages) /\ Range(Append(applied, m)) = Range(applied) \cup {m}
  BY <1>2, Extended, QueueTypes
<1> HIDE DEF m
<1>4. ChannelTypeOK'
  <2>1. serving' \in Messages \cup {NoMessage} BY Zenon, <1>1, <1>2
  <2> QED BY <1>1, <1>2, <1>3, <2>1, Zenon DEF ChannelTypeOK
<1>5. Log' = Log /\ IssuedKept BY Zenon, <1>1, <1>2, IssuedSame DEF Log
<1>6. LogInv' BY Zenon, <1>1, <1>4, <1>5, LogKept DEF LogInv
<1>7. FuturesAreIssued' BY Zenon, <1>1, <1>5 DEF FuturesAreIssued, IsMessage
<1>8. ReturnedIsApplied' BY Zenon, <1>1, <1>3 DEF ReturnedIsApplied, Message
<1>9. DiesOnlyOfDrop'
  <2> SUFFICES ASSUME ~dropped PROVE DiesOnlyOfDrop' BY Zenon, <1>1 DEF DiesOnlyOfDrop
  <2>1. \A k \in Range(queue') : k.kind # "cast" => Awaited(k)
    BY Zenon, <1>1, <1>2 DEF DiesOnlyOfDrop
  <2>2. m.kind # "cast" => Awaited(m) BY Zenon, <1>2 DEF DiesOnlyOfDrop
  <2> QED BY Zenon, <2>1, <2>2, <1>1 DEF DiesOnlyOfDrop, Awaited
<1> QED BY Zenon, <1>4, <1>6, <1>7, <1>8, <1>9 DEF LogInv

(* The server answers, or panics because nobody waits.                     *)
LEMMA RespondStep ==
  ASSUME ChannelInv, Respond
  PROVE  ChannelInv'
<1> USE DEF ChannelInv
<1> DEFINE m == serving
<1>1. /\ m # NoMessage /\ Awaited(m) /\ serving' = NoMessage
      /\ queue' = queue /\ alive' = alive /\ issued' = issued /\ applied' = applied
      /\ dropped' = dropped
      /\ IF m.kind = "call"
         THEN waits' = [waits EXCEPT ![m.by] = "idle"] /\ future' = future
         ELSE future' = [future EXCEPT ![m.by] = NoFuture] /\ waits' = waits
  BY Zenon DEF Respond
<1>2. m \in Messages /\ m.by \in Clients /\ m \in Range(applied) /\ m.kind # "cast"
  BY Zenon, <1>1, QueueTypes, MessageFields DEF ReturnedIsApplied
<1>3. ChannelTypeOK'
  <2>1. future' \in [Clients -> FutureStates] BY Zenon, <1>1, NoFutureType, ClientTypes
  <2>2. waits' \in [Clients -> {"idle", "waiting", "panicked"}] BY Zenon, <1>1, ClientTypes
  <2> QED BY <1>1, <2>1, <2>2, Zenon DEF ChannelTypeOK, FutureStates
<1>4. Log' = Log /\ IssuedKept BY Zenon, <1>1, IssuedSame DEF Log
<1>5. LogInv' BY Zenon, <1>1, <1>3, <1>4, LogKept DEF LogInv
<1>6. FuturesAreIssued'
  <2>1. \A d \in Clients : future'[d].state # "none" => future'[d] = future[d]
    BY Zenon, <1>1, <1>2, ClientTypes, NoFutureType
  <2> QED BY <2>1, <1>1, <1>4 DEF FuturesAreIssued, IsMessage
<1>7. ReturnedIsApplied'
  <2>1. ASSUME NEW d \in Clients, waits'[d] # "panicked", NEW n \in DOMAIN issued[d],
               issued[d][n] = "call", waits'[d] = "waiting" => n < Len(issued[d])
        PROVE  Message(d, n, "call") \in Range(applied)
    <3>1. CASE m.kind = "call" /\ d = m.by
      <4>1. waits[d] = "waiting" /\ Len(issued[d]) = m.nr BY Zenon, <1>1, <3>1 DEF Awaited
      <4>2. n \in 1 .. Len(issued[d]) /\ Len(issued[d]) \in Nat BY Zenon, LogType
      <4>3. CASE n < Len(issued[d]) BY Zenon, <2>1, <4>1, <4>3 DEF ReturnedIsApplied
      <4>4. CASE n = Len(issued[d])
        <5>1. Message(d, n, "call") = m BY Zenon, <1>2, <3>1, <4>1, <4>4 DEF Messages, Message
        <5> QED BY Zenon, <5>1, <1>2
      <4> QED BY <4>2, <4>3, <4>4
    <3>2. CASE ~(m.kind = "call" /\ d = m.by)
      <4>1. waits'[d] = waits[d] BY Zenon, <1>1, <1>2, <3>2, ClientTypes
      <4> QED BY Zenon, <2>1, <4>1 DEF ReturnedIsApplied
    <3> QED BY Zenon, <3>1, <3>2
  <2> QED BY Zenon, <2>1, <1>1 DEF ReturnedIsApplied, Message
<1>8. DiesOnlyOfDrop'
  <2> SUFFICES ASSUME ~dropped PROVE DiesOnlyOfDrop' BY Zenon, <1>1 DEF DiesOnlyOfDrop
  <2>1. ASSUME NEW k \in Range(queue), k.kind # "cast" PROVE Awaited(k)'
    <3>1. Awaited(k) BY Zenon, <2>1 DEF DiesOnlyOfDrop
    <3>2. k \in Messages /\ k.by \in Clients /\ k.kind \in {"call", "future"}
          /\ m.kind \in {"call", "future"}
      <4>1. k \in Messages BY <2>1, QueueTypes DEF Range
      <4> QED BY Zenon, <2>1, <1>2, <4>1, MessageFields DEF MessageKinds
    <3>3. k.by = m.by => k.kind # m.kind
      <4> SUFFICES ASSUME k.by = m.by, k.kind = m.kind PROVE FALSE BY Zenon
      <4>1. k.nr = m.nr BY <1>1, <3>1, <3>2 DEF Awaited
      <4>2. PICK i \in 1 .. Len(applied) : m = Log[i]
        BY Zenon, <1>2, LogType DEF Range
      <4>3. PICK j \in 1 .. Len(queue) : k = Log[Len(applied) + j]
        BY Zenon, <2>1, LogType DEF Range
      <4>4. i \in DOMAIN Log /\ Len(applied) + j \in DOMAIN Log /\ i # Len(applied) + j
        BY LogType, QueueTypes, LenProperties
      <4> QED BY Zenon, <4>1, <4>2, <4>3, <4>4 DEF SentOnce
    <3> QED BY Zenon, <1>1, <1>2, <3>1, <3>2, <3>3, ClientTypes DEF Awaited
  <2>2. alive BY Zenon DEF DiesOnlyOfDrop
  <2> QED BY Zenon, <2>1, <2>2, <1>1 DEF DiesOnlyOfDrop
<1> QED BY Zenon, <1>3, <1>5, <1>6, <1>7, <1>8 DEF LogInv

LEMMA PanicStep ==
  ASSUME ChannelInv, ServerPanics
  PROVE  ChannelInv'
<1> USE DEF ChannelInv
<1>1. /\ serving # NoMessage /\ ~Awaited(serving) /\ serving' = NoMessage /\ alive' = FALSE
      /\ queue' \in {queue, <<>>} /\ issued' = issued /\ waits' = waits /\ future' = future
      /\ dropped' = dropped /\ applied' = applied /\ IssuedKept
  BY Zenon, IssuedSame DEF ServerPanics, clientVars
<1>2. ChannelTypeOK'
  <2>1. queue' \in Seq(Messages) BY <1>1, QueueTypes, EmptySeq, Zenon
  <2> QED BY <1>1, <2>1, Zenon DEF ChannelTypeOK
<1>3. Log' = Log \/ Log' = applied BY SMTT(20), <1>1, QueueTypes DEF Log
<1>4. LogInv' BY Zenon, <1>1, <1>2, <1>3, LogKept DEF LogInv
<1>5. \A i \in DOMAIN Log' : i \in DOMAIN Log /\ Log'[i] = Log[i]
  <2>1. CASE Log' = Log BY Zenon, <2>1
  <2>2. CASE Log' = applied
    <3>1. Len(applied) \in Nat /\ Len(queue) \in Nat BY Zenon, QueueTypes, LenProperties
    <3> QED BY <2>2, <3>1, LogType
  <2> QED BY Zenon, <1>3, <2>1, <2>2
<1>6. FuturesAreIssued' BY <1>1, <1>5 DEF FuturesAreIssued, IsMessage
<1>7. ReturnedIsApplied' BY Zenon, <1>1 DEF ReturnedIsApplied, Message
<1>8. DiesOnlyOfDrop' BY Zenon, <1>1 DEF DiesOnlyOfDrop
<1> QED BY Zenon, <1>2, <1>4, <1>6, <1>7, <1>8 DEF LogInv

LEMMA ChannelNext == ChannelInv /\ [NextOfChannel]_channelVars => ChannelInv'
<1> SUFFICES ASSUME ChannelInv, [NextOfChannel]_channelVars PROVE ChannelInv' BY Zenon
<1>1. CASE UNCHANGED channelVars
  <2> USE <1>1 DEF channelVars, ChannelInv
  <2>1. ChannelTypeOK' BY Zenon DEF ChannelTypeOK
  <2>2. Log' = Log BY SMTT(20) DEF Log
  <2>3. ProgramOrder' /\ SentOnce' /\ SentIsIssued' /\ FuturesAreIssued'
    BY <2>2 DEF ProgramOrder, SentOnce, SentIsIssued, FuturesAreIssued, IsMessage
  <2>4. ReturnedIsApplied' BY Zenon DEF ReturnedIsApplied, Message
  <2>5. DiesOnlyOfDrop' BY Zenon DEF DiesOnlyOfDrop, Awaited
  <2> QED BY Zenon, <2>1, <2>3, <2>4, <2>5
<1>2. CASE Server BY SMTT(20), <1>2, ServeStep, RespondStep, PanicStep DEF Server
<1> QED
  BY Zenon, <1>1, <1>2, CallStep, NewFutureStep, PollStep, DropStep DEF NextOfChannel

LEMMA ChannelInit == InitChannel => ChannelInv
<1> SUFFICES ASSUME InitChannel PROVE ChannelInv BY Zenon
<1> USE DEF InitChannel
<1>1. ChannelTypeOK
  <2>1. queue \in Seq(Messages) /\ applied \in Seq(Messages) BY EmptySeq, Zenon
  <2>2. issued \in [Clients -> Seq(MessageKinds)] BY EmptySeq, Zenon
  <2>3. \A c \in Clients : Len(issued[c]) <= MaxMessages BY ChannelAssumption
  <2>4. future \in [Clients -> FutureStates] BY NoFutureType, Zenon
  <2> QED BY <2>1, <2>2, <2>3, <2>4, Zenon DEF ChannelTypeOK, FutureStates
<1>2. Log = <<>> /\ Range(queue) = {} BY DEF Log, Range
<1>3. \A c \in Clients : DOMAIN issued[c] = {} OBVIOUS
<1> QED
  BY SMTT(20), <1>1, <1>2, <1>3 DEF ChannelInv, ProgramOrder, SentOnce, SentIsIssued, FuturesAreIssued,
                        ReturnedIsApplied, DiesOnlyOfDrop, NoFuture

(* For any number of clients and operations, the server applies what each  *)
(* client issues once and in program order, a client goes on after a call  *)
(* only when it was applied, and the server's task ends only because a     *)
(* future was dropped.                                                     *)
THEOREM OperationsInOrder == ChannelSpec => []ChannelInv
BY ChannelInit, ChannelNext, PTL DEF ChannelSpec

-----------------------------------------------------------------------------
(* The memory                                                              *)
-----------------------------------------------------------------------------
(* Helpers                                                                 *)

(* The assumption, part by part.                                           *)
LEMMA Bounds ==
  /\ Alignment \in Nat \ {0} /\ AllocAfterFree \in Nat \ {0} /\ MaxPages \in Nat
  /\ MaxRefs \in Nat \ {0} /\ Sizes \subseteq Nat
BY MemoryAssumption, Zenon

LEMMA PoolType ==
  ASSUME NEW i \in PoolIds
  PROVE  Pools[i].max \in Nat /\ Pools[i].period \in Nat /\ Pools[i].max % Alignment = 0
<1>1. Pools \in Seq([max : Nat, period : Nat]) BY MemoryAssumption, Zenon
<1>2. Pools[i] \in [max : Nat, period : Nat] BY <1>1, ElementOfSeq, Zenon DEF PoolIds
<1>3. Pools[i].max % Alignment = 0 BY MemoryAssumption, Zenon
<1> QED BY Zenon, <1>2, <1>3

(* A set of numbers that is not empty has a least one.                     *)
LEMMA LeastOf ==
  ASSUME NEW S \in SUBSET Nat, S # {}
  PROVE  Min(S) \in S /\ \A y \in S : Min(S) <= y
<1>1. PICK x \in S : \A y \in S : ~(<<y, x>> \in OpToRel(<, Nat))
  BY ONLY S \in SUBSET Nat, S # {}, NatLessThanWellFounded, WFMin, Zenon
<1>2. \A y \in S : ~(y < x)
  BY <1>1, Zenon DEF OpToRel
<1>3. \A y \in S : x <= y
  BY <1>2
<1> QED BY <1>3, Zenon DEF Min

(* The larger of two numbers.                                              *)
LEMMA LargerOf ==
  ASSUME NEW a \in Nat, NEW b \in Nat
  PROVE  Max({a, b}) \in {a, b} /\ a <= Max({a, b}) /\ b <= Max({a, b})
<1>1. \E x \in {a, b} : \A y \in {a, b} : y <= x
  <2>1. CASE a <= b BY <2>1
  <2>2. CASE b <= a BY <2>2
  <2> QED BY <2>1, <2>2
<1>2. Max({a, b}) \in {a, b} /\ \A y \in {a, b} : y <= Max({a, b})
  BY <1>1, Zenon DEF Max
<1> QED BY Zenon, <1>2

(* A number is its quotient times the alignment, plus its remainder.       *)
LEMMA DivMod ==
  ASSUME NEW a \in Nat
  PROVE  /\ a \div Alignment \in Nat
         /\ a % Alignment \in 0 .. Alignment - 1
         /\ a = (a \div Alignment) * Alignment + (a % Alignment)
BY Bounds

(* Multiples of the alignment have no remainder.                           *)
LEMMA MulMod ==
  ASSUME NEW q \in Nat
  PROVE  (q * Alignment) % Alignment = 0
BY Bounds

(* calculate_padding: what a size is padded to is the least multiple of    *)
(* the alignment that holds it.                                            *)
LEMMA Padding ==
  ASSUME NEW size \in Nat
  PROVE  /\ CalculatePadding(size) \in Nat
         /\ (size + CalculatePadding(size)) % Alignment = 0
         /\ \A n \in Nat : size <= n /\ n % Alignment = 0 => size + CalculatePadding(size) <= n
<1> DEFINE q == size \div Alignment
<1>1. /\ Alignment \in Nat \ {0} /\ q \in Nat /\ size % Alignment \in 0 .. Alignment - 1
      /\ size = q * Alignment + (size % Alignment)
  BY DivMod, Bounds, Zenon
<1>2. CASE size % Alignment = 0
  BY <1>1, <1>2 DEF CalculatePadding
<1>3. CASE size % Alignment # 0
  <2>1. CalculatePadding(size) = Alignment - (size % Alignment)
    BY <1>1, <1>3 DEF CalculatePadding
  <2>2. size + CalculatePadding(size) = (q + 1) * Alignment
    BY <2>1, <1>1
  <2>3. ((q + 1) * Alignment) % Alignment = 0
    BY <1>1, MulMod
  <2>4. ASSUME NEW n \in Nat, size <= n, n % Alignment = 0 PROVE (q + 1) * Alignment <= n
    <3> DEFINE r == n \div Alignment
    <3>1. r \in Nat /\ n = r * Alignment BY <2>4, <1>1, DivMod
    <3>2. q * Alignment < r * Alignment BY <1>1, <1>3, <2>4, <3>1
    <3>3. q + 1 <= r BY <1>1, <3>1, <3>2
    <3>4. (q + 1) * Alignment <= r * Alignment BY <1>1, <3>1, <3>3
    <3> QED BY Zenon, <3>1, <3>4
  <2> QED BY <1>1, <2>1, <2>2, <2>3, <2>4
<1> QED BY Zenon, <1>1, <1>2, <1>3

(* The pool that a size is reserved from takes it.                         *)
LEMMA PoolTakes ==
  ASSUME NEW size \in Sizes
  PROVE  PoolFor(size) \in PoolIds /\ size <= Pools[PoolFor(size)].max
<1> DEFINE S == {i \in PoolIds : Pools[i].max >= size}
<1>1. S \subseteq Nat BY DEF PoolIds
<1>2. S # {}
  <2>1. PICK i \in PoolIds : size <= Pools[i].max BY MemoryAssumption, Zenon
  <2>2. size \in Nat /\ Pools[i].max \in Nat BY Zenon, Bounds, PoolType
  <2> QED BY Zenon, <2>1, <2>2
<1>3. PoolFor(size) \in S BY Zenon, <1>1, <1>2, LeastOf DEF PoolFor
<1>4. size \in Nat /\ \A i \in PoolIds : Pools[i].max \in Nat BY Zenon, Bounds, PoolType
<1> QED BY Zenon, <1>3, <1>4

(* What alloc_page allocates holds the request and its padding, in whole   *)
(* alignment units, and respects the limit of the pool.                    *)
LEMMA AllocSizeFits ==
  ASSUME NEW size \in Nat, NEW limit \in Nat, NEW average \in 0 .. limit,
         size <= limit, limit % Alignment = 0
  PROVE  /\ AllocSize(size, average) \in Nat
         /\ AllocSize(size, average) % Alignment = 0
         /\ size + CalculatePadding(size) <= AllocSize(size, average)
         /\ AllocSize(size, average) <= limit
<1> DEFINE n == Max({size, average})
<1>1. n \in Nat /\ size <= n /\ n <= limit
  BY LargerOf
<1>2. AllocSize(size, average) = n + CalculatePadding(n)
  BY Zenon DEF AllocSize
<1> HIDE DEF n
<1>3. /\ CalculatePadding(n) \in Nat /\ (n + CalculatePadding(n)) % Alignment = 0
      /\ n + CalculatePadding(n) <= limit
  BY Zenon, <1>1, Padding
<1>4. size + CalculatePadding(size) <= n + CalculatePadding(n)
  BY <1>1, <1>3, Padding
<1> QED BY <1>1, <1>2, <1>3, <1>4

-----------------------------------------------------------------------------
(* The invariant                                                           *)

LEMMA InitInv == InitMemory => MemoryInv
<1> SUFFICES ASSUME InitMemory PROVE MemoryInv BY Zenon
<1>1. DOMAIN page = {} BY DEF InitMemory
<1>2. page \in [DOMAIN page -> Page]
  <2>1. page = <<>> /\ <<>> \in Seq(Page) BY DEF InitMemory
  <2>2. <<>> \in [DOMAIN <<>> -> Page] BY <2>1, LenProperties, Zenon
  <2> QED BY <2>1, <2>2, Zenon
<1>3. since \in [PoolIds -> Nat] /\ \A i \in PoolIds : since[i] <= Pools[i].period
  BY PoolType DEF InitMemory
<1>4. refs \in [Ids -> 0 .. MaxRefs] /\ \A id \in Ids : refs[id] = 0
  BY Bounds DEF InitMemory
<1> QED
  BY <1>1, <1>2, <1>3, <1>4 DEF InitMemory, MemoryInv, MemoryTypes, StorageAccounted, HeldPagesExist, SliceFits

(* A page that a reserve allocates on a fresh storage id.                  *)
LEMMA NewPageInv ==
  ASSUME MemoryInv, NEW id \in Ids, NEW new \in Page, NewPage(id, new), storage # Ids,
         UNCHANGED mode, since' \in [PoolIds -> Nat],
         \A i \in PoolIds : since'[i] <= Pools[i].period,
         new.size <= new.alloc_size, new.alloc_size % Alignment = 0,
         new.pool # StaticPool => /\ new.size + new.padding <= new.alloc_size
                                  /\ new.alloc_size <= Pools[new.pool].max
  PROVE  MemoryInv'
<1> USE DEF MemoryInv
<1>1. id \in Ids \ storage
  <2>1. Ids \ storage # {} BY Zenon DEF MemoryTypes
  <2>2. Ids \ storage \subseteq Nat BY DEF Ids
  <2> QED BY Zenon, <2>1, <2>2, LeastOf DEF NewPage
<1>2. /\ DOMAIN page' = DOMAIN page \cup {id} /\ page'[id] = new
      /\ \A i \in DOMAIN page : page'[i] = page[i]
      /\ page' \in [DOMAIN page' -> Page]
  BY Zenon, <1>1 DEF NewPage, MemoryTypes, StorageAccounted
<1>3. refs' \in [Ids -> 0 .. MaxRefs] /\ \A i \in Ids \ {id} : refs'[i] = refs[i]
  BY Bounds DEF NewPage, MemoryTypes
<1>4. MemoryTypes' BY <1>1, <1>2, <1>3, Zenon DEF MemoryTypes, NewPage
<1>5. StorageAccounted' BY Zenon, <1>2 DEF StorageAccounted, NewPage
<1>6. HeldPagesExist' BY Zenon, <1>2, <1>3, <1>5 DEF HeldPagesExist, StorageAccounted
<1>7. SliceFits' BY Zenon, <1>2 DEF SliceFits
<1> QED BY Zenon, <1>4, <1>5, <1>6, <1>7

(* The counters of all pools after a reserve.                              *)
LEMMA CountedType ==
  ASSUME MemoryTypes
  PROVE  Counted \in [PoolIds -> Nat] /\ \A i \in PoolIds : Counted[i] <= Pools[i].period
<1> SUFFICES ASSUME NEW i \in PoolIds
             PROVE  Counted[i] \in Nat /\ Counted[i] <= Pools[i].period
  BY Zenon DEF Counted
<1>1. Pools[i].period \in Nat /\ since[i] + 1 \in Nat
  BY PoolType DEF MemoryTypes
<1>2. {since[i] + 1, Pools[i].period} \in SUBSET Nat BY Zenon, <1>1
<1>3. /\ Min({since[i] + 1, Pools[i].period}) \in {since[i] + 1, Pools[i].period}
      /\ Min({since[i] + 1, Pools[i].period}) <= Pools[i].period
  BY Zenon, <1>2, LeastOf
<1> QED BY Zenon, <1>1, <1>3 DEF Counted

LEMMA ReserveStaticInv ==
  ASSUME MemoryInv, NEW size \in Sizes, ReserveStatic(size)
  PROVE  MemoryInv'
<1> DEFINE n == size + CalculatePadding(size)
           new == [pool |-> StaticPool, free_count |-> 0, alloc_size |-> n, size |-> n,
                   padding |-> CalculatePadding(size)]
<1>1. PICK id \in Ids : NewPage(id, new) BY Zenon DEF ReserveStatic
<1>2. CalculatePadding(size) \in Nat /\ n \in Nat /\ n % Alignment = 0
  <2>1. size \in Nat BY Zenon, Bounds
  <2>2. CalculatePadding(size) \in Nat /\ n % Alignment = 0 BY <2>1, Padding, Zenon
  <2> QED BY <2>1, <2>2
<1>3. new \in Page BY <1>2, Bounds DEF Page
<1>4. since' = since /\ mode' = mode /\ storage # Ids BY Zenon DEF ReserveStatic
<1>5. since' \in [PoolIds -> Nat] /\ \A i \in PoolIds : since'[i] <= Pools[i].period
  BY Zenon, <1>4 DEF MemoryInv, MemoryTypes
<1> QED BY <1>1, <1>2, <1>3, <1>4, <1>5, NewPageInv

LEMMA ReserveAllocInv ==
  ASSUME MemoryInv, NEW size \in Sizes, NEW exclude, ReserveAlloc(size, exclude)
  PROVE  MemoryInv'
<1> DEFINE pool == PoolFor(size)
           New(average) == [pool |-> pool, free_count |-> AllocAfterFree - 1,
                            alloc_size |-> AllocSize(size, average), size |-> size,
                            padding |-> CalculatePadding(size)]
<1>1. PICK id \in Ids, average \in 0 .. Pools[pool].max : NewPage(id, New(average))
  BY Zenon DEF ReserveAlloc, AllocPage
<1>2. /\ pool \in PoolIds /\ size <= Pools[pool].max /\ size \in Nat
      /\ Pools[pool].max \in Nat /\ Pools[pool].max % Alignment = 0
  BY Zenon, PoolTakes, PoolType, Bounds
<1> HIDE DEF pool
<1>3. /\ AllocSize(size, average) \in Nat /\ AllocSize(size, average) % Alignment = 0
      /\ size + CalculatePadding(size) <= AllocSize(size, average)
      /\ AllocSize(size, average) <= Pools[pool].max
      /\ CalculatePadding(size) \in Nat
  BY Zenon, <1>2, AllocSizeFits, Padding
<1>4. New(average) \in Page BY <1>2, <1>3, Bounds DEF Page
<1>5. since' = Counted /\ mode' = mode /\ storage # Ids BY Zenon DEF ReserveAlloc, AllocPage
<1>6. since' \in [PoolIds -> Nat] /\ \A i \in PoolIds : since'[i] <= Pools[i].period
  BY Zenon, <1>5, CountedType DEF MemoryInv
<1>7. size <= AllocSize(size, average) BY <1>2, <1>3
<1> QED BY Zenon, <1>1, <1>3, <1>4, <1>5, <1>6, <1>7, NewPageInv

(* A reserve that takes a free page of the pool.                           *)
LEMMA ReserveReuseInv ==
  ASSUME MemoryInv, NEW size \in Sizes, NEW exclude, ReserveReuse(size, exclude)
  PROVE  MemoryInv'
<1> USE DEF MemoryInv
<1>1. PICK id \in Candidates(size, exclude) :
        /\ page' = [page EXCEPT ![id] = [@ EXCEPT !.size = size,
                                                  !.padding = CalculatePadding(size),
                                                  !.free_count = Decremented(page[id].free_count)]]
        /\ refs' = [refs EXCEPT ![id] = @ + 1]
        /\ UNCHANGED storage
  BY Zenon DEF ReserveReuse, Reuse
<1>2. id \in DOMAIN page /\ id \in Ids /\ page[id] \in Page /\ refs[id] = 0 /\ size <= page[id].alloc_size
  BY Zenon, Bounds DEF Candidates, Pages, Free, MemoryTypes, Page
<1>3. /\ size \in Nat /\ CalculatePadding(size) \in Nat
      /\ size + CalculatePadding(size) <= page[id].alloc_size
  BY Zenon, <1>2, Bounds, Padding DEF SliceFits, Page
<1>4. Decremented(page[id].free_count) \in 0 .. AllocAfterFree
  BY <1>2, Bounds DEF Decremented, Page
<1>5. /\ DOMAIN page' = DOMAIN page
      /\ \A i \in DOMAIN page \ {id} : page'[i] = page[i]
      /\ page'[id] \in Page /\ page'[id].pool = page[id].pool
      /\ page'[id].alloc_size = page[id].alloc_size
      /\ page'[id].size = size /\ page'[id].padding = CalculatePadding(size)
  BY Zenon, <1>1, <1>2, <1>3, <1>4 DEF MemoryTypes, Page
<1>6. page' \in [DOMAIN page' -> Page]
  BY Zenon, <1>1, <1>2, <1>5 DEF MemoryTypes
<1>7. /\ refs' \in [Ids -> 0 .. MaxRefs] /\ \A i \in Ids \ {id} : refs'[i] = refs[i]
  BY <1>1, <1>2, Bounds DEF MemoryTypes
<1>8. since' \in [PoolIds -> Nat] /\ \A i \in PoolIds : since'[i] <= Pools[i].period
  BY Zenon, CountedType DEF ReserveReuse
<1>9. MemoryTypes' BY Zenon, <1>1, <1>5, <1>6, <1>7, <1>8 DEF MemoryTypes, ReserveReuse
<1>10. StorageAccounted' BY Zenon, <1>1, <1>5 DEF StorageAccounted
<1>11. HeldPagesExist' BY Zenon, <1>2, <1>5, <1>7, <1>10 DEF HeldPagesExist, StorageAccounted
<1>12. SliceFits'
  <2> SUFFICES ASSUME NEW i \in DOMAIN page
               PROVE  /\ page'[i].size <= page'[i].alloc_size
                      /\ page'[i].alloc_size % Alignment = 0
                      /\ page'[i].pool # StaticPool =>
                           /\ page'[i].size + page'[i].padding <= page'[i].alloc_size
                           /\ page'[i].alloc_size <= Pools[page'[i].pool].max
    BY Zenon, <1>5 DEF SliceFits
  <2>1. CASE i = id BY Zenon, <2>1, <1>2, <1>3, <1>5 DEF SliceFits
  <2>2. CASE i # id BY Zenon, <2>2, <1>5 DEF SliceFits
  <2> QED BY Zenon, <2>1, <2>2
<1> QED BY Zenon, <1>9, <1>10, <1>11, <1>12

(* A cleanup returns free pages only, and counts the others it found free. *)
LEMMA CleanupInv ==
  ASSUME MemoryInv, NEW explicit \in BOOLEAN, Cleanup(explicit)
  PROVE  MemoryInv'
<1> USE DEF MemoryInv
<1> DEFINE D == Dropped(explicit)
           S == Seen(explicit)
<1>1. /\ DOMAIN page' = DOMAIN page \ D /\ storage' = storage \ D
      /\ refs' = refs /\ mode' = mode
      /\ \A i \in DOMAIN page \ D :
           page'[i] = IF i \in S THEN [page[i] EXCEPT !.free_count = @ + 1] ELSE page[i]
  BY Zenon DEF Cleanup
<1>2. \A i \in D : i \in DOMAIN page /\ refs[i] = 0
  BY Zenon DEF Dropped, DroppedStatic, Seen, Free, Pages
<1>3. \A i \in S \ D : page[i].free_count + 1 < AllocAfterFree
  <2> SUFFICES ASSUME NEW i \in S \ D PROVE page[i].free_count + 1 < AllocAfterFree BY Zenon
  <2>1. ~(page[i].free_count + 1 >= AllocAfterFree) /\ i \in DOMAIN page BY Zenon DEF Dropped, Seen
  <2>2. page[i].free_count \in Nat BY <2>1, Bounds DEF MemoryTypes, Page
  <2> QED BY <2>1, <2>2, Bounds
<1> HIDE DEF D
<1>4. ASSUME NEW i \in DOMAIN page'
      PROVE  /\ page'[i] \in Page /\ i \in DOMAIN page
             /\ page'[i].pool = page[i].pool /\ page'[i].alloc_size = page[i].alloc_size
             /\ page'[i].size = page[i].size /\ page'[i].padding = page[i].padding
  <2>1. i \in DOMAIN page \ D /\ page[i] \in Page BY Zenon, <1>1 DEF MemoryTypes
  <2>2. CASE i \in S
    <3>1. page[i].free_count + 1 \in 0 .. AllocAfterFree
      BY <1>3, <2>1, <2>2, Bounds DEF Page
    <3>2. page'[i] = [page[i] EXCEPT !.free_count = @ + 1] BY Zenon, <1>1, <2>1, <2>2
    <3> QED BY Zenon, <2>1, <3>1, <3>2 DEF Page
  <2>3. CASE i \notin S BY Zenon, <1>1, <2>1, <2>3
  <2> QED BY Zenon, <2>2, <2>3
<1>5. page' \in [DOMAIN page' -> Page]
  <2>1. page' = [i \in DOMAIN page' |-> page'[i]] BY Zenon DEF Cleanup
  <2> QED BY Zenon, <1>4, <2>1
<1>6. since' \in [PoolIds -> Nat] /\ \A i \in PoolIds : since'[i] <= Pools[i].period
  BY PoolType DEF Cleanup, MemoryTypes
<1>7. MemoryTypes' BY Zenon, <1>1, <1>5, <1>6 DEF MemoryTypes
<1>8. StorageAccounted' BY Zenon, <1>1 DEF StorageAccounted
<1>9. HeldPagesExist' BY <1>1, <1>2 DEF HeldPagesExist, MemoryTypes
<1>10. SliceFits' BY Zenon, <1>4 DEF SliceFits
<1> QED BY Zenon, <1>7, <1>8, <1>9, <1>10

(* Clones and drops of references, and changes of the mode.                *)
LEMMA ReferencesInv ==
  ASSUME MemoryInv,
         \/ \E id \in Ids : CloneHandle(id) \/ DropHandle(id)
         \/ \E m \in {"auto", "static"} : SetMode(m)
         \/ UNCHANGED memoryVars
  PROVE  MemoryInv'
<1> USE DEF MemoryInv
<1>1. ASSUME NEW id \in Ids, CloneHandle(id) \/ DropHandle(id) PROVE MemoryInv'
  <2>1. /\ UNCHANGED <<page, storage, since, mode>> /\ refs[id] \in 0 .. MaxRefs /\ refs[id] > 0
        /\ refs' = [refs EXCEPT ![id] = refs'[id]] /\ refs'[id] \in 0 .. MaxRefs
    BY <1>1, Bounds DEF CloneHandle, DropHandle, MemoryTypes
  <2>2. MemoryTypes' BY Zenon, <2>1 DEF MemoryTypes
  <2>3. \A i \in Ids : refs'[i] > 0 => refs[i] > 0 BY Zenon, <2>1 DEF MemoryTypes
  <2> QED BY Zenon, <2>1, <2>2, <2>3 DEF StorageAccounted, HeldPagesExist, SliceFits
<1>2. ASSUME NEW m \in {"auto", "static"}, SetMode(m) PROVE MemoryInv'
  BY Zenon, <1>2 DEF SetMode, MemoryTypes, StorageAccounted, HeldPagesExist, SliceFits
<1>3. CASE UNCHANGED memoryVars
  BY Zenon, <1>3 DEF memoryVars, MemoryTypes, StorageAccounted, HeldPagesExist, SliceFits
<1> QED BY Zenon, <1>1, <1>2, <1>3

LEMMA NextInv == MemoryInv /\ [NextOfMemory]_memoryVars => MemoryInv'
<1> SUFFICES ASSUME MemoryInv, [NextOfMemory]_memoryVars PROVE MemoryInv' BY Zenon
<1>1. CASE Reserve
  BY Zenon, <1>1, ReserveStaticInv, ReserveReuseInv, ReserveAllocInv DEF Reserve
<1>2. ASSUME NEW explicit \in BOOLEAN, Cleanup(explicit) PROVE MemoryInv'
  BY Zenon, <1>2, CleanupInv
<1> QED BY Zenon, <1>1, <1>2, ReferencesInv DEF NextOfMemory

(* Whatever is reserved, dropped and cleaned up, in either mode, the pools *)
(* and the storage agree on the pages, no page that a client holds is      *)
(* returned, and every slice lies with its padding inside a page that its  *)
(* pool allows.                                                            *)
THEOREM PagesAccounted == MemorySpec => []MemoryInv
BY InitInv, NextInv, PTL DEF MemorySpec

-----------------------------------------------------------------------------
(* Pages in use                                                            *)

(* What a step may not do to a page in use or excluded.                    *)
LEMMA HeldStep ==
  ASSUME MemoryInv, [NextOfMemory]_memoryVars
  PROVE  /\ \A id \in Ids : refs[id] > 0 =>
              /\ page'[id].size = page[id].size /\ page'[id].alloc_size = page[id].alloc_size
         /\ \A size \in Sizes, exclude \in SUBSET Ids :
              ReserveReuse(size, exclude) => \A id \in exclude : refs'[id] = refs[id]
<1> USE DEF MemoryInv
<1>1. ASSUME NEW id \in Ids, refs[id] > 0
      PROVE  page'[id].size = page[id].size /\ page'[id].alloc_size = page[id].alloc_size
  <2>1. id \in DOMAIN page /\ id \in storage /\ refs[id] # 0
    BY <1>1 DEF HeldPagesExist, MemoryTypes
  <2>2. ASSUME NEW i \in Ids, NEW new, NewPage(i, new), storage # Ids PROVE page'[id] = page[id]
    <3>1. Ids \ storage # {} BY <2>2, Zenon DEF MemoryTypes
    <3>2. Ids \ storage \subseteq Nat BY DEF Ids
    <3>3. i \notin storage BY Zenon, <2>2, <3>1, <3>2, LeastOf DEF NewPage
    <3> QED BY Zenon, <2>1, <2>2, <3>3 DEF NewPage
  <2>3. ASSUME NEW size \in Sizes, ReserveStatic(size) PROVE page'[id] = page[id]
    BY Zenon, <2>2, <2>3 DEF ReserveStatic
  <2>4. ASSUME NEW size \in Sizes, NEW exclude, ReserveAlloc(size, exclude)
        PROVE  page'[id] = page[id]
    BY Zenon, <2>2, <2>4 DEF ReserveAlloc, AllocPage
  <2>5. ASSUME NEW size \in Sizes, NEW exclude, ReserveReuse(size, exclude)
        PROVE  page'[id] = page[id]
    BY Zenon, <2>1, <2>5 DEF ReserveReuse, Reuse, Candidates, Free
  <2>6. ASSUME NEW explicit \in BOOLEAN, Cleanup(explicit) PROVE page'[id] = page[id]
    BY Zenon, <2>1, <2>6 DEF Cleanup, Dropped, DroppedStatic, Seen, Free
  <2>7. CASE UNCHANGED page BY Zenon, <2>7
  <2> QED
    BY Zenon, <2>3, <2>4, <2>5, <2>6, <2>7 DEF NextOfMemory, memoryVars, Reserve, SetMode, CloneHandle, DropHandle
<1>2. ASSUME NEW size \in Sizes, NEW exclude \in SUBSET Ids, ReserveReuse(size, exclude),
             NEW id \in exclude
      PROVE  refs'[id] = refs[id]
  BY Zenon, <1>2 DEF ReserveReuse, Reuse, Candidates, MemoryTypes
<1> QED BY Zenon, <1>1, <1>2

(* A slice keeps its place and size for as long as anyone holds it, and a  *)
(* reserve reuses no page that the caller excluded.                        *)
THEOREM HeldPagesStay == MemorySpec => HeldPagesStable
<1>1. MemoryInv /\ [NextOfMemory]_memoryVars =>
        [/\ \A id \in Ids : refs[id] > 0 =>
              /\ page'[id].size = page[id].size /\ page'[id].alloc_size = page[id].alloc_size
         /\ \A size \in Sizes, exclude \in SUBSET Ids :
              ReserveReuse(size, exclude) => \A id \in exclude : refs'[id] = refs[id]]_memoryVars
  BY Zenon, HeldStep
<1> QED BY <1>1, PagesAccounted, PTL DEF MemorySpec, HeldPagesStable
=============================================================================
