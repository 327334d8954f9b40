------------------------ MODULE ClientProfilingProofs ------------------------
(***************************************************************************)
(* Proofs about the profiling lock of the client, for every number of      *)
(* threads, operations and nested sections.                                *)
(***************************************************************************)
EXTENDS ClientProfiling, FiniteSetTheorems, SequenceTheorems, TLAPS

-----------------------------------------------------------------------------
(* The profiling lock: helpers                                             *)

(* A profile that begins is a new innermost section.                       *)
LEMMA Extended ==
  ASSUME NEW S, NEW s \in Seq(S), NEW x \in S
  PROVE  /\ Append(s, x) \in Seq(S) /\ Len(Append(s, x)) = Len(s) + 1
         /\ \A i \in 1 .. Len(s) : Append(s, x)[i] = s[i]
         /\ Append(s, x)[Len(s) + 1] = x
OBVIOUS

(* TimestampProfiler::start finds a token that is not in use, and no       *)
(* larger than the number of profiles requires.                            *)
LEMMA FreshToken ==
  ASSUME NEW n \in Nat, NEW states, DOMAIN states \subseteq 1 .. n
  PROVE  NewToken(states) \in 1 .. n + 1 /\ NewToken(states) \notin DOMAIN states
<1> DEFINE D == DOMAIN states
           c == Cardinality(D)
           S == (1 .. c + 1) \ D
<1>1. IsFiniteSet(1 .. n) /\ Cardinality(1 .. n) = n
  BY FS_Interval
<1>2. IsFiniteSet(D) /\ c \in Nat /\ c <= n
  BY <1>1, FS_Subset, FS_CardinalityType
<1> HIDE DEF c
<1>3. IsFiniteSet(1 .. c + 1) /\ Cardinality(1 .. c + 1) = c + 1
  BY <1>2, FS_Interval
<1>4. S # {}
  <2> SUFFICES ASSUME S = {} PROVE FALSE BY Zenon
  <2>1. (1 .. c + 1) \subseteq D BY Zenon
  <2>2. Cardinality(1 .. c + 1) <= c BY Zenon, <2>1, <1>2, FS_Subset DEF c
  <2> QED BY <2>2, <1>2, <1>3
<1>5. \E k \in 1 .. c + 1 : k \notin D BY <1>4, Zenon
<1>6. NewToken(states) \in 1 .. c + 1 /\ NewToken(states) \notin D BY <1>5, Zenon DEF NewToken, c
<1> QED BY <1>2, <1>6

(* A map without keys is the empty one.                                    *)
LEMMA EmptyMap ==
  ASSUME NEW S, NEW f \in [{} -> S]
  PROVE  f = <<>>
<1>1. 1 .. 0 = {} OBVIOUS
<1>2. f \in Seq(S) /\ DOMAIN f = {} BY <1>1
<1>3. Len(f) = 0 BY <1>2
<1> QED BY Zenon, <1>2, <1>3, EmptySeq

PcValues == Kinds \cup {"run", "guard", "tensor", "send", "enter", "leave", "dead"}

LEMMA PcType == TypeOK => pc \in [Threads -> PcValues]
BY Zenon DEF TypeOK, PcValues

LEMMA FramesType == TypeOK => frames \in [Threads -> Seq(Frame)]
BY Zenon DEF TypeOK

LEMMA DepthType ==
  TypeOK => \A t \in Threads : Len(frames[t]) <= MaxDepth /\ (pc[t] \in Kinds => Len(frames[t]) < MaxDepth)
BY Zenon DEF TypeOK

LEMMA ProfilesType ==
  TypeOK => /\ DOMAIN profiles \subseteq Tokens
            /\ profiles \in [DOMAIN profiles -> {"start", "error"}] /\ failed \subseteq Tokens
BY Zenon DEF TypeOK

LEMMA OtherTypes ==
  TypeOK => /\ current \in Threads \cup {None} /\ ops \in [Threads -> 0 .. MaxOps]
            /\ mode \in {"auto", "static"} /\ reset \subseteq Threads /\ unsent \in [Threads -> Nat]
            /\ sent \in [Threads -> Nat] /\ early \in [Threads -> Nat]
BY Zenon DEF TypeOK

LEMMA ToldType == TypeOK => told \in [Threads -> [failed : BOOLEAN, error : BOOLEAN]]
BY Zenon DEF TypeOK

(* What a thread is told of a profile.                                     *)
LEMMA AnswerIs ==
  ASSUME NEW a \in BOOLEAN, NEW b \in BOOLEAN
  PROVE  /\ [failed |-> a, error |-> b] \in [failed : BOOLEAN, error : BOOLEAN]
         /\ [failed |-> a, error |-> b].failed = a /\ [failed |-> a, error |-> b].error = b
BY Zenon

(* A thread goes on, the others stay where they are.                       *)
LEMMA Moved ==
  ASSUME TypeOK, NEW t \in Threads, NEW place \in PcValues, Goto(t, place)
  PROVE  /\ pc' \in [Threads -> PcValues] /\ pc'[t] = place
         /\ \A u \in Threads \ {t} : pc'[u] = pc[u]
BY Zenon, PcType DEF Goto

LEMMA IsPlace ==
  /\ "profile" \in PcValues /\ "static" \in PcValues /\ "guard" \in PcValues /\ "tensor" \in PcValues
  /\ "run" \in PcValues /\ "send" \in PcValues /\ "enter" \in PcValues /\ "leave" \in PcValues
  /\ "dead" \in PcValues
BY Zenon DEF PcValues, Kinds

(* The sections around the innermost one.                                  *)
LEMMA OuterIs ==
  ASSUME TypeOK, NEW t \in Threads, frames[t] # <<>>
  PROVE  /\ Outer(t) \in Seq(Frame) /\ Len(Outer(t)) = Len(frames[t]) - 1
         /\ DOMAIN Outer(t) = 1 .. Len(frames[t]) - 1
         /\ \A i \in 1 .. Len(frames[t]) - 1 : Outer(t)[i] = frames[t][i]
         /\ Outer(t) = <<>> <=> Len(frames[t]) = 1
<1> DEFINE q == frames[t]
<1>1. q \in Seq(Frame) BY Zenon, FramesType
<1>2. Len(q) \in Nat \ {0} BY Zenon, <1>1, EmptySeq, LenProperties
<1> HIDE DEF q
<1>3. /\ SubSeq(q, 1, Len(q) - 1) \in Seq(Frame) /\ Len(SubSeq(q, 1, Len(q) - 1)) = Len(q) - 1
      /\ \A i \in 1 .. Len(q) - 1 : SubSeq(q, 1, Len(q) - 1)[i] = q[i]
  <2> DEFINE k == Len(q) - 1
  <2>1. \A i \in 1 .. k : q[i] \in Frame BY <1>1, <1>2, ElementOfSeq
  <2>2. k \in Nat BY <1>2
  <2> HIDE DEF k
  <2>3. 1 \in Int /\ k \in Int BY <2>2
  <2>4. /\ SubSeq(q, 1, k) \in Seq(Frame) /\ Len(SubSeq(q, 1, k)) = IF 1 <= k THEN k - 1 + 1 ELSE 0
        /\ \A i \in 1 .. k - 1 + 1 : SubSeq(q, 1, k)[i] = q[1 + i - 1]
    BY <2>1, <2>3, SubSeqProperties, SMTT(20)
  <2>5. SubSeq(q, 1, k) \in Seq(Frame) /\ Len(SubSeq(q, 1, k)) = k BY <2>2, <2>4
  <2>6. \A i \in 1 .. k : SubSeq(q, 1, k)[i] = q[i] BY <2>2, <2>4
  <2> QED BY Zenon, <2>5, <2>6 DEF k
<1> DEFINE o == SubSeq(q, 1, Len(q) - 1)
<1>4. Outer(t) = o BY Zenon DEF Outer, q
<1> HIDE DEF o
<1>5. o \in Seq(Frame) /\ Len(o) = Len(q) - 1 /\ \A i \in 1 .. Len(q) - 1 : o[i] = q[i] BY Zenon, <1>3 DEF o
<1>6. DOMAIN o = 1 .. Len(q) - 1 BY <1>5, LenProperties, Zenon
<1>7. o = <<>> <=> Len(q) = 1 BY <1>2, <1>5, EmptySeq
<1> QED BY <1>4, <1>5, <1>6, <1>7, Zenon DEF q

LEMMA FrameFacts ==
  ASSUME TypeOK, NEW t \in Threads
  PROVE  /\ frames[t] \in Seq(Frame) /\ Len(frames[t]) \in Nat
         /\ DOMAIN frames[t] = 1 .. Len(frames[t])
         /\ frames[t] # <<>> <=> Len(frames[t]) > 0
<1>1. frames[t] \in Seq(Frame) BY Zenon, FramesType
<1> QED BY <1>1, EmptySeq, LenProperties

(* Sections stay open when a thread does not enter or leave one.           *)
LEMMA OpenSame ==
  ASSUME NEW t \in Threads, NEW kind, frames'[t] = frames[t],
         pc'[t] \in {"enter", "leave"} <=> pc[t] \in {"enter", "leave"}
  PROVE  Open(t, kind)' = Open(t, kind)
BY Zenon DEF Open

(* One thread at a time is in sections.                                    *)
LEMMA OthersOutside ==
  ASSUME LockMatches, NEW t \in Threads, Mine(t), NEW u \in Threads \ {t}
  PROVE  frames[u] = <<>>
BY Zenon, ProfilingAssumption DEF LockMatches, Mine

(* The inductive part of the invariant. The rest follows.                  *)
Core == TypeOK /\ LockMatches /\ ProfilesOpen /\ ModeOpen /\ ErrorsReported

LEMMA CoreSuffices == Core => SectionsInv
<1> SUFFICES ASSUME Core PROVE SectionsInv BY Zenon
<1> USE DEF Core
<1>1. SectionsExclusive BY Zenon DEF SectionsExclusive, LockMatches
<1>2. ServerRestored
  <2> SUFFICES ASSUME \A t \in Threads : frames[t] = <<>> /\ pc[t] # "dead"
               PROVE  current = None
    BY Zenon DEF ServerRestored, ProfilesOpen, ModeOpen
  <2> QED BY Zenon, OtherTypes DEF LockMatches
<1>3. StaticInSection
  <2> SUFFICES ASSUME NEW t \in Threads \ reset, InStatic(frames[t]),
                      pc[t] \in {"run", "send", "tensor", "guard"}
               PROVE  mode = "static"
    BY Zenon DEF StaticInSection
  <2>1. PICK i \in DOMAIN frames[t] : frames[t][i].kind = "static" BY Zenon DEF InStatic
  <2>2. i \in Open(t, "static") BY Zenon, <2>1 DEF Open
  <2>3. frames[t] # <<>> BY <2>1, FrameFacts
  <2> QED BY Zenon, <2>2, <2>3 DEF ModeOpen
<1> QED BY Zenon, <1>1, <1>2, <1>3 DEF SectionsInv, ModeFollows

-----------------------------------------------------------------------------
(* The profiling lock: one lemma per action                                *)

LEMMA SectionsInit == Init => Core
<1> SUFFICES ASSUME Init PROVE Core BY Zenon
<1> USE DEF Init
<1>1. profiles \in [DOMAIN profiles -> {"start", "error"}] /\ DOMAIN profiles = {}
  <2>1. <<>> \in Seq({"start", "error"}) OBVIOUS
  <2>2. <<>> \in [DOMAIN <<>> -> {"start", "error"}] BY <2>1, LenProperties, Zenon
  <2> QED BY <2>2
<1>2. TypeOK
  <2>1. \A t \in Threads : Len(frames[t]) <= MaxDepth /\ (pc[t] \in Kinds => Len(frames[t]) < MaxDepth)
    BY ProfilingAssumption DEF Kinds
  <2>2. /\ pc \in [Threads -> PcValues] /\ frames \in [Threads -> Seq(Frame)]
        /\ ops \in [Threads -> 0 .. MaxOps] /\ unsent \in [Threads -> Nat]
        /\ sent \in [Threads -> Nat] /\ early \in [Threads -> Nat]
    BY IsPlace, ProfilingAssumption
  <2>3. told \in [Threads -> [failed : BOOLEAN, error : BOOLEAN]] BY Zenon
  <2>4. DOMAIN profiles \subseteq Tokens /\ failed \subseteq Tokens /\ reset \subseteq Threads BY Zenon, <1>1
  <2> QED BY <1>1, <2>1, <2>2, <2>3, <2>4, Zenon DEF TypeOK, PcValues
<1>3. LockMatches BY Zenon, ProfilingAssumption DEF LockMatches
<1>4. ProfilesOpen /\ ModeOpen BY Zenon DEF ProfilesOpen, ModeOpen
<1>5. ErrorsReported BY Zenon, <1>1 DEF ErrorsReported
<1> QED BY Zenon, <1>2, <1>3, <1>4, <1>5 DEF Core

(* Operations that leave the sections alone; executions may fail.          *)
LEMMA OperationStep ==
  ASSUME Core, NEW t \in Threads,
         \/ Guard(t) \/ Hold(t) \/ Execute(t) \/ Poll(t) \/ Drop(t)
         \/ \E what \in Kinds \cup {"guard", "tensor"} : Call(t, what)
  PROVE  Core'
<1> USE DEF Core
<1>1. /\ current' = current /\ frames' = frames /\ mode' = mode /\ reset' = reset /\ told' = told
      /\ \A u \in Threads \ {t} : pc'[u] = pc[u]
      /\ pc'[t] = pc[t] \/ {pc[t], pc'[t]} \cap {"enter", "leave", "dead"} = {}
      /\ pc' \in [Threads -> PcValues]
      /\ pc'[t] \in Kinds => Len(frames[t]) < MaxDepth
  <2>1. CASE Guard(t) BY Zenon, <2>1, Moved, IsPlace DEF Guard, history, Kinds
  <2>2. CASE Execute(t) BY Zenon, <2>2, Moved, IsPlace DEF Execute, Kinds
  <2>4. CASE Hold(t) BY Zenon, <2>4, Moved, IsPlace DEF Hold, history, Kinds
  <2>5. CASE Poll(t) \/ Drop(t) BY Zenon, <2>5, PcType, DepthType DEF Poll, Drop, history
  <2>3. CASE \E what \in Kinds \cup {"guard", "tensor"} : Call(t, what)
    BY Zenon, <2>3, Moved, IsPlace DEF Call, history, Kinds
  <2> QED BY Zenon, <2>1, <2>2, <2>3, <2>4, <2>5
<1>2. /\ DOMAIN profiles' = DOMAIN profiles
      /\ profiles' \in [DOMAIN profiles -> {"start", "error"}]
      /\ failed' \subseteq Tokens
      /\ \A k \in DOMAIN profiles : profiles'[k] = "error" <=> k \in failed'
      /\ profiles = <<>> => profiles' = <<>>
  <2>1. CASE profiles' = profiles /\ failed' = failed BY Zenon, <2>1, ProfilesType DEF ErrorsReported
  <2>2. CASE profiles # <<>> /\ profiles' = Errored(profiles) /\ failed' = failed \cup DOMAIN profiles
    BY Zenon, <2>2, ProfilesType DEF Errored
  <2> QED BY Zenon, <2>1, <2>2 DEF Guard, Hold, Execute, Poll, Drop, Call, history
<1>3. /\ ops' \in [Threads -> 0 .. MaxOps] /\ unsent' \in [Threads -> Nat]
      /\ sent' \in [Threads -> Nat] /\ early' \in [Threads -> Nat]
  <2>1. ops' \in [Threads -> 0 .. MaxOps]
    <3>1. ASSUME NEW what, Call(t, what) PROVE ops' \in [Threads -> 0 .. MaxOps]
      BY <3>1, ProfilingAssumption, OtherTypes DEF Call
    <3>2. CASE ops' = ops BY Zenon, <3>2, OtherTypes
    <3> QED BY Zenon, <3>1, <3>2 DEF Guard, Hold, Execute, Poll, Drop, calls
  <2>2. unsent' \in [Threads -> Nat]
    <3>1. CASE Hold(t) BY <3>1, OtherTypes DEF Hold
    <3>2. CASE Poll(t) \/ Drop(t) BY <3>2, OtherTypes DEF Poll, Drop
    <3>3. CASE unsent' = unsent BY Zenon, <3>3, OtherTypes
    <3> QED BY Zenon, <3>1, <3>2, <3>3 DEF Guard, Execute, Call, calls
  <2>3. sent' \in [Threads -> Nat] /\ early' \in [Threads -> Nat]
    BY SMTT(20), OtherTypes DEF Guard, Hold, Execute, Poll, Drop, Call, history, slipped
  <2> QED BY Zenon, <2>1, <2>2, <2>3
<1>4. TypeOK'
  <2>1. \A u \in Threads : Len(frames[u]) <= MaxDepth /\ (pc'[u] \in Kinds => Len(frames[u]) < MaxDepth)
    BY Zenon, <1>1, FrameFacts, ProfilingAssumption, DepthType
  <2> QED BY <1>1, <1>2, <1>3, <2>1, Zenon DEF TypeOK, PcValues
<1>5. LockMatches' BY Zenon, <1>1 DEF LockMatches
<1>6. \A u \in Threads, kind \in Kinds : Open(u, kind)' = Open(u, kind)
  BY Zenon, <1>1, OpenSame
<1>7. ProfilesOpen' BY <1>1, <1>2, <1>6 DEF ProfilesOpen, Kinds
<1>8. ModeOpen' BY Zenon, <1>1, <1>6 DEF ModeOpen, Kinds
<1>9. ErrorsReported' BY Zenon, <1>1, <1>2 DEF ErrorsReported
<1> QED BY Zenon, <1>4, <1>5, <1>7, <1>8, <1>9

(* A section begins: the lock is taken, the server not called yet.         *)
LEMMA AcquireStep ==
  ASSUME Core, NEW t \in Threads, Acquire(t)
  PROVE  Core'
<1> USE DEF Core
<1> DEFINE n == Len(frames[t])
           f == [kind |-> pc[t], lock |-> current = None, token |-> None]
<1>1. /\ pc[t] \in Kinds /\ Mine(t) /\ current' = t /\ frames'[t] = Append(frames[t], f)
      /\ \A u \in Threads \ {t} : frames'[u] = frames[u] /\ pc'[u] = pc[u]
      /\ pc'[t] = "enter" /\ mode' = mode /\ profiles' = profiles /\ reset' = reset
      /\ told' = told /\ failed' = failed
  BY Zenon, FramesType, Moved, IsPlace DEF Acquire, Releases
<1>2. n \in Nat /\ DOMAIN frames[t] = 1 .. n /\ (frames[t] # <<>> <=> n > 0) /\ frames[t] \in Seq(Frame)
  BY Zenon, FrameFacts
<1>3. f \in Frame /\ f.lock = (current = None) BY <1>1, ProfilingAssumption, Zenon DEF Frame
<1> HIDE DEF f
<1>4. /\ frames'[t] \in Seq(Frame) /\ Len(frames'[t]) = n + 1 /\ DOMAIN frames'[t] = 1 .. n + 1
      /\ \A i \in 1 .. n : frames'[t][i] = frames[t][i]
      /\ frames'[t][n + 1] = f /\ frames'[t] # <<>>
  <2>1. frames'[t] = Append(frames[t], f) /\ frames[t] \in Seq(Frame) /\ f \in Frame
    BY Zenon, <1>1, <1>2, <1>3
  <2>2. /\ frames'[t] \in Seq(Frame) /\ Len(frames'[t]) = n + 1
        /\ \A i \in 1 .. n : frames'[t][i] = frames[t][i]
        /\ frames'[t][n + 1] = f
    BY ONLY <2>1, Extended
  <2>3. DOMAIN frames'[t] = 1 .. n + 1 /\ frames'[t] # <<>> BY ONLY <1>2, <2>2
  <2> QED BY Zenon, <2>2, <2>3
<1>5. \A u \in Threads \ {t} : frames[u] = <<>> BY Zenon, <1>1, OthersOutside
<1>6. current = None <=> n = 0
  <2>1. pc[t] # "dead" BY Zenon, <1>1 DEF Kinds
  <2>2. CASE n = 0
    <3>1. current # t BY <2>1, <2>2, <1>2 DEF LockMatches
    <3> QED BY Zenon, <3>1, <2>2, <1>1 DEF Mine
  <2>3. CASE n # 0 BY <2>3, <1>2, ProfilingAssumption DEF LockMatches
  <2> QED BY Zenon, <2>2, <2>3
<1>7. TypeOK'
  <2>1. frames' \in [Threads -> Seq(Frame)]
    <3>1. frames' = [frames EXCEPT ![t] = frames'[t]] BY Zenon, FramesType DEF Acquire
    <3> QED BY <1>4, <3>1, FramesType, Zenon
  <2>2. \A u \in Threads : Len(frames'[u]) <= MaxDepth /\ (pc'[u] \in Kinds => Len(frames'[u]) < MaxDepth)
    BY <1>1, <1>2, <1>4, ProfilingAssumption, DepthType DEF Kinds
  <2>3. pc' \in [Threads -> PcValues] BY Zenon, Moved, IsPlace DEF Acquire
  <2>4. ops' = ops /\ unsent' = unsent /\ sent' \in [Threads -> Nat] /\ early' \in [Threads -> Nat]
    <3>1. \A u \in Threads : OnTheWay(u) \in Nat BY OtherTypes DEF OnTheWay
    <3>2. [u \in Threads |-> OnTheWay(u)] \in [Threads -> Nat] BY Zenon, <3>1
    <3>3. [u \in Threads |-> 0] \in [Threads -> Nat] OBVIOUS
    <3> QED BY Zenon, <3>2, <3>3, OtherTypes DEF Acquire, calls, slipped
  <2>5. current' \in Threads \cup {None} BY Zenon, <1>1
  <2> QED BY <1>1, <2>1, <2>2, <2>3, <2>4, <2>5, Zenon DEF TypeOK, PcValues
<1>8. LockMatches'
  <2>1. \A i \in 1 .. n + 1 : frames'[t][i].lock <=> i = 1
    <3>1. \A i \in 1 .. n : frames[t][i].lock <=> i = 1 BY <1>2 DEF LockMatches
    <3>2. frames'[t][n + 1].lock = (current = None) BY <1>3, <1>4, Zenon
    <3>3. n + 1 = 1 <=> n = 0 BY <1>2
    <3>4. frames'[t][n + 1].lock <=> n + 1 = 1 BY <3>2, <3>3, <1>6, Zenon
    <3> SUFFICES ASSUME NEW i \in 1 .. n + 1 PROVE frames'[t][i].lock <=> i = 1 BY Zenon
    <3>5. CASE i = n + 1 BY <3>4, <3>5, Zenon
    <3>6. CASE i # n + 1
      <4>1. i \in 1 .. n BY <1>2, <3>6
      <4>2. frames'[t][i] = frames[t][i] BY Zenon, <1>4, <4>1
      <4> QED BY <3>1, <4>1, <4>2, Zenon
    <3> QED BY Zenon, <3>5, <3>6
  <2> QED BY SMTT(20), <1>1, <1>4, <1>5, <2>1 DEF LockMatches
<1>9. ASSUME NEW kind \in Kinds PROVE Open(t, kind)' = Open(t, kind)
  BY <1>1, <1>2, <1>4 DEF Open, Kinds
<1>10. \A kind \in Kinds : \A i \in Open(t, kind) : i \in 1 .. n /\ frames'[t][i] = frames[t][i]
  BY Zenon, <1>2, <1>4 DEF Open
<1>11. ProfilesOpen'
  <2>1. CASE n = 0
    <3>1. DOMAIN profiles = {} BY <1>6, <2>1 DEF ProfilesOpen
    <3>2. Open(t, "profile") = {} BY <1>2, <2>1 DEF Open
    <3> QED BY <1>1, <1>5, <1>9, <3>1, <3>2, ProfilingAssumption DEF ProfilesOpen, Kinds
  <2>2. CASE n > 0
    <3> DEFINE O == Open(t, "profile")
    <3>1. Open(t, "profile")' = O /\ \A i \in O : frames'[t][i] = frames[t][i] BY Zenon, <1>9, <1>10 DEF Kinds
    <3>2. /\ \A i \in O : frames[t][i].token \in DOMAIN profiles \cap (1 .. i)
          /\ \A i, j \in O : frames[t][i].token = frames[t][j].token => i = j
          /\ \A k \in DOMAIN profiles : \E i \in O : frames[t][i].token = k
      BY Zenon, <1>2, <2>2 DEF ProfilesOpen
    <3> HIDE DEF O
    <3>3. /\ \A i \in O : frames'[t][i].token \in DOMAIN profiles \cap (1 .. i)
          /\ \A i, j \in O : frames'[t][i].token = frames'[t][j].token => i = j
          /\ \A k \in DOMAIN profiles : \E i \in O : frames'[t][i].token = k
      BY <3>1, <3>2
    <3>4. current' # None /\ profiles' = profiles BY Zenon, <1>1, ProfilingAssumption
    <3>5. \A u \in Threads : frames'[u] # <<>> => u = t BY Zenon, <1>1, <1>5
    <3> QED BY <3>1, <3>3, <3>4, <3>5 DEF ProfilesOpen
  <2> QED BY Zenon, <1>2, <2>1, <2>2
<1>12. ModeOpen'
  <2>1. CASE n = 0
    <3>1. Open(t, "static") = {} BY <1>2, <2>1 DEF Open
    <3>2. mode # "static" BY Zenon, <1>6, <2>1 DEF ModeOpen
    <3> QED BY Zenon, <1>1, <1>5, <1>9, <3>1, <3>2, ProfilingAssumption DEF ModeOpen, Kinds
  <2>2. CASE n > 0
    BY Zenon, <1>1, <1>2, <1>5, <1>9, <2>2, ProfilingAssumption DEF ModeOpen, Kinds
  <2> QED BY Zenon, <1>2, <2>1, <2>2
<1>13. ErrorsReported' BY Zenon, <1>1 DEF ErrorsReported
<1> QED BY Zenon, <1>7, <1>8, <1>11, <1>12, <1>13

(* Entering a section at the server: the thread has the lock and at least  *)
(* one section, and the last one is not open yet.                          *)
LEMMA InSection ==
  ASSUME Core, NEW t \in Threads, frames[t] # <<>>
  PROVE  /\ current = t /\ current # None
         /\ Len(frames[t]) \in Nat \ {0} /\ Len(frames[t]) <= MaxDepth
         /\ DOMAIN frames[t] = 1 .. Len(frames[t])
         /\ \A i \in 1 .. Len(frames[t]) : frames[t][i] \in Frame
         /\ \A u \in Threads \ {t} : frames[u] = <<>>
<1> USE DEF Core
<1>1. /\ Len(frames[t]) \in Nat \ {0} /\ DOMAIN frames[t] = 1 .. Len(frames[t])
      /\ frames[t] \in Seq(Frame)
  BY FrameFacts
<1>2. current = t /\ current # None BY Zenon, ProfilingAssumption DEF LockMatches
<1>3. \A u \in Threads \ {t} : frames[u] = <<>> BY Zenon, <1>2, OthersOutside DEF Mine
<1>4. Len(frames[t]) <= MaxDepth BY Zenon, <1>1, ProfilingAssumption, DepthType
<1>5. \A i \in 1 .. Len(frames[t]) : frames[t][i] \in Frame BY <1>1, ElementOfSeq, Zenon
<1> QED BY Zenon, <1>1, <1>2, <1>3, <1>4, <1>5

LEMMA EnterProfileStep ==
  ASSUME Core, NEW t \in Threads, EnterProfile(t)
  PROVE  Core'
<1> USE DEF Core
<1> DEFINE n == Len(frames[t])
           token == NewToken(profiles)
           f == [frames[t][n] EXCEPT !.token = token]
<1>1. pc[t] = "enter" /\ Innermost(t).kind = "profile" /\ frames[t] # <<>>
  BY Zenon DEF EnterProfile, LockMatches
<1>2. /\ current = t /\ current # None /\ n \in Nat \ {0} /\ n <= MaxDepth
      /\ DOMAIN frames[t] = 1 .. n /\ frames[t][n].kind = "profile"
      /\ \A i \in 1 .. n : frames[t][i] \in Frame
      /\ \A u \in Threads \ {t} : frames[u] = <<>>
  BY Zenon, <1>1, InSection DEF Innermost
<1>3. DOMAIN profiles \subseteq 1 .. n - 1
  <2> SUFFICES ASSUME NEW k \in DOMAIN profiles PROVE k \in 1 .. n - 1 BY Zenon
  <2>1. PICK i \in Open(t, "profile") : frames[t][i].token = k BY Zenon, <1>1 DEF ProfilesOpen
  <2>2. i \in 1 .. n - 1 BY <1>1, <1>2 DEF Open
  <2>3. k \in 1 .. i BY Zenon, <1>1, <2>1 DEF ProfilesOpen
  <2> QED BY <1>2, <2>2, <2>3
<1>4. token \in 1 .. n /\ token \notin DOMAIN profiles
  <2>1. n - 1 \in Nat /\ (n - 1) + 1 = n BY <1>2
  <2> QED BY Zenon, <1>3, <2>1, FreshToken
<1> HIDE DEF token
<1>5. token \in Tokens BY <1>2, <1>4, ProfilingAssumption DEF Tokens
<1>6. /\ frames' = [frames EXCEPT ![t][n].token = token]
      /\ profiles' = [k \in DOMAIN profiles \cup {token} |-> IF k = token THEN "start" ELSE profiles[k]]
      /\ failed' = failed \ {token} /\ pc' \in [Threads -> PcValues] /\ pc'[t] = "run"
      /\ \A u \in Threads \ {t} : pc'[u] = pc[u]
      /\ current' = current /\ ops' = ops /\ mode' = mode /\ sent' = sent /\ told' = told /\ reset' = reset
      /\ unsent' = unsent /\ early' = early
  BY Zenon, Moved, IsPlace DEF EnterProfile, token, calls, slipped
<1>7. f \in Frame /\ f.token = token /\ f.kind = frames[t][n].kind /\ f.lock = frames[t][n].lock
  <2>1. frames[t][n] \in Frame BY <1>2
  <2> QED BY Zenon, <2>1, <1>5 DEF Frame
<1>8. /\ frames' \in [Threads -> Seq(Frame)] /\ Len(frames'[t]) = n /\ DOMAIN frames'[t] = 1 .. n
      /\ frames'[t][n] = f /\ \A i \in 1 .. n - 1 : frames'[t][i] = frames[t][i]
      /\ \A u \in Threads \ {t} : frames'[u] = frames[u]
      /\ frames'[t] # <<>>
  <2>1. frames[t] \in Seq(Frame) /\ frames \in [Threads -> Seq(Frame)] BY Zenon, FramesType
  <2>2. frames'[t] = [frames[t] EXCEPT ![n] = f]
    BY Zenon, <1>6, <2>1
  <2>3. frames'[t] \in Seq(Frame) /\ Len(frames'[t]) = n BY <2>1, <2>2, <1>2, <1>7
  <2>4. frames' = [frames EXCEPT ![t] = frames'[t]] BY Zenon, <1>6, <2>1, <2>2
  <2> HIDE DEF f
  <2>5. frames' \in [Threads -> Seq(Frame)] /\ \A u \in Threads \ {t} : frames'[u] = frames[u]
    BY <2>1, <2>3, <2>4, Zenon
  <2>6. frames'[t][n] = f /\ \A i \in 1 .. n - 1 : frames'[t][i] = frames[t][i] BY <2>2, <1>2
  <2>7. DOMAIN frames'[t] = 1 .. n /\ frames'[t] # <<>> BY Zenon, <2>3, <1>2, EmptySeq, LenProperties
  <2> QED BY Zenon, <2>3, <2>5, <2>6, <2>7
<1> HIDE DEF f
<1>9. TypeOK'
  <2>1. \A u \in Threads : Len(frames'[u]) <= MaxDepth /\ (pc'[u] \in Kinds => Len(frames'[u]) < MaxDepth)
    BY Zenon, <1>2, <1>6, <1>8, ProfilingAssumption, DepthType DEF Kinds
  <2>2. profiles' \in [DOMAIN profiles' -> {"start", "error"}] /\ DOMAIN profiles' \subseteq Tokens
    BY Zenon, <1>5, <1>6, ProfilesType
  <2>3. failed' \subseteq Tokens BY Zenon, <1>6, ProfilesType
  <2> QED BY <1>6, <1>8, <2>1, <2>2, <2>3, Zenon DEF TypeOK, PcValues
<1>10. LockMatches'
  <2>1. \A i \in 1 .. n : frames'[t][i].lock = frames[t][i].lock
    BY <1>2, <1>7, <1>8
  <2> QED BY <1>1, <1>2, <1>6, <1>8, <2>1 DEF LockMatches
<1>11. Open(t, "profile")' = Open(t, "profile") \cup {n} /\ Open(t, "static")' = Open(t, "static")
       /\ Open(t, "profile") \subseteq 1 .. n - 1
  <2>1. pc'[t] = "run" BY Zenon, <1>6
  <2>2. \A i \in 1 .. n : frames'[t][i].kind = frames[t][i].kind BY SMTT(20), <1>2, <1>7, <1>8
  <2> QED BY <1>1, <1>2, <1>8, <2>1, <2>2 DEF Open
<1>12. ProfilesOpen'
  <2>1. DOMAIN profiles' = DOMAIN profiles \cup {token} BY Zenon, <1>6
  <2>2. \A i \in Open(t, "profile") : frames'[t][i].token \in DOMAIN profiles \cap (1 .. i)
    BY Zenon, <1>1, <1>8, <1>11 DEF ProfilesOpen
  <2>3. frames'[t][n].token = token BY Zenon, <1>7, <1>8
  <2>4. \A i \in Open(t, "profile") \cup {n} : frames'[t][i].token \in DOMAIN profiles' \cap (1 .. i)
    BY Zenon, <1>4, <2>1, <2>2, <2>3
  <2>5. \A i, j \in Open(t, "profile") \cup {n} : frames'[t][i].token = frames'[t][j].token => i = j
    <3>1. \A i, j \in Open(t, "profile") : frames'[t][i].token = frames'[t][j].token => i = j
      BY SMTT(20), <1>1, <1>8, <1>11 DEF ProfilesOpen
    <3> QED BY Zenon, <3>1, <1>4, <2>2, <2>3
  <2>6. \A k \in DOMAIN profiles' : \E i \in Open(t, "profile") \cup {n} : frames'[t][i].token = k
    <3>1. \A k \in DOMAIN profiles : \E i \in Open(t, "profile") : frames'[t][i].token = k
      BY SMTT(20), <1>1, <1>8, <1>11 DEF ProfilesOpen
    <3> QED BY Zenon, <3>1, <2>1, <2>3
  <2> QED BY SMTT(20), <1>2, <1>6, <1>8, <1>11, <2>4, <2>5, <2>6 DEF ProfilesOpen
<1>13. ModeOpen' BY <1>1, <1>2, <1>6, <1>8, <1>11 DEF ModeOpen
<1>14. ErrorsReported'
  <2>1. \A k \in DOMAIN profiles' : profiles'[k] = "error" <=> k \in failed'
    BY SMTT(20), <1>4, <1>6 DEF ErrorsReported
  <2> QED BY Zenon, <1>6, <2>1 DEF ErrorsReported
<1> QED BY Zenon, <1>9, <1>10, <1>12, <1>13, <1>14

LEMMA EnterStaticStep ==
  ASSUME Core, NEW t \in Threads, EnterStatic(t)
  PROVE  Core'
<1> USE DEF Core
<1> DEFINE n == Len(frames[t])
<1>1. /\ pc[t] = "enter" /\ Innermost(t).kind = "static" /\ frames[t] # <<>>
      /\ mode' = "static" /\ pc' \in [Threads -> PcValues] /\ pc'[t] = "run" /\ (\A u \in Threads \ {t} : pc'[u] = pc[u]) /\ current' = current /\ frames' = frames
      /\ ops' = ops /\ unsent' = unsent /\ early' = early /\ profiles' = profiles /\ sent' = sent /\ failed' = failed /\ told' = told /\ reset' = reset
  BY Zenon, Moved, IsPlace DEF EnterStatic, LockMatches, calls, history, slipped
<1>2. /\ current = t /\ current # None /\ n \in Nat \ {0} /\ n <= MaxDepth
      /\ DOMAIN frames[t] = 1 .. n /\ frames[t][n].kind = "static"
      /\ \A u \in Threads \ {t} : frames[u] = <<>>
  BY Zenon, <1>1, InSection DEF Innermost
<1>4. TypeOK'
  <2>1. \A u \in Threads : Len(frames'[u]) <= MaxDepth /\ (pc'[u] \in Kinds => Len(frames'[u]) < MaxDepth)
    BY Zenon, <1>1, <1>2, ProfilingAssumption, DepthType DEF Kinds
  <2> QED BY <1>1, <2>1, Zenon DEF TypeOK, PcValues
<1>5. LockMatches' BY Zenon, <1>1 DEF LockMatches
<1>6. Open(t, "profile")' = Open(t, "profile") /\ n \in Open(t, "static")'
  BY <1>1, <1>2 DEF Open
<1>7. ProfilesOpen' BY <1>1, <1>2, <1>6 DEF ProfilesOpen
<1>8. ModeOpen' BY Zenon, <1>1, <1>2, <1>6 DEF ModeOpen
<1>9. ErrorsReported' BY SMTT(20), <1>1 DEF ErrorsReported
<1> QED BY Zenon, <1>4, <1>5, <1>7, <1>8, <1>9

(* The function returns and the server is told.                            *)
LEMMA LeaveProfileStep ==
  ASSUME Core, NEW t \in Threads, LeaveProfile(t)
  PROVE  Core'
<1> USE DEF Core
<1> DEFINE n == Len(frames[t])
           token == Innermost(t).token
<1>1. /\ pc[t] = "run" /\ frames[t] # <<>> /\ Innermost(t).kind = "profile"
      /\ profiles' = [k \in DOMAIN profiles \ {token} |-> profiles[k]]
      /\ told' = [told EXCEPT ![t] = [failed |-> token \in failed, error |-> profiles[token] = "error"]]
      /\ pc' \in [Threads -> PcValues] /\ pc'[t] = "leave" /\ (\A u \in Threads \ {t} : pc'[u] = pc[u]) /\ current' = current /\ frames' = frames
      /\ ops' = ops /\ unsent' = unsent /\ early' = early /\ mode' = mode /\ sent' = sent /\ failed' = failed /\ reset' = reset
  BY Zenon, Moved, IsPlace DEF LeaveProfile, Stopped, calls, slipped
<1>2. /\ current = t /\ current # None /\ n \in Nat \ {0} /\ n <= MaxDepth
      /\ DOMAIN frames[t] = 1 .. n /\ frames[t][n].kind = "profile" /\ token = frames[t][n].token
      /\ \A u \in Threads \ {t} : frames[u] = <<>>
  BY SMTT(20), <1>1, InSection DEF Innermost
<1>4. n \in Open(t, "profile") /\ token \in DOMAIN profiles
  <2>1. n \in Open(t, "profile") BY <1>1, <1>2 DEF Open
  <2> QED BY SMTT(20), <1>1, <1>2, <2>1 DEF ProfilesOpen
<1> HIDE DEF token
<1>5. TypeOK'
  <2>1. \A u \in Threads : Len(frames'[u]) <= MaxDepth /\ (pc'[u] \in Kinds => Len(frames'[u]) < MaxDepth)
    BY Zenon, <1>1, <1>2, ProfilingAssumption, DepthType DEF Kinds
  <2>3. profiles' \in [DOMAIN profiles' -> {"start", "error"}] /\ DOMAIN profiles' \subseteq Tokens
    BY Zenon, <1>1, ProfilesType
  <2>4. told' \in [Threads -> [failed : BOOLEAN, error : BOOLEAN]]
    <3>1. [failed |-> token \in failed, error |-> profiles[token] = "error"] \in [failed : BOOLEAN, error : BOOLEAN]
      BY AnswerIs
    <3> QED BY <1>1, <3>1, ToldType, Zenon
  <2> QED BY <1>1, <2>1, <2>3, <2>4, ZenonT(20) DEF TypeOK, PcValues
<1>6. LockMatches' BY Zenon, <1>1 DEF LockMatches
<1>7. Open(t, "profile")' = Open(t, "profile") \ {n} /\ Open(t, "static")' = Open(t, "static")
  BY SMTT(20), <1>1, <1>2 DEF Open
<1>8. ProfilesOpen'
  <2>1. DOMAIN profiles' = DOMAIN profiles \ {token} BY SMTT(20), <1>1
  <2>2. \A i \in Open(t, "profile") \ {n} : frames[t][i].token # token BY SMTT(20), <1>1, <1>2, <1>4 DEF ProfilesOpen
  <2>3. /\ \A i \in Open(t, "profile") \ {n} : frames[t][i].token \in DOMAIN profiles' \cap (1 .. i)
        /\ \A i, j \in Open(t, "profile") \ {n} : frames[t][i].token = frames[t][j].token => i = j
        /\ \A k \in DOMAIN profiles' : \E i \in Open(t, "profile") \ {n} : frames[t][i].token = k
    BY SMTT(20), <1>1, <1>2, <2>1, <2>2 DEF ProfilesOpen
  <2> QED BY SMTT(20), <1>1, <1>2, <1>7, <2>3 DEF ProfilesOpen
<1>9. ModeOpen' BY Zenon, <1>1, <1>2, <1>7 DEF ModeOpen
<1>10. ErrorsReported'
  <2>1. \A k \in DOMAIN profiles' : profiles'[k] = "error" <=> k \in failed'
    BY Zenon, <1>1 DEF ErrorsReported
  <2>2. \A u \in Threads \ {t} : told'[u] = told[u] BY <1>1, ToldType, Zenon
  <2>3. told'[t] = [failed |-> token \in failed, error |-> profiles[token] = "error"]
    BY <1>1, ToldType, Zenon
  <2>4. told'[t].failed <=> told'[t].error
    <3>1. told'[t].failed = (token \in failed) /\ told'[t].error = (profiles[token] = "error")
      BY <2>3, AnswerIs
    <3> QED BY <1>4, <3>1, Zenon DEF ErrorsReported
  <2> QED BY SMTT(20), <2>1, <2>2, <2>4 DEF ErrorsReported
<1> QED BY Zenon, <1>5, <1>6, <1>8, <1>9, <1>10

LEMMA LeaveStaticStep ==
  ASSUME Core, NEW t \in Threads, LeaveStatic(t)
  PROVE  Core'
<1> USE DEF Core
<1> DEFINE n == Len(frames[t])
<1>1. /\ pc[t] = "run" /\ frames[t] # <<>> /\ Innermost(t).kind = "static" /\ mode' = "auto"
      /\ reset' = IF InStatic(Outer(t)) THEN reset \cup {t} ELSE reset \ {t}
      /\ pc' \in [Threads -> PcValues] /\ pc'[t] = "leave" /\ (\A u \in Threads \ {t} : pc'[u] = pc[u]) /\ current' = current /\ frames' = frames
      /\ ops' = ops /\ unsent' = unsent /\ early' = early /\ profiles' = profiles /\ sent' = sent /\ failed' = failed /\ told' = told
  BY Zenon, Moved, IsPlace DEF LeaveStatic, AfterSection, calls, slipped
<1>2. /\ current = t /\ current # None /\ n \in Nat \ {0} /\ n <= MaxDepth
      /\ DOMAIN frames[t] = 1 .. n /\ frames[t][n].kind = "static"
      /\ \A u \in Threads \ {t} : frames[u] = <<>>
  BY Zenon, <1>1, InSection DEF Innermost
<1>4. TypeOK'
  <2>1. \A u \in Threads : Len(frames'[u]) <= MaxDepth /\ (pc'[u] \in Kinds => Len(frames'[u]) < MaxDepth)
    BY Zenon, <1>1, <1>2, ProfilingAssumption, DepthType DEF Kinds
  <2>3. reset' \subseteq Threads BY Zenon, <1>1, OtherTypes
  <2> QED BY <1>1, <2>1, <2>3, Zenon DEF TypeOK, PcValues
<1>5. LockMatches' BY Zenon, <1>1 DEF LockMatches
<1>6. Open(t, "profile")' = Open(t, "profile") /\ Open(t, "static")' = Open(t, "static") \ {n}
  BY SMTT(20), <1>1, <1>2 DEF Open
<1>7. ProfilesOpen' BY SMTT(20), <1>1, <1>2, <1>6 DEF ProfilesOpen
<1>8. ASSUME Open(t, "static")' # {} PROVE t \in reset'
  <2>1. PICK i \in 1 .. n - 1 : frames[t][i].kind = "static" BY <1>6, <1>8, <1>2 DEF Open
  <2>2. DOMAIN Outer(t) = 1 .. n - 1 /\ Outer(t)[i] = frames[t][i] BY Zenon, <1>1, OuterIs
  <2>3. InStatic(Outer(t)) BY Zenon, <2>1, <2>2 DEF InStatic
  <2> QED BY Zenon, <1>1, <2>3
<1>9. ModeOpen' BY Zenon, <1>1, <1>2, <1>8 DEF ModeOpen
<1>10. ErrorsReported' BY Zenon, <1>1 DEF ErrorsReported
<1> QED BY Zenon, <1>4, <1>5, <1>7, <1>9, <1>10

(* profile_release                                                         *)
LEMMA ReleasedStep ==
  ASSUME Core, NEW t \in Threads, Released(t)
  PROVE  Core'
<1> USE DEF Core
<1> DEFINE n == Len(frames[t])
<1>1. /\ pc[t] = "leave" /\ frames[t] # <<>> /\ current' = (IF Innermost(t).lock THEN None ELSE current)
      /\ frames' = [frames EXCEPT ![t] = Outer(t)]
      /\ pc' \in [Threads -> PcValues] /\ pc'[t] = "run" /\ (\A u \in Threads \ {t} : pc'[u] = pc[u]) /\ mode' = mode /\ reset' = reset
      /\ ops' = ops /\ unsent' = unsent /\ early' = early /\ profiles' = profiles /\ sent' = sent /\ failed' = failed /\ told' = told
  BY Zenon, Moved, IsPlace DEF Released, Release, calls, history, slipped, LockMatches
<1>2. /\ current = t /\ current # None /\ n \in Nat \ {0} /\ n <= MaxDepth
      /\ DOMAIN frames[t] = 1 .. n /\ Innermost(t) = frames[t][n]
      /\ \A u \in Threads \ {t} : frames[u] = <<>>
  BY Zenon, <1>1, InSection DEF Innermost
<1>3. pc'[t] = "run" /\ \A u \in Threads \ {t} : pc'[u] = pc[u] /\ frames'[u] = frames[u]
  BY Zenon, <1>1, FramesType
<1>4. /\ frames'[t] = Outer(t) /\ frames'[t] \in Seq(Frame) /\ Len(frames'[t]) = n - 1
      /\ DOMAIN frames'[t] = 1 .. n - 1 /\ \A i \in 1 .. n - 1 : frames'[t][i] = frames[t][i]
      /\ frames'[t] = <<>> <=> n = 1
  <2>1. frames'[t] = Outer(t) BY Zenon, <1>1, FramesType
  <2> QED BY <1>1, <1>2, <2>1, OuterIs
<1>5. current' = (IF n = 1 THEN None ELSE t)
  <2>1. n \in DOMAIN frames[t] BY <1>2
  <2>2. Innermost(t).lock <=> n = 1 BY <1>1, <1>2, <2>1, ZenonT(20) DEF LockMatches
  <2> QED BY <1>1, <1>2, <2>2, Zenon
<1>6. TypeOK'
  <2>1. \A u \in Threads : Len(frames'[u]) <= MaxDepth /\ (pc'[u] \in Kinds => Len(frames'[u]) < MaxDepth)
    BY <1>2, <1>3, <1>4, ProfilingAssumption, DepthType DEF Kinds
  <2>3. frames' \in [Threads -> Seq(Frame)] BY <1>1, <1>4, FramesType, Zenon
  <2> QED BY <1>1, <1>5, <2>1, <2>3, Zenon DEF TypeOK, PcValues
<1>7. LockMatches'
  <2>1. \A i \in DOMAIN frames'[t] : frames'[t][i].lock <=> i = 1
    BY SMTT(20), <1>1, <1>2, <1>4 DEF LockMatches
  <2>2. frames'[t] # <<>> <=> current' = t BY Zenon, <1>2, <1>4, <1>5
  <2>3. \A u \in Threads \ {t} : current' # u BY SMTT(20), <1>5, ProfilingAssumption
  <2> QED BY Zenon, <1>2, <1>3, <2>1, <2>2, <2>3 DEF LockMatches
<1>8. ASSUME NEW kind \in Kinds PROVE Open(t, kind)' = Open(t, kind) /\ Open(t, kind) \subseteq 1 .. n - 1
  BY <1>1, <1>2, <1>3, <1>4 DEF Open
<1>9. n = 1 => profiles = <<>> /\ mode = "auto"
  <2> SUFFICES ASSUME n = 1 PROVE profiles = <<>> /\ mode = "auto" BY Zenon
  <2>1. Open(t, "profile") = {} /\ Open(t, "static") = {} BY <1>8 DEF Kinds
  <2>2. DOMAIN profiles = {} BY Zenon, <1>1, <2>1 DEF ProfilesOpen
  <2>3. profiles = <<>> BY SMTT(20), <2>2, EmptyMap, ProfilesType
  <2> QED BY Zenon, <1>1, <2>1, <2>3, OtherTypes DEF ModeOpen
<1>10. ProfilesOpen'
  <2>1. frames'[t] # <<>> => \A i \in Open(t, "profile") : frames'[t][i] = frames[t][i]
    BY Zenon, <1>4, <1>8 DEF Kinds
  <2> QED BY SMTT(20), <1>1, <1>2, <1>3, <1>5, <1>8, <1>9, <2>1 DEF ProfilesOpen, Kinds
<1>11. ModeOpen' BY SMTT(20), <1>1, <1>2, <1>3, <1>5, <1>8, <1>9 DEF ModeOpen, Kinds
<1>12. ErrorsReported' BY Zenon, <1>1 DEF ErrorsReported
<1> QED BY Zenon, <1>6, <1>7, <1>10, <1>11, <1>12

(* A thread that panics keeps the lock.                                    *)
LEMMA PanicInSection ==
  ASSUME Core, NEW t \in Threads, Panic(t)
  PROVE  Core'
<1> USE DEF Core
<1>1. /\ frames[t] # <<>> /\ frames' = [frames EXCEPT ![t] = <<>>]
      /\ pc' \in [Threads -> PcValues] /\ pc'[t] = "dead" /\ (\A u \in Threads \ {t} : pc'[u] = pc[u]) /\ mode' = mode /\ reset' = reset /\ current' = current
      /\ ops' = ops /\ unsent' = unsent /\ early' = early /\ profiles' = profiles /\ sent' = sent /\ failed' = failed /\ told' = told
  BY Zenon, Moved, IsPlace DEF Panic, calls, history, slipped
<1>2. current = t /\ current # None /\ \A u \in Threads \ {t} : frames[u] = <<>>
  BY Zenon, <1>1, InSection DEF Innermost
<1>3. /\ pc'[t] = "dead" /\ frames'[t] = <<>>
      /\ \A u \in Threads \ {t} : pc'[u] = pc[u] /\ frames'[u] = frames[u]
  BY <1>1, FramesType
<1>4. TypeOK'
  <2>1. \A u \in Threads : Len(frames'[u]) <= MaxDepth /\ (pc'[u] \in Kinds => Len(frames'[u]) < MaxDepth)
    BY <1>3, ProfilingAssumption, DepthType DEF Kinds
  <2>3. frames' \in [Threads -> Seq(Frame)] BY <1>1, FramesType
  <2> QED BY <1>1, <2>1, <2>3, Zenon DEF TypeOK, PcValues
<1>5. LockMatches' BY Zenon, <1>1, <1>2, <1>3 DEF LockMatches
<1>6. ProfilesOpen' /\ ModeOpen' BY Zenon, <1>1, <1>2, <1>3 DEF ProfilesOpen, ModeOpen
<1>7. ErrorsReported' BY Zenon, <1>1 DEF ErrorsReported
<1> QED BY Zenon, <1>4, <1>5, <1>6, <1>7

LEMMA SectionsNext == Core /\ [Next]_vars => Core'
<1> SUFFICES ASSUME Core, [Next]_vars PROVE Core' BY Zenon
<1>1. CASE UNCHANGED vars
  <2> USE <1>1 DEF vars, locals, calls, history, slipped, Core
  <2>1. TypeOK' BY Zenon DEF TypeOK
  <2>2. LockMatches' BY Zenon DEF LockMatches
  <2>3. \A t, kind : Open(t, kind)' = Open(t, kind) BY Zenon DEF Open
  <2>4. ProfilesOpen' /\ ModeOpen' BY <2>3 DEF ProfilesOpen, ModeOpen
  <2>5. ErrorsReported' BY Zenon DEF ErrorsReported
  <2> QED BY Zenon, <2>1, <2>2, <2>4, <2>5
<1>2. CASE Next
  <2>1. PICK t \in Threads :
          \/ Step(t) \/ Poll(t) \/ Drop(t) \/ Panic(t)
          \/ \E what \in Kinds \cup {"guard", "tensor"} : Call(t, what)
    BY Zenon, <1>2 DEF Next
  <2>2. CASE \/ Guard(t) \/ Hold(t) \/ Execute(t) \/ Poll(t) \/ Drop(t)
             \/ \E what \in Kinds \cup {"guard", "tensor"} : Call(t, what)
    BY Zenon, <2>2, OperationStep
  <2>3. CASE Acquire(t) BY Zenon, <2>3, AcquireStep
  <2>4. CASE EnterProfile(t) BY SMTT(20), <2>4, EnterProfileStep
  <2>5. CASE EnterStatic(t) BY Zenon, <2>5, EnterStaticStep
  <2>6. CASE LeaveProfile(t) BY Zenon, <2>6, LeaveProfileStep
  <2>7. CASE LeaveStatic(t) BY Zenon, <2>7, LeaveStaticStep
  <2>8. CASE Released(t) BY Zenon, <2>8, ReleasedStep
  <2>9. CASE Panic(t) BY Zenon, <2>9, PanicInSection
  <2> QED BY SMTT(20), <2>1, <2>2, <2>3, <2>4, <2>5, <2>6, <2>7, <2>8, <2>9 DEF Step
<1> QED BY Zenon, <1>1, <1>2

(* profile_acquire, profile_guard and profile_release keep sections of     *)
(* threads apart for any number of threads and any nesting: one thread has *)
(* the lock, the server's mode and profiles are those of its sections, and *)
(* a profile reports exactly the failures it saw.                          *)
THEOREM SectionsKeptApart == Spec => []SectionsInv
<1>1. Spec => []Core BY SectionsInit, SectionsNext, PTL DEF Spec
<1> QED BY <1>1, CoreSuffices, PTL

-----------------------------------------------------------------------------
(* What slips past the guard                                               *)

IntrusionInv == Core /\ IntrudersWereEarly

(* Nobody else is under the lock when a thread sends or waits.             *)
LEMMA IntrusionNext == IntrusionInv /\ [Next]_vars => IntrudersWereEarly'
<1> SUFFICES ASSUME Core, IntrudersWereEarly, [Next]_vars,
                    NEW u \in Threads, ~Mine(u)'
             PROVE  sent'[u] + OnTheWay(u)' <= early'[u]
  BY Zenon DEF IntrusionInv, IntrudersWereEarly
<1> USE DEF Core
<1>1. ASSUME NEW t \in Threads, Acquire(t), current = None
      PROVE  sent'[u] + OnTheWay(u)' <= early'[u]
  <2>1. u # t BY Zenon, <1>1 DEF Acquire, Mine
  <2>2. pc'[u] = pc[u] BY Zenon, <1>1, <2>1, Moved, IsPlace DEF Acquire
  <2>3. sent'[u] = 0 /\ early'[u] = OnTheWay(u) /\ unsent'[u] = unsent[u]
    BY Zenon, <1>1 DEF Acquire, calls
  <2> QED BY <2>2, <2>3, OtherTypes DEF OnTheWay
<1> SUFFICES ASSUME \A t \in Threads : ~(Acquire(t) /\ current = None)
             PROVE  sent'[u] + OnTheWay(u)' <= early'[u]
  BY Zenon, <1>1
<1>2. current' \in {current, None}
  <2>1. CASE UNCHANGED vars BY Zenon, <2>1 DEF vars
  <2>2. ASSUME NEW t \in Threads, Acquire(t) PROVE current' = current
    BY Zenon, <2>2 DEF Acquire, Mine
  <2>3. ASSUME NEW t \in Threads, Released(t) PROVE current' \in {current, None}
    BY Zenon, <2>3 DEF Released, Release
  <2>4. ASSUME NEW t \in Threads,
               \/ Guard(t) \/ Hold(t) \/ Execute(t) \/ Poll(t) \/ Drop(t) \/ Panic(t)
               \/ EnterProfile(t) \/ EnterStatic(t) \/ LeaveProfile(t) \/ LeaveStatic(t)
               \/ \E what \in Kinds \cup {"guard", "tensor"} : Call(t, what)
        PROVE  current' = current
    BY Zenon, <2>4 DEF Guard, Hold, Execute, Poll, Drop, Panic, EnterProfile, EnterStatic, LeaveProfile,
                       LeaveStatic, Call
  <2> QED BY Zenon, <2>1, <2>2, <2>3, <2>4 DEF Next, Step
<1>3. ~Mine(u) /\ current' = current BY Zenon, <1>2 DEF Mine
<1>4. sent[u] + OnTheWay(u) <= early[u] BY Zenon, <1>3 DEF IntrudersWereEarly
<1>5. /\ unsent[u] \in Nat /\ sent[u] \in Nat /\ early[u] \in Nat BY Zenon, OtherTypes
<1>6. CASE UNCHANGED vars BY Zenon, <1>4, <1>6 DEF vars, locals, calls, history, slipped, OnTheWay
<1>7. ASSUME NEW t \in Threads, Hold(t) PROVE sent'[u] + OnTheWay(u)' <= early'[u]
  <2>1. sent' = sent /\ early' = early BY Zenon, <1>7 DEF Hold, history, slipped
  <2>2. OnTheWay(u)' = OnTheWay(u)
    <3>1. CASE u = t BY <1>5, <1>7, <3>1, Moved, IsPlace, OtherTypes DEF Hold, OnTheWay
    <3>2. CASE u # t BY Zenon, <1>7, <3>2, Moved, IsPlace, OtherTypes DEF Hold, OnTheWay
    <3> QED BY Zenon, <3>1, <3>2
  <2> QED BY Zenon, <1>4, <2>1, <2>2
<1>8. ASSUME NEW t \in Threads, Poll(t) \/ Drop(t) PROVE sent'[u] + OnTheWay(u)' <= early'[u]
  <2>1. pc' = pc /\ early' = early BY Zenon, <1>8 DEF Poll, Drop, history, slipped
  <2>2. CASE u = t BY SMTT(20), <1>3, <1>4, <1>5, <1>8, <2>1, <2>2, OtherTypes DEF Poll, Drop, OnTheWay, history, slipped
  <2>3. CASE u # t
    <3>1. sent'[u] = sent[u] /\ unsent'[u] = unsent[u]
      BY Zenon, <1>8, <2>3, OtherTypes DEF Poll, Drop, history, slipped
    <3> QED BY Zenon, <1>4, <2>1, <3>1 DEF OnTheWay
  <2> QED BY Zenon, <2>2, <2>3
<1>9. ASSUME NEW t \in Threads, Execute(t) PROVE sent'[u] + OnTheWay(u)' <= early'[u]
  <2>1. unsent' = unsent /\ early' = early /\ pc'[t] = "run" /\ \A v \in Threads \ {t} : pc'[v] = pc[v]
    BY Zenon, <1>9, Moved, IsPlace DEF Execute, calls
  <2>2. CASE u = t
    <3>1. sent'[u] <= sent[u] + OnTheWay(u) - unsent[u]
      BY SMTT(20), <1>5, <1>9, <2>2, OtherTypes DEF Execute, OnTheWay
    <3>2. OnTheWay(u)' = unsent[u] BY <1>5, <2>1, <2>2 DEF OnTheWay
    <3>3. sent'[u] \in Nat /\ OnTheWay(u) \in Nat BY <1>5, <1>9, OtherTypes DEF Execute, OnTheWay
    <3> HIDE DEF OnTheWay
    <3> QED BY SMTT(20), <1>4, <1>5, <2>1, <3>1, <3>2, <3>3
  <2>3. CASE u # t
    <3>1. sent'[u] = sent[u] BY Zenon, <1>9, <2>3, OtherTypes DEF Execute
    <3> QED BY Zenon, <1>4, <2>1, <2>3, <3>1 DEF OnTheWay
  <2> QED BY Zenon, <2>2, <2>3
<1>10. ASSUME NEW t \in Threads, sent' = sent, early' = early, unsent' = unsent,
              \A v \in Threads \ {t} : pc'[v] = pc[v], u = t => pc'[t] # "send"
       PROVE  sent'[u] + OnTheWay(u)' <= early'[u]
  BY <1>4, <1>5, <1>10 DEF OnTheWay
<1>11. ASSUME NEW t \in Threads, Guard(t) PROVE sent'[u] + OnTheWay(u)' <= early'[u]
  <2>1. u # t BY Zenon, <1>3, <1>11 DEF Guard, Passes
  <2> QED BY Zenon, <1>10, <1>11, <2>1, Moved, IsPlace DEF Guard, calls, history, slipped
<1>12. ASSUME NEW t \in Threads,
              EnterProfile(t) \/ EnterStatic(t) \/ LeaveProfile(t) \/ LeaveStatic(t) \/ Released(t) \/ Panic(t)
       PROVE  sent'[u] + OnTheWay(u)' <= early'[u]
  BY Zenon, <1>10, <1>12, Moved, IsPlace
     DEF EnterProfile, EnterStatic, LeaveProfile, LeaveStatic, Released, Panic, calls, history, slipped
<1>13. ASSUME NEW t \in Threads, Acquire(t) PROVE sent'[u] + OnTheWay(u)' <= early'[u]
  BY Zenon, <1>10, <1>13, Moved, IsPlace DEF Acquire, calls, slipped
<1>14. ASSUME NEW t \in Threads, NEW what \in Kinds \cup {"guard", "tensor"}, Call(t, what)
       PROVE  sent'[u] + OnTheWay(u)' <= early'[u]
  <2>1. what \in PcValues /\ what # "send" BY Zenon DEF PcValues, Kinds
  <2>2. unsent' = unsent BY Zenon, <1>14 DEF Call
  <2> QED BY Zenon, <1>10, <1>14, <2>1, <2>2, Moved DEF Call, history, slipped
<1> QED BY Zenon, <1>6, <1>7, <1>8, <1>9, <1>11, <1>12, <1>13, <1>14 DEF Next, Step

(* profile_guard only reads the lock, and read_async sends what it guarded *)
(* at the first poll of its future, so guarded operations of other threads *)
(* reach the server in a section that began meanwhile; they are only those *)
(* that passed the guard before it began, for any number of threads,       *)
(* futures and nested sections.                                            *)
THEOREM IntrusionBounded == Spec => []IntrudersWereEarly
<1>1. Init => IntrudersWereEarly BY Zenon DEF Init, IntrudersWereEarly, Mine
<1>2. Spec => []Core BY SectionsInit, SectionsNext, PTL DEF Spec
<1> QED BY <1>1, <1>2, IntrusionNext, PTL DEF Spec, IntrusionInv
=============================================================================
