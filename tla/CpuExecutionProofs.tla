-------------------------- MODULE CpuExecutionProofs --------------------------
(***************************************************************************)
(* Proofs about launches on the CPU, for every number of workers and units *)
(* and however often a kernel calls sync_cube.                             *)
(***************************************************************************)
EXTENDS CpuExecution, FiniteSetTheorems, TLAPS

-----------------------------------------------------------------------------
(* The chunks of a cube                                                    *)

LEMMA Scaled ==
  ASSUME NEW a \in Nat, NEW b \in Nat, NEW s \in Nat, a <= b
  PROVE  a * s <= b * s
  OBVIOUS

(* The size is rounded up: as many chunks as workers hold all units.       *)
LEMMA ChunkSizeUp ==
  ASSUME NEW dim \in Nat \ {0}
  PROVE  ChunkSize(dim) \in Nat \ {0} /\ dim <= NumWorkers * ChunkSize(dim)
<1> DEFINE n == NumWorkers
           a == dim + n - 1
<1>1. n \in Nat \ {0} /\ a \in Nat /\ a >= n
  BY CpuAssumption
<1>2. a = n * (a \div n) + (a % n) /\ a \div n \in Nat /\ a % n \in 0 .. n - 1
  BY <1>1
<1>3. dim <= n * (a \div n)
  BY <1>1, <1>2
<1>4. a \div n # 0
  BY <1>1, <1>2
<1> QED BY Zenon, <1>2, <1>3, <1>4 DEF ChunkSize

LEMMA ChunkShape ==
  ASSUME NEW dim \in Nat \ {0}, NEW w \in Workers
  PROVE  /\ Chunk(dim, w) \in Seq(Nat)
         /\ (w - 1) * ChunkSize(dim) \in Nat
         /\ Len(Chunk(dim, w)) \in Nat
         /\ DOMAIN Chunk(dim, w) = 1 .. Len(Chunk(dim, w))
         /\ \A i \in 1 .. Len(Chunk(dim, w)) :
              /\ Chunk(dim, w)[i] = (w - 1) * ChunkSize(dim) + i
              /\ i <= ChunkSize(dim) /\ Chunk(dim, w)[i] \in 1 .. dim
         /\ \A i \in 1 .. ChunkSize(dim) :
              (w - 1) * ChunkSize(dim) + i <= dim => i \in 1 .. Len(Chunk(dim, w))
<1> DEFINE s == ChunkSize(dim)
           b == (w - 1) * s
           l == IF dim <= b THEN 0 ELSE IF dim - b < s THEN dim - b ELSE s
<1>1. s \in Nat \ {0} /\ w - 1 \in Nat
  BY ChunkSizeUp, CpuAssumption DEF Workers
<1>2. b \in Nat
  BY <1>1
<1>3. l \in Nat /\ l <= s /\ (l # 0 => b + l <= dim)
      /\ \A i \in 1 .. s : b + i <= dim => i <= l
  <2> HIDE DEF b, s
  <2> QED BY <1>1, <1>2
<1>4. Chunk(dim, w) = [i \in 1 .. l |-> b + i]
  BY Zenon DEF Chunk
<1> HIDE DEF b, s, l
<1>5. Chunk(dim, w) \in Seq(Nat) /\ Len(Chunk(dim, w)) = l /\ DOMAIN Chunk(dim, w) = 1 .. l
  BY <1>2, <1>3, <1>4
<1>6. \A i \in 1 .. l : Chunk(dim, w)[i] = b + i
  BY Zenon, <1>4
<1>7. \A i \in 1 .. l : b + i \in 1 .. dim /\ i <= s
  BY <1>1, <1>2, <1>3
<1>8. \A i \in 1 .. s : b + i <= dim => i \in 1 .. l
  BY <1>1, <1>3
<1> QED BY Zenon, <1>2, <1>3, <1>5, <1>6, <1>7, <1>8 DEF b, s

LEMMA ChunksApart ==
  ASSUME NEW dim \in Nat \ {0}, NEW w \in Workers, NEW x \in Workers,
         NEW i \in 1 .. Len(Chunk(dim, w)), NEW j \in 1 .. Len(Chunk(dim, x)),
         Chunk(dim, w)[i] = Chunk(dim, x)[j]
  PROVE  w = x /\ i = j
<1> DEFINE s == ChunkSize(dim)
<1>1. s \in Nat \ {0} /\ w \in Nat /\ w - 1 \in Nat /\ x \in Nat /\ x - 1 \in Nat
  BY ChunkSizeUp, CpuAssumption DEF Workers
<1>2. (w - 1) * s + i = (x - 1) * s + j /\ i \in 1 .. s /\ j \in 1 .. s
      /\ (w - 1) * s \in Nat /\ (x - 1) * s \in Nat
  BY ChunkShape, <1>1
<1> HIDE DEF s
<1>3. (w - 1) * s + s = w * s /\ (x - 1) * s + s = x * s
  BY <1>1
<1>4. ~ w < x
  <2> SUFFICES ASSUME w <= x - 1 PROVE FALSE
    BY <1>1
  <2>1. w * s <= (x - 1) * s
    BY Zenon, <1>1, Scaled
  <2> QED BY <1>1, <1>2, <1>3, <2>1
<1>5. ~ x < w
  <2> SUFFICES ASSUME x <= w - 1 PROVE FALSE
    BY <1>1
  <2>1. x * s <= (w - 1) * s
    BY Zenon, <1>1, Scaled
  <2> QED BY SMTT(20), <1>1, <1>2, <1>3, <2>1
<1>6. w = x
  BY <1>1, <1>4, <1>5
<1> QED BY <1>2, <1>6

LEMMA ChunksCover ==
  ASSUME NEW dim \in Nat \ {0}, NEW u \in 1 .. dim
  PROVE  \E w \in Workers : \E i \in 1 .. Len(Chunk(dim, w)) : Chunk(dim, w)[i] = u
<1> DEFINE s == ChunkSize(dim)
           q == (u - 1) \div s
           r == (u - 1) % s
<1>1. s \in Nat \ {0} /\ dim <= NumWorkers * s /\ NumWorkers \in Nat \ {0}
  BY Zenon, ChunkSizeUp, CpuAssumption
<1> HIDE DEF s
<1>2. u - 1 = s * q + r /\ q \in Nat /\ r \in 0 .. s - 1
  BY <1>1
<1> HIDE DEF q, r
<1>3. s * q = q * s /\ q * s \in Nat
  BY <1>1, <1>2
<1>4. q < NumWorkers
  <2> SUFFICES ASSUME NumWorkers <= q PROVE FALSE
    BY <1>1, <1>2
  <2>1. NumWorkers * s <= q * s
    BY Zenon, <1>1, <1>2, Scaled
  <2> QED BY <1>1, <1>2, <1>3, <2>1
<1>5. q + 1 \in Workers
  BY <1>1, <1>2, <1>4 DEF Workers
<1>6. (q + 1 - 1) * s = q * s
  BY <1>2
<1>7. r + 1 \in 1 .. s /\ q * s + (r + 1) = u
  BY <1>1, <1>2, <1>3
<1>8. PICK w \in Workers : w = q + 1
  BY Zenon, <1>5
<1>9. PICK i \in 1 .. s : i = r + 1
  BY Zenon, <1>7
<1>10. (w - 1) * s + i = u
  <2>0. w - 1 = q
    BY <1>2, <1>8
  <2>1. (w - 1) * s = q * s
    BY Zenon, <2>0
  <2> QED BY Zenon, <1>7, <1>9, <2>1
<1>11. i \in 1 .. Len(Chunk(dim, w))
  BY <1>10, ChunkShape DEF s
<1>12. Chunk(dim, w)[i] = u
  BY Zenon, <1>10, <1>11, ChunkShape DEF s
<1> QED BY Zenon, <1>11, <1>12

-----------------------------------------------------------------------------
(* The inductive invariant                                                 *)
IInv == LaunchTypes /\ TasksWhole /\ AnswersAwaited /\ UnitsDealt /\ CounterInv

LEMMA TypeDefs ==
  ASSUME LaunchTypes
  PROVE  /\ nbCubeToSync \in Nat \cup {-1} /\ cubeDim \in Dims \cup {0}
         /\ msgCount \in Nat /\ acks \in Nat
         /\ inbox \in [Workers -> Seq(Seq(Nat))] /\ todo \in [Workers -> Seq(Nat)]
         /\ barriersLeft \in [Workers -> Nat]
         /\ step \in [Workers -> {"idle", "run", "store", "count", "spin", "reset"}]
         /\ ran \in Seq(Nat)
  BY Zenon DEF LaunchTypes

LEMMA SyncsNat ==
  ASSUME NEW dim PROVE SyncsOf(dim) \in Nat
  BY Zenon, CpuAssumption DEF SyncsOf

LEMMA WorkersFinite == IsFiniteSet(Workers)
  BY CpuAssumption, FS_Interval DEF Workers

LEMMA OwingFinite ==
  ASSUME NEW P \in SUBSET Workers
  PROVE  IsFiniteSet(P) /\ Cardinality(P) \in Nat /\ (Cardinality(P) = 0 <=> P = {})
<1>1. IsFiniteSet(P)
  BY Zenon, WorkersFinite, FS_Subset
<1> QED BY Zenon, <1>1, FS_CardinalityType, FS_EmptySet

(* What the worker has in its channel decides what its units are.          *)
LEMMA UnitsSeq ==
  ASSUME LaunchTypes, NEW w \in Workers
  PROVE  /\ Units(w) \in Seq(Nat)
         /\ DOMAIN Units(w) = 1 .. Len(Units(w))
<1>1. todo[w] \in Seq(Nat) /\ inbox[w] \in Seq(Seq(Nat))
  BY Zenon, TypeDefs
<1>2. Len(inbox[w]) = 2 => inbox[w][1] \in Seq(Nat)
  BY <1>1
<1>3. <<>> \in Seq(Nat)
  OBVIOUS
<1>4. Units(w) \in Seq(Nat)
  BY Zenon, <1>1, <1>2, <1>3 DEF Units
<1> QED BY <1>4

LEMMA OrdersSeq ==
  ASSUME NEW c \in Seq(Nat)
  PROVE  /\ Orders(c) \in Seq(Seq(Nat)) /\ Len(Orders(c)) = 2 /\ Orders(c)[1] = c
         /\ Head(Orders(c)) = c /\ Tail(Orders(c)) = <<EndTask>> /\ Orders(c) # <<>>
<1>1. EndTask \in Seq(Nat)
  BY DEF EndTask
<1>2. Orders(c) = <<c, EndTask>>
  BY Zenon DEF Orders
<1> QED BY <1>1, <1>2

LEMMA UnitsKept ==
  ASSUME UnitsDealt, ran' = ran, \A x \in Workers : Units(x)' = Units(x)
  PROVE  UnitsDealt'
  BY DEF UnitsDealt, Has

-----------------------------------------------------------------------------
LEMMA InitInv == InitLaunches => IInv
<1> SUFFICES ASSUME InitLaunches PROVE IInv
  BY Zenon
<1>1. LaunchTypes
  BY CpuAssumption DEF InitLaunches, LaunchTypes
<1>2. TasksWhole
  BY Zenon DEF InitLaunches, TasksWhole
<1>3. AnswersAwaited
  <2>1. Owing = {}
    BY Zenon DEF Owing, InitLaunches
  <2> QED BY <2>1, FS_EmptySet DEF AnswersAwaited, InitLaunches
<1>4. UnitsDealt
  <2>1. \A w \in Workers : Units(w) = <<>>
    BY DEF Units, InitLaunches
  <2> QED BY <2>1 DEF UnitsDealt, Has, InitLaunches
<1>5. CounterInv
  <2>1. Len(ran) = 0 /\ DOMAIN ran = {}
    BY DEF InitLaunches
  <2> QED BY <2>1 DEF CounterInv, InitLaunches
<1> QED BY Zenon, <1>1, <1>2, <1>3, <1>4, <1>5 DEF IInv

-----------------------------------------------------------------------------
LEMMA DispatchStep ==
  ASSUME IInv, NEW dim \in Dims, Dispatch(dim)
  PROVE  IInv'
<1>0. dim \in Nat \ {0} /\ LaunchTypes /\ TasksWhole /\ AnswersAwaited
  BY Zenon, CpuAssumption DEF IInv
<1>1. \A w \in Workers : inbox[w] = <<>> /\ step[w] = "idle"
  <2>1. cubeDim = 0 /\ msgCount = 0 /\ acks \in Nat
    BY Zenon, <1>0, TypeDefs DEF Dispatch, AnswersAwaited
  <2>2. Owing = {}
    BY SMTT(20), <1>0, <2>1, OwingFinite DEF AnswersAwaited, Owing
  <2>3. \A w \in Workers : inbox[w] = <<>>
    BY Zenon, <2>2 DEF Owing
  <2> QED BY <1>0, <2>3 DEF TasksWhole, EndTask, Orders
<1>2. nbCubeToSync = -1
  BY Zenon, <1>1 DEF IInv, CounterInv
<1>3. \A w \in Workers : step'[w] = "idle" /\ inbox'[w] = IF Chunk(dim, w) = <<>> THEN <<>> ELSE Orders(Chunk(dim, w))
  <2> SUFFICES ASSUME NEW w \in Workers
               PROVE  step'[w] = "idle" /\ inbox'[w] = IF Chunk(dim, w) = <<>> THEN <<>> ELSE Orders(Chunk(dim, w))
    BY Zenon
  <2>1. <<>> \o Orders(Chunk(dim, w)) = Orders(Chunk(dim, w))
    BY DEF Orders
  <2> QED BY Zenon, <1>1, <2>1 DEF Dispatch
<1>31. \A w \in Workers : Chunk(dim, w) \in Seq(Nat)
  BY Zenon, <1>0, ChunkShape
<1>4. \A w \in Workers : Units(w)' = Chunk(dim, w)
  <2> SUFFICES ASSUME NEW w \in Workers PROVE Units(w)' = Chunk(dim, w)
    BY Zenon
  <2>1. CASE Chunk(dim, w) = <<>>
    <3>1. inbox'[w] = <<>> /\ step'[w] = "idle"
      BY Zenon, <1>3, <2>1
    <3>2. Len(inbox'[w]) # 2
      BY <3>1
    <3> QED BY Zenon, <2>1, <3>1, <3>2 DEF Units
  <2>2. CASE Chunk(dim, w) # <<>>
    <3>1. inbox'[w] = Orders(Chunk(dim, w)) /\ step'[w] = "idle"
      BY Zenon, <1>3, <2>2
    <3> QED BY Zenon, <1>31, <3>1, OrdersSeq DEF Units
  <2> QED BY Zenon, <2>1, <2>2
<1>5. ran' \in Seq(Nat) /\ Len(ran') = dim /\ DOMAIN ran' = 1 .. dim /\ \A u \in 1 .. dim : ran'[u] = 0
  BY <1>0 DEF Dispatch
<1>6. {w \in Workers : Chunk(dim, w) # <<>>} # {}
  <2>1. 1 \in 1 .. dim
    BY <1>0
  <2>2. PICK w \in Workers : \E i \in 1 .. Len(Chunk(dim, w)) : Chunk(dim, w)[i] = 1
    BY Zenon, <1>0, <2>1, ChunksCover
  <2>3. Chunk(dim, w) # <<>>
    BY <2>2
  <2> QED BY Zenon, <2>3
<1>7. Owing' = {w \in Workers : Chunk(dim, w) # <<>>}
  BY SMTT(20), <1>3, <1>31, OrdersSeq DEF Owing
<1>8. msgCount' \in Nat /\ msgCount' # 0 /\ msgCount' = acks' + Cardinality(Owing')
  <2>1. Cardinality({w \in Workers : Chunk(dim, w) # <<>>}) \in Nat \ {0}
    BY Zenon, <1>6, OwingFinite
  <2>2. msgCount' = Cardinality({w \in Workers : Chunk(dim, w) # <<>>}) /\ acks' = 0
    BY Zenon DEF Dispatch
  <2> QED BY <1>7, <2>1, <2>2
<1>9. LaunchTypes'
  <2>1. inbox' \in [Workers -> Seq(Seq(Nat))]
    <3>1. <<>> \in Seq(Seq(Nat))
      OBVIOUS
    <3>2. \A w \in Workers : inbox'[w] \in Seq(Seq(Nat))
      BY Zenon, <1>3, <1>31, <3>1, OrdersSeq
    <3>3. inbox' = [w \in Workers |-> inbox'[w]]
      BY Zenon DEF Dispatch
    <3> QED BY Zenon, <3>2, <3>3
  <2>2. acks' \in Nat /\ cubeDim' \in Dims \cup {0}
    BY Zenon DEF Dispatch
  <2>3. nbCubeToSync' = nbCubeToSync /\ todo' = todo /\ barriersLeft' = barriersLeft /\ step' = step
    BY Zenon DEF Dispatch
  <2> QED BY <1>0, <1>5, <1>8, <2>1, <2>2, <2>3, Zenon DEF LaunchTypes
<1>10. TasksWhole'
  <2> SUFFICES ASSUME NEW w \in Workers
               PROVE  \/ inbox'[w] = <<>>
                      \/ inbox'[w][1] # EndTask /\ inbox'[w] = Orders(inbox'[w][1])
    BY Zenon, <1>3 DEF TasksWhole
  <2>1. CASE Chunk(dim, w) = <<>>
    BY Zenon, <1>3, <2>1
  <2>2. CASE Chunk(dim, w) # <<>>
    <3>1. inbox'[w] = Orders(Chunk(dim, w))
      BY Zenon, <1>3, <2>2
    <3> QED BY Zenon, <1>31, <2>2, <3>1, OrdersSeq DEF EndTask
  <2> QED BY Zenon, <2>1, <2>2
<1>11. AnswersAwaited'
  BY Zenon, <1>0, <1>5, <1>8 DEF AnswersAwaited, Dispatch
<1>12. UnitsDealt'
  <2>1. \A w \in Workers : DOMAIN Chunk(dim, w) = 1 .. Len(Chunk(dim, w))
        /\ \A i \in DOMAIN Chunk(dim, w) : Chunk(dim, w)[i] \in 1 .. dim
    BY <1>0, ChunkShape
  <2>2. \A w, x \in Workers : \A i \in DOMAIN Chunk(dim, w), j \in DOMAIN Chunk(dim, x) :
          Chunk(dim, w)[i] = Chunk(dim, x)[j] => w = x /\ i = j
    BY <1>0, <2>1, ChunksApart
  <2>3. \A u \in 1 .. dim : \E w \in Workers : \E i \in DOMAIN Chunk(dim, w) : Chunk(dim, w)[i] = u
    <3> SUFFICES ASSUME NEW u \in 1 .. dim
                 PROVE  \E w \in Workers : \E i \in DOMAIN Chunk(dim, w) : Chunk(dim, w)[i] = u
      BY Zenon
    <3>1. PICK w \in Workers : \E i \in 1 .. Len(Chunk(dim, w)) : Chunk(dim, w)[i] = u
      BY Zenon, <1>0, ChunksCover
    <3> QED BY Zenon, <2>1, <3>1
  <2> QED BY <1>4, <1>5, <2>1, <2>2, <2>3 DEF UnitsDealt, Has
<1>13. CounterInv'
  <2>1. nbCubeToSync' = -1
    BY Zenon, <1>2 DEF Dispatch
  <2> QED BY <1>3, <1>5, <2>1 DEF CounterInv
<1> QED BY Zenon, <1>9, <1>10, <1>11, <1>12, <1>13 DEF IInv

LEMMA ReceiveStep ==
  ASSUME IInv, Receive
  PROVE  IInv'
<1>0. LaunchTypes /\ TasksWhole /\ AnswersAwaited /\ UnitsDealt /\ CounterInv
  BY Zenon DEF IInv
<1>1. /\ nbCubeToSync' = nbCubeToSync /\ inbox' = inbox /\ todo' = todo
      /\ barriersLeft' = barriersLeft /\ step' = step /\ ran' = ran
      /\ acks > 0 /\ acks' = acks - 1 /\ msgCount' = msgCount - 1
      /\ cubeDim # 0 /\ cubeDim' = IF msgCount = 1 THEN 0 ELSE cubeDim
  BY Zenon DEF Receive
<1>2. Owing' = Owing /\ Cardinality(Owing) \in Nat
  BY Zenon, <1>1, OwingFinite DEF Owing
<1>3. msgCount' \in Nat /\ acks' \in Nat /\ cubeDim' \in Dims \cup {0}
  BY SMTT(20), <1>0, <1>1, <1>2, TypeDefs DEF AnswersAwaited
<1>4. LaunchTypes'
  BY <1>0, <1>1, <1>3, Zenon DEF LaunchTypes
<1>5. TasksWhole'
  BY Zenon, <1>0, <1>1 DEF TasksWhole
<1>6. AnswersAwaited'
  BY <1>0, <1>1, <1>2, <1>3, TypeDefs DEF AnswersAwaited
<1>7. UnitsDealt'
  BY Zenon, <1>0, <1>1, UnitsKept DEF Units
<1>8. CounterInv'
  BY Zenon, <1>0, <1>1 DEF CounterInv
<1> QED BY Zenon, <1>4, <1>5, <1>6, <1>7, <1>8 DEF IInv

-----------------------------------------------------------------------------
(* A cube of one unit occupies one worker.                                 *)
LEMMA Alone ==
  ASSUME LaunchTypes, TasksWhole, UnitsDealt, Len(ran) = 1,
         NEW w \in Workers, NEW x \in Workers, step[w] # "idle", step[x] # "idle"
  PROVE  w = x
<1>1. ran \in Seq(Nat) /\ DOMAIN ran = {1}
  BY TypeDefs
<1>2. todo[w] # <<>> /\ todo[x] # <<>> /\ todo[w] \in Seq(Nat) /\ todo[x] \in Seq(Nat)
  BY Zenon, TypeDefs DEF TasksWhole
<1>3. Units(w) = todo[w] /\ Units(x) = todo[x]
  BY Zenon DEF Units
<1>4. 1 \in DOMAIN Units(w) /\ 1 \in DOMAIN Units(x)
  BY <1>2, <1>3
<1>5. Units(w)[1] = 1 /\ Units(x)[1] = 1
  BY Zenon, <1>1, <1>4 DEF UnitsDealt
<1> QED BY Zenon, <1>4, <1>5 DEF UnitsDealt

(* Steps of a unit at a barrier leave tasks, answers and units alone.      *)
LEMMA BarrierStep ==
  ASSUME IInv, NEW w \in Workers, step[w] # "idle",
         NEW s \in {"run", "store", "count", "spin", "reset"}, Goto(w, s), syncUnchanged,
         nbCubeToSync' \in Nat \cup {-1}, barriersLeft' \in [Workers -> Nat]
  PROVE  /\ LaunchTypes' /\ TasksWhole' /\ AnswersAwaited' /\ UnitsDealt'
         /\ ran' = ran /\ step'[w] = s
         /\ \A x \in Workers : x # w => step'[x] = step[x]
<1>0. LaunchTypes /\ TasksWhole /\ AnswersAwaited /\ UnitsDealt
  BY Zenon DEF IInv
<1>1. /\ cubeDim' = cubeDim /\ msgCount' = msgCount /\ acks' = acks
      /\ inbox' = inbox /\ todo' = todo /\ ran' = ran
  BY Zenon DEF syncUnchanged, scheduler
<1>2. step' \in [Workers -> {"idle", "run", "store", "count", "spin", "reset"}]
      /\ step'[w] = s /\ \A x \in Workers : x # w => step'[x] = step[x]
  BY Zenon, <1>0, TypeDefs DEF Goto
<1>3. LaunchTypes'
  BY <1>0, <1>1, <1>2, Zenon DEF LaunchTypes
<1>4. TasksWhole'
  BY Zenon, <1>0, <1>1, <1>2 DEF TasksWhole
<1>5. Owing' = Owing
  BY Zenon, <1>1 DEF Owing
<1>6. AnswersAwaited'
  BY Zenon, <1>0, <1>1, <1>5 DEF AnswersAwaited
<1>7. \A x \in Workers : Units(x)' = Units(x)
  BY Zenon, <1>1, <1>2 DEF Units
<1>8. UnitsDealt'
  BY Zenon, <1>0, <1>1, <1>7, UnitsKept
<1> QED BY Zenon, <1>1, <1>2, <1>3, <1>4, <1>6, <1>8

LEMMA ArriveStep ==
  ASSUME IInv, NEW w \in Workers, Arrive(w)
  PROVE  IInv'
<1>0. LaunchTypes /\ TasksWhole /\ UnitsDealt /\ CounterInv
  BY Zenon DEF IInv
<1>1. /\ step[w] = "run" /\ barriersLeft[w] > 0 /\ nbCubeToSync' = nbCubeToSync
      /\ barriersLeft' = barriersLeft /\ syncUnchanged
  BY Zenon DEF Arrive
<1>2. PICK s \in {"store", "count"} : s = (IF nbCubeToSync = -1 THEN "store" ELSE "count") /\ Goto(w, s)
  BY Zenon DEF Arrive
<1>3. /\ LaunchTypes' /\ TasksWhole' /\ AnswersAwaited' /\ UnitsDealt' /\ ran' = ran
      /\ step'[w] = s /\ \A x \in Workers : x # w => step'[x] = step[x]
  BY Zenon, <1>0, <1>1, <1>2, TypeDefs, BarrierStep
<1>4. Len(ran) = 1 => s = "store"
  BY Zenon, <1>0, <1>1, <1>2, Alone DEF CounterInv
<1>5. CounterInv'
  BY Zenon, <1>0, <1>1, <1>2, <1>3, <1>4 DEF CounterInv
<1> QED BY Zenon, <1>3, <1>5 DEF IInv

LEMMA StoreStep ==
  ASSUME IInv, NEW w \in Workers, Store(w)
  PROVE  IInv'
<1>0. LaunchTypes /\ TasksWhole /\ UnitsDealt /\ CounterInv
  BY Zenon DEF IInv
<1>1. /\ step[w] = "store" /\ nbCubeToSync' = Len(ran) - 1
      /\ barriersLeft' = barriersLeft /\ Goto(w, "spin") /\ syncUnchanged
  BY Zenon DEF Store, Others
<1>2. Len(ran) \in Nat \ {0}
  <2>1. ran \in Seq(Nat) /\ todo[w] \in Seq(Nat) /\ todo[w] # <<>> /\ Units(w) = todo[w]
    BY Zenon, <1>0, <1>1, TypeDefs DEF TasksWhole, Units
  <2>2. 1 \in DOMAIN Units(w)
    BY <2>1
  <2>3. Units(w)[1] \in DOMAIN ran
    BY Zenon, <1>0, <2>2 DEF UnitsDealt
  <2> QED BY <2>1, <2>3
<1>3. /\ LaunchTypes' /\ TasksWhole' /\ AnswersAwaited' /\ UnitsDealt' /\ ran' = ran
      /\ step'[w] = "spin" /\ \A x \in Workers : x # w => step'[x] = step[x]
  <2>1. nbCubeToSync' \in Nat /\ barriersLeft' \in [Workers -> Nat]
    BY <1>0, <1>1, <1>2, TypeDefs
  <2> QED BY Zenon, <1>1, <2>1, BarrierStep
<1>4. Len(ran) = 1 => \A x \in Workers : step[x] # "idle" => x = w
  BY Zenon, <1>0, <1>1, Alone
<1>5. CounterInv'
  BY <1>0, <1>1, <1>2, <1>3, <1>4 DEF CounterInv
<1> QED BY Zenon, <1>3, <1>5 DEF IInv

LEMMA CountStep ==
  ASSUME IInv, NEW w \in Workers, Count(w)
  PROVE  IInv'
<1>0. LaunchTypes /\ TasksWhole /\ UnitsDealt /\ CounterInv
  BY Zenon DEF IInv
<1>1. /\ step[w] = "count" /\ nbCubeToSync' = nbCubeToSync - (-1)
      /\ barriersLeft' = barriersLeft /\ Goto(w, "spin") /\ syncUnchanged
  BY Zenon DEF Count
<1>2. Len(ran) # 1 /\ nbCubeToSync \in Nat \ {0}
  BY Zenon, <1>0, <1>1, TypeDefs DEF CounterInv
<1>3. /\ LaunchTypes' /\ TasksWhole' /\ AnswersAwaited' /\ UnitsDealt' /\ ran' = ran
      /\ step'[w] = "spin" /\ \A x \in Workers : x # w => step'[x] = step[x]
  <2>1. nbCubeToSync' \in Nat /\ barriersLeft' \in [Workers -> Nat]
    BY <1>0, <1>1, <1>2, TypeDefs
  <2> QED BY Zenon, <1>1, <2>1, BarrierStep
<1>4. CounterInv'
  BY <1>0, <1>1, <1>2, <1>3 DEF CounterInv
<1> QED BY Zenon, <1>3, <1>4 DEF IInv

LEMMA SpinStep ==
  ASSUME IInv, NEW w \in Workers, Spin(w)
  PROVE  IInv'
<1>0. LaunchTypes /\ TasksWhole /\ UnitsDealt /\ CounterInv
  BY Zenon DEF IInv
<1>1. step[w] = "spin" /\ nbCubeToSync \in {0, -1} /\ nbCubeToSync' = nbCubeToSync /\ syncUnchanged
  BY Zenon DEF Spin
<1>2. Len(ran) = 1 /\ nbCubeToSync = 0
  BY Zenon, <1>0, <1>1 DEF CounterInv
<1>3. Goto(w, "reset") /\ barriersLeft' = barriersLeft
  BY Zenon, <1>2 DEF Spin
<1>4. /\ LaunchTypes' /\ TasksWhole' /\ AnswersAwaited' /\ UnitsDealt' /\ ran' = ran
      /\ step'[w] = "reset" /\ \A x \in Workers : x # w => step'[x] = step[x]
  BY Zenon, <1>0, <1>1, <1>3, TypeDefs, BarrierStep
<1>5. CounterInv'
  BY Zenon, <1>0, <1>1, <1>2, <1>3, <1>4 DEF CounterInv
<1> QED BY Zenon, <1>4, <1>5 DEF IInv

LEMMA ResetStep ==
  ASSUME IInv, NEW w \in Workers, Reset(w)
  PROVE  IInv'
<1>0. LaunchTypes /\ TasksWhole /\ UnitsDealt /\ CounterInv
  BY Zenon DEF IInv
<1>1. /\ step[w] = "reset" /\ nbCubeToSync' = -1 /\ Goto(w, "run") /\ syncUnchanged
      /\ barriersLeft' = [barriersLeft EXCEPT ![w] = @ - 1]
  BY Zenon DEF Reset, Passed
<1>2. Len(ran) = 1 /\ barriersLeft[w] > 0 /\ barriersLeft[w] \in Nat
  BY Zenon, <1>0, <1>1, TypeDefs DEF CounterInv
<1>3. barriersLeft' \in [Workers -> Nat] /\ barriersLeft'[w] = barriersLeft[w] - 1
  BY <1>0, <1>1, <1>2, TypeDefs
<1>4. /\ LaunchTypes' /\ TasksWhole' /\ AnswersAwaited' /\ UnitsDealt' /\ ran' = ran
      /\ step'[w] = "run" /\ \A x \in Workers : x # w => step'[x] = step[x]
  BY Zenon, <1>0, <1>1, <1>3, BarrierStep
<1>5. \A x \in Workers : step[x] # "idle" => x = w
  BY Zenon, <1>0, <1>1, <1>2, Alone
<1>6. barriersLeft'[w] <= SyncsOf(Len(ran))
  BY <1>0, <1>1, <1>2, <1>3, SyncsNat DEF CounterInv
<1>7. CounterInv'
  BY Zenon, <1>1, <1>2, <1>4, <1>5, <1>6 DEF CounterInv
<1> QED BY Zenon, <1>4, <1>7 DEF IInv

-----------------------------------------------------------------------------
LEMMA TakeTaskStep ==
  ASSUME IInv, NEW w \in Workers, TakeTask(w)
  PROVE  IInv'
<1>0. LaunchTypes /\ TasksWhole /\ AnswersAwaited /\ UnitsDealt /\ CounterInv
  BY Zenon DEF IInv
<1>1. /\ step[w] = "idle" /\ inbox[w] # <<>> /\ Head(inbox[w]) # EndTask
      /\ todo' = [todo EXCEPT ![w] = Head(inbox[w])]
      /\ inbox' = [inbox EXCEPT ![w] = Tail(inbox[w])]
      /\ barriersLeft' = [barriersLeft EXCEPT ![w] = SyncsOf(Len(ran))]
      /\ step' = [step EXCEPT ![w] = "run"]
      /\ nbCubeToSync' = nbCubeToSync /\ cubeDim' = cubeDim /\ msgCount' = msgCount
      /\ acks' = acks /\ ran' = ran
  BY Zenon DEF TakeTask, Goto, scheduler
<1>2. inbox[w] \in Seq(Seq(Nat)) /\ inbox[w][1] # EndTask /\ inbox[w] = Orders(inbox[w][1])
  <2>1. inbox[w] \in Seq(Seq(Nat)) /\ Head(inbox[w]) = inbox[w][1]
    BY <1>0, <1>1, TypeDefs
  <2>2. <<EndTask>>[1] = EndTask
    BY Zenon
  <2> QED BY Zenon, <1>0, <1>1, <2>1, <2>2 DEF TasksWhole
<1>3. PICK c \in Seq(Nat) : c = inbox[w][1] /\ c # <<>>
  BY <1>1, <1>2 DEF EndTask
<1>4. Head(inbox[w]) = c /\ Tail(inbox[w]) = <<EndTask>> /\ Len(inbox[w]) = 2
  BY Zenon, <1>2, <1>3, OrdersSeq
<1>5. /\ inbox'[w] = <<EndTask>> /\ todo'[w] = c /\ step'[w] = "run"
      /\ barriersLeft'[w] = SyncsOf(Len(ran))
      /\ \A x \in Workers : x # w => /\ inbox'[x] = inbox[x] /\ todo'[x] = todo[x]
                                     /\ step'[x] = step[x] /\ barriersLeft'[x] = barriersLeft[x]
  BY Zenon, <1>0, <1>1, <1>4, TypeDefs
<1>6. LaunchTypes'
  <2>1. <<EndTask>> \in Seq(Seq(Nat))
    BY DEF EndTask
  <2>2. inbox' \in [Workers -> Seq(Seq(Nat))] /\ todo' \in [Workers -> Seq(Nat)]
    BY Zenon, <1>0, <1>1, <1>4, <2>1, TypeDefs
  <2>3. barriersLeft' \in [Workers -> Nat]
    BY Zenon, <1>0, <1>1, SyncsNat, TypeDefs
  <2>4. step' \in [Workers -> {"idle", "run", "store", "count", "spin", "reset"}]
    BY Zenon, <1>0, <1>1, TypeDefs
  <2> QED BY <1>0, <1>1, <2>2, <2>3, <2>4, Zenon DEF LaunchTypes
<1>7. TasksWhole'
  BY <1>0, <1>3, <1>5 DEF TasksWhole
<1>8. Owing' = Owing
  <2>1. <<EndTask>> # <<>>
    BY Zenon
  <2> QED BY Zenon, <1>1, <1>5, <2>1 DEF Owing
<1>9. AnswersAwaited'
  BY Zenon, <1>0, <1>1, <1>8 DEF AnswersAwaited
<1>10. UnitsDealt'
  <2>1. \A x \in Workers : Units(x)' = Units(x)
    BY <1>1, <1>3, <1>4, <1>5 DEF Units
  <2> QED BY Zenon, <1>0, <1>1, <2>1, UnitsKept
<1>11. CounterInv'
  BY <1>0, <1>1, <1>5, SyncsNat DEF CounterInv
<1> QED BY Zenon, <1>6, <1>7, <1>9, <1>10, <1>11 DEF IInv

LEMMA TakeEndStep ==
  ASSUME IInv, NEW w \in Workers, TakeEnd(w)
  PROVE  IInv'
<1>0. LaunchTypes /\ TasksWhole /\ AnswersAwaited /\ UnitsDealt /\ CounterInv
  BY Zenon DEF IInv
<1>1. /\ step[w] = "idle" /\ inbox[w] # <<>> /\ Head(inbox[w]) = EndTask
      /\ inbox' = [inbox EXCEPT ![w] = Tail(inbox[w])] /\ acks' = acks + 1
      /\ nbCubeToSync' = nbCubeToSync /\ cubeDim' = cubeDim /\ msgCount' = msgCount
      /\ todo' = todo /\ barriersLeft' = barriersLeft /\ step' = step /\ ran' = ran
  BY Zenon DEF TakeEnd, scheduler
<1>2. inbox[w] = <<EndTask>>
  <2>1. inbox[w] \in Seq(Seq(Nat)) /\ Head(inbox[w]) = inbox[w][1]
    BY <1>0, <1>1, TypeDefs
  <2> QED BY Zenon, <1>0, <1>1, <2>1 DEF TasksWhole
<1>3. Tail(inbox[w]) = <<>> /\ Len(inbox[w]) = 1 /\ Len(<<>>) = 0
  BY <1>2
<1>4. inbox'[w] = <<>> /\ \A x \in Workers : x # w => inbox'[x] = inbox[x]
  BY Zenon, <1>0, <1>1, <1>3, TypeDefs
<1>5. LaunchTypes'
  <2>1. <<>> \in Seq(Seq(Nat)) /\ acks' \in Nat
    BY SMTT(20), <1>0, <1>1, TypeDefs
  <2>2. inbox' \in [Workers -> Seq(Seq(Nat))]
    BY Zenon, <1>0, <1>1, <1>3, <2>1, TypeDefs
  <2> QED BY <1>0, <1>1, <2>1, <2>2, Zenon DEF LaunchTypes
<1>6. TasksWhole'
  BY Zenon, <1>0, <1>1, <1>4 DEF TasksWhole
<1>7. AnswersAwaited'
  <2>1. Owing' = Owing \ {w} /\ w \in Owing /\ Owing \subseteq Workers
    BY Zenon, <1>1, <1>4 DEF Owing
  <2>2. IsFiniteSet(Owing) /\ Cardinality(Owing) \in Nat
    BY Zenon, <2>1, OwingFinite
  <2>3. Cardinality(Owing') = Cardinality(Owing) - 1
    BY Zenon, <2>1, <2>2, FS_RemoveElement
  <2> QED BY <1>0, <1>1, <2>2, <2>3, TypeDefs DEF AnswersAwaited
<1>8. UnitsDealt'
  <2>1. Len(inbox'[w]) # 2 /\ Len(inbox[w]) # 2
    BY <1>3, <1>4
  <2>2. \A x \in Workers : Units(x)' = Units(x)
    BY <1>1, <1>4, <2>1 DEF Units
  <2> QED BY Zenon, <1>0, <1>1, <2>2, UnitsKept
<1>9. CounterInv'
  BY Zenon, <1>0, <1>1 DEF CounterInv
<1> QED BY Zenon, <1>5, <1>6, <1>7, <1>8, <1>9 DEF IInv

LEMMA TailOf ==
  ASSUME NEW t \in Seq(Nat), t # <<>>
  PROVE  /\ Len(t) \in Nat \ {0} /\ Head(t) = t[1] /\ Tail(t) \in Seq(Nat)
         /\ DOMAIN t = 1 .. Len(t)
         /\ DOMAIN Tail(t) = 1 .. Len(t) - 1
         /\ \A i \in 1 .. Len(t) - 1 : Tail(t)[i] = t[i + 1]
         /\ Len(t) = 1 => Tail(t) = <<>>
         /\ Len(t) # 1 => Tail(t) # <<>>
<1>1. Len(t) \in Nat \ {0} /\ Head(t) = t[1] /\ Tail(t) \in Seq(Nat) /\ DOMAIN t = 1 .. Len(t)
  OBVIOUS
<1>2. Len(Tail(t)) = Len(t) - 1 /\ DOMAIN Tail(t) = 1 .. Len(t) - 1
      /\ \A i \in 1 .. Len(t) - 1 : Tail(t)[i] = t[i + 1]
  OBVIOUS
<1>3. Len(t) = 1 => Tail(t) = <<>>
  BY <1>1, <1>2
<1>4. Len(t) # 1 => Tail(t) # <<>>
  <2>1. Len(t) # 1 => Len(Tail(t)) # 0
    BY <1>1, <1>2
  <2>2. Len(<<>>) = 0
    OBVIOUS
  <2> QED BY Zenon, <2>1, <2>2
<1> QED BY Zenon, <1>1, <1>2, <1>3, <1>4

LEMMA Shift ==
  ASSUME NEW n \in Nat
  PROVE  /\ \A i \in 1 .. n : i = 1 \/ \E j \in 1 .. n - 1 : i = j + 1
         /\ \A i \in 1 .. n - 1 : i \in Nat /\ i + 1 \in 1 .. n /\ i + 1 # 1
<1>1. ASSUME NEW i \in 1 .. n, i # 1 PROVE i - 1 \in 1 .. n - 1 /\ i = (i - 1) + 1
  BY <1>1
<1>2. \A i \in 1 .. n - 1 : i \in Nat /\ i + 1 \in 1 .. n /\ i + 1 # 1
  OBVIOUS
<1> QED BY Zenon, <1>1, <1>2

(* The unit at the head of what a worker has is done.                      *)
LEMMA UnitRan ==
  ASSUME UnitsDealt, NEW w \in Workers, NEW u \in DOMAIN ran,
         todo[w] \in Seq(Nat), todo[w] # <<>>, Units(w) = todo[w], u = Head(todo[w]),
         DOMAIN ran' = DOMAIN ran, ran[u] = 0, ran'[u] = 1,
         \A v \in DOMAIN ran : v # u => ran'[v] = ran[v],
         Units(w)' = Tail(todo[w]), \A x \in Workers : x # w => Units(x)' = Units(x)
  PROVE  UnitsDealt'
<1>1. /\ Len(todo[w]) \in Nat \ {0} /\ Head(todo[w]) = todo[w][1]
      /\ DOMAIN todo[w] = 1 .. Len(todo[w])
      /\ DOMAIN Tail(todo[w]) = 1 .. Len(todo[w]) - 1
      /\ \A i \in 1 .. Len(todo[w]) - 1 : Tail(todo[w])[i] = todo[w][i + 1]
  BY Zenon, TailOf
<1>2. \A p, q \in Workers : \A m \in DOMAIN Units(p), n \in DOMAIN Units(q) :
        Units(p)[m] = Units(q)[n] => p = q /\ m = n
  BY Zenon DEF UnitsDealt
<1>3. /\ \A i \in 1 .. Len(todo[w]) : i = 1 \/ \E j \in 1 .. Len(todo[w]) - 1 : i = j + 1
      /\ \A i \in 1 .. Len(todo[w]) - 1 : i \in Nat /\ i + 1 \in 1 .. Len(todo[w]) /\ i + 1 # 1
  <2> Len(todo[w]) \in Nat
    BY Zenon, <1>1
  <2> QED BY Zenon, Shift
<1>4. \A x \in Workers : \A i \in DOMAIN Units(x)' :
        /\ x = w => i + 1 \in DOMAIN Units(x) /\ Units(x)'[i] = Units(x)[i + 1] /\ i + 1 # 1 /\ i \in Nat
        /\ x # w => i \in DOMAIN Units(x) /\ Units(x)'[i] = Units(x)[i]
  <2> SUFFICES ASSUME NEW x \in Workers, NEW i \in DOMAIN Units(x)'
               PROVE  /\ x = w => i + 1 \in DOMAIN Units(x) /\ Units(x)'[i] = Units(x)[i + 1] /\ i + 1 # 1 /\ i \in Nat
                      /\ x # w => i \in DOMAIN Units(x) /\ Units(x)'[i] = Units(x)[i]
    BY Zenon
  <2>1. CASE x = w
    <3>1. i \in 1 .. Len(todo[w]) - 1 /\ Units(x)'[i] = Tail(todo[w])[i]
      BY Zenon, <1>1, <2>1
    <3>2. i \in Nat /\ i + 1 \in 1 .. Len(todo[w]) /\ i + 1 # 1
      BY Zenon, <1>3, <3>1
    <3> QED BY Zenon, <1>1, <2>1, <3>1, <3>2
  <2>2. CASE x # w
    BY Zenon, <2>2
  <2> QED BY Zenon, <2>1, <2>2
<1>5. \A x \in Workers : \A i \in DOMAIN Units(x)' : Units(x)'[i] \in DOMAIN ran /\ Units(x)'[i] # u
  <2> SUFFICES ASSUME NEW x \in Workers, NEW i \in DOMAIN Units(x)'
               PROVE  Units(x)'[i] \in DOMAIN ran /\ Units(x)'[i] # u
    BY Zenon
  <2>1. 1 \in DOMAIN Units(w) /\ Units(w)[1] = u
    BY <1>1
  <2>2. CASE x = w
    <3>1. i + 1 \in DOMAIN Units(w) /\ Units(x)'[i] = Units(w)[i + 1] /\ i + 1 # 1
      BY Zenon, <1>4, <2>2
    <3>2. Units(w)[i + 1] # u
      BY <1>2, <2>1, <3>1
    <3> QED BY Zenon, <3>1, <3>2 DEF UnitsDealt
  <2>3. CASE x # w
    <3>1. i \in DOMAIN Units(x) /\ Units(x)'[i] = Units(x)[i]
      BY Zenon, <1>4, <2>3
    <3>2. Units(x)[i] # u
      BY <1>2, <2>1, <2>3, <3>1
    <3> QED BY Zenon, <3>1, <3>2 DEF UnitsDealt
  <2> QED BY Zenon, <2>2, <2>3
<1>6. \A x, y \in Workers : \A i \in DOMAIN Units(x)', j \in DOMAIN Units(y)' :
        Units(x)'[i] = Units(y)'[j] => x = y /\ i = j
  <2> SUFFICES ASSUME NEW x \in Workers, NEW y \in Workers,
                      NEW i \in DOMAIN Units(x)', NEW j \in DOMAIN Units(y)',
                      Units(x)'[i] = Units(y)'[j]
               PROVE  x = y /\ i = j
    BY Zenon
  <2>1. PICK k \in DOMAIN Units(x) : Units(x)'[i] = Units(x)[k] /\ (x = w => k = i + 1 /\ i \in Nat) /\ (x # w => k = i)
    BY Zenon, <1>4
  <2>2. PICK l \in DOMAIN Units(y) : Units(y)'[j] = Units(y)[l] /\ (y = w => l = j + 1 /\ j \in Nat) /\ (y # w => l = j)
    BY Zenon, <1>4
  <2>3. x = y /\ k = l
    <3>1. Units(x)[k] = Units(y)[l]
      BY Zenon, <2>1, <2>2
    <3> QED BY <1>2, <3>1
  <2> QED BY <2>1, <2>2, <2>3
<1>7. \A v \in DOMAIN ran : v # u =>
        ((\E x \in Workers : Has(x, v)') <=> (\E x \in Workers : Has(x, v)))
  <2> SUFFICES ASSUME NEW v \in DOMAIN ran, v # u, NEW x \in Workers
               PROVE  Has(x, v)' <=> Has(x, v)
    BY Zenon
  <2>1. CASE x # w
    BY Zenon, <2>1 DEF Has
  <2>2. CASE x = w
    <3>1. ASSUME NEW i \in DOMAIN Units(w), Units(w)[i] = v PROVE Has(w, v)'
      <4>1. i \in 1 .. Len(todo[w]) /\ i # 1
        BY Zenon, <1>1, <3>1
      <4>2. PICK j \in 1 .. Len(todo[w]) - 1 : i = j + 1
        BY Zenon, <1>3, <4>1
      <4>3. j \in DOMAIN Units(w)' /\ Units(w)'[j] = v
        BY Zenon, <1>1, <3>1, <4>2
      <4> QED BY Zenon, <4>3 DEF Has
    <3>2. ASSUME NEW i \in DOMAIN Units(w)', Units(w)'[i] = v PROVE Has(w, v)
      <4>1. i + 1 \in DOMAIN Units(w) /\ Units(w)[i + 1] = v
        BY Zenon, <1>4, <3>2
      <4> QED BY Zenon, <4>1 DEF Has
    <3> QED BY Zenon, <2>2, <3>1, <3>2 DEF Has
  <2> QED BY Zenon, <2>1, <2>2
<1>8. \A x \in Workers : ~ Has(x, u)'
  BY Zenon, <1>5 DEF Has
<1>9. \A v \in DOMAIN ran : ran'[v] = IF \E x \in Workers : Has(x, v)' THEN 0 ELSE 1
  BY <1>7, <1>8 DEF UnitsDealt
<1> QED BY Zenon, <1>5, <1>6, <1>9 DEF UnitsDealt

LEMMA EndUnitStep ==
  ASSUME IInv, NEW w \in Workers, EndUnit(w)
  PROVE  IInv'
<1>0. LaunchTypes /\ TasksWhole /\ AnswersAwaited /\ UnitsDealt /\ CounterInv
  BY Zenon DEF IInv
<1>1. /\ step[w] = "run" /\ barriersLeft[w] = 0
      /\ ran' = [ran EXCEPT ![Head(todo[w])] = ran[Head(todo[w])] + 1]
      /\ todo' = [todo EXCEPT ![w] = Tail(todo[w])]
      /\ barriersLeft' = [barriersLeft EXCEPT ![w] = SyncsOf(Len(ran))]
      /\ step' = [step EXCEPT ![w] = IF Len(todo[w]) = 1 THEN "idle" ELSE "run"]
      /\ nbCubeToSync' = nbCubeToSync /\ cubeDim' = cubeDim /\ msgCount' = msgCount
      /\ acks' = acks /\ inbox' = inbox
  BY Zenon DEF EndUnit, Goto, scheduler
<1>2. todo[w] \in Seq(Nat) /\ todo[w] # <<>> /\ inbox[w] = <<EndTask>> /\ Len(inbox[w]) = 1
  <2>1. todo[w] \in Seq(Nat) /\ todo[w] # <<>> /\ inbox[w] = <<EndTask>>
    BY Zenon, <1>0, <1>1, TypeDefs DEF TasksWhole
  <2> QED BY Zenon, <2>1
<1>3. /\ Len(todo[w]) \in Nat \ {0} /\ Head(todo[w]) = todo[w][1] /\ Tail(todo[w]) \in Seq(Nat)
      /\ DOMAIN todo[w] = 1 .. Len(todo[w])
      /\ DOMAIN Tail(todo[w]) = 1 .. Len(todo[w]) - 1
      /\ \A i \in 1 .. Len(todo[w]) - 1 : Tail(todo[w])[i] = todo[w][i + 1]
      /\ Len(todo[w]) = 1 => Tail(todo[w]) = <<>>
      /\ Len(todo[w]) # 1 => Tail(todo[w]) # <<>>
  BY Zenon, <1>2, TailOf
<1>4. Units(w) = todo[w]
  BY Zenon, <1>1 DEF Units
<1>5. PICK u \in DOMAIN ran : u = Head(todo[w])
  BY <1>0, <1>3, <1>4 DEF UnitsDealt
<1>6. ran[u] = 0
  BY <1>0, <1>3, <1>4, <1>5 DEF UnitsDealt, Has
<1>7. /\ ran' \in Seq(Nat) /\ Len(ran') = Len(ran) /\ DOMAIN ran' = DOMAIN ran /\ ran'[u] = 1
      /\ \A v \in DOMAIN ran : v # u => ran'[v] = ran[v]
  <2>1. ran \in Seq(Nat) /\ ran' = [ran EXCEPT ![u] = 1]
    BY <1>0, <1>1, <1>5, <1>6, TypeDefs
  <2> QED BY <2>1
<1>8. /\ todo'[w] = Tail(todo[w]) /\ step'[w] = (IF Len(todo[w]) = 1 THEN "idle" ELSE "run")
      /\ barriersLeft'[w] = SyncsOf(Len(ran))
      /\ \A x \in Workers : x # w => /\ todo'[x] = todo[x] /\ step'[x] = step[x]
                                     /\ barriersLeft'[x] = barriersLeft[x]
  BY Zenon, <1>0, <1>1, TypeDefs
<1>9. LaunchTypes'
  <2>1. todo' \in [Workers -> Seq(Nat)]
    BY Zenon, <1>0, <1>1, <1>3, TypeDefs
  <2>2. barriersLeft' \in [Workers -> Nat]
    BY Zenon, <1>0, <1>1, SyncsNat, TypeDefs
  <2>3. step' \in [Workers -> {"idle", "run", "store", "count", "spin", "reset"}]
    BY Zenon, <1>0, <1>1, TypeDefs
  <2> QED BY <1>0, <1>1, <1>7, <2>1, <2>2, <2>3, Zenon DEF LaunchTypes
<1>10. TasksWhole'
  <2>1. inbox'[w] = <<EndTask>> /\ (step'[w] # "idle" => todo'[w] # <<>>)
    BY Zenon, <1>1, <1>2, <1>3, <1>8
  <2> QED BY Zenon, <1>0, <1>1, <1>8, <2>1 DEF TasksWhole
<1>11. AnswersAwaited'
  <2>1. Owing' = Owing
    BY Zenon, <1>1 DEF Owing
  <2> QED BY Zenon, <1>0, <1>1, <1>7, <2>1 DEF AnswersAwaited
<1>12. Units(w)' = Tail(todo[w]) /\ \A x \in Workers : x # w => Units(x)' = Units(x)
  <2>1. Len(inbox'[w]) # 2
    BY <1>1, <1>2
  <2>2. Units(w)' = Tail(todo[w])
    BY Zenon, <1>3, <1>8, <2>1 DEF Units
  <2>3. \A x \in Workers : x # w => Units(x)' = Units(x)
    BY Zenon, <1>1, <1>8 DEF Units
  <2> QED BY Zenon, <2>2, <2>3
<1>13. UnitsDealt'
  BY Zenon, <1>0, <1>2, <1>4, <1>5, <1>6, <1>7, <1>12, UnitRan
<1>14. CounterInv'
  <2>1. Len(ran) # 1 => SyncsOf(Len(ran)) = 0
    BY Zenon, <1>0, <1>1 DEF CounterInv
  <2>2. \A x \in Workers : step'[x] # "idle" => step[x] # "idle"
    BY Zenon, <1>1, <1>8
  <2>3. \A x \in Workers : step'[x] \in {"count", "spin", "reset"} <=> step[x] \in {"count", "spin", "reset"}
    BY <1>1, <1>8
  <2> QED BY SMTT(20), <1>0, <1>1, <1>7, <1>8, <2>1, <2>2, <2>3, SyncsNat DEF CounterInv
<1> QED BY Zenon, <1>9, <1>10, <1>11, <1>13, <1>14 DEF IInv

-----------------------------------------------------------------------------
LEMMA NextInv == IInv /\ [NextOfLaunches]_launchVars => IInv'
<1> SUFFICES ASSUME IInv, [NextOfLaunches]_launchVars PROVE IInv'
  BY Zenon
<1>1. ASSUME NEW dim \in Dims, Dispatch(dim) PROVE IInv'
  BY Zenon, <1>1, DispatchStep
<1>2. CASE Receive
  BY Zenon, <1>2, ReceiveStep
<1>3. CASE launchVars' = launchVars
  <2>1. /\ nbCubeToSync' = nbCubeToSync /\ cubeDim' = cubeDim /\ msgCount' = msgCount
        /\ acks' = acks /\ inbox' = inbox /\ todo' = todo /\ barriersLeft' = barriersLeft
        /\ step' = step /\ ran' = ran
    BY Zenon, <1>3 DEF launchVars, scheduler
  <2>2. LaunchTypes'
    BY <2>1, Zenon DEF IInv, LaunchTypes
  <2>3. Owing' = Owing /\ \A x \in Workers : Units(x)' = Units(x)
    BY Zenon, <2>1 DEF Owing, Units
  <2>4. TasksWhole' /\ AnswersAwaited' /\ UnitsDealt'
    BY Zenon, <2>1, <2>3, UnitsKept DEF IInv, TasksWhole, AnswersAwaited
  <2>5. CounterInv'
    BY Zenon, <2>1 DEF IInv, CounterInv
  <2> QED BY Zenon, <2>2, <2>4, <2>5 DEF IInv
<1>4. ASSUME NEW w \in Workers, Worker(w) PROVE IInv'
  <2>1. CASE SpinOn(w)
    BY Zenon, <1>3, <2>1 DEF SpinOn
  <2> QED BY Zenon, <1>4, <2>1, TakeTaskStep, TakeEndStep, EndUnitStep, ArriveStep, StoreStep, CountStep,
             SpinStep, ResetStep DEF Worker
<1> QED BY Zenon, <1>1, <1>2, <1>3, <1>4 DEF NextOfLaunches

LEMMA CompleteAtReturn == IInv => LaunchComplete
<1> SUFFICES ASSUME IInv, cubeDim = 0
             PROVE  /\ \A w \in Workers : step[w] = "idle" /\ inbox[w] = <<>>
                    /\ \A u \in DOMAIN ran : ran[u] = 1
  BY Zenon DEF LaunchComplete
<1>1. Owing = {}
  <2>1. msgCount = 0 /\ acks \in Nat /\ msgCount = acks + Cardinality(Owing)
    BY Zenon, TypeDefs DEF IInv, AnswersAwaited
  <2> QED BY <2>1, OwingFinite DEF Owing
<1>2. \A w \in Workers : inbox[w] = <<>>
  BY Zenon, <1>1 DEF Owing
<1>3. \A w \in Workers : step[w] = "idle"
  BY <1>2 DEF IInv, TasksWhole, Orders
<1>4. \A w \in Workers : Units(w) = <<>>
  BY <1>2, <1>3 DEF Units
<1> QED BY <1>2, <1>3, <1>4 DEF IInv, UnitsDealt, Has

LEMMA NobodyPasses == IInv => NoUnitPassesEarly
<1> SUFFICES ASSUME IInv, NEW u \in DOMAIN ran, NEW v \in DOMAIN ran
             PROVE  Passes(u) <= Arrivals(v)
  BY Zenon DEF NoUnitPassesEarly
<1>0. LaunchTypes /\ CounterInv /\ ran \in Seq(Nat) /\ SyncsOf(Len(ran)) \in Nat
  BY Zenon, TypeDefs, SyncsNat DEF IInv
<1>1. ASSUME NEW x \in DOMAIN ran
      PROVE  Passes(x) \in Nat /\ (Len(ran) # 1 => Passes(x) = 0)
  <2>1. CASE ran[x] > 0
    BY <1>0, <1>1, <2>1 DEF Passes, CounterInv
  <2>2. CASE ~ ran[x] > 0 /\ \E w \in Workers : Runs(w, x)
    <3>1. PICK w \in Workers : w = (CHOOSE y \in Workers : Runs(y, x)) /\ Runs(w, x)
      BY Zenon, <2>2
    <3>2. barriersLeft[w] \in Nat /\ barriersLeft[w] <= SyncsOf(Len(ran))
          /\ (Len(ran) # 1 => barriersLeft[w] = SyncsOf(Len(ran)))
      BY Zenon, <1>0, <3>1, TypeDefs DEF Runs, CounterInv
    <3>3. Passes(x) = SyncsOf(Len(ran)) - barriersLeft[w]
      BY Zenon, <2>2, <3>1 DEF Passes
    <3> QED BY SMTT(20), <1>0, <3>2, <3>3
  <2>3. CASE ~ ran[x] > 0 /\ ~ \E w \in Workers : Runs(w, x)
    BY Zenon, <2>3 DEF Passes
  <2> QED BY Zenon, <2>1, <2>2, <2>3
<1>2. Arrivals(v) >= Passes(v)
  BY <1>1 DEF Arrivals
<1>3. CASE Len(ran) = 1
  <2>1. u = v
    BY <1>0, <1>3
  <2> QED BY Zenon, <1>2, <2>1
<1>4. CASE Len(ran) # 1
  BY Zenon, <1>1, <1>2, <1>4
<1> QED BY Zenon, <1>3, <1>4

(* For any number of workers and units: when Scheduler::dispatch_execute   *)
(* returns every unit of the cube ran exactly once and no worker is at     *)
(* work, and no unit leaves sync_cube before all have come to it.          *)
THEOREM LaunchesComplete == LaunchSpec => []LaunchInv
<1>1. IInv => LaunchInv
  BY Zenon, CompleteAtReturn, NobodyPasses DEF IInv, LaunchInv
<1> QED BY <1>1, InitInv, NextInv, PTL DEF LaunchSpec
=============================================================================
