---------------------------- MODULE MatmulKernel ----------------------------
(***************************************************************************)
(* One cube running a matmul kernel of crates/cubecl-matmul: its units     *)
(* load stages of the two inputs into shared memory, read tiles of them    *)
(* into fragments, accumulate their products and write the result          *)
(* (components/global/single_stage, components/global/multi_stage,         *)
(* components/stage/matmul, components/batch/partitioned_matmul).          *)
(*                                                                         *)
(* The loops of a kernel have bounds known when it is launched, so what a  *)
(* unit runs is a straight line of operations: Kernel(c, u) unrolls it     *)
(* from the code.  The machine interleaves the units operation by          *)
(* operation between barriers.  An element of an input is its coordinates; *)
(* an accumulator is the sequence of the products added to it, so equality *)
(* with the dot product means every term once and in order of k.           *)
(***************************************************************************)
EXTENDS MatmulLoad, SequencesExt

CONSTANTS
  Configs,  \* configurations of kernels, all of them valid
  Unset,    \* a place nothing was stored in
  Zero,     \* the padding of what lies outside the tensor
  Outside   \* what an unguarded access outside the tensor reads

VARIABLES
  config,   \* the configuration of the kernel
  code,     \* operations each unit still has to do
  smem,     \* stage memory of each input
  pending,  \* asynchronous copies in flight
  frag,     \* input fragments of each unit
  acc,      \* accumulators of each unit
  out       \* values stored in each element of the output, in order

vars == <<config, code, smem, pending, frag, acc, out>>

ASSUME ConfigsValid ==
  \A c \in Configs : c.loadOnly = PlaneRoleConfig(c) /\ Valid(c) /\ c.shape.k >= 1

-----------------------------------------------------------------------------
(* The operations of a unit *)

SyncCube == [op |-> "syncCube"]

SyncPlane == [op |-> "syncPlane"]

(* arrive_and_wait on the barrier that counts the asynchronous copies. *)
Wait == [op |-> "wait"]

ZeroAccumulator == [op |-> "zero"]

Clear(s) == [op |-> "clear", side |-> s]

(* One task of a loading job, with the view of the input at `at'. *)
Load(s, task, b, at) ==
  [op |-> "load", side |-> s, task |-> task, buffer |-> b, at |-> at]

(* Reads tile (row, col) of a buffer into a fragment. *)
Fill(s, row, col, b, slot) ==
  [op |-> "fill", side |-> s, row |-> row, col |-> col, buffer |-> b, slot |-> slot]

(* Adds the product of fragments m and slot to accumulator (m, n). *)
Execute(m, n, slot) == [op |-> "execute", m |-> m, n |-> n, slot |-> slot]

(* Writes accumulator (m, n) as tile (row, col) of the view of the output. *)
WriteTile(m, n, row, col, at) ==
  [op |-> "write", m |-> m, n |-> n, row |-> row, col |-> col, at |-> at]

(* An unrolled loop. *)
ForEach(n, Body(_)) == FlattenSeq([i \in 1..n |-> Body(i - 1)])

When(condition, ops) == IF condition THEN ops ELSE <<>>

-----------------------------------------------------------------------------
(* What the kernels are made of *)

(* execute_whole_job, by the planes that load the input. *)
Job(c, u, s, b, at) ==
  When(Loads(c, s, u[1]), ForEach(TaskCount(c, s), LAMBDA t : <<Load(s, t, b, at[s])>>))

(* The partition of a plane or of a unit. *)
PlanePosition(c, u) == ComputeIndex(c, u[1])

UnitPosition(c, u) == u[2] + c.planeDim * ComputeIndex(c, u[1])

Position(c, u) == IF c.level = "plane" THEN PlanePosition(c, u) ELSE UnitPosition(c, u)

(* The first tile of the partition. *)
StartM(c, u) == c.part.m * (Position(c, u) \div c.parts.n)

StartN(c, u) == c.part.n * (Position(c, u) % c.parts.n)

FillLhs(c, u, k, b) ==
  ForEach(c.part.m, LAMBDA m : <<Fill("lhs", StartM(c, u) + m, k, b, m)>>)

FillRhs(c, u, k, n, b, slot) == <<Fill("rhs", k, StartN(c, u) + n, b, slot)>>

TileMatmulsIn(c) == c.part.m * c.part.n * c.part.k

(* The tile matmuls of one fragment of Rhs.  onTile[e] is what the listener *)
(* does after the e-th tile matmul of the stage.                            *)
TileMatmuls(c, k, n, slot, onTile) ==
  ForEach(c.part.m, LAMBDA m :
    <<Execute(m, n, slot)>> \o onTile[(k * c.part.n + n) * c.part.m + m])

ExecuteSingleBuffer(c, u, buffer, onTile) ==
  ForEach(c.part.k, LAMBDA k :
    FillLhs(c, u, k, buffer.lhs)
    \o ForEach(c.part.n, LAMBDA n :
         FillRhs(c, u, k, n, buffer.rhs, 0) \o TileMatmuls(c, k, n, 0, onTile)))

(* The next fragment of Rhs is read before the current one is used. *)
ExecuteDoubleBuffer(c, u, buffer, onTile) ==
  ForEach(c.part.k, LAMBDA k :
    FillLhs(c, u, k, buffer.lhs)
    \o FillRhs(c, u, k, 0, buffer.rhs, 0)
    \o ForEach(c.part.n - 1, LAMBDA n :
         FillRhs(c, u, k, n + 1, buffer.rhs, (n + 1) % 2) \o TileMatmuls(c, k, n, n % 2, onTile))
    \o TileMatmuls(c, k, c.part.n - 1, (c.part.n - 1) % 2, onTile))

(* PartitionMatmul::execute_with_listener *)
ExecuteStage(c, u, buffer, onTile) ==
  IF c.buffering = "single" THEN ExecuteSingleBuffer(c, u, buffer, onTile)
  ELSE ExecuteDoubleBuffer(c, u, buffer, onTile)

NoEvent(c) == [e \in 0..(TileMatmulsIn(c) - 1) |-> <<>>]

(* PartitionedStageMatmul::execute *)
ExecuteAlone(c, u, buffer) == ExecuteStage(c, u, buffer, NoEvent(c))

WriteResults(c, u, origin) ==
  ForEach(c.part.m, LAMBDA m : ForEach(c.part.n, LAMBDA n :
    <<WriteTile(m, n, StartM(c, u) + m, StartN(c, u) + n, origin)>>))

-----------------------------------------------------------------------------
(* DoubleBufferingEventListener: loads the next stage between the tile      *)
(* matmuls of the current one                                               *)

(* The tasks of the jobs the listener creates (init). *)
ListenerTasks(c, u) == [s \in Sides |-> IF Loads(c, s, u[1]) THEN TaskCount(c, s) ELSE 0]

EventLoadingMode(c, s) == IF c.kernel = "ordered" /\ s = "lhs" THEN "ordered" ELSE "relaxed"

CanStart_Mutation(c, s, e) == TRUE

(* Whether input s may be loaded at an event: an ordered input only when    *)
(* the last of its fragments have been read.                                *)
CanStart(c, s, e) ==
  EventLoadingMode(c, s) = "ordered" => e >= TileMatmulsIn(c) - c.part.m * c.part.n

(* The event at which the next task of input s is due, after `done' tasks. *)
EventCounter(c, s, tasks, done) ==
  LET all   == tasks.lhs + tasks.rhs
      start == IF TileMatmulsIn(c) > all THEN TileMatmulsIn(c) - all ELSE 0
  IN  done + start + IF s = "rhs" THEN tasks.lhs ELSE 0

ShouldExecute(c, s, tasks, done, e) ==
  EventCounter(c, s, tasks, done) = e /\ CanStart(c, s, e) /\ done < tasks[s]

(* The tasks of input s run before each event. *)
TasksRun(c, s, tasks) ==
  LET run[e \in 0..TileMatmulsIn(c)] ==
        IF e = 0 THEN 0
        ELSE run[e - 1] + IF ShouldExecute(c, s, tasks, run[e - 1], e - 1) THEN 1 ELSE 0
  IN  run

MustSyncPlane_Mutation(c) == FALSE

MustSyncPlane(c) == ~c.lockstep /\ c.kernel = "ordered"

(* The listener at the events of a stage: one task of an input when it is   *)
(* due, and at the end what is left of both jobs.                           *)
ExecuteWithListener(c, u, buffer, next, at) ==
  LET tasks == ListenerTasks(c, u)
      run   == [s \in Sides |-> TasksRun(c, s, tasks)]
      total == TileMatmulsIn(c)
      sync  == When(MustSyncPlane(c), <<SyncPlane>>)
      Task(s, t) == <<Load(s, t, next[s], at[s])>>
      OnTile(s, e) == When(run[s][e + 1] > run[s][e], sync \o Task(s, run[s][e]))
      Left(s) == tasks[s] - run[s][total]
      Finish(s) == ForEach(Left(s), LAMBDA i : Task(s, run[s][total] + i))
  IN  ExecuteStage(c, u, buffer,
                   [e \in 0..(total - 1) |-> OnTile("lhs", e) \o OnTile("rhs", e)])
      \o When(Left("lhs") + Left("rhs") > 0, sync)
      \o Finish("lhs") \o Finish("rhs")

-----------------------------------------------------------------------------
(* The kernels.  The views of the inputs stand k elements along.            *)

Views(origin, kLhs, kRhs) == [lhs |-> <<origin[1], kLhs>>, rhs |-> <<kRhs, origin[2]>>]

StageA == [lhs |-> 0, rhs |-> 0]

StageB == [lhs |-> 1, rhs |-> 1]

NumLoops(c) == CeilDiv(c.shape.k, ElementsInStage(c, "k"))

FillStages(c, u, origin, i) ==
  LET at == Views(origin, i * ElementsInStage(c, "k"), i * ElementsInStage(c, "k"))
  IN  Job(c, u, "lhs", 0, at) \o Job(c, u, "rhs", 0, at)

SimpleMatmul(c, u, origin) ==
  <<ZeroAccumulator>>
  \o ForEach(NumLoops(c), LAMBDA i :
       <<SyncCube>> \o FillStages(c, u, origin, i) \o <<SyncCube>> \o ExecuteAlone(c, u, StageA))
  \o WriteResults(c, u, origin)

(* Stands for 2^32: larger than every offset of the instances. *)
Wrap == 2^16

(* AsyncFullLoader::new clears a stage that lies partly outside the tensor; *)
(* the subtraction is on u32.                                               *)
ClearNewStage(c, origin) ==
  LET Beyond(i, d) ==
        /\ CheckBounds(c, d)
        /\ origin[i] > (c.shape[d] - ElementsInStage(c, d)) % Wrap
  IN  When(Beyond(1, "m"), <<Clear("lhs")>>) \o When(Beyond(2, "n"), <<Clear("rhs")>>)

SimpleBarrierMatmul(c, u, origin) ==
  ClearNewStage(c, origin)
  \o <<ZeroAccumulator>>
  \o ForEach(NumLoops(c), LAMBDA i :
       <<SyncCube>>
       \o When(CheckBounds(c, "k") /\ i = NumLoops(c) - 1,
               <<Clear("lhs"), Clear("rhs"), SyncCube>>)
       \o FillStages(c, u, origin, i) \o <<Wait>> \o ExecuteAlone(c, u, StageA))
  \o WriteResults(c, u, origin)

SimpleTmaMatmul(c, u, origin) ==
  <<ZeroAccumulator>>
  \o ForEach(NumLoops(c), LAMBDA i :
       <<SyncCube>> \o FillStages(c, u, origin, i) \o <<Wait>> \o ExecuteAlone(c, u, StageA))
  \o WriteResults(c, u, origin)

(* load_first: both roles load the inputs that are theirs. *)
LoadFirst(c, u, b, at) == Job(c, u, "lhs", b.lhs, at) \o Job(c, u, "rhs", b.rhs, at)

ExecuteCurrentAndLoadNext(c, u, current, next, at) ==
  IF IsLoadOnly(c, u[1])
  THEN Job(c, u, "lhs", next.lhs, at) \o Job(c, u, "rhs", next.rhs, at)
  ELSE ExecuteWithListener(c, u, current, next, at)

ExecuteLastAndWriteResults(c, u, current, origin) ==
  When(~IsLoadOnly(c, u[1]), ExecuteAlone(c, u, current) \o WriteResults(c, u, origin))

(* The stages of a double-buffered kernel, rounded up to pairs. *)
StagesToRun(c) ==
  LET needed == CeilDiv(c.shape.k, ElementsInStage(c, "k"))
  IN  needed + (needed % 2)

EndOfStage_Mutation(c, u) == When(~IsLoadOnly(c, u[1]), <<SyncCube>>)

(* Planes of both roles end a stage at the same barrier. *)
EndOfStage(c, u) == <<SyncCube>>

(* The views move by two stages in the middle of an iteration; the reader   *)
(* of stage B adds the stage between.                                       *)
DoubleBufferingMatmul(c, u, origin) ==
  LET At(i) == LET k == 2 * i * ElementsInStage(c, "k") IN Views(origin, k, k)
      loops == (StagesToRun(c) - 2) \div 2
  IN  <<ZeroAccumulator>>
      \o LoadFirst(c, u, StageA, At(0)) \o EndOfStage(c, u)
      \o ForEach(loops, LAMBDA i :
           ExecuteCurrentAndLoadNext(c, u, StageA, StageB, At(i)) \o EndOfStage(c, u)
           \o ExecuteCurrentAndLoadNext(c, u, StageB, StageA, At(i + 1)) \o EndOfStage(c, u))
      \o ExecuteCurrentAndLoadNext(c, u, StageA, StageB, At(loops)) \o EndOfStage(c, u)
      \o ExecuteLastAndWriteResults(c, u, StageB, origin)

(* Lhs has a single stage and its view moves after every load. *)
OrderedDoubleBufferingMatmul(c, u, origin) ==
  LET A == StageA
      B == [StageB EXCEPT !.lhs = 0]
      step == ElementsInStage(c, "k")
      At(i, ahead) == Views(origin, (2 * i + ahead) * step, 2 * i * step)
      loops == (StagesToRun(c) - 2) \div 2
  IN  <<ZeroAccumulator>>
      \o LoadFirst(c, u, A, At(0, 0)) \o EndOfStage(c, u)
      \o ForEach(loops, LAMBDA i :
           ExecuteCurrentAndLoadNext(c, u, A, B, At(i, 1)) \o EndOfStage(c, u)
           \o ExecuteCurrentAndLoadNext(c, u, B, A, At(i + 1, 0)) \o EndOfStage(c, u))
      \o ExecuteCurrentAndLoadNext(c, u, A, B, At(loops, 1)) \o EndOfStage(c, u)
      \o ExecuteLastAndWriteResults(c, u, B, origin)

GlobalMatmul(c, u, origin) ==
  CASE c.kernel = "simple"  -> SimpleMatmul(c, u, origin)
    [] c.kernel = "barrier" -> SimpleBarrierMatmul(c, u, origin)
    [] c.kernel = "tma"     -> SimpleTmaMatmul(c, u, origin)
    [] c.kernel = "double"  -> DoubleBufferingMatmul(c, u, origin)
    [] OTHER                -> OrderedDoubleBufferingMatmul(c, u, origin)

(* RowMajorGlobalPartitionMatmul::execute: the cube does the stages of its  *)
(* global partition one after the other, in the same shared memory.         *)
Kernel(c, u) ==
  ForEach(c.span.m, LAMBDA row : ForEach(c.span.n, LAMBDA col :
    GlobalMatmul(c, u, <<row * ElementsInStage(c, "m"), col * ElementsInStage(c, "n")>>)))

-----------------------------------------------------------------------------
(* What the operations do *)

Done(u) == code[u] = <<>>

(* The next operation of a unit. *)
Op(u) == Head(code[u])

At(u, op) == ~Done(u) /\ Op(u).op = op

(* The element a load reads: masked by the checks the kernel makes. *)
Element(c, s, x, y) ==
  LET inRows == x < c.shape[RowDim[s]]
      inCols == y < c.shape[ColDim[s]]
  IN  IF \/ CheckBounds(c, RowDim[s]) /\ ~inRows
         \/ CheckBounds(c, ColDim[s]) /\ ~inCols
         \/ c.kernel = "tma" /\ ~(inRows /\ inCols) THEN Zero
      ELSE IF inRows /\ inCols THEN <<x, y>> ELSE Outside

(* The stores <<place, element>> of one task of a unit. *)
Stores(c, u, o) ==
  {<<mv[1], Element(c, o.side, o.at[1] + mv[2], o.at[2] + mv[3])>> :
     mv \in Moves(c, o.side, u, o.task, o.buffer, o.at)}

(* The places of the stage memories the next operation of a unit writes    *)
(* and reads.                                                               *)
Writes(u) ==
  CASE At(u, "load") /\ config.kernel \notin {"barrier", "tma"} ->
         {<<Op(u).side, st[1]>> : st \in Stores(config, u, Op(u))}
    [] At(u, "clear") -> {<<Op(u).side, i>> : i \in ClearAll(config, u, Op(u).side)}
    [] OTHER -> {}

TileOf(o) == ReadTile(config, o.side, o.row, o.col, o.buffer)

Reads(u) ==
  IF At(u, "fill") THEN {<<Op(u).side, i>> : i \in Range(TileOf(Op(u)))} ELSE {}

Put(memory, stores) ==
  [i \in DOMAIN memory \cup {st[1] : st \in stores} |->
     IF \E st \in stores : st[1] = i THEN (CHOOSE st \in stores : st[1] = i)[2]
     ELSE memory[i]]

(* The products of one element of an accumulator; a zero adds nothing to a  *)
(* value that is there.                                                     *)
Products(c, lhs, rhs, i, j) ==
  LET terms == [l \in 1..c.tile.k |-> <<lhs[i, l - 1], rhs[l - 1, j]>>]
      Vanishes(t) == Zero \in Range(t) /\ Range(t) \cap {Unset, Outside} = {}
  IN  SelectSeq(terms, LAMBDA t : ~Vanishes(t))

(* The elements of a tile a unit writes. *)
PlaneWriter(c, u) == {p \in 0..(c.tile.m * c.tile.n - 1) : p % c.planeDim = u[2]}

UnitWriter(c) == 0..(c.tile.m * c.tile.n - 1)

WritesOf(c, u) == IF c.level = "plane" THEN PlaneWriter(c, u) ELSE UnitWriter(c)

(* TensorWriter::write_coalesced. *)
WrittenAt(c, o, p) ==
  <<o.at[1] + o.row * c.tile.m + (p \div c.tile.n), o.at[2] + o.col * c.tile.n + (p % c.tile.n)>>

Guarded(c, x) ==
  (CheckBounds(c, "m") => x[1] < c.shape.m) /\ (CheckBounds(c, "n") => x[2] < c.shape.n)

-----------------------------------------------------------------------------
(* The machine *)

Start ==
  /\ code = [u \in Units(config) |-> Kernel(config, u)]
  /\ smem = [s \in Sides |-> [i \in 0..(NumStages(config, s) * StageSize(config, s) - 1) |-> Unset]]
  /\ pending = {}
  /\ frag = [u \in Units(config) |->
       [lhs |-> [m \in 0..(config.part.m - 1) |-> Unset], rhs |-> [i \in 0..1 |-> Unset]]]
  /\ acc = [u \in Units(config) |-> Unset]
  /\ out = <<>>

Init == config \in Configs /\ Start

Advance(us) == code' = [u \in DOMAIN code |-> IF u \in us THEN Tail(code[u]) ELSE code[u]]

(* The units that must be at the same operation as u for it to be done: the *)
(* barriers, and the tile operations of a plane that runs in lockstep.      *)
Partners(u) ==
  LET plane == {v \in DOMAIN code : v[1] = u[1]}
  IN  CASE Op(u).op \in {"syncCube", "wait"} -> DOMAIN code
        [] Op(u).op = "syncPlane" -> plane
        [] Op(u).op \in {"fill", "execute"} /\ config.lockstep -> plane
        [] OTHER -> {u}

Ready(u) == ~Done(u) /\ \A v \in Partners(u) : At(v, Op(u).op)

DoLoad(u) ==
  /\ At(u, "load")
  /\ IF config.kernel \in {"barrier", "tma"}
     THEN /\ pending' = pending \cup {<<Op(u).side, st>> : st \in Stores(config, u, Op(u))}
          /\ UNCHANGED smem
     ELSE /\ smem' = [smem EXCEPT ![Op(u).side] = Put(@, Stores(config, u, Op(u)))]
          /\ UNCHANGED pending
  /\ Advance({u})
  /\ UNCHANGED <<config, frag, acc, out>>

DoClear(u) ==
  /\ At(u, "clear")
  /\ smem' = [smem EXCEPT ![Op(u).side] =
       Put(@, {<<i, Zero>> : i \in ClearAll(config, u, Op(u).side)})]
  /\ Advance({u})
  /\ UNCHANGED <<config, pending, frag, acc, out>>

DoZero(u) ==
  /\ At(u, "zero")
  /\ acc' = [acc EXCEPT ![u] =
       [t \in (0..(config.part.m - 1)) \X (0..(config.part.n - 1)) |->
          [x \in (0..(config.tile.m - 1)) \X (0..(config.tile.n - 1)) |-> <<>>]]]
  /\ Advance({u})
  /\ UNCHANGED <<config, smem, pending, frag, out>>

DoFill(u) ==
  /\ At(u, "fill") /\ Ready(u)
  /\ frag' = [v \in DOMAIN frag |->
       IF v \notin Partners(u) THEN frag[v]
       ELSE LET place == TileOf(Op(v))
            IN  [frag[v] EXCEPT ![Op(v).side][Op(v).slot] =
                   [x \in DOMAIN place |-> smem[Op(v).side][place[x]]]]]
  /\ Advance(Partners(u))
  /\ UNCHANGED <<config, smem, pending, acc, out>>

DoExecute(u) ==
  /\ At(u, "execute") /\ Ready(u)
  /\ acc' = [v \in DOMAIN acc |->
       IF v \notin Partners(u) THEN acc[v]
       ELSE [acc[v] EXCEPT ![<<Op(v).m, Op(v).n>>] = [x \in DOMAIN @ |->
               @[x] \o Products(config, frag[v].lhs[Op(v).m], frag[v].rhs[Op(v).slot], x[1], x[2])]]]
  /\ Advance(Partners(u))
  /\ UNCHANGED <<config, smem, pending, frag, out>>

DoWrite(u) ==
  /\ At(u, "write")
  /\ LET o == Op(u)
         written == {p \in WritesOf(config, u) : Guarded(config, WrittenAt(config, o, p))}
         places  == {WrittenAt(config, o, p) : p \in written}
         Value(x) == LET p == CHOOSE p \in written : WrittenAt(config, o, p) = x
                     IN  acc[u][<<o.m, o.n>>][<<p \div config.tile.n, p % config.tile.n>>]
     IN  out' = [x \in DOMAIN out \cup places |->
                   (IF x \in DOMAIN out THEN out[x] ELSE <<>>)
                   \o (IF x \in places THEN <<Value(x)>> ELSE <<>>)]
  /\ Advance({u})
  /\ UNCHANGED <<config, smem, pending, frag, acc>>

DoSync(u) ==
  /\ At(u, "syncCube") \/ At(u, "syncPlane")
  /\ Ready(u)
  /\ Advance(Partners(u))
  /\ UNCHANGED <<config, smem, pending, frag, acc, out>>

(* The barrier opens when every unit has arrived and the copies have        *)
(* landed.  RaceFree covers what an earlier landing could disturb.          *)
DoWait(u) ==
  /\ At(u, "wait") /\ Ready(u)
  /\ smem' = [s \in Sides |-> Put(smem[s], {c[2] : c \in {d \in pending : d[1] = s}})]
  /\ pending' = {}
  /\ Advance(Partners(u))
  /\ UNCHANGED <<config, frag, acc, out>>

AllDone == \A u \in DOMAIN code : Done(u)

Next ==
  \E u \in DOMAIN code :
    \/ DoLoad(u) \/ DoClear(u) \/ DoZero(u) \/ DoFill(u) \/ DoExecute(u) \/ DoWrite(u)
    \/ DoSync(u) \/ DoWait(u)

Spec == Init /\ [][Next]_vars

-----------------------------------------------------------------------------
(* Properties *)

(* Between two barriers the units touch the stage memories without          *)
(* conflict: whenever two units, or a unit and a copy in flight, are about  *)
(* to access the same place, neither of them writes it, and every place     *)
(* written is inside the stage memory.  It is what the sync_cube and        *)
(* sync_plane calls of the kernels, the two buffers of a stage, the start   *)
(* condition of the ordered listener and the checks of the strategies are   *)
(* for.                                                                     *)
RaceFree ==
  /\ \A s \in Sides : DOMAIN smem[s] = 0..(NumStages(config, s) * StageSize(config, s) - 1)
  /\ \A u, v \in DOMAIN code :
       u # v => Writes(u) \cap (Writes(v) \cup Reads(v)) = {}
  /\ LET copied == {<<d[1], d[2][1]>> : d \in pending}
     IN  \A u \in DOMAIN code : copied \cap (Writes(u) \cup Reads(u)) = {}

(* The output the cube owes. *)
OutputOf(c) ==
  {<<x, y>> : x \in 0..(Min({c.shape.m, c.span.m * ElementsInStage(c, "m")}) - 1),
              y \in 0..(Min({c.shape.n, c.span.n * ElementsInStage(c, "n")}) - 1)}

DotProduct(c, x) == [k \in 1..c.shape.k |-> <<<<x[1], k - 1>>, <<k - 1, x[2]>>>>]

(* Whatever the order the units run in, what a kernel stores in the output  *)
(* is, for each element, the whole dot product with every term once: no     *)
(* stage is skipped, repeated, read before it is loaded or after it is      *)
(* overwritten, the padding contributes nothing, no element outside the     *)
(* tensor is read or written, and no element is stored twice or forgotten.  *)
OutputIsProduct ==
  /\ DOMAIN out \subseteq OutputOf(config)
  /\ \A x \in DOMAIN out : out[x] = <<DotProduct(config, x)>>
  /\ AllDone => DOMAIN out = OutputOf(config)

(* Until every unit has reached the end of the kernel, some unit can go on: *)
(* load-only and main flow planes, and the lanes of a plane, meet at the    *)
(* barriers of every kernel.  An operation is done once and the code of a   *)
(* unit is finite, so with units that keep running the kernel ends.         *)
NeverStuck == AllDone \/ \E u \in DOMAIN code : Ready(u)
=============================================================================
