---------------------------- MODULE MatmulCubes -----------------------------
(***************************************************************************)
(* How a matmul is shared out between cubes: the launcher chooses the order *)
(* of the cubes and the shape of the grid within the limits of the device,  *)
(* and each cube finds the part of the output it owes                       *)
(* (crates/cubecl-matmul/src/components/batch: hypercube, partition,        *)
(* entry_point; kernels/layered/selector/select_kernel.rs).                 *)
(*                                                                         *)
(* A launch is a record:                                                   *)
(*   m, n, lhs, rhs   rows, columns, and the two batch axes of each input  *)
(*   stage, span      elements of a stage [m, n], stages of the global     *)
(*                    partition of a cube [m, n, batch]                    *)
(*   order            [try, to]: a fixed order, or one to fall back from;  *)
(*                    an order is <<"row" | "col" | "swizzleRow" |         *)
(*                    "swizzleCol", step length>>                          *)
(*   plan             [kind] with kind "problem", "flattened" or "spread", *)
(*                    or "sm" with cubesFirst, sms and the ratio usage     *)
(*   max              the largest grid of the device <<x, y, z>>           *)
(* Numbers are u32 in a release build: they wrap at Word.                  *)
(***************************************************************************)
EXTENDS MatmulTiling

CONSTANTS
  Launches,  \* the launches tried
  Word       \* stands for 2^32

VARIABLES
  launch,    \* the launch
  phase,     \* "select", "setup", "launch", "run", "rejected", "panicked"
  order,     \* the order of the cubes
  planned,   \* the plan the kernel is compiled for, and whether the grid
             \* may hold more cubes than needed
  plan,      \* the number of cubes along m, n and batch, and the grid
  position,  \* cubes started so far
  work       \* how often each global matmul was executed

cubeVars == <<launch, phase, order, planned, plan, position, work>>

U32(n) == n % Word

Product(t) == t[1] * t[2] * t[3]

NoPlan == <<>>

-----------------------------------------------------------------------------
(* The order of the cubes *)

(* CubeSpan: the elements and batches of a global partition. *)
Span(l) == <<l.span.m * l.stage.m, l.span.n * l.stage.n, l.span.batch>>

(* num_batches: the output has the larger of two batch axes. *)
OutBatches(l) == [axis \in 1..2 |-> Max({l.lhs[axis], l.rhs[axis]})]

Batches(l) == OutBatches(l)[1] * OutBatches(l)[2]

(* The cubes needed along m, n and batch. *)
CubesOf(l) ==
  <<CeilDiv(l.m, Span(l)[1]), CeilDiv(l.n, Span(l)[2]), CeilDiv(Batches(l), Span(l)[3])>>

Canonicalize(o) ==
  CASE o = <<"swizzleCol", 1>> -> <<"col", 1>>
    [] o = <<"swizzleRow", 1>> -> <<"row", 1>>
    [] OTHER -> o

(* GlobalOrderSelection::into_order.  SwizzleCol counts cubes along n and   *)
(* then answers with a row order, as SwizzleRow does.                       *)
IntoOrder(l) ==
  LET cubes == CubesOf(l)[IF l.order.to[1] = "swizzleRow" THEN 1 ELSE 2]
  IN  Canonicalize(IF ~l.order.try THEN l.order.to
                   ELSE IF cubes % l.order.to[2] # 0 THEN <<"row", 1>>
                   ELSE <<"swizzleRow", l.order.to[2]>>)

(* HypercubeConfig::validate *)
ValidOrder(l, o) ==
  /\ o[1] = "swizzleRow" => CubesOf(l)[1] % o[2] = 0
  /\ o[1] = "swizzleCol" => CubesOf(l)[2] % o[2] = 0

Swizzle_Mutation(index, steps, length) ==
  LET strip    == index \div (steps * length)
      inStrip  == index % (steps * length)
      step     == inStrip \div length
      inStep   == inStrip % length
  IN  <<IF strip % 2 = 1 THEN steps - step ELSE step,
        (IF step % 2 = 1 THEN length - inStep - 1 ELSE inStep) + length * strip>>

(* Strips of steps, alternately forward and backward. *)
Swizzle(index, steps, length) ==
  LET strip    == index \div (steps * length)
      inStrip  == index % (steps * length)
      step     == inStrip \div length
      inStep   == inStrip % length
  IN  <<IF strip % 2 = 1 THEN steps - step - 1 ELSE step,
        (IF step % 2 = 1 THEN length - inStep - 1 ELSE inStep) + length * strip>>

-----------------------------------------------------------------------------
(* The grid *)

(* SmAllocation::allocate: the most processors, among the divisors of their *)
(* number, that leave no more than the allowed slack.                       *)
Allocate(p, total) ==
  LET slack == CeilDiv(Min({p.sms * p.usage[1], Word - 1}), p.usage[2])
      fits  == {d \in 1..p.sms : p.sms % d = 0 /\ CeilDiv(total, d) * d - total <= slack}
      used  == IF fits = {} THEN p.sms ELSE Max(fits)
  IN  <<used, CeilDiv(total, used)>>

Halvings(n) == {n \div 2^i : i \in {i \in 0..30 : 2^i <= n}}

(* spread_cube_count_plan: among the depths and heights got by halving the  *)
(* limits, the least volume, then the deepest, then the highest grid.       *)
Spread(total, max) ==
  LET grids == {g \in {<<CeilDiv(CeilDiv(total, z), y), y, z>> :
                         y \in Halvings(max[2]), z \in Halvings(max[3])} : g[1] <= max[1]}
      Volume(g) == U32(Product(g))
      Better(g, h) ==
        \/ Volume(g) < Volume(h)
        \/ Volume(g) = Volume(h) /\ g[3] > h[3]
        \/ Volume(g) = Volume(h) /\ g[3] = h[3] /\ g[2] >= h[2]
  IN  IF grids = {} THEN NoPlan ELSE CHOOSE g \in grids : \A h \in grids : Better(g, h)

(* resolve *)
Grid(l, p) ==
  LET cubes == CubesOf(l)
      total == U32(Product(cubes))
      sm    == Allocate(p, total)
  IN  CASE p.kind = "problem"   -> cubes
        [] p.kind = "flattened" -> <<total, 1, 1>>
        [] p.kind = "sm"        -> IF p.cubesFirst THEN <<sm[2], sm[1], 1>> ELSE <<sm[1], sm[2], 1>>
        [] OTHER                -> Spread(total, l.max)

Fits_Mutation(l, p) ==
  CASE p.kind = "problem" -> Grid(l, p)[1] <= l.max[1]
    [] p.kind = "spread"  -> FALSE
    [] OTHER              -> Grid(l, p)[1] < l.max[1]

(* Whether from_selection keeps the plan that was asked for. *)
Fits(l, p) ==
  CASE p.kind = "problem"   -> \A i \in 1..3 : Grid(l, p)[i] <= l.max[i]
    [] p.kind = "flattened" -> Grid(l, p)[1] < l.max[1]
    [] p.kind = "sm"        -> Grid(l, p)[1] < l.max[1] /\ Grid(l, p)[2] < l.max[2]
    [] OTHER                -> FALSE

(* can_yield_extra_cubes *)
Extra(l, p) ==
  p.kind \in {"sm", "spread"} /\ U32(Product(Grid(l, p))) # U32(Product(CubesOf(l)))

-----------------------------------------------------------------------------
(* The work of a cube *)

(* CUBE_POS_X, CUBE_POS_Y and CUBE_POS_Z of a cube. *)
CubeAt(pos) ==
  <<pos % plan.grid[1], (pos \div plan.grid[1]) % plan.grid[2],
    pos \div (plan.grid[1] * plan.grid[2])>>

(* absolute_index_to_m_n_batch *)
MNBatch(index) ==
  LET m == plan.cubes[1]
      n == plan.cubes[2]
      inMatrix == index % (m * n)
      mn == CASE order[1] = "row" -> <<inMatrix \div n, inMatrix % n>>
              [] order[1] = "col" -> <<inMatrix % m, inMatrix \div m>>
              [] order[1] = "swizzleRow" ->
                   LET s == Swizzle(inMatrix, n, order[2]) IN <<s[2], s[1]>>
              [] OTHER -> Swizzle(inMatrix, m, order[2])
  IN  <<mn[1], mn[2], index \div (m * n)>>

(* cube_pos_to_tensor_pos; where the grid has one layer the index on the    *)
(* layer is CUBE_POS.                                                       *)
TensorPos(pos) == IF planned.plan.kind = "problem" THEN CubeAt(pos) ELSE MNBatch(pos)

(* The matrix of an input that execute_global_matmul reads for the nth one  *)
(* of the output: each axis wraps around the axis of the input.             *)
InputBatch(l, input, nth) ==
  LET out == OutBatches(l)
  IN  ((nth \div out[2]) % input[1]) * input[2] + (nth % input[2])

(* execute_global_matmul: a global matmul is its first row and column, the  *)
(* matrix of the output it writes and those of the inputs it reads.         *)
GlobalMatmulAt(l, row, col, nth) ==
  [row |-> row, col |-> col, out |-> nth,
   lhs |-> InputBatch(l, l.lhs, nth), rhs |-> InputBatch(l, l.rhs, nth)]

(* PartitionRangeDim: the starts of the steps of a cube along one dimension. *)
PartitionRangeDim(pos, step, num) == {pos * num * step + i * step : i \in 0..(num - 1)}

(* The global matmuls of a partition, whether by rows or by columns.        *)
Partition(l, at) ==
  {GlobalMatmulAt(l, row, col, nth) :
     row \in PartitionRangeDim(at[1], l.stage.m, l.span.m),
     col \in PartitionRangeDim(at[2], l.stage.n, l.span.n),
     nth \in PartitionRangeDim(at[3], 1, l.span.batch)}

-----------------------------------------------------------------------------
(* The machine *)

StartCubes ==
  /\ phase = "select"
  /\ order = <<"row", 1>>
  /\ planned = NoPlan
  /\ plan = NoPlan
  /\ position = 0
  /\ work = <<>>

InitCubes == launch \in Launches /\ StartCubes

(* HypercubeSelectionBuilder::build *)
Build ==
  /\ phase = "select"
  /\ order' = IntoOrder(launch)
  /\ phase' = "setup"
  /\ UNCHANGED <<launch, planned, plan, position, work>>

(* PartitionedBatchMatmulFamily::setup: from_selection and validate. *)
Setup ==
  /\ phase = "setup"
  /\ LET p == IF Fits(launch, launch.plan) THEN launch.plan ELSE [kind |-> "spread"]
     IN  IF Grid(launch, p) = NoPlan
         THEN phase' = "panicked" /\ UNCHANGED planned
         ELSE /\ planned' = [plan |-> p, extra |-> Extra(launch, p)]
              /\ phase' = IF ValidOrder(launch, order) THEN "launch" ELSE "rejected"
  /\ UNCHANGED <<launch, order, plan, position, work>>

(* launch_kernel_concrete: from_config computes the plan again. *)
Launch ==
  /\ phase = "launch"
  /\ plan' = [cubes |-> CubesOf(launch), grid |-> Grid(launch, planned.plan)]
  /\ phase' = "run"
  /\ UNCHANGED <<launch, order, planned, position, work>>

Launched == phase = "run"

(* The entry point of the kernel.  The cubes share nothing, so they are     *)
(* started in the order of their position.                                  *)
Cube ==
  /\ Launched /\ position < Product(plan.grid)
  /\ position' = position + 1
  /\ LET terminates == planned.extra /\ U32(position) >= U32(Product(plan.cubes))
         mine == IF terminates THEN {} ELSE Partition(launch, TensorPos(U32(position)))
     IN  work' = [g \in DOMAIN work \cup mine |->
                    (IF g \in DOMAIN work THEN work[g] ELSE 0) + (IF g \in mine THEN 1 ELSE 0)]
  /\ UNCHANGED <<launch, phase, order, planned, plan>>

Finished ==
  \/ phase \in {"rejected", "panicked"}
  \/ Launched /\ position = Product(plan.grid)

NextCubes == Build \/ Setup \/ Launch \/ Cube

SpecCubes == InitCubes /\ [][NextCubes]_cubeVars

-----------------------------------------------------------------------------
(* Properties *)

(* The grid that is launched is one the device accepts, it holds a cube for *)
(* every part of the output, and the kernel was compiled to stop surplus    *)
(* cubes exactly when there are some, although the plan is computed twice   *)
(* and the one asked for may have been replaced by spread_cube_count_plan.  *)
(* That function gives up only when no grid of the device is large enough,  *)
(* and an order that the builder chose among row orders is never refused.   *)
GridInv ==
  /\ Launched =>
       /\ \A i \in 1..3 : plan.grid[i] \in 1..launch.max[i]
       /\ Product(plan.grid) >= Product(plan.cubes)
       /\ planned.extra <=> Product(plan.grid) > Product(plan.cubes)
  /\ phase = "panicked" => Product(CubesOf(launch)) > Product(launch.max)
  /\ phase = "rejected" => ~(launch.order.try /\ launch.order.to[1] = "swizzleRow")

(* The matrix of an input that a matrix of the output is the product of:    *)
(* an axis of length one is broadcast.                                      *)
Broadcast(l, input, nth) ==
  LET out == OutBatches(l)
      axes == <<nth \div out[2], nth % out[2]>>
      own  == [a \in 1..2 |-> IF input[a] = 1 THEN 0 ELSE axes[a]]
  IN  own[1] * input[2] + own[2]

(* The global matmuls the output needs. *)
Owed(l) ==
  {[row |-> r * l.stage.m, col |-> c * l.stage.n, out |-> b,
    lhs |-> Broadcast(l, l.lhs, b), rhs |-> Broadcast(l, l.rhs, b)] :
     r \in 0..(CeilDiv(l.m, l.stage.m) - 1), c \in 0..(CeilDiv(l.n, l.stage.n) - 1),
     b \in 0..(Batches(l) - 1)}

(* Whatever the grid and the order of the cubes (plain, swizzled in strips, *)
(* truncated by the end of the grid), no part of the output is computed     *)
(* twice, and when the cubes are done every part has been computed from the *)
(* matrices of the inputs that broadcasting gives it.  A cube works outside *)
(* the output only in a partition that the output does not fill.            *)
WorkInv ==
  LET owed == Owed(launch)
  IN  /\ \A g \in DOMAIN work :
           /\ work[g] = 1
           /\ \/ g \in owed
              \/ g.row >= launch.m /\ launch.m % Span(launch)[1] # 0
              \/ g.col >= launch.n /\ launch.n % Span(launch)[2] # 0
              \/ g.out >= Batches(launch) /\ Batches(launch) % launch.span.batch # 0
      /\ Launched /\ Finished => owed \subseteq DOMAIN work
=============================================================================
