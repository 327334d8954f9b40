---------------------------- MODULE MatmulTiling ----------------------------
(***************************************************************************)
(* The sizes and places the matmul kernels compute with: how a stage of an *)
(* input is cut into tiles, which planes load and which compute, and where *)
(* a tile stands in stage memory (crates/cubecl-matmul/src/components:     *)
(* tiling_scheme, resource, global/specialization, stage/memory).          *)
(*                                                                         *)
(* A configuration c is a record:                                          *)
(*   kernel   "simple", "barrier", "tma", "double" or "ordered"            *)
(*   level    "plane" or "unit": what computes one partition               *)
(*   lockstep whether a plane runs its tile operations together            *)
(*   tile, part, parts   elements of a tile, tiles of a partition,         *)
(*                       partitions of a stage, each [m, n, k]             *)
(*   layout, order, load, spec   per input: matrix layout, tiling order,   *)
(*                       loading strategy, and whether load-only planes    *)
(*                       load it                                           *)
(*   planeDim, strict, buffering, shape [m, n, k], span [m, n] (stages of  *)
(*                       a global partition)                               *)
(*   loadOnly number of load-only planes, PlaneRoleConfig of the rest      *)
(* A line of memory holds one element (the line size is 1).                *)
(***************************************************************************)
EXTENDS Integers, Sequences, FiniteSets, FiniteSetsExt

Sides == {"lhs", "rhs"}

RowDim == [lhs |-> "m", rhs |-> "k"]

ColDim == [lhs |-> "k", rhs |-> "n"]

CeilDiv(a, b) == (a + b - 1) \div b

-----------------------------------------------------------------------------
(* TilingScheme *)

TilesInStage(c, d) == c.parts[d] * c.part[d]

ElementsInStage(c, d) == TilesInStage(c, d) * c.tile[d]

TileRows(c, s) == TilesInStage(c, RowDim[s])

TileCols(c, s) == TilesInStage(c, ColDim[s])

Tiles(c, s) == TileRows(c, s) * TileCols(c, s)

TileSize(c, s) == c.tile[RowDim[s]] * c.tile[ColDim[s]]

StageSize(c, s) == Tiles(c, s) * TileSize(c, s)

(* Buffers of the stage memory of an input. *)
NumStages(c, s) ==
  CASE c.kernel = "double"  -> 2
    [] c.kernel = "ordered" -> IF s = "lhs" THEN 1 ELSE 2
    [] OTHER                -> 1

(* The bounds a kernel checks: the setup drops the check of a dimension the *)
(* stages divide, two stages at a time in k when stages are doubled.        *)
SingleStageBounds(c, d) == c.shape[d] % ElementsInStage(c, d) # 0

MultiStageBounds(c, d) ==
  c.shape[d] % ((IF d = "k" THEN 2 ELSE 1) * ElementsInStage(c, d)) # 0

CheckBounds(c, d) ==
  IF c.kernel \in {"double", "ordered"} THEN MultiStageBounds(c, d) ELSE SingleStageBounds(c, d)

-----------------------------------------------------------------------------
(* Roles of the planes *)

(* Units must come in whole planes (as_plane_resources). *)
WholePlanes(c) == c.level = "unit" => (c.parts.m * c.parts.n) % c.planeDim = 0

(* ComputeResources::num_planes of one resource per partition. *)
MainFlow(c) ==
  (c.parts.m * c.parts.n) \div (IF c.level = "plane" THEN 1 ELSE c.planeDim)

(* The largest number of planes a strategy spreads its tasks over evenly. *)
MaxRoundPlaneCount(c, s) ==
  IF c.load[s] \in {"tilewise", "ordered"} THEN Tiles(c, s)
  ELSE CeilDiv(StageSize(c, s), c.planeDim)

Distance(a, b) == IF a > b THEN a - b ELSE b - a

(* The divisor of v closest to the reference, the larger one on a tie. *)
BestDivisor(v, reference) ==
  LET divisors == {1} \cup {d \in 1..v : v % d = 0}
  IN  CHOOSE d \in divisors : \A e \in divisors :
        \/ Distance(reference, d) < Distance(reference, e)
        \/ Distance(reference, d) = Distance(reference, e) /\ d >= e

Gcd(a, b) == Max({d \in 1..a : a % d = 0 /\ b % d = 0})

(* LoadSpecializationConfig::has_specialization *)
Specialized(c) == c.spec.lhs \/ c.spec.rhs

(* to_plane_roles: the number of load-only planes. *)
ToPlaneRoles(c) ==
  LET ideal == CASE c.spec.lhs /\ c.spec.rhs ->
                      Gcd(MaxRoundPlaneCount(c, "lhs"), MaxRoundPlaneCount(c, "rhs"))
                 [] c.spec.lhs /\ ~c.spec.rhs -> MaxRoundPlaneCount(c, "lhs")
                 [] OTHER -> MaxRoundPlaneCount(c, "rhs")
  IN  BestDivisor(ideal, MainFlow(c))

(* PlaneRoleConfig::new *)
PlaneRoleConfig(c) == IF Specialized(c) THEN ToPlaneRoles(c) ELSE 0

LoadOnly(c) == c.loadOnly

(* cube_dim: a row of units per plane. *)
Planes(c) == 0..(MainFlow(c) + LoadOnly(c) - 1)

Units(c) == Planes(c) \X (0..(c.planeDim - 1))

UnitPos(c, u) == u[1] * c.planeDim + u[2]

(* RoleRule *)
IsLoadOnly(c, p) == p < LoadOnly(c)

ComputeIndex(c, p) == p - LoadOnly(c)

LoadIndex(c, s, p) == IF c.spec[s] THEN p ELSE p - LoadOnly(c)

NumLoadingPlanes(c, s) == IF c.spec[s] THEN LoadOnly(c) ELSE MainFlow(c)

(* Whether the planes of the role of p load input s. *)
Loads(c, s, p) == IsLoadOnly(c, p) <=> c.spec[s]

LoadingUnits(c, s) == NumLoadingPlanes(c, s) * c.planeDim

UnitId(c, s, u) == LoadIndex(c, s, u[1]) * c.planeDim + u[2]

-----------------------------------------------------------------------------
(* Tiling orders: the place of a tile among the tiles of the memory *)

RowMajorToRowCol(nth, rows, cols) == <<nth \div cols, nth % cols>>

RowMajorToNthTile(row, col, rows, cols) == row * cols + col

ColMajorToRowCol(nth, rows, cols) == <<nth % rows, nth \div rows>>

ColMajorToNthTile(row, col, rows, cols) == col * rows + row

(* Groups of rows, one for each main flow plane, each in column order. *)
OrderedToRowCol(c, nth, rows, cols) ==
  LET groupRows == rows \div MainFlow(c)
      perGroup  == groupRows * cols
      inGroup   == nth % perGroup
  IN  <<(nth \div perGroup) * groupRows + (inGroup % groupRows), inGroup \div groupRows>>

OrderedToNthTile(c, row, col, rows, cols) ==
  LET groupRows == rows \div MainFlow(c)
  IN  (row \div groupRows) * (groupRows * cols) + (col * groupRows + (row % groupRows))

(* The columns of a row-major matrix, the rows of a column-major one. *)
TmaToRowCol(c, s, nth, rows, cols) ==
  IF c.layout[s] = "row" THEN ColMajorToRowCol(nth, rows, cols)
  ELSE RowMajorToRowCol(nth, rows, cols)

TmaToNthTile(c, s, row, col, rows, cols) ==
  IF c.layout[s] = "row" THEN ColMajorToNthTile(row, col, rows, cols)
  ELSE RowMajorToNthTile(row, col, rows, cols)

ToRowCol(c, s, nth, rows, cols) ==
  CASE c.order[s] = "row" -> RowMajorToRowCol(nth, rows, cols)
    [] c.order[s] = "col" -> ColMajorToRowCol(nth, rows, cols)
    [] c.order[s] = "tma" -> TmaToRowCol(c, s, nth, rows, cols)
    [] OTHER              -> OrderedToRowCol(c, nth, rows, cols)

ToNthTile(c, s, row, col, rows, cols) ==
  CASE c.order[s] = "row" -> RowMajorToNthTile(row, col, rows, cols)
    [] c.order[s] = "col" -> ColMajorToNthTile(row, col, rows, cols)
    [] c.order[s] = "tma" -> TmaToNthTile(c, s, row, col, rows, cols)
    [] OTHER              -> OrderedToNthTile(c, row, col, rows, cols)

(* to_x_y: the nth tile of one stage. *)
ToXY(c, s, nth) == ToRowCol(c, s, nth, TileRows(c, s), TileCols(c, s))

(* The tiles of all the buffers: they stand side by side along k. *)
TotalRows(c, s) == TileRows(c, s) * (IF s = "rhs" THEN NumStages(c, s) ELSE 1)

TotalCols(c, s) == TileCols(c, s) * (IF s = "lhs" THEN NumStages(c, s) ELSE 1)

(* The coordinates of a tile of buffer b among the tiles of all the buffers. *)
InBuffer(c, s, tile, b) ==
  IF s = "lhs" THEN <<tile[1], b * TileCols(c, s) + tile[2]>>
  ELSE <<b * TileRows(c, s) + tile[1], tile[2]>>

-----------------------------------------------------------------------------
(* Tiles in stage memory: the place of each element (i, j) of a tile *)

TileAt(c, s, start, stride) ==
  [i \in 0..(c.tile[RowDim[s]] - 1), j \in 0..(c.tile[ColDim[s]] - 1) |->
     start + (IF c.layout[s] = "row" THEN i * stride + j ELSE j * stride + i)]

(* ContiguousTilingLayout::get_tile *)
ContiguousGetTile(c, s, row, col, b) ==
  LET at == InBuffer(c, s, <<row, col>>, b)
  IN  TileAt(c, s,
        TileSize(c, s) * ToNthTile(c, s, at[1], at[2], TotalRows(c, s), TotalCols(c, s)),
        c.tile[IF c.layout[s] = "row" THEN ColDim[s] ELSE RowDim[s]])

(* StridedTilingLayout::get_tile *)
StridedGetTile(c, s, row, col) ==
  LET tx == c.tile[RowDim[s]]
      ty == c.tile[ColDim[s]]
  IN  IF c.layout[s] = "row"
      THEN LET stride == TileCols(c, s) * ty
           IN  TileAt(c, s, row * tx * stride + col * ty, stride)
      ELSE LET stride == TileRows(c, s) * tx
           IN  TileAt(c, s, row * tx + col * ty * stride, stride)

Strided(c, s) == c.load[s] \in {"strided", "cooperative", "sliceLength", "unitCount"}

(* read_tile of the readers: a full one reads the only buffer there is. *)
ReadTile(c, s, row, col, b) ==
  IF Strided(c, s) THEN StridedGetTile(c, s, row, col) ELSE ContiguousGetTile(c, s, row, col, b)

(* clear_all: the places one unit clears. *)
ClearAll(c, u, s) ==
  {i \in 0..(NumStages(c, s) * StageSize(c, s) - 1) :
     i % LoadingUnits(c, s) = UnitId(c, s, u)}
=============================================================================
