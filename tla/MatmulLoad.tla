----------------------------- MODULE MatmulLoad -----------------------------
(***************************************************************************)
(* The loading strategies of the matmul kernels: what each requires of a   *)
(* configuration (Check), into how many tasks it cuts the job of a unit    *)
(* (Tasks), and what a task moves from the view of an input to its stage   *)
(* memory (Moves) (crates/cubecl-matmul/src/components: global/load,       *)
(* global/global_memory, global/single_stage, global/multi_stage).         *)
(***************************************************************************)
EXTENDS MatmulTiling

-----------------------------------------------------------------------------
(* Coordinates of the view.  A move <<place, x, y>> stores element (x, y)   *)
(* of the view at a place of the stage memory.                              *)

Move(place, view) == <<place, view[1], view[2]>>

(* load_coalesced_in_tile: the element at a position of a tile. *)
InTile(c, s, tile, position) ==
  LET tx == c.tile[RowDim[s]]
      ty == c.tile[ColDim[s]]
      e  == IF c.layout[s] = "row" THEN <<position \div ty, position % ty>>
            ELSE <<position % tx, position \div tx>>
  IN  <<tile[1] * tx + e[1], tile[2] * ty + e[2]>>

(* load_coalesced_in_stage *)
InStage(c, s, position) ==
  LET columns == ElementsInStage(c, ColDim[s])
      rows    == ElementsInStage(c, RowDim[s])
  IN  IF c.layout[s] = "row" THEN <<position \div columns, position % columns>>
      ELSE <<position % rows, position \div rows>>

(* The contiguous slices of a stage and of a tile, and their length. *)
NumSlices(c, s) ==
  ElementsInStage(c, IF c.layout[s] = "row" THEN RowDim[s] ELSE ColDim[s])

SliceLength(c, s) ==
  ElementsInStage(c, IF c.layout[s] = "row" THEN ColDim[s] ELSE RowDim[s])

TileSlices(c, s) == c.tile[IF c.layout[s] = "row" THEN RowDim[s] ELSE ColDim[s]]

TileSliceLength(c, s) == c.tile[IF c.layout[s] = "row" THEN ColDim[s] ELSE RowDim[s]]

(* load_window: how much of a slice that starts at a view position lies     *)
(* inside the tensor, the view being at offset `at'.                        *)
LoadWindow(c, s, at, view, length) ==
  LET high == IF c.layout[s] = "row" THEN 1 ELSE 2
      wide == 3 - high
      DimOf(i) == IF i = 1 THEN RowDim[s] ELSE ColDim[s]
      lines == IF CheckBounds(c, DimOf(high)) /\ at[high] + view[high] >= c.shape[DimOf(high)]
               THEN 0 ELSE length
      left  == c.shape[DimOf(wide)] - (at[wide] + view[wide])
  IN  IF CheckBounds(c, DimOf(wide)) THEN Min({IF left > 0 THEN left ELSE 0, lines}) ELSE lines

(* The elements from..to-1 of a window that is copied to a place. *)
WindowMoves(c, s, place, view, from, to) ==
  {Move(place + i, IF c.layout[s] = "row" THEN <<view[1], view[2] + i>>
                   ELSE <<view[1] + i, view[2]>>) : i \in from..(to - 1)}

(* load_window_in_stage into nth_slice: the nth slice of the stage, whole   *)
(* or one segment of it, clamped to its window.                             *)
SliceMoves(c, s, at, nth, from, to) ==
  LET view == IF c.layout[s] = "row" THEN <<nth, 0>> ELSE <<0, nth>>
      size == LoadWindow(c, s, at, view, SliceLength(c, s))
  IN  WindowMoves(c, s, nth * SliceLength(c, s), view, Min({from, size}), Min({to, size}))

-----------------------------------------------------------------------------
(* Full stages, loaded by the units themselves *)

SyncFullCyclicCheck(c, s) == c.strict => StageSize(c, s) % LoadingUnits(c, s) = 0

SyncFullCyclicTasks(c, s) == CeilDiv(StageSize(c, s), LoadingUnits(c, s))

SyncFullCyclicMoves(c, s, u, task) ==
  LET position == UnitId(c, s, u) + task * LoadingUnits(c, s)
      balanced == StageSize(c, s) % LoadingUnits(c, s) = 0
      tile     == ToXY(c, s, position \div TileSize(c, s))
  IN  IF ~c.strict /\ ~balanced /\ position >= StageSize(c, s) THEN {}
      ELSE {Move(position, InTile(c, s, tile, position % TileSize(c, s)))}

SyncFullStridedCheck(c, s) == StageSize(c, s) % LoadingUnits(c, s) = 0

SyncFullStridedTasks(c, s) == StageSize(c, s) \div LoadingUnits(c, s)

SyncFullStridedMoves(c, s, u, task) ==
  LET position == UnitId(c, s, u) + task * LoadingUnits(c, s)
  IN  {Move(position, InStage(c, s, position))}

TilesPerPlane(c, s) == Tiles(c, s) \div NumLoadingPlanes(c, s)

SyncFullTilewiseCheck(c, s) ==
  /\ Tiles(c, s) % NumLoadingPlanes(c, s) = 0
  /\ (TileSize(c, s) * TilesPerPlane(c, s)) % c.planeDim = 0

SyncFullTilewiseTasks(c, s) == (TileSize(c, s) * TilesPerPlane(c, s)) \div c.planeDim

SyncFullTilewiseMoves(c, s, u, task) ==
  LET position == task * c.planeDim + u[2]
      nth  == LoadIndex(c, s, u[1]) * TilesPerPlane(c, s) + (position \div TileSize(c, s))
      line == position % TileSize(c, s)
  IN  {Move(nth * TileSize(c, s) + line, InTile(c, s, ToXY(c, s, nth), line))}

(* The ordered strategy runs the tilewise job on the rows of each plane. *)
SyncFullOrderedCheck(c, s) ==
  /\ s = "lhs"
  /\ SyncFullTilewiseCheck(c, s)
  /\ TilesPerPlane(c, s) = (TileRows(c, s) \div NumLoadingPlanes(c, s)) * TileCols(c, s)

SyncFullOrderedTasks(c, s) == (TileSize(c, s) * TilesPerPlane(c, s)) \div c.planeDim

-----------------------------------------------------------------------------
(* One of two stages, loaded by the units themselves *)

SyncPartialCyclicTasks(c, s) == CeilDiv(StageSize(c, s), LoadingUnits(c, s))

SyncPartialCyclicCheck(c, s) ==
  c.strict => LoadingUnits(c, s) * SyncPartialCyclicTasks(c, s) - 1 <= StageSize(c, s)

SyncPartialCyclicMoves(c, s, u, task, b) ==
  LET position == UnitId(c, s, u) + task * LoadingUnits(c, s)
      balanced == StageSize(c, s) % LoadingUnits(c, s) = 0
      tile     == InBuffer(c, s, ToXY(c, s, position \div TileSize(c, s)), b)
      nth      == ToNthTile(c, s, tile[1], tile[2], TotalRows(c, s), TotalCols(c, s))
      line     == position % TileSize(c, s)
  IN  IF ~c.strict /\ ~balanced /\ position >= StageSize(c, s) THEN {}
      ELSE {Move(nth * TileSize(c, s) + line, InTile(c, s, tile, line))}

SyncPartialTilewiseCheck(c, s) ==
  /\ Tiles(c, s) % NumLoadingPlanes(c, s) = 0
  /\ (TileSize(c, s) * TilesPerPlane(c, s)) % c.planeDim = 0
  /\ c.order[s] = IF s = "lhs" THEN "row" ELSE "col"

SyncPartialTilewiseTasks(c, s) == (TileSize(c, s) * TilesPerPlane(c, s)) \div c.planeDim

(* The tiles of the other stage are skipped, once for the first tile of the *)
(* plane and once for the tiles counted from there.                         *)
SyncPartialTilewiseMoves(c, s, u, task, b) ==
  LET width == IF s = "lhs" THEN TileCols(c, s) ELSE TileRows(c, s)
      Skip(nth) == (nth \div width) * NumStages(c, s) * width + (nth % width)
      position == task * c.planeDim + u[2]
      first == Skip(LoadIndex(c, s, u[1]) * TilesPerPlane(c, s)) + b * width
      nth   == first + Skip(position \div TileSize(c, s))
      tile  == ToRowCol(c, s, nth, TotalRows(c, s), TotalCols(c, s))
      line  == position % TileSize(c, s)
  IN  {Move(nth * TileSize(c, s) + line, InTile(c, s, tile, line))}

-----------------------------------------------------------------------------
(* Full stages, copied asynchronously *)

AsyncFullCyclicCheck(c, s) ==
  LET slices == c.tile[RowDim[s]] * Tiles(c, s)
  IN  slices >= LoadingUnits(c, s) => slices % LoadingUnits(c, s) = 0

AsyncFullCyclicTasks(c, s) == CeilDiv(TileSlices(c, s) * Tiles(c, s), LoadingUnits(c, s))

(* One slice of a tile. *)
AsyncFullCyclicMoves(c, s, u, task, at) ==
  LET slice == UnitId(c, s, u) + LoadingUnits(c, s) * task
      tile  == ToXY(c, s, slice \div TileSlices(c, s))
      view  == InTile(c, s, tile, (slice % TileSlices(c, s)) * TileSliceLength(c, s))
  IN  IF slice >= TileSlices(c, s) * Tiles(c, s) THEN {}
      ELSE WindowMoves(c, s, slice * TileSliceLength(c, s), view, 0,
                       LoadWindow(c, s, at, view, TileSliceLength(c, s)))

(* Every unit takes part in the copy of every slice. *)
AsyncFullCooperativeTasks(c, s) == NumSlices(c, s)

AsyncFullCooperativeMoves(c, s, task, at) == SliceMoves(c, s, at, task, 0, SliceLength(c, s))

AsyncFullMaximizeSliceLengthTasks(c, s) == CeilDiv(NumSlices(c, s), LoadingUnits(c, s))

AsyncFullMaximizeSliceLengthMoves(c, s, u, task, at) ==
  LET nth == LoadingUnits(c, s) * task + UnitPos(c, u)
  IN  IF NumSlices(c, s) % LoadingUnits(c, s) # 0 /\ nth >= NumSlices(c, s) THEN {}
      ELSE SliceMoves(c, s, at, nth, 0, SliceLength(c, s))

UnitsPerSlice(c, s) == LoadingUnits(c, s) \div NumSlices(c, s)

AsyncFullMaximizeUnitCountCheck(c, s) ==
  /\ LoadingUnits(c, s) % NumSlices(c, s) = 0
  /\ SliceLength(c, s) % UnitsPerSlice(c, s) = 0

(* The only task of a unit: its segment of the slice it shares. *)
AsyncFullMaximizeUnitCountMoves(c, s, u, at) ==
  LET segment == SliceLength(c, s) \div UnitsPerSlice(c, s)
      nth     == UnitPos(c, u) % UnitsPerSlice(c, s)
  IN  SliceMoves(c, s, at, UnitPos(c, u) \div UnitsPerSlice(c, s),
                 nth * segment, (nth + 1) * segment)

(* TmaLoader::fill_stage: unit 0 moves the whole stage, one column (row) of *)
(* tiles after the other.                                                   *)
TmaMoves(c, s, u) ==
  LET width == TileSliceLength(c, s)
      size  == NumSlices(c, s) * width
      Place(i) == LET column == i \div size
                      inside == i % size
                  IN  <<inside \div width, column * width + (inside % width)>>
  IN  IF u # <<0, 0>> THEN {}
      ELSE {Move(i, IF c.layout[s] = "row" THEN Place(i)
                    ELSE <<Place(i)[2], Place(i)[1]>>) : i \in 0..(StageSize(c, s) - 1)}

-----------------------------------------------------------------------------
(* The strategy of an input *)

Partial(c, s) == NumStages(c, s) = 2

TaskCount(c, s) ==
  CASE c.load[s] = "cyclic" ->
         IF Partial(c, s) THEN SyncPartialCyclicTasks(c, s) ELSE SyncFullCyclicTasks(c, s)
    [] c.load[s] = "tilewise" ->
         IF Partial(c, s) THEN SyncPartialTilewiseTasks(c, s) ELSE SyncFullTilewiseTasks(c, s)
    [] c.load[s] = "ordered"     -> SyncFullOrderedTasks(c, s)
    [] c.load[s] = "strided"     -> SyncFullStridedTasks(c, s)
    [] c.load[s] = "asyncCyclic" -> AsyncFullCyclicTasks(c, s)
    [] c.load[s] = "sliceLength" -> AsyncFullMaximizeSliceLengthTasks(c, s)
    [] c.load[s] = "cooperative" -> AsyncFullCooperativeTasks(c, s)
    [] OTHER                     -> 1

(* What one task of a unit moves into buffer b, with the view at `at'. *)
Moves(c, s, u, task, b, at) ==
  CASE c.load[s] = "cyclic" ->
         IF Partial(c, s) THEN SyncPartialCyclicMoves(c, s, u, task, b)
         ELSE SyncFullCyclicMoves(c, s, u, task)
    [] c.load[s] = "tilewise" ->
         IF Partial(c, s) THEN SyncPartialTilewiseMoves(c, s, u, task, b)
         ELSE SyncFullTilewiseMoves(c, s, u, task)
    [] c.load[s] = "ordered"     -> SyncFullTilewiseMoves(c, s, u, task)
    [] c.load[s] = "strided"     -> SyncFullStridedMoves(c, s, u, task)
    [] c.load[s] = "asyncCyclic" -> AsyncFullCyclicMoves(c, s, u, task, at)
    [] c.load[s] = "cooperative" -> AsyncFullCooperativeMoves(c, s, task, at)
    [] c.load[s] = "sliceLength" -> AsyncFullMaximizeSliceLengthMoves(c, s, u, task, at)
    [] c.load[s] = "unitCount"   -> AsyncFullMaximizeUnitCountMoves(c, s, u, at)
    [] OTHER                     -> TmaMoves(c, s, u)

Check(c, s) ==
  CASE c.load[s] = "cyclic" ->
         IF Partial(c, s) THEN SyncPartialCyclicCheck(c, s) ELSE SyncFullCyclicCheck(c, s)
    [] c.load[s] = "tilewise" ->
         IF Partial(c, s) THEN SyncPartialTilewiseCheck(c, s) ELSE SyncFullTilewiseCheck(c, s)
    [] c.load[s] = "ordered"     -> SyncFullOrderedCheck(c, s)
    [] c.load[s] = "strided"     -> SyncFullStridedCheck(c, s)
    [] c.load[s] = "asyncCyclic" -> AsyncFullCyclicCheck(c, s)
    [] c.load[s] = "unitCount"   -> AsyncFullMaximizeUnitCountCheck(c, s)
    [] OTHER                     -> TRUE

-----------------------------------------------------------------------------
(* What the families accept: the setup of each kernel, the validation of    *)
(* its configuration, and the validation of the stage matmul under it.      *)

SimpleSetup(c) ==
  /\ ~Specialized(c)
  /\ \A s \in Sides : c.load[s] \in {"cyclic", "tilewise", "strided", "ordered"} /\ Check(c, s)

SimpleBarrierSetup(c) ==
  /\ ~Specialized(c)
  /\ \A s \in Sides :
       c.load[s] \in {"asyncCyclic", "cooperative", "sliceLength", "unitCount"} /\ Check(c, s)

SimpleTmaSetup(c) == ~Specialized(c) /\ \A s \in Sides : c.load[s] = "tma" /\ c.order[s] = "tma"

DoubleBufferingSetup(c) == \A s \in Sides : c.load[s] \in {"cyclic", "tilewise"} /\ Check(c, s)

OrderedDoubleBufferingSetup(c) ==
  /\ c.load.lhs = "ordered" /\ c.order.lhs = "ordered" /\ Check(c, "lhs")
  /\ c.load.rhs \in {"cyclic", "tilewise"} /\ Check(c, "rhs")
  /\ c.parts.n = 1
  /\ ~c.spec.lhs

(* A double-buffered partition needs two fragments of Rhs. *)
StageSetup(c) == c.buffering = "double" => c.part.n >= 2

Valid(c) ==
  /\ WholePlanes(c)
  /\ StageSetup(c)
  /\ CASE c.kernel = "simple"  -> SimpleSetup(c)
       [] c.kernel = "barrier" -> SimpleBarrierSetup(c)
       [] c.kernel = "tma"     -> SimpleTmaSetup(c)
       [] c.kernel = "double"  -> DoubleBufferingSetup(c)
       [] OTHER                -> OrderedDoubleBufferingSetup(c)
=============================================================================
