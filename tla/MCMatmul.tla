------------------------------ MODULE MCMatmul ------------------------------
(* The two levels of a matmul side by side: behaviours of one cube running a *)
(* kernel, and behaviours of a launch sharing the output out between cubes.  *)
EXTENDS MatmulKernel, MatmulCubes

VARIABLE level  \* the level of this behaviour; the other one stays where it starts

-----------------------------------------------------------------------------
(* Small kernels: every kernel, loading strategy, layout, tiling order and   *)
(* plane role, with even and odd numbers of stages, and sizes that the       *)
(* stages divide and that they do not.                                       *)

Both(a) == [lhs |-> a, rhs |-> a]

Pair(a, b) == [lhs |-> a, rhs |-> b]

Size(m, n, k) == [m |-> m, n |-> n, k |-> k]

(* Two planes of one unit, each computing a row of two one-element tiles. *)
Base ==
  [kernel |-> "simple", level |-> "plane", lockstep |-> TRUE,
   tile |-> Size(1, 1, 1), part |-> Size(1, 2, 1), parts |-> Size(2, 1, 1),
   layout |-> Pair("row", "col"), order |-> Both("row"),
   load |-> Both("cyclic"), spec |-> Both(FALSE), planeDim |-> 1, strict |-> FALSE,
   buffering |-> "single", shape |-> Size(2, 2, 3), span |-> [m |-> 1, n |-> 1],
   loadOnly |-> 0]

WithRoles(c) == [c EXCEPT !.loadOnly = PlaneRoleConfig(c)]

Layouts == {Pair("row", "row"), Pair("row", "col"), Pair("col", "row"), Pair("col", "col")}

(* Two global matmuls one after the other. *)
TwoColumns(c) == [c EXCEPT !.span.n = 2, !.shape.n = 2 * c.shape.n]

(* Every full-stage strategy, layout and order, on tiles of two elements. *)
SimpleKernels ==
  {[Base EXCEPT !.tile = Size(1, 1, 2), !.part = Size(1, 2, 2), !.load = Both(load),
                !.layout = layout, !.order = tiles, !.shape = shape] :
     load \in {"cyclic", "tilewise", "strided"}, layout \in Layouts, tiles \in {Pair("row", "col"), Pair("col", "row")},
     shape \in {Size(2, 1, 3), Size(1, 2, 5)}}
  \cup {[Base EXCEPT !.level = "unit", !.planeDim = 2, !.part = Size(1, 1, 2),
                     !.lockstep = FALSE, !.shape = Size(3, 1, 3), !.span.m = 2],
        [Base EXCEPT !.tile = Size(1, 2, 1), !.planeDim = 2, !.buffering = "double"],
        [Base EXCEPT !.load = Pair("ordered", "tilewise"), !.order = Pair("ordered", "col"),
                     !.part = Size(2, 2, 2), !.shape = Size(4, 2, 3)]}

(* The asynchronous strategies. *)
BarrierKernels ==
  {[Base EXCEPT !.kernel = "barrier", !.tile = Size(1, 1, 2), !.part = Size(1, 1, 1),
                !.parts = Size(1, 2, 1), !.load = Both(load), !.layout = layout,
                !.shape = shape] :
     load \in {"asyncCyclic", "sliceLength", "unitCount", "cooperative"},
     layout \in Layouts, shape \in {Size(1, 1, 3), Size(2, 2, 4), Size(3, 2, 1)}}
  \cup {[Base EXCEPT !.kernel = "tma", !.load = Both("tma"), !.order = Both("tma"),
                     !.layout = layout, !.tile = Size(2, 1, 2), !.part = Size(1, 2, 2),
                     !.shape = Size(3, 1, 5)] : layout \in Layouts}

(* Double buffering: whole-plane roles, odd and even numbers of stages. *)
DoubleKernels ==
  {[Base EXCEPT !.kernel = "double", !.load = load, !.order = tiles, !.spec = spec,
                !.layout = layout, !.buffering = buffering, !.shape = shape] :
     load \in {Both("cyclic"), Pair("tilewise", "cyclic"), Both("tilewise")},
     tiles \in {Pair("row", "col"), Pair("col", "row")}, layout \in {Pair("row", "row")},
     spec \in {Both(FALSE), Both(TRUE), Pair(TRUE, FALSE), Pair(FALSE, TRUE)},
     buffering \in {"single", "double"}, shape \in {Size(2, 2, 3), Size(2, 1, 2)}}
  \cup {TwoColumns([Base EXCEPT !.kernel = "double", !.part = Size(1, 2, 2),
                                !.parts = Size(rows, 1, 1), !.spec = Both(rows = 1),
                                !.shape = Size(rows, 2, 6)]) : rows \in {1, 2}}

(* Double buffering of the right input only, with a plane reloading its     *)
(* rows of the left one once they are all in fragments.                     *)
OrderedKernels ==
  {[Base EXCEPT !.kernel = "ordered", !.load = Pair("ordered", load),
                !.order = Pair("ordered", "col"), !.spec = Pair(FALSE, special), !.part = part,
                !.buffering = buffering, !.shape = Size(2 * part.m, 2, 3)] :
     load \in {"cyclic", "tilewise"}, special \in BOOLEAN,
     part \in {Size(1, 2, 1), Size(2, 1, 1), Size(1, 2, 2)}, buffering \in {"single", "double"}}
  \cup {TwoColumns([Base EXCEPT !.kernel = "ordered", !.load = Pair("ordered", "cyclic"),
                                !.order = Pair("ordered", "row"), !.part = Size(2, 1, 1),
                                !.shape = Size(4, 1, 3)]),
        [Base EXCEPT !.kernel = "ordered", !.load = Pair("ordered", "cyclic"),
                     !.order = Pair("ordered", "row"), !.lockstep = FALSE, !.planeDim = 2,
                     !.parts = Size(1, 1, 1), !.part = Size(2, 1, 1), !.shape = Size(2, 1, 3)]}

(* Three tiles to a plane and two to a row of a stage: the second plane     *)
(* starts in the middle of a row.                                           *)
TilewiseKernels ==
  {[Base EXCEPT !.kernel = "double", !.load = Pair("tilewise", "cyclic"), !.part = Size(3, 1, 2),
                !.parts = Size(1, 2, 1), !.shape = Size(3, 2, 4)]}

Kernels ==
  {c \in {WithRoles(k) : k \in SimpleKernels \cup BarrierKernels \cup DoubleKernels
                                \cup OrderedKernels} : Valid(c)}

-----------------------------------------------------------------------------
(* Launches: every plan and order, on devices that hold the plan, that force *)
(* another grid, and that are too small.                                     *)

Fixed(o) == [try |-> FALSE, to |-> o]

Try(o) == [try |-> TRUE, to |-> o]

Orders ==
  {Fixed(o) : o \in {<<"row", 1>>, <<"col", 1>>, <<"swizzleRow", 2>>, <<"swizzleCol", 2>>,
                     <<"swizzleCol", 3>>}}
  \cup {Try(o) : o \in {<<"swizzleRow", 1>>, <<"swizzleRow", 3>>, <<"swizzleCol", 2>>}}

(* Exact, full, and half as many again. *)
Usages == {<<0, 1>>, <<Word - 1, 1>>, <<1, 2>>}

Plans ==
  {[kind |-> k] : k \in {"problem", "flattened", "spread"}}
  \cup {[kind |-> "sm", cubesFirst |-> first, sms |-> sms, usage |-> usage] :
          first \in BOOLEAN, sms \in {4, 6}, usage \in Usages}

Devices == {<<4, 3, 2>>, <<16, 5, 4>>, <<Word - 1, 1, 1>>}

Problems ==
  {[m |-> m, n |-> n, lhs |-> b[1], rhs |-> b[2], stage |-> [m |-> 2, n |-> 1], span |-> span] :
     m \in {3, 6}, n \in {3, 4},
     b \in {<< <<1, 1>>, <<1, 1>> >>, << <<2, 1>>, <<1, 3>> >>},
     span \in {[m |-> 1, n |-> 1, batch |-> 1], [m |-> 2, n |-> 1, batch |-> 2]}}

SmallLaunches ==
  {[m |-> p.m, n |-> p.n, lhs |-> p.lhs, rhs |-> p.rhs, stage |-> p.stage, span |-> p.span,
    order |-> o, plan |-> k, max |-> d] : p \in Problems, o \in Orders, k \in Plans, d \in Devices}

OneLaunch == {CHOOSE l \in SmallLaunches : TRUE}

-----------------------------------------------------------------------------
(* What stands still: a small kernel, and a launch. *)
Work(c) == NumLoops(c) * TileMatmulsIn(c)

AnyConfig == CHOOSE c \in Configs : \A d \in Configs : Work(c) <= Work(d)

AnyLaunch == CHOOSE l \in Launches : TRUE

MCInit ==
  /\ \/ level = "kernel" /\ config \in Configs /\ launch = AnyLaunch
     \/ level = "cubes" /\ config = AnyConfig /\ launch \in Launches
  /\ Start /\ StartCubes

MCNext ==
  /\ \/ level = "kernel" /\ Next /\ UNCHANGED cubeVars
     \/ level = "cubes" /\ NextCubes /\ UNCHANGED vars
  /\ UNCHANGED level

MCSpec == MCInit /\ [][MCNext]_<<level, vars, cubeVars>>
=============================================================================
