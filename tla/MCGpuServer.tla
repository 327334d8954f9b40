----------------------------- MODULE MCGpuServer -----------------------------
(* Launches with up to three arguments, tensor maps, a dynamic cube count  *)
(* and a buffer created on the way, for CUDA and for HIP.                  *)
EXTENDS GpuServer

CONSTANTS a, b, k

MCCalls ==
  {[kernel |-> k, count |-> Null, maps |-> <<>>, buffers |-> <<b>>, created |-> 1],
   [kernel |-> k, count |-> Null, maps |-> <<a>>, buffers |-> <<b, a>>, created |-> 0],
   [kernel |-> k, count |-> b, maps |-> <<>>, buffers |-> <<a>>, created |-> 1]}
=============================================================================
