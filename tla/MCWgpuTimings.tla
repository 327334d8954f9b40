---------------------------- MODULE MCWgpuTimings ----------------------------
(* Two profiles and a read in flight.                                      *)
EXTENDS WgpuTimings

CONSTANTS t1, t2, r1
=============================================================================
