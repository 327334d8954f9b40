---------------------------- MODULE MCWgpuStream ----------------------------
(* Two slices of one page and one that has a page for itself.              *)
EXTENDS WgpuStream

CONSTANTS s1, s2, s3, p1, p2

MCSlices == {s1, s2, s3}
MCPageOf == [s \in MCSlices |-> IF s = s3 THEN p2 ELSE p1]
=============================================================================
