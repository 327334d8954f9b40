---------------------------- MODULE MCCpuExecution ----------------------------
(* Three workers; cubes of fewer, as many and more units.                  *)
EXTENDS CpuExecution
=============================================================================
