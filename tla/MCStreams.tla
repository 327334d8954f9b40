------------------------------ MODULE MCStreams ------------------------------
(* The two kinds of server side by side: behaviours of the stream of the    *)
(* wgpu server, and behaviours of the stream of a CUDA or HIP server.       *)
EXTENDS MCGpuServer, MCWgpuStream

VARIABLE level  \* the server of this behaviour; the other one stays where it starts

MCInit ==
  /\ level \in {"wgpu", "gpu"} /\ Init /\ InitGpu
  /\ level = "wgpu" => backend = "cuda"

MCNext ==
  /\ \/ level = "wgpu" /\ Next /\ UNCHANGED gpuVars
     \/ level = "gpu" /\ NextOfGpu /\ UNCHANGED vars
  /\ UNCHANGED level

MCSpec == MCInit /\ [][MCNext]_<<level, vars, gpuVars>>
=============================================================================
