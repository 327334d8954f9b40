------------------------------ MODULE MCClient ------------------------------
(* Small instances of the two levels of a client side by side: behaviours   *)
(* of two threads in sections, up to four calls of one of them and five in  *)
(* all, and behaviours of two clients that send operations of all kinds to  *)
(* the server, up to three of one of them and five in all.                  *)
EXTENDS ClientProfiling, MpscChannel, FiniteSetsExt

VARIABLE level  \* the level of this behaviour; the other one is at rest

MaxTotal == 5
MaxCalls == 5

SumOfCalls == FoldSet(LAMBDA t, n : n + ops'[t], 0, Threads)
SumOfLengths == FoldSet(LAMBDA c, n : n + Len(issued'[c]), 0, Clients)

MCInit == level \in {"sections", "channel"} /\ Init /\ InitChannel

MCNext ==
  /\ \/ level = "sections" /\ Next /\ SumOfCalls <= MaxCalls /\ UNCHANGED channelVars
     \/ level = "channel" /\ NextOfChannel /\ SumOfLengths <= MaxTotal /\ UNCHANGED vars
  /\ UNCHANGED level

MCSpec ==
  /\ MCInit /\ [][MCNext]_<<level, vars, channelVars>>
  /\ \A t \in Threads : WF_vars(level = "sections" /\ Step(t) /\ UNCHANGED <<level, channelVars>>)
  /\ WF_channelVars(level = "channel" /\ Server /\ UNCHANGED <<level, vars>>)
=============================================================================
