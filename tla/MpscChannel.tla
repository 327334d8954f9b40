----------------------------- MODULE MpscChannel -----------------------------
(***************************************************************************)
(* MpscComputeChannel: clients send messages over an unbounded queue to    *)
(* the task that owns the server and applies them one after the other.     *)
(*                                                                         *)
(* There are three kinds of operation. A "call" (create, empty, ...) blocks*)
(* until its response; a "cast" (execute, flush, memory_cleanup,           *)
(* allocation_mode) returns once its message is sent; a "future" (read,    *)
(* read_tensor, sync) does nothing until it is polled, then sends, and may *)
(* be dropped at any time. A client has one future at a time and goes on   *)
(* with other operations meanwhile.                                        *)
(***************************************************************************)
EXTENDS Naturals, Sequences, Functions

CONSTANTS
  Clients,
  MaxMessages,   \* operations of a client
  NoMessage

MessageKinds == {"call", "cast", "future"}
Messages == [by : Clients, nr : 1 .. MaxMessages, kind : MessageKinds]

ASSUME ChannelAssumption == MaxMessages \in Nat /\ NoMessage \notin Messages

VARIABLES
  queue,     \* messages sent and not received
  serving,   \* the message the server awaits, or NoMessage
  alive,     \* whether the server's task runs
  issued,    \* the kinds of the operations of each client
  waits,     \* "idle", "waiting" for a response, or "panicked"
  future,    \* of each client: its state and the number of its operation
  applied,   \* history: the operations in the order the server applied them
  dropped    \* history: whether a future was dropped

channelVars == <<queue, serving, alive, issued, waits, future, applied, dropped>>
clientVars == <<issued, waits, future, dropped>>

Message(c, n, k) == [by |-> c, nr |-> n, kind |-> k]
NoFuture == [state |-> "none", nr |-> 0]

InitChannel ==
  /\ queue = <<>> /\ serving = NoMessage /\ alive = TRUE /\ applied = <<>> /\ dropped = FALSE
  /\ issued = [c \in Clients |-> <<>>] /\ waits = [c \in Clients |-> "idle"]
  /\ future = [c \in Clients |-> NoFuture]

-----------------------------------------------------------------------------
(* Clients                                                                 *)

(* Sending unwraps the error that a dead server's channel gives.           *)
Enqueued_Front(m) == <<m>> \o queue
Enqueued(m) == Append(queue, m)

Send(m, after) ==
  /\ queue' = IF alive THEN Enqueued(m) ELSE queue
  /\ waits' = [waits EXCEPT ![m.by] = IF alive THEN after ELSE "panicked"]
  /\ UNCHANGED <<serving, alive, applied, dropped>>

Issue(c, kind) ==
  /\ waits[c] = "idle" /\ Len(issued[c]) < MaxMessages
  /\ issued' = [issued EXCEPT ![c] = Append(@, kind)]

AfterCall == "waiting"

CallServer(c) ==
  /\ Issue(c, "call")
  /\ Send(Message(c, Len(issued[c]) + 1, "call"), AfterCall)
  /\ UNCHANGED future

Cast(c) ==
  /\ Issue(c, "cast")
  /\ Send(Message(c, Len(issued[c]) + 1, "cast"), "idle")
  /\ UNCHANGED future

NewFuture(c) ==
  /\ Issue(c, "future") /\ future[c].state = "none"
  /\ future' = [future EXCEPT ![c] = [state |-> "created", nr |-> Len(issued[c]) + 1]]
  /\ UNCHANGED <<queue, serving, alive, waits, applied, dropped>>

(* The first poll                                                          *)
PollFuture(c) ==
  /\ waits[c] = "idle" /\ future[c].state = "created"
  /\ Send(Message(c, future[c].nr, "future"), "idle")
  /\ future' = [future EXCEPT ![c] = IF alive THEN [@ EXCEPT !.state = "sent"] ELSE NoFuture]
  /\ UNCHANGED issued

DropFuture(c) ==
  /\ waits[c] = "idle" /\ future[c].state \in {"created", "sent"}
  /\ future' = [future EXCEPT ![c] = NoFuture]
  /\ dropped' = TRUE
  /\ UNCHANGED <<queue, serving, alive, issued, waits, applied>>

(* handle_response of an error: the callback is gone with the server.      *)
Unanswerable(m) == ~alive /\ m # serving /\ m \notin Range(queue)

Disconnected(c) ==
  /\ \/ waits[c] = "waiting" /\ Unanswerable(Message(c, Len(issued[c]), "call"))
     \/ waits[c] = "idle" /\ future[c].state = "sent" /\ Unanswerable(Message(c, future[c].nr, "future"))
  /\ waits' = [waits EXCEPT ![c] = "panicked"]
  /\ UNCHANGED <<queue, serving, alive, issued, future, applied, dropped>>

-----------------------------------------------------------------------------
(* The loop of the server                                                  *)
(* A message is received and the server's method called. That of a cast    *)
(* is all there is to do.                                                  *)
Serve ==
  /\ alive /\ serving = NoMessage /\ queue # <<>>
  /\ queue' = Tail(queue)
  /\ applied' = Append(applied, Head(queue))
  /\ serving' = IF Head(queue).kind = "cast" THEN NoMessage ELSE Head(queue)
  /\ UNCHANGED <<alive, clientVars>>

(* Whether somebody still holds the receiver of the response               *)
Awaited(m) ==
  IF m.kind = "call" THEN waits[m.by] = "waiting" /\ Len(issued[m.by]) = m.nr
  ELSE future[m.by] = [state |-> "sent", nr |-> m.nr]

(* The response reaches the client, which goes on.                         *)
Respond_CallsOnly ==
  /\ serving # NoMessage /\ Awaited(serving) /\ serving.kind = "call"
  /\ serving' = NoMessage
  /\ waits' = [waits EXCEPT ![serving.by] = "idle"]
  /\ UNCHANGED <<queue, alive, issued, future, applied, dropped>>

Respond ==
  /\ serving # NoMessage /\ Awaited(serving)
  /\ serving' = NoMessage
  /\ IF serving.kind = "call"
     THEN waits' = [waits EXCEPT ![serving.by] = "idle"] /\ UNCHANGED future
     ELSE future' = [future EXCEPT ![serving.by] = NoFuture] /\ UNCHANGED waits
  /\ UNCHANGED <<queue, alive, issued, applied, dropped>>

(* Nobody waits: the unwrap panics and ends the task. What happens to the  *)
(* messages in the queue is up to the channel's implementation.            *)
ServerPanics ==
  /\ serving # NoMessage /\ ~Awaited(serving)
  /\ serving' = NoMessage /\ alive' = FALSE
  /\ queue' \in {queue, <<>>}
  /\ UNCHANGED <<clientVars, applied>>

Server == Serve \/ Respond \/ ServerPanics

NextOfChannel ==
  \/ \E c \in Clients :
       CallServer(c) \/ Cast(c) \/ NewFuture(c) \/ PollFuture(c) \/ DropFuture(c) \/ Disconnected(c)
  \/ Server

ChannelSpec == InitChannel /\ [][NextOfChannel]_channelVars

(* The server's task runs, and its methods return.                         *)
FairChannelSpec == ChannelSpec /\ WF_channelVars(Server)

-----------------------------------------------------------------------------
(* Properties                                                              *)

(* Every variable has its type.                                            *)
ChannelTypeOK ==
  /\ queue \in Seq(Messages) /\ serving \in Messages \cup {NoMessage}
  /\ alive \in BOOLEAN /\ dropped \in BOOLEAN
  /\ issued \in [Clients -> Seq(MessageKinds)]
  /\ \A c \in Clients : Len(issued[c]) <= MaxMessages
  /\ waits \in [Clients -> {"idle", "waiting", "panicked"}]
  /\ future \in [Clients -> [state : {"none", "created", "sent"}, nr : 0 .. MaxMessages]]
  /\ applied \in Seq(Messages)

(* The messages sent, in the order in which they are or will be applied.   *)
Log == applied \o queue
IsMessage(m, c, n) == m.by = c /\ m.nr = n

(* Program order: whatever the kinds of operations and however clients     *)
(* interleave, an operation is applied after every call and cast that its  *)
(* client issued before it. A launch sees the buffers created before it,   *)
(* and a read sees the launches before it though they were not waited for. *)
ProgramOrder ==
  \A j \in DOMAIN Log :
    LET c == Log[j].by
    IN \A n \in 1 .. Log[j].nr - 1 :
         issued[c][n] # "future" => \E i \in 1 .. j - 1 : IsMessage(Log[i], c, n)

(* Nothing is sent or applied twice.                                       *)
SentOnce ==
  \A i, j \in DOMAIN Log : Log[i].by = Log[j].by /\ Log[i].nr = Log[j].nr => i = j

(* What is sent was issued, and while the server's task runs every call    *)
(* and cast that was issued is sent.                                       *)
SentIsIssued ==
  /\ \A i \in DOMAIN Log :
       /\ Log[i].nr \in DOMAIN issued[Log[i].by]
       /\ Log[i].kind = issued[Log[i].by][Log[i].nr]
  /\ alive => \A c \in Clients : \A n \in DOMAIN issued[c] :
       issued[c][n] # "future" => \E i \in DOMAIN Log : IsMessage(Log[i], c, n)

(* A future stands for an operation that was issued, and is not sent       *)
(* before it is polled.                                                    *)
FuturesAreIssued ==
  \A c \in Clients : future[c].state # "none" =>
    /\ future[c].nr \in DOMAIN issued[c] /\ issued[c][future[c].nr] = "future"
    /\ future[c].state = "created" =>
         \A i \in DOMAIN Log : ~IsMessage(Log[i], c, future[c].nr)

(* The server's task ends only because a future was dropped: no sequence   *)
(* of calls alone makes it answer somebody who does not wait.              *)
DiesOnlyOfDrop ==
  ~dropped => /\ alive
              /\ \A m \in Range(queue) : m.kind # "cast" => Awaited(m)
              /\ serving # NoMessage => Awaited(serving)

(* A client that goes on after a call knows it is applied, and with it     *)
(* all the casts before it. What is answered was applied.                  *)
ReturnedIsApplied ==
  /\ serving # NoMessage => serving \in Range(applied) /\ serving.kind # "cast"
  /\ \A c \in Clients : waits[c] # "panicked" =>
       \A n \in DOMAIN issued[c] :
         issued[c][n] = "call" /\ (waits[c] = "waiting" => n < Len(issued[c]))
           => Message(c, n, "call") \in Range(applied)

(* The server applies the operations of every client once, in program      *)
(* order and before it answers them, and goes on to do so until a future   *)
(* is dropped. As it stands this is inductive.                             *)
ChannelInv ==
  /\ ChannelTypeOK /\ ProgramOrder /\ SentOnce /\ SentIsIssued /\ FuturesAreIssued
  /\ ReturnedIsApplied /\ DiesOnlyOfDrop

(* Every call returns, and every future that was polled resolves, as long  *)
(* as no future is dropped.                                                *)
Answered ==
  \A c \in Clients :
    /\ waits[c] = "waiting" ~> waits[c] = "idle" \/ dropped
    /\ future[c].state = "sent" ~> future[c].state = "none" \/ dropped
=============================================================================
