--------------------------- MODULE ClientProfiling ---------------------------
(***************************************************************************)
(* The profiling lock of ComputeClient, what threads do under it, and the  *)
(* TimestampProfiler of the server.                                        *)
(*                                                                         *)
(* profile and memory_static_allocation take the lock for the stream (the  *)
(* thread) unless it has it, call the server, run a function that may use  *)
(* the client again, call the server and release. Every other operation    *)
(* first waits until no other thread has the lock (profile_guard) and then *)
(* goes to the server: two steps, since the lock is only read. read_async  *)
(* checks when it is called and, over the mpsc channel, goes to the server *)
(* when its future is first polled: a thread can have any number of reads  *)
(* on the way. Only create_tensor and empty_tensor do not wait.            *)
(***************************************************************************)
EXTENDS Integers, Sequences, FiniteSets

CONSTANTS
  Threads, None,
  MaxOps,      \* bound: operations and sections of a thread
  MaxDepth     \* bound: nesting of sections

ASSUME ProfilingAssumption ==
  None \notin Threads /\ MaxOps \in Nat /\ MaxDepth \in Nat

VARIABLES
  current,   \* current_profiling
  pc,        \* what each thread does
  frames,    \* the sections each thread is in, outermost first
  ops,       \* operations begun by each thread
  unsent,    \* futures of read_async of each thread that were not polled yet
  mode,      \* allocation mode of the server
  profiles,  \* TimestampProfiler::state: token |-> state
  sent,      \* history: guarded operations of a thread under another thread's lock
  early,     \* history: those on the way when the present lock was taken
  failed,    \* history: tokens during whose life an execution failed
  told,      \* history: per thread, whether its last profile failed and what it was told
  reset      \* history: threads that ended a static section inside another one

calls == <<ops, unsent>>
locals == <<pc, frames, calls>>
slipped == <<sent, early>>
history == <<slipped, failed, told, reset>>
vars == <<current, locals, mode, profiles, history>>

Kinds == {"profile", "static"}
Tokens == 1 .. MaxDepth
Frame == [kind : Kinds, lock : BOOLEAN, token : Tokens \cup {None}]

Init ==
  /\ current = None
  /\ pc = [t \in Threads |-> "run"]
  /\ frames = [t \in Threads |-> <<>>]
  /\ ops = [t \in Threads |-> 0]
  /\ mode = "auto" /\ profiles = <<>>
  /\ unsent = [t \in Threads |-> 0]
  /\ sent = [t \in Threads |-> 0] /\ early = [t \in Threads |-> 0]
  /\ failed = {} /\ reset = {}
  /\ told = [t \in Threads |-> [failed |-> FALSE, error |-> FALSE]]

Goto(t, place) == pc' = [pc EXCEPT ![t] = place]

Innermost(t) == frames[t][Len(frames[t])]
Outer(t) == SubSeq(frames[t], 1, Len(frames[t]) - 1)

-----------------------------------------------------------------------------
(* A thread calls the client: a section, or any other operation.           *)
Call(t, what) ==
  /\ pc[t] = "run" /\ ops[t] < MaxOps
  /\ what \in Kinds => Len(frames[t]) < MaxDepth
  /\ ops' = [ops EXCEPT ![t] = @ + 1]
  /\ Goto(t, what)
  /\ UNCHANGED <<current, frames, unsent, mode, profiles, history>>

Mine(t) == current \in {None, t}

(* profile_guard returns.                                                  *)
Passes_Always(t) == TRUE
Passes(t) == Mine(t)

Guard(t) ==
  /\ pc[t] = "guard" /\ Passes(t)
  /\ Goto(t, "send")
  /\ UNCHANGED <<current, frames, calls, mode, profiles, history>>

(* read_async returns a future; later it is polled and the read goes to    *)
(* the server, or it is dropped. The future is Send: any thread may poll.  *)
Hold(t) ==
  /\ pc[t] = "send"
  /\ unsent' = [unsent EXCEPT ![t] = @ + 1]
  /\ Goto(t, "run")
  /\ UNCHANGED <<current, frames, ops, mode, profiles, history>>

Poll(t) ==
  /\ unsent[t] > 0
  /\ unsent' = [unsent EXCEPT ![t] = @ - 1]
  /\ sent' = IF Mine(t) THEN sent ELSE [sent EXCEPT ![t] = @ + 1]
  /\ UNCHANGED <<current, pc, frames, ops, mode, profiles, early, failed, told, reset>>

Drop(t) ==
  /\ unsent[t] > 0
  /\ unsent' = [unsent EXCEPT ![t] = @ - 1]
  /\ UNCHANGED <<current, pc, frames, ops, mode, profiles, history>>

(* The operations of a thread that passed the guard and were not sent.     *)
OnTheWay(t) == unsent[t] + (IF pc[t] = "send" THEN 1 ELSE 0)

(* profile_acquire returns; only the outermost section releases.           *)
Releases_Always(t) == TRUE
Releases(t) == current = None

Acquire(t) ==
  /\ pc[t] \in Kinds /\ Mine(t)
  /\ current' = t
  /\ frames' = [frames EXCEPT ![t] = Append(@, [kind |-> pc[t], lock |-> Releases(t), token |-> None])]
  /\ Goto(t, "enter")
  /\ IF current = None
       THEN sent' = [u \in Threads |-> 0] /\ early' = [u \in Threads |-> OnTheWay(u)]
       ELSE UNCHANGED slipped
  /\ UNCHANGED <<calls, mode, profiles, failed, told, reset>>

(* TimestampProfiler::start takes a token that is not in use.              *)
NewToken(states) == CHOOSE k \in 1 .. Cardinality(DOMAIN states) + 1 : k \notin DOMAIN states

(* start_profile, or the change to static mode, at the server.             *)
EnterProfile(t) ==
  /\ pc[t] = "enter" /\ Innermost(t).kind = "profile"
  /\ LET token == NewToken(profiles)
     IN /\ profiles' = [k \in DOMAIN profiles \cup {token} |->
                          IF k = token THEN "start" ELSE profiles[k]]
        /\ frames' = [frames EXCEPT ![t][Len(frames[t])].token = token]
        /\ failed' = failed \ {token}
  /\ Goto(t, "run")
  /\ UNCHANGED <<current, calls, mode, slipped, told, reset>>

EnterStatic(t) ==
  /\ pc[t] = "enter" /\ Innermost(t).kind = "static"
  /\ mode' = "static"
  /\ Goto(t, "run")
  /\ UNCHANGED <<current, frames, calls, profiles, history>>

(* TimestampProfiler::error, for every profile that is active.             *)
Errored(states) == [k \in DOMAIN states |-> "error"]

(* The operation at the server; create_tensor does not wait for the guard. *)
(* An execution may fail while a profile is active; without one the server *)
(* panics, which is left out.                                              *)
Execute(t) ==
  /\ \/ pc[t] = "send"
     \/ pc[t] = "tensor"
  /\ \E fails \in BOOLEAN :
       /\ fails => profiles # <<>>
       /\ profiles' = IF fails THEN Errored(profiles) ELSE profiles
       /\ failed' = IF fails THEN failed \cup DOMAIN profiles ELSE failed
  /\ sent' = IF Mine(t) \/ pc[t] = "tensor" THEN sent ELSE [sent EXCEPT ![t] = @ + 1]
  /\ Goto(t, "run")
  /\ UNCHANGED <<current, frames, calls, mode, early, told, reset>>

(* TimestampProfiler::stop                                                 *)
Stopped(states, token) == [k \in DOMAIN states \ {token} |-> states[k]]

(* The function returns: end_profile, or the change back to auto mode.     *)
LeaveProfile(t) ==
  /\ pc[t] = "run" /\ frames[t] # <<>> /\ Innermost(t).kind = "profile"
  /\ LET token == Innermost(t).token
     IN /\ profiles' = Stopped(profiles, token)
        /\ told' = [told EXCEPT ![t] = [failed |-> token \in failed,
                                        error |-> profiles[token] = "error"]]
  /\ Goto(t, "leave")
  /\ UNCHANGED <<current, frames, calls, mode, slipped, failed, reset>>

InStatic(stack) == \E i \in DOMAIN stack : stack[i].kind = "static"

AfterSection == "auto"

LeaveStatic(t) ==
  /\ pc[t] = "run" /\ frames[t] # <<>> /\ Innermost(t).kind = "static"
  /\ mode' = AfterSection
  /\ reset' = IF InStatic(Outer(t)) THEN reset \cup {t} ELSE reset \ {t}
  /\ Goto(t, "leave")
  /\ UNCHANGED <<current, frames, calls, profiles, slipped, failed, told>>

Release_Never(t) == current
Release(t) == IF Innermost(t).lock THEN None ELSE current

(* profile_release                                                         *)
Released(t) ==
  /\ pc[t] = "leave"
  /\ current' = Release(t)
  /\ frames' = [frames EXCEPT ![t] = Outer(t)]
  /\ Goto(t, "run")
  /\ UNCHANGED <<calls, mode, profiles, history>>

(* A panic unwinds past the end of every section the thread is in.         *)
Panic(t) ==
  /\ pc[t] = "run" /\ frames[t] # <<>>
  /\ frames' = [frames EXCEPT ![t] = <<>>]
  /\ Goto(t, "dead")
  /\ UNCHANGED <<current, calls, mode, profiles, history>>

Step(t) ==
  \/ Guard(t) \/ Hold(t) \/ Execute(t) \/ Acquire(t) \/ EnterProfile(t) \/ EnterStatic(t)
  \/ LeaveProfile(t) \/ LeaveStatic(t) \/ Released(t)

Next ==
  \E t \in Threads :
    Step(t) \/ Poll(t) \/ Drop(t) \/ Panic(t) \/ \E what \in Kinds \cup {"guard", "tensor"} : Call(t, what)

Spec == Init /\ [][Next]_vars

(* A thread goes on; it need not make another call or poll a future.       *)
FairSpec == Spec /\ \A t \in Threads : WF_vars(Step(t))

-----------------------------------------------------------------------------
(* Properties                                                              *)

(* Every variable has its type, and ended profiles leave no state behind:  *)
(* there are never more tokens than nested sections.                       *)
TypeOK ==
  /\ current \in Threads \cup {None}
  /\ pc \in [Threads -> Kinds \cup {"run", "guard", "tensor", "send", "enter", "leave", "dead"}]
  /\ frames \in [Threads -> Seq(Frame)]
  /\ \A t \in Threads : Len(frames[t]) <= MaxDepth /\ (pc[t] \in Kinds => Len(frames[t]) < MaxDepth)
  /\ ops \in [Threads -> 0 .. MaxOps] /\ mode \in {"auto", "static"}
  /\ DOMAIN profiles \subseteq Tokens /\ profiles \in [DOMAIN profiles -> {"start", "error"}]
  /\ failed \subseteq Tokens
  /\ unsent \in [Threads -> Nat] /\ sent \in [Threads -> Nat] /\ early \in [Threads -> Nat]
  /\ reset \subseteq Threads
  /\ told \in [Threads -> [failed : BOOLEAN, error : BOOLEAN]]

(* Sections of two threads never overlap, from acquire to release.         *)
SectionsExclusive == \A t, u \in Threads : frames[t] # <<>> /\ frames[u] # <<>> => t = u

(* The thread in a section has the lock, through its outermost section     *)
(* alone, so that a release never finds the lock empty or of another       *)
(* thread, where the code panics. A thread that panicked keeps it.         *)
LockMatches ==
  \A t \in Threads :
    /\ frames[t] # <<>> => current = t /\ \A i \in DOMAIN frames[t] : frames[t][i].lock <=> i = 1
    /\ pc[t] \in {"enter", "leave"} => frames[t] # <<>>
    /\ pc[t] = "dead" => frames[t] = <<>>
    /\ current = t => frames[t] # <<>> \/ pc[t] = "dead"

(* The sections of a kind that a thread has entered and not left at the    *)
(* server.                                                                 *)
Open(t, kind) ==
  {i \in DOMAIN frames[t] :
     frames[t][i].kind = kind /\ ~(i = Len(frames[t]) /\ pc[t] \in {"enter", "leave"})}

(* The profiles of the server are those of the open sections, each with a  *)
(* token of its own.                                                       *)
ProfilesOpen ==
  /\ current = None => profiles = <<>>
  /\ \A t \in Threads : frames[t] # <<>> =>
       /\ \A i \in Open(t, "profile") : frames[t][i].token \in DOMAIN profiles \cap (1 .. i)
       /\ \A i, j \in Open(t, "profile") : frames[t][i].token = frames[t][j].token => i = j
       /\ \A k \in DOMAIN profiles : \E i \in Open(t, "profile") : frames[t][i].token = k

(* The server is in static mode in static sections, unless one nested in   *)
(* another ended and left auto mode behind.                                *)
ModeOpen ==
  /\ current = None => mode = "auto"
  /\ \A t \in Threads : frames[t] # <<>> =>
       /\ mode = "static" => Open(t, "static") # {}
       /\ Open(t, "static") # {} => mode = "static" \/ t \in reset

(* The guard is checked before the operation is sent, so guarded           *)
(* operations of other threads can reach the server in a section, as many  *)
(* as a thread has reads on the way. But they are only those that passed   *)
(* the guard before the section began: what a thread sent during it and    *)
(* what it can still send is no more than what was on the way then.        *)
IntrudersWereEarly ==
  \A t \in Threads : ~Mine(t) => sent[t] + OnTheWay(t) <= early[t]

(* end_profile returns an error exactly if an execution failed during the  *)
(* profile, whether it is nested or not.                                   *)
ErrorsReported ==
  /\ \A t \in Threads : told[t].failed <=> told[t].error
  /\ \A k \in DOMAIN profiles : profiles[k] = "error" <=> k \in failed

(* Outside of sections the server is in auto mode and no profile is left.  *)
ServerRestored ==
  (\A t \in Threads : frames[t] = <<>> /\ pc[t] # "dead") => mode = "auto" /\ profiles = <<>>

(* The function of a static section finds the server in static mode, also  *)
(* after profiles inside it and beside sections of other threads, unless a *)
(* static section nested in it ended and left auto mode behind.            *)
StaticInSection ==
  \A t \in Threads \ reset :
    InStatic(frames[t]) /\ pc[t] \in {"run", "send", "tensor", "guard"} => mode = "static"

(* The mode of the server follows the sections: static inside a static     *)
(* section, auto and without profiles once all have ended.                 *)
ModeFollows == ServerRestored /\ StaticInSection

(* The lock, the sections and the server agree: one thread at a time is in *)
(* sections, it has the lock through the outermost of them, also after a   *)
(* function panicked in one, the server's mode and profiles are those of   *)
(* its sections, and profiles report the failures they saw. As it stands   *)
(* this is inductive.                                                      *)
SectionsInv ==
  /\ TypeOK /\ SectionsExclusive /\ LockMatches /\ ProfilesOpen /\ ModeOpen
  /\ ErrorsReported /\ ModeFollows

(* Waiting ends, unless a function panicked in a section: every guarded    *)
(* operation called is sent, every section entered.                        *)
CallsServed ==
  \A t \in Threads :
    pc[t] \in Kinds \cup {"guard"} ~>
      pc[t] \notin Kinds \cup {"guard"} \/ \E u \in Threads : pc[u] = "dead"
=============================================================================
