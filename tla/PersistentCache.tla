-------------------------- MODULE PersistentCache --------------------------
(***************************************************************************)
(* The key-value cache of cubecl-common that several processes share: an   *)
(* append-only file (Cache, CacheFile) guarded by a lock file (FileLock).  *)
(*                                                                         *)
(* Every system call on a shared file is a step of its own. The content of *)
(* the cache file is a sequence of entries; a write that is cut short      *)
(* leaves a fragment, which also spoils the entry appended behind it for   *)
(* whoever parses both. Time is abstract: a lock file may expire at any    *)
(* time. A process that panics on an I/O error is one that is killed. The  *)
(* history variable disturbed records what the guarantees of the cache do  *)
(* not survive, so that each property says what it rests on.               *)
(***************************************************************************)
EXTENDS Integers, Sequences, FiniteSets

CONSTANTS
  Procs,       \* processes that open the cache
  Keys, Values,
  None,        \* no value, no result
  Fragment,    \* the bytes of an interrupted write
  MaxOps,      \* bound: operations of each process
  MaxFaults,   \* bound: processes killed, checks for the file failed, writes cut short
  FileExists   \* whether the cache file exists before the processes start: either, or both

ASSUME CacheAssumption ==
  /\ None \notin Values \cup Procs \cup {"ok", "err"} /\ MaxOps \in Nat /\ MaxFaults \in Nat
  /\ FileExists \subseteq BOOLEAN
  /\ Fragment \notin [key : Keys, value : Values]

VARIABLES
  exists,   \* the cache file exists
  file,     \* its content
  lock,     \* the lock file: its content and, for expiry, who created it
  pc, op, mem, cursor, result,  \* of each process
  ops, faults,
  first,    \* history: the file did not exist before
  disturbed,\* history: what went wrong
  answered  \* history: entries whose insert returned Ok

procVars == <<pc, op, mem, cursor, result>>
vars == <<exists, file, lock, pc, op, mem, cursor, result, ops, faults, first, disturbed,
          answered>>
history == <<first, disturbed, answered>>

Entry == [key : Keys, value : Values]
Load == [key |-> None, value |-> None]
Absent == [state |-> "absent", by |-> None]
Empty == [k \in Keys |-> None]

Steps == {"new", "create", "lock", "inspect", "remove", "stamp", "sync", "write", "unlock",
          "idle", "down"}

(* The process has is_lock set and is working on the file.                 *)
Holding(p) == pc[p] \in {"sync", "write", "unlock"}

Init ==
  /\ exists \in FileExists /\ first = ~exists /\ disturbed = {} /\ answered = {}
  /\ file = <<>>
  /\ lock = Absent
  /\ pc = [p \in Procs |-> "new"]
  /\ op = [p \in Procs |-> Load]
  /\ mem = [p \in Procs |-> Empty]
  /\ cursor = [p \in Procs |-> 0]
  /\ result = [p \in Procs |-> None]
  /\ ops = [p \in Procs |-> 0]
  /\ faults = 0

Go(p, step) == pc' = [pc EXCEPT ![p] = step]

-----------------------------------------------------------------------------
Disturb(what, happens) == disturbed' = IF happens THEN disturbed \cup {what} ELSE disturbed

Fault(what) == faults < MaxFaults /\ faults' = faults + 1 /\ Disturb(what, TRUE)

(* CacheFile::new looks whether the file exists, and creates it if not, or *)
(* if it cannot tell: creating truncates a file that is there.             *)
CheckFile_Always(p) ==
  /\ pc[p] = "new"
  /\ Go(p, "create")
  /\ UNCHANGED <<exists, file, lock, op, mem, cursor, result, ops, faults, history>>

CheckFile(p) ==
  /\ pc[p] = "new"
  /\ \/ Go(p, IF exists THEN "lock" ELSE "create") /\ UNCHANGED <<faults, disturbed>>
     \/ exists /\ Go(p, "create") /\ Fault("unseen")
  /\ UNCHANGED <<exists, file, lock, op, mem, cursor, result, ops, first, answered>>

CreateFile(p) ==
  /\ pc[p] = "create"
  /\ exists' = TRUE
  /\ file' = <<>>
  /\ Disturb("erased", file # <<>>)
  /\ Go(p, "lock")
  /\ UNCHANGED <<lock, op, mem, cursor, result, ops, faults, first, answered>>

-----------------------------------------------------------------------------
(* FileLock::lock. create_new succeeds for one process only; the others    *)
(* look at the content of the lock file they did not create.               *)
TryLock(p) ==
  /\ pc[p] = "lock"
  /\ IF lock.state = "absent"
     THEN lock' = [state |-> "empty", by |-> p] /\ Go(p, "stamp")
     ELSE Go(p, "inspect") /\ UNCHANGED lock
  /\ UNCHANGED <<exists, file, op, mem, cursor, result, ops, faults, history>>

(* Any other error: the process sleeps, or, having waited for longer than  *)
(* lock_max_duration, removes the lock file whatever its age.              *)
LockError(p) ==
  /\ pc[p] = "lock"
  /\ lock' = Absent
  /\ Disturb("stolen", lock # Absent)
  /\ UNCHANGED <<exists, file, procVars, ops, faults, first, answered>>

(* The creation time is written in a second step, into the file this       *)
(* process opened, which may have been unlinked since.                     *)
StampLock(p) ==
  /\ pc[p] = "stamp"
  /\ lock' = IF lock.by = p THEN [lock EXCEPT !.state = "stamped"] ELSE lock
  /\ Go(p, "sync")
  /\ UNCHANGED <<exists, file, op, mem, cursor, result, ops, faults, history>>

(* maybe_cleanup_frozen_lock reads the time; a lock file without one, or   *)
(* gone, is an error, after which the process sleeps and tries again.      *)
InspectLock_AnyAge(p) ==
  /\ pc[p] = "inspect"
  /\ Go(p, IF lock.state \in {"stamped", "expired"} THEN "remove" ELSE "lock")
  /\ UNCHANGED <<exists, file, lock, op, mem, cursor, result, ops, faults, history>>

InspectLock_Never(p) ==
  /\ pc[p] = "inspect"
  /\ Go(p, "lock")
  /\ UNCHANGED <<exists, file, lock, op, mem, cursor, result, ops, faults, history>>

InspectLock(p) ==
  /\ pc[p] = "inspect"
  /\ Go(p, IF lock.state = "expired" THEN "remove" ELSE "lock")
  /\ UNCHANGED <<exists, file, lock, op, mem, cursor, result, ops, faults, history>>

(* The removal is by path: it takes whatever lock file is there by now.    *)
RemoveLock(p) ==
  /\ pc[p] = "remove"
  /\ lock' = Absent
  /\ Go(p, "lock")
  /\ UNCHANGED <<exists, file, op, mem, cursor, result, ops, faults, history>>

(* unlock removes the lock file by path, too.                              *)
Unlock(p) ==
  /\ pc[p] = "unlock"
  /\ lock' = Absent
  /\ Go(p, "idle")
  /\ op' = [op EXCEPT ![p] = Load]
  /\ answered' = IF result[p] = "ok" THEN answered \cup {op[p]} ELSE answered
  /\ UNCHANGED <<exists, file, mem, cursor, result, ops, faults, first, disturbed>>

-----------------------------------------------------------------------------
(* CacheFile::lock returns the content behind the cursor. An entry parses  *)
(* unless a fragment stands between it and the separator before it.        *)
ParsedFrom(c) ==
  {i \in c + 1 .. Len(file) : file[i] # Fragment /\ (i = c + 1 \/ file[i - 1] # Fragment)}

Readable(p) == ParsedFrom(cursor[p])

ReadableFor(p, k) == {i \in Readable(p) : file[i].key = k}

Last(S) == CHOOSE i \in S : \A j \in S : j <= i

(* sync_content inserts the entries one after the other: the last one wins.*)
Synced_Nothing(p) == mem[p]
Synced(p) ==
  [k \in Keys |-> IF ReadableFor(p, k) = {} THEN mem[p][k]
                  ELSE file[Last(ReadableFor(p, k))].value]

(* An insert is refused when an entry just read, or the in-memory cache,   *)
(* has another value for the key; it is done when the value is the same.   *)
KeyOutOfSync(p) ==
  \E i \in ReadableFor(p, op[p].key) : file[i].value # op[p].value

Outcome(p) ==
  LET known == Synced(p)[op[p].key] IN
  IF op[p] = Load THEN None
  ELSE IF KeyOutOfSync(p) THEN "err"
  ELSE IF known = None THEN None
  ELSE IF known = op[p].value THEN "ok" ELSE "err"

MustWrite(p) == op[p] # Load /\ Outcome(p) = None

Sync(p) ==
  /\ pc[p] = "sync"
  /\ mem' = [mem EXCEPT ![p] = Synced(p)]
  /\ cursor' = [cursor EXCEPT ![p] = IF @ < Len(file) THEN Len(file) ELSE @]
  /\ result' = [result EXCEPT ![p] = Outcome(p)]
  /\ Go(p, IF MustWrite(p) THEN "write" ELSE "unlock")
  /\ UNCHANGED <<exists, file, lock, op, ops, faults, history>>

(* insert_unchecked appends the entry, or no more than a part of it when   *)
(* the one call of write takes no more; the cursor moves by what was       *)
(* written. The answer is the same.                                        *)
Advanced(p) == cursor[p] + 1

Write(p) ==
  /\ pc[p] = "write"
  /\ \/ file' = Append(file, op[p]) /\ UNCHANGED <<faults, disturbed>>
     \/ file' = Append(file, Fragment) /\ Fault("short")
  /\ cursor' = [cursor EXCEPT ![p] = Advanced(p)]
  /\ mem' = [mem EXCEPT ![p][op[p].key] = op[p].value]
  /\ result' = [result EXCEPT ![p] = "ok"]
  /\ Go(p, "unlock")
  /\ UNCHANGED <<exists, lock, op, ops, first, answered>>

-----------------------------------------------------------------------------
(* The operations: insert, and for_each, which only loads.                 *)
Start(p, o) ==
  /\ pc[p] = "idle" /\ ops[p] < MaxOps
  /\ op' = [op EXCEPT ![p] = o]
  /\ ops' = [ops EXCEPT ![p] = @ + 1]
  /\ result' = [result EXCEPT ![p] = None]
  /\ Go(p, "lock")
  /\ UNCHANGED <<exists, file, lock, mem, cursor, faults, history>>

(* A process is killed; killed while writing, it may leave a fragment. It  *)
(* comes back as a new process with nothing in memory.                     *)
Crash(p) ==
  /\ pc[p] # "down" /\ faults < MaxFaults
  /\ Go(p, "down")
  /\ file' \in {file} \cup (IF pc[p] = "write" THEN {Append(file, Fragment)} ELSE {})
  /\ faults' = faults + 1
  /\ Disturb("frozen", lock.by = p)
  /\ UNCHANGED <<exists, lock, op, mem, cursor, result, ops, first, answered>>

Restart(p) ==
  /\ pc[p] = "down"
  /\ Go(p, "new")
  /\ op' = [op EXCEPT ![p] = Load]
  /\ mem' = [mem EXCEPT ![p] = Empty]
  /\ cursor' = [cursor EXCEPT ![p] = 0]
  /\ result' = [result EXCEPT ![p] = None]
  /\ UNCHANGED <<exists, file, lock, ops, faults, history>>

(* lock_max_duration passes, perhaps before the holder is done.            *)
Expire ==
  /\ lock.state = "stamped"
  /\ lock' = [lock EXCEPT !.state = "expired"]
  /\ Disturb("outlived", Holding(lock.by))
  /\ UNCHANGED <<exists, file, procVars, ops, faults, first, answered>>

Step(p) ==
  \/ CheckFile(p) \/ CreateFile(p) \/ TryLock(p) \/ StampLock(p) \/ InspectLock(p)
  \/ RemoveLock(p) \/ Sync(p) \/ Write(p) \/ Unlock(p)

Next ==
  \/ \E p \in Procs : Step(p) \/ LockError(p) \/ Crash(p) \/ Restart(p)
  \/ \E p \in Procs, o \in Entry \cup {Load} : Start(p, o)
  \/ Expire

Spec == Init /\ [][Next]_vars

(* Processes keep running, killed ones are started again, and time passes. *)
FairSpec == Spec /\ \A p \in Procs : WF_vars(Step(p) \/ Restart(p)) /\ WF_vars(Expire)

-----------------------------------------------------------------------------
(* Properties                                                              *)

(* Every variable has its type.                                            *)
TypeOK ==
  /\ exists \in BOOLEAN
  /\ file \in Seq(Entry \cup {Fragment})
  /\ lock \in [state : {"absent", "empty", "stamped", "expired"}, by : Procs \cup {None}]
  /\ pc \in [Procs -> Steps]
  /\ op \in [Procs -> Entry \cup {Load}]
  /\ mem \in [Procs -> [Keys -> Values \cup {None}]]
  /\ cursor \in [Procs -> Nat]
  /\ result \in [Procs -> {"ok", "err", None}]
  /\ ops \in [Procs -> 0 .. MaxOps]
  /\ faults \in 0 .. MaxFaults
  /\ first \in BOOLEAN /\ answered \subseteq Entry
  /\ disturbed \subseteq {"unseen", "erased", "stolen", "frozen", "outlived", "short"}

(* At most one process works on the file at a time: CacheFile is said to   *)
(* be multi-process safe. So it is, until a lock file is left behind by a  *)
(* killed process, outlived by its holder, or removed after an error.      *)
LocksKept == disturbed \subseteq {"unseen", "erased", "short"}

MutualExclusion ==
  LocksKept => \A p, q \in Procs : Holding(p) /\ Holding(q) => p = q

(* Why: the lock file is of the one process that dates it or works on the  *)
(* file, it does not expire before that process removes it, and nobody     *)
(* else is about to.                                                       *)
LockOwned ==
  /\ lock.by = None <=> lock.state = "absent"
  /\ LocksKept =>
       \A p \in Procs :
         /\ pc[p] # "remove"
         /\ lock.by = p <=> pc[p] = "stamp" \/ Holding(p)
         /\ pc[p] = "stamp" => lock.state = "empty"
         /\ Holding(p) => lock.state = "stamped"

(* The file never binds a key twice: insert reads what the others wrote    *)
(* before it appends. After a truncation it may, since cursors of other    *)
(* processes stand behind entries they have not seen.                      *)
WriteOnce ==
  disturbed = {} =>
    \A i, j \in 1 .. Len(file) :
      file[i] \in Entry /\ file[j] \in Entry /\ file[i].key = file[j].key => i = j

(* Why: a process knows all entries before its cursor, and one that is     *)
(* about to write has read the whole file and not found its key.           *)
FileKnown ==
  /\ \A p \in Procs : pc[p] = "write" => op[p] \in Entry
  /\ disturbed = {} =>
       /\ \A i \in 1 .. Len(file) : file[i] \in Entry
       /\ \A p \in Procs :
            /\ cursor[p] <= Len(file)
            /\ \A i \in 1 .. cursor[p] : mem[p][file[i].key] = file[i].value
            /\ pc[p] = "write" =>
                 cursor[p] = Len(file) /\ \A i \in 1 .. Len(file) : file[i].key # op[p].key

(* What is written stays: write took whole entries, processes could tell   *)
(* whether the file exists, and if it did not at first then no two of them *)
(* created it, the second one after an insert.                             *)
Kept ==
  /\ disturbed \cap {"unseen", "short"} = {}
  /\ first => "erased" \notin disturbed

(* What a process has in memory is in the file, whatever happens to the    *)
(* lock, if what is written stays.                                         *)
MemoryInFile ==
  Kept =>
    \A p \in Procs, k \in Keys :
      mem[p][k] # None => \E i \in 1 .. Len(file) : file[i] = [key |-> k, value |-> mem[p][k]]

(* An insert answered Ok left its value in the file; an insert refused met *)
(* another value for its key there.                                        *)
ResultHonest ==
  disturbed = {} =>
    \A p \in Procs : pc[p] = "unlock" /\ op[p] # Load =>
      LET bound == {i \in 1 .. Len(file) : file[i] \in Entry /\ file[i].key = op[p].key}
      IN  /\ result[p] = "ok" => bound # {} /\ \A i \in bound : file[i].value = op[p].value
          /\ result[p] = "err" => \E i \in bound : file[i].value # op[p].value

(* A file that existed before is found, so nobody creates it, but for a    *)
(* process that could not tell.                                            *)
FoundIfThere ==
  ~first => exists /\ ("unseen" \notin disturbed => \A p \in Procs : pc[p] # "create")

(* An insert that is answered Ok has its entry in memory, and therefore in *)
(* the file, where it stays.                                               *)
AnsweredInFile ==
  /\ \A p \in Procs : pc[p] = "unlock" /\ result[p] = "ok" =>
       op[p] \in Entry /\ mem[p][op[p].key] = op[p].value
  /\ Kept => \A e \in answered : \E i \in 1 .. Len(file) : file[i] = e

(* The lock does what it is for: as long as no lock file is lost, one      *)
(* process works on the file at a time, and without a truncation the file  *)
(* binds no key twice. What a process believes is backed by the file: its  *)
(* memory as long as what is written stays, and what insert answered if    *)
(* there was no disturbance. With the reasons given above it is inductive. *)
LockInv ==
  /\ TypeOK /\ LockOwned /\ MutualExclusion /\ FileKnown /\ WriteOnce
  /\ MemoryInFile /\ ResultHonest /\ FoundIfThere /\ AnsweredInFile

(* An insert that returned Ok is not forgotten: a process that starts now  *)
(* parses its entry, whatever locks expired, were removed or were left     *)
(* behind by killed processes. The exceptions are those of Kept, and a     *)
(* process killed while it wrote: what it leaves may spoil an entry.       *)
AnswersKept ==
  Kept /\ (\A i \in 1 .. Len(file) : file[i] # Fragment) =>
    \A e \in answered : \E i \in ParsedFrom(0) : file[i] = e

(* The shared file as a map from keys to values.                           *)
FileMap ==
  [k \in Keys |->
     LET bound == {i \in 1 .. Len(file) : file[i] \in Entry /\ file[i].key = k}
     IN  IF bound = {} THEN None ELSE file[Last(bound)].value]

Abstract == INSTANCE WriteOnceMap WITH map <- FileMap, disturbed <- disturbed # {}

(* The file refines the write-once map until it is disturbed: no sequence  *)
(* of inserts by several processes rebinds or loses a key.                 *)
RefinesWriteOnceMap == Abstract!Spec

(* The lock file of a process that was killed before it dated it.          *)
Undated == lock.state = "empty" /\ pc[lock.by] # "stamp"

(* Every operation ends: a process that waits for the lock gets it, also   *)
(* when the process that held it was killed, unless that one had created   *)
(* the lock file and not dated it.                                         *)
OperationsEnd == \A p \in Procs : pc[p] # "idle" ~> pc[p] = "idle" \/ Undated
=============================================================================
