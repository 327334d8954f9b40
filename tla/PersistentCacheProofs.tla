------------------------ MODULE PersistentCacheProofs ------------------------
(***************************************************************************)
(* Proofs about the persistent cache, for every number of processes, keys, *)
(* values, operations and faults: the lock file excludes, what insert      *)
(* answered is not forgotten, and the file implements a write-once map.    *)
(***************************************************************************)
EXTENDS PersistentCache, WellFoundedInduction, TLAPS

-----------------------------------------------------------------------------
(* Helpers                                                                 *)

(* None stands apart from the values, the processes and the results.       *)
LEMMA NoneApart ==
  /\ None \notin Values /\ None \notin Procs
  /\ None # "ok" /\ None # "err"
BY Zenon, CacheAssumption

(* A set of positions of a sequence that is not empty has a last one.      *)
LEMMA LastPosition ==
  ASSUME NEW n \in Nat, NEW S \in SUBSET (1 .. n), S # {}
  PROVE  Last(S) \in S /\ \A j \in S : j <= Last(S)
<1> DEFINE T == {m \in Nat : n - m \in S}
<1>1. T \subseteq Nat /\ T # {}
  <2>1. PICK i \in S : TRUE BY Zenon
  <2>2. n - i \in Nat /\ n - (n - i) = i BY <2>1
  <2> QED BY Zenon, <2>2
<1>2. PICK x \in T : \A y \in T : ~(<<y, x>> \in OpToRel(<, Nat))
  BY ONLY <1>1, NatLessThanWellFounded, WFMin, Zenon
<1>3. \A y \in T : ~(y < x)
  BY <1>2, Zenon DEF OpToRel
<1>4. \A j \in S : j <= n - x
  <2> TAKE j \in S
  <2>1. j \in Nat /\ n - j \in Nat /\ n - (n - j) = j OBVIOUS
  <2> DEFINE m == n - j
  <2>2. m \in T BY Zenon, <2>1
  <2>3. x \in Nat /\ m \in Nat BY Zenon, <1>2, <2>1
  <2> HIDE DEF m, T
  <2>4. ~(m < x) BY Zenon, <2>2, <1>3
  <2>5. x <= m BY <2>3, <2>4
  <2> QED BY <2>1, <2>3, <2>5 DEF m
<1>5. n - x \in S BY Zenon, <1>2
<1> QED BY Zenon, <1>4, <1>5 DEF Last

(* Appending to a sequence.                                                *)
LEMMA Appended ==
  ASSUME NEW S, NEW s \in Seq(S), NEW e \in S
  PROVE  /\ Append(s, e) \in Seq(S)
         /\ Len(s) \in Nat /\ Len(Append(s, e)) = Len(s) + 1
         /\ Append(s, e)[Len(s) + 1] = e
         /\ \A i \in 1 .. Len(s) : Append(s, e)[i] = s[i]
OBVIOUS

(* The positions a process can read are positions of the file, and hold    *)
(* entries.                                                                *)
LEMMA ReadableEntries ==
  ASSUME TypeOK, NEW p \in Procs
  PROVE  \A i \in Readable(p) : i \in 1 .. Len(file) /\ i > cursor[p] /\ file[i] \in Entry
<1> TAKE i \in Readable(p)
<1>1. i \in cursor[p] + 1 .. Len(file) /\ file[i] # Fragment BY Zenon DEF Readable, ParsedFrom
<1>2. cursor[p] \in Nat /\ Len(file) \in Nat BY DEF TypeOK
<1>3. i \in 1 .. Len(file) /\ i > cursor[p] BY <1>1, <1>2
<1> QED BY <1>1, <1>3 DEF TypeOK

(* sync_content takes the value of a key from the last entry read for it,  *)
(* or leaves it as it was.                                                 *)
LEMMA SyncedFrom ==
  ASSUME TypeOK, NEW p \in Procs, NEW k \in Keys
  PROVE  \/ ReadableFor(p, k) = {} /\ Synced(p)[k] = mem[p][k]
         \/ \E i \in ReadableFor(p, k) :
              /\ i \in 1 .. Len(file)
              /\ Synced(p)[k] = file[i].value
              /\ file[i] = [key |-> k, value |-> file[i].value]
              /\ file[i].value \in Values
<1>1. CASE ReadableFor(p, k) = {}
  BY Zenon, <1>1 DEF Synced
<1>2. CASE ReadableFor(p, k) # {}
  <2>1. ReadableFor(p, k) \in SUBSET (1 .. Len(file))
    BY Zenon, ReadableEntries DEF ReadableFor
  <2>2. Len(file) \in Nat BY DEF TypeOK
  <2> DEFINE i == Last(ReadableFor(p, k))
  <2>3. i \in ReadableFor(p, k) BY Zenon, <1>2, <2>1, <2>2, LastPosition
  <2>4. file[i] \in Entry /\ file[i].key = k /\ i \in 1 .. Len(file)
    BY Zenon, <2>3, ReadableEntries DEF ReadableFor
  <2>5. Synced(p)[k] = file[i].value BY Zenon, <1>2 DEF Synced
  <2>6. file[i] = [key |-> k, value |-> file[i].value] /\ file[i].value \in Values
    BY Zenon, <2>4 DEF Entry
  <2> QED BY Zenon, <2>3, <2>4, <2>5, <2>6
<1> QED BY Zenon, <1>1, <1>2

LEMMA SyncedType ==
  ASSUME TypeOK, NEW p \in Procs
  PROVE  Synced(p) \in [Keys -> Values \cup {None}]
<1>1. \A k \in Keys : Synced(p)[k] \in Values \cup {None}
  <2> TAKE k \in Keys
  <2>1. mem[p][k] \in Values \cup {None} BY DEF TypeOK
  <2> QED BY Zenon, <2>1, SyncedFrom
<1>2. Synced(p) = [k \in Keys |-> Synced(p)[k]] BY Zenon DEF Synced
<1> QED BY Zenon, <1>1, <1>2

(* An operation is an entry to insert unless it only loads.                *)
LEMMA OpEntry ==
  ASSUME TypeOK, NEW p \in Procs, op[p] # Load
  PROVE  op[p] \in Entry /\ op[p].key \in Keys /\ op[p].value \in Values
BY Zenon DEF TypeOK, Entry

(* What insert answers before it writes.                                   *)
LEMMA OutcomeCases ==
  ASSUME TypeOK, NEW p \in Procs
  PROVE  /\ Outcome(p) \in {"ok", "err", None}
         /\ op[p] # Load =>
              /\ Outcome(p) = "err" =>
                   \/ KeyOutOfSync(p)
                   \/ Synced(p)[op[p].key] \notin {None, op[p].value}
              /\ ~KeyOutOfSync(p) /\ Synced(p)[op[p].key] = None => Outcome(p) = None
              /\ Outcome(p) = "ok" => ~KeyOutOfSync(p) /\ Synced(p)[op[p].key] = op[p].value
              /\ Outcome(p) = None => ~KeyOutOfSync(p) /\ Synced(p)[op[p].key] = None
BY Zenon, NoneApart DEF Outcome

-----------------------------------------------------------------------------
(* The invariant, conjunct by conjunct                                     *)

LEMMA InitInv == Init => LockInv
<1> SUFFICES ASSUME Init PROVE LockInv BY Zenon
<1> USE DEF Init
<1>1. TypeOK BY NoneApart, CacheAssumption DEF TypeOK, Absent, Empty, Load, Steps, Entry
<1>2. LockOwned BY Zenon, NoneApart DEF LockOwned, Holding, Absent
<1>3. MutualExclusion BY Zenon DEF MutualExclusion, Holding
<1>4. FileKnown BY DEF FileKnown
<1>5. WriteOnce BY DEF WriteOnce
<1>6. MemoryInFile BY Zenon DEF MemoryInFile, Empty
<1>7. ResultHonest BY Zenon DEF ResultHonest
<1>8. FoundIfThere BY Zenon DEF FoundIfThere
<1>9. AnsweredInFile BY Zenon DEF AnsweredInFile
<1> QED BY Zenon, <1>1, <1>2, <1>3, <1>4, <1>5, <1>6, <1>7, <1>8, <1>9 DEF LockInv

(* Every variable keeps its type.                                          *)
LEMMA TypeStep ==
  ASSUME TypeOK, FileKnown, AnsweredInFile, [Next]_vars
  PROVE  TypeOK'
<1> USE DEF TypeOK, Go, Disturb, history, procVars
<1>1. ASSUME NEW p \in Procs, CheckFile(p) PROVE TypeOK'
  <2>1. faults' \in 0 .. MaxFaults BY CacheAssumption, <1>1 DEF CheckFile, Fault
  <2>2. pc' \in [Procs -> Steps] BY Zenon, <1>1 DEF CheckFile, Steps
  <2>3. disturbed' \subseteq {"unseen", "erased", "stolen", "frozen", "outlived", "short"}
    BY Zenon, <1>1 DEF CheckFile, Fault
  <2> QED BY Zenon, <1>1, <2>1, <2>2, <2>3 DEF CheckFile
<1>2. ASSUME NEW p \in Procs, CreateFile(p) PROVE TypeOK'
  BY <1>2 DEF CreateFile, Steps
<1>3. ASSUME NEW p \in Procs, TryLock(p) PROVE TypeOK'
  <2>1. lock' \in [state : {"absent", "empty", "stamped", "expired"}, by : Procs \cup {None}]
    BY <1>3 DEF TryLock
  <2>2. pc' \in [Procs -> Steps] BY Zenon, <1>3 DEF TryLock, Steps
  <2> QED BY Zenon, <1>3, <2>1, <2>2 DEF TryLock
<1>4. ASSUME NEW p \in Procs, StampLock(p) PROVE TypeOK'
  BY Zenon, <1>4 DEF StampLock, Steps
<1>5. ASSUME NEW p \in Procs, InspectLock(p) PROVE TypeOK'
  BY Zenon, <1>5 DEF InspectLock, Steps
<1>6. ASSUME NEW p \in Procs, RemoveLock(p) \/ LockError(p) PROVE TypeOK'
  <2>1. CASE RemoveLock(p) BY Zenon, <2>1 DEF RemoveLock, Absent, Steps
  <2>2. CASE LockError(p) BY Zenon, <2>2 DEF LockError, Absent
  <2> QED BY Zenon, <1>6, <2>1, <2>2
<1>7. ASSUME NEW p \in Procs, Unlock(p) PROVE TypeOK'
  <2>1. answered' \subseteq Entry BY Zenon, <1>7 DEF Unlock, AnsweredInFile
  <2> QED BY Zenon, <1>7, <2>1 DEF Unlock, Absent, Load, Steps
<1>8. ASSUME NEW p \in Procs, Sync(p) PROVE TypeOK'
  <2>1. Synced(p) \in [Keys -> Values \cup {None}] /\ Outcome(p) \in {"ok", "err", None}
    BY Zenon, SyncedType, OutcomeCases
  <2> QED BY <1>8, <2>1 DEF Sync, Steps
<1>9. ASSUME NEW p \in Procs, Write(p) PROVE TypeOK'
  <2>1. op[p] \in Entry BY Zenon, <1>9 DEF Write, FileKnown
  <2>2. file' \in Seq(Entry \cup {Fragment})
    <3>1. file' = Append(file, op[p]) \/ file' = Append(file, Fragment) BY Zenon, <1>9 DEF Write
    <3>2. file \in Seq(Entry \cup {Fragment}) BY Zenon
    <3> QED BY ONLY <2>1, <3>1, <3>2, Appended
  <2>5. faults' \in 0 .. MaxFaults BY CacheAssumption, <1>9 DEF Write, Fault
  <2>6. disturbed' \subseteq {"unseen", "erased", "stolen", "frozen", "outlived", "short"}
    BY Zenon, <1>9 DEF Write, Fault
  <2>3. op[p].key \in Keys /\ op[p].value \in Values BY Zenon, <2>1 DEF Entry
  <2>4. mem' \in [Procs -> [Keys -> Values \cup {None}]] BY Zenon, <1>9, <2>3 DEF Write
  <2> QED BY SMTT(20), <1>9, <2>2, <2>4, <2>5, <2>6 DEF Write, Advanced, Steps
<1>10. ASSUME NEW p \in Procs, NEW o \in Entry \cup {Load}, Start(p, o) PROVE TypeOK'
  BY CacheAssumption, <1>10 DEF Start, Steps
<1>11. ASSUME NEW p \in Procs, Crash(p) PROVE TypeOK'
  <2>1. file' = file \/ file' = Append(file, Fragment) BY Zenon, <1>11 DEF Crash
  <2>2. pc' \in [Procs -> Steps] BY Zenon, <1>11 DEF Crash, Steps
  <2>3. faults' \in 0 .. MaxFaults BY CacheAssumption, <1>11 DEF Crash
  <2>4. file \in Seq(Entry \cup {Fragment}) BY Zenon
  <2>5. file' \in Seq(Entry \cup {Fragment}) BY ONLY <2>1, <2>4, Appended
  <2> QED BY Zenon, <1>11, <2>2, <2>3, <2>5 DEF Crash
<1>12. ASSUME NEW p \in Procs, Restart(p) PROVE TypeOK'
  BY Zenon, <1>12 DEF Restart, Steps, Empty, Load
<1>13. CASE Expire BY Zenon, <1>13 DEF Expire
<1>14. CASE UNCHANGED vars BY Zenon, <1>14 DEF vars
<1> QED
  BY Zenon, <1>1, <1>2, <1>3, <1>4, <1>5, <1>6, <1>7, <1>8, <1>9, <1>10, <1>11, <1>12, <1>13, <1>14
  DEF Next, Step

(* Until a lock is lost the lock file is of the process that is at work.   *)
LEMMA OwnedStep ==
  ASSUME TypeOK, LockOwned, [Next]_vars
  PROVE  LockOwned'
<1> USE DEF TypeOK, LockOwned, LocksKept, Go, Disturb, Holding, history, procVars
<1>1. ASSUME NEW p \in Procs, CheckFile(p) \/ InspectLock(p) PROVE LockOwned'
  <2>1. CASE CheckFile(p)
    <3>1. lock' = lock /\ (LocksKept' => LocksKept) BY Zenon, <2>1 DEF CheckFile, Fault
    <3>2. /\ pc[p] = "new" /\ pc'[p] \in {"lock", "create"}
          /\ \A q \in Procs \ {p} : pc'[q] = pc[q]
      BY <2>1 DEF CheckFile
    <3> QED BY ZenonT(30), <3>1, <3>2
  <2>2. CASE InspectLock(p) BY <2>2 DEF InspectLock
  <2> QED BY Zenon, <1>1, <2>1, <2>2
<1>2. ASSUME NEW p \in Procs, CreateFile(p) PROVE LockOwned'
  BY Zenon, <1>2 DEF CreateFile
<1>3. ASSUME NEW p \in Procs, TryLock(p) PROVE LockOwned'
  BY NoneApart, <1>3 DEF TryLock
<1>4. ASSUME NEW p \in Procs, StampLock(p) PROVE LockOwned'
  BY NoneApart, <1>4 DEF StampLock
<1>5. ASSUME NEW p \in Procs, RemoveLock(p) \/ LockError(p) PROVE LockOwned'
  <2>1. CASE RemoveLock(p) BY Zenon, <2>1 DEF RemoveLock, Absent
  <2>2. CASE LockError(p) BY Zenon, <2>2 DEF LockError, Absent
  <2> QED BY Zenon, <1>5, <2>1, <2>2
<1>6. ASSUME NEW p \in Procs, Unlock(p) PROVE LockOwned'
  BY NoneApart, <1>6 DEF Unlock, Absent
<1>7. ASSUME NEW p \in Procs, Sync(p) \/ Write(p) PROVE LockOwned'
  <2>1. CASE Sync(p) BY <2>1 DEF Sync
  <2>2. CASE Write(p)
    <3>1. lock' = lock /\ (LocksKept' => LocksKept) BY Zenon, <2>2 DEF Write, Fault
    <3>2. /\ pc[p] = "write" /\ pc'[p] = "unlock"
          /\ \A q \in Procs \ {p} : pc'[q] = pc[q]
      BY <2>2 DEF Write
    <3> QED BY ZenonT(30), <3>1, <3>2
  <2> QED BY Zenon, <1>7, <2>1, <2>2
<1>8. ASSUME NEW p \in Procs, NEW o \in Entry \cup {Load}, Start(p, o) PROVE LockOwned'
  BY <1>8 DEF Start
<1>9. ASSUME NEW p \in Procs, Crash(p) \/ Restart(p) PROVE LockOwned'
  <2>1. CASE Crash(p)
    <3>1. lock' = lock /\ (LocksKept' => LocksKept /\ lock.by # p) BY Zenon, <2>1 DEF Crash
    <3> QED BY <2>1, <3>1 DEF Crash
  <2>2. CASE Restart(p) BY Zenon, <2>2 DEF Restart
  <2> QED BY Zenon, <1>9, <2>1, <2>2
<1>10. CASE Expire BY Zenon, <1>10 DEF Expire
<1>11. CASE UNCHANGED vars BY Zenon, <1>11 DEF vars
<1> QED
  BY Zenon, <1>1, <1>2, <1>3, <1>4, <1>5, <1>6, <1>7, <1>8, <1>9, <1>10, <1>11 DEF Next, Step

(* So two processes that work on the file are one.                         *)
LEMMA OwnedExcludes == LockOwned => MutualExclusion
BY Zenon DEF LockOwned, MutualExclusion

-----------------------------------------------------------------------------
(* What a step does to the file                                            *)

(* What went wrong stays on record.                                        *)
LEMMA DisturbedGrows == [Next]_vars => disturbed \subseteq disturbed'
BY DEF Next, Step, vars, history, Disturb, Fault, CheckFile, CreateFile, TryLock, LockError,
       StampLock, InspectLock, RemoveLock, Unlock, Sync, Write, Start, Crash, Restart, Expire

(* What was kept after a step was kept before.                             *)
LEMMA KeptBefore ==
  ASSUME [Next]_vars, Kept'
  PROVE  Kept /\ first' = first
<1>1. first' = first
  BY DEF Next, Step, vars, history, CheckFile, CreateFile, TryLock, LockError, StampLock,
         InspectLock, RemoveLock, Unlock, Sync, Write, Start, Crash, Restart, Expire
<1> QED BY Zenon, <1>1, DisturbedGrows DEF Kept

(* Unless it is cut short, a write appends the entry.                      *)
LEMMA WholeWrite ==
  ASSUME NEW p \in Procs, Write(p), "short" \notin disturbed'
  PROVE  file' = Append(file, op[p])
BY Zenon DEF Write, Fault, Disturb

(* As long as nothing goes wrong only a write changes the file: creating   *)
(* it finds it empty, and a process killed while it writes has the lock.   *)
LEMMA OnlyWrites ==
  ASSUME TypeOK, LockOwned, [Next]_vars, disturbed' = {}
  PROVE  disturbed = {} /\ (file' = file \/ \E p \in Procs : Write(p))
<1>1. disturbed = {} BY Zenon, DisturbedGrows
<1>2. ASSUME NEW p \in Procs, CreateFile(p) PROVE file' = file
  BY Zenon, <1>2 DEF CreateFile, Disturb
<1>3. ASSUME NEW p \in Procs, Crash(p) PROVE file' = file
  <2>1. lock.by # p BY Zenon, <1>3 DEF Crash, Disturb
  <2>2. pc[p] # "write" BY Zenon, <1>1, <2>1 DEF LockOwned, LocksKept, Holding
  <2> QED BY Zenon, <1>3, <2>2 DEF Crash
<1> QED
  BY Zenon, <1>1, <1>2, <1>3
  DEF Next, Step, vars, CheckFile, TryLock, LockError, StampLock, InspectLock, RemoveLock,
      Unlock, Sync, Start, Restart, Expire

(* If what is written stays, entries stay where they are.                  *)
LEMMA EntriesStay ==
  ASSUME TypeOK, FileKnown, FoundIfThere, [Next]_vars, Kept'
  PROVE  /\ Kept
         /\ Len(file) \in Nat /\ Len(file') \in Nat /\ Len(file) <= Len(file')
         /\ \A i \in 1 .. Len(file) : file'[i] = file[i]
<1>1. Kept /\ first' = first BY Zenon, KeptBefore
<1>2. file \in Seq(Entry \cup {Fragment}) BY Zenon DEF TypeOK
<1>3. ASSUME NEW p \in Procs, CreateFile(p) PROVE file' = file
  <2>1. first
    <3>1. "unseen" \notin disturbed BY <1>1 DEF Kept
    <3> QED BY Zenon, <1>3, <3>1 DEF FoundIfThere, CreateFile
  <2>2. "erased" \notin disturbed' BY Zenon, <1>1, <2>1 DEF Kept
  <2> QED BY Zenon, <1>3, <2>2 DEF CreateFile, Disturb
<1>4. ASSUME NEW p \in Procs, Crash(p)
      PROVE  \E e \in Entry \cup {Fragment} : file' \in {file, Append(file, e)}
  BY Zenon, <1>4 DEF Crash
<1>5. ASSUME NEW p \in Procs, Write(p)
      PROVE  \E e \in Entry \cup {Fragment} : file' \in {file, Append(file, e)}
  BY Zenon, <1>5 DEF Write, FileKnown
<1>6. file' = file \/ \E e \in Entry \cup {Fragment} : file' \in {file, Append(file, e)}
  BY Zenon, <1>3, <1>4, <1>5
  DEF Next, Step, vars, CheckFile, TryLock, LockError, StampLock, InspectLock, RemoveLock,
      Unlock, Sync, Start, Restart, Expire
<1>7. CASE file' = file BY <1>1, <1>2, <1>7
<1>8. ASSUME NEW e \in Entry \cup {Fragment}, file' = Append(file, e)
      PROVE  /\ Len(file) \in Nat /\ Len(file') = Len(file) + 1
             /\ \A i \in 1 .. Len(file) : file'[i] = file[i]
  BY <1>2, <1>8, Appended
<1> QED BY <1>1, <1>6, <1>7, <1>8

-----------------------------------------------------------------------------
(* The content of the file                                                 *)

(* What is in memory is in the file.                                       *)
LEMMA MemoryStep ==
  ASSUME TypeOK, FileKnown, FoundIfThere, MemoryInFile, [Next]_vars
  PROVE  MemoryInFile'
<1> SUFFICES ASSUME Kept',
                    NEW q \in Procs, NEW k \in Keys, mem'[q][k] # None
             PROVE  \E i \in 1 .. Len(file') : file'[i] = [key |-> k, value |-> mem'[q][k]]
  BY Zenon DEF MemoryInFile
<1>1. /\ Kept
      /\ Len(file) \in Nat /\ Len(file') \in Nat /\ Len(file) <= Len(file')
      /\ \A i \in 1 .. Len(file) : file'[i] = file[i]
  BY Zenon, EntriesStay
<1> DEFINE Backed(v) == \E i \in 1 .. Len(file) : file[i] = [key |-> k, value |-> v]
<1>2. mem[q][k] # None => Backed(mem[q][k])
  BY Zenon, <1>1 DEF MemoryInFile
<1>3. SUFFICES Backed(mem'[q][k]) \/ \E p \in Procs : Write(p) /\ p = q /\ op[p].key = k
  <2>1. ASSUME NEW p \in Procs, Write(p), p = q, op[p].key = k
        PROVE  \E i \in 1 .. Len(file') : file'[i] = [key |-> k, value |-> mem'[q][k]]
    <3>1. op[p] \in Entry /\ file \in Seq(Entry \cup {Fragment})
      BY Zenon, <2>1 DEF Write, FileKnown, TypeOK
    <3>2. file'[Len(file) + 1] = op[p] /\ Len(file') = Len(file) + 1
      <4>1. file' = Append(file, op[p]) BY Zenon, <2>1, WholeWrite DEF Kept
      <4> QED BY <3>1, <4>1, Appended
    <3>3. mem'[q][k] = op[p].value BY <2>1 DEF Write, TypeOK
    <3>4. op[p] = [key |-> k, value |-> op[p].value] BY Zenon, <2>1, <3>1 DEF Entry
    <3>5. Len(file) + 1 \in 1 .. Len(file') BY <1>1, <3>2
    <3> QED BY Zenon, <3>2, <3>3, <3>4, <3>5
  <2>2. Backed(mem'[q][k]) => \E i \in 1 .. Len(file') : file'[i] = [key |-> k, value |-> mem'[q][k]]
    BY <1>1
  <2> QED BY Zenon, <2>1, <2>2
<1>4. CASE mem'[q][k] = mem[q][k] BY Zenon, <1>2, <1>4
<1>5. ASSUME NEW p \in Procs, Sync(p) PROVE Backed(mem'[q][k])
  <2>1. CASE p = q
    <3>1. mem'[q][k] = Synced(q)[k] BY Zenon, <1>5, <2>1 DEF Sync, TypeOK
    <3>2. CASE mem'[q][k] = mem[q][k] BY Zenon, <1>2, <3>2
    <3>3. CASE mem'[q][k] # mem[q][k]
      <4>1. PICK i \in ReadableFor(q, k) :
              /\ i \in 1 .. Len(file) /\ Synced(q)[k] = file[i].value
              /\ file[i] = [key |-> k, value |-> file[i].value]
        BY Zenon, <3>1, <3>3, SyncedFrom
      <4> QED BY Zenon, <3>1, <4>1
    <3> QED BY Zenon, <3>2, <3>3
  <2>2. CASE p # q BY Zenon, <1>5, <2>2, <1>2 DEF Sync, TypeOK
  <2> QED BY Zenon, <2>1, <2>2
<1>6. ASSUME NEW p \in Procs, Write(p)
      PROVE  Backed(mem'[q][k]) \/ (p = q /\ op[p].key = k)
  <2>1. p # q \/ op[p].key # k => mem'[q][k] = mem[q][k]
    BY Zenon, <1>6 DEF Write, TypeOK
  <2> QED BY Zenon, <2>1, <1>2
<1>7. ASSUME NEW p \in Procs, Restart(p) PROVE Backed(mem'[q][k])
  BY Zenon, <1>7, <1>2 DEF Restart, Empty, TypeOK
<1> QED
  BY Zenon, <1>4, <1>5, <1>6, <1>7
  DEF Next, Step, vars, procVars, CheckFile, CreateFile, TryLock, LockError, StampLock,
      InspectLock, RemoveLock, Unlock, Start, Crash, Expire

(* Having read to the end of a file without fragments that binds no key    *)
(* twice, a process knows all of it.                                       *)
LEMMA SyncedKnows ==
  ASSUME TypeOK, FileKnown, WriteOnce, disturbed = {}, NEW p \in Procs,
         NEW i \in 1 .. Len(file)
  PROVE  Synced(p)[file[i].key] = file[i].value /\ file[i].key \in Keys /\ file[i].value \in Values
<1>1. file[i] \in Entry /\ file[i].key \in Keys /\ file[i].value \in Values
  BY Zenon DEF FileKnown, Entry
<1> DEFINE k == file[i].key
<1>2. i \in ReadableFor(p, k) \/ i \in 1 .. cursor[p]
  <2>1. \A j \in 1 .. Len(file) : file[j] # Fragment BY Zenon, CacheAssumption DEF FileKnown, Entry
  <2>2. cursor[p] \in Nat /\ Len(file) \in Nat BY DEF TypeOK
  <2>3. i \notin 1 .. cursor[p] => i \in cursor[p] + 1 .. Len(file) BY <2>2
  <2>4. i # cursor[p] + 1 /\ i \notin 1 .. cursor[p] => i - 1 \in 1 .. Len(file) BY <2>2
  <2> QED BY Zenon, <2>1, <2>3, <2>4 DEF ReadableFor, Readable, ParsedFrom
<1>3. CASE ReadableFor(p, k) = {}
  BY Zenon, <1>1, <1>2, <1>3 DEF FileKnown, Synced
<1>4. CASE ReadableFor(p, k) # {}
  <2>1. PICK j \in ReadableFor(p, k) :
          /\ j \in 1 .. Len(file) /\ Synced(p)[k] = file[j].value
          /\ file[j] = [key |-> k, value |-> file[j].value] /\ file[j].value \in Values
    BY Zenon, <1>1, <1>4, SyncedFrom
  <2>2. file[j] \in Entry /\ file[j].key = file[i].key BY <1>1, <2>1 DEF Entry
  <2>3. i = j BY Zenon, <1>1, <2>1, <2>2 DEF WriteOnce
  <2> QED BY Zenon, <1>1, <2>1, <2>3
<1> QED BY Zenon, <1>1, <1>3, <1>4

(* A process knows what is before its cursor, and before it writes, all of *)
(* the file.                                                               *)
LEMMA KnownStep ==
  ASSUME TypeOK, LockOwned, MutualExclusion, FileKnown, WriteOnce, [Next]_vars
  PROVE  FileKnown'
<1> DEFINE Knows(q) == /\ cursor[q] <= Len(file)
                       /\ \A i \in 1 .. cursor[q] : mem[q][file[i].key] = file[i].value
           Fresh(q) == /\ cursor[q] = Len(file)
                       /\ \A i \in 1 .. Len(file) : file[i].key # op[q].key
<1>1. ASSUME NEW q \in Procs, pc'[q] = "write"
      PROVE  op'[q] \in Entry /\ (Sync(q) \/ (pc[q] = "write" /\ op'[q] = op[q]))
  <2>1. ASSUME Sync(q) PROVE op'[q] \in Entry
    BY Zenon, <1>1, <2>1, OpEntry DEF Sync, Go, MustWrite, TypeOK
  <2>2. Sync(q) \/ (pc[q] = "write" /\ op'[q] = op[q])
    BY <1>1
    DEF Next, Step, TypeOK, Go, vars, procVars, CheckFile, CreateFile, TryLock, LockError,
        StampLock, InspectLock, RemoveLock, Unlock, Sync, Write, Start, Crash, Restart, Expire
  <2> QED BY Zenon, <2>1, <2>2 DEF FileKnown
<1> SUFFICES ASSUME disturbed' = {}
             PROVE  /\ \A i \in 1 .. Len(file') : file'[i] \in Entry
                    /\ \A q \in Procs : Knows(q)' /\ (pc'[q] = "write" => Fresh(q)')
  BY Zenon, <1>1 DEF FileKnown
<1>2. disturbed = {} /\ (file' = file \/ \E p \in Procs : Write(p))
  BY Zenon, OnlyWrites
<1>3. /\ Len(file) \in Nat /\ \A i \in 1 .. Len(file) : file[i] \in Entry
      /\ \A q \in Procs : Knows(q) /\ (pc[q] = "write" => Fresh(q))
  BY <1>2 DEF FileKnown, TypeOK
<1>4. ASSUME NEW p \in Procs, Write(p)
      PROVE  /\ \A i \in 1 .. Len(file') : file'[i] \in Entry
             /\ \A q \in Procs : Knows(q)' /\ (pc'[q] = "write" => Fresh(q)')
  <2>1. /\ op[p] \in Entry /\ op[p].key \in Keys /\ file \in Seq(Entry \cup {Fragment})
        /\ pc[p] = "write" /\ Fresh(p)
    BY Zenon, <1>3, <1>4 DEF Write, FileKnown, TypeOK, Entry
  <2>2. /\ Len(file') = Len(file) + 1 /\ file'[Len(file) + 1] = op[p]
        /\ \A i \in 1 .. Len(file) : file'[i] = file[i]
    <3>1. file' = Append(file, op[p]) BY Zenon, <1>4, WholeWrite
    <3> QED BY <2>1, <3>1, Appended
  <2>3. \A i \in 1 .. Len(file') : i \in 1 .. Len(file) \/ i = Len(file) + 1
    BY <1>3, <2>2
  <2>4. ASSUME NEW q \in Procs PROVE pc'[q] # "write"
    BY SMTT(20), <1>1, <1>2, <1>4, <2>1, <2>4 DEF Write, MutualExclusion, Holding, LocksKept, TypeOK, Go
  <2>5. Knows(p)'
    <3>1. cursor'[p] = Len(file) + 1 /\ mem'[p] = [mem[p] EXCEPT ![op[p].key] = op[p].value]
      BY Zenon, <1>4, <2>1 DEF Write, Advanced, TypeOK
    <3>2. \A i \in 1 .. Len(file) : mem'[p][file[i].key] = file[i].value
      <4> SUFFICES ASSUME NEW i \in 1 .. Len(file)
                   PROVE  mem'[p][file[i].key] = file[i].value
        BY Zenon
      <4>1. file[i].key \in Keys /\ file[i].key # op[p].key
        BY Zenon, <1>3, <2>1 DEF Entry
      <4>2. mem[p][file[i].key] = file[i].value
        BY <1>3, <2>1
      <4>3. mem[p] = [k \in Keys |-> mem[p][k]]
        BY Zenon DEF TypeOK
      <4> QED BY Zenon, <3>1, <4>1, <4>2, <4>3
    <3>3. mem'[p][op[p].key] = op[p].value BY <2>1, <3>1 DEF TypeOK
    <3> QED BY <1>3, <2>2, <2>3, <3>1, <3>2, <3>3
  <2>6. ASSUME NEW q \in Procs, q # p PROVE Knows(q)'
    <3>1. cursor'[q] = cursor[q] /\ mem'[q] = mem[q] /\ cursor[q] \in Nat
      BY Zenon, <1>4, <2>6 DEF Write, TypeOK
    <3>2. \A i \in 1 .. cursor[q] : i \in 1 .. Len(file) BY <1>3, <3>1
    <3> QED BY <1>3, <2>2, <3>1, <3>2
  <2> QED BY Zenon, <1>3, <2>1, <2>2, <2>3, <2>4, <2>5, <2>6
<1>5. ASSUME file' = file, NEW q \in Procs
      PROVE  Knows(q)' /\ (pc'[q] = "write" => Fresh(q)')
  <2>1. CASE Sync(q)
    <3>1. cursor'[q] = Len(file) /\ mem'[q] = Synced(q)
      BY <1>3, <2>1 DEF Sync, TypeOK
    <3>2. Knows(q)' BY <1>2, <1>3, <1>5, <3>1, SyncedKnows
    <3>3. ASSUME pc'[q] = "write" PROVE Fresh(q)'
      <4>1. op[q] # Load /\ Outcome(q) = None /\ op' = op
        BY Zenon, <2>1, <3>3 DEF Sync, Go, MustWrite, TypeOK
      <4>2. Synced(q)[op[q].key] = None BY Zenon, <4>1, OutcomeCases
      <4>3. \A i \in 1 .. Len(file) : file[i].key # op[q].key
        BY Zenon, NoneApart, <1>2, <4>2, SyncedKnows
      <4> QED BY Zenon, <1>5, <3>1, <4>1, <4>3
    <3> QED BY Zenon, <3>2, <3>3
  <2>2. CASE ~Sync(q)
    <3>1. \/ cursor'[q] = cursor[q] /\ mem'[q] = mem[q]
          \/ cursor'[q] = 0
      BY SMTT(20), <1>3, <1>5, <2>2
      DEF Next, Step, TypeOK, vars, procVars, CheckFile, CreateFile, TryLock, LockError,
          StampLock, InspectLock, RemoveLock, Unlock, Sync, Write, Start, Crash, Restart, Expire
    <3>2. Knows(q)' BY SMTT(20), <1>3, <1>5, <3>1
    <3>3. pc'[q] = "write" => cursor'[q] = cursor[q] /\ op'[q] = op[q] /\ pc[q] = "write"
      <4> SUFFICES ASSUME pc'[q] = "write" PROVE cursor'[q] = cursor[q]
        BY Zenon, <1>1, <2>2
      <4> QED
        BY <1>1, <2>2
        DEF Next, Step, TypeOK, vars, procVars, Go, CheckFile, CreateFile, TryLock, LockError,
            StampLock, InspectLock, RemoveLock, Unlock, Sync, Write, Start, Crash, Restart, Expire
    <3> QED BY SMTT(20), <1>3, <1>5, <3>2, <3>3
  <2> QED BY Zenon, <2>1, <2>2
<1> QED BY Zenon, <1>2, <1>3, <1>4, <1>5

(* No key is bound twice.                                                  *)
LEMMA WriteOnceStep ==
  ASSUME TypeOK, LockOwned, FileKnown, WriteOnce, [Next]_vars
  PROVE  WriteOnce'
<1> SUFFICES ASSUME disturbed' = {},
                    NEW i \in 1 .. Len(file'), NEW j \in 1 .. Len(file'),
                    file'[i].key = file'[j].key
             PROVE  i = j
  BY Zenon DEF WriteOnce
<1>1. disturbed = {} /\ (file' = file \/ \E p \in Procs : Write(p))
  BY Zenon, OnlyWrites
<1>2. \A m, n \in 1 .. Len(file) : file[m].key = file[n].key => m = n
  BY Zenon, <1>1 DEF WriteOnce, FileKnown
<1>3. CASE file' = file BY Zenon, <1>2, <1>3
<1>4. ASSUME NEW p \in Procs, Write(p) PROVE i = j
  <2>1. op[p] \in Entry /\ file \in Seq(Entry \cup {Fragment})
    BY Zenon, <1>4 DEF Write, FileKnown, TypeOK
  <2>2. /\ Len(file) \in Nat /\ Len(file') = Len(file) + 1 /\ file'[Len(file) + 1] = op[p]
        /\ \A m \in 1 .. Len(file) : file'[m] = file[m]
    <3>1. file' = Append(file, op[p]) BY Zenon, <1>4, WholeWrite
    <3> QED BY <2>1, <3>1, Appended
  <2>3. \A m \in 1 .. Len(file) : file[m].key # op[p].key
    BY Zenon, <1>1, <1>4 DEF FileKnown, Write
  <2>4. \A m \in 1 .. Len(file') : m \in 1 .. Len(file) \/ m = Len(file) + 1
    BY <2>2
  <2> QED BY Zenon, <1>2, <2>2, <2>3, <2>4
<1> QED BY Zenon, <1>1, <1>3, <1>4

(* The answers of insert are backed by the file.                           *)
LEMMA HonestStep ==
  ASSUME TypeOK, LockOwned, MutualExclusion, FileKnown, WriteOnce, MemoryInFile, ResultHonest,
         [Next]_vars
  PROVE  ResultHonest'
<1> DEFINE Bound(q) == {i \in 1 .. Len(file) : file[i] \in Entry /\ file[i].key = op[q].key}
           Honest(q) ==
             /\ result[q] = "ok" => Bound(q) # {} /\ \A i \in Bound(q) : file[i].value = op[q].value
             /\ result[q] = "err" => \E i \in Bound(q) : file[i].value # op[q].value
<1> SUFFICES ASSUME disturbed' = {}, NEW q \in Procs, pc'[q] = "unlock", op'[q] # Load
             PROVE  Honest(q)'
  BY Zenon DEF ResultHonest
<1>1. disturbed = {} /\ (file' = file \/ \E p \in Procs : Write(p))
  BY Zenon, OnlyWrites
<1>2. CASE Write(q)
  <2>1. /\ op[q] \in Entry /\ file \in Seq(Entry \cup {Fragment})
        /\ \A m \in 1 .. Len(file) : file[m].key # op[q].key
    BY Zenon, <1>1, <1>2 DEF Write, FileKnown, TypeOK
  <2>2. /\ Len(file) \in Nat /\ Len(file') = Len(file) + 1 /\ file'[Len(file) + 1] = op[q]
        /\ \A m \in 1 .. Len(file) : file'[m] = file[m]
    <3>1. file' = Append(file, op[q]) BY Zenon, <1>2, WholeWrite
    <3> QED BY <2>1, <3>1, Appended
  <2>3. op' = op /\ result'[q] = "ok" BY Zenon, <1>2 DEF Write, TypeOK
  <2>4. \A m \in 1 .. Len(file') : m \in 1 .. Len(file) \/ m = Len(file) + 1
    BY <2>2
  <2>5. Len(file) + 1 \in Bound(q)' BY <2>1, <2>2, <2>3
  <2>6. \A m \in Bound(q)' : m = Len(file) + 1 BY Zenon, <2>1, <2>2, <2>3, <2>4
  <2> QED BY Zenon, <2>2, <2>3, <2>5, <2>6
<1>3. CASE Sync(q)
  <2>1. file' = file /\ op' = op /\ op[q] # Load /\ result'[q] = Outcome(q) /\ Outcome(q) # None
    BY Zenon, <1>3 DEF Sync, Go, MustWrite, TypeOK
  <2>2. op[q] \in Entry /\ op[q].key \in Keys /\ op[q].value \in Values BY Zenon, <2>1, OpEntry
  <2>3. \A i \in Bound(q) : file[i].value = Synced(q)[op[q].key]
    BY Zenon, <1>1, SyncedKnows
  <2>4. Synced(q)[op[q].key] # None => Bound(q) # {}
    <3> SUFFICES ASSUME Synced(q)[op[q].key] # None
                 PROVE  \E i \in 1 .. Len(file) : file[i] \in Entry /\ file[i].key = op[q].key
      BY Zenon
    <3>1. \E i \in 1 .. Len(file) : file[i] = [key |-> op[q].key, value |-> Synced(q)[op[q].key]]
      <4>1. CASE Synced(q)[op[q].key] = mem[q][op[q].key]
        BY <1>1, <2>2, <4>1 DEF MemoryInFile, Kept
      <4>2. CASE Synced(q)[op[q].key] # mem[q][op[q].key]
        <5>1. PICK i \in ReadableFor(q, op[q].key) :
                /\ i \in 1 .. Len(file) /\ Synced(q)[op[q].key] = file[i].value
                /\ file[i] = [key |-> op[q].key, value |-> file[i].value]
          BY Zenon, <2>2, <4>2, SyncedFrom
        <5> QED BY Zenon, <5>1
      <4> QED BY Zenon, <4>1, <4>2
    <3> QED BY <1>1, <3>1 DEF FileKnown
  <2>5. KeyOutOfSync(q) => \E i \in Bound(q) : file[i].value # op[q].value
    BY Zenon, ReadableEntries DEF KeyOutOfSync, ReadableFor
  <2>6. CASE Outcome(q) = "ok"
    <3>1. Synced(q)[op[q].key] = op[q].value BY Zenon, <2>1, <2>6, OutcomeCases
    <3>2. Bound(q) # {} /\ \A i \in Bound(q) : file[i].value = op[q].value
      BY Zenon, NoneApart, <2>2, <2>3, <2>4, <3>1
    <3> QED BY Zenon, <2>1, <2>6, <3>2
  <2>7. CASE Outcome(q) = "err"
    <3>1. KeyOutOfSync(q) \/ Synced(q)[op[q].key] \notin {None, op[q].value}
      BY Zenon, <2>1, <2>7, OutcomeCases
    <3>2. \E i \in Bound(q) : file[i].value # op[q].value
      BY Zenon, <2>3, <2>4, <2>5, <3>1
    <3> QED BY Zenon, <2>1, <2>7, <3>2
  <2> QED BY Zenon, <2>1, <2>6, <2>7, OutcomeCases
<1>4. CASE ~Sync(q) /\ ~Write(q)
  <2>1. pc[q] = "unlock" /\ op'[q] = op[q] /\ result'[q] = result[q]
    <3> USE DEF TypeOK, Go
    <3>1. ASSUME NEW p \in Procs, Step(p), p = q PROVE FALSE
      BY Zenon, <1>4, <3>1
      DEF Step, CheckFile, CreateFile, TryLock, StampLock, InspectLock, RemoveLock, Unlock
    <3>2. ASSUME NEW p \in Procs, Step(p), p # q
          PROVE  pc'[q] = pc[q] /\ op'[q] = op[q] /\ result'[q] = result[q]
      BY Zenon, <3>2
      DEF Step, CheckFile, CreateFile, TryLock, StampLock, InspectLock, RemoveLock, Unlock,
          Sync, Write
    <3>3. ASSUME NEW p \in Procs,
                 LockError(p) \/ Crash(p) \/ Restart(p) \/ \E o \in Entry \cup {Load} : Start(p, o)
          PROVE  pc[q] = "unlock" /\ op'[q] = op[q] /\ result'[q] = result[q]
      BY <3>3 DEF LockError, Crash, Restart, Start, procVars
    <3>4. CASE Expire BY Zenon, <3>4 DEF Expire, procVars
    <3>5. CASE UNCHANGED vars BY Zenon, <3>5 DEF vars
    <3> QED BY Zenon, <3>1, <3>2, <3>3, <3>4, <3>5 DEF Next
  <2>2. file' = file
    BY Zenon, <1>1, <1>4, <2>1 DEF Write, MutualExclusion, Holding, LocksKept
  <2>3. Honest(q) BY Zenon, <1>1, <2>1 DEF ResultHonest
  <2> QED BY <2>1, <2>2, <2>3
<1> QED BY Zenon, <1>2, <1>3, <1>4

(* A file that existed before is created again only by a process that      *)
(* could not tell.                                                         *)
LEMMA FoundStep ==
  ASSUME TypeOK, FoundIfThere, [Next]_vars
  PROVE  FoundIfThere'
<1> USE DEF FoundIfThere, TypeOK, Go
<1>1. ASSUME NEW p \in Procs, CheckFile(p) PROVE FoundIfThere'
  BY <1>1 DEF CheckFile, Fault, Disturb
<1>2. ASSUME NEW p \in Procs, CreateFile(p) PROVE FoundIfThere'
  BY <1>2, DisturbedGrows DEF CreateFile
<1>3. ASSUME NEW p \in Procs, Crash(p) PROVE FoundIfThere'
  BY <1>3, DisturbedGrows DEF Crash
<1>4. ASSUME NEW p \in Procs, LockError(p) PROVE FoundIfThere'
  BY <1>4, DisturbedGrows DEF LockError, procVars
<1>5. ASSUME NEW p \in Procs, Write(p) PROVE FoundIfThere'
  BY <1>5, DisturbedGrows DEF Write
<1>6. CASE Expire BY <1>6, DisturbedGrows DEF Expire, procVars
<1>7. ASSUME NEW p \in Procs,
             TryLock(p) \/ StampLock(p) \/ InspectLock(p) \/ RemoveLock(p) \/ Unlock(p) \/ Sync(p)
             \/ Restart(p) \/ \E o \in Entry \cup {Load} : Start(p, o)
      PROVE  FoundIfThere'
  BY <1>7 DEF history, TryLock, StampLock, InspectLock, RemoveLock, Unlock, Sync, Restart, Start
<1>8. CASE UNCHANGED vars BY Zenon, <1>8 DEF vars
<1> QED BY Zenon, <1>1, <1>2, <1>3, <1>4, <1>5, <1>6, <1>7, <1>8 DEF Next, Step

(* An entry whose insert was answered Ok was in memory then, and stays in  *)
(* the file.                                                               *)
LEMMA AnsweredStep ==
  ASSUME TypeOK, FileKnown, FoundIfThere, MemoryInFile, AnsweredInFile, [Next]_vars
  PROVE  AnsweredInFile'
<1>1. ASSUME NEW q \in Procs, pc'[q] = "unlock", result'[q] = "ok"
      PROVE  op'[q] \in Entry /\ mem'[q][op'[q].key] = op'[q].value
  <2>1. CASE Sync(q)
    <3>1. /\ op' = op /\ mem'[q] = Synced(q) /\ Outcome(q) = "ok"
      BY Zenon, <1>1, <2>1 DEF Sync, TypeOK
    <3>2. op[q] # Load BY Zenon, <3>1, NoneApart DEF Outcome
    <3> QED BY Zenon, <3>1, <3>2, OpEntry, OutcomeCases
  <2>2. CASE Write(q)
    <3>1. op' = op /\ op[q] \in Entry /\ op[q].key \in Keys
      BY Zenon, <2>2 DEF Write, FileKnown, Entry
    <3>2. mem'[q] = [mem[q] EXCEPT ![op[q].key] = op[q].value]
      BY Zenon, <2>2 DEF Write, TypeOK
    <3> QED BY <3>1, <3>2 DEF TypeOK
  <2>3. CASE ~Sync(q) /\ ~Write(q)
    <3>1. /\ pc[q] = "unlock" /\ op'[q] = op[q] /\ result'[q] = result[q] /\ mem'[q] = mem[q]
      <4> USE DEF TypeOK, Go
      <4>1. ASSUME NEW p \in Procs, Step(p), p = q PROVE FALSE
        BY Zenon, <1>1, <2>3, <4>1
        DEF Step, CheckFile, CreateFile, TryLock, StampLock, InspectLock, RemoveLock, Unlock
      <4>2. ASSUME NEW p \in Procs, Step(p), p # q
            PROVE  pc'[q] = pc[q] /\ op'[q] = op[q] /\ result'[q] = result[q] /\ mem'[q] = mem[q]
        BY Zenon, <4>2
        DEF Step, CheckFile, CreateFile, TryLock, StampLock, InspectLock, RemoveLock, Unlock,
            Sync, Write
      <4>3. ASSUME NEW p \in Procs,
                   LockError(p) \/ Crash(p) \/ Restart(p)
                   \/ \E o \in Entry \cup {Load} : Start(p, o)
            PROVE  /\ pc[q] = "unlock" /\ op'[q] = op[q] /\ result'[q] = result[q]
                   /\ mem'[q] = mem[q]
        BY <1>1, <4>3 DEF LockError, Crash, Restart, Start, procVars
      <4>4. CASE Expire BY Zenon, <1>1, <4>4 DEF Expire, procVars
      <4>5. CASE UNCHANGED vars BY Zenon, <1>1, <4>5 DEF vars
      <4> QED BY Zenon, <1>1, <4>1, <4>2, <4>3, <4>4, <4>5 DEF Next
    <3> QED BY Zenon, <1>1, <3>1 DEF AnsweredInFile
  <2> QED BY Zenon, <2>1, <2>2, <2>3
<1>2. ASSUME Kept', NEW e \in answered'
      PROVE  \E i \in 1 .. Len(file') : file'[i] = e
  <2>1. /\ Kept
        /\ Len(file) \in Nat /\ Len(file') \in Nat /\ Len(file) <= Len(file')
        /\ \A i \in 1 .. Len(file) : file'[i] = file[i]
    BY Zenon, <1>2, EntriesStay
  <2>2. \E i \in 1 .. Len(file) : file[i] = e
    <3>1. CASE e \in answered BY Zenon, <2>1, <3>1 DEF AnsweredInFile
    <3>2. ASSUME NEW p \in Procs, Unlock(p), e \notin answered
          PROVE  \E i \in 1 .. Len(file) : file[i] = e
      <4>1. pc[p] = "unlock" /\ result[p] = "ok" /\ e = op[p] BY Zenon, <1>2, <3>2 DEF Unlock
      <4>2. e \in Entry /\ mem[p][e.key] = e.value BY Zenon, <4>1 DEF AnsweredInFile
      <4>3. e.key \in Keys /\ e.value # None /\ e = [key |-> e.key, value |-> e.value]
        BY Zenon, <4>2, NoneApart DEF Entry
      <4>4. \E i \in 1 .. Len(file) : file[i] = [key |-> e.key, value |-> mem[p][e.key]]
        BY Zenon, <2>1, <4>2, <4>3 DEF MemoryInFile
      <4> QED BY Zenon, <4>2, <4>3, <4>4
    <3>3. e \in answered \/ \E p \in Procs : Unlock(p)
      BY Zenon, <1>2
      DEF Next, Step, vars, history, CheckFile, CreateFile, TryLock, LockError, StampLock,
          InspectLock, RemoveLock, Sync, Write, Start, Crash, Restart, Expire
    <3> QED BY Zenon, <3>1, <3>2, <3>3
  <2> QED BY <2>1, <2>2
<1> QED BY Zenon, <1>1, <1>2 DEF AnsweredInFile

-----------------------------------------------------------------------------
(* The results                                                             *)

LEMMA NextInv == LockInv /\ [Next]_vars => LockInv'
<1> SUFFICES ASSUME LockInv, [Next]_vars PROVE LockInv' BY Zenon
<1> USE DEF LockInv
<1>1. TypeOK' BY Zenon, TypeStep
<1>2. LockOwned' /\ MutualExclusion'
  <2>1. LockOwned' BY Zenon, OwnedStep
  <2> QED BY <2>1, OwnedExcludes, PTL
<1>3. FileKnown' BY Zenon, KnownStep
<1>4. WriteOnce' BY Zenon, WriteOnceStep
<1>5. MemoryInFile' BY Zenon, MemoryStep
<1>6. ResultHonest' BY Zenon, HonestStep
<1>7. FoundIfThere' BY Zenon, FoundStep
<1>8. AnsweredInFile' BY Zenon, AnsweredStep
<1> QED BY Zenon, <1>1, <1>2, <1>3, <1>4, <1>5, <1>6, <1>7, <1>8

(* For any number of processes, keys, values, operations and faults: the   *)
(* lock file keeps processes apart until one is lost, and the file, which  *)
(* binds no key twice, backs what processes remember and insert answers,   *)
(* each for as long as what it rests on holds.                             *)
THEOREM LockProtects == Spec => []LockInv
BY InitInv, NextInv, PTL DEF Spec

(* What insert answered Ok is there for every process that starts later,   *)
(* whatever becomes of the locks and of the processes that held them.      *)
THEOREM AnswersSurvive == Spec => []AnswersKept
<1>1. LockInv => AnswersKept
  <2> SUFFICES ASSUME LockInv, Kept, \A i \in 1 .. Len(file) : file[i] # Fragment,
                      NEW e \in answered
               PROVE  \E i \in ParsedFrom(0) : file[i] = e
    BY Zenon DEF AnswersKept
  <2>1. PICK i \in 1 .. Len(file) : file[i] = e BY Zenon DEF LockInv, AnsweredInFile
  <2>2. i \in 0 + 1 .. Len(file) /\ (i = 0 + 1 \/ i - 1 \in 1 .. Len(file))
    BY <2>1 DEF LockInv, TypeOK
  <2>3. i \in ParsedFrom(0) BY Zenon, <2>1, <2>2 DEF ParsedFrom
  <2> QED BY Zenon, <2>1, <2>3
<1> QED BY <1>1, LockProtects, PTL

(* The file implements the write-once map, for as long as it promises      *)
(* anything: the steps of the processes are stutters but for the write,    *)
(* which binds a key that was free.                                        *)
THEOREM ImplementsWriteOnceMap == Spec => RefinesWriteOnceMap
<1>1. Init => Abstract!Init
  BY DEF Init, Abstract!Init, FileMap
<1>2. ASSUME LockInv, LockInv', [Next]_vars
      PROVE  [Abstract!Next]_<<FileMap, disturbed # {}>>
  <2> USE DEF LockInv
  <2>1. CASE disturbed' # {}
    BY Zenon, <2>1 DEF Abstract!Next, Abstract!Disturb
  <2>2. CASE disturbed' = {} /\ file' = file
    <3>1. FileMap' = FileMap BY Zenon, <2>2 DEF FileMap
    <3>2. disturbed = {} BY Zenon, <1>2, <2>2, OnlyWrites
    <3> QED BY Zenon, <2>2, <3>1, <3>2
  <2>3. ASSUME disturbed' = {}, NEW p \in Procs, Write(p)
        PROVE  Abstract!Put(op[p].key, op[p].value) /\ op[p].key \in Keys /\ op[p].value \in Values
    <3>1. /\ op[p] \in Entry /\ op[p].key \in Keys /\ op[p].value \in Values
          /\ file \in Seq(Entry \cup {Fragment}) /\ disturbed = {}
          /\ \A i \in 1 .. Len(file) : file[i] \in Entry /\ file[i].key # op[p].key
      <4>1. disturbed = {} BY Zenon, <1>2, <2>3, OnlyWrites
      <4>2. op[p] \in Entry /\ file \in Seq(Entry \cup {Fragment})
        BY Zenon, <1>2, <2>3 DEF FileKnown, Write, TypeOK
      <4>3. \A i \in 1 .. Len(file) : file[i] \in Entry /\ file[i].key # op[p].key
        BY Zenon, <1>2, <2>3, <4>1 DEF FileKnown, Write
      <4> QED BY Zenon, <4>1, <4>2, <4>3 DEF Entry
    <3>2. /\ Len(file) \in Nat /\ Len(file') = Len(file) + 1 /\ file'[Len(file) + 1] = op[p]
          /\ \A i \in 1 .. Len(file) : file'[i] = file[i]
      <4>1. file' = Append(file, op[p]) BY Zenon, <2>3, WholeWrite
      <4> QED BY <3>1, <4>1, Appended
    <3>3. FileMap[op[p].key] = None BY Zenon, <3>1 DEF FileMap
    <3>4. FileMap' = [FileMap EXCEPT ![op[p].key] = op[p].value]
      <4>1. ASSUME NEW k \in Keys, k # op[p].key PROVE FileMap'[k] = FileMap[k]
        <5>1. {i \in 1 .. Len(file') : file'[i] \in Entry /\ file'[i].key = k}
              = {i \in 1 .. Len(file) : file[i] \in Entry /\ file[i].key = k}
          BY <3>1, <3>2, <4>1
        <5> DEFINE bound == {i \in 1 .. Len(file) : file[i] \in Entry /\ file[i].key = k}
        <5>2. bound # {} => Last(bound) \in 1 .. Len(file)
          BY Zenon, <3>2, LastPosition
        <5>3. FileMap[k] = IF bound = {} THEN None ELSE file[Last(bound)].value
          BY Zenon DEF FileMap
        <5>4. FileMap'[k] = IF bound = {} THEN None ELSE file'[Last(bound)].value
          BY Zenon, <5>1 DEF FileMap
        <5> HIDE DEF bound
        <5> QED BY Zenon, <3>2, <5>2, <5>3, <5>4
      <4>2. FileMap'[op[p].key] = op[p].value
        <5> DEFINE bound == {i \in 1 .. Len(file') : file'[i] \in Entry /\ file'[i].key = op[p].key}
        <5>1. Len(file) + 1 \in bound /\ \A i \in bound : i = Len(file) + 1
          BY <3>1, <3>2
        <5>2. Last(bound) = Len(file) + 1
          <6>1. Len(file') \in Nat /\ bound \in SUBSET (1 .. Len(file')) /\ bound # {}
            BY <3>2, <5>1
          <6> HIDE DEF bound
          <6>2. Last(bound) \in bound BY Zenon, <6>1, LastPosition
          <6> QED BY Zenon, <5>1, <6>2
        <5>3. FileMap'[op[p].key] = IF bound = {} THEN None ELSE file'[Last(bound)].value
          BY Zenon, <3>1 DEF FileMap
        <5> HIDE DEF bound
        <5> QED BY Zenon, <3>2, <5>1, <5>2, <5>3
      <4>3. FileMap = [k \in Keys |-> FileMap[k]] /\ FileMap' = [k \in Keys |-> FileMap'[k]]
        BY Zenon DEF FileMap
      <4> QED BY Zenon, <4>1, <4>2, <4>3
    <3> QED BY Zenon, <2>3, <3>1, <3>3, <3>4 DEF Abstract!Put
  <2> QED BY Zenon, <1>2, <2>1, <2>2, <2>3, OnlyWrites DEF Abstract!Next
<1> QED BY <1>1, <1>2, LockProtects, PTL DEF Spec, RefinesWriteOnceMap, Abstract!Spec
=============================================================================
