--------------------------- MODULE ExclusiveMemory ---------------------------
(***************************************************************************)
(* MemoryManagement of cubecl-runtime configured with exclusive pages, and *)
(* its static pool: one slice per page, reuse of free pages, and the       *)
(* return of unused pages to the storage.                                  *)
(*                                                                         *)
(* A page is named by its storage id. Clients hold references to the slice *)
(* of a page and drop them at any moment. The moving average of requested  *)
(* sizes, which a new page is sized by, lies between 0 and the largest     *)
(* size of the pool: any such size may be chosen. The counter of reserves  *)
(* is kept as the distance to each pool's last check, up to its period.    *)
(***************************************************************************)
EXTENDS Integers, Sequences, FiniteSets, FiniteSetsExt

CONSTANTS
  Pools,            \* sequence of [max : max_alloc_size, period : check period]
  Alignment,
  Sizes,            \* requested sizes
  AllocAfterFree,   \* ALLOC_AFTER_FREE, 5 in the code
  MaxPages,         \* bound: pages alive
  MaxRefs           \* bound: references of a slice

PoolIds == 1 .. Len(Pools)
StaticPool == 0

ASSUME MemoryAssumption ==
  /\ Pools \in Seq([max : Nat, period : Nat])
  /\ Alignment \in Nat \ {0}
  /\ \A i \in PoolIds : Pools[i].max % Alignment = 0
  /\ Sizes \subseteq Nat
  /\ \A size \in Sizes : \E i \in PoolIds : size <= Pools[i].max
  /\ AllocAfterFree \in Nat \ {0} /\ MaxPages \in Nat /\ MaxRefs \in Nat \ {0}

VARIABLES
  page,      \* the pages: storage id |-> MemoryPage
  refs,      \* client references to the slice of each page
  storage,   \* storage ids allocated on the device
  since,     \* reserves since a pool's last_dealloc_check, up to its period
  mode       \* MemoryAllocationMode

memoryVars == <<page, refs, storage, since, mode>>

Ids == 1 .. MaxPages
Page == [pool : PoolIds \cup {StaticPool}, alloc_size : Nat, size : Nat, padding : Nat,
         free_count : 0 .. AllocAfterFree]

Pages(i) == {id \in DOMAIN page : page[id].pool = i}
Free(id) == refs[id] = 0

CalculatePadding(size) == (Alignment - (size % Alignment)) % Alignment

InitMemory ==
  /\ page = <<>> /\ refs = [id \in Ids |-> 0] /\ storage = {}
  /\ since = [i \in PoolIds |-> 0]
  /\ mode = "auto"

(* Memory given out: a page not in use yet, on a fresh storage id.         *)
NewPage(id, new) ==
  /\ id = Min(Ids \ storage)
  /\ page' = [i \in DOMAIN page \cup {id} |-> IF i = id THEN new ELSE page[i]]
  /\ storage' = storage \cup {id}
  /\ refs' = [refs EXCEPT ![id] = 1]

-----------------------------------------------------------------------------
(* StaticPool::alloc: in static mode every reserve allocates.              *)
ReserveStatic(size) ==
  /\ mode = "static" /\ storage # Ids
  /\ \E id \in Ids : NewPage(id, [pool |-> StaticPool, free_count |-> 0,
                                  alloc_size |-> size + CalculatePadding(size),
                                  size |-> size + CalculatePadding(size),
                                  padding |-> CalculatePadding(size)])
  /\ UNCHANGED <<since, mode>>

(* The first pool that takes the size.                                     *)
PoolFor(size) == Min({i \in PoolIds : Pools[i].max >= size})

Counted == [i \in PoolIds |-> Min({since[i] + 1, Pools[i].period})]

(* get_free_page: of the pages that fit, one seen free least often.        *)
Candidates_InUse(size, exclude) ==
  {id \in Pages(PoolFor(size)) : page[id].alloc_size >= size /\ id \notin exclude}

Candidates(size, exclude) ==
  {id \in Pages(PoolFor(size)) : page[id].alloc_size >= size /\ Free(id) /\ id \notin exclude}

Decremented(n) == IF n = 0 THEN 0 ELSE n - 1

Reuse(size, exclude) ==
  \E id \in Candidates(size, exclude) :
    /\ \A other \in Candidates(size, exclude) : page[id].free_count <= page[other].free_count
    /\ page' = [page EXCEPT ![id] = [@ EXCEPT !.size = size,
                                              !.padding = CalculatePadding(size),
                                              !.free_count = Decremented(page[id].free_count)]]
    /\ refs' = [refs EXCEPT ![id] = @ + 1]
    /\ UNCHANGED storage

(* alloc_page: as large as the average request, rounded up.                *)
AllocSize(size, average) ==
  LET n == Max({size, average}) IN n + CalculatePadding(n)

AllocPage(size) ==
  /\ storage # Ids
  /\ \E id \in Ids, average \in 0 .. Pools[PoolFor(size)].max :
       NewPage(id, [pool |-> PoolFor(size), free_count |-> AllocAfterFree - 1,
                    alloc_size |-> AllocSize(size, average),
                    size |-> size, padding |-> CalculatePadding(size)])

ReserveReuse(size, exclude) ==
  /\ mode = "auto" /\ Candidates(size, exclude) # {}
  /\ since' = Counted
  /\ Reuse(size, exclude)
  /\ UNCHANGED mode

ReserveAlloc(size, exclude) ==
  /\ mode = "auto" /\ Candidates(size, exclude) = {}
  /\ since' = Counted
  /\ AllocPage(size)
  /\ UNCHANGED mode

-----------------------------------------------------------------------------
(* MemoryManagement::cleanup, of the static pool and of every pool whose   *)
(* turn it is. A page found free often enough goes back to the storage.    *)
Checked_ExplicitOnly(explicit) == {i \in PoolIds : explicit}
Checked(explicit) == {i \in PoolIds : explicit \/ since[i] >= Pools[i].period}

Seen(explicit) == {id \in DOMAIN page : page[id].pool \in Checked(explicit) /\ Free(id)}

(* The static pool returns its free pages when asked to.                   *)
DroppedStatic(explicit) == {id \in Pages(StaticPool) : explicit /\ Free(id)}

Dropped_InUse(explicit) ==
  {id \in DOMAIN page : page[id].pool \in Checked(explicit)
                        /\ (explicit \/ page[id].free_count + 1 >= AllocAfterFree)}

Dropped(explicit) ==
  {id \in Seen(explicit) : explicit \/ page[id].free_count + 1 >= AllocAfterFree}
  \cup DroppedStatic(explicit)

Cleanup(explicit) ==
  /\ page' = [id \in DOMAIN page \ Dropped(explicit) |->
                IF id \in Seen(explicit) THEN [page[id] EXCEPT !.free_count = @ + 1] ELSE page[id]]
  /\ storage' = storage \ Dropped(explicit)
  /\ since' = [i \in PoolIds |-> IF i \in Checked(explicit) THEN 0 ELSE since[i]]
  /\ UNCHANGED <<refs, mode>>

-----------------------------------------------------------------------------
SetMode(m) == mode' = m /\ UNCHANGED <<page, refs, storage, since>>

(* Client threads clone and drop handles and bindings.                     *)
CloneHandle(id) ==
  /\ refs[id] \in 1 .. MaxRefs - 1
  /\ refs' = [refs EXCEPT ![id] = @ + 1]
  /\ UNCHANGED <<page, storage, since, mode>>

DropHandle(id) ==
  /\ refs[id] > 0
  /\ refs' = [refs EXCEPT ![id] = @ - 1]
  /\ UNCHANGED <<page, storage, since, mode>>

Reserve ==
  \E size \in Sizes :
    \/ ReserveStatic(size)
    \/ \E exclude \in SUBSET Ids : ReserveReuse(size, exclude) \/ ReserveAlloc(size, exclude)

NextOfMemory ==
  \/ Reserve
  \/ \E explicit \in BOOLEAN : Cleanup(explicit)
  \/ \E m \in {"auto", "static"} : SetMode(m)
  \/ \E id \in Ids : CloneHandle(id) \/ DropHandle(id)

MemorySpec == InitMemory /\ [][NextOfMemory]_memoryVars

(* The stream goes on reserving in automatic mode and cleaning up.         *)
FairMemorySpec ==
  /\ MemorySpec /\ WF_memoryVars(Cleanup(FALSE)) /\ WF_memoryVars(SetMode("auto"))
  /\ SF_memoryVars(mode = "auto" /\ Reserve)

-----------------------------------------------------------------------------
(* Properties                                                              *)

(* Every variable has its type.                                            *)
MemoryTypes ==
  /\ DOMAIN page \subseteq Ids /\ page \in [DOMAIN page -> Page]
  /\ refs \in [Ids -> 0 .. MaxRefs]
  /\ storage \subseteq Ids
  /\ since \in [PoolIds -> Nat] /\ \A i \in PoolIds : since[i] <= Pools[i].period
  /\ mode \in {"auto", "static"}

(* The pages known to the pools are exactly what the storage holds: no     *)
(* allocation leaks and none is returned twice.                            *)
StorageAccounted == DOMAIN page = storage

(* A slice that a client holds is on a page of the storage: get finds it,  *)
(* and no cleanup, automatic or explicit, returns it.                      *)
HeldPagesExist == \A id \in Ids : refs[id] > 0 => id \in DOMAIN page /\ id \in storage

(* The slice of a page lies inside it, padding included, and a page is of  *)
(* whole alignment units and not larger than its pool allows.              *)
SliceFits ==
  \A id \in DOMAIN page :
    /\ page[id].size <= page[id].alloc_size
    /\ page[id].alloc_size % Alignment = 0
    /\ page[id].pool # StaticPool =>
         /\ page[id].size + page[id].padding <= page[id].alloc_size
         /\ page[id].alloc_size <= Pools[page[id].pool].max

(* The pools and the storage agree on the pages, and every slice in use    *)
(* lies inside a page of them, whatever was reserved, dropped and cleaned  *)
(* up, in either mode. As it stands this is inductive.                     *)
MemoryInv == MemoryTypes /\ StorageAccounted /\ HeldPagesExist /\ SliceFits

(* A slice keeps its place and size for as long as anyone holds it, so a   *)
(* reserve never hands out a page in use, and a reserve that reuses a page *)
(* takes none the caller excluded because recorded work still needs it.    *)
HeldPagesStable ==
  [][/\ \A id \in Ids : refs[id] > 0 =>
          /\ page'[id].size = page[id].size /\ page'[id].alloc_size = page[id].alloc_size
     /\ \A size \in Sizes, exclude \in SUBSET Ids :
          ReserveReuse(size, exclude) => \A id \in exclude : refs'[id] = refs[id]]_memoryVars

(* A page that nobody uses any more is returned or reused.                 *)
UnusedPagesGo ==
  \A id \in Ids : (id \in DOMAIN page /\ Free(id) /\ page[id].pool # StaticPool) ~>
                  (id \notin DOMAIN page \/ ~Free(id))
=============================================================================
