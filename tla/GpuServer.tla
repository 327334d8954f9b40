------------------------------ MODULE GpuServer ------------------------------
(***************************************************************************)
(* CudaServer and HipServer: calls of the client become work on one device *)
(* stream, which runs it in order while the server goes on.                *)
(*                                                                         *)
(* A launch passes kernel arguments as pointers to pointers: CudaStorage   *)
(* keeps the inner ones in a ring of slots, HipStorage in a hash map. Both *)
(* only collect what the memory management gives back in deallocations.    *)
(*                                                                         *)
(* A buffer is a whole page, named by its device address. What the pools   *)
(* choose is left open: any page that nobody holds, or new memory. Copies  *)
(* from pageable host memory are staged when they are enqueued; a copy to  *)
(* it has been made when the call returns, and so has all work before it.  *)
(*                                                                         *)
(* The server is behind a spinlock that knows no poisoning: a panic in a   *)
(* call goes to the caller, and the next call finds the server as it was   *)
(* left. A reserve that finds no memory changes nothing.                   *)
(***************************************************************************)
EXTENDS Integers, Sequences, SequencesExt, FiniteSets

CONSTANTS
  Backends,    \* subset of {"cuda", "hip"}
  Handles,     \* buffers of clients
  Calls,       \* launches, see Call
  Kernels,     \* kernel ids
  Tokens,      \* profiles open at a time
  NumPtrs,     \* pages that the device has memory for
  NumSlots,    \* CUDA_MAX_BINDINGS, 1024 in the code
  FirstRoom,   \* keys that a hash map has room for at first, 3 in the code
  MaxStream,   \* bound: work enqueued and not yet done
  Null

Ptrs == 1 .. NumPtrs   \* device addresses, in the order of their allocation

(* A launch: the buffer of a dynamic cube count or Null, the buffers       *)
(* behind tensor maps, the buffers bound, and how many more are created    *)
(* for metadata and scalars.                                               *)
Call == [kernel : Kernels, count : Handles \cup {Null}, maps : Seq(Handles),
         buffers : Seq(Handles), created : Nat]

ASSUME GpuAssumption ==
  /\ Backends \subseteq {"cuda", "hip"} /\ NumSlots \in Nat \ {0} /\ FirstRoom \in Nat \ {0}
  /\ NumPtrs \in Nat /\ MaxStream \in Nat
  /\ Calls \subseteq Call /\ Null \notin Handles
  /\ \A c \in Calls : Len(c.buffers) + c.created <= NumSlots

VARIABLES
  backend,
  allocated,      \* memory of the storage, a map from ids to pointers
  deallocations,  \* those of it that the pools gave back
  address,        \* page of each buffer, or Null
  bindings,       \* PtrBindings of CUDA, activate_slices of HIP
  modules,        \* module_names
  queue,          \* work enqueued on the device
  mem,            \* contents of the pages: Null, "data" or "result"
  timestamps,     \* open profiles of TimestampProfiler
  status,         \* "up", or "undefined" after undefined behaviour
  contents        \* history: what each buffer holds after the calls so far

memory == <<allocated, deallocations, address>>
device == <<queue, mem>>
gpuVars == <<backend, memory, bindings, modules, device, timestamps, status, contents>>

Up == status = "up"

(* What n reserves may return: pages that nobody holds, or new memory.     *)
Free_Held == allocated \ deallocations
Free == allocated \ ({address[h] : h \in Handles} \cup deallocations)

Fresh(n) ==
  {ps \in [1 .. n -> Free \cup (Ptrs \ allocated)] :
     /\ IsInjective(ps)
     /\ \A i \in 1 .. n :
          ps[i] \in Free \/ ps[i] - 1 \in allocated \cup {0} \cup {ps[j] : j \in 1 .. i - 1}}

NoBindings == [slots |-> <<>>, cursor |-> 0, keys |-> {}, room |-> 0, got |-> <<>>]
Nothing(domain) == [x \in domain |-> Null]

InitGpu ==
  /\ backend \in Backends /\ status = "up"
  /\ allocated = {} /\ deallocations = {} /\ address = Nothing(Handles)
  /\ bindings = NoBindings /\ modules = {} /\ queue = <<>> /\ mem = Nothing(Ptrs)
  /\ timestamps = {} /\ contents = Nothing(Handles)

-----------------------------------------------------------------------------
(* ComputeStorage::get                                                     *)
NextCursor_Last(i) == IF i + 2 >= NumSlots THEN 0 ELSE i + 1
NextCursor(i) == IF i + 1 >= NumSlots THEN 0 ELSE i + 1

(* PtrBindings::register                                                   *)
RegisterSlot(b, ptr) ==
  [b EXCEPT !.slots = (b.cursor :> ptr) @@ @, !.cursor = NextCursor(b.cursor),
            !.got = Append(@, b.cursor)]

(* A hash map has room for 3, 7, 14, 28... keys. It moves when it is full  *)
(* and something is inserted, also under a key that it has.                *)
Grown(n) == IF n = 0 THEN FirstRoom ELSE IF n = FirstRoom THEN 2 * n + 1 ELSE 2 * n

Activate(b, ptr) ==
  LET room == IF Cardinality(b.keys) < b.room THEN b.room ELSE Grown(b.room)
  IN [b EXCEPT !.keys = @ \cup {ptr}, !.room = room, !.got = Append(@, <<room, ptr>>)]

Get(b, ptr) == IF backend = "cuda" THEN RegisterSlot(b, ptr) ELSE Activate(b, ptr)
GetAll(b, ptrs) == FoldLeft(Get, [b EXCEPT !.got = <<>>], ptrs)

(* The slots are read by the launch that filled them only: what they hold  *)
(* is not kept between calls.                                              *)
Settled(b) == [b EXCEPT !.got = <<>>, !.slots = <<>>]

(* What a binding points to: nothing, once the map has moved.              *)
Deref(b, binding) ==
  IF backend = "cuda" THEN b.slots[binding]
  ELSE IF binding[1] = b.room THEN binding[2] ELSE Null

(* HipStorage::flush                                                       *)
FlushedKeys(b) == [b EXCEPT !.keys = {}]

-----------------------------------------------------------------------------
(* The stream. Work carries the profiles that are open.                    *)
Write(ptr) == [val |-> "data", args |-> <<ptr>>, bound |-> <<ptr>>]

Enqueued(work) == [i \in DOMAIN work |-> work[i] @@ [during |-> timestamps]]

Enqueue(work) ==
  /\ Len(queue) + Len(work) <= MaxStream
  /\ queue' = queue \o Enqueued(work)
  /\ UNCHANGED mem

(* The pages once work is done, in order.                                  *)
Drained(m, work) ==
  [p \in Ptrs |->
     LET writers == {i \in DOMAIN work : p \in Range(work[i].args)}
     IN IF writers = {} THEN m[p] ELSE work[Max(writers)].val]

Device ==
  /\ Up /\ queue # <<>>
  /\ mem' = Drained(mem, <<Head(queue)>>)
  /\ queue' = Tail(queue)
  /\ UNCHANGED <<backend, memory, bindings, modules, timestamps, status, contents>>

(* The server waits until all work is done.                                *)
Synchronize_Not == UNCHANGED device
Synchronize == mem' = Drained(mem, queue) /\ queue' = <<>>

-----------------------------------------------------------------------------
(* empty: MemoryManagement::reserve, of a page or of new memory.           *)
Reserve(h, ptr) ==
  /\ Up /\ address[h] = Null /\ <<ptr>> \in Fresh(1)
  /\ allocated' = allocated \cup {ptr}
  /\ address' = [address EXCEPT ![h] = ptr]
  /\ UNCHANGED <<deallocations, backend, modules, timestamps, status>>

(* A new buffer holds what the work so far leaves in its page.             *)
EmptyBuffer(h) ==
  /\ \E ptr \in Ptrs :
       Reserve(h, ptr) /\ contents' = [contents EXCEPT ![h] = Drained(mem, queue)[ptr]]
  /\ UNCHANGED <<bindings, device>>

CreateBuffer(h) ==
  /\ \E ptr \in Ptrs :
       Reserve(h, ptr) /\ bindings' = Settled(Get(bindings, ptr)) /\ Enqueue(<<Write(ptr)>>)
  /\ contents' = [contents EXCEPT ![h] = "data"]

(* The last reference to the handle is dropped.                            *)
DropBuffer(h) ==
  /\ Up /\ address[h] # Null
  /\ address' = [address EXCEPT ![h] = Null] /\ contents' = [contents EXCEPT ![h] = Null]
  /\ UNCHANGED <<backend, allocated, deallocations, bindings, modules, device, timestamps, status>>

(* memory_cleanup: storage.dealloc of every page that is free. There is no *)
(* action for perform_deallocations since nothing calls it.                *)
Cleanup ==
  /\ Up /\ Free # {}
  /\ deallocations' = deallocations \cup Free
  /\ UNCHANGED <<backend, allocated, address, bindings, modules, device, timestamps>>
  /\ UNCHANGED <<status, contents>>

GetBufferResource(h) ==
  /\ Up /\ address[h] # Null
  /\ bindings' = Settled(Get(bindings, address[h]))
  /\ UNCHANGED <<backend, memory, modules, device, timestamps, status, contents>>

(* read_async                                                              *)
Read(h) ==
  /\ Up /\ address[h] # Null
  /\ bindings' = Settled(Get(bindings, address[h]))
  /\ Synchronize
  /\ UNCHANGED <<backend, memory, modules, timestamps, status, contents>>

SyncDevice ==
  /\ Up /\ Synchronize
  /\ UNCHANGED <<backend, memory, bindings, modules, timestamps, status, contents>>

-----------------------------------------------------------------------------
(* execute                                                                 *)
PtrsOf(handles) == [i \in DOMAIN handles |-> address[handles[i]]]

(* The storage after the buffers ps were created, and after all arguments  *)
(* were looked up.                                                         *)
AfterCreates(b, ps) == GetAll(b, ps)
AfterLookup(b, c, ps) ==
  GetAll(GetAll(AfterCreates(b, ps), PtrsOf(c.maps)), PtrsOf(c.buffers) \o ps)

(* The addresses that the kernel gets. Tensor maps hold them themselves.   *)
Arguments(b, c) == PtrsOf(c.maps) \o [i \in DOMAIN b.got |-> Deref(b, b.got[i])]

Kernel(b, c, ps) ==
  [val |-> "result", args |-> Arguments(b, c),
   bound |-> PtrsOf(c.maps) \o PtrsOf(c.buffers) \o ps]

Writes(ps) == [i \in DOMAIN ps |-> Write(ps[i])]

(* The work of a launch. A dynamic cube count is read before.              *)
Push(work, c) ==
  IF c.count = Null THEN Enqueue(work)
  ELSE /\ Len(work) <= MaxStream
       /\ queue' = Enqueued(work) /\ mem' = Drained(mem, queue)

(* What follows when a kernel gets a pointer that had moved is open.       *)
Launched(c, kernel) ==
  /\ status' = IF Null \in Range(kernel.args) THEN "undefined" ELSE status
  /\ contents' = [h \in Handles |->
                    IF h \in Range(c.maps \o c.buffers) THEN "result" ELSE contents[h]]

(* execute_task, with the storage as b. When it fails, open profiles are   *)
(* told to report the error instead of a time, or without one the caller   *)
(* panics.                                                                 *)
Launch(b, c, ps) ==
  LET after == AfterLookup(b, c, ps)
      kernel == Kernel(after, c, ps)
  IN /\ allocated' = allocated \cup Range(ps)
     /\ modules' = modules \cup {c.kernel}
     /\ bindings' = Settled(after)
     /\ \/ Push(Writes(ps) \o <<kernel>>, c) /\ Launched(c, kernel)
        \/ Push(Writes(ps), c) /\ UNCHANGED <<status, contents>>
     /\ UNCHANGED <<backend, deallocations, address, timestamps>>

(* HIP has no tensor maps and always creates a buffer for metadata.        *)
Callable(c) ==
  /\ Up
  /\ \A h \in (Range(c.buffers) \cup Range(c.maps) \cup {c.count}) \ {Null} : address[h] # Null
  /\ backend = "hip" => c.maps = <<>> /\ c.created > 0

(* For a dynamic cube count HIP synchronizes.                              *)
AfterCount(b, c) ==
  IF c.count = Null THEN b
  ELSE IF backend = "cuda" THEN Get(b, address[c.count]) ELSE FlushedKeys(Get(b, address[c.count]))

Execute(c) ==
  /\ Callable(c)
  /\ \E ps \in Fresh(c.created) : Launch(AfterCount(bindings, c), c, ps)

(* There is no memory for one of the buffers to be created, or             *)
(* compile_kernel panics. The buffers ps were created and are dropped, but *)
(* their writes are enqueued.                                              *)
Exhausted(ps) == Free \cup (Ptrs \ allocated) \subseteq Range(ps)

ExecutePanics(c) ==
  /\ Callable(c)
  /\ \E n \in 0 .. c.created : \E ps \in Fresh(n) :
       /\ IF n < c.created THEN Exhausted(ps) ELSE c.kernel \notin modules
       /\ allocated' = allocated \cup Range(ps)
       /\ bindings' = Settled(AfterCreates(AfterCount(bindings, c), ps))
       /\ Push(Writes(ps), c)
  /\ UNCHANGED <<backend, deallocations, address, modules, timestamps, status, contents>>

-----------------------------------------------------------------------------
StartProfile(t) ==
  /\ Up /\ t \notin timestamps
  /\ Synchronize
  /\ timestamps' = timestamps \cup {t}
  /\ UNCHANGED <<backend, memory, bindings, modules, status, contents>>

EndProfile(t) ==
  /\ Up /\ t \in timestamps
  /\ Synchronize
  /\ timestamps' = timestamps \ {t}
  /\ UNCHANGED <<backend, memory, bindings, modules, status, contents>>

Over == ~Up /\ UNCHANGED gpuVars

NextOfGpu ==
  \/ \E h \in Handles :
       EmptyBuffer(h) \/ CreateBuffer(h) \/ DropBuffer(h) \/ GetBufferResource(h) \/ Read(h)
  \/ \E c \in Calls : Execute(c) \/ ExecutePanics(c)
  \/ \E t \in Tokens : StartProfile(t) \/ EndProfile(t)
  \/ Cleanup \/ SyncDevice \/ Device \/ Over

GpuSpec == InitGpu /\ [][NextOfGpu]_gpuVars

-----------------------------------------------------------------------------
(* Properties                                                              *)

(* Every variable has its type, and buffers have pages of their own that   *)
(* the storage has not been told to free.                                  *)
GpuTypes ==
  /\ backend \in Backends /\ deallocations \subseteq allocated /\ allocated \subseteq Ptrs
  /\ \A h \in Handles : address[h] # Null => address[h] \in allocated \ deallocations
  /\ \A g, h \in Handles : address[g] = address[h] /\ address[g] # Null => g = h
  /\ bindings.cursor \in 0 .. NumSlots - 1 /\ Cardinality(bindings.keys) <= bindings.room
  /\ modules \subseteq Kernels /\ Len(queue) <= MaxStream
  /\ timestamps \subseteq Tokens

(* A profile contains the work of the launches made while it was open, and *)
(* no other: start_profile and end_profile wait for the stream.            *)
ProfilesExact == \A i \in DOMAIN queue : queue[i].during = timestamps

(* Work on the device belongs to the profiles that are open, and buffers   *)
(* do not share pages.                                                     *)
GpuInv == GpuTypes /\ ProfilesExact

(* On CUDA a kernel gets the addresses of the buffers it was launched      *)
(* with, in their order: the slots looked up for a launch all hold them    *)
(* when it is enqueued, wherever earlier calls and failed launches left    *)
(* the cursor of the ring.                                                 *)
LaunchedAsBound ==
  backend = "cuda" => \A i \in DOMAIN queue : queue[i].args = queue[i].bound

(* The same of every backend: the pointers that get returns stay where     *)
(* they are until the launch is enqueued. HIP may find the map full in the *)
(* middle of a launch: insert then moves those looked up before.           *)
PointersStayAlive == \A i \in DOMAIN queue : queue[i].args = queue[i].bound

(* Clients see buffers of their own, changed by their calls in the order   *)
(* of the calls: once the work on the device is done a buffer holds what   *)
(* the calls so far wrote to it, although pages are dropped and reused     *)
(* while work on them is still to be done, and calls panic on the way.     *)
BuffersAsCalled ==
  Up => \A h \in Handles : address[h] # Null => Drained(mem, queue)[address[h]] = contents[h]
=============================================================================
