----------------------------- MODULE SlicedPool -----------------------------
(***************************************************************************)
(* The sliced memory pool of cubecl-runtime: pages of PageSize bytes cut   *)
(* into slices, found by a ring buffer whose cursor remembers where the    *)
(* last search stopped.                                                    *)
(*                                                                         *)
(* The pool is driven by one thread at a time (the server is behind a lock *)
(* or a queue), but the reference counts of the handles are dropped and    *)
(* cloned by client threads at any moment, also while a search is running. *)
(* A search is therefore a sequence of small steps, one per read of a      *)
(* reference count that a client may change under it.                      *)
(*                                                                         *)
(* A storage id is the position of its page in the ring's queue: pages are *)
(* only ever appended (the pool never shrinks).                            *)
(***************************************************************************)
EXTENDS Integers, FiniteSets, FiniteSetsExt

CONSTANTS
  PageSize,      \* bytes of a page
  Alignment,     \* buffer alignment
  MaxAllocSize,  \* largest request the memory manager sends to this pool
  Sizes,         \* request sizes
  MaxPages,      \* bound: pages the storage can provide
  MaxRefs        \* bound: clones of one handle

(* Both factories of sliced pools give aligned pages and a maximum slice   *)
(* size of at most one page; size 0 is served by another pool.             *)
ASSUME PoolAssumption ==
  /\ PageSize \in Nat \ {0} /\ Alignment \in Nat \ {0}
  /\ PageSize % Alignment = 0
  /\ MaxAllocSize \in 1 .. PageSize
  /\ Sizes \subseteq 1 .. MaxAllocSize
  /\ MaxPages \in Nat /\ MaxRefs \in Nat \ {0}

Chunks == 0 .. MaxPages - 1
Addresses == 0 .. PageSize

(* A page is never cut into more slices than it has addresses.             *)
SliceIds == 1 .. MaxPages * PageSize
NoSlice == 0

VARIABLES
  pages,         \* page.slices of every page: address -> slice id
  ids,           \* the keys of SlicedPool.slices
  slices,        \* the values of SlicedPool.slices
  refs,          \* handles and bindings held outside the pool, per slice
  queue,         \* length of RingBuffer.queue
  cursor_chunk,
  cursor_slice,
  call           \* the reserve call in progress, with its locals

poolVars == <<pages, ids, slices, queue, cursor_chunk, cursor_slice>>
vars == <<pages, ids, slices, refs, queue, cursor_chunk, cursor_slice, call>>

Slice == [chunk : Chunks, offset : Addresses, size : 0 .. PageSize, padding : 0 .. PageSize]
BlankSlice == [chunk |-> 0, offset |-> 0, size |-> 0, padding |-> 0]

ReserveCall ==
  [pc : {"idle", "check", "merge"}, size : Sizes \cup {0}, exclude : SUBSET Chunks,
   pass : {1, 2}, chunk_index : 0 .. MaxPages, slice_index : Addresses,
   end : 0 .. MaxPages, max_second : 0 .. MaxPages]

Idle == [pc |-> "idle", size |-> 0, exclude |-> {}, pass |-> 1,
         chunk_index |-> 0, slice_index |-> 0, end |-> 0, max_second |-> 0]

-----------------------------------------------------------------------------
(* Slice helpers                                                           *)

CalculatePadding(size) ==
  IF size % Alignment # 0 THEN Alignment - (size % Alignment) ELSE 0

EffectiveSize(slice) == slice.size + slice.padding

NextSlicePosition(slice) == slice.offset + EffectiveSize(slice)

(* The slice that starts at an address of a page.                          *)
FindSlice(chunk, address) == IF address \in Addresses THEN pages[chunk][address] ELSE NoSlice

(* The handle kept by the pool is the only one left.                       *)
IsFree(s) == refs[s] = 0

(* Ids come from a global counter, so a new slice has an id that no slice  *)
(* and no handle uses. Which one does not matter: the model takes the one  *)
(* numbered by the place, if it can, so that states that differ only in    *)
(* the names of the slices are the same state.                             *)
FreshIds == {s \in SliceIds \ ids : refs[s] = 0}
IdFor(chunk, offset, unused) ==
  LET id == chunk * PageSize + offset + 1 IN IF id \in unused THEN id ELSE Min(unused)

NewSlice(chunk, offset, size) ==
  [chunk |-> chunk, offset |-> offset, size |-> size, padding |-> CalculatePadding(size)]

(* What the caller gets: the slice cut down to the requested bytes, the    *)
(* rest of its extent as padding.                                          *)
Resized(slice, size) ==
  [slice EXCEPT !.size = size, !.padding = EffectiveSize(slice) - size]

-----------------------------------------------------------------------------
Init ==
  /\ pages = [c \in Chunks |-> [a \in Addresses |-> NoSlice]]
  /\ ids = {}
  /\ slices = [s \in SliceIds |-> BlankSlice]
  /\ refs = [s \in SliceIds |-> 0]
  /\ queue = 0
  /\ cursor_chunk = 0
  /\ cursor_slice = 0
  /\ call = Idle

(* try_reserve enters find_free_slice: the first pass starts at the cursor *)
(* and goes to the end of the queue.                                       *)
TryReserve(size, exclude) ==
  /\ call.pc = "idle"
  /\ call' = [pc |-> "check", size |-> size, exclude |-> exclude, pass |-> 1,
              chunk_index |-> cursor_chunk, slice_index |-> cursor_slice,
              end |-> queue, max_second |-> cursor_chunk]
  /\ UNCHANGED <<poolVars, refs>>

Wanted == call.size + CalculatePadding(call.size)
Current == FindSlice(call.chunk_index, call.slice_index)
InRange == call.chunk_index < call.end

IsExcluded_Never(chunk) == FALSE
IsExcluded(chunk) == chunk \in call.exclude

(* The chunk holds nothing more, or is excluded: the cursor is left at the *)
(* start of this chunk and the search goes on with the next one.           *)
NextChunk ==
  /\ call.pc = "check" /\ InRange
  /\ IsExcluded(call.chunk_index) \/ Current = NoSlice
  /\ cursor_chunk' = call.chunk_index
  /\ cursor_slice' = 0
  /\ call' = [call EXCEPT !.chunk_index = @ + 1, !.slice_index = 0]
  /\ UNCHANGED <<pages, ids, slices, refs, queue>>

Fits(s) == EffectiveSize(slices[s]) >= Wanted /\ IsFree(s)

Shrunk(slice) == [slice EXCEPT !.size = Wanted, !.padding = 0]

(* The slice found keeps Wanted bytes; what is left over becomes a slice   *)
(* of its own when it is at least one alignment unit.                      *)
Split(s) ==
  LET slice == slices[s]
      rest == EffectiveSize(slice) - Wanted
      first == Shrunk(slice)
      next == slice.offset + Wanted
  IN  IF rest < Alignment
      THEN /\ slices' = [slices EXCEPT ![s] = Resized(slice, call.size)]
           /\ UNCHANGED <<pages, ids>>
      ELSE \E fresh \in FreshIds :
             /\ fresh = IdFor(slice.chunk, next, FreshIds)
             /\ ids' = ids \cup {fresh}
             /\ slices' = [slices EXCEPT
                   ![s] = Resized(first, call.size),
                   ![fresh] = [chunk |-> slice.chunk, offset |-> next, size |-> rest,
                               padding |-> CalculatePadding(rest - Alignment)]]
             /\ pages' = [pages EXCEPT ![call.chunk_index][next] = fresh]

CursorAfter_NoPadding(slice) == slice.offset + slice.size
CursorAfter(slice) == NextSlicePosition(slice)

(* A free slice that is large enough is split, the cursor moves behind it  *)
(* and try_reserve hands out a handle on it.                               *)
TakeSlice ==
  /\ call.pc = "check" /\ InRange /\ ~IsExcluded(call.chunk_index)
  /\ Current # NoSlice /\ Fits(Current)
  /\ Split(Current)
  /\ cursor_slice' = CursorAfter(slices'[Current])
  /\ cursor_chunk' = call.chunk_index
  /\ refs' = [refs EXCEPT ![Current] = 1]
  /\ call' = Idle
  /\ UNCHANGED queue

(* The slice is in use or too small at the moment its count is read.       *)
RejectSlice ==
  /\ call.pc = "check" /\ InRange /\ ~IsExcluded(call.chunk_index)
  /\ Current # NoSlice /\ ~Fits(Current)
  /\ call' = [call EXCEPT !.pc = "merge"]
  /\ UNCHANGED <<poolVars, refs>>

(* The id at the address behind the current slice; NoSlice at the end of   *)
(* the page.                                                               *)
NextSlice == FindSlice(call.chunk_index, NextSlicePosition(slices[Current]))

Mergeable_CurrentInUse == NextSlice # NoSlice /\ IsFree(NextSlice)
Mergeable == IsFree(Current) /\ NextSlice # NoSlice /\ IsFree(NextSlice)

MergedSize_PaddingTwice(first, next) == EffectiveSize(first) + EffectiveSize(next) + first.padding
MergedSize(first, next) == EffectiveSize(first) + EffectiveSize(next)

WithoutSlice(page, position) == [page EXCEPT ![position] = NoSlice]

(* merge_with_next_slice: the current slice swallows the free slice behind *)
(* it, and is looked at again.                                             *)
MergeWithNext ==
  /\ call.pc = "merge" /\ Mergeable
  /\ LET next == NextSlice
         position == NextSlicePosition(slices[Current])
         merged == MergedSize(slices[Current], slices[next])
     IN  /\ slices' = [slices EXCEPT
               ![Current] = [@ EXCEPT !.size = merged, !.padding = 0],
               ![next] = BlankSlice]
         /\ pages' = [pages EXCEPT ![call.chunk_index] = WithoutSlice(@, position)]
         /\ ids' = ids \ {next}
  /\ call' = [call EXCEPT !.pc = "check"]
  /\ UNCHANGED <<refs, queue, cursor_chunk, cursor_slice>>

Behind_Stuck(slice) == slice.offset
Behind(slice) == NextSlicePosition(slice)

(* Nothing to merge: the search goes on behind the current slice.          *)
Advance ==
  /\ call.pc = "merge" /\ ~Mergeable
  /\ call' = [call EXCEPT !.pc = "check", !.slice_index = Behind(slices[Current])]
  /\ UNCHANGED <<poolVars, refs>>

SecondEnd_Empty == 0
SecondEnd == IF queue < call.max_second THEN queue ELSE call.max_second

(* The first pass failed: the second starts over at the first chunk and    *)
(* ends before the chunk where the first one began.                        *)
SecondPass ==
  /\ call.pc = "check" /\ ~InRange /\ call.pass = 1
  /\ cursor_chunk' = 0
  /\ cursor_slice' = 0
  /\ call' = [call EXCEPT !.pass = 2, !.chunk_index = 0, !.slice_index = 0,
                          !.end = SecondEnd]
  /\ UNCHANGED <<pages, ids, slices, refs, queue>>

TailSize(extent) == PageSize - extent

(* Both passes failed: a page is allocated, its head handed out and its    *)
(* tail, if there is one, kept as a free slice. The cursor does not move.  *)
Alloc ==
  /\ call.pc = "check" /\ ~InRange /\ call.pass = 2 /\ queue < MaxPages
  /\ LET slice == NewSlice(queue, 0, call.size)
         extent == EffectiveSize(slice)
     IN  \E head \in FreshIds :
           /\ head = IdFor(queue, 0, FreshIds)
           /\ refs' = [refs EXCEPT ![head] = 1]
           /\ \/ /\ extent < PageSize
                 /\ \E tail \in FreshIds \ {head} :
                      /\ tail = IdFor(queue, extent, FreshIds \ {head})
                      /\ ids' = ids \cup {head, tail}
                      /\ slices' = [slices EXCEPT
                            ![head] = slice, ![tail] = NewSlice(queue, extent, TailSize(extent))]
                      /\ pages' = [pages EXCEPT ![queue][0] = head, ![queue][extent] = tail]
              \/ /\ extent >= PageSize
                 /\ ids' = ids \cup {head}
                 /\ slices' = [slices EXCEPT ![head] = slice]
                 /\ pages' = [pages EXCEPT ![queue][0] = head]
  /\ queue' = queue + 1
  /\ call' = Idle
  /\ UNCHANGED <<cursor_chunk, cursor_slice>>

(* The storage has no memory left: it is asked for the page before         *)
(* anything else changes, so a failing allocation leaves the pool alone.   *)
AllocFails ==
  /\ call.pc = "check" /\ ~InRange /\ call.pass = 2 /\ queue = MaxPages
  /\ call' = Idle
  /\ UNCHANGED <<poolVars, refs>>

(* Client threads.                                                         *)
CloneHandle(s) ==
  /\ refs[s] \in 1 .. MaxRefs - 1
  /\ refs' = [refs EXCEPT ![s] = @ + 1]
  /\ UNCHANGED <<poolVars, call>>

DropHandle(s) ==
  /\ refs[s] > 0
  /\ refs' = [refs EXCEPT ![s] = @ - 1]
  /\ UNCHANGED <<poolVars, call>>

Search == NextChunk \/ TakeSlice \/ RejectSlice \/ MergeWithNext \/ Advance \/ SecondPass

Serve == Search \/ Alloc \/ AllocFails

Next ==
  \/ \E size \in Sizes, exclude \in SUBSET (0 .. queue - 1) : TryReserve(size, exclude)
  \/ Serve
  \/ \E s \in SliceIds : CloneHandle(s) \/ DropHandle(s)

Spec == Init /\ [][Next]_vars

(* The thread that serves a request keeps running.                         *)
FairSpec == Spec /\ WF_vars(Serve)

-----------------------------------------------------------------------------
(* Properties                                                              *)

(* Every variable has its type, and nothing is ever written past the end   *)
(* of a page: all offsets are at most PageSize.                            *)
TypeOK ==
  /\ pages \in [Chunks -> [Addresses -> SliceIds \cup {NoSlice}]]
  /\ ids \subseteq SliceIds
  /\ slices \in [SliceIds -> Slice]
  /\ refs \in [SliceIds -> 0 .. MaxRefs]
  /\ queue \in 0 .. MaxPages
  /\ cursor_chunk \in 0 .. MaxPages
  /\ cursor_slice \in Addresses
  /\ call \in ReserveCall

(* The page maps and the slice table describe the same slices: a slice is  *)
(* found at its own offset of its own page, and an address of a page leads *)
(* to a slice that starts there. The unwrap calls of the search and of     *)
(* merge_with_next_slice rest on it.                                       *)
PageMapAgrees ==
  /\ \A s \in ids : /\ slices[s].chunk < queue
                    /\ pages[slices[s].chunk][slices[s].offset] = s
  /\ \A c \in Chunks, a \in Addresses :
       pages[c][a] # NoSlice =>
         /\ pages[c][a] \in ids
         /\ slices[pages[c][a]].chunk = c
         /\ slices[pages[c][a]].offset = a

(* The slices of a page cover it from its first byte to its last, without  *)
(* gaps and without overlap, whatever was split and merged: merging by     *)
(* next_slice_position relies on it.                                       *)
Tiles ==
  /\ \A c \in 0 .. queue - 1 : pages[c][0] # NoSlice
  /\ \A s \in ids :
       LET slice == slices[s]
           next == NextSlicePosition(slice)
       IN  /\ slice.offset < next /\ next <= PageSize
           /\ next < PageSize => pages[slice.chunk][next] # NoSlice
           /\ \A a \in slice.offset + 1 .. next - 1 : pages[slice.chunk][a] = NoSlice

(* Every slice starts at, and extends over, a multiple of the alignment:   *)
(* the assertions of create_slice and split never fire.                    *)
Aligned ==
  \A s \in ids : /\ slices[s].offset % Alignment = 0
                 /\ EffectiveSize(slices[s]) % Alignment = 0

(* The layout of the pages: the page maps, the slice table and the extents *)
(* of the slices.                                                          *)
Layout == PageMapAgrees /\ Tiles /\ Aligned

(* A handle held by a client names a slice the pool still knows: get never *)
(* answers None for it, even though merging removes slices from the table. *)
HeldSlicesExist == \A s \in SliceIds : refs[s] > 0 => s \in ids

(* Two live handles never share a byte of device memory.                   *)
LiveHandlesDisjoint ==
  \A s, t \in SliceIds :
    (refs[s] > 0 /\ refs[t] > 0 /\ s # t /\ slices[s].chunk = slices[t].chunk) =>
      \/ NextSlicePosition(slices[s]) <= slices[t].offset
      \/ NextSlicePosition(slices[t]) <= slices[s].offset

(* Between two calls the cursor of the ring stands at the start of a slice *)
(* or at the end of its page, so that the next search does not skip a page *)
(* by starting in the middle of a merged slice; so does a search.          *)
CursorOnBoundary ==
  /\ cursor_slice \in 1 .. PageSize - 1 => pages[cursor_chunk][cursor_slice] # NoSlice
  /\ call.pc # "idle" /\ call.chunk_index < queue /\ call.slice_index < PageSize =>
       Current # NoSlice

(* A search looks only at pages of the ring, merges only at a slice, and   *)
(* never works before the cursor on the page of the cursor: so no merge    *)
(* can swallow the slice the cursor stands on.                             *)
SearchBehindCursor ==
  /\ cursor_slice # 0 => cursor_chunk < queue
  /\ call.pc # "idle" =>
       /\ call.size \in Sizes
       /\ call.end <= queue
       /\ cursor_slice = 0 \/ (cursor_chunk = call.chunk_index /\ cursor_slice <= call.slice_index)
  /\ call.pc = "merge" => InRange /\ Current # NoSlice

(* The invariant of the pool, which every step of a search, an allocation  *)
(* and a client preserves: whatever was split, merged and dropped, the     *)
(* pages stay covered by their slices, the slices in use are known, and    *)
(* neither the cursor nor a search stands inside a slice that was merged   *)
(* away.                                                                   *)
PoolInv == TypeOK /\ Layout /\ HeldSlicesExist /\ CursorOnBoundary /\ SearchBehindCursor

(* While a client holds a slice, no reservation, split, merge or page      *)
(* allocation moves or resizes it.                                         *)
LiveHandleStable ==
  [][\A s \in SliceIds : refs[s] > 0 /\ refs'[s] > 0 => slices'[s] = slices[s]]_vars

(* A reservation hands out a slice that was free, has exactly the size     *)
(* asked for, and lies on a page that is not excluded, unless the page was *)
(* allocated for it.                                                       *)
ReservationAsAsked ==
  [][\A s \in SliceIds : (refs[s] = 0 /\ refs'[s] > 0) =>
        /\ slices'[s].size = call.size
        /\ slices'[s].chunk \in call.exclude => slices'[s].chunk = queue]_vars

(* Every reserve call ends, whatever the clients do with their handles     *)
(* during the search.                                                      *)
SearchEnds == call.pc # "idle" ~> call.pc = "idle"
=============================================================================
