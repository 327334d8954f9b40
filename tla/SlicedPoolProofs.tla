-------------------------- MODULE SlicedPoolProofs --------------------------
(***************************************************************************)
(* Proofs about the sliced pool, for every page size, alignment, set of    *)
(* request sizes, number of pages and number of handles.                   *)
(***************************************************************************)
EXTENDS SlicedPool, TLAPS

USE PoolAssumption

-----------------------------------------------------------------------------
(* Arithmetic of the alignment                                             *)

(* A number is its quotient times the alignment, plus its remainder.       *)
LEMMA DivMod ==
  ASSUME NEW a \in Nat
  PROVE  /\ a \div Alignment \in Nat
         /\ a % Alignment \in 0 .. Alignment - 1
         /\ a = (a \div Alignment) * Alignment + (a % Alignment)
  OBVIOUS

(* Multiples of the alignment have no remainder.                           *)
LEMMA MulMod ==
  ASSUME NEW q \in Nat
  PROVE  (q * Alignment) % Alignment = 0
  OBVIOUS

(* A padded size is a multiple of the alignment, and the padding is less   *)
(* than one alignment unit.                                                *)
LEMMA Padded ==
  ASSUME NEW size \in Nat
  PROVE  /\ CalculatePadding(size) \in 0 .. Alignment - 1
         /\ (size + CalculatePadding(size)) % Alignment = 0
         /\ size % Alignment = 0 => CalculatePadding(size) = 0
<1> DEFINE q == size \div Alignment
<1>1. /\ q \in Nat /\ size % Alignment \in 0 .. Alignment - 1
      /\ size = q * Alignment + (size % Alignment)
  BY Zenon, DivMod
<1>2. CASE size % Alignment = 0
  BY <1>1, <1>2 DEF CalculatePadding
<1>3. CASE size % Alignment # 0
  <2>1. CalculatePadding(size) = Alignment - (size % Alignment)
    BY Zenon, <1>3 DEF CalculatePadding
  <2>2. size + CalculatePadding(size) = (q + 1) * Alignment
    BY <2>1, <1>1
  <2>3. ((q + 1) * Alignment) % Alignment = 0
    BY <1>1, MulMod
  <2> QED BY <2>1, <2>2, <2>3, <1>1, <1>3
<1> QED BY Zenon, <1>2, <1>3

(* Sums and differences of multiples of the alignment are multiples.       *)
LEMMA AlignedSum ==
  ASSUME NEW a \in Nat, NEW b \in Nat, a % Alignment = 0, b % Alignment = 0
  PROVE  /\ (a + b) % Alignment = 0
         /\ b <= a => (a - b) % Alignment = 0
<1> DEFINE p == a \div Alignment
           q == b \div Alignment
<1>1. p \in Nat /\ q \in Nat /\ a = p * Alignment /\ b = q * Alignment
  BY DivMod
<1>2. a + b = (p + q) * Alignment
  BY <1>1
<1>3. ((p + q) * Alignment) % Alignment = 0
  BY <1>1, MulMod
<1>4. ASSUME b <= a PROVE (a - b) % Alignment = 0
  <2>1. q <= p
    BY <1>1, <1>4
  <2>2. a - b = (p - q) * Alignment
    BY <1>1
  <2>3. ((p - q) * Alignment) % Alignment = 0
    BY <1>1, <2>1, MulMod
  <2> QED BY Zenon, <2>2, <2>3
<1> QED BY Zenon, <1>2, <1>3, <1>4

(* Multiples of the alignment are at least one unit apart.                 *)
LEMMA AlignedGap ==
  ASSUME NEW a \in Nat, NEW b \in Nat, a % Alignment = 0, b % Alignment = 0, a < b
  PROVE  a + Alignment <= b
<1> DEFINE p == a \div Alignment
           q == b \div Alignment
<1>1. p \in Nat /\ q \in Nat /\ a = p * Alignment /\ b = q * Alignment
  BY DivMod
<1>2. p + 1 <= q
  BY <1>1
<1>3. (p + 1) * Alignment <= q * Alignment
  BY <1>1, <1>2
<1> QED BY <1>1, <1>3

(* A padded size fits in any multiple of the alignment that holds the size.*)
LEMMA PaddedFits ==
  ASSUME NEW size \in Nat, NEW b \in Nat, size <= b, b % Alignment = 0
  PROVE  size + CalculatePadding(size) <= b
<1>1. CASE size + CalculatePadding(size) <= b
  BY Zenon, <1>1
<1>2. CASE b < size + CalculatePadding(size)
  <2>1. b + Alignment <= size + CalculatePadding(size)
    BY <1>2, Padded, AlignedGap
  <2> QED BY <2>1, Padded
<1> QED BY <1>1, <1>2, Padded

-----------------------------------------------------------------------------
(* The inductive invariant                                                 *)

(* What the type invariant says of a slice in arithmetic.                  *)
LEMMA SliceType ==
  ASSUME TypeOK, NEW s \in SliceIds
  PROVE  /\ slices[s] \in Slice
         /\ slices[s].chunk \in Chunks
         /\ slices[s].offset \in 0 .. PageSize
         /\ slices[s].size \in 0 .. PageSize
         /\ slices[s].padding \in 0 .. PageSize
         /\ EffectiveSize(slices[s]) \in Nat
         /\ NextSlicePosition(slices[s]) = slices[s].offset + EffectiveSize(slices[s])
         /\ NextSlicePosition(slices[s]) \in Nat
  BY SMTT(20) DEF TypeOK, ReserveCall, Slice, Addresses, EffectiveSize, NextSlicePosition

(* Slices of the same page do not overlap: this is what Tiles gives        *)
(* globally, from facts about neighbours only.                             *)
LEMMA Disjoint ==
  ASSUME TypeOK, PageMapAgrees, Tiles,
         NEW s \in ids, NEW t \in ids, s # t, slices[s].chunk = slices[t].chunk
  PROVE  \/ NextSlicePosition(slices[s]) <= slices[t].offset
         \/ NextSlicePosition(slices[t]) <= slices[s].offset
<1>1. s \in SliceIds /\ t \in SliceIds
  BY Zenon DEF TypeOK, ReserveCall
<1>2. /\ pages[slices[s].chunk][slices[s].offset] = s
      /\ pages[slices[s].chunk][slices[t].offset] = t
  BY Zenon DEF PageMapAgrees
<1>3. s # NoSlice /\ t # NoSlice
  BY <1>1 DEF SliceIds, NoSlice
<1>4. slices[s].offset # slices[t].offset
  BY Zenon, <1>2
<1>5. CASE slices[s].offset < slices[t].offset /\ slices[t].offset < NextSlicePosition(slices[s])
  <2>1. slices[t].offset \in slices[s].offset + 1 .. NextSlicePosition(slices[s]) - 1
    BY <1>1, <1>5, SliceType
  <2>2. pages[slices[s].chunk][slices[t].offset] = NoSlice
    BY Zenon, <2>1 DEF Tiles
  <2> QED BY Zenon, <2>2, <1>2, <1>3
<1>6. CASE slices[t].offset < slices[s].offset /\ slices[s].offset < NextSlicePosition(slices[t])
  <2>1. slices[s].offset \in slices[t].offset + 1 .. NextSlicePosition(slices[t]) - 1
    BY <1>1, <1>6, SliceType
  <2>2. pages[slices[s].chunk][slices[s].offset] = NoSlice
    BY <2>1 DEF Tiles
  <2> QED BY Zenon, <2>2, <1>2, <1>3
<1> QED BY <1>1, <1>4, <1>5, <1>6, SliceType

(* Two live handles never share a byte: from the layout.                   *)
LEMMA LayoutSeparatesHandles ==
  ASSUME TypeOK, PageMapAgrees, Tiles, HeldSlicesExist
  PROVE  LiveHandlesDisjoint
  BY Zenon, Disjoint DEF LiveHandlesDisjoint, HeldSlicesExist

(* The slice under a running search.                                       *)
LEMMA CurrentSlice ==
  ASSUME PoolInv, call.pc # "idle", InRange, Current # NoSlice
  PROVE  /\ call.chunk_index \in Chunks /\ call.chunk_index < queue
         /\ call.slice_index \in Addresses
         /\ Current \in ids /\ Current \in SliceIds
         /\ slices[Current].chunk = call.chunk_index
         /\ slices[Current].offset = call.slice_index
         /\ call.slice_index < NextSlicePosition(slices[Current])
         /\ NextSlicePosition(slices[Current]) \in Addresses
         /\ EffectiveSize(slices[Current]) % Alignment = 0
         /\ call.slice_index % Alignment = 0
<1>1. /\ call.chunk_index \in 0 .. MaxPages /\ call.end \in 0 .. MaxPages
      /\ queue \in 0 .. MaxPages /\ call.slice_index \in Addresses
  BY Zenon DEF PoolInv, TypeOK, ReserveCall
<1>2. call.chunk_index \in Chunks /\ call.chunk_index < queue
  BY <1>1 DEF PoolInv, SearchBehindCursor, InRange, Chunks
<1>3. /\ Current \in ids
      /\ slices[Current].chunk = call.chunk_index
      /\ slices[Current].offset = call.slice_index
  BY <1>1, <1>2 DEF PoolInv, Layout, PageMapAgrees, Current, FindSlice
<1>4. Current \in SliceIds
  BY Zenon, <1>3 DEF PoolInv, TypeOK, ReserveCall
<1>5. /\ call.slice_index < NextSlicePosition(slices[Current])
      /\ NextSlicePosition(slices[Current]) <= PageSize
  BY Zenon, <1>3 DEF PoolInv, Layout, Tiles
<1>6. NextSlicePosition(slices[Current]) \in Addresses
  BY <1>4, <1>5, SliceType DEF PoolInv, Addresses
<1>7. EffectiveSize(slices[Current]) % Alignment = 0 /\ call.slice_index % Alignment = 0
  BY Zenon, <1>3 DEF PoolInv, Layout, Aligned
<1> QED BY Zenon, <1>1, <1>2, <1>3, <1>4, <1>5, <1>6, <1>7

(* Steps that leave the pages alone keep the layout.                       *)
LEMMA LayoutUnchanged ==
  ASSUME Layout, UNCHANGED <<pages, ids, slices, queue>>
  PROVE  Layout'
  BY DEF Layout, PageMapAgrees, Tiles, Aligned

(* A new pool satisfies the invariant.                                     *)
LEMMA InitInv == Init => PoolInv
<1> SUFFICES ASSUME Init PROVE PoolInv
  BY Zenon
<1>1. TypeOK
  <2>1. BlankSlice \in Slice \/ MaxPages = 0
    BY DEF BlankSlice, Slice, Chunks, Addresses
  <2>2. SliceIds = {} \/ MaxPages # 0
    BY DEF SliceIds
  <2>3. slices \in [SliceIds -> Slice]
    BY Zenon, <2>1, <2>2 DEF Init
  <2> QED BY <2>3 DEF Init, TypeOK, ReserveCall, Idle, Addresses
<1>2. Layout
  BY DEF Init, Layout, PageMapAgrees, Tiles, Aligned
<1>3. HeldSlicesExist
  BY DEF Init, HeldSlicesExist
<1>4. CursorOnBoundary /\ SearchBehindCursor
  BY DEF Init, CursorOnBoundary, SearchBehindCursor, Idle
<1> QED BY Zenon, <1>1, <1>2, <1>3, <1>4 DEF PoolInv

(* A call starts its search where the cursor stands.                       *)
LEMMA TryReserveInv ==
  ASSUME PoolInv, NEW size \in Sizes, NEW exclude \in SUBSET (0 .. queue - 1),
         TryReserve(size, exclude)
  PROVE  PoolInv'
<1> USE DEF PoolInv
<1>1. TypeOK'
  BY DEF TypeOK, ReserveCall, TryReserve, poolVars, Chunks
<1>2. Layout'
  BY Zenon, LayoutUnchanged DEF TryReserve, poolVars
<1>3. HeldSlicesExist'
  BY Zenon DEF HeldSlicesExist, TryReserve, poolVars
<1>4. CursorOnBoundary'
  BY DEF CursorOnBoundary, TryReserve, poolVars, Current, FindSlice, Layout, Tiles, TypeOK, ReserveCall, Addresses
<1>5. SearchBehindCursor'
  BY DEF SearchBehindCursor, TryReserve, poolVars, TypeOK, ReserveCall, Addresses
<1> QED BY Zenon, <1>1, <1>2, <1>3, <1>4, <1>5

(* Going on with the next page.                                            *)
LEMMA NextChunkInv ==
  ASSUME PoolInv, NextChunk
  PROVE  PoolInv'
<1> USE DEF PoolInv
<1>1. TypeOK'
  <2>1. call.chunk_index + 1 \in 0 .. MaxPages /\ 0 \in Addresses
    BY SMTT(20) DEF TypeOK, ReserveCall, NextChunk, InRange, Addresses
  <2>2. call' \in ReserveCall
    BY Zenon, <2>1 DEF TypeOK, ReserveCall, NextChunk
  <2> QED BY Zenon, <2>1, <2>2 DEF TypeOK, ReserveCall, NextChunk
<1>2. Layout'
  BY Zenon, LayoutUnchanged DEF NextChunk
<1>3. HeldSlicesExist'
  BY Zenon DEF HeldSlicesExist, NextChunk
<1>4. CursorOnBoundary'
  BY SMTT(20) DEF CursorOnBoundary, NextChunk, Current, FindSlice, Layout, Tiles, TypeOK, ReserveCall, InRange, Addresses
<1>5. SearchBehindCursor'
  BY Zenon DEF SearchBehindCursor, NextChunk, TypeOK, ReserveCall
<1> QED BY Zenon, <1>1, <1>2, <1>3, <1>4, <1>5

(* The slice does not do.                                                  *)
LEMMA RejectSliceInv ==
  ASSUME PoolInv, RejectSlice
  PROVE  PoolInv'
<1> USE DEF PoolInv, RejectSlice, poolVars
<1>1. TypeOK'
  BY Zenon DEF TypeOK, ReserveCall
<1>2. Layout'
  BY Zenon, LayoutUnchanged
<1>3. HeldSlicesExist'
  BY Zenon DEF HeldSlicesExist
<1>4. CursorOnBoundary'
  BY Zenon DEF CursorOnBoundary, Current, FindSlice, TypeOK, ReserveCall
<1>5. SearchBehindCursor'
  BY Zenon DEF SearchBehindCursor, TypeOK, ReserveCall, InRange, Current, FindSlice
<1> QED BY Zenon, <1>1, <1>2, <1>3, <1>4, <1>5

(* Going on behind the current slice, which is the start of a slice or the *)
(* end of the page.                                                        *)
LEMMA AdvanceInv ==
  ASSUME PoolInv, Advance
  PROVE  PoolInv'
<1> USE DEF Advance, poolVars, Behind
<1>1. /\ Current \in ids /\ slices[Current].chunk = call.chunk_index
      /\ call.slice_index < NextSlicePosition(slices[Current])
      /\ NextSlicePosition(slices[Current]) \in Addresses
  BY Zenon, CurrentSlice DEF PoolInv, SearchBehindCursor
<1>2. TypeOK'
  BY Zenon, <1>1 DEF PoolInv, TypeOK, ReserveCall
<1>3. Layout'
  BY Zenon, LayoutUnchanged DEF PoolInv
<1>4. HeldSlicesExist'
  BY Zenon DEF PoolInv, HeldSlicesExist
<1>5. CursorOnBoundary'
  BY Zenon, <1>1 DEF PoolInv, CursorOnBoundary, Current, FindSlice, Layout, Tiles, TypeOK, ReserveCall, Addresses
<1>6. SearchBehindCursor'
  BY <1>1 DEF PoolInv, SearchBehindCursor, TypeOK, ReserveCall, Addresses
<1> QED BY Zenon, <1>2, <1>3, <1>4, <1>5, <1>6 DEF PoolInv

(* Starting over at the first page.                                        *)
LEMMA SecondPassInv ==
  ASSUME PoolInv, SecondPass
  PROVE  PoolInv'
<1> USE DEF PoolInv, SecondPass
<1>1. TypeOK'
  <2>1. SecondEnd \in 0 .. MaxPages /\ 0 \in 0 .. MaxPages /\ 0 \in Addresses
    BY DEF TypeOK, ReserveCall, SecondEnd, Addresses
  <2>2. call' \in ReserveCall
    BY Zenon, <2>1 DEF TypeOK, ReserveCall
  <2> QED BY Zenon, <2>1, <2>2 DEF TypeOK, ReserveCall
<1>2. Layout'
  BY Zenon, LayoutUnchanged
<1>3. HeldSlicesExist'
  BY Zenon DEF HeldSlicesExist
<1>4. CursorOnBoundary'
  BY DEF CursorOnBoundary, Current, FindSlice, TypeOK, ReserveCall, Layout, Tiles, Addresses
<1>5. SearchBehindCursor'
  BY DEF SearchBehindCursor, TypeOK, ReserveCall, SecondEnd
<1> QED BY Zenon, <1>1, <1>2, <1>3, <1>4, <1>5

(* A failing allocation ends the call.                                     *)
LEMMA AllocFailsInv ==
  ASSUME PoolInv, AllocFails
  PROVE  PoolInv'
<1> USE DEF PoolInv, AllocFails, poolVars, Idle
<1>1. TypeOK'
  BY DEF TypeOK, ReserveCall, Addresses
<1>2. Layout'
  BY Zenon, LayoutUnchanged
<1>3. HeldSlicesExist' /\ CursorOnBoundary' /\ SearchBehindCursor'
  BY Zenon DEF HeldSlicesExist, CursorOnBoundary, SearchBehindCursor
<1> QED BY Zenon, <1>1, <1>2, <1>3

(* Clients clone and drop handles at any moment.                           *)
LEMMA ClientInv ==
  ASSUME PoolInv, NEW s \in SliceIds, CloneHandle(s) \/ DropHandle(s)
  PROVE  PoolInv'
<1> USE DEF PoolInv, CloneHandle, DropHandle, poolVars
<1>1. TypeOK'
  BY DEF TypeOK, ReserveCall
<1>2. Layout'
  BY Zenon, LayoutUnchanged
<1>3. HeldSlicesExist'
  BY DEF HeldSlicesExist, TypeOK, ReserveCall
<1>4. CursorOnBoundary' /\ SearchBehindCursor'
  BY Zenon DEF CursorOnBoundary, SearchBehindCursor, Current, FindSlice, InRange
<1> QED BY Zenon, <1>1, <1>2, <1>3, <1>4

(* Merging: the current slice s takes over the extent of the free slice t  *)
(* that starts where s ends.                                               *)
LEMMA MergeInv ==
  ASSUME PoolInv, MergeWithNext
  PROVE  PoolInv'
<1> DEFINE s == Current
           t == NextSlice
           c == call.chunk_index
           p == NextSlicePosition(slices[s])
           e == NextSlicePosition(slices[t])
<1>1. /\ c \in Chunks /\ c < queue /\ s \in ids /\ s \in SliceIds
      /\ slices[s].chunk = c /\ slices[s].offset = call.slice_index
      /\ call.slice_index < p /\ p \in Addresses
      /\ EffectiveSize(slices[s]) % Alignment = 0
  BY Zenon, CurrentSlice DEF MergeWithNext, PoolInv, SearchBehindCursor
<1>2. /\ t = pages[c][p] /\ t # NoSlice /\ refs[s] = 0 /\ refs[t] = 0
  BY Zenon DEF MergeWithNext, Mergeable, NextSlice, FindSlice, IsFree
<1>3. t \in ids /\ t \in SliceIds /\ slices[t].chunk = c /\ slices[t].offset = p
  BY <1>1, <1>2 DEF PoolInv, Layout, PageMapAgrees, TypeOK
<1>4. /\ p < e /\ e \in Addresses /\ EffectiveSize(slices[t]) % Alignment = 0
      /\ slices[s].offset \in Addresses
  BY <1>1, <1>3, SliceType DEF PoolInv, Layout, Tiles, Aligned, Addresses
<1>5. s # t
  BY <1>1, <1>3, SliceType DEF PoolInv, Addresses
<1> DEFINE merged == EffectiveSize(slices[s]) + EffectiveSize(slices[t])
<1>6. merged \in 0 .. PageSize /\ merged % Alignment = 0 /\ slices[s].offset + merged = e
  <2>1. merged \in Nat /\ slices[s].offset + merged = e
    BY <1>1, <1>3, SliceType DEF PoolInv
  <2>2. merged % Alignment = 0
    BY Zenon, <1>1, <1>3, <1>4, SliceType, AlignedSum DEF PoolInv
  <2> QED BY <2>1, <2>2, <1>4 DEF Addresses
<1>7. /\ slices' = [slices EXCEPT ![s] = [slices[s] EXCEPT !.size = merged, !.padding = 0],
                                  ![t] = BlankSlice]
      /\ pages' = [pages EXCEPT ![c] = [pages[c] EXCEPT ![p] = NoSlice]]
      /\ ids' = ids \ {t}
      /\ call' = [call EXCEPT !.pc = "check"]
      /\ UNCHANGED <<refs, queue, cursor_chunk, cursor_slice>>
  BY Zenon DEF MergeWithNext, MergedSize, WithoutSlice
<1> HIDE DEF merged, p, e, s, t, c
<1>8. TypeOK'
  <2>1. BlankSlice \in Slice
    BY <1>1 DEF BlankSlice, Slice, Chunks, Addresses
  <2>2. [slices[s] EXCEPT !.size = merged, !.padding = 0] \in Slice
    <3>1. slices[s] \in Slice /\ 0 \in 0 .. PageSize
      BY <1>1, SliceType DEF PoolInv
    <3> QED BY Zenon, <3>1, <1>6 DEF Slice
  <2>3. slices' \in [SliceIds -> Slice]
    BY Zenon, <2>1, <2>2, <1>7 DEF PoolInv, TypeOK
  <2>4. pages' \in [Chunks -> [Addresses -> SliceIds \cup {NoSlice}]]
    BY Zenon, <1>7 DEF PoolInv, TypeOK
  <2>5. call' \in ReserveCall
    BY Zenon, <1>7 DEF PoolInv, TypeOK, ReserveCall
  <2> QED BY Zenon, <2>3, <2>4, <2>5, <1>7 DEF PoolInv, TypeOK
<1>9. /\ slices'[s].chunk = c /\ slices'[s].offset = slices[s].offset
      /\ EffectiveSize(slices'[s]) = merged /\ NextSlicePosition(slices'[s]) = e
      /\ \A u \in ids' \ {s} : slices'[u] = slices[u] /\ u \in ids /\ u # t
      /\ s \in ids'
  <2>1. slices'[s] = [slices[s] EXCEPT !.size = merged, !.padding = 0]
    BY Zenon, <1>1, <1>5, <1>7 DEF PoolInv, TypeOK
  <2>2. slices[s] \in Slice
    BY Zenon, <1>1, SliceType DEF PoolInv
  <2>3. /\ slices'[s].chunk = c /\ slices'[s].offset = slices[s].offset
        /\ slices'[s].size = merged /\ slices'[s].padding = 0
    BY Zenon, <2>1, <2>2, <1>1 DEF Slice
  <2> QED BY <2>3, <1>1, <1>5, <1>6, <1>7 DEF PoolInv, TypeOK, EffectiveSize, NextSlicePosition
<1>10. \A d \in Chunks, a \in Addresses :
         pages'[d][a] = IF d = c /\ a = p THEN NoSlice ELSE pages[d][a]
  BY Zenon, <1>1, <1>7 DEF PoolInv, TypeOK
<1>11. PageMapAgrees'
  <2>1. ASSUME NEW u \in ids'
        PROVE  slices'[u].chunk < queue' /\ pages'[slices'[u].chunk][slices'[u].offset] = u
    <3>1. u \in ids /\ u \in SliceIds /\ u # t
      BY Zenon, <1>1, <1>5, <1>9 DEF PoolInv, TypeOK
    <3>2. slices'[u].chunk = slices[u].chunk /\ slices'[u].offset = slices[u].offset
      BY Zenon, <1>1, <1>9
    <3>3. slices[u].chunk < queue /\ pages[slices[u].chunk][slices[u].offset] = u
      BY Zenon, <3>1 DEF PoolInv, Layout, PageMapAgrees
    <3>4. slices[u].chunk \in Chunks /\ slices[u].offset \in Addresses
      BY Zenon, <3>1, SliceType DEF PoolInv, Addresses
    <3>5. ~(slices[u].chunk = c /\ slices[u].offset = p)
      BY Zenon, <3>1, <3>3, <1>2
    <3> QED BY <3>2, <3>3, <3>4, <3>5, <1>7, <1>10
  <2>2. ASSUME NEW d \in Chunks, NEW a \in Addresses, pages'[d][a] # NoSlice
        PROVE  /\ pages'[d][a] \in ids'
               /\ slices'[pages'[d][a]].chunk = d
               /\ slices'[pages'[d][a]].offset = a
    <3>1. pages'[d][a] = pages[d][a] /\ ~(d = c /\ a = p)
      BY Zenon, <2>2, <1>10
    <3>2. pages[d][a] \in ids /\ slices[pages[d][a]].chunk = d /\ slices[pages[d][a]].offset = a
      BY Zenon, <2>2, <3>1 DEF PoolInv, Layout, PageMapAgrees
    <3>3. pages[d][a] # t
      BY Zenon, <3>1, <3>2, <1>3
    <3>4. pages[d][a] \in ids'
      BY Zenon, <3>2, <3>3, <1>7
    <3> QED BY Zenon, <3>1, <3>2, <3>4, <1>1, <1>9
  <2> QED BY Zenon, <2>1, <2>2 DEF PageMapAgrees
<1>12. Tiles'
  <2>1. ASSUME NEW d \in 0 .. queue' - 1 PROVE pages'[d][0] # NoSlice
    <3>1. d \in Chunks /\ 0 \in Addresses
      BY <1>7 DEF PoolInv, TypeOK, Chunks, Addresses
    <3>2. pages[d][0] # NoSlice
      BY Zenon, <1>7 DEF PoolInv, Layout, Tiles
    <3>3. p # 0
      BY <1>1, <1>4 DEF Addresses
    <3> QED BY Zenon, <3>1, <3>2, <3>3, <1>10
  <2>2. ASSUME NEW u \in ids'
        PROVE  LET next == NextSlicePosition(slices'[u])
               IN  /\ slices'[u].offset < next /\ next <= PageSize
                   /\ next < PageSize => pages'[slices'[u].chunk][next] # NoSlice
                   /\ \A a \in slices'[u].offset + 1 .. next - 1 :
                        pages'[slices'[u].chunk][a] = NoSlice
    <3>1. CASE u = s
      <4>1. e < PageSize => pages[c][e] # NoSlice
        BY Zenon, <1>3 DEF PoolInv, Layout, Tiles, e
      <4>2. e < PageSize => pages'[c][e] # NoSlice
        BY <4>1, <1>1, <1>3, <1>4, <1>10 DEF Addresses
      <4>3. ASSUME NEW a \in slices[s].offset + 1 .. e - 1 PROVE pages'[c][a] = NoSlice
        <5>1. a \in Addresses
          BY <1>1, <1>4 DEF Addresses
        <5>2. CASE a < p
          <6>1. a \in slices[s].offset + 1 .. p - 1
            BY <5>1, <5>2, <1>1, <1>4 DEF Addresses
          <6>2. pages[c][a] = NoSlice
            BY Zenon, <6>1, <1>1 DEF PoolInv, Layout, Tiles, p
          <6> QED BY Zenon, <6>2, <5>1, <5>2, <1>1, <1>10
        <5>3. CASE a > p
          <6>1. a \in slices[t].offset + 1 .. e - 1
            BY <5>1, <5>3, <1>1, <1>3, <1>4 DEF Addresses
          <6>2. pages[c][a] = NoSlice
            BY Zenon, <6>1, <1>3 DEF PoolInv, Layout, Tiles, e
          <6> QED BY Zenon, <6>2, <5>1, <5>3, <1>1, <1>10
        <5> QED BY <5>1, <5>2, <5>3, <1>1, <1>10 DEF Addresses
      <4> QED BY <3>1, <4>2, <4>3, <1>1, <1>4, <1>9 DEF Addresses
    <3>2. CASE u # s
      <4>1. u \in ids /\ u \in SliceIds /\ u # t /\ slices'[u] = slices[u]
        BY Zenon, <3>2, <1>9 DEF PoolInv, TypeOK
      <4> DEFINE next == NextSlicePosition(slices[u])
      <4>2. /\ slices[u].offset < next /\ next <= PageSize
            /\ next < PageSize => pages[slices[u].chunk][next] # NoSlice
            /\ \A a \in slices[u].offset + 1 .. next - 1 : pages[slices[u].chunk][a] = NoSlice
        BY Zenon, <4>1 DEF PoolInv, Layout, Tiles
      <4>3. slices[u].chunk \in Chunks /\ slices[u].offset \in Nat /\ next \in Nat
        BY <4>1, SliceType DEF PoolInv
      <4>4. slices[u].chunk = c => next # p
        <5> SUFFICES ASSUME slices[u].chunk = c, next = p PROVE FALSE
          BY Zenon
        <5>1. p <= slices[u].offset \/ next <= slices[s].offset
          BY Zenon, <4>1, <3>2, <1>1, Disjoint DEF PoolInv, Layout, p
        <5> QED BY <5>1, <4>2, <4>3, <1>1, <1>4 DEF Addresses
      <4>5. next < PageSize => pages'[slices[u].chunk][next] # NoSlice
        BY <4>2, <4>3, <4>4, <1>10 DEF Addresses
      <4>6. ASSUME NEW a \in slices[u].offset + 1 .. next - 1
            PROVE  pages'[slices[u].chunk][a] = NoSlice
        BY <4>2, <4>3, <1>10 DEF Addresses
      <4> QED BY Zenon, <4>1, <4>2, <4>5, <4>6
    <3> QED BY Zenon, <3>1, <3>2
  <2> QED BY Zenon, <2>1, <2>2 DEF Tiles
<1>13. Aligned'
  BY Zenon, <1>1, <1>6, <1>9 DEF PoolInv, Layout, Aligned
<1>14. HeldSlicesExist'
  BY <1>2, <1>7 DEF PoolInv, HeldSlicesExist
<1>15. CursorOnBoundary'
  <2>1. Current' = s /\ call'.pc # "idle"
    BY <1>1, <1>3, <1>4, <1>7, <1>10 DEF PoolInv, TypeOK, ReserveCall, Current, FindSlice, Addresses, s, c
  <2>2. s # NoSlice
    BY <1>1 DEF SliceIds, NoSlice
  <2>3. ASSUME cursor_slice \in 1 .. PageSize - 1 PROVE pages'[cursor_chunk][cursor_slice] # NoSlice
    <3>1. cursor_chunk < queue /\ cursor_chunk \in Chunks /\ cursor_slice \in Addresses
      BY <2>3 DEF PoolInv, TypeOK, SearchBehindCursor, Chunks
    <3>2. ~(cursor_chunk = c /\ cursor_slice = p)
      BY <2>3, <1>1, <1>4 DEF PoolInv, SearchBehindCursor, MergeWithNext, Addresses, c
    <3> QED BY Zenon, <3>1, <3>2, <2>3, <1>10 DEF PoolInv, CursorOnBoundary
  <2> QED BY Zenon, <2>1, <2>2, <2>3, <1>7 DEF CursorOnBoundary
<1>16. SearchBehindCursor'
  BY Zenon, <1>7 DEF PoolInv, SearchBehindCursor, TypeOK, ReserveCall, MergeWithNext
<1> QED BY Zenon, <1>8, <1>11, <1>12, <1>13, <1>14, <1>15, <1>16 DEF PoolInv, Layout

(* No call in progress is a value of the call variable.                    *)
LEMMA IdleType == Idle \in ReserveCall
<1>1. 0 \in Addresses /\ 0 \in 0 .. MaxPages
  BY DEF Addresses
<1> QED BY Zenon, <1>1 DEF ReserveCall, Idle

(* Changing how the extent of a slice is divided into size and padding     *)
(* keeps the layout.                                                       *)
LEMMA SameExtents ==
  ASSUME Layout, UNCHANGED <<pages, ids, queue>>,
         \A u \in ids : /\ slices'[u].chunk = slices[u].chunk
                        /\ slices'[u].offset = slices[u].offset
                        /\ EffectiveSize(slices'[u]) = EffectiveSize(slices[u])
  PROVE  Layout'
<1>1. \A u \in ids : NextSlicePosition(slices'[u]) = NextSlicePosition(slices[u])
  BY Zenon DEF NextSlicePosition
<1>2. PageMapAgrees'
  BY DEF Layout, PageMapAgrees
<1>3. Tiles'
  BY <1>1 DEF Layout, Tiles
<1>4. Aligned'
  BY Zenon DEF Layout, Aligned
<1> QED BY Zenon, <1>2, <1>3, <1>4 DEF Layout

(* The padded size of a running request.                                   *)
LEMMA WantedType ==
  ASSUME PoolInv, call.pc # "idle"
  PROVE  /\ call.size \in Nat /\ call.size > 0 /\ call.size <= PageSize
         /\ Wanted \in Nat /\ 0 < Wanted /\ call.size <= Wanted
         /\ Wanted % Alignment = 0
<1>1. call.size \in 1 .. MaxAllocSize
  BY Zenon DEF PoolInv, SearchBehindCursor
<1>2. call.size \in Nat /\ call.size > 0 /\ call.size <= PageSize
  BY <1>1
<1>3. /\ CalculatePadding(call.size) \in 0 .. Alignment - 1
      /\ (call.size + CalculatePadding(call.size)) % Alignment = 0
  BY Zenon, <1>2, Padded
<1>4. Wanted = call.size + CalculatePadding(call.size)
  BY Zenon DEF Wanted
<1> HIDE DEF Wanted
<1> QED BY <1>2, <1>3, <1>4

(* Reserving without a leftover: the extent of the slice stays as it is.   *)
LEMMA TakeWholeInv ==
  ASSUME PoolInv, TakeSlice,
         EffectiveSize(slices[Current]) - Wanted < Alignment
  PROVE  TypeOK' /\ Layout' /\ Current \in ids' /\ NextSlicePosition(slices'[Current]) \in Addresses
<1> DEFINE s == Current
           eff == EffectiveSize(slices[s])
<1>1. /\ s \in ids /\ s \in SliceIds /\ slices[s] \in Slice
      /\ slices[s].offset \in Addresses /\ slices[s].chunk \in Chunks
      /\ NextSlicePosition(slices[s]) \in Addresses
      /\ eff \in Nat /\ Wanted <= eff
      /\ NextSlicePosition(slices[s]) = slices[s].offset + eff
  BY Zenon, CurrentSlice, SliceType DEF TakeSlice, PoolInv, Fits, Addresses
<1>2. call.size \in Nat /\ Wanted \in Nat /\ call.size <= Wanted
  BY Zenon, WantedType DEF TakeSlice
<1> DEFINE new == [slices[s] EXCEPT !.size = call.size, !.padding = eff - call.size]
<1>3. /\ slices' = [slices EXCEPT ![s] = new]
      /\ UNCHANGED <<pages, ids, queue>>
      /\ refs' = [refs EXCEPT ![s] = 1]
      /\ cursor_slice' = NextSlicePosition(slices'[s])
      /\ cursor_chunk' = call.chunk_index
      /\ call' = Idle
  BY Zenon DEF TakeSlice, Split, Resized, CursorAfter
<1>4. eff <= PageSize
  BY <1>1 DEF Addresses
<1>5. new \in Slice
  <2>1. call.size \in 0 .. PageSize /\ eff - call.size \in 0 .. PageSize
    BY <1>1, <1>2, <1>4
  <2> HIDE DEF eff
  <2> QED BY Zenon, <1>1, <2>1 DEF Slice
<1>6. /\ new.chunk = slices[s].chunk /\ new.offset = slices[s].offset
      /\ EffectiveSize(new) = eff
  <2>1. new.chunk = slices[s].chunk /\ new.offset = slices[s].offset
        /\ new.size = call.size /\ new.padding = eff - call.size
    BY Zenon, <1>1 DEF Slice
  <2> HIDE DEF eff
  <2> QED BY <2>1, <1>1, <1>2 DEF EffectiveSize
<1> HIDE DEF new, eff, s
<1>7. slices'[s] = new /\ \A u \in ids : u # s => slices'[u] = slices[u]
  BY Zenon, <1>1, <1>3 DEF PoolInv, TypeOK
<1>8. Layout'
  BY Zenon, <1>3, <1>6, <1>7, SameExtents DEF PoolInv, eff
<1>9. NextSlicePosition(slices'[s]) = NextSlicePosition(slices[s])
  BY Zenon, <1>1, <1>6, <1>7 DEF NextSlicePosition
<1>10. TypeOK'
  <2>1. slices' \in [SliceIds -> Slice]
    BY Zenon, <1>3, <1>5 DEF PoolInv, TypeOK
  <2>2. refs' \in [SliceIds -> 0 .. MaxRefs]
    <3>1. 1 \in 0 .. MaxRefs
      OBVIOUS
    <3> QED BY Zenon, <3>1, <1>3 DEF PoolInv, TypeOK
  <2>3. call' \in ReserveCall
    BY Zenon, <1>3, IdleType
  <2>4. cursor_slice' \in Addresses /\ cursor_chunk' \in 0 .. MaxPages
    <3>1. call.chunk_index \in 0 .. MaxPages
      BY Zenon DEF PoolInv, TypeOK, ReserveCall
    <3> QED BY Zenon, <3>1, <1>1, <1>3, <1>9 DEF s
  <2> QED BY Zenon, <1>3, <2>1, <2>2, <2>3, <2>4 DEF PoolInv, TypeOK
<1> QED BY Zenon, <1>1, <1>3, <1>8, <1>9, <1>10 DEF s

(* Reserving with a leftover: the slice s is cut at n, the fresh slice f   *)
(* takes the rest up to e.                                                 *)
LEMMA TakeSplitInv ==
  ASSUME PoolInv, TakeSlice,
         EffectiveSize(slices[Current]) - Wanted >= Alignment
  PROVE  TypeOK' /\ Layout' /\ Current \in ids' /\ NextSlicePosition(slices'[Current]) \in Addresses
<1> DEFINE s == Current
           c == call.chunk_index
           i == call.slice_index
           eff == EffectiveSize(slices[s])
           n == i + Wanted
           e == NextSlicePosition(slices[s])
           rest == eff - Wanted
<1>1. /\ s \in ids /\ s \in SliceIds /\ slices[s] \in Slice
      /\ c \in Chunks /\ c < queue /\ slices[s].chunk = c
      /\ i \in Addresses /\ slices[s].offset = i
      /\ e \in Addresses /\ eff \in Nat /\ Wanted <= eff /\ e = i + eff
      /\ i % Alignment = 0 /\ eff % Alignment = 0
  BY Zenon, CurrentSlice, SliceType DEF TakeSlice, PoolInv, Fits, Addresses
<1>2. /\ call.size \in Nat /\ Wanted \in Nat /\ 0 < Wanted /\ call.size <= Wanted
      /\ Wanted % Alignment = 0
  BY Zenon, WantedType DEF TakeSlice
<1>3. /\ rest \in Nat /\ Alignment <= rest /\ rest % Alignment = 0
      /\ (rest - Alignment) % Alignment = 0 /\ n % Alignment = 0
      /\ CalculatePadding(rest - Alignment) = 0
  <2>1. rest \in Nat /\ Alignment <= rest /\ Alignment \in Nat
    BY <1>1, <1>2
  <2>2. rest % Alignment = 0
    BY Zenon, <1>1, <1>2, AlignedSum
  <2>3. Alignment % Alignment = 0
    BY MulMod
  <2>4. (rest - Alignment) % Alignment = 0
    BY Zenon, <2>1, <2>2, <2>3, AlignedSum
  <2>5. n % Alignment = 0
    <3>1. i \in Nat
      BY <1>1 DEF Addresses
    <3> HIDE DEF i
    <3> QED BY Zenon, <3>1, <1>1, <1>2, AlignedSum
  <2>6. rest - Alignment \in Nat
    BY <2>1
  <2>7. CalculatePadding(rest - Alignment) = 0
    BY Zenon, <2>4, <2>6, Padded
  <2> QED BY Zenon, <2>1, <2>2, <2>4, <2>5, <2>7
<1>4. i < n /\ n < e /\ n \in Addresses /\ n + rest = e /\ rest <= PageSize
  <2>1. i \in Nat /\ e \in Nat /\ e <= PageSize /\ e = i + eff
    BY <1>1 DEF Addresses
  <2>2. Wanted \in Nat /\ 0 < Wanted /\ eff \in Nat /\ rest = eff - Wanted
    BY Zenon, <1>1, <1>2
  <2>3. 0 < rest
    BY <1>3
  <2> HIDE DEF i, e, eff, rest
  <2> QED BY <2>1, <2>2, <2>3 DEF Addresses
<1> DEFINE new == [slices[s] EXCEPT !.size = call.size, !.padding = Wanted - call.size]
           tail == [chunk |-> c, offset |-> n, size |-> rest, padding |-> 0]
<1>5. PICK f \in FreshIds :
        /\ ids' = ids \cup {f}
        /\ slices' = [slices EXCEPT ![s] = new, ![f] = tail]
        /\ pages' = [pages EXCEPT ![c] = [pages[c] EXCEPT ![n] = f]]
  <2>1. ~(rest < Alignment)
    BY <1>3
  <2>2. slices[s].offset + Wanted = n /\ slices[s].chunk = c
    BY Zenon, <1>1
  <2>3. Resized(Shrunk(slices[s]), call.size) = new
    <3>1. EffectiveSize(Shrunk(slices[s])) = Wanted
      BY <1>1, <1>2 DEF Shrunk, EffectiveSize, Slice
    <3> QED BY Zenon, <3>1, <1>1 DEF Shrunk, Resized, Slice
  <2>4. Split(s)
    BY Zenon DEF TakeSlice
  <2> HIDE DEF new
  <2>5. QED
    BY Zenon, <2>1, <2>2, <2>3, <2>4, <1>1, <1>3 DEF Split
<1>6. /\ queue' = queue
      /\ refs' = [refs EXCEPT ![s] = 1]
      /\ cursor_slice' = NextSlicePosition(slices'[s])
      /\ cursor_chunk' = c
      /\ call' = Idle
  BY Zenon DEF TakeSlice, CursorAfter
<1>7. f \in SliceIds /\ f \notin ids /\ f # s /\ f # NoSlice /\ s # NoSlice
  BY <1>1 DEF FreshIds, SliceIds, NoSlice
<1> HIDE DEF s, c, i, eff, n, e, rest
<1>8. new \in Slice /\ tail \in Slice
  <2>1. call.size \in 0 .. PageSize /\ Wanted - call.size \in 0 .. PageSize /\ rest \in 0 .. PageSize
    BY <1>1, <1>2, <1>3, <1>4 DEF Addresses
  <2>2. 0 \in 0 .. PageSize
    OBVIOUS
  <2> QED BY Zenon, <1>1, <1>4, <2>1, <2>2 DEF Slice
<1>9. /\ new.chunk = c /\ new.offset = i /\ EffectiveSize(new) = Wanted
      /\ NextSlicePosition(new) = n
      /\ tail.chunk = c /\ tail.offset = n /\ EffectiveSize(tail) = rest
      /\ NextSlicePosition(tail) = e
  <2>1. new.chunk = c /\ new.offset = i /\ new.size = call.size /\ new.padding = Wanted - call.size
    BY Zenon, <1>1 DEF Slice
  <2>2. EffectiveSize(new) = Wanted
    BY <2>1, <1>2 DEF EffectiveSize
  <2>3. NextSlicePosition(new) = n
    BY Zenon, <2>1, <2>2 DEF NextSlicePosition, n
  <2>4. EffectiveSize(tail) = rest
    BY <1>3 DEF EffectiveSize
  <2> QED BY Zenon, <2>1, <2>2, <2>3, <2>4, <1>4 DEF NextSlicePosition
<1> HIDE DEF new, tail
<1>10. /\ slices'[s] = new /\ slices'[f] = tail
       /\ \A u \in ids \ {s} : slices'[u] = slices[u]
  BY Zenon, <1>1, <1>5, <1>7 DEF PoolInv, TypeOK
<1>11. \A d \in Chunks, a \in Addresses :
         pages'[d][a] = IF d = c /\ a = n THEN f ELSE pages[d][a]
  BY Zenon, <1>1, <1>4, <1>5 DEF PoolInv, TypeOK
<1>12. pages[c][n] = NoSlice
  <2>1. n \in slices[s].offset + 1 .. NextSlicePosition(slices[s]) - 1
    BY <1>1, <1>4 DEF Addresses, e
  <2> QED BY Zenon, <2>1, <1>1 DEF PoolInv, Layout, Tiles
<1>13. PageMapAgrees'
  <2>1. ASSUME NEW u \in ids'
        PROVE  slices'[u].chunk < queue' /\ pages'[slices'[u].chunk][slices'[u].offset] = u
    <3>1. CASE u = s
      BY <3>1, <1>1, <1>4, <1>6, <1>9, <1>10, <1>11 DEF PoolInv, Layout, PageMapAgrees, Addresses
    <3>2. CASE u = f
      BY Zenon, <3>2, <1>1, <1>4, <1>6, <1>9, <1>10, <1>11
    <3>3. CASE u \in ids \ {s}
      <4>1. /\ slices'[u] = slices[u] /\ slices[u].chunk < queue
            /\ pages[slices[u].chunk][slices[u].offset] = u
        BY Zenon, <3>3, <1>10 DEF PoolInv, Layout, PageMapAgrees
      <4>2. slices[u].chunk \in Chunks /\ slices[u].offset \in Addresses /\ u # NoSlice
        BY <3>3, SliceType DEF PoolInv, TypeOK, Addresses, SliceIds, NoSlice
      <4> QED BY <4>1, <4>2, <1>6, <1>11, <1>12
    <3> QED BY Zenon, <3>1, <3>2, <3>3, <1>5
  <2>2. ASSUME NEW d \in Chunks, NEW a \in Addresses, pages'[d][a] # NoSlice
        PROVE  /\ pages'[d][a] \in ids'
               /\ slices'[pages'[d][a]].chunk = d
               /\ slices'[pages'[d][a]].offset = a
    <3>1. CASE d = c /\ a = n
      BY <3>1, <1>5, <1>9, <1>10, <1>11
    <3>2. CASE ~(d = c /\ a = n)
      <4>1. pages'[d][a] = pages[d][a] /\ pages[d][a] \in ids
            /\ slices[pages[d][a]].chunk = d /\ slices[pages[d][a]].offset = a
        BY <3>2, <2>2, <1>11 DEF PoolInv, Layout, PageMapAgrees
      <4>2. CASE pages[d][a] = s
        BY <4>1, <4>2, <1>1, <1>5, <1>9, <1>10
      <4>3. CASE pages[d][a] # s
        <5>1. slices'[pages[d][a]] = slices[pages[d][a]]
          BY Zenon, <4>1, <4>3, <1>10
        <5> QED BY <4>1, <5>1, <1>5
      <4> QED BY Zenon, <4>2, <4>3
    <3> QED BY Zenon, <3>1, <3>2
  <2> QED BY Zenon, <2>1, <2>2 DEF PageMapAgrees
<1>14. Tiles'
  <2>1. ASSUME NEW d \in 0 .. queue' - 1 PROVE pages'[d][0] # NoSlice
    <3>1. d \in Chunks /\ 0 \in Addresses
      BY <1>6 DEF PoolInv, TypeOK, Chunks, Addresses
    <3>2. pages[d][0] # NoSlice
      BY Zenon, <1>6 DEF PoolInv, Layout, Tiles
    <3> QED BY Zenon, <3>1, <3>2, <1>7, <1>11
  <2>2. ASSUME NEW u \in ids'
        PROVE  LET next == NextSlicePosition(slices'[u])
               IN  /\ slices'[u].offset < next /\ next <= PageSize
                   /\ next < PageSize => pages'[slices'[u].chunk][next] # NoSlice
                   /\ \A a \in slices'[u].offset + 1 .. next - 1 :
                        pages'[slices'[u].chunk][a] = NoSlice
    <3>0. \A a \in i + 1 .. e - 1 : pages[c][a] = NoSlice
      BY Zenon, <1>1 DEF PoolInv, Layout, Tiles, e
    <3>1. CASE u = s
      <4>1. ASSUME NEW a \in i + 1 .. n - 1 PROVE pages'[c][a] = NoSlice
        <5>1. a \in i + 1 .. e - 1 /\ a # n /\ a \in Addresses
          BY <1>1, <1>4 DEF Addresses
        <5> QED BY Zenon, <5>1, <3>0, <1>1, <1>11
      <4>2. pages'[c][n] # NoSlice
        BY Zenon, <1>1, <1>4, <1>7, <1>11
      <4> QED BY <3>1, <4>1, <4>2, <1>4, <1>9, <1>10 DEF Addresses
    <3>2. CASE u = f
      <4>1. ASSUME NEW a \in n + 1 .. e - 1 PROVE pages'[c][a] = NoSlice
        <5>1. a \in i + 1 .. e - 1 /\ a # n /\ a \in Addresses
          BY <1>1, <1>4 DEF Addresses
        <5> QED BY Zenon, <5>1, <3>0, <1>1, <1>11
      <4>2. e < PageSize => pages[c][e] # NoSlice
        BY Zenon, <1>1 DEF PoolInv, Layout, Tiles, e
      <4>3. e < PageSize => pages'[c][e] # NoSlice
        BY <4>2, <1>1, <1>4, <1>11 DEF Addresses
      <4> QED BY <3>2, <4>1, <4>3, <1>1, <1>4, <1>9, <1>10 DEF Addresses
    <3>3. CASE u \in ids \ {s}
      <4>1. u \in ids /\ u \in SliceIds /\ u # s /\ slices'[u] = slices[u]
        BY Zenon, <3>3, <1>10 DEF PoolInv, TypeOK
      <4> DEFINE next == NextSlicePosition(slices[u])
      <4>2. /\ slices[u].offset < next /\ next <= PageSize
            /\ next < PageSize => pages[slices[u].chunk][next] # NoSlice
            /\ \A a \in slices[u].offset + 1 .. next - 1 : pages[slices[u].chunk][a] = NoSlice
        BY Zenon, <4>1 DEF PoolInv, Layout, Tiles
      <4>3. slices[u].chunk \in Chunks /\ slices[u].offset \in Nat /\ next \in Nat
        BY <4>1, SliceType DEF PoolInv
      <4>4. next < PageSize => pages'[slices[u].chunk][next] # NoSlice
        BY <4>2, <4>3, <1>7, <1>11 DEF Addresses
      <4>5. ASSUME NEW a \in slices[u].offset + 1 .. next - 1
            PROVE  pages'[slices[u].chunk][a] = NoSlice
        <5>1. slices[u].chunk = c => a # n
          <6> SUFFICES ASSUME slices[u].chunk = c, a = n PROVE FALSE
            BY Zenon
          <6>1. e <= slices[u].offset \/ next <= i
            BY Zenon, <4>1, <1>1, Disjoint DEF PoolInv, Layout, e
          <6> QED BY <6>1, <4>3, <1>1, <1>4 DEF Addresses
        <5> QED BY <5>1, <4>2, <4>3, <1>11 DEF Addresses
      <4> QED BY Zenon, <4>1, <4>2, <4>4, <4>5
    <3> QED BY Zenon, <3>1, <3>2, <3>3, <1>5
  <2> QED BY Zenon, <2>1, <2>2 DEF Tiles
<1>15. Aligned'
  BY Zenon, <1>1, <1>2, <1>3, <1>5, <1>9, <1>10 DEF PoolInv, Layout, Aligned
<1>16. TypeOK'
  <2>1. slices' \in [SliceIds -> Slice]
    BY Zenon, <1>5, <1>8 DEF PoolInv, TypeOK
  <2>2. refs' \in [SliceIds -> 0 .. MaxRefs]
    <3>1. 1 \in 0 .. MaxRefs
      OBVIOUS
    <3> QED BY Zenon, <3>1, <1>6 DEF PoolInv, TypeOK
  <2>3. pages' \in [Chunks -> [Addresses -> SliceIds \cup {NoSlice}]]
    BY Zenon, <1>5, <1>7 DEF PoolInv, TypeOK
  <2>4. call' \in ReserveCall
    BY Zenon, <1>6, IdleType
  <2>5. cursor_slice' \in Addresses /\ cursor_chunk' \in 0 .. MaxPages
    <3>1. c \in 0 .. MaxPages
      BY Zenon DEF PoolInv, TypeOK, ReserveCall, c
    <3> QED BY Zenon, <3>1, <1>4, <1>6, <1>9, <1>10
  <2>6. ids' \subseteq SliceIds
    BY Zenon, <1>5, <1>7 DEF PoolInv, TypeOK
  <2> QED BY Zenon, <1>6, <2>1, <2>2, <2>3, <2>4, <2>5, <2>6 DEF PoolInv, TypeOK
<1> QED BY Zenon, <1>1, <1>4, <1>5, <1>9, <1>10, <1>13, <1>14, <1>15, <1>16 DEF Layout, s

(* A successful search.                                                    *)
LEMMA TakeSliceInv ==
  ASSUME PoolInv, TakeSlice
  PROVE  PoolInv'
<1>1. TypeOK' /\ Layout' /\ Current \in ids' /\ NextSlicePosition(slices'[Current]) \in Addresses
  <2>1. EffectiveSize(slices[Current]) - Wanted < Alignment
        \/ EffectiveSize(slices[Current]) - Wanted >= Alignment
    <3>1. EffectiveSize(slices[Current]) \in Nat /\ Wanted \in Nat
      BY Zenon, CurrentSlice, SliceType, WantedType DEF TakeSlice, PoolInv
    <3> QED BY <3>1
  <2> QED BY Zenon, <2>1, TakeWholeInv, TakeSplitInv
<1>2. /\ queue' = queue /\ refs' = [refs EXCEPT ![Current] = 1] /\ call' = Idle
      /\ cursor_slice' = NextSlicePosition(slices'[Current])
      /\ cursor_chunk' = call.chunk_index /\ ids \subseteq ids'
  BY Zenon DEF TakeSlice, CursorAfter, Split
<1>3. /\ Current \in ids /\ Current \in SliceIds /\ call.chunk_index < queue
      /\ slices[Current].chunk = call.chunk_index
  BY Zenon, CurrentSlice DEF TakeSlice
<1>4. HeldSlicesExist'
  BY Zenon, <1>1, <1>2 DEF PoolInv, HeldSlicesExist, TypeOK
<1>5. slices'[Current].chunk = call.chunk_index
  <2>1. slices[Current] \in Slice
    BY Zenon, <1>3, SliceType DEF PoolInv
  <2>2. \A f \in FreshIds : f # Current
    BY Zenon, <1>3 DEF FreshIds
  <2>3. Split(Current) /\ slices \in [SliceIds -> Slice]
    BY Zenon DEF TakeSlice, PoolInv, TypeOK
  <2>4. \/ slices'[Current] = Resized(slices[Current], call.size)
        \/ slices'[Current] = Resized(Shrunk(slices[Current]), call.size)
    BY Zenon, <1>3, <2>2, <2>3 DEF Split
  <2>5. /\ Resized(slices[Current], call.size).chunk = slices[Current].chunk
        /\ Resized(Shrunk(slices[Current]), call.size).chunk = slices[Current].chunk
    BY Zenon, <2>1 DEF Resized, Shrunk, Slice
  <2> QED BY Zenon, <1>3, <2>4, <2>5
<1>6. CursorOnBoundary'
  <2>1. ASSUME cursor_slice' \in 1 .. PageSize - 1
        PROVE  pages'[cursor_chunk'][cursor_slice'] # NoSlice
    BY <2>1, <1>1, <1>2, <1>5 DEF Layout, Tiles
  <2> QED BY Zenon, <2>1, <1>2 DEF CursorOnBoundary, Idle
<1>7. SearchBehindCursor'
  BY Zenon, <1>2, <1>3 DEF SearchBehindCursor, Idle
<1> QED BY Zenon, <1>1, <1>4, <1>6, <1>7 DEF PoolInv

(* A page that is not in the ring yet has no slices.                       *)
LEMMA NewPageEmpty ==
  ASSUME TypeOK, PageMapAgrees, queue < MaxPages
  PROVE  queue \in Chunks /\ \A a \in Addresses : pages[queue][a] = NoSlice
<1>1. queue \in Chunks
  BY DEF TypeOK, Chunks
<1>2. ASSUME NEW a \in Addresses, pages[queue][a] # NoSlice PROVE FALSE
  <2>1. pages[queue][a] \in ids /\ slices[pages[queue][a]].chunk = queue
    BY Zenon, <1>1, <1>2 DEF PageMapAgrees
  <2>2. slices[pages[queue][a]].chunk < queue
    BY Zenon, <2>1 DEF PageMapAgrees
  <2> QED BY <2>1, <2>2, <1>1 DEF Chunks
<1> QED BY Zenon, <1>1, <1>2

(* A new page, with its head handed out and its tail free.                 *)
LEMMA AllocInv ==
  ASSUME PoolInv, Alloc
  PROVE  PoolInv'
<1> DEFINE c == queue
           slice == NewSlice(c, 0, call.size)
           ext == EffectiveSize(slice)
           tail == NewSlice(c, ext, PageSize - ext)
<1>1. /\ c \in Chunks /\ c < MaxPages /\ c \in Nat
      /\ \A a \in Addresses : pages[c][a] = NoSlice
  BY NewPageEmpty DEF PoolInv, Layout, Alloc, TypeOK
<1>2. /\ slice.chunk = c /\ slice.offset = 0 /\ slice.size = call.size
      /\ slice.padding = CalculatePadding(call.size)
      /\ ext = Wanted
  BY Zenon DEF NewSlice, EffectiveSize, Wanted
<1>3. /\ call.size \in Nat /\ call.size <= PageSize /\ ext \in Nat /\ 0 < ext
      /\ call.size <= ext /\ ext % Alignment = 0 /\ ext <= PageSize
  <2>1. /\ call.size \in Nat /\ call.size <= PageSize /\ Wanted \in Nat /\ 0 < Wanted
        /\ call.size <= Wanted /\ Wanted % Alignment = 0
    BY Zenon, WantedType DEF Alloc
  <2>2. Wanted <= PageSize
    BY Zenon, <2>1, PaddedFits DEF Wanted
  <2> QED BY Zenon, <2>1, <2>2, <1>2
<1>4. slice \in Slice /\ NextSlicePosition(slice) = ext
  <2>1. CalculatePadding(call.size) \in Nat
    <3>1. CalculatePadding(call.size) \in 0 .. Alignment - 1
      BY Zenon, <1>3, Padded
    <3> QED BY <3>1
  <2>2. ext = call.size + CalculatePadding(call.size)
    BY Zenon, <1>2 DEF Wanted
  <2> HIDE DEF ext, c
  <2>3. NextSlicePosition(slice) = ext
    BY <1>2, <1>3 DEF NextSlicePosition, ext
  <2>4. /\ call.size \in 0 .. PageSize /\ CalculatePadding(call.size) \in 0 .. PageSize
        /\ 0 \in Addresses
    BY <1>3, <2>1, <2>2 DEF Addresses
  <2>5. slice \in Slice
    BY Zenon, <2>4, <1>1 DEF Slice, NewSlice
  <2> QED BY Zenon, <2>3, <2>5
<1>5. ASSUME ext < PageSize
      PROVE  /\ tail \in Slice /\ tail.chunk = c /\ tail.offset = ext
             /\ EffectiveSize(tail) = PageSize - ext /\ NextSlicePosition(tail) = PageSize
             /\ (PageSize - ext) % Alignment = 0
  <2>1. (PageSize - ext) % Alignment = 0 /\ PageSize - ext \in Nat
    BY <1>3, <1>5, AlignedSum
  <2>2. CalculatePadding(PageSize - ext) = 0
    BY Zenon, <2>1, Padded
  <2> HIDE DEF ext, c
  <2>3. /\ tail.chunk = c /\ tail.offset = ext /\ tail.size = PageSize - ext /\ tail.padding = 0
    BY Zenon, <2>2 DEF NewSlice
  <2>4. PageSize - ext \in 0 .. PageSize /\ ext \in Addresses /\ 0 \in 0 .. PageSize
    BY <1>3, <1>5 DEF Addresses
  <2>5. tail \in Slice
    BY Zenon, <2>2, <2>4, <1>1 DEF Slice, NewSlice
  <2>6. EffectiveSize(tail) = PageSize - ext
    BY <2>3, <2>4 DEF EffectiveSize
  <2>7. NextSlicePosition(tail) = PageSize
    BY <2>3, <2>6, <1>3 DEF NextSlicePosition
  <2> QED BY Zenon, <2>1, <2>3, <2>5, <2>6, <2>7
<1>6. PICK h \in FreshIds :
        /\ refs' = [refs EXCEPT ![h] = 1]
        /\ \/ /\ ext < PageSize
              /\ \E f \in FreshIds \ {h} :
                   /\ ids' = ids \cup {h, f}
                   /\ slices' = [slices EXCEPT ![h] = slice, ![f] = tail]
                   /\ pages' = [pages EXCEPT ![c][0] = h, ![c][ext] = f]
           \/ /\ ext >= PageSize
              /\ ids' = ids \cup {h}
              /\ slices' = [slices EXCEPT ![h] = slice]
              /\ pages' = [pages EXCEPT ![c][0] = h]
  BY Zenon DEF Alloc, TailSize
<1>7. /\ queue' = c + 1 /\ call' = Idle
      /\ UNCHANGED <<cursor_chunk, cursor_slice>>
  BY Zenon DEF Alloc
<1>8. h \in SliceIds /\ h \notin ids /\ h # NoSlice
  BY DEF FreshIds, SliceIds, NoSlice
<1> HIDE DEF c, ext, slice, tail
<1>9. TypeOK' /\ Layout' /\ ids \cup {h} \subseteq ids'
  <2>1. CASE ext < PageSize
    <3>1. PICK f \in FreshIds \ {h} :
            /\ ids' = ids \cup {h, f}
            /\ slices' = [slices EXCEPT ![h] = slice, ![f] = tail]
            /\ pages' = [pages EXCEPT ![c][0] = h, ![c][ext] = f]
      BY <2>1, <1>3, <1>6
    <3>2. f \in SliceIds /\ f \notin ids /\ f # NoSlice /\ f # h
      BY DEF FreshIds, SliceIds, NoSlice
    <3>3. ext \in Addresses /\ 0 \in Addresses /\ ext # 0
      BY <1>3 DEF Addresses
    <3>4. \A d \in Chunks, a \in Addresses :
            pages'[d][a] = IF d = c /\ a = 0 THEN h
                           ELSE IF d = c /\ a = ext THEN f ELSE pages[d][a]
      BY Zenon, <3>1, <3>3, <1>1 DEF PoolInv, TypeOK
    <3>5. slices'[h] = slice /\ slices'[f] = tail /\ \A u \in ids : slices'[u] = slices[u]
      BY Zenon, <3>1, <3>2, <1>8 DEF PoolInv, TypeOK
    <3>6. PageMapAgrees'
      <4>1. ASSUME NEW u \in ids'
            PROVE  slices'[u].chunk < queue' /\ pages'[slices'[u].chunk][slices'[u].offset] = u
        <5>1. CASE u = h
          BY <5>1, <3>3, <3>4, <3>5, <1>1, <1>2, <1>4, <1>7
        <5>2. CASE u = f
          BY <5>2, <3>3, <3>4, <3>5, <1>1, <1>5, <1>7, <2>1
        <5>3. CASE u \in ids
          <6>1. /\ slices'[u] = slices[u] /\ slices[u].chunk < c
                /\ pages[slices[u].chunk][slices[u].offset] = u
            BY Zenon, <5>3, <3>5 DEF PoolInv, Layout, PageMapAgrees, c
          <6>2. slices[u].chunk \in Chunks /\ slices[u].offset \in Addresses /\ slices[u].chunk \in Nat
            BY <5>3, SliceType DEF PoolInv, TypeOK, Addresses, Chunks
          <6> QED BY <6>1, <6>2, <3>4, <1>1, <1>7
        <5> QED BY Zenon, <5>1, <5>2, <5>3, <3>1
      <4>2. ASSUME NEW d \in Chunks, NEW a \in Addresses, pages'[d][a] # NoSlice
            PROVE  /\ pages'[d][a] \in ids'
                   /\ slices'[pages'[d][a]].chunk = d
                   /\ slices'[pages'[d][a]].offset = a
        <5>1. CASE d = c /\ a = 0
          <6>1. pages'[d][a] = h
            BY Zenon, <5>1, <3>4
          <6> QED BY Zenon, <5>1, <6>1, <3>1, <3>5, <1>2, <1>4
        <5>2. CASE d = c /\ a = ext
          <6>1. pages'[d][a] = f
            BY Zenon, <5>2, <3>3, <3>4
          <6> QED BY Zenon, <5>2, <6>1, <3>1, <3>5, <1>5, <2>1
        <5>3. CASE ~(d = c /\ a = 0) /\ ~(d = c /\ a = ext)
          <6>1. pages'[d][a] = pages[d][a] /\ pages[d][a] \in ids
                /\ slices[pages[d][a]].chunk = d /\ slices[pages[d][a]].offset = a
            BY <5>3, <4>2, <3>4 DEF PoolInv, Layout, PageMapAgrees
          <6>2. slices'[pages[d][a]] = slices[pages[d][a]] /\ pages[d][a] \in ids'
            BY Zenon, <6>1, <3>1, <3>5
          <6> QED BY Zenon, <6>1, <6>2
        <5> QED BY Zenon, <5>1, <5>2, <5>3
      <4> QED BY Zenon, <4>1, <4>2 DEF PageMapAgrees
    <3>7. Tiles'
      <4>1. ASSUME NEW d \in 0 .. queue' - 1 PROVE pages'[d][0] # NoSlice
        <5>1. d \in Chunks /\ (d = c \/ d \in 0 .. queue - 1)
          BY <1>1, <1>7 DEF Chunks, c
        <5>2. d # c => pages[d][0] # NoSlice
          BY Zenon, <5>1 DEF PoolInv, Layout, Tiles
        <5> QED BY Zenon, <5>1, <5>2, <3>2, <3>3, <3>4, <1>8
      <4>2. ASSUME NEW u \in ids'
            PROVE  LET next == NextSlicePosition(slices'[u])
                   IN  /\ slices'[u].offset < next /\ next <= PageSize
                       /\ next < PageSize => pages'[slices'[u].chunk][next] # NoSlice
                       /\ \A a \in slices'[u].offset + 1 .. next - 1 :
                            pages'[slices'[u].chunk][a] = NoSlice
        <5>1. ASSUME NEW a \in 1 .. PageSize - 1, a # ext PROVE pages'[c][a] = NoSlice
          BY <5>1, <3>4, <1>1 DEF Addresses
        <5>2. CASE u = h
          <6>1. pages'[c][ext] # NoSlice
            BY Zenon, <3>2, <3>3, <3>4, <1>1
          <6> QED BY <5>1, <5>2, <6>1, <3>5, <1>2, <1>3, <1>4, <2>1
        <5>3. CASE u = f
          <6>1. /\ slices'[u].offset = ext /\ slices'[u].chunk = c
                /\ NextSlicePosition(slices'[u]) = PageSize
            BY Zenon, <5>3, <3>5, <1>5, <2>1
          <6>2. \A a \in ext + 1 .. PageSize - 1 : a \in 1 .. PageSize - 1 /\ a # ext
            BY <1>3
          <6> QED BY <5>1, <6>1, <6>2, <1>3, <2>1
        <5>4. CASE u \in ids
          <6>1. u \in SliceIds /\ slices'[u] = slices[u] /\ slices[u].chunk < c
            BY Zenon, <5>4, <3>5 DEF PoolInv, TypeOK, Layout, PageMapAgrees, c
          <6> DEFINE next == NextSlicePosition(slices[u])
          <6>2. /\ slices[u].offset < next /\ next <= PageSize
                /\ next < PageSize => pages[slices[u].chunk][next] # NoSlice
                /\ \A a \in slices[u].offset + 1 .. next - 1 : pages[slices[u].chunk][a] = NoSlice
            BY Zenon, <5>4 DEF PoolInv, Layout, Tiles
          <6>3. /\ slices[u].chunk \in Chunks /\ slices[u].chunk # c
                /\ slices[u].offset \in Nat /\ next \in Nat
            BY <6>1, <1>1, SliceType DEF PoolInv, Chunks
          <6>4. \A a \in Addresses : pages'[slices[u].chunk][a] = pages[slices[u].chunk][a]
            BY Zenon, <6>3, <3>4
          <6>5. \A a \in slices[u].offset + 1 .. next - 1 : a \in Addresses
            BY <6>2, <6>3 DEF Addresses
          <6>6. next \in Addresses
            BY <6>2, <6>3 DEF Addresses
          <6> QED BY Zenon, <6>1, <6>2, <6>4, <6>5, <6>6
        <5> QED BY Zenon, <5>2, <5>3, <5>4, <3>1
      <4> QED BY Zenon, <4>1, <4>2 DEF Tiles
    <3>8. Aligned'
      <4>1. 0 % Alignment = 0
        BY MulMod
      <4> QED BY Zenon, <4>1, <3>1, <3>5, <1>2, <1>3, <1>4, <1>5, <2>1 DEF PoolInv, Layout, Aligned, ext
    <3>9. /\ slices' \in [SliceIds -> Slice]
          /\ pages' \in [Chunks -> [Addresses -> SliceIds \cup {NoSlice}]]
          /\ ids' \subseteq SliceIds
      BY Zenon, <3>1, <3>2, <1>2, <1>4, <1>5, <1>8, <2>1 DEF PoolInv, TypeOK
    <3>10. TypeOK'
      <4>1. refs' \in [SliceIds -> 0 .. MaxRefs]
        <5>1. 1 \in 0 .. MaxRefs
          OBVIOUS
        <5> QED BY Zenon, <5>1, <1>6 DEF PoolInv, TypeOK
      <4>2. queue' \in 0 .. MaxPages
        BY <1>1, <1>7
      <4> QED BY Zenon, <3>9, <4>1, <4>2, <1>7, IdleType DEF PoolInv, TypeOK
    <3> QED BY Zenon, <3>1, <3>6, <3>7, <3>8, <3>10 DEF Layout
  <2>2. CASE ext >= PageSize
    <3>1. /\ ids' = ids \cup {h}
          /\ slices' = [slices EXCEPT ![h] = slice]
          /\ pages' = [pages EXCEPT ![c][0] = h]
          /\ ext = PageSize
      BY <2>2, <1>3, <1>6
    <3>2. 0 \in Addresses
      BY DEF Addresses
    <3>3. \A d \in Chunks, a \in Addresses :
            pages'[d][a] = IF d = c /\ a = 0 THEN h ELSE pages[d][a]
      BY Zenon, <3>1, <3>2, <1>1 DEF PoolInv, TypeOK
    <3>4. slices'[h] = slice /\ \A u \in ids : slices'[u] = slices[u]
      BY Zenon, <3>1, <1>8 DEF PoolInv, TypeOK
    <3>5. PageMapAgrees'
      <4>1. ASSUME NEW u \in ids'
            PROVE  slices'[u].chunk < queue' /\ pages'[slices'[u].chunk][slices'[u].offset] = u
        <5>1. CASE u = h
          BY <5>1, <3>2, <3>3, <3>4, <1>1, <1>2, <1>4, <1>7
        <5>2. CASE u \in ids
          <6>1. /\ slices'[u] = slices[u] /\ slices[u].chunk < c
                /\ pages[slices[u].chunk][slices[u].offset] = u
            BY Zenon, <5>2, <3>4 DEF PoolInv, Layout, PageMapAgrees, c
          <6>2. slices[u].chunk \in Chunks /\ slices[u].offset \in Addresses /\ slices[u].chunk \in Nat
            BY <5>2, SliceType DEF PoolInv, TypeOK, Addresses, Chunks
          <6> QED BY <6>1, <6>2, <3>3, <1>1, <1>7
        <5> QED BY Zenon, <5>1, <5>2, <3>1
      <4>2. ASSUME NEW d \in Chunks, NEW a \in Addresses, pages'[d][a] # NoSlice
            PROVE  /\ pages'[d][a] \in ids'
                   /\ slices'[pages'[d][a]].chunk = d
                   /\ slices'[pages'[d][a]].offset = a
        <5>1. CASE d = c /\ a = 0
          BY <5>1, <3>1, <3>3, <3>4, <1>2, <1>4
        <5>2. CASE ~(d = c /\ a = 0)
          <6>1. pages'[d][a] = pages[d][a] /\ pages[d][a] \in ids
                /\ slices[pages[d][a]].chunk = d /\ slices[pages[d][a]].offset = a
            BY <5>2, <4>2, <3>3 DEF PoolInv, Layout, PageMapAgrees
          <6> QED BY <6>1, <3>1, <3>4
        <5> QED BY Zenon, <5>1, <5>2
      <4> QED BY Zenon, <4>1, <4>2 DEF PageMapAgrees
    <3>6. Tiles'
      <4>1. ASSUME NEW d \in 0 .. queue' - 1 PROVE pages'[d][0] # NoSlice
        <5>1. d \in Chunks /\ (d = c \/ d \in 0 .. queue - 1)
          BY <1>1, <1>7 DEF Chunks, c
        <5>2. d # c => pages[d][0] # NoSlice
          BY Zenon, <5>1 DEF PoolInv, Layout, Tiles
        <5> QED BY Zenon, <5>1, <5>2, <3>2, <3>3, <1>8
      <4>2. ASSUME NEW u \in ids'
            PROVE  LET next == NextSlicePosition(slices'[u])
                   IN  /\ slices'[u].offset < next /\ next <= PageSize
                       /\ next < PageSize => pages'[slices'[u].chunk][next] # NoSlice
                       /\ \A a \in slices'[u].offset + 1 .. next - 1 :
                            pages'[slices'[u].chunk][a] = NoSlice
        <5>1. CASE u = h
          <6>1. \A a \in 1 .. PageSize - 1 : pages'[c][a] = NoSlice
            BY <3>3, <1>1 DEF Addresses
          <6> QED BY <5>1, <6>1, <3>1, <3>4, <1>2, <1>3, <1>4
        <5>2. CASE u \in ids
          <6>1. u \in SliceIds /\ slices'[u] = slices[u] /\ slices[u].chunk < c
            BY Zenon, <5>2, <3>4 DEF PoolInv, TypeOK, Layout, PageMapAgrees, c
          <6> DEFINE next == NextSlicePosition(slices[u])
          <6>2. /\ slices[u].offset < next /\ next <= PageSize
                /\ next < PageSize => pages[slices[u].chunk][next] # NoSlice
                /\ \A a \in slices[u].offset + 1 .. next - 1 : pages[slices[u].chunk][a] = NoSlice
            BY Zenon, <5>2 DEF PoolInv, Layout, Tiles
          <6>3. /\ slices[u].chunk \in Chunks /\ slices[u].chunk # c
                /\ slices[u].offset \in Nat /\ next \in Nat
            BY <6>1, <1>1, SliceType DEF PoolInv, Chunks
          <6>4. \A a \in Addresses : pages'[slices[u].chunk][a] = pages[slices[u].chunk][a]
            BY Zenon, <6>3, <3>3
          <6>5. \A a \in slices[u].offset + 1 .. next - 1 : a \in Addresses
            BY <6>2, <6>3 DEF Addresses
          <6>6. next \in Addresses
            BY <6>2, <6>3 DEF Addresses
          <6> QED BY Zenon, <6>1, <6>2, <6>4, <6>5, <6>6
        <5> QED BY Zenon, <5>1, <5>2, <3>1
      <4> QED BY Zenon, <4>1, <4>2 DEF Tiles
    <3>7. Aligned'
      <4>1. 0 % Alignment = 0
        BY MulMod
      <4> QED BY Zenon, <4>1, <3>1, <3>4, <1>2, <1>3, <1>4 DEF PoolInv, Layout, Aligned, ext
    <3>8. /\ slices' \in [SliceIds -> Slice]
          /\ pages' \in [Chunks -> [Addresses -> SliceIds \cup {NoSlice}]]
          /\ ids' \subseteq SliceIds
      BY Zenon, <3>1, <1>2, <1>4, <1>8 DEF PoolInv, TypeOK
    <3>9. TypeOK'
      <4>1. refs' \in [SliceIds -> 0 .. MaxRefs]
        <5>1. 1 \in 0 .. MaxRefs
          OBVIOUS
        <5> QED BY Zenon, <5>1, <1>6 DEF PoolInv, TypeOK
      <4>2. queue' \in 0 .. MaxPages
        BY <1>1, <1>7
      <4> QED BY Zenon, <3>8, <4>1, <4>2, <1>7, IdleType DEF PoolInv, TypeOK
    <3> QED BY Zenon, <3>1, <3>5, <3>6, <3>7, <3>9 DEF Layout
  <2> QED BY <2>1, <2>2, <1>3
<1>10. HeldSlicesExist'
  BY Zenon, <1>6, <1>8, <1>9 DEF PoolInv, HeldSlicesExist, TypeOK
<1>11. CursorOnBoundary'
  <2>1. ASSUME cursor_slice \in 1 .. PageSize - 1 PROVE pages'[cursor_chunk][cursor_slice] # NoSlice
    <3>1. cursor_chunk < c /\ cursor_chunk \in Chunks /\ cursor_slice \in Addresses
      BY <2>1, <1>1 DEF PoolInv, TypeOK, SearchBehindCursor, Chunks, c
    <3>2. pages'[cursor_chunk][cursor_slice] = pages[cursor_chunk][cursor_slice]
      BY <3>1, <1>1, <1>6 DEF PoolInv, TypeOK, Chunks
    <3> QED BY Zenon, <3>2, <2>1 DEF PoolInv, CursorOnBoundary
  <2> QED BY Zenon, <2>1, <1>7 DEF CursorOnBoundary, Idle
<1>12. SearchBehindCursor'
  BY <1>1, <1>7 DEF PoolInv, SearchBehindCursor, TypeOK, Idle, c
<1> QED BY Zenon, <1>9, <1>10, <1>11, <1>12 DEF PoolInv

-----------------------------------------------------------------------------
(* The theorems                                                            *)

(* Every step of the pool and of its clients preserves the invariant.      *)
LEMMA NextInv == PoolInv /\ [Next]_vars => PoolInv'
<1> SUFFICES ASSUME PoolInv, [Next]_vars PROVE PoolInv'
  BY Zenon
<1>1. CASE \E size \in Sizes, exclude \in SUBSET (0 .. queue - 1) : TryReserve(size, exclude)
  BY Zenon, <1>1, TryReserveInv
<1>2. CASE Search
  BY Zenon, <1>2, NextChunkInv, TakeSliceInv, RejectSliceInv, MergeInv, AdvanceInv, SecondPassInv DEF Search
<1>3. CASE Alloc
  BY Zenon, <1>3, AllocInv
<1>4. CASE AllocFails
  BY Zenon, <1>4, AllocFailsInv
<1>5. CASE \E s \in SliceIds : CloneHandle(s) \/ DropHandle(s)
  BY Zenon, <1>5, ClientInv
<1>6. CASE UNCHANGED vars
  BY <1>6 DEF vars, PoolInv, TypeOK, Layout, PageMapAgrees, Tiles, Aligned, HeldSlicesExist,
              CursorOnBoundary, SearchBehindCursor, Current, FindSlice, InRange
<1> QED BY Zenon, <1>1, <1>2, <1>3, <1>4, <1>5, <1>6 DEF Next, Serve

(* The invariant holds in every reachable state.                           *)
THEOREM PoolInvariant == Spec => []PoolInv
  BY InitInv, NextInv, PTL DEF Spec

(* The variables keep their types; in particular no slice ever reaches     *)
(* past the end of its page.                                               *)
THEOREM TypeCorrect == Spec => []TypeOK
<1>1. PoolInv => TypeOK
  BY Zenon DEF PoolInv
<1> QED BY <1>1, PoolInvariant, PTL

(* Whatever sequence of reservations, splits, merges and drops happened,   *)
(* the slices of every page cover it without gap or overlap, and page maps *)
(* and slice table agree.                                                  *)
THEOREM PagesStayTiled == Spec => [](Tiles /\ PageMapAgrees /\ Aligned)
<1>1. PoolInv => Tiles /\ PageMapAgrees /\ Aligned
  BY Zenon DEF PoolInv, Layout
<1> QED BY <1>1, PoolInvariant, PTL

(* No two live handles of the pool share a byte of device memory, for any  *)
(* interleaving of the search with drops and clones on client threads.     *)
THEOREM NoSharedMemory == Spec => []LiveHandlesDisjoint
<1>1. PoolInv => LiveHandlesDisjoint
  BY Zenon, LayoutSeparatesHandles DEF PoolInv, Layout
<1> QED BY <1>1, PoolInvariant, PTL

(* The cursor never ends up inside a merged slice.                         *)
THEOREM CursorStaysOnBoundary == Spec => []CursorOnBoundary
<1>1. PoolInv => CursorOnBoundary
  BY Zenon DEF PoolInv
<1> QED BY <1>1, PoolInvariant, PTL

(* One step of the pool leaves the slices in use where they are.           *)
LEMMA StepKeepsHeldSlices ==
  ASSUME PoolInv, [Next]_vars, NEW s \in SliceIds, refs[s] > 0, refs'[s] > 0
  PROVE  slices'[s] = slices[s]
<1>1. s \in ids /\ slices \in [SliceIds -> Slice] /\ refs \in [SliceIds -> 0 .. MaxRefs]
  BY Zenon DEF PoolInv, HeldSlicesExist, TypeOK
<1>2. CASE TakeSlice
  <2>1. Current # s /\ \A f \in FreshIds : f # s
    BY <1>1, <1>2 DEF TakeSlice, Fits, IsFree, FreshIds
  <2> QED BY Zenon, <2>1, <1>1, <1>2 DEF TakeSlice, Split
<1>3. CASE MergeWithNext
  <2>1. Current # s /\ NextSlice # s
    BY <1>1, <1>3 DEF MergeWithNext, Mergeable, IsFree
  <2> QED BY Zenon, <2>1, <1>1, <1>3 DEF MergeWithNext
<1>4. CASE Alloc
  <2>1. \A f \in FreshIds : f # s
    BY Zenon, <1>1 DEF FreshIds
  <2> QED BY Zenon, <2>1, <1>1, <1>4 DEF Alloc
<1>5. CASE UNCHANGED slices
  BY Zenon, <1>5
<1>6. TakeSlice \/ MergeWithNext \/ Alloc \/ UNCHANGED slices
  BY Zenon DEF Next, Serve, Search, TryReserve, NextChunk, RejectSlice, Advance, SecondPass, AllocFails,
         CloneHandle, DropHandle, poolVars, vars
<1> QED BY Zenon, <1>2, <1>3, <1>4, <1>5, <1>6

(* While a client holds a slice, it stays where it is and keeps its size.  *)
THEOREM HeldSlicesStayPut == Spec => LiveHandleStable
<1>1. PoolInv /\ [Next]_vars =>
        [\A s \in SliceIds : refs[s] > 0 /\ refs'[s] > 0 => slices'[s] = slices[s]]_vars
  BY Zenon, StepKeepsHeldSlices
<1> QED BY <1>1, PoolInvariant, PTL DEF Spec, LiveHandleStable

(* One step of the pool hands out a slice only as it was asked for: a free *)
(* slice on a page that is not excluded, or the head of a new page.        *)
LEMMA StepReservesAsAsked ==
  ASSUME PoolInv, [Next]_vars, NEW s \in SliceIds, refs[s] = 0, refs'[s] > 0
  PROVE  /\ slices'[s].size = call.size
         /\ slices'[s].chunk \in call.exclude => slices'[s].chunk = queue
<1>1. slices \in [SliceIds -> Slice] /\ refs \in [SliceIds -> 0 .. MaxRefs]
  BY Zenon DEF PoolInv, TypeOK
<1>2. CASE TakeSlice
  <2>1. /\ Current \in ids /\ Current \in SliceIds
        /\ slices[Current].chunk = call.chunk_index
    BY Zenon, <1>2, CurrentSlice DEF TakeSlice
  <2>2. s = Current
    <3>1. SUFFICES ASSUME s # Current PROVE FALSE
      BY Zenon
    <3>2. refs'[s] = refs[s]
      BY Zenon, <1>1, <1>2, <2>1, <3>1 DEF TakeSlice
    <3> QED BY <3>2
  <2>3. \A f \in FreshIds : f # Current
    BY Zenon, <2>1 DEF FreshIds
  <2>4. \/ slices'[Current] = Resized(slices[Current], call.size)
        \/ slices'[Current] = Resized(Shrunk(slices[Current]), call.size)
    BY Zenon, <1>1, <1>2, <2>1, <2>3 DEF TakeSlice, Split
  <2>5. slices[Current] \in Slice
    BY Zenon, <1>1, <2>1
  <2>6. /\ slices'[Current].size = call.size
        /\ slices'[Current].chunk = slices[Current].chunk
    BY Zenon, <2>4, <2>5 DEF Resized, Shrunk, Slice
  <2> QED BY Zenon, <1>2, <2>1, <2>2, <2>6 DEF TakeSlice, IsExcluded
<1>3. CASE Alloc
  <2> DEFINE slice == NewSlice(queue, 0, call.size)
             extent == EffectiveSize(slice)
  <2>1. PICK head \in FreshIds :
           /\ refs' = [refs EXCEPT ![head] = 1]
           /\ \/ \E tail \in FreshIds \ {head} :
                   slices' = [slices EXCEPT ![head] = slice,
                                            ![tail] = NewSlice(queue, extent, TailSize(extent))]
              \/ slices' = [slices EXCEPT ![head] = slice]
    BY Zenon, <1>3 DEF Alloc
  <2>2. head \in SliceIds
    BY Zenon DEF FreshIds
  <2>3. s = head
    <3>1. SUFFICES ASSUME s # head PROVE FALSE
      BY Zenon
    <3>2. refs'[s] = refs[s]
      BY Zenon, <1>1, <2>1, <2>2, <3>1
    <3> QED BY <3>2
  <2>4. slices'[head] = NewSlice(queue, 0, call.size)
    BY Zenon, <1>1, <2>1, <2>2
  <2>5. slices'[s].size = call.size /\ slices'[s].chunk = queue
    BY <2>3, <2>4 DEF NewSlice
  <2> QED BY Zenon, <2>5
<1>4. CASE \E h \in SliceIds : CloneHandle(h) \/ DropHandle(h)
  <2>1. PICK h \in SliceIds : CloneHandle(h) \/ DropHandle(h)
    BY Zenon, <1>4
  <2>2. refs[h] > 0 /\ \A t \in SliceIds \ {h} : refs'[t] = refs[t]
    BY <1>1, <2>1 DEF CloneHandle, DropHandle
  <2> QED BY <2>2
<1>5. CASE UNCHANGED refs
  BY <1>5
<1>6. \/ TakeSlice \/ Alloc \/ UNCHANGED refs
      \/ \E h \in SliceIds : CloneHandle(h) \/ DropHandle(h)
  BY Zenon DEF Next, Serve, Search, TryReserve, NextChunk, RejectSlice, MergeWithNext, Advance,
         SecondPass, AllocFails, vars
<1> QED BY Zenon, <1>2, <1>3, <1>4, <1>5, <1>6

(* A reservation hands out a free slice of exactly the size asked for, and *)
(* never on a page the caller excluded, whatever handles are dropped or    *)
(* cloned while it searches.                                               *)
THEOREM ReservationsAsAsked == Spec => ReservationAsAsked
<1>1. PoolInv /\ [Next]_vars =>
        [\A s \in SliceIds : (refs[s] = 0 /\ refs'[s] > 0) =>
            /\ slices'[s].size = call.size
            /\ slices'[s].chunk \in call.exclude => slices'[s].chunk = queue]_vars
  BY Zenon, StepReservesAsAsked
<1> QED BY <1>1, PoolInvariant, PTL DEF Spec, ReservationAsAsked

=============================================================================
