------------------------- MODULE MemoryReadsProofs --------------------------
(***************************************************************************)
(* Proofs about MemoryReads, for any size of the address space, any        *)
(* layouts, pages, ranges, limits and chunks.                              *)
(*                                                                         *)
(* That a page is exact when it is done needs to know which of its places  *)
(* are through (PageInv): all below the offset, and below the index in the *)
(* chunk.  A byte once read stays what its address has held, because `had' *)
(* grows.                                                                  *)
(*                                                                         *)
(* That a search misses nothing needs to know where each address to be     *)
(* found is while the search runs (FindInv, NoneMissed): among the         *)
(* results, in what is left of the region, in a region left, or beyond one *)
(* of the two limits.                                                      *)
(***************************************************************************)
EXTENDS MemoryReads, SortedSetsProofs, SequenceTheorems

MemoryTypeOK ==
  /\ memory \in [Addresses -> Byte]
  /\ had \in [Addresses -> SUBSET Byte]
  /\ call.at \in {"idle", "region", "chunk", "read", "bytes", "done"}
  /\ call \in [kind : {"none", "search", "page"}, at : {call.at}]

\* Where a page being read stands, by the step it is at.
PageTypeOK ==
  /\ PageLength \in Nat
  /\ page \in [address : Addresses, chunk : Nat \ {0}, offset : Nat, index : Nat,
              requested : Nat, bytes : [0..(PageLength - 1) -> Byte]]

\* All of the page is below the last address.
Fits == page.address + PageLength - 1 <= MaxAddress

\* Place k holds what its address has held.
Exact(k) == page.bytes[k] \in had[page.address + k]

PlaceInv ==
  /\ call.at = "read" => \A k \in DOMAIN page.bytes : k < page.offset => Exact(k)
  /\ call.at = "bytes" =>
       /\ page.index <= page.requested
       /\ page.offset + page.requested <= PageLength
       /\ \A k \in DOMAIN page.bytes : k < page.offset + page.index => Exact(k)
  /\ call.at \in {"read", "bytes"} => Fits
  /\ call.at = "done" => PageIsExact

PageInv ==
  /\ MemoryTypeOK
  /\ call.at \in {"read", "bytes"} => call.kind = "page"
  /\ call.at \in {"region", "chunk"} => call.kind = "search"
  /\ call.at = "idle" <=> call.kind = "none"
  /\ call.kind # "none" => \A a \in Addresses : memory[a] \in had[a]
  /\ call.kind = "page" => PageTypeOK /\ PlaceInv

-----------------------------------------------------------------------------
(* Lemmas.                                                                 *)

LEMMA MaxAddressType == MaxAddress \in Int
  BY AddressAssumption DEF MaxAddress

\* The lesser of two numbers.
LEMMA MinOfTwo ==
  ASSUME NEW a \in Int, NEW b \in Int
  PROVE  /\ Min({a, b}) \in {a, b}
         /\ Min({a, b}) <= a
         /\ Min({a, b}) <= b
<1>1. CASE a <= b
  BY <1>1 DEF Min
<1>2. CASE b < a
  BY <1>2 DEF Min
<1> QED
  BY <1>1, <1>2

\* A read copies all the bytes it is asked for, or none.
LEMMA PerformReadCopies ==
  ASSUME NEW address \in Int, NEW length \in Nat
  PROVE  LET got == PerformRead(address, length)
         IN  /\ Len(got) \in {0, length}
             /\ \A k \in 1..Len(got) : got[k] = memory[address + k - 1]
<1>1. CASE PerformRead(address, length) = <<>>
  BY <1>1
<1>2. CASE PerformRead(address, length) = [k \in 1..length |-> memory[address + k - 1]]
  BY <1>2
<1> QED
  BY <1>1, <1>2 DEF PerformRead

-----------------------------------------------------------------------------
(* Steps.                                                                  *)

LEMMA PageInvInit == Init => PageInv
  BY LayoutsAssumption DEF Init, PageInv, MemoryTypeOK

\* A page begins with nothing read, and is done at once if it does not fit.
LEMMA PageBegins ==
  ASSUME PageInv, NEW p \in Pages, ReadMemoryPage(p)
  PROVE  PageInv'
<1> DEFINE blank == [k \in 0..(p.length - 1) |-> Unreadable]
<1>1. p \in [address : Addresses, length : Nat, chunkSize : Nat \ {0}]
  BY PagesAssumption
<1>2. /\ page' = [address |-> p.address, chunk |-> p.chunkSize, offset |-> 0,
                  index |-> 0, requested |-> 0, bytes |-> blank]
      /\ had' = [a \in Addresses |-> {memory[a]}] /\ memory' = memory
      /\ call' = [kind |-> "page",
                  at |-> IF p.length - 1 > MaxAddress - p.address THEN "done" ELSE "read"]
  BY DEF ReadMemoryPage, Begins
<1>3. PageLength' = p.length
  <2>1. Cardinality(0..(p.length - 1)) = p.length
    BY <1>1, FS_Interval
  <2>2. DOMAIN page'.bytes = 0..(p.length - 1)
    BY <1>2
  <2> QED
    BY <2>1, <2>2 DEF PageLength
<1>4. MemoryTypeOK'
  BY <1>2 DEF MemoryTypeOK, PageInv
<1>5. PageTypeOK'
  BY <1>1, <1>2, <1>3 DEF PageTypeOK, Byte
<1>6. PlaceInv'
  <2>1. CASE p.length - 1 > MaxAddress - p.address
    <3>1. call'.at = "done"
      BY <1>2, <2>1
    <3>2. page'.address + p.length - 1 > MaxAddress
      BY <1>1, <1>2, <2>1, MaxAddressType DEF Addresses
    <3>3. \A k \in DOMAIN page'.bytes : page'.bytes[k] = Unreadable
      BY <1>2
    <3> QED
      BY <1>3, <3>1, <3>2, <3>3 DEF PlaceInv, PageIsExact
  <2>2. CASE ~(p.length - 1 > MaxAddress - p.address)
    <3>1. call'.at = "read" /\ page'.offset = 0
      BY <1>2, <2>2
    <3>2. Fits'
      BY <1>1, <1>2, <1>3, <2>2, MaxAddressType DEF Fits, Addresses
    <3>3. \A k \in DOMAIN page'.bytes : ~(k < page'.offset)
      BY <1>1, <1>2
    <3> QED
      BY <3>1, <3>2, <3>3 DEF PlaceInv
  <2> QED
    BY <2>1, <2>2
<1> QED
  BY <1>2, <1>4, <1>5, <1>6 DEF PageInv, MemoryTypeOK

\* A chunk brings all its bytes or none, and goes on to what is left of it.
LEMMA PageChunkInv ==
  ASSUME PageInv, PageChunk
  PROVE  PageInv'
<1>1. call.at = "read" /\ call.kind = "page" /\ memory' = memory /\ had' = had
  BY DEF PageChunk, PageInv
<1>2. PageTypeOK /\ Fits /\ MaxAddress \in Int
  BY <1>1, MaxAddressType DEF PageInv, PlaceInv
<1>3. \A k \in DOMAIN page.bytes : k < page.offset => Exact(k)
  BY <1>1 DEF PageInv, PlaceInv
<1>4. CASE page.offset >= PageLength
  <2>1. page' = page /\ call'.at = "done" /\ call'.kind = "page"
    BY <1>1, <1>4 DEF PageChunk, Goto, PageInv, MemoryTypeOK
  <2>2. PageIsExact'
    BY <1>1, <1>2, <1>3, <1>4, <2>1 DEF PageIsExact, Exact, PageTypeOK
  <2>3. PageTypeOK' /\ PlaceInv'
    BY <1>2, <2>1, <2>2 DEF PlaceInv, PageTypeOK, PageLength
  <2> QED
    BY <1>1, <1>4, <2>1, <2>3 DEF PageInv, MemoryTypeOK, PageChunk, Goto
<1>5. CASE ~(page.offset >= PageLength)
  <2> DEFINE size == Min({page.chunk, PageLength - page.offset})
             got == PerformRead(page.address + page.offset, size)
             merged == [k \in DOMAIN page.bytes |->
                          IF k - page.offset \in 0..(Len(got) - 1)
                          THEN got[k - page.offset + 1] ELSE page.bytes[k]]
  <2>1. /\ page' = [page EXCEPT !.bytes = merged, !.index = Len(got), !.requested = size]
        /\ call' = [call EXCEPT !.at = "bytes"]
    BY <1>5 DEF PageChunk, Goto
  <2>2. size \in Nat /\ page.offset + size <= PageLength
    <3>1. page.chunk \in Int /\ PageLength - page.offset \in Int
      BY <1>2 DEF PageTypeOK
    <3>2. size \in {page.chunk, PageLength - page.offset} /\ size <= PageLength - page.offset
      BY <3>1, MinOfTwo
    <3> QED
      BY <1>2, <1>5, <3>2 DEF PageTypeOK
  <2>3. page.address + page.offset \in Int
    BY <1>2 DEF PageTypeOK, Addresses
  <2>4. /\ Len(got) \in {0, size}
        /\ \A k \in 1..Len(got) : got[k] = memory[page.address + page.offset + k - 1]
    BY <2>2, <2>3, PerformReadCopies
  <2> HIDE DEF size, got
  <2>5. \A k \in DOMAIN page.bytes : page.address + k \in Addresses
    BY <1>2 DEF PageTypeOK, Fits, Addresses
  <2>6. \A k \in DOMAIN page.bytes :
          /\ k - page.offset \in 0..(Len(got) - 1) => merged[k] = memory[page.address + k]
          /\ k - page.offset \notin 0..(Len(got) - 1) => merged[k] = page.bytes[k]
    <3> SUFFICES ASSUME NEW k \in DOMAIN page.bytes, k - page.offset \in 0..(Len(got) - 1)
                 PROVE  got[k - page.offset + 1] = memory[page.address + k]
      OBVIOUS
    <3>1. /\ k \in Int /\ page.offset \in Int /\ page.address \in Int
          /\ Len(got) \in Int
      BY <1>2, <2>2, <2>4 DEF PageTypeOK, Addresses
    <3>2. k - page.offset + 1 \in 1..Len(got)
      BY <3>1
    <3>3. page.address + page.offset + (k - page.offset + 1) - 1 = page.address + k
      BY <3>1
    <3> QED
      BY <2>4, <3>2, <3>3
  <2>7. merged \in [0..(PageLength - 1) -> Byte]
    <3>1. \A k \in DOMAIN page.bytes : merged[k] \in Byte
      BY <1>1, <1>2, <2>5, <2>6 DEF PageTypeOK, PageInv, MemoryTypeOK
    <3> QED
      BY <1>2, <3>1 DEF PageTypeOK
  <2> HIDE DEF merged
  <2>8. /\ page'.bytes = merged /\ page'.index = Len(got) /\ page'.requested = size
        /\ page'.offset = page.offset /\ page'.address = page.address
        /\ page'.chunk = page.chunk
        /\ DOMAIN page'.bytes = DOMAIN page.bytes
    BY <1>2, <2>1, <2>7 DEF PageTypeOK
  <2>9. PageLength' = PageLength
    BY <2>8 DEF PageLength
  <2>10. PageTypeOK'
    <3>1. page' = [address |-> page.address, chunk |-> page.chunk, offset |-> page.offset,
                   index |-> Len(got), requested |-> size, bytes |-> merged]
      BY <1>2, <2>1 DEF PageTypeOK
    <3> QED
      BY <1>2, <2>2, <2>4, <2>7, <2>9, <3>1 DEF PageTypeOK
  <2>11. \A k \in DOMAIN page.bytes :
           k < page.offset + Len(got) => merged[k] \in had[page.address + k]
    <3> TAKE k \in DOMAIN page.bytes
    <3>1. CASE k < page.offset
      BY <1>2, <1>3, <2>6, <3>1 DEF Exact, PageTypeOK
    <3>2. CASE k >= page.offset /\ k < page.offset + Len(got)
      <4>1. k - page.offset \in 0..(Len(got) - 1)
        BY <1>2, <2>2, <2>4, <3>2 DEF PageTypeOK
      <4> QED
        BY <1>1, <2>5, <2>6, <4>1 DEF PageInv
    <3> QED
      BY <1>2, <3>1, <3>2 DEF PageTypeOK
  <2>12. call'.at = "bytes" /\ call'.kind = "page"
    BY <1>1, <2>1 DEF PageInv, MemoryTypeOK
  <2>13. PlaceInv'
    <3>1. page'.index <= page'.requested
      BY <2>2, <2>4, <2>8
    <3>2. page'.offset + page'.requested <= PageLength'
      BY <2>2, <2>8, <2>9
    <3>3. \A k \in DOMAIN page'.bytes : k < page'.offset + page'.index => Exact(k)'
      BY <1>1, <2>8, <2>11 DEF Exact
    <3>4. Fits'
      BY <1>2, <2>8, <2>9 DEF Fits
    <3> QED
      BY <2>12, <3>1, <3>2, <3>3, <3>4 DEF PlaceInv
  <2> QED
    BY <1>1, <2>1, <2>10, <2>12, <2>13 DEF PageInv, MemoryTypeOK
<1> QED
  BY <1>4, <1>5

\* One more byte of the chunk, or on to the next chunk.
LEMMA PageByteInv ==
  ASSUME PageInv, PageByte
  PROVE  PageInv'
<1>1. call.at = "bytes" /\ call.kind = "page" /\ memory' = memory /\ had' = had
  BY DEF PageByte, PageInv
<1>2. PageTypeOK /\ Fits /\ MaxAddress \in Int
  BY <1>1, MaxAddressType DEF PageInv, PlaceInv
<1>3. /\ page.index <= page.requested
      /\ page.offset + page.requested <= PageLength
      /\ \A k \in DOMAIN page.bytes : k < page.offset + page.index => Exact(k)
  BY <1>1 DEF PageInv, PlaceInv
<1>4. CASE page.index < page.requested
  <2> DEFINE k == page.offset + page.index
  <2>1. k \in 0..(PageLength - 1) /\ page.address + k \in Addresses
    BY <1>2, <1>3, <1>4 DEF PageTypeOK, Fits, Addresses
  <2>2. memory[page.address + k] \in Byte /\ memory[page.address + k] \in had[page.address + k]
    BY <1>1, <2>1 DEF PageInv, MemoryTypeOK
  <2>3. page' = [page EXCEPT !.bytes[k] = memory[page.address + k], !.index = @ + 1]
        /\ call' = call
    BY <1>4 DEF PageByte
  <2> HIDE DEF k
  <2>4. /\ page'.bytes = [page.bytes EXCEPT ![k] = memory[page.address + k]]
        /\ page'.index = page.index + 1 /\ page'.requested = page.requested
        /\ page'.offset = page.offset /\ page'.address = page.address
        /\ page'.chunk = page.chunk
        /\ DOMAIN page'.bytes = DOMAIN page.bytes
    BY <1>2, <2>3 DEF PageTypeOK
  <2>5. PageLength' = PageLength
    BY <2>4 DEF PageLength
  <2>6. PageTypeOK'
    <3>1. page' = [address |-> page.address, chunk |-> page.chunk, offset |-> page.offset,
                   index |-> page.index + 1, requested |-> page.requested,
                   bytes |-> [page.bytes EXCEPT ![k] = memory[page.address + k]]]
      BY <1>2, <2>3 DEF PageTypeOK
    <3>2. [page.bytes EXCEPT ![k] = memory[page.address + k]] \in [0..(PageLength - 1) -> Byte]
      BY <1>2, <2>2 DEF PageTypeOK
    <3> QED
      BY <1>2, <2>5, <3>1, <3>2 DEF PageTypeOK
  <2>7. \A i \in DOMAIN page'.bytes : i < page'.offset + page'.index => Exact(i)'
    <3> SUFFICES ASSUME NEW i \in DOMAIN page.bytes, i < page.offset + page.index + 1
                 PROVE  page'.bytes[i] \in had[page.address + i]
      BY <1>1, <1>2, <2>4 DEF Exact, PageTypeOK
    <3>1. CASE i = k
      BY <1>2, <2>1, <2>2, <2>4, <3>1 DEF PageTypeOK
    <3>2. CASE i # k
      <4>1. i < page.offset + page.index
        BY <1>2, <3>2 DEF k, PageTypeOK
      <4> QED
        BY <1>2, <1>3, <2>4, <3>2, <4>1 DEF Exact, PageTypeOK
    <3> QED
      BY <3>1, <3>2
  <2>8. PlaceInv'
    <3>1. page'.index <= page'.requested /\ page'.offset + page'.requested <= PageLength'
      BY <1>2, <1>3, <1>4, <2>4, <2>5 DEF PageTypeOK
    <3>2. Fits'
      BY <1>2, <2>4, <2>5 DEF Fits
    <3> QED
      BY <1>1, <2>3, <2>7, <3>1, <3>2 DEF PlaceInv
  <2> QED
    BY <1>1, <2>3, <2>6, <2>8 DEF PageInv, MemoryTypeOK
<1>5. CASE ~(page.index < page.requested)
  <2>1. page' = [page EXCEPT !.offset = @ + page.requested] /\ call' = [call EXCEPT !.at = "read"]
    BY <1>5 DEF PageByte, Goto
  <2>2. /\ page'.bytes = page.bytes /\ page'.offset = page.offset + page.index
        /\ page'.address = page.address
    BY <1>2, <1>3, <1>5, <2>1 DEF PageTypeOK
  <2>3. PageLength' = PageLength
    BY <2>2 DEF PageLength
  <2>4. PageTypeOK'
    BY <1>2, <2>1, <2>3 DEF PageTypeOK
  <2>5. call'.at = "read" /\ call'.kind = "page"
    BY <1>1, <2>1 DEF PageInv, MemoryTypeOK
  <2>6. PlaceInv'
    <3>1. \A k \in DOMAIN page'.bytes : k < page'.offset => Exact(k)'
      BY <1>1, <1>3, <2>2 DEF Exact
    <3>2. Fits'
      BY <1>2, <2>2, <2>3 DEF Fits
    <3> QED
      BY <2>5, <3>1, <3>2 DEF PlaceInv
  <2> QED
    BY <1>1, <2>1, <2>4, <2>5, <2>6 DEF PageInv, MemoryTypeOK
<1> QED
  BY <1>4, <1>5

\* What the target does adds to what its addresses have held.
LEMMA TargetChangesInv ==
  ASSUME PageInv, NEW a \in Addresses, NEW v \in Byte, Changes(a, v)
  PROVE  PageInv'
<1>1. /\ memory' = [memory EXCEPT ![a] = v]
      /\ had' = [had EXCEPT ![a] = @ \union {v}]
      /\ call' = call /\ page' = page /\ call.at # "done"
  BY DEF Changes
<1>2. MemoryTypeOK'
  BY <1>1 DEF PageInv, MemoryTypeOK
<1>3. \A b \in Addresses : had[b] \subseteq had'[b]
  BY <1>1 DEF PageInv, MemoryTypeOK
<1>4. call.kind # "none" => \A b \in Addresses : memory'[b] \in had'[b]
  BY <1>1 DEF PageInv, MemoryTypeOK
<1>5. ASSUME call.kind = "page" PROVE PageTypeOK' /\ PlaceInv'
  <2>1. PageTypeOK /\ PlaceInv /\ MaxAddress \in Int
    BY <1>5, MaxAddressType DEF PageInv
  <2>2. PageLength' = PageLength /\ PageTypeOK'
    BY <1>1, <2>1 DEF PageLength, PageTypeOK
  <2>3. ASSUME Fits, NEW k \in DOMAIN page.bytes, Exact(k) PROVE Exact(k)'
    <3>1. page.address + k \in Addresses
      BY <2>1, <2>3 DEF PageTypeOK, Fits, Addresses
    <3> QED
      BY <1>1, <1>3, <2>3, <3>1 DEF Exact
  <2>4. Fits => Fits'
    BY <1>1, <2>2 DEF Fits
  <2> QED
    BY <1>1, <2>1, <2>2, <2>3, <2>4 DEF PlaceInv
<1> QED
  BY <1>1, <1>2, <1>4, <1>5 DEF PageInv

\* A search does not look at a page.
LEMMA SearchInv ==
  ASSUME PageInv,
         \/ \E range \in Ranges, options \in Options : FindPointers(range, options)
         \/ NextRegion \/ LeaveRegion \/ ReadChunk
  PROVE  PageInv'
<1>1. ASSUME NEW range \in Ranges, NEW options \in Options, FindPointers(range, options)
      PROVE  PageInv'
  BY <1>1 DEF FindPointers, Begins, PageInv, MemoryTypeOK
<1>2. CASE NextRegion \/ LeaveRegion \/ ReadChunk
  <2>1. /\ memory' = memory /\ had' = had /\ call.kind = "search"
        /\ \/ call' = call
           \/ \E step \in {"region", "chunk", "done"} : Goto(step)
    BY <1>2 DEF NextRegion, LeaveRegion, ReadChunk, PageInv
  <2>2. call'.kind = "search" /\ call'.at \in {"region", "chunk", "done"} /\ MemoryTypeOK'
    BY <2>1 DEF Goto, PageInv, MemoryTypeOK
  <2> QED
    BY <2>1, <2>2 DEF PageInv
<1> QED
  BY <1>1, <1>2

LEMMA PageInvStep == PageInv /\ [Next]_vars => PageInv'
<1> SUFFICES ASSUME PageInv, [Next]_vars PROVE PageInv'
  OBVIOUS
<1>1. CASE \E range \in Ranges, options \in Options : FindPointers(range, options)
  BY <1>1, SearchInv
<1>2. CASE NextRegion \/ LeaveRegion \/ ReadChunk
  BY <1>2, SearchInv
<1>3. CASE \E p \in Pages : ReadMemoryPage(p)
  BY <1>3, PageBegins
<1>4. CASE PageChunk
  BY <1>4, PageChunkInv
<1>5. CASE PageByte
  BY <1>5, PageByteInv
<1>6. CASE Return
  BY <1>6 DEF Return, PageInv, MemoryTypeOK
<1>7. CASE TargetWrites \/ TargetUnmaps
  BY <1>7, TargetChangesInv DEF TargetWrites, TargetUnmaps, Byte
<1>8. CASE UNCHANGED vars
  BY <1>8 DEF vars, PageInv, MemoryTypeOK, PageTypeOK, PlaceInv, PageLength, Fits,
              Exact, PageIsExact
<1> QED
  BY <1>1, <1>2, <1>3, <1>4, <1>5, <1>6, <1>7, <1>8 DEF Next

\* A page shows at each place a byte its address has held while it was read:
\* whatever the target writes and unmaps between its chunks and its bytes.
THEOREM PagesAreExact == Spec => []PageIsExact
<1>1. PageInv => PageIsExact
  BY DEF PageInv, PlaceInv, PageIsExact
<1> QED
  BY PageInvInit, PageInvStep, <1>1, PTL DEF Spec

-----------------------------------------------------------------------------
(* The pointer search.                                                     *)

RegionRecords == [base : Addresses, size : Nat \ {0}]

SearchTypeOK ==
  search \in [range : Addresses \X Addresses,
              options : [maxResults : Nat, maxScannedBytes : Nat, chunkBytes : Nat],
              left : Seq(RegionRecords), cursor : Int, scanEnd : Int, scanned : Nat,
              readTo : Int, results : Seq(Int)]

\* The address was mapped when the search began.
WasMapped(b) == b \in Addresses /\ b \notin Skipped /\ had[b] # {Unreadable}

Scans == call.at \in {"region", "chunk"}

\* While it scans, a search may take one more result; it keeps its limits.
BudgetOK ==
  /\ search.scanned <= search.options.maxScannedBytes
  /\ Len(search.results) <= search.options.maxResults
  /\ Scans => /\ Len(search.results) < search.options.maxResults
              /\ search.options.chunkBytes >= PointerWidth

\* The regions left are apart, in ascending order, beyond the last read.
LeftOK ==
  /\ \A i \in DOMAIN search.left : LET g == search.left[i] IN
       /\ g.base + g.size <= MaxAddress + 1
       /\ search.readTo <= g.base
       /\ \A b \in g.base..(g.base + g.size - 1) : WasMapped(b)
  /\ \A i, j \in DOMAIN search.left : i < j =>
       search.left[i].base + search.left[i].size <= search.left[j].base

\* In a region: what is left of it to read, before the regions left.
ChunkOK ==
  call.at = "chunk" =>
    /\ search.cursor % PointerWidth = 0
    /\ search.range[1] <= search.cursor /\ search.readTo <= search.cursor
    /\ search.scanEnd <= search.range[2] /\ search.scanEnd <= MaxAddress
    /\ \A b \in search.cursor..(search.scanEnd - 1) : WasMapped(b)
    /\ \A i \in DOMAIN search.left : search.scanEnd <= search.left[i].base

\* The results are true, and in what was read.
FoundOK ==
  /\ PointersAreTrue
  /\ \A i \in DOMAIN search.results : search.results[i] + PointerWidth <= search.readTo

\* An address a search has to find.
Wanted(a) ==
  /\ a \in Addresses
  /\ a % PointerWidth = 0
  /\ search.range[1] <= a /\ a + PointerWidth <= search.range[2]
  /\ Searchable(a)
  /\ Held(a)

IsFound(a) == \E i \in DOMAIN search.results : search.results[i] = a
PastResults(a) ==
  /\ call.at = "done" /\ Len(search.results) = search.options.maxResults
  /\ search.results[Len(search.results)] <= a
PastBudget(a) ==
  /\ Len(search.results) < search.options.maxResults
  /\ search.options.maxScannedBytes - search.scanned < PointerWidth
  /\ search.readTo <= a
IsLeft(a) ==
  /\ Scans
  /\ \E i \in DOMAIN search.left :
       /\ search.left[i].base <= a
       /\ a + PointerWidth <= search.left[i].base + search.left[i].size
IsNext(a) ==
  call.at = "chunk" /\ search.cursor <= a /\ a + PointerWidth <= search.scanEnd

\* Each address to be found is found, or beyond the limits, or still to come.
NoneMissed ==
  ~Shrunk /\ search.options.chunkBytes >= PointerWidth /\ 0 < search.options.maxResults =>
    \A a : Wanted(a) => IsFound(a) \/ PastResults(a) \/ PastBudget(a) \/ IsLeft(a) \/ IsNext(a)

FindInv ==
  /\ PageInv
  /\ call.kind = "search" =>
       SearchTypeOK /\ BudgetOK /\ LeftOK /\ ChunkOK /\ FoundOK /\ NoneMissed

-----------------------------------------------------------------------------
(* Lemmas: multiples of the pointer's width.                               *)

LEMMA ModProperties ==
  ASSUME NEW m \in Nat \ {0}, NEW a \in Int
  PROVE  /\ a % m \in 0..(m - 1)
         /\ (a - (a % m)) % m = 0
         /\ a = (m * (a \div m)) + (a % m)
         /\ (m * a) % m = 0
OBVIOUS

\* The last multiple up to a.
LEMMA RoundDown ==
  ASSUME NEW m \in Nat \ {0}, NEW a \in Int
  PROVE  /\ a - (a % m) \in Int
         /\ (a - (a % m)) % m = 0
         /\ a - (a % m) <= a
         /\ a - m < a - (a % m)
<1>1. a % m \in Int /\ 0 <= a % m /\ a % m < m
  BY ModProperties
<1>2. (a - (a % m)) % m = 0
  BY ModProperties
<1> QED
  BY <1>1, <1>2

LEMMA Multiples ==
  ASSUME NEW m \in Nat \ {0}, NEW a \in Int, NEW b \in Int, a % m = 0, b % m = 0
  PROVE  /\ (a + b) % m = 0
         /\ (a - b) % m = 0
         /\ a < b => a + m <= b
<1>1. PICK p \in Int : a = m * p
  <2>1. a \div m \in Int /\ a = m * (a \div m)
    BY ModProperties
  <2> QED
    BY <2>1
<1>2. PICK q \in Int : b = m * q
  <2>1. b \div m \in Int /\ b = m * (b \div m)
    BY ModProperties
  <2> QED
    BY <2>1
<1>3. a + b = m * (p + q) /\ a - b = m * (p - q) /\ p + q \in Int /\ p - q \in Int
  BY <1>1, <1>2
<1>4. (a + b) % m = 0 /\ (a - b) % m = 0
  BY <1>3, ModProperties
<1>5. a < b => a + m <= b
  <2>1. (b - a) % m = 0
    <3>1. b - a = m * (q - p) /\ q - p \in Int
      BY <1>1, <1>2
    <3> QED
      BY <3>1, ModProperties
  <2> DEFINE d == b - a
  <2>2. d \in Int /\ d % m = 0 /\ (a < b => 0 < d)
    BY <2>1
  <2> HIDE DEF d
  <2>3. 0 < d => m <= d
    BY <2>2
  <2> QED
    BY <2>2, <2>3 DEF d
<1> QED
  BY <1>4, <1>5

\* The least multiple from x on, if a pointer from there has a last byte.
LEMMA AlignedProperties ==
  ASSUME NEW x \in Addresses
  PROVE  /\ Aligned(x) \in Int
         /\ x <= Aligned(x)
         /\ Aligned(x) <= MaxAddress => Aligned(x) % PointerWidth = 0
         /\ \A a \in Int : a % PointerWidth = 0 /\ x <= a /\ a + PointerWidth - 1 <= MaxAddress
                            => Aligned(x) <= a
<1>1. x \in Int /\ x <= MaxAddress /\ MaxAddress \in Int /\ PointerWidth \in Nat \ {0}
  BY MaxAddressType, PointerAssumption DEF Addresses
<1> HIDE DEF MaxAddress
<1>2. CASE x > MaxAddress - (PointerWidth - 1)
  <2>1. Aligned(x) = MaxAddress + 1
    BY <1>2 DEF Aligned
  <2>2. \A a \in Int : ~(x <= a /\ a + PointerWidth - 1 <= MaxAddress)
    BY <1>1, <1>2
  <2> QED
    BY <1>1, <2>1, <2>2
<1>3. CASE ~(x > MaxAddress - (PointerWidth - 1))
  <2> DEFINE y == x + PointerWidth - 1
             first == y - (y % PointerWidth)
  <2>1. Aligned(x) = x + (PointerWidth - 1) - (y % PointerWidth)
    BY <1>3 DEF Aligned
  <2>2. y \in Int /\ y = x + (PointerWidth - 1)
    BY <1>1
  <2> HIDE DEF y
  <2>3. Aligned(x) = first
    <3> DEFINE r == y % PointerWidth
    <3>1. r \in Int
      BY <1>1, <2>2, ModProperties
    <3>2. Aligned(x) = x + (PointerWidth - 1) - r /\ first = y - r
      BY <2>1
    <3> HIDE DEF r, first
    <3> QED
      BY <1>1, <2>2, <3>1, <3>2
  <2>4. first \in Int /\ first % PointerWidth = 0 /\ first <= y /\ y - PointerWidth < first
    BY <1>1, <2>2, RoundDown
  <2> HIDE DEF first
  <2>5. ASSUME NEW a \in Int, a % PointerWidth = 0, x <= a
        PROVE  first <= a
    <3>1. a < first => a + PointerWidth <= first
      BY <1>1, <2>4, <2>5, Multiples
    <3> QED
      BY <1>1, <2>2, <2>4, <2>5, <3>1
  <2>6. first \in Int /\ x <= first
    BY <1>1, <2>2, <2>4
  <2> QED
    BY <2>3, <2>4, <2>5, <2>6
<1> QED
  BY <1>2, <1>3

LEMMA MinOfThree ==
  ASSUME NEW a \in Int, NEW b \in Int, NEW c \in Int
  PROVE  /\ Min({a, b, c}) \in {a, b, c}
         /\ Min({a, b, c}) <= a /\ Min({a, b, c}) <= b /\ Min({a, b, c}) <= c
<1> DEFINE S == {a, b, c}
<1>1. S \in SUBSET Int /\ S # {} /\ a \in S /\ b \in S /\ c \in S
  OBVIOUS
<1>2. IsFiniteSet(S)
  BY TripleIsFinite
<1> HIDE DEF S
<1>3. Min(S) \in S /\ Min(S) <= a /\ Min(S) <= b /\ Min(S) <= c
  BY <1>1, <1>2, MinProperties
<1> QED
  BY <1>3 DEF S

\* A read is of whole pointers, in the region and in the budget.
LEMMA RequestProperties ==
  ASSUME SearchTypeOK, search.options.chunkBytes >= PointerWidth
  PROVE  LET size == Request(search) IN
         /\ size \in Int /\ size % PointerWidth = 0
         /\ search.cursor + size <= search.scanEnd
         /\ search.scanned + size <= search.options.maxScannedBytes
         /\ size < PointerWidth =>
              \/ search.scanEnd - search.cursor < PointerWidth
              \/ search.options.maxScannedBytes - search.scanned < PointerWidth
<1> DEFINE w == PointerWidth
           room == search.scanEnd - search.cursor
           budget == search.options.maxScannedBytes - search.scanned
           bytes == search.options.chunkBytes
           chunk == bytes - (bytes % w)
           least == Min({room, chunk, budget})
           size == least - (least % w)
<1>1. /\ w \in Nat \ {0} /\ room \in Int /\ budget \in Int /\ bytes \in Nat /\ w <= bytes
      /\ search.cursor \in Int /\ search.scanEnd \in Int
      /\ search.scanned \in Int /\ search.options.maxScannedBytes \in Int
  BY PointerAssumption DEF SearchTypeOK
<1>2. Request(search) = size
  BY DEF Request
<1>3. room = search.scanEnd - search.cursor /\ budget = search.options.maxScannedBytes - search.scanned
  OBVIOUS
<1> HIDE DEF w, room, budget, bytes
<1>4. chunk \in Int /\ w <= chunk
  <2>0. bytes \in Int
    BY <1>1
  <2>1. chunk \in Int /\ chunk % w = 0 /\ bytes - w < chunk
    BY <1>1, <2>0, RoundDown
  <2> HIDE DEF chunk
  <2>2. 0 < chunk
    BY <1>1, <2>1
  <2>3. 0 % w = 0
    BY <1>1
  <2>4. 0 + w <= chunk
    BY <1>1, <2>1, <2>2, <2>3, Multiples
  <2> QED
    BY <1>1, <2>1, <2>4
<1> HIDE DEF chunk
<1>5. least \in {room, chunk, budget} /\ least <= room /\ least <= budget
  BY <1>1, <1>4, MinOfThree
<1> HIDE DEF least
<1>6. least \in Int
  BY <1>1, <1>4, <1>5
<1>7. size \in Int /\ size % w = 0 /\ size <= least /\ least - w < size
  BY <1>1, <1>6, RoundDown
<1> HIDE DEF size
<1>8. size < w => least < w
  <2>1. 0 % w = 0
    BY <1>1
  <2>2. 0 < size => 0 + w <= size
    BY <1>1, <1>7, <2>1, Multiples
  <2> QED
    BY <1>1, <1>6, <1>7, <2>2
<1>9. size < w => room < w \/ budget < w
  BY <1>1, <1>4, <1>5, <1>8
<1>10. search.cursor + size <= search.scanEnd
       /\ search.scanned + size <= search.options.maxScannedBytes
  BY <1>1, <1>3, <1>5, <1>6, <1>7
<1> QED
  BY <1>2, <1>3, <1>7, <1>9, <1>10 DEF w

-----------------------------------------------------------------------------
(* Lemmas: the regions, and the pointers in what a read brought.           *)

\* A part of a region is of one region; so are two parts that have an address
\* in common.
LEMMA PartsOfRegions ==
  /\ \A as, bs : OneRegion(as) /\ bs \subseteq as => OneRegion(bs)
  /\ \A as, bs : /\ OneRegion(as) /\ OneRegion(bs) /\ as \intersect bs # {}
                => OneRegion(as \union bs)
BY DEF OneRegion, Mapped

\* A region goes as far as its addresses are mapped, and of one kind.
LEMMA RegionSizeProperties ==
  ASSUME MemoryTypeOK, NEW a \in RegionBases
  PROVE  /\ RegionSize(a) \in Nat \ {0}
         /\ a + RegionSize(a) <= MaxAddress + 1
         /\ OneRegion(a..(a + RegionSize(a) - 1))
         /\ \A n \in 1..(MaxAddress + 1 - a) : OneRegion(a..(a + n - 1)) => n <= RegionSize(a)
<1> DEFINE room == MaxAddress + 1 - a
           S == {n \in 1..room : OneRegion(a..(a + n - 1))}
<1>1. a \in Nat /\ a <= MaxAddress /\ MaxAddress \in Int /\ memory[a] # Unreadable
  BY MaxAddressType DEF RegionBases, Addresses
<1> HIDE DEF MaxAddress
<1>2. room \in Nat /\ 1 <= room /\ a + room = MaxAddress + 1
  BY <1>1
<1>3. 1 \in S
  <2>1. a..(a + 1 - 1) = {a}
    BY <1>1
  <2> QED
    BY <1>1, <1>2, <2>1 DEF OneRegion, Mapped
<1>4. RegionSize(a) = Max(S)
  BY DEF RegionSize
<1> HIDE DEF room
<1>5. S \in SUBSET (1..room) /\ 1 \in Int /\ room \in Int
  BY <1>2
<1>6. \A n \in S : OneRegion(a..(a + n - 1))
  OBVIOUS
<1>7. \A n \in 1..room : OneRegion(a..(a + n - 1)) => n \in S
  OBVIOUS
<1> HIDE DEF S
<1>8. IsFiniteSet(S) /\ S \in SUBSET Int /\ S # {}
  BY <1>3, <1>5, BoundedIsFinite
<1>9. Max(S) \in S /\ \A n \in S : n <= Max(S)
  BY <1>8, MaxProperties
<1>10. Max(S) \in 1..room
  BY <1>5, <1>9
<1>11. Max(S) \in Nat \ {0} /\ a + Max(S) <= MaxAddress + 1
  BY <1>1, <1>2, <1>10
<1> QED
  BY <1>4, <1>6, <1>7, <1>9, <1>11 DEF room

LEMMA RegionsProperties ==
  ASSUME MemoryTypeOK
  PROVE  /\ Regions \in Seq(RegionRecords)
         /\ \A i \in DOMAIN Regions : /\ Regions[i].base \in RegionBases
                                      /\ Regions[i].size = RegionSize(Regions[i].base)
         /\ \A i, j \in DOMAIN Regions : i < j => Regions[i].base < Regions[j].base
         /\ \A a \in RegionBases : \E i \in DOMAIN Regions : Regions[i].base = a
<1> DEFINE bases == Ascending(RegionBases)
           n == Cardinality(RegionBases)
<1>1. RegionBases \in SUBSET Addresses
  BY DEF RegionBases
<1>2. IsFiniteSet(RegionBases) /\ RegionBases \in SUBSET Int
  <2>1. RegionBases \in SUBSET (0..MaxAddress)
    BY <1>1 DEF Addresses
  <2>2. 0 \in Int /\ MaxAddress \in Int
    BY MaxAddressType
  <2>3. IsFiniteSet(RegionBases)
    BY <2>1, <2>2, BoundedIsFinite
  <2> QED
    BY <2>1, <2>3
<1>3. /\ n \in Nat /\ bases \in [1..n -> RegionBases]
      /\ \A i, j \in 1..n : i < j => bases[i] < bases[j]
      /\ \A a \in RegionBases : \E i \in 1..n : bases[i] = a
  BY <1>2, AscendingProperties
<1>4. Regions = [i \in DOMAIN bases |-> [base |-> bases[i], size |-> RegionSize(bases[i])]]
  BY DEF Regions
<1> HIDE DEF bases, n
<1>5. DOMAIN Regions = 1..n /\ \A i \in 1..n :
        Regions[i] = [base |-> bases[i], size |-> RegionSize(bases[i])]
  BY <1>3, <1>4
<1>6. \A i \in 1..n : Regions[i].base = bases[i] /\ Regions[i].size = RegionSize(bases[i])
  BY <1>5
<1>7. \A i \in 1..n : Regions[i] \in RegionRecords
  BY <1>1, <1>3, <1>5, RegionSizeProperties DEF RegionRecords
<1>8. Regions \in Seq(RegionRecords)
  <2>1. Regions \in [1..n -> RegionRecords]
    BY <1>4, <1>5, <1>7
  <2> QED
    BY <1>3, <2>1
<1> QED
  BY <1>3, <1>5, <1>6, <1>8

\* Addresses in a row of one kind are of one region.
LEMMA RegionsCover ==
  ASSUME MemoryTypeOK, NEW a \in Addresses, NEW w \in Nat \ {0},
         a + w - 1 <= MaxAddress, OneRegion(a..(a + w - 1))
  PROVE  \E c \in RegionBases : c <= a /\ a + w <= c + RegionSize(c)
<1> DEFINE T == {c \in 0..a : OneRegion(c..(a + w - 1))}
<1>1. a \in Nat /\ a <= MaxAddress /\ MaxAddress \in Int
  BY MaxAddressType DEF Addresses
<1> HIDE DEF MaxAddress
<1>2. T \in SUBSET Nat /\ a \in T
  BY <1>1
<1>3. \A c \in T : c \in 0..a /\ OneRegion(c..(a + w - 1))
  OBVIOUS
<1>4. \A c \in 0..a : OneRegion(c..(a + w - 1)) => c \in T
  OBVIOUS
<1> HIDE DEF T
<1>5. PICK c \in T : \A d \in T : c <= d
  BY <1>2, LeastNumber
<1>6. c \in Nat /\ c <= a /\ c \in Addresses
  BY <1>1, <1>2, <1>5 DEF Addresses
<1>7. c \in RegionBases
  <2>1. memory[c] # Unreadable
    <3>1. c \in c..(a + w - 1)
      BY <1>1, <1>6
    <3> QED
      BY <1>3, <3>1 DEF OneRegion, Mapped
  <2>2. ASSUME c # 0, OneRegion({c - 1, c})
        PROVE  FALSE
    <3>1. c - 1 \in 0..a /\ ~(c <= c - 1)
      BY <1>1, <1>6, <2>2
    <3>2. /\ (c - 1)..(a + w - 1) = {c - 1, c} \union (c..(a + w - 1))
          /\ c \in {c - 1, c} \intersect (c..(a + w - 1))
      BY <1>1, <1>6
    <3>3. OneRegion((c - 1)..(a + w - 1))
      <4> DEFINE two == {c - 1, c}
                 rest == c..(a + w - 1)
      <4>1. OneRegion(rest) /\ OneRegion(two) /\ two \intersect rest # {}
        BY <1>3, <2>2, <3>2
      <4>2. (c - 1)..(a + w - 1) = two \union rest
        BY <3>2
      <4> HIDE DEF two, rest
      <4> QED
        BY <4>1, <4>2, PartsOfRegions
    <3> QED
      BY <1>4, <1>5, <3>1, <3>3
  <2> QED
    BY <1>6, <2>1, <2>2 DEF RegionBases
<1>8. a + w <= c + RegionSize(c)
  <2> DEFINE m == a + w - c
  <2>1. m \in 1..(MaxAddress + 1 - c) /\ c + m - 1 = a + w - 1
    BY <1>1, <1>6
  <2> HIDE DEF m
  <2>2. m <= RegionSize(c)
    BY <1>3, <1>7, <2>1, RegionSizeProperties
  <2>3. RegionSize(c) \in Int
    BY <1>7, RegionSizeProperties
  <2> QED
    BY <1>1, <1>6, <2>2, <2>3 DEF m
<1> QED
  BY <1>6, <1>7, <1>8

\* A region up to the last address loses that one; no pointer in range is in it.
LEMMA RegionEndProperties ==
  ASSUME NEW g \in RegionRecords, g.base + g.size <= MaxAddress + 1
  PROVE  /\ RegionEnd(g) \in Int
         /\ g.base < RegionEnd(g) \/ RegionEnd(g) = MaxAddress
         /\ RegionEnd(g) <= MaxAddress /\ RegionEnd(g) <= g.base + g.size
         /\ \A e \in Int : e <= MaxAddress /\ e <= g.base + g.size => e <= RegionEnd(g)
<1>1. g.base \in Nat /\ g.size \in Nat \ {0} /\ MaxAddress \in Int /\ g.base <= MaxAddress
  BY MaxAddressType DEF RegionRecords, Addresses
<1> HIDE DEF MaxAddress
<1> QED
  BY <1>1 DEF RegionEnd

LEMMA EnumerateProperties ==
  ASSUME MemoryTypeOK, NEW range \in Addresses \X Addresses
  PROVE  /\ Enumerate(range) \in Seq(RegionRecords)
         /\ \A i \in DOMAIN Enumerate(range) : LET g == Enumerate(range)[i] IN
              /\ g.base + g.size <= MaxAddress + 1
              /\ \A b \in g.base..(g.base + g.size - 1) :
                   b \in Addresses /\ b \notin Skipped /\ memory[b] # Unreadable
         /\ \A i, j \in DOMAIN Enumerate(range) : i < j =>
              Enumerate(range)[i].base + Enumerate(range)[i].size <= Enumerate(range)[j].base
         /\ \A a \in Addresses :
              /\ range[1] <= a /\ a + PointerWidth <= range[2]
              /\ Mapped(Word(a)) /\ Searchable(a)
              => \E i \in DOMAIN Enumerate(range) :
                  /\ Enumerate(range)[i].base <= a
                  /\ a + PointerWidth <= Enumerate(range)[i].base + Enumerate(range)[i].size
<1> DEFINE R == Regions
           I == {i \in DOMAIN R : /\ RegionEnd(R[i]) > range[1] /\ R[i].base <= range[2]
                                  /\ R[i].base \notin OwnStack /\ R[i].base \notin ReadOnly}
           E == Selected(R, I)
<1>1. Enumerate(range) = E
  BY DEF Enumerate
<1>2. /\ R \in Seq(RegionRecords)
      /\ \A i \in DOMAIN R : R[i].base \in RegionBases /\ R[i].size = RegionSize(R[i].base)
      /\ \A i, j \in DOMAIN R : i < j => R[i].base < R[j].base
      /\ \A a \in RegionBases : \E i \in DOMAIN R : R[i].base = a
  BY RegionsProperties
<1>3. \A i \in I : i \in DOMAIN R /\ R[i].base \notin Skipped
  BY DEF Skipped
<1>4. \A i \in DOMAIN R : /\ RegionEnd(R[i]) > range[1] /\ R[i].base <= range[2]
                          /\ R[i].base \notin Skipped
                          => i \in I
  BY DEF Skipped
<1> HIDE DEF R, I
<1>5. /\ E \in Seq(RegionRecords)
      /\ \A k \in DOMAIN E : \E i \in I : E[k] = R[i]
      /\ \A i \in I : \E k \in DOMAIN E : E[k] = R[i]
  <2>1. I \in SUBSET DOMAIN R
    BY <1>3
  <2> QED
    BY <1>2, <2>1, SelectedProperties
<1>0. \A k, l \in DOMAIN E : k < l => \E i, j \in I : i < j /\ E[k] = R[i] /\ E[l] = R[j]
  <2>1. I \in SUBSET DOMAIN R
    BY <1>3
  <2> QED
    BY <1>2, <2>1, SelectedOrder
<1> HIDE DEF E
<1>6. \A i \in DOMAIN R : /\ R[i] \in RegionRecords
                          /\ R[i].base + R[i].size <= MaxAddress + 1
                          /\ OneRegion(R[i].base..(R[i].base + R[i].size - 1))
                          /\ R[i].base \in Nat /\ R[i].size \in Nat \ {0}
  <2> TAKE i \in DOMAIN R
  <2>1. R[i] \in RegionRecords
    BY <1>2
  <2>2. R[i].base \in Nat /\ R[i].size \in Nat \ {0}
    BY <2>1, MaxAddressType DEF RegionRecords, Addresses
  <2>3. /\ R[i].base + R[i].size <= MaxAddress + 1
        /\ OneRegion(R[i].base..(R[i].base + R[i].size - 1))
    BY <1>2, RegionSizeProperties
  <2> QED
    BY <2>1, <2>2, <2>3
<1>7. ASSUME NEW i \in DOMAIN R, NEW b \in R[i].base..(R[i].base + R[i].size - 1)
      PROVE  b \in Addresses /\ memory[b] # Unreadable
  <2>1. memory[b] # Unreadable
    BY <1>6 DEF OneRegion, Mapped
  <2>2. R[i].base + R[i].size <= MaxAddress + 1 /\ R[i].base \in Nat /\ R[i].size \in Nat
    BY <1>6
  <2>3. MaxAddress \in Int
    BY MaxAddressType
  <2> HIDE DEF MaxAddress
  <2>4. b \in 0..MaxAddress
    BY <2>2, <2>3
  <2> QED
    BY <2>1, <2>4 DEF Addresses
<1>8. ASSUME NEW i \in DOMAIN R, NEW j \in DOMAIN R, i < j
      PROVE  R[i].base + R[i].size <= R[j].base
  <2>1. R[i].base < R[j].base /\ R[j].base \in RegionBases
    BY <1>2, <1>8
  <2>2. R[i].base \in Nat /\ R[i].size \in Nat /\ R[j].base \in Nat
    BY <1>6
  <2>3. ~OneRegion({R[j].base - 1, R[j].base})
    <3> DEFINE c == R[j].base
    <3>1. c \in RegionBases /\ c # 0
      BY <2>1, <2>2
    <3> HIDE DEF c
    <3>2. ~OneRegion({c - 1, c})
      BY <3>1 DEF RegionBases
    <3> QED
      BY <3>2 DEF c
  <2> SUFFICES ASSUME R[j].base < R[i].base + R[i].size
               PROVE  FALSE
    BY <2>2
  <2> DEFINE two == {R[j].base - 1, R[j].base}
             as == R[i].base..(R[i].base + R[i].size - 1)
  <2>4. two \subseteq as
    BY <2>1, <2>2
  <2>5. OneRegion(as) /\ ~OneRegion(two)
    BY <1>6, <2>3
  <2> HIDE DEF two, as
  <2> QED
    BY <2>4, <2>5, PartsOfRegions
<1>9. \A k, l \in DOMAIN E : k < l => E[k].base + E[k].size <= E[l].base
  <2> SUFFICES ASSUME NEW k \in DOMAIN E, NEW l \in DOMAIN E, k < l
               PROVE  E[k].base + E[k].size <= E[l].base
    OBVIOUS
  <2>1. PICK i \in DOMAIN R, j \in DOMAIN R : i < j /\ E[k] = R[i] /\ E[l] = R[j]
    BY <1>0, <1>3
  <2> QED
    BY <1>8, <2>1
<1>10. ASSUME NEW a \in Addresses, range[1] <= a, a + PointerWidth <= range[2],
              Mapped(Word(a)), Searchable(a)
       PROVE  \E k \in DOMAIN E : E[k].base <= a /\ a + PointerWidth <= E[k].base + E[k].size
  <2>1. /\ a \in Int /\ range[1] \in Int /\ range[2] \in Int /\ range[2] <= MaxAddress
        /\ MaxAddress \in Int /\ PointerWidth \in Nat \ {0}
    BY MaxAddressType, PointerAssumption DEF Addresses
  <2>2. a + PointerWidth - 1 <= MaxAddress
    <3> HIDE DEF MaxAddress
    <3> QED
      BY <1>10, <2>1
  <2>0. OneRegion(a..(a + PointerWidth - 1))
    BY <1>10 DEF OneRegion, Word, Searchable
  <2>3. PICK c \in RegionBases : c <= a /\ a + PointerWidth <= c + RegionSize(c)
    BY <2>0, <2>1, <2>2, RegionsCover
  <2>4. PICK i \in DOMAIN R : R[i].base = c /\ R[i].size = RegionSize(c)
    BY <1>2
  <2>5. R[i] \in RegionRecords /\ R[i].base + R[i].size <= MaxAddress + 1 /\ R[i].base \in Int
    BY <1>6
  <2>6. a + PointerWidth <= RegionEnd(R[i]) /\ RegionEnd(R[i]) \in Int
    <3>1. a + PointerWidth \in Int /\ a + PointerWidth <= MaxAddress
      <4> HIDE DEF MaxAddress
      <4> QED
        BY <1>10, <2>1
    <3> QED
      BY <2>3, <2>4, <2>5, <3>1, RegionEndProperties
  <2>8. R[i].base \notin Skipped
    <3> DEFINE as == R[i].base..(R[i].base + R[i].size - 1)
    <3>1. OneRegion(as)
      BY <1>6
    <3>2. R[i].base \in as /\ a \in as /\ a \in Word(a)
      <4>1. R[i].base \in Int /\ R[i].size \in Nat \ {0} /\ R[i].base <= a
            /\ a + PointerWidth <= R[i].base + R[i].size
        BY <1>6, <2>3, <2>4
      <4> QED
        BY <2>1, <4>1 DEF Word
    <3> HIDE DEF as
    <3> QED
      BY <1>10, <3>1, <3>2 DEF OneRegion, Searchable
  <2>7. i \in I
    BY <1>4, <1>10, <2>1, <2>3, <2>4, <2>5, <2>6, <2>8
  <2> QED
    BY <1>5, <2>3, <2>4, <2>7
<1>11. \A k \in DOMAIN E :
         /\ E[k].base + E[k].size <= MaxAddress + 1
         /\ \A b \in E[k].base..(E[k].base + E[k].size - 1) :
              b \in Addresses /\ b \notin Skipped /\ memory[b] # Unreadable
  <2> TAKE k \in DOMAIN E
  <2>1. PICK i \in DOMAIN R : E[k] = R[i] /\ R[i].base \notin Skipped
    BY <1>3, <1>5
  <2>2. \A b \in R[i].base..(R[i].base + R[i].size - 1) : b \notin Skipped
    <3> DEFINE as == R[i].base..(R[i].base + R[i].size - 1)
    <3>1. OneRegion(as)
      BY <1>6
    <3>2. R[i].base \in as
      BY <1>6
    <3> HIDE DEF as
    <3>3. \A b \in as : b \notin Skipped
      BY <2>1, <3>1, <3>2 DEF OneRegion
    <3> QED
      BY <3>3 DEF as
  <2> QED
    BY <1>6, <1>7, <2>1, <2>2
<1> QED
  BY <1>1, <1>5, <1>9, <1>10, <1>11

\* The pointer's bytes are in `bytes' from place k on.
HasPointer(bytes, k) == \A j \in 0..(PointerWidth - 1) : bytes[k + j + 1] = Pointer[j]

\* The pointers found are aligned, in the bytes read, upwards, and all there are.
LEMMA PointersInProperties ==
  ASSUME NEW bytes, Len(bytes) \in Nat, NEW cursor \in Int, cursor % PointerWidth = 0
  PROVE  /\ PointersIn(bytes, cursor) \in Seq(Int)
         /\ \A i \in DOMAIN PointersIn(bytes, cursor) : LET a == PointersIn(bytes, cursor)[i] IN
              /\ a \in Int /\ a % PointerWidth = 0
              /\ cursor <= a /\ a + PointerWidth <= cursor + Len(bytes)
              /\ HasPointer(bytes, a - cursor)
         /\ \A i, j \in DOMAIN PointersIn(bytes, cursor) :
              i < j => PointersIn(bytes, cursor)[i] < PointersIn(bytes, cursor)[j]
         /\ \A a \in Int :
              /\ a % PointerWidth = 0 /\ cursor <= a /\ a + PointerWidth <= cursor + Len(bytes)
              /\ HasPointer(bytes, a - cursor)
              => \E i \in DOMAIN PointersIn(bytes, cursor) : PointersIn(bytes, cursor)[i] = a
<1> DEFINE w == PointerWidth
           last == Len(bytes) - w
           K == {k \in 0..last : k % w = 0 /\ HasPointer(bytes, k)}
           S == {cursor + k : k \in K}
           found == Ascending(S)
<1>1. w \in Nat \ {0} /\ last \in Int /\ Len(bytes) = last + w
  BY PointerAssumption
<1>2. PointersIn(bytes, cursor) = found
  BY DEF PointersIn, HasPointer
<1>3. \A k \in K : k \in Int /\ 0 <= k /\ k <= last /\ k % w = 0 /\ HasPointer(bytes, k)
  BY <1>1
<1>4. \A k \in Int : 0 <= k /\ k <= last /\ k % w = 0 /\ HasPointer(bytes, k) => k \in K
  BY <1>1
<1>5. K \in SUBSET (0..last) /\ 0 \in Int
  OBVIOUS
<1> HIDE DEF w, last, K
<1>6. IsFiniteSet(K)
  BY <1>1, <1>5, BoundedIsFinite
<1>7. S \in SUBSET Int /\ IsFiniteSet(S)
  <2> DEFINE f == [k \in K |-> cursor + k]
  <2>1. S = {f[k] : k \in K}
    OBVIOUS
  <2>2. S \in SUBSET Int
    BY <1>3
  <2> HIDE DEF f, S
  <2>3. IsFiniteSet(S)
    BY <1>6, <2>1, ImageIsFinite
  <2> QED
    BY <2>2, <2>3
<1>8. \A a \in S : /\ a \in Int /\ a % w = 0 /\ cursor <= a /\ a + w <= cursor + Len(bytes)
                   /\ HasPointer(bytes, a - cursor)
  <2> SUFFICES ASSUME NEW k \in K
               PROVE  LET a == cursor + k IN
                      /\ a \in Int /\ a % w = 0 /\ cursor <= a /\ a + w <= cursor + Len(bytes)
                      /\ HasPointer(bytes, a - cursor)
    OBVIOUS
  <2>1. k \in Int /\ 0 <= k /\ k <= last /\ k % w = 0 /\ HasPointer(bytes, k)
    BY <1>3
  <2>2. cursor % w = 0
    BY DEF w
  <2>3. (cursor + k) % w = 0
    BY <1>1, <2>1, <2>2, Multiples
  <2>4. (cursor + k) - cursor = k
    BY <2>1
  <2>5. cursor + k \in Int /\ cursor <= cursor + k /\ cursor + k + w <= cursor + Len(bytes)
    BY <1>1, <2>1
  <2> QED
    BY <2>1, <2>3, <2>4, <2>5
<1>9. \A a \in Int : a % w = 0 /\ cursor <= a /\ a + w <= cursor + Len(bytes) /\ HasPointer(bytes, a - cursor) => a \in S
  <2> SUFFICES ASSUME NEW a \in Int, a % w = 0, cursor <= a, a + w <= cursor + Len(bytes), HasPointer(bytes, a - cursor)
               PROVE  a \in S
    OBVIOUS
  <2> DEFINE k == a - cursor
  <2>1. k \in Int /\ 0 <= k /\ k <= last /\ a = cursor + k
    BY <1>1
  <2>2. cursor % w = 0
    BY DEF w
  <2>3. k % w = 0
    BY <1>1, <2>2, Multiples
  <2>4. k \in K
    BY <1>4, <2>1, <2>3
  <2> HIDE DEF k
  <2> QED
    BY <2>1, <2>4
<1> HIDE DEF S
<1>10. found \in Seq(Int)
  BY <1>7, AscendingInSeq
<1>11. /\ found \in [1..Cardinality(S) -> S]
       /\ \A i, j \in 1..Cardinality(S) : i < j => found[i] < found[j]
       /\ \A a \in S : \E i \in 1..Cardinality(S) : found[i] = a
  BY <1>7, AscendingProperties
<1> HIDE DEF found
<1>12. DOMAIN found = 1..Cardinality(S) /\ \A i \in DOMAIN found : found[i] \in S
  BY <1>11
<1> QED
  BY <1>2, <1>8, <1>9, <1>10, <1>11, <1>12 DEF w

-----------------------------------------------------------------------------
(* Steps of a search.                                                      *)

LEMMA FindInvInit == Init => FindInv
BY PageInvInit DEF Init, FindInv

\* A word in the target that is to be found is mapped when the search begins.
LEMMA FindBegins ==
  ASSUME FindInv, NEW range \in Ranges, NEW options \in Options, FindPointers(range, options)
  PROVE  SearchTypeOK' /\ BudgetOK' /\ LeftOK' /\ ChunkOK' /\ FoundOK' /\ NoneMissed'
<1> DEFINE E == Enumerate(range)
           at == IF \/ range[1] >= range[2]
                    \/ options.maxResults = 0
                    \/ options.maxScannedBytes < PointerWidth
                    \/ options.chunkBytes < PointerWidth THEN "done" ELSE "region"
           none == <<>>
<1>1. /\ range \in Addresses \X Addresses
      /\ options \in [maxResults : Nat, maxScannedBytes : Nat, chunkBytes : Nat]
      /\ MemoryTypeOK /\ PointerWidth \in Nat \ {0} /\ MaxAddress \in Int
      /\ Pointer \in [0..(PointerWidth - 1) -> Nat]
  BY RangesAssumption, OptionsAssumption, PointerAssumption, MaxAddressType DEF FindInv, PageInv
<1>2. /\ call' = [kind |-> "search", at |-> at]
      /\ had' = [a \in Addresses |-> {memory[a]}] /\ memory' = memory
      /\ search' = [range |-> range, options |-> options, left |-> E, cursor |-> 0,
                    scanEnd |-> 0, scanned |-> 0, readTo |-> 0, results |-> none]
  BY DEF FindPointers, Begins
<1>3. /\ E \in Seq(RegionRecords)
      /\ \A i \in DOMAIN E :
           /\ E[i].base + E[i].size <= MaxAddress + 1
           /\ \A b \in E[i].base..(E[i].base + E[i].size - 1) :
                b \in Addresses /\ b \notin Skipped /\ memory[b] # Unreadable
      /\ \A i, j \in DOMAIN E : i < j => E[i].base + E[i].size <= E[j].base
      /\ \A a \in Addresses :
           /\ range[1] <= a /\ a + PointerWidth <= range[2]
           /\ Mapped(Word(a)) /\ Searchable(a)
           => \E i \in DOMAIN E : E[i].base <= a /\ a + PointerWidth <= E[i].base + E[i].size
  BY <1>1, EnumerateProperties
<1>4. none \in Seq(Int) /\ Len(none) = 0 /\ DOMAIN none = {}
  OBVIOUS
<1> HIDE DEF E, none, MaxAddress
<1>5. /\ call'.kind = "search" /\ call'.at = at /\ search'.range = range /\ search'.options = options
      /\ search'.left = E /\ search'.scanned = 0 /\ search'.readTo = 0 /\ search'.results = none
  BY <1>2
<1>6. SearchTypeOK'
  BY <1>1, <1>2, <1>3, <1>4 DEF SearchTypeOK
<1>7. BudgetOK'
  BY <1>1, <1>4, <1>5 DEF BudgetOK, Scans
<1>8. LeftOK'
  <2>1. \A i \in DOMAIN E : E[i] \in RegionRecords
    BY <1>3
  <2>2. \A i \in DOMAIN E : 0 <= E[i].base
    BY <2>1, <1>1 DEF RegionRecords, Addresses
  <2>3. \A b \in Addresses : memory[b] # Unreadable /\ b \notin Skipped => WasMapped(b)'
    BY <1>2 DEF WasMapped
  <2> QED
    BY <1>3, <1>5, <2>2, <2>3 DEF LeftOK
<1>9. ChunkOK'
  BY <1>5 DEF ChunkOK
<1>10. FoundOK'
  BY <1>4, <1>5 DEF FoundOK, PointersAreTrue
<1>11. NoneMissed'
  <2> SUFFICES ASSUME options.chunkBytes >= PointerWidth, 0 < options.maxResults, NEW a, Wanted(a)'
               PROVE  PastBudget(a)' \/ IsLeft(a)'
    BY <1>5 DEF NoneMissed
  <2>1. /\ a \in Addresses /\ range[1] <= a /\ a + PointerWidth <= range[2]
        /\ \A b \in a..(a + PointerWidth - 1) : had'[b] = {Pointer[b - a]}
        /\ Searchable(a)
    BY <1>5 DEF Wanted, Held, Word, Searchable
  <2>2. a \in Nat /\ range[1] \in Nat /\ range[2] \in Nat /\ range[2] <= MaxAddress
    BY <1>1, <2>1 DEF Addresses
  <2>3. Mapped(Word(a))
    <3> SUFFICES ASSUME NEW b \in a..(a + PointerWidth - 1)
                 PROVE  memory[b] # Unreadable
      BY DEF Mapped, Word
    <3>1. b \in Addresses /\ b - a \in 0..(PointerWidth - 1)
      BY <1>1, <2>1, <2>2 DEF Addresses
    <3>2. {memory[b]} = {Pointer[b - a]}
      BY <1>2, <2>1, <3>1
    <3>3. memory[b] = Pointer[b - a] /\ Pointer[b - a] \in Nat
      BY <1>1, <3>1, <3>2
    <3> QED
      BY <3>3 DEF Unreadable
  <2>4. \E i \in DOMAIN E : E[i].base <= a /\ a + PointerWidth <= E[i].base + E[i].size
    BY <1>3, <2>1, <2>3
  <2>5. CASE at = "region"
    BY <1>5, <2>4, <2>5 DEF IsLeft, Scans
  <2>6. CASE at = "done"
    <3>1. options.maxScannedBytes < PointerWidth
      BY <1>1, <2>1, <2>2, <2>6
    <3> QED
      BY <1>1, <1>4, <1>5, <2>2, <3>1 DEF PastBudget
  <2> QED
    BY <2>5, <2>6
<1> QED
  BY <1>6, <1>7, <1>8, <1>9, <1>10, <1>11

\* What is true of results stays true while `had' only grows.
LEMMA StillTrue ==
  ASSUME FoundOK, call'.kind = "search", call.kind = "search",
         search'.range = search.range, search'.results = search.results,
         search'.readTo = search.readTo,
         \A a \in Addresses : had[a] \subseteq had'[a],
         SearchTypeOK
  PROVE  FoundOK'
<1>1. PointersAreTrue
  BY DEF FoundOK
<1>2. ASSUME NEW i \in DOMAIN search.results, HeldOnce(search.results[i]),
             0 <= search.results[i], search.results[i] + PointerWidth <= MaxAddress
      PROVE  HeldOnce(search.results[i])'
  <2>1. search.results[i] \in Int /\ MaxAddress \in Int /\ PointerWidth \in Nat
    BY MaxAddressType, PointerAssumption DEF SearchTypeOK
  <2> HIDE DEF MaxAddress
  <2>2. \A b \in Word(search.results[i]) : b \in Addresses
    BY <1>2, <2>1 DEF Word, Addresses
  <2> QED
    BY <1>2, <2>2 DEF HeldOnce, Word
<1>3. ASSUME NEW i \in DOMAIN search.results
      PROVE  HeldOnce(search.results[i])'
  <2>1. /\ search.range[1] <= search.results[i] /\ search.results[i] + PointerWidth <= search.range[2]
        /\ HeldOnce(search.results[i])
    BY <1>1 DEF PointersAreTrue
  <2>2. /\ search.range[1] \in Nat /\ search.range[2] \in Nat /\ search.range[2] <= MaxAddress
        /\ search.results[i] \in Int /\ MaxAddress \in Int /\ PointerWidth \in Nat
    <3>1. /\ search.range[1] \in Addresses /\ search.range[2] \in Addresses
          /\ search.results \in Seq(Int)
      BY DEF SearchTypeOK
    <3>2. MaxAddress \in Int /\ PointerWidth \in Nat
      BY MaxAddressType, PointerAssumption
    <3> HIDE DEF MaxAddress
    <3>3. \A x \in Addresses : x \in Nat /\ x <= MaxAddress
      BY <3>2 DEF Addresses
    <3> QED
      BY <1>3, <3>1, <3>2, <3>3
  <2> HIDE DEF MaxAddress
  <2>3. 0 <= search.results[i] /\ search.results[i] + PointerWidth <= MaxAddress
    BY <2>1, <2>2
  <2> QED
    BY <1>2, <2>1, <2>3
<1>4. PointersAreTrue'
  BY <1>1, <1>3 DEF PointersAreTrue, Searchable, Word
<1> QED
  BY <1>4 DEF FoundOK

LEMMA FindChanges ==
  ASSUME FindInv, call.kind = "search", NEW x \in Addresses, NEW v, Changes(x, v)
  PROVE  SearchTypeOK' /\ BudgetOK' /\ LeftOK' /\ ChunkOK' /\ FoundOK' /\ NoneMissed'
<1>1. /\ MemoryTypeOK /\ SearchTypeOK /\ BudgetOK /\ LeftOK /\ ChunkOK /\ FoundOK /\ NoneMissed
      /\ \A a \in Addresses : memory[a] \in had[a]
  BY DEF FindInv, PageInv
<1>2. call' = call /\ search' = search /\ had' = [had EXCEPT ![x] = @ \union {v}]
  BY DEF Changes
<1>3. \A a \in Addresses : had[a] \subseteq had'[a]
  BY <1>1, <1>2 DEF MemoryTypeOK
<1>4. \A b : WasMapped(b) => WasMapped(b)'
  BY <1>1, <1>3 DEF WasMapped
<1>5. SearchTypeOK' /\ BudgetOK'
  BY <1>1, <1>2 DEF SearchTypeOK, BudgetOK, Scans
<1>6. LeftOK'
  BY <1>1, <1>2, <1>4 DEF LeftOK
<1>7. ChunkOK'
  BY <1>1, <1>2, <1>4 DEF ChunkOK
<1>8. FoundOK'
  BY <1>1, <1>2, <1>3, StillTrue
<1>9. NoneMissed'
  <2>1. Shrunk => Shrunk'
    <3> SUFFICES ASSUME NEW a \in Addresses, Unreadable \in had[a], had[a] # {Unreadable}
                 PROVE  Shrunk'
      BY DEF Shrunk
    <3>1. Unreadable \in had'[a] /\ had'[a] # {Unreadable}
      BY <1>3
    <3> QED
      BY <3>1 DEF Shrunk
  <2>2. ASSUME NEW a, Wanted(a)' PROVE Wanted(a)
    <3>1. /\ a \in Addresses /\ search.range[1] <= a /\ a + PointerWidth <= search.range[2]
          /\ a % PointerWidth = 0
          /\ \A b \in Word(a) : had'[b] = {Pointer[b - a]}
          /\ Searchable(a)
      BY <1>2, <2>2 DEF Wanted, Held, Word, Searchable
    <3>2. \A b \in Word(a) : b \in Addresses
      <4>1. a \in Nat /\ search.range[2] \in Nat /\ search.range[2] <= MaxAddress
            /\ MaxAddress \in Int /\ PointerWidth \in Nat
        BY <1>1, <3>1, MaxAddressType, PointerAssumption DEF SearchTypeOK, Addresses
      <4> HIDE DEF MaxAddress
      <4> QED
        BY <3>1, <4>1 DEF Word, Addresses
    <3>3. \A b \in Word(a) : had[b] = {Pointer[b - a]}
      <4> TAKE b \in Word(a)
      <4>1. had[b] \subseteq {Pointer[b - a]} /\ memory[b] \in had[b]
        BY <1>1, <1>3, <3>1, <3>2
      <4> QED
        BY <4>1
    <3> QED
      BY <3>1, <3>3 DEF Wanted, Held, Searchable, Word
  <2>3. \A a : IsFound(a) \/ PastResults(a) \/ PastBudget(a) \/ IsLeft(a) \/ IsNext(a) =>
             (IsFound(a) \/ PastResults(a) \/ PastBudget(a) \/ IsLeft(a) \/ IsNext(a))'
    BY <1>2 DEF IsFound, PastResults, PastBudget, IsLeft, IsNext, Scans
  <2> QED
    BY <1>1, <1>2, <2>1, <2>2, <2>3 DEF NoneMissed
<1> QED
  BY <1>5, <1>6, <1>7, <1>8, <1>9

LEMMA FindLeaves ==
  ASSUME FindInv, LeaveRegion
  PROVE  SearchTypeOK' /\ BudgetOK' /\ LeftOK' /\ ChunkOK' /\ FoundOK' /\ NoneMissed'
<1>1. /\ call.at = "chunk" /\ call.kind = "search" /\ EndsRegion
      /\ memory' = memory /\ had' = had /\ search' = search
      /\ call' = [call EXCEPT !.at = "region"]
  BY DEF LeaveRegion, FindInv, PageInv, Goto
<1>2. /\ MemoryTypeOK /\ SearchTypeOK /\ BudgetOK /\ LeftOK /\ ChunkOK /\ FoundOK /\ NoneMissed
  BY <1>1 DEF FindInv, PageInv
<1>3. call'.at = "region" /\ call'.kind = "search"
  BY <1>1, <1>2 DEF MemoryTypeOK
<1>4. SearchTypeOK' /\ BudgetOK'
  BY <1>1, <1>2, <1>3 DEF SearchTypeOK, BudgetOK, Scans
<1>5. LeftOK' /\ ChunkOK'
  BY <1>1, <1>2, <1>3 DEF LeftOK, ChunkOK, WasMapped
<1>6. FoundOK'
  BY <1>1, <1>2, <1>3, StillTrue
<1>7. ASSUME search.options.chunkBytes >= PointerWidth, NEW a, Wanted(a), IsNext(a)
      PROVE  PastBudget(a)'
  <2>1. /\ a \in Int /\ search.cursor \in Int /\ search.scanEnd \in Int /\ search.readTo \in Int
        /\ search.scanned \in Nat /\ search.options.maxScannedBytes \in Nat
        /\ PointerWidth \in Nat \ {0}
    BY <1>2, <1>7, PointerAssumption DEF SearchTypeOK, Wanted, Addresses
  <2>2. /\ search.cursor <= a /\ a + PointerWidth <= search.scanEnd
        /\ search.readTo <= search.cursor /\ Len(search.results) < search.options.maxResults
    BY <1>1, <1>2, <1>7 DEF IsNext, ChunkOK, BudgetOK, Scans
  <2>3. search.options.maxScannedBytes - search.scanned < PointerWidth
    <3>1. CASE search.cursor >= search.scanEnd
      BY <2>1, <2>2, <3>1
    <3>2. CASE search.scanned >= search.options.maxScannedBytes
      BY <2>1, <3>2
    <3>3. CASE Request(search) < PointerWidth
      <4>1. \/ search.scanEnd - search.cursor < PointerWidth
            \/ search.options.maxScannedBytes - search.scanned < PointerWidth
        BY <1>2, <1>7, <3>3, RequestProperties
      <4> QED
        BY <2>1, <2>2, <4>1
    <3> QED
      BY <1>1, <3>1, <3>2, <3>3 DEF EndsRegion
  <2> QED
    BY <1>1, <2>1, <2>2, <2>3 DEF PastBudget
<1>8. NoneMissed'
  <2> SUFFICES ASSUME ~Shrunk, search.options.chunkBytes >= PointerWidth,
                      0 < search.options.maxResults, NEW a, Wanted(a)
               PROVE  IsFound(a)' \/ PastBudget(a)' \/ IsLeft(a)'
    BY <1>1 DEF NoneMissed, Shrunk, Wanted, Held, Searchable, Word
  <2>1. IsFound(a) \/ PastResults(a) \/ PastBudget(a) \/ IsLeft(a) \/ IsNext(a)
    BY <1>2 DEF NoneMissed
  <2>2. ~PastResults(a)
    BY <1>1 DEF PastResults
  <2>3. IsFound(a) \/ PastBudget(a) \/ IsLeft(a) => IsFound(a)' \/ PastBudget(a)' \/ IsLeft(a)'
    BY <1>1, <1>3 DEF IsFound, PastBudget, IsLeft, Scans
  <2> QED
    BY <1>7, <2>1, <2>2, <2>3
<1> QED
  BY <1>4, <1>5, <1>6, <1>8

\* A search that goes on to the next region loses nothing with those it skips.
LEMMA FindNextRegion ==
  ASSUME FindInv, NextRegion
  PROVE  SearchTypeOK' /\ BudgetOK' /\ LeftOK' /\ ChunkOK' /\ FoundOK' /\ NoneMissed'
<1>1. /\ call.at = "region" /\ call.kind = "search" /\ memory' = memory /\ had' = had
  BY DEF NextRegion, FindInv, PageInv
<1>2. /\ MemoryTypeOK /\ SearchTypeOK /\ BudgetOK /\ LeftOK /\ FoundOK /\ NoneMissed
      /\ MaxAddress \in Int /\ PointerWidth \in Nat \ {0}
  BY <1>1, MaxAddressType, PointerAssumption DEF FindInv, PageInv
<1>3. /\ search.left \in Seq(RegionRecords) /\ search.scanned \in Nat /\ search.readTo \in Int
      /\ search.options.maxScannedBytes \in Nat /\ search.results \in Seq(Int)
      /\ search.range[1] \in Addresses /\ search.range[2] \in Addresses
      /\ search.range[1] \in Nat /\ search.range[2] \in Nat
      /\ search.range[1] <= MaxAddress /\ search.range[2] <= MaxAddress
  BY <1>2 DEF SearchTypeOK, Addresses
<1>4. \A i \in DOMAIN search.left :
        search.left[i] \in RegionRecords /\ search.left[i].base \in Nat /\ search.left[i].size \in Nat
  <2> TAKE i \in DOMAIN search.left
  <2>1. search.left[i] \in RegionRecords
    BY <1>3
  <2> QED
    BY <2>1 DEF RegionRecords, Addresses
<1>5. \A a : ~PastResults(a) /\ ~IsNext(a)
  BY <1>1 DEF PastResults, IsNext
<1>6. \A a : /\ Wanted(a)' /\ search'.range = search.range => Wanted(a)
  BY <1>1 DEF Wanted, Held, Searchable, Word
<1>7. Shrunk' <=> Shrunk
  BY <1>1 DEF Shrunk
<1>8. CASE search.left = <<>> \/ search.scanned >= search.options.maxScannedBytes
  <2>1. search' = search /\ call'.at = "done" /\ call'.kind = "search"
    BY <1>1, <1>2, <1>8 DEF NextRegion, Goto, MemoryTypeOK
  <2>2. SearchTypeOK' /\ BudgetOK' /\ LeftOK' /\ ChunkOK'
    BY <1>1, <1>2, <2>1 DEF SearchTypeOK, BudgetOK, Scans, LeftOK, ChunkOK, WasMapped
  <2>3. FoundOK'
    BY <1>1, <1>2, <2>1, StillTrue
  <2>4. ASSUME NEW a, Wanted(a), IsLeft(a) PROVE PastBudget(a)'
    <3>1. PICK i \in DOMAIN search.left : search.left[i].base <= a /\ search.readTo <= search.left[i].base
      BY <1>2, <2>4 DEF IsLeft, LeftOK
    <3>2. search.left # <<>>
      BY <3>1
    <3>3. search.scanned >= search.options.maxScannedBytes
      BY <1>8, <3>2
    <3>4. a \in Int /\ search.left[i].base \in Int
      BY <1>4, <2>4 DEF Wanted, Addresses
    <3>5. /\ search.readTo <= a /\ Len(search.results) < search.options.maxResults
          /\ search.options.maxScannedBytes - search.scanned < PointerWidth
      BY <1>1, <1>2, <1>3, <3>1, <3>3, <3>4 DEF BudgetOK, Scans
    <3> QED
      BY <2>1, <3>5 DEF PastBudget
  <2>5. NoneMissed'
    <3> SUFFICES ASSUME ~Shrunk, search.options.chunkBytes >= PointerWidth,
                        0 < search.options.maxResults, NEW a, Wanted(a)
                 PROVE  IsFound(a)' \/ PastBudget(a)'
      BY <1>6, <1>7, <2>1 DEF NoneMissed
    <3>1. IsFound(a) \/ PastBudget(a) \/ IsLeft(a)
      BY <1>2, <1>5 DEF NoneMissed
    <3>2. IsFound(a) \/ PastBudget(a) => IsFound(a)' \/ PastBudget(a)'
      BY <2>1 DEF IsFound, PastBudget
    <3> QED
      BY <2>4, <3>1, <3>2
  <2> QED
    BY <2>2, <2>3, <2>5
<1>9. CASE ~(search.left = <<>> \/ search.scanned >= search.options.maxScannedBytes)
  <2> DEFINE g == Head(search.left)
             start == Max({g.base, search.range[1]})
             first == Aligned(start)
             end == Min({RegionEnd(g), search.range[2]})
             rest == [search EXCEPT !.left = Tail(@)]
             skips == g.base >= search.range[2] \/ RegionEnd(g) <= search.range[1] \/ first > MaxAddress
  <2>1. IF skips THEN search' = rest /\ call' = call
        ELSE /\ search' = [rest EXCEPT !.cursor = first, !.scanEnd = end]
             /\ call' = [call EXCEPT !.at = "chunk"]
    BY <1>9 DEF NextRegion, Goto
  <2>2. /\ g = search.left[1] /\ 1 \in DOMAIN search.left
        /\ Tail(search.left) \in Seq(RegionRecords)
        /\ \A i \in DOMAIN Tail(search.left) :
             i + 1 \in DOMAIN search.left /\ i \in Nat /\ 1 < i + 1 /\ Tail(search.left)[i] = search.left[i + 1]
        /\ \A i \in DOMAIN search.left : i = 1 \/
             (i - 1 \in DOMAIN Tail(search.left) /\ Tail(search.left)[i - 1] = search.left[i])
    <3> DEFINE q == search.left
    <3>1. q \in Seq(RegionRecords) /\ q # <<>> /\ g = Head(q)
      BY <1>3, <1>9
    <3> HIDE DEF q, g
    <3>2. /\ Len(q) \in Nat /\ Len(q) # 0 /\ DOMAIN q = 1..Len(q)
          /\ Tail(q) \in Seq(RegionRecords) /\ Len(Tail(q)) = Len(q) - 1
          /\ \A i \in 1..(Len(q) - 1) : Tail(q)[i] = q[i + 1]
      BY <3>1, HeadTailProperties
    <3>3. DOMAIN Tail(q) = 1..(Len(q) - 1)
      BY <3>2
    <3>4. \A i \in DOMAIN Tail(q) : i + 1 \in DOMAIN q /\ i \in Nat /\ 1 < i + 1 /\ Tail(q)[i] = q[i + 1]
      BY <3>2, <3>3
    <3>5. \A i \in DOMAIN q : i = 1 \/ (i - 1 \in DOMAIN Tail(q) /\ Tail(q)[i - 1] = q[i])
      BY <3>2, <3>3
    <3>6. g = q[1] /\ 1 \in DOMAIN q
      BY <3>1, <3>2
    <3> QED
      BY <3>2, <3>4, <3>5, <3>6 DEF q
  <2>3. /\ g \in RegionRecords /\ g.base \in Nat /\ g.size \in Nat /\ g.base \in Addresses
        /\ g.base + g.size <= MaxAddress + 1
        /\ search.readTo <= g.base
        /\ \A b \in g.base..(g.base + g.size - 1) : WasMapped(b)
    BY <1>2, <1>4, <2>2 DEF LeftOK, RegionRecords
  <2>4. \A i \in DOMAIN Tail(search.left) :
          g.base + g.size <= Tail(search.left)[i].base
    BY <1>2, <2>2 DEF LeftOK
  <2>5. /\ RegionEnd(g) \in Int /\ RegionEnd(g) <= MaxAddress /\ RegionEnd(g) <= g.base + g.size
        /\ \A e \in Int : e <= MaxAddress /\ e <= g.base + g.size => e <= RegionEnd(g)
    BY <2>3, RegionEndProperties
  <2>6. start \in Addresses /\ start \in Nat /\ g.base <= start /\ search.range[1] <= start
        /\ start \in {g.base, search.range[1]}
    <3> DEFINE S == {g.base, search.range[1]}
    <3> HIDE DEF g
    <3>1. S \in SUBSET Int /\ S # {} /\ g.base \in S /\ search.range[1] \in S
      BY <1>3, <2>3
    <3>2. IsFiniteSet(S)
      BY PairIsFinite
    <3> HIDE DEF S
    <3>3. Max(S) \in S /\ \A e \in S : e <= Max(S)
      BY <3>1, <3>2, MaxProperties
    <3>4. start = Max(S)
      BY DEF S
    <3> HIDE DEF start
    <3>5. start \in S /\ g.base <= start /\ search.range[1] <= start
      BY <3>1, <3>3, <3>4
    <3> QED
      BY <1>3, <2>3, <3>5 DEF S
  <2>7. /\ first \in Int /\ start <= first /\ (first <= MaxAddress => first % PointerWidth = 0)
        /\ \A a \in Int : a % PointerWidth = 0 /\ start <= a /\ a + PointerWidth - 1 <= MaxAddress
                          => first <= a
    <3> HIDE DEF start
    <3> QED
      BY <2>6, AlignedProperties
  <2>8. end \in Int /\ end <= RegionEnd(g) /\ end <= search.range[2] /\ end \in {RegionEnd(g), search.range[2]}
    <3> DEFINE e == RegionEnd(g)
               r == search.range[2]
    <3>1. e \in Int /\ r \in Int /\ end = Min({e, r})
      BY <1>3, <2>5
    <3> HIDE DEF e, r, end
    <3>2. end \in {e, r} /\ end <= e /\ end <= r
      BY <3>1, MinOfTwo
    <3> QED
      BY <3>1, <3>2 DEF e, r
  <2> HIDE DEF g, start, first, end
  \* An address to find in g is in what is read of it.
  <2>9. ASSUME NEW a, Wanted(a), g.base <= a, a + PointerWidth <= g.base + g.size
        PROVE  ~skips /\ first <= a /\ a + PointerWidth <= end
    <3>1. /\ a \in Int /\ a % PointerWidth = 0
          /\ search.range[1] <= a /\ a + PointerWidth <= search.range[2]
      BY <2>9 DEF Wanted, Addresses
    <3> HIDE DEF MaxAddress
    <3>2. a + PointerWidth \in Int /\ a + PointerWidth <= MaxAddress /\ a + PointerWidth - 1 <= MaxAddress
      BY <1>2, <1>3, <3>1
    <3>3. a + PointerWidth <= RegionEnd(g)
      BY <2>5, <2>9, <3>2
    <3>4. start <= a
      BY <2>6, <2>9, <3>1
    <3>5. first <= a
      BY <2>7, <3>1, <3>2, <3>4
    <3>6. a + PointerWidth <= end
      BY <2>8, <3>1, <3>3
    <3>7. ~(g.base >= search.range[2])
      BY <1>2, <1>3, <2>3, <2>9, <3>1
    <3>8. ~(RegionEnd(g) <= search.range[1])
      BY <1>2, <1>3, <2>5, <3>1, <3>3
    <3>9. ~(first > MaxAddress)
      BY <1>2, <2>7, <3>1, <3>2, <3>5
    <3> QED
      BY <3>5, <3>6, <3>7, <3>8, <3>9
  <2>10. /\ search'.range = search.range /\ search'.options = search.options
         /\ search'.left = Tail(search.left) /\ search'.scanned = search.scanned
         /\ search'.readTo = search.readTo /\ search'.results = search.results
         /\ call'.kind = "search"
         /\ skips => call'.at = "region"
         /\ ~skips => call'.at = "chunk" /\ search'.cursor = first /\ search'.scanEnd = end
    <3> HIDE DEF skips
    <3> QED
      BY <1>1, <1>2, <2>1 DEF SearchTypeOK, MemoryTypeOK
  <2>11. SearchTypeOK'
    <3> DEFINE left == Tail(search.left)
    <3>1. /\ SearchTypeOK /\ left \in Seq(RegionRecords) /\ first \in Int /\ end \in Int
          /\ rest = [search EXCEPT !.left = left]
      BY <1>2, <2>2, <2>7, <2>8
    <3> HIDE DEF left, rest, skips
    <3>2. rest \in [range : Addresses \X Addresses,
                   options : [maxResults : Nat, maxScannedBytes : Nat, chunkBytes : Nat],
                   left : Seq(RegionRecords), cursor : Int, scanEnd : Int, scanned : Nat,
                   readTo : Int, results : Seq(Int)]
      BY <3>1 DEF SearchTypeOK
    <3>3. CASE skips
      BY <2>1, <3>2, <3>3 DEF SearchTypeOK
    <3>4. CASE ~skips
      <4>1. search' = [rest EXCEPT !.cursor = first, !.scanEnd = end]
        BY <2>1, <3>4
      <4>2. first \in Int /\ end \in Int
        BY <3>1
      <4> HIDE DEF RegionRecords, Addresses
      <4> QED
        BY <3>2, <4>1, <4>2 DEF SearchTypeOK
    <3> QED
      BY <3>3, <3>4
  <2>12. BudgetOK'
    BY <1>1, <1>2, <2>10 DEF BudgetOK, Scans
  <2>13. LeftOK'
    <3> DEFINE old == search.left
               left == Tail(search.left)
    <3>1. \A i \in DOMAIN left : i + 1 \in DOMAIN old /\ i \in Nat /\ left[i] = old[i + 1]
      BY <2>2
    <3>2. /\ \A i \in DOMAIN old :
               /\ old[i].base + old[i].size <= MaxAddress + 1
               /\ search.readTo <= old[i].base
               /\ \A b \in old[i].base..(old[i].base + old[i].size - 1) : WasMapped(b)
          /\ \A i, j \in DOMAIN old : i < j => old[i].base + old[i].size <= old[j].base
      BY <1>2 DEF LeftOK
    <3>3. search'.left = left /\ search'.readTo = search.readTo
      BY <2>10
    <3> HIDE DEF old, left, skips, MaxAddress
    <3>4. \A b : WasMapped(b)' <=> WasMapped(b)
      BY <1>1 DEF WasMapped
    <3>5. \A i \in DOMAIN left :
            /\ left[i].base + left[i].size <= MaxAddress + 1
            /\ search.readTo <= left[i].base
            /\ \A b \in left[i].base..(left[i].base + left[i].size - 1) : WasMapped(b)'
      BY <3>1, <3>2, <3>4
    <3>6. \A i, j \in DOMAIN left : i < j => left[i].base + left[i].size <= left[j].base
      <4> TAKE i, j \in DOMAIN left
      <4>1. i < j => i + 1 < j + 1
        BY <3>1
      <4> QED
        BY <3>1, <3>2, <4>1
    <3> QED
      BY <3>3, <3>5, <3>6 DEF LeftOK
  <2>14. ChunkOK'
    <3> SUFFICES ASSUME ~skips
                 PROVE  /\ first % PointerWidth = 0
                        /\ search.range[1] <= first /\ search.readTo <= first
                        /\ end <= search.range[2] /\ end <= MaxAddress
                        /\ \A b \in first..(end - 1) : WasMapped(b)
                        /\ \A i \in DOMAIN Tail(search.left) : end <= Tail(search.left)[i].base
      BY <1>1, <2>10 DEF ChunkOK, WasMapped
    <3>1. first % PointerWidth = 0
      BY <1>2, <2>7
    <3> HIDE DEF MaxAddress
    <3>2. /\ g.base <= first /\ search.range[1] <= first /\ search.readTo <= first
          /\ end <= g.base + g.size /\ end <= MaxAddress
      <4>1. g.base <= first /\ search.range[1] <= first
        BY <1>3, <2>3, <2>6, <2>7
      <4>2. search.readTo <= first
        BY <1>3, <2>3, <2>7, <4>1
      <4>3. end <= g.base + g.size /\ end <= MaxAddress
        BY <1>2, <2>3, <2>5, <2>8
      <4> QED
        BY <4>1, <4>2, <4>3
    <3>3. \A b \in first..(end - 1) : WasMapped(b)
      <4> TAKE b \in first..(end - 1)
      <4>1. b \in g.base..(g.base + g.size - 1)
        BY <2>3, <2>7, <2>8, <3>2
      <4> QED
        BY <2>3, <4>1
    <3>4. \A i \in DOMAIN Tail(search.left) : end <= Tail(search.left)[i].base
      <4> TAKE i \in DOMAIN Tail(search.left)
      <4>1. Tail(search.left)[i].base \in Nat /\ g.base + g.size <= Tail(search.left)[i].base
        BY <1>4, <2>2, <2>4
      <4> QED
        BY <2>3, <2>8, <3>2, <4>1
    <3> QED
      BY <2>8, <3>1, <3>2, <3>3, <3>4
  <2>15. FoundOK'
    BY <1>1, <1>2, <2>10, StillTrue
  <2>16. NoneMissed'
    <3> SUFFICES ASSUME ~Shrunk, search.options.chunkBytes >= PointerWidth,
                        0 < search.options.maxResults, NEW a, Wanted(a)
                 PROVE  IsFound(a)' \/ PastBudget(a)' \/ IsLeft(a)' \/ IsNext(a)'
      BY <1>6, <1>7, <2>10 DEF NoneMissed
    <3>1. IsFound(a) \/ PastBudget(a) \/ IsLeft(a)
      BY <1>2, <1>5 DEF NoneMissed
    <3>2. IsFound(a) \/ PastBudget(a) => IsFound(a)' \/ PastBudget(a)'
      BY <2>10 DEF IsFound, PastBudget
    <3>3. ASSUME NEW i \in DOMAIN search.left, search.left[i].base <= a,
                 a + PointerWidth <= search.left[i].base + search.left[i].size
          PROVE  IsLeft(a)' \/ IsNext(a)'
      <4>1. CASE i = 1
        <5>1. ~skips /\ first <= a /\ a + PointerWidth <= end
          BY <2>2, <2>9, <3>3, <4>1
        <5> HIDE DEF skips
        <5> QED
          BY <2>10, <5>1 DEF IsNext
      <4>2. CASE i # 1
        <5>1. i - 1 \in DOMAIN search'.left /\ search'.left[i - 1] = search.left[i]
          BY <2>2, <2>10, <4>2
        <5>2. Scans'
          <6> HIDE DEF skips
          <6> QED
            BY <2>10 DEF Scans
        <5> QED
          BY <3>3, <5>1, <5>2 DEF IsLeft
      <4> QED
        BY <4>1, <4>2
    <3> QED
      BY <3>1, <3>2, <3>3 DEF IsLeft
  <2> QED
    BY <2>11, <2>12, <2>13, <2>14, <2>15, <2>16
<1> QED
  BY <1>8, <1>9

\* The first `max' of a sequence.
LEMMA CutProperties ==
  ASSUME NEW s \in Seq(Int), NEW max \in Nat, 0 < max
  PROVE  LET cut == IF Len(s) >= max THEN SubSeq(s, 1, max) ELSE s
         IN  /\ cut \in Seq(Int) /\ Len(cut) <= Len(s) /\ Len(cut) <= max
             /\ \A i \in 1..Len(cut) : cut[i] = s[i]
             /\ Len(s) >= max => Len(cut) = max
             /\ Len(s) < max => cut = s
<1> DEFINE cut == IF Len(s) >= max THEN SubSeq(s, 1, max) ELSE s
<1>1. Len(s) \in Nat
  OBVIOUS
<1>2. CASE Len(s) >= max
  <2>1. cut = SubSeq(s, 1, max)
    BY <1>2
  <2>2. /\ SubSeq(s, 1, max) \in Seq(Int) /\ Len(SubSeq(s, 1, max)) = max
        /\ \A i \in 1..max : SubSeq(s, 1, max)[i] = s[i]
    <3>1. 1 \in 1..Len(s) + 1 /\ max \in (1 - 1)..Len(s)
      BY <1>1, <1>2
    <3> QED
      BY <1>1, <1>2, <3>1, SubSeqProperties
  <2> HIDE DEF cut
  <2> QED
    BY <1>1, <1>2, <2>1, <2>2 DEF cut
<1>3. CASE Len(s) < max
  BY <1>1, <1>3
<1> QED
  BY <1>1, <1>2, <1>3

\* What a read brings besides the results so far: true pointers, beyond them,
\* and all that are there unless the target unmapped some of the bytes.
LEMMA ReadFinds ==
  ASSUME FindInv, call.kind = "search", call.at = "chunk", ~EndsRegion
  PROVE  LET size  == Request(search)
             found == search.results \o PointersIn(PerformRead(search.cursor, size), search.cursor)
         IN  /\ size \in Nat /\ size % PointerWidth = 0 /\ PointerWidth <= size
             /\ search.cursor + size <= search.scanEnd
             /\ search.scanned + size <= search.options.maxScannedBytes
             /\ found \in Seq(Int) /\ Len(search.results) <= Len(found)
             /\ \A i \in DOMAIN search.results : found[i] = search.results[i]
             /\ \A i \in DOMAIN found :
                  /\ found[i] % PointerWidth = 0 /\ search.range[1] <= found[i]
                  /\ found[i] + PointerWidth <= search.cursor + size
                  /\ Searchable(found[i]) /\ HeldOnce(found[i])
             /\ \A i, j \in DOMAIN found : i < j => found[i] < found[j]
             /\ ~Shrunk =>
                  \A a : Wanted(a) /\ search.cursor <= a /\ a + PointerWidth <= search.cursor + size
                         => \E i \in DOMAIN found : found[i] = a
<1> DEFINE size == Request(search)
           got == PerformRead(search.cursor, size)
           new == PointersIn(got, search.cursor)
           old == search.results
           found == old \o new
<1>1. /\ MemoryTypeOK /\ SearchTypeOK /\ BudgetOK /\ LeftOK /\ ChunkOK /\ FoundOK
      /\ \A b \in Addresses : memory[b] \in had[b]
  BY DEF FindInv, PageInv
<1>2. /\ search.cursor \in Int /\ search.scanEnd \in Int /\ search.readTo \in Int
      /\ search.range[1] \in Nat /\ search.range[2] \in Nat /\ old \in Seq(Int)
      /\ PointerWidth \in Nat \ {0} /\ MaxAddress \in Int /\ search.scanEnd <= MaxAddress
      /\ search.range[1] <= search.cursor /\ search.readTo <= search.cursor
      /\ search.cursor % PointerWidth = 0 /\ 0 <= search.cursor
  BY <1>1, MaxAddressType, PointerAssumption DEF SearchTypeOK, ChunkOK, Addresses
<1> HIDE DEF MaxAddress
<1>3. /\ size \in Nat /\ size % PointerWidth = 0 /\ PointerWidth <= size
      /\ search.cursor + size <= search.scanEnd
      /\ search.scanned + size <= search.options.maxScannedBytes
  <2>1. search.options.chunkBytes >= PointerWidth
    BY <1>1 DEF BudgetOK, Scans
  <2>2. /\ size \in Int /\ size % PointerWidth = 0
        /\ search.cursor + size <= search.scanEnd
        /\ search.scanned + size <= search.options.maxScannedBytes
    BY <1>1, <2>1, RequestProperties
  <2>3. ~(size < PointerWidth)
    BY DEF EndsRegion
  <2> HIDE DEF size
  <2> QED
    BY <1>2, <2>2, <2>3
<1> HIDE DEF size
<1>0. /\ search.cursor \in Nat /\ size \in Nat /\ search.cursor + size \in Nat
      /\ MaxAddress \in Int /\ search.cursor + size <= MaxAddress
      /\ PointerWidth \in Nat /\ 0 < PointerWidth
  <2>1. search.cursor \in Nat /\ size \in Nat
    BY <1>2, <1>3
  <2> DEFINE end == search.cursor + size
  <2>2. end \in Nat /\ end <= search.scanEnd
    BY <1>3, <2>1
  <2> HIDE DEF end
  <2>3. end <= MaxAddress
    BY <1>2, <2>2
  <2> QED
    BY <1>2, <2>1, <2>2, <2>3 DEF end
<1>4. /\ Len(got) \in {0, size}
      /\ \A k \in 1..Len(got) : got[k] = memory[search.cursor + k - 1]
  BY <1>2, <1>3, PerformReadCopies
<1>5. ASSUME Mapped(search.cursor..(search.cursor + size - 1))
      PROVE  Len(got) = size
  <2>1. search.cursor + size - 1 <= MaxAddress
    BY <1>0
  <2>2. got = [k \in 1..size |-> memory[search.cursor + k - 1]]
    BY <1>5, <2>1 DEF PerformRead
  <2> HIDE DEF got
  <2> QED
    BY <1>3, <2>2
<1> HIDE DEF got
<1>6. Len(got) \in Nat /\ Len(got) <= size
  BY <1>3, <1>4
<1>7. /\ new \in Seq(Int)
      /\ \A i \in DOMAIN new :
           /\ new[i] \in Int /\ new[i] % PointerWidth = 0
           /\ search.cursor <= new[i] /\ new[i] + PointerWidth <= search.cursor + Len(got)
           /\ HasPointer(got, new[i] - search.cursor)
      /\ \A i, j \in DOMAIN new : i < j => new[i] < new[j]
      /\ \A a \in Int :
           /\ a % PointerWidth = 0 /\ search.cursor <= a /\ a + PointerWidth <= search.cursor + Len(got)
           /\ HasPointer(got, a - search.cursor)
           => \E i \in DOMAIN new : new[i] = a
  <2>1. search.cursor \in Int /\ search.cursor % PointerWidth = 0 /\ Len(got) \in Nat
    BY <1>2, <1>6
  <2> HIDE DEF new
  <2> QED
    BY <2>1, PointersInProperties DEF new
<1> HIDE DEF new
\* The byte at b of the chunk, as its place in a word at a.
<1>8. ASSUME NEW a \in Int, search.cursor <= a, a + PointerWidth <= search.cursor + Len(got),
             NEW b \in Word(a)
      PROVE  /\ b \in Addresses /\ b - a \in 0..(PointerWidth - 1)
             /\ got[(a - search.cursor) + (b - a) + 1] = memory[b]
  <2>1. b \in Int /\ a <= b /\ b <= a + PointerWidth - 1
    BY <1>2, <1>8 DEF Word
  <2>2. b \in Addresses /\ b - a \in 0..(PointerWidth - 1)
    BY <1>0, <1>6, <1>8, <2>1 DEF Addresses
  <2> DEFINE k == (a - search.cursor) + (b - a) + 1
  <2>3. k \in 1..Len(got) /\ search.cursor + k - 1 = b
    <3> DEFINE c == search.cursor
               n == Len(got)
    <3>1. /\ c \in Nat /\ n \in Nat /\ PointerWidth \in Nat /\ c <= a /\ a + PointerWidth <= c + n
          /\ k = (a - c) + (b - a) + 1
      BY <1>0, <1>6, <1>8
    <3> HIDE DEF c, n, k
    <3>2. k = b - c + 1 /\ k \in Int
      BY <2>1, <3>1
    <3>3. 1 <= k /\ k <= n /\ c + k - 1 = b
      BY <2>1, <3>1, <3>2
    <3> QED
      BY <3>2, <3>3 DEF c, n
  <2> HIDE DEF k
  <2>4. got[k] = memory[b]
    BY <1>4, <2>3
  <2> QED
    BY <2>2, <2>4 DEF k
<1>9. \A i \in DOMAIN new : Searchable(new[i]) /\ HeldOnce(new[i])
  <2> SUFFICES ASSUME NEW i \in DOMAIN new, NEW b \in Word(new[i])
               PROVE  b \notin Skipped /\ Pointer[b - new[i]] \in had[b]
    BY DEF Searchable, HeldOnce
  <2> DEFINE a == new[i]
  <2>1. /\ a \in Int /\ search.cursor <= a /\ a + PointerWidth <= search.cursor + Len(got)
        /\ HasPointer(got, a - search.cursor)
        /\ b \in Word(a)
    BY <1>7
  <2> HIDE DEF a
  <2>2. /\ b \in Addresses /\ b - a \in 0..(PointerWidth - 1)
        /\ got[(a - search.cursor) + (b - a) + 1] = memory[b]
    BY <1>8, <2>1
  <2>3. Pointer[b - a] = memory[b]
    BY <2>1, <2>2 DEF HasPointer
  <2>4. Pointer[b - a] \in had[b]
    BY <1>1, <2>2, <2>3
  <2>5. b \in search.cursor..(search.scanEnd - 1)
    <3> DEFINE c == search.cursor
               end == search.scanEnd
               n == Len(got)
    <3>1. /\ c \in Nat /\ end \in Int /\ size \in Nat /\ c + size <= end
          /\ n \in Nat /\ n <= size /\ PointerWidth \in Nat /\ c <= a /\ a + PointerWidth <= c + n
      BY <1>0, <1>2, <1>3, <1>6, <2>1
    <3>2. b \in Int /\ a <= b /\ b <= a + PointerWidth - 1
      BY <2>1, <3>1 DEF Word
    <3> HIDE DEF c, end, n
    <3>3. b \in c..(end - 1)
      BY <2>1, <3>1, <3>2
    <3> QED
      BY <3>3 DEF c, end
  <2>6. b \notin Skipped
    BY <1>1, <2>5 DEF ChunkOK, WasMapped
  <2> QED
    BY <2>4, <2>6 DEF a
<1>10. /\ found \in Seq(Int) /\ Len(found) = Len(old) + Len(new)
       /\ Len(old) \in Nat /\ Len(new) \in Nat
       /\ DOMAIN old = 1..Len(old) /\ DOMAIN new = 1..Len(new)
       /\ \A i \in 1..Len(found) : found[i] = IF i <= Len(old) THEN old[i] ELSE new[i - Len(old)]
  <2>1. new \in Seq(Int) /\ old \in Seq(Int)
    BY <1>2, <1>7
  <2> HIDE DEF old
  <2> QED
    BY <2>1, ConcatProperties, LenProperties
<1>11. /\ DOMAIN found = 1..Len(found)
       /\ \A i \in DOMAIN found :
            \/ i \in DOMAIN old /\ found[i] = old[i]
            \/ Len(old) < i /\ i - Len(old) \in DOMAIN new /\ found[i] = new[i - Len(old)]
       /\ \A i \in DOMAIN old : i \in DOMAIN found /\ found[i] = old[i]
       /\ \A i \in DOMAIN new : i + Len(old) \in DOMAIN found /\ found[i + Len(old)] = new[i]
  <2>1. DOMAIN found = 1..Len(found)
    BY <1>10
  <2> HIDE DEF found, old
  <2>2. \A i \in DOMAIN new : i + Len(old) \in DOMAIN found /\ found[i + Len(old)] = new[i]
    <3> TAKE i \in DOMAIN new
    <3>1. i + Len(old) \in 1..Len(found) /\ ~(i + Len(old) <= Len(old)) /\ (i + Len(old)) - Len(old) = i
      BY <1>10
    <3> QED
      BY <1>10, <2>1, <3>1
  <2> QED
    BY <1>10, <2>1, <2>2
<1> HIDE DEF found
<1>12. \A i \in DOMAIN old :
         /\ old[i] \in Int /\ old[i] % PointerWidth = 0 /\ search.range[1] <= old[i]
         /\ old[i] + PointerWidth <= search.readTo
         /\ Searchable(old[i]) /\ HeldOnce(old[i])
  BY <1>1, <1>2 DEF FoundOK, PointersAreTrue
<1>13. \A i, j \in DOMAIN old : i < j => old[i] < old[j]
  BY <1>1 DEF FoundOK, PointersAreTrue
<1> HIDE DEF old
<1>14. \A i \in DOMAIN found :
         /\ found[i] % PointerWidth = 0 /\ search.range[1] <= found[i]
         /\ found[i] + PointerWidth <= search.cursor + size
         /\ Searchable(found[i]) /\ HeldOnce(found[i])
  <2> TAKE i \in DOMAIN found
  <2>1. CASE i \in DOMAIN old /\ found[i] = old[i]
    <3> DEFINE a == old[i]
    <3>1. /\ a \in Int /\ a % PointerWidth = 0 /\ search.range[1] <= a
          /\ a + PointerWidth <= search.readTo /\ found[i] = a
          /\ Searchable(a) /\ HeldOnce(a)
      BY <1>12, <2>1
    <3> HIDE DEF a
    <3>2. search.readTo \in Int /\ search.readTo <= search.cursor
      BY <1>2
    <3>3. a + PointerWidth <= search.cursor + size
      BY <1>0, <3>1, <3>2
    <3> QED
      BY <3>1, <3>3
  <2>2. CASE Len(old) < i /\ i - Len(old) \in DOMAIN new /\ found[i] = new[i - Len(old)]
    <3> DEFINE a == new[i - Len(old)]
    <3>1. /\ a \in Int /\ a % PointerWidth = 0 /\ search.cursor <= a
          /\ a + PointerWidth <= search.cursor + Len(got) /\ found[i] = a
          /\ Searchable(a) /\ HeldOnce(a)
      BY <1>7, <1>9, <2>2
    <3> HIDE DEF a
    <3> QED
      BY <1>2, <1>3, <1>6, <3>1
  <2> QED
    BY <1>11, <2>1, <2>2
<1>15. \A i, j \in DOMAIN found : i < j => found[i] < found[j]
  <2> SUFFICES ASSUME NEW i \in DOMAIN found, NEW j \in DOMAIN found, i < j
               PROVE  found[i] < found[j]
    OBVIOUS
  <2>0. i \in Int /\ j \in Int
    BY <1>10, <1>11
  <2>1. CASE j \in DOMAIN old /\ found[j] = old[j]
    <3>1. i \in DOMAIN old /\ found[i] = old[i]
      BY <1>10, <1>11, <2>0, <2>1
    <3> QED
      BY <1>13, <2>1, <3>1
  <2>2. CASE Len(old) < j /\ j - Len(old) \in DOMAIN new /\ found[j] = new[j - Len(old)]
    <3>1. CASE i \in DOMAIN old /\ found[i] = old[i]
      <4> DEFINE a == old[i]
                 b == new[j - Len(old)]
      <4>1. /\ a \in Int /\ a + PointerWidth <= search.readTo /\ found[i] = a
            /\ b \in Int /\ search.cursor <= b /\ found[j] = b
        BY <1>7, <1>12, <2>2, <3>1
      <4> HIDE DEF a, b
      <4> QED
        BY <1>2, <4>1
    <3>2. CASE Len(old) < i /\ i - Len(old) \in DOMAIN new /\ found[i] = new[i - Len(old)]
      <4>1. i - Len(old) < j - Len(old)
        BY <1>10, <2>0
      <4> QED
        BY <1>7, <2>2, <3>2, <4>1
    <3> QED
      BY <1>11, <3>1, <3>2
  <2> QED
    BY <1>11, <2>1, <2>2
<1>16. ASSUME ~Shrunk, NEW a, Wanted(a), search.cursor <= a, a + PointerWidth <= search.cursor + size
       PROVE  \E i \in DOMAIN found : found[i] = a
  <2>1. a \in Int /\ a % PointerWidth = 0 /\ \A b \in Word(a) : had[b] = {Pointer[b - a]}
    BY <1>16 DEF Wanted, Held, Addresses
  <2>2. Mapped(search.cursor..(search.cursor + size - 1))
    <3> SUFFICES ASSUME NEW b \in search.cursor..(search.cursor + size - 1)
                 PROVE  memory[b] # Unreadable
      BY DEF Mapped
    <3>1. b \in search.cursor..(search.scanEnd - 1)
      <4> DEFINE c == search.cursor
                 end == search.scanEnd
      <4>1. /\ c \in Nat /\ end \in Int /\ size \in Nat /\ c + size <= end
            /\ b \in c..(c + size - 1)
        BY <1>0, <1>2, <1>3
      <4> HIDE DEF c, end
      <4>2. b \in c..(end - 1)
        BY <4>1
      <4> QED
        BY <4>2 DEF c, end
    <3>2. b \in Addresses /\ had[b] # {Unreadable}
      BY <1>1, <3>1 DEF ChunkOK, WasMapped
    <3>3. Unreadable \notin had[b]
      BY <1>16, <3>2 DEF Shrunk
    <3> QED
      BY <1>1, <3>2, <3>3
  <2>3. Len(got) = size
    BY <1>5, <2>2
  <2>4. HasPointer(got, a - search.cursor)
    <3> SUFFICES \A j \in 0..(PointerWidth - 1) : got[(a - search.cursor) + j + 1] = Pointer[j]
      BY DEF HasPointer
    <3> TAKE j \in 0..(PointerWidth - 1)
    <3> DEFINE b == a + j
    <3>1. b \in Word(a) /\ b - a = j
      BY <1>2, <2>1 DEF Word
    <3> HIDE DEF b
    <3>2. /\ b \in Addresses
          /\ got[(a - search.cursor) + (b - a) + 1] = memory[b]
      BY <1>8, <1>16, <2>1, <2>3, <3>1
    <3>3. memory[b] = Pointer[j]
      BY <1>1, <2>1, <3>1, <3>2
    <3> QED
      BY <3>1, <3>2, <3>3
  <2>5. PICK i \in DOMAIN new : new[i] = a
    BY <1>7, <1>16, <2>1, <2>3, <2>4
  <2> QED
    BY <1>11, <2>5
<1>17. Len(old) <= Len(found)
  BY <1>10
<1> QED
  BY <1>3, <1>10, <1>11, <1>14, <1>15, <1>16, <1>17 DEF size, got, new, old, found

\* A read moves on over what it brought, or ends the search at its last result.
LEMMA FindReads ==
  ASSUME FindInv, ReadChunk
  PROVE  SearchTypeOK' /\ BudgetOK' /\ LeftOK' /\ ChunkOK' /\ FoundOK' /\ NoneMissed'
<1> DEFINE size == Request(search)
           found == search.results \o PointersIn(PerformRead(search.cursor, size), search.cursor)
           max == search.options.maxResults
           full == Len(found) >= max
           cut == IF full THEN SubSeq(found, 1, max) ELSE found
           end == search.cursor + size
<1>1. /\ call.at = "chunk" /\ call.kind = "search" /\ ~EndsRegion
      /\ memory' = memory /\ had' = had
  BY DEF ReadChunk, FindInv, PageInv
<1>2. /\ MemoryTypeOK /\ SearchTypeOK /\ BudgetOK /\ LeftOK /\ ChunkOK /\ FoundOK /\ NoneMissed
      /\ MaxAddress \in Int /\ PointerWidth \in Nat /\ 0 < PointerWidth
  BY <1>1, MaxAddressType, PointerAssumption DEF FindInv, PageInv
<1>3. /\ search' = [search EXCEPT !.scanned = @ + size, !.cursor = IF full THEN @ ELSE end,
                                  !.readTo = end, !.results = cut]
      /\ call' = [call EXCEPT !.at = IF full THEN "done" ELSE "chunk"]
  <2>1. search.cursor + size = end
    OBVIOUS
  <2> HIDE DEF size, full
  <2> QED
    BY <2>1 DEF ReadChunk, Goto, size, full
<1>4. /\ size \in Nat /\ size % PointerWidth = 0 /\ PointerWidth <= size
      /\ search.cursor + size <= search.scanEnd
      /\ search.scanned + size <= search.options.maxScannedBytes
      /\ found \in Seq(Int) /\ Len(search.results) <= Len(found)
      /\ \A i \in DOMAIN search.results : found[i] = search.results[i]
      /\ \A i \in DOMAIN found :
           /\ found[i] % PointerWidth = 0 /\ search.range[1] <= found[i]
           /\ found[i] + PointerWidth <= search.cursor + size
           /\ Searchable(found[i]) /\ HeldOnce(found[i])
      /\ \A i, j \in DOMAIN found : i < j => found[i] < found[j]
      /\ ~Shrunk =>
           \A a : Wanted(a) /\ search.cursor <= a /\ a + PointerWidth <= search.cursor + size
                  => \E i \in DOMAIN found : found[i] = a
  BY <1>1, ReadFinds
<1> HIDE DEF MaxAddress, size, found
<1>5. /\ search.cursor \in Int /\ search.scanEnd \in Int /\ search.scanned \in Nat
      /\ search.options.maxScannedBytes \in Nat /\ search.results \in Seq(Int)
      /\ search.range[2] \in Int /\ search.readTo \in Int
      /\ search.cursor % PointerWidth = 0 /\ search.range[1] \in Int
  BY <1>2, <1>1 DEF SearchTypeOK, ChunkOK, Addresses
<1>6. max \in Nat /\ 0 < max /\ Len(search.results) < max
  <2>1. max \in Nat /\ Len(search.results) \in Nat
    BY <1>2, <1>5 DEF SearchTypeOK
  <2> QED
    BY <1>1, <1>2, <2>1 DEF BudgetOK, Scans
<1> HIDE DEF max
<1>7. end \in Int /\ end <= search.scanEnd /\ end = search.cursor + size
      /\ search.cursor + PointerWidth <= end
  <2> DEFINE c == search.cursor
  <2>1. /\ c \in Int /\ size \in Nat /\ PointerWidth \in Nat /\ PointerWidth <= size
        /\ c + size <= search.scanEnd
    BY <1>2, <1>4, <1>5
  <2>2. end = c + size
    OBVIOUS
  <2> HIDE DEF c, end
  <2>3. end \in Int /\ end <= search.scanEnd /\ c + PointerWidth <= end
    BY <2>1, <2>2
  <2> QED
    BY <2>2, <2>3 DEF c
<1>8. end % PointerWidth = 0
  <2>1. PointerWidth \in Nat \ {0} /\ size \in Int
    BY <1>2, <1>4
  <2> QED
    BY <1>4, <1>5, <2>1, Multiples
<1> HIDE DEF end
<1>9. /\ cut \in Seq(Int) /\ Len(cut) <= Len(found) /\ Len(cut) <= max
      /\ \A i \in 1..Len(cut) : cut[i] = found[i]
      /\ full => Len(cut) = max
      /\ ~full => cut = found /\ Len(found) < max
      /\ Len(found) \in Nat /\ Len(cut) \in Nat /\ DOMAIN found = 1..Len(found)
      /\ DOMAIN cut = 1..Len(cut)
  <2>1. /\ cut \in Seq(Int) /\ Len(cut) <= Len(found) /\ Len(cut) <= max
        /\ \A i \in 1..Len(cut) : cut[i] = found[i]
        /\ Len(found) >= max => Len(cut) = max
        /\ Len(found) < max => cut = found
    BY <1>4, <1>6, CutProperties
  <2> HIDE DEF cut
  <2>2. /\ Len(found) \in Nat /\ Len(cut) \in Nat /\ DOMAIN found = 1..Len(found)
        /\ DOMAIN cut = 1..Len(cut)
    BY <1>4, <2>1, LenProperties
  <2>3. full => Len(cut) = max
    BY <2>1
  <2>4. ASSUME ~full PROVE cut = found /\ Len(found) < max
    <3> DEFINE n == Len(found)
    <3>1. n \in Nat /\ max \in Nat /\ ~(n >= max)
      BY <1>6, <2>2, <2>4
    <3> HIDE DEF n
    <3>2. n < max
      BY <3>1
    <3> QED
      BY <2>1, <3>2 DEF n
  <2> QED
    BY <2>1, <2>2, <2>3, <2>4
<1> HIDE DEF cut, full
<1>10. /\ search'.range = search.range /\ search'.options = search.options
       /\ search'.left = search.left /\ search'.scanEnd = search.scanEnd
       /\ search'.scanned = search.scanned + size /\ search'.readTo = end
       /\ search'.results = cut /\ call'.kind = "search"
       /\ full => call'.at = "done"
       /\ ~full => call'.at = "chunk" /\ search'.cursor = end
  BY <1>1, <1>2, <1>3 DEF SearchTypeOK, MemoryTypeOK
<1>11. SearchTypeOK'
  <2> DEFINE scanned == search.scanned + size
             cursor == IF full THEN search.cursor ELSE end
  <2>1. scanned \in Nat /\ cursor \in Int
    BY <1>4, <1>5, <1>7
  <2>2. search' = [search EXCEPT !.scanned = scanned, !.cursor = cursor, !.readTo = end, !.results = cut]
    BY <1>2, <1>3 DEF SearchTypeOK
  <2> HIDE DEF scanned, cursor
  <2> QED
    BY <1>2, <1>7, <1>9, <2>1, <2>2 DEF SearchTypeOK
<1>12. BudgetOK'
  <2>1. search'.scanned <= search'.options.maxScannedBytes
    BY <1>4, <1>10
  <2>2. Len(search'.results) <= search'.options.maxResults
    BY <1>9, <1>10 DEF max
  <2>3. Scans' => /\ Len(search'.results) < search'.options.maxResults
                  /\ search'.options.chunkBytes >= PointerWidth
    <3>1. Scans' => ~full
      BY <1>10 DEF Scans
    <3> QED
      BY <1>1, <1>2, <1>9, <1>10, <3>1 DEF max, BudgetOK, Scans
  <2> QED
    BY <2>1, <2>2, <2>3 DEF BudgetOK
<1>13. \A i \in DOMAIN search.left :
         /\ search.left[i].base \in Int /\ search.scanEnd <= search.left[i].base
         /\ end <= search.left[i].base
  <2> TAKE i \in DOMAIN search.left
  <2>1. search.left[i].base \in Int
    <3>1. search.left[i] \in RegionRecords
      BY <1>2 DEF SearchTypeOK
    <3> QED
      BY <1>2, <3>1 DEF RegionRecords, Addresses
  <2>2. search.scanEnd <= search.left[i].base
    BY <1>1, <1>2 DEF ChunkOK
  <2> QED
    BY <1>5, <1>7, <2>1, <2>2
<1>14. LeftOK'
  BY <1>1, <1>2, <1>10, <1>13 DEF LeftOK, WasMapped
<1>15. ChunkOK'
  <2> SUFFICES ASSUME ~full
               PROVE  /\ end % PointerWidth = 0
                      /\ search.range[1] <= end
                      /\ search.scanEnd <= search.range[2] /\ search.scanEnd <= MaxAddress
                      /\ \A b \in end..(search.scanEnd - 1) : WasMapped(b)
                      /\ \A i \in DOMAIN search.left : search.scanEnd <= search.left[i].base
    <3>1. \A b : WasMapped(b)' <=> WasMapped(b)
      BY <1>1 DEF WasMapped
    <3> QED
      BY <1>1, <1>5, <1>7, <1>10, <3>1 DEF ChunkOK
  <2>1. /\ search.range[1] <= search.cursor
        /\ search.scanEnd <= search.range[2] /\ search.scanEnd <= MaxAddress
        /\ \A b \in search.cursor..(search.scanEnd - 1) : WasMapped(b)
    BY <1>1, <1>2 DEF ChunkOK
  <2>2. search.range[1] <= end
    BY <1>2, <1>5, <1>7, <2>1
  <2>3. \A b \in end..(search.scanEnd - 1) : WasMapped(b)
    <3> TAKE b \in end..(search.scanEnd - 1)
    <3>1. b \in search.cursor..(search.scanEnd - 1)
      BY <1>2, <1>5, <1>7
    <3> QED
      BY <2>1, <3>1
  <2> QED
    BY <1>8, <1>13, <2>1, <2>2, <2>3
<1>16. \A i \in DOMAIN cut : i \in DOMAIN found /\ cut[i] = found[i]
  BY <1>9
<1>17. FoundOK'
  <2>1. \A i \in DOMAIN cut :
          /\ cut[i] % PointerWidth = 0
          /\ search.range[1] <= cut[i] /\ cut[i] + PointerWidth <= end
          /\ Searchable(cut[i]) /\ HeldOnce(cut[i])
    BY <1>4, <1>7, <1>16
  <2>2. \A i \in DOMAIN cut : cut[i] + PointerWidth <= search.range[2]
    <3> TAKE i \in DOMAIN cut
    <3>1. cut[i] \in Int /\ cut[i] + PointerWidth <= end
      BY <1>9, <2>1
    <3>2. search.scanEnd <= search.range[2]
      BY <1>1, <1>2 DEF ChunkOK
    <3> QED
      BY <1>2, <1>5, <1>7, <3>1, <3>2
  <2>3. \A i, j \in DOMAIN cut : i < j => cut[i] < cut[j]
    BY <1>4, <1>16
  <2>4. \A a : HeldOnce(a)' <=> HeldOnce(a)
    BY <1>1 DEF HeldOnce
  <2>5. PointersAreTrue'
    BY <1>10, <2>1, <2>2, <2>3, <2>4 DEF PointersAreTrue, Searchable, Word
  <2> QED
    BY <1>10, <2>1, <2>5 DEF FoundOK
<1>18. NoneMissed'
  <2> SUFFICES ASSUME ~Shrunk, search.options.chunkBytes >= PointerWidth, NEW a, Wanted(a)
               PROVE  IsFound(a)' \/ PastResults(a)' \/ PastBudget(a)' \/ IsLeft(a)' \/ IsNext(a)'
    BY <1>1, <1>10 DEF NoneMissed, Shrunk, Wanted, Held, Searchable, Word
  <2>1. a \in Int /\ a % PointerWidth = 0 /\ a + PointerWidth \in Int
    BY <1>2 DEF Wanted, Addresses
  <2>2. IsFound(a) \/ PastResults(a) \/ PastBudget(a) \/ IsLeft(a) \/ IsNext(a)
    BY <1>2, <1>6 DEF NoneMissed, max
  \* A search that ends here has gone as far as its last result.
  <2>3. ASSUME full, NEW x \in Int, x <= a,
               \A i \in DOMAIN found : found[i] <= x
        PROVE  PastResults(a)'
    <3>1. max \in DOMAIN cut /\ max \in DOMAIN found /\ cut[max] = found[max]
      BY <1>6, <1>9, <1>16, <2>3
    <3>2. cut[max] \in Int /\ cut[max] <= x
      BY <1>9, <2>3, <3>1
    <3>3. cut[max] <= a
      BY <2>1, <2>3, <3>2
    <3> QED
      BY <1>9, <1>10, <2>3, <3>3 DEF PastResults, max
  <2>4. \A i \in DOMAIN found : found[i] <= end
    <3> TAKE i \in DOMAIN found
    <3>1. found[i] \in Int /\ found[i] + PointerWidth <= end
      BY <1>4, <1>7
    <3> QED
      BY <1>2, <1>7, <3>1
  \* One that the read brought is a result, unless there were too many.
  <2>5. ASSUME NEW m \in DOMAIN found, found[m] = a
        PROVE  IsFound(a)' \/ PastResults(a)'
    <3>1. CASE m <= Len(cut)
      <4>1. m \in DOMAIN cut /\ cut[m] = a
        BY <1>9, <1>16, <2>5, <3>1
      <4> QED
        BY <1>10, <4>1 DEF IsFound
    <3>2. CASE ~(m <= Len(cut))
      <4>1. full
        BY <1>9, <3>2
      <4>2. /\ max \in DOMAIN cut /\ max \in DOMAIN found /\ cut[max] = found[max]
            /\ max < m
        BY <1>6, <1>9, <1>16, <3>2, <4>1
      <4>3. found[max] < a
        BY <1>4, <2>5, <4>2
      <4>4. cut[max] \in Int /\ cut[max] <= a
        BY <1>9, <2>1, <4>2, <4>3
      <4> QED
        BY <1>9, <1>10, <4>1, <4>4 DEF PastResults, max
    <3> QED
      BY <3>1, <3>2
  <2>6. CASE IsFound(a)
    <3>1. PICK m \in DOMAIN search.results : search.results[m] = a
      BY <2>6 DEF IsFound
    <3>2. m \in DOMAIN found /\ found[m] = a
      <4>1. DOMAIN search.results = 1..Len(search.results) /\ Len(search.results) \in Nat
        BY <1>5
      <4> QED
        BY <1>4, <1>9, <3>1, <4>1
    <3> QED
      BY <2>5, <3>2
  <2>7. ~PastResults(a)
    BY <1>1 DEF PastResults
  <2>8. ~PastBudget(a)
    <3>1. ~(search.options.maxScannedBytes - search.scanned < PointerWidth)
      BY <1>2, <1>4, <1>5
    <3> QED
      BY <3>1 DEF PastBudget
  <2>9. CASE IsLeft(a)
    <3>1. PICK i \in DOMAIN search.left :
            /\ search.left[i].base <= a
            /\ a + PointerWidth <= search.left[i].base + search.left[i].size
      BY <2>9 DEF IsLeft
    <3>2. end <= a
      BY <1>7, <1>13, <2>1, <3>1
    <3>3. CASE full
      BY <1>7, <2>3, <2>4, <3>2, <3>3
    <3>4. CASE ~full
      BY <1>10, <3>1, <3>4 DEF IsLeft, Scans
    <3> QED
      BY <3>3, <3>4
  <2>10. CASE IsNext(a)
    <3>1. search.cursor <= a /\ a + PointerWidth <= search.scanEnd
      BY <2>10 DEF IsNext
    <3>2. CASE a + PointerWidth <= end
      <4>1. \E m \in DOMAIN found : found[m] = a
        BY <1>4, <1>7, <3>1, <3>2
      <4> QED
        BY <2>5, <4>1
    <3>3. CASE ~(a + PointerWidth <= end)
      <4>1. ~(a < end)
        <5>1. PointerWidth \in Nat \ {0}
          BY <1>2
        <5> QED
          BY <1>7, <1>8, <2>1, <3>3, <5>1, Multiples
      <4>2. end <= a
        BY <1>7, <2>1, <4>1
      <4>3. CASE full
        BY <1>7, <2>3, <2>4, <4>2, <4>3
      <4>4. CASE ~full
        BY <1>10, <3>1, <4>2, <4>4 DEF IsNext
      <4> QED
        BY <4>3, <4>4
    <3> QED
      BY <3>2, <3>3
  <2> QED
    BY <2>2, <2>6, <2>7, <2>8, <2>9, <2>10
<1> QED
  BY <1>11, <1>12, <1>14, <1>15, <1>17, <1>18

LEMMA FindInvStep == FindInv /\ [Next]_vars => FindInv'
<1> SUFFICES ASSUME FindInv, [Next]_vars PROVE FindInv'
  OBVIOUS
<1>1. PageInv'
  BY PageInvStep DEF FindInv
<1> SUFFICES ASSUME call'.kind = "search"
             PROVE  SearchTypeOK' /\ BudgetOK' /\ LeftOK' /\ ChunkOK' /\ FoundOK' /\ NoneMissed'
  BY <1>1 DEF FindInv
<1>2. CASE \E range \in Ranges, options \in Options : FindPointers(range, options)
  BY <1>2, FindBegins
<1>3. CASE NextRegion
  BY <1>3, FindNextRegion
<1>4. CASE LeaveRegion
  BY <1>4, FindLeaves
<1>5. CASE ReadChunk
  BY <1>5, FindReads
<1>6. CASE \E p \in Pages : ReadMemoryPage(p)
  BY <1>6 DEF ReadMemoryPage, Begins
<1>7. CASE PageChunk \/ PageByte
  <2>1. call.kind = "page"
    BY <1>7 DEF PageChunk, PageByte, FindInv, PageInv
  <2>2. call' = call \/ \E step \in {"read", "bytes", "done"} : Goto(step)
    BY <1>7 DEF PageChunk, PageByte
  <2>3. call'.kind = "page"
    BY <2>1, <2>2 DEF Goto, FindInv, PageInv, MemoryTypeOK
  <2> QED
    BY <2>3
<1>8. CASE Return
  BY <1>8 DEF Return
<1>9. CASE TargetWrites \/ TargetUnmaps
  <2>1. call.kind = "search"
    BY <1>9 DEF TargetWrites, TargetUnmaps, Changes
  <2> QED
    BY <1>9, <2>1, FindChanges DEF TargetWrites, TargetUnmaps
<1>10. CASE UNCHANGED vars
  <2>1. /\ call' = call /\ search' = search /\ had' = had
    BY <1>10 DEF vars
  <2>2. SearchTypeOK /\ BudgetOK /\ LeftOK /\ ChunkOK /\ FoundOK /\ NoneMissed
    BY <2>1 DEF FindInv
  <2>3. SearchTypeOK' /\ BudgetOK' /\ LeftOK' /\ ChunkOK'
    BY <2>1, <2>2 DEF SearchTypeOK, BudgetOK, LeftOK, ChunkOK, Scans, WasMapped
  <2>4. FoundOK'
    BY <2>1, <2>2 DEF FoundOK, PointersAreTrue, HeldOnce
  <2>5. NoneMissed'
    BY <2>1, <2>2 DEF NoneMissed, Shrunk, Wanted, Held, IsFound, PastResults, PastBudget,
                      IsLeft, IsNext, Scans
  <2> QED
    BY <2>3, <2>4, <2>5
<1> QED
  BY <1>2, <1>3, <1>4, <1>5, <1>6, <1>7, <1>8, <1>9, <1>10 DEF Next

\* A search never asks for more bytes, nor returns more results, than it may.
THEOREM SearchKeepsItsLimits == Spec => []LimitsAreKept
<1>1. FindInv => LimitsAreKept
  BY DEF FindInv, BudgetOK, LimitsAreKept
<1> QED
  BY FindInvInit, FindInvStep, <1>1, PTL DEF Spec

\* What a search finds are aligned addresses of its range, upwards, that held
\* the pointer while it ran, whatever the target does between its reads.
THEOREM FoundPointersAreTrue == Spec => []PointersAreTrue
<1>1. FindInv => PointersAreTrue
  BY DEF FindInv, FoundOK, PointersAreTrue
<1> QED
  BY FindInvInit, FindInvStep, <1>1, PTL DEF Spec

\* A search misses no aligned pointer that was there all the time, as far as
\* its limits let it go, unless the target unmaps memory meanwhile.
THEOREM SearchMissesNothing == Spec => []NoPointerIsMissed
<1>1. FindInv => NoPointerIsMissed
  <2> SUFFICES ASSUME FindInv, Searched, search.options.chunkBytes >= PointerWidth, ~Shrunk,
                      NEW a \in Addresses, Wanted(a), a < Reached
               PROVE  a \in Range(search.results)
    BY DEF NoPointerIsMissed, Wanted
  <2>1. /\ call.kind = "search" /\ call.at = "done" /\ SearchTypeOK /\ BudgetOK /\ NoneMissed
        /\ MaxAddress \in Int
    BY MaxAddressType DEF FindInv, Searched
  <2> HIDE DEF MaxAddress
  <2>2. /\ a \in Nat /\ search.options.maxResults \in Nat /\ search.readTo \in Int
        /\ search.results \in Seq(Int) /\ Len(search.results) \in Nat
    BY <2>1 DEF SearchTypeOK, Addresses
  <2>3. 0 < search.options.maxResults
    BY <2>2 DEF Reached
  <2>4. IsFound(a) \/ PastResults(a) \/ PastBudget(a)
    BY <2>1, <2>3 DEF NoneMissed, IsLeft, IsNext, Scans
  <2>5. ~PastResults(a)
    <3> SUFFICES ASSUME Len(search.results) = search.options.maxResults,
                        search.results[Len(search.results)] <= a
                 PROVE  FALSE
      BY DEF PastResults
    <3>1. Reached = search.results[Len(search.results)]
      BY <2>3 DEF Reached, Last
    <3>2. search.results[Len(search.results)] \in Int
      BY <2>2, <2>3
    <3> QED
      BY <2>2, <3>1, <3>2
  <2>6. ~PastBudget(a)
    <3> SUFFICES ASSUME Len(search.results) < search.options.maxResults,
                        search.options.maxScannedBytes - search.scanned < PointerWidth,
                        search.readTo <= a
                 PROVE  FALSE
      BY DEF PastBudget
    <3>1. Reached = search.readTo
      BY <2>2, <2>3 DEF Reached
    <3> QED
      BY <2>2, <3>1
  <2> QED
    BY <2>4, <2>5, <2>6 DEF IsFound, Range
<1> QED
  BY FindInvInit, FindInvStep, <1>1, PTL DEF Spec
=============================================================================
