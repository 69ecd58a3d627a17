---------------------------- MODULE MemoryReads -----------------------------
(***************************************************************************)
(* Long reads of a target that goes on running: the pointer search         *)
(* (PointerSearch.cpp, through JJFindPointers) and the memory page         *)
(* (MemoryPage.cpp).                                                       *)
(*                                                                         *)
(* Both make many calls of the reader and run on the main thread, one at a *)
(* time; between two calls of the reader the target writes its memory or   *)
(* unmaps it.  Addresses have AddressBits bits and pointers PointerWidth   *)
(* bytes, in place of 64 and 8.  vm_read_overwrite copies all it is asked  *)
(* for, or nothing when a byte of it is unmapped; one copy is one step.    *)
(*                                                                         *)
(* `had' is history: what each address has held since the call began.      *)
(***************************************************************************)
EXTENDS SortedSets, SequencesExt

CONSTANTS
  AddressBits,
  PointerWidth,
  Pointer,      \* the bytes of the pointer looked for
  Layouts,      \* the target's memory at first: its mapped addresses' bytes
  ReadOnly,     \* the addresses without VM_PROT_WRITE
  OwnStack,     \* the addresses of the regions with the scanning thread's
                \* stack, {} unless the target is the engine's own process
  Ranges,       \* <<rangeStart, rangeEnd>> of searches
  Options,      \* [maxResults, maxScannedBytes, chunkBytes] of searches
  Pages,        \* [address, length, chunkSize] of pages
  MaxChanges    \* bound: changes of the target's memory, all of them during
                \* one call: a layout stands for what came before

MaxAddress == 2^AddressBits - 1
Addresses == 0..MaxAddress
Unreadable == -1

Byte == Nat \union {Unreadable}

ASSUME AddressAssumption == AddressBits \in Nat
ASSUME PointerAssumption ==
  PointerWidth \in Nat \ {0} /\ Pointer \in [0..(PointerWidth - 1) -> Nat]
ASSUME LayoutsAssumption == Layouts \subseteq [Addresses -> Byte]
ASSUME ProtectionAssumption == ReadOnly \subseteq Addresses /\ OwnStack \subseteq Addresses
ASSUME RangesAssumption == Ranges \subseteq Addresses \X Addresses
ASSUME OptionsAssumption ==
  Options \subseteq [maxResults : Nat, maxScannedBytes : Nat, chunkBytes : Nat]
\* A chunk size of 0 is taken for 1.
ASSUME PagesAssumption ==
  Pages \subseteq [address : Addresses, length : Nat, chunkSize : Nat \ {0}]

VARIABLES
  memory,   \* the byte at each address, or Unreadable
  call,     \* the call under way: "none", "search" or "page", and where it is
  search,   \* of a search: its arguments, position and results; history:
            \* `readTo', the end of its last read
  page,     \* of a page: its arguments, position and bytes
  had,      \* history
  changes   \* changes of the target so far

vars == <<memory, call, search, page, had, changes>>

Mapped(as) == \A a \in as : memory[a] # Unreadable

\* performRead: the bytes copied from address on, all of them or none.
PerformRead(address, length) ==
  IF address + length - 1 <= MaxAddress /\ Mapped(address..(address + length - 1))
  THEN [k \in 1..length |-> memory[address + k - 1]]
  ELSE <<>>

\* Where a search does not look.
Skipped == ReadOnly \union OwnStack

\* The regions of the target, upwards: its runs of mapped addresses that are
\* all searched or all skipped.  Neighbours that are searched count as one
\* region: entries of the memory map meet at pages, never inside a pointer.
OneRegion(as) == Mapped(as) /\ (as \subseteq Skipped \/ as \intersect Skipped = {})
RegionBases ==
  {a \in Addresses : memory[a] # Unreadable /\ (a = 0 \/ ~OneRegion({a - 1, a}))}
RegionSize(a) == Max({n \in 1..(MaxAddress + 1 - a) : OneRegion(a..(a + n - 1))})
Regions ==
  LET bases == Ascending(RegionBases)
  IN  [i \in DOMAIN bases |-> [base |-> bases[i], size |-> RegionSize(bases[i])]]

Init ==
  /\ memory \in Layouts
  /\ call = [kind |-> "none", at |-> "idle"]
  /\ search = <<>>
  /\ page = <<>>
  /\ had = [a \in Addresses |-> {}]
  /\ changes = 0

Begins(kind, at) ==
  /\ call.kind = "none"
  /\ changes = 0
  /\ call' = [kind |-> kind, at |-> at]
  /\ had' = [a \in Addresses |-> {memory[a]}]
  /\ UNCHANGED <<memory, changes>>

Goto(step) == call' = [call EXCEPT !.at = step]

-----------------------------------------------------------------------------
(* The pointer search.                                                     *)

\* The least multiple of PointerWidth from a on, or MaxAddress + 1 when the
\* addition would overflow.
Aligned(a) ==
  IF a > MaxAddress - (PointerWidth - 1) THEN MaxAddress + 1
  ELSE a + (PointerWidth - 1) - ((a + PointerWidth - 1) % PointerWidth)

RegionEndBug(g) == (g.base + g.size) % (MaxAddress + 1)
RegionEnd(g) == IF g.size > MaxAddress - g.base THEN MaxAddress ELSE g.base + g.size

Enumerate(range) ==
  Selected(Regions, {i \in DOMAIN Regions : /\ RegionEnd(Regions[i]) > range[1]
                                            /\ Regions[i].base <= range[2]
                                            /\ Regions[i].base \notin OwnStack
                                            /\ Regions[i].base \notin ReadOnly})

\* JJFindPointers, up to the loop over the regions.
FindPointers(range, options) ==
  /\ Begins("search", IF \/ range[1] >= range[2]
                         \/ options.maxResults = 0
                         \/ options.maxScannedBytes < PointerWidth
                         \/ options.chunkBytes < PointerWidth THEN "done" ELSE "region")
  /\ search' = [range |-> range, options |-> options, left |-> Enumerate(range),
                cursor |-> 0, scanEnd |-> 0, scanned |-> 0, readTo |-> 0, results |-> <<>>]
  /\ UNCHANGED page

\* The next region is skipped, or entered with cursor and scanEnd.
NextRegion ==
  /\ call.at = "region"
  /\ IF search.left = <<>> \/ search.scanned >= search.options.maxScannedBytes
     THEN Goto("done") /\ UNCHANGED search
     ELSE LET g     == Head(search.left)
              first == Aligned(Max({g.base, search.range[1]}))
              rest  == [search EXCEPT !.left = Tail(@)]
          IN  IF g.base >= search.range[2] \/ RegionEnd(g) <= search.range[1] \/ first > MaxAddress
              THEN search' = rest /\ UNCHANGED call
              ELSE /\ search' = [rest EXCEPT !.cursor = first,
                                             !.scanEnd = Min({RegionEnd(g), search.range[2]})]
                   /\ Goto("chunk")
  /\ UNCHANGED <<memory, page, had, changes>>

\* The bytes to ask for: whole pointers, within the region, the chunk and the
\* limit on scanned bytes.
RequestBug(s) ==
  LET chunk == s.options.chunkBytes - (s.options.chunkBytes % PointerWidth)
      least == Min({s.scanEnd - s.cursor, chunk})
  IN  least - (least % PointerWidth)
Request(s) ==
  LET chunk == s.options.chunkBytes - (s.options.chunkBytes % PointerWidth)
      least == Min({s.scanEnd - s.cursor, chunk, s.options.maxScannedBytes - s.scanned})
  IN  least - (least % PointerWidth)

\* The addresses in the bytes read at cursor that hold the pointer.
PointersInBug(bytes, cursor) ==
  Ascending({cursor + k : k \in {k \in 0..(Len(bytes) - PointerWidth) :
     \A j \in 0..(PointerWidth - 1) : bytes[k + j + 1] = Pointer[j]}})
PointersIn(bytes, cursor) ==
  Ascending({cursor + k : k \in {k \in 0..(Len(bytes) - PointerWidth) :
     /\ k % PointerWidth = 0
     /\ \A j \in 0..(PointerWidth - 1) : bytes[k + j + 1] = Pointer[j]}})

EndsRegionBug == search.cursor >= search.scanEnd
EndsRegion ==
  \/ search.cursor >= search.scanEnd
  \/ search.scanned >= search.options.maxScannedBytes
  \/ Request(search) < PointerWidth

LeaveRegion ==
  /\ call.at = "chunk"
  /\ EndsRegion
  /\ Goto("region")
  /\ UNCHANGED <<memory, search, page, had, changes>>

ReadChunk ==
  /\ call.at = "chunk"
  /\ ~EndsRegion
  /\ LET size  == Request(search)
         found == search.results \o PointersIn(PerformRead(search.cursor, size), search.cursor)
         full  == Len(found) >= search.options.maxResults
     IN  /\ search' = [search EXCEPT
              !.scanned = @ + size,
              !.cursor = IF full THEN @ ELSE @ + size,
              !.readTo = search.cursor + size,
              !.results = IF full THEN SubSeq(found, 1, search.options.maxResults) ELSE found]
         /\ Goto(IF full THEN "done" ELSE "chunk")
  /\ UNCHANGED <<memory, page, had, changes>>

-----------------------------------------------------------------------------
(* The memory page.                                                        *)

\* A page that would pass the last address is answered as it is: unreadable.
ReadMemoryPage(p) ==
  /\ Begins("page", IF p.length - 1 > MaxAddress - p.address THEN "done" ELSE "read")
  /\ page' = [address |-> p.address, chunk |-> p.chunkSize, offset |-> 0, index |-> 0,
              requested |-> 0, bytes |-> [k \in 0..(p.length - 1) |-> Unreadable]]
  /\ UNCHANGED search

PageLength == Cardinality(DOMAIN page.bytes)

PageChunk ==
  /\ call.at = "read"
  /\ IF page.offset >= PageLength
     THEN Goto("done") /\ UNCHANGED page
     ELSE LET size == Min({page.chunk, PageLength - page.offset})
              got  == PerformRead(page.address + page.offset, size)
          IN  /\ page' = [page EXCEPT
                   !.bytes = [k \in DOMAIN @ |-> IF k - page.offset \in 0..(Len(got) - 1)
                                                 THEN got[k - page.offset + 1] ELSE @[k]],
                   !.index = Len(got),
                   !.requested = size]
              /\ Goto("bytes")
  /\ UNCHANGED <<memory, search, had, changes>>

\* What the chunk did not bring is read byte by byte.
PageByteBug ==
  /\ call.at = "bytes"
  /\ page' = [page EXCEPT !.offset = @ + page.requested]
  /\ Goto("read")
  /\ UNCHANGED <<memory, search, had, changes>>
PageByte ==
  /\ call.at = "bytes"
  /\ IF page.index < page.requested
     THEN LET k == page.offset + page.index IN
          /\ page' = [page EXCEPT !.bytes[k] = memory[page.address + k], !.index = @ + 1]
          /\ UNCHANGED call
     ELSE /\ page' = [page EXCEPT !.offset = @ + page.requested]
          /\ Goto("read")
  /\ UNCHANGED <<memory, search, had, changes>>

Return ==
  /\ call.at = "done"
  /\ call' = [kind |-> "none", at |-> "idle"]
  /\ search' = <<>>
  /\ page' = <<>>
  /\ had' = [a \in Addresses |-> {}]
  /\ UNCHANGED <<memory, changes>>

-----------------------------------------------------------------------------
(* The target.                                                             *)

Changes(a, v) ==
  /\ call.at \notin {"idle", "done"}
  /\ changes < MaxChanges
  /\ changes' = changes + 1
  /\ memory[a] \notin {v, Unreadable}
  /\ memory' = [memory EXCEPT ![a] = v]
  /\ had' = [had EXCEPT ![a] = @ \union {v}]
  /\ UNCHANGED <<call, search, page>>

TargetWrites == \E a \in Addresses, v \in {0, 1} : Changes(a, v)
TargetUnmaps == \E a \in Addresses : Changes(a, Unreadable)

Reads == NextRegion \/ LeaveRegion \/ ReadChunk \/ PageChunk \/ PageByte \/ Return

Next ==
  \/ \E range \in Ranges, options \in Options : FindPointers(range, options)
  \/ NextRegion
  \/ LeaveRegion
  \/ ReadChunk
  \/ \E p \in Pages : ReadMemoryPage(p)
  \/ PageChunk
  \/ PageByte
  \/ Return
  \/ TargetWrites
  \/ TargetUnmaps

Spec == Init /\ [][Next]_vars

\* Both are loops on the main thread: they run to their end.
FairSpec == Spec /\ WF_vars(Reads)

-----------------------------------------------------------------------------
(* Properties.                                                             *)

Searched == call.kind = "search" /\ call.at = "done"
Word(a) == a..(a + PointerWidth - 1)
Searchable(a) == Word(a) \intersect Skipped = {}

\* The word at a has held the pointer all the time, or once.
Held(a) == \A b \in Word(a) : had[b] = {Pointer[b - a]}
HeldOnce(a) == \A b \in Word(a) : Pointer[b - a] \in had[b]

\* Where the search got to: its last result if it has all it may have, the
\* end of its last read if it has scanned all it may, else the end.  One that
\* may have no results gets nowhere.
Reached ==
  IF search.options.maxResults = 0 THEN 0
  ELSE IF Len(search.results) = search.options.maxResults THEN Last(search.results)
  ELSE IF search.options.maxScannedBytes - search.scanned < PointerWidth THEN search.readTo
  ELSE MaxAddress + 1

Shrunk == \E a \in Addresses : Unreadable \in had[a] /\ had[a] # {Unreadable}

\* A search misses no aligned pointer that was there all the time, however
\* its chunks, its regions and the ends of the range cut the memory, as far as
\* its limits let it go.  Read-only memory and the engine's own stack are not
\* searched.  A target that unmaps memory meanwhile is excepted: the whole
\* chunk around the hole is lost.
NoPointerIsMissed ==
  Searched /\ search.options.chunkBytes >= PointerWidth /\ ~Shrunk =>
    \A a \in Addresses :
      /\ a % PointerWidth = 0
      /\ search.range[1] <= a /\ a + PointerWidth <= search.range[2]
      /\ a < Reached
      /\ Searchable(a)
      /\ Held(a)
      => a \in Range(search.results)

\* What a search finds is an aligned address of the range, in writable memory
\* outside the engine's own stack, that held the pointer while it ran; it is
\* found once, and addresses ascend.
PointersAreTrue ==
  call.kind = "search" =>
    /\ \A i \in DOMAIN search.results :
         LET a == search.results[i] IN
         /\ a % PointerWidth = 0
         /\ search.range[1] <= a /\ a + PointerWidth <= search.range[2]
         /\ Searchable(a)
         /\ HeldOnce(a)
    /\ \A i, j \in DOMAIN search.results : i < j => search.results[i] < search.results[j]

\* A search keeps its limits, on the bytes it asks for and on its results.
LimitsAreKept ==
  call.kind = "search" =>
    /\ search.scanned <= search.options.maxScannedBytes
    /\ Len(search.results) <= search.options.maxResults

\* A page shows at each place a byte the address has held while it was read,
\* and null only for an address that could not be read at some time, or for
\* a page that passes the last address.
PageIsExact ==
  call.kind = "page" /\ call.at = "done" =>
    \/ page.address + PageLength - 1 > MaxAddress /\ \A k \in DOMAIN page.bytes : page.bytes[k] = Unreadable
    \/ \A k \in DOMAIN page.bytes : page.bytes[k] \in had[page.address + k]

\* Every search and every page ends: the cursor advances with each read, up
\* to regions and ranges that end in the middle of a pointer.
ReadsEnd == call.kind # "none" ~> call.kind = "none"
=============================================================================
