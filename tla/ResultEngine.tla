---------------------------- MODULE ResultEngine ----------------------------
(***************************************************************************)
(* MemScan.mm, MemoryResults.cpp, MemoryFilter.cpp: the searches that      *)
(* build and refine the engine's results, as the methods of h5gg.mm call   *)
(* them.                                                                   *)
(*                                                                         *)
(* Memory is a few writable regions of cells.  A cell is one unit of every *)
(* value type, so a type is a label, and what can go wrong with it is what *)
(* the engine and the page believe it is.  A result region holds the       *)
(* offsets of its results (`slides') and a type for each, or no types at   *)
(* all: then the engine takes the type of its last scan (lastNumberType)   *)
(* and getResults the session's (lastSearchType).                          *)
(*                                                                         *)
(* The target writes its cells and unmaps its regions between two methods. *)
(* Memory may run out in searchNumber and in searchNearby, which catch it  *)
(* and go on (elsewhere it ends the process).  A region that a search left *)
(* null has no slides: every search that comes across one ends the process *)
(* (Intact), and the next has a new engine (ClearResults).  A method       *)
(* refused for its arguments changes nothing and is left out.              *)
(***************************************************************************)
EXTENDS SortedSets

CONSTANTS
  Regions,      \* the base addresses of the target's writable regions
  SizeOf,       \* the size of each
  Values,       \* what a cell may hold, some integers
  Types,        \* value types, Hex not among them
  Ranges,       \* the address ranges [start, end) that searches are given
  MaxDistance,  \* bound: nearby searches go 1..MaxDistance cells
  MaxSearches,  \* bound: the searches between two clears
  MaxShortages  \* bound: those of them that memory runs out in

ASSUME RegionsAssumption ==
  Regions \subseteq Nat /\ IsFiniteSet(Regions) /\ SizeOf \in [Regions -> Nat]
ASSUME RangesAssumption == Ranges \subseteq Nat \X Nat

Hex == "Hex"      \* JJ_Search_Type_UByte, the type of byte pattern results
NoType == "none"  \* JJ_Search_Type_Error

VARIABLES
  memory,          \* the target's cells, by address
  mapped,          \* the regions that are mapped
  results,         \* Result::regions: [base, size, slides, types]
  snapshot,        \* by address: [type, value]
  lastNumberType,
  lastSearchType,  \* of the session
  firstScanDone,   \* of the engine
  firstSearchDone, \* of the session
  unsaved,         \* history: the last search was a nearby search, or memory
                   \* ran out in it
  starved,         \* history: the methods that memory ran out in since the
                   \* last clear
  searches         \* the searches since the last clear, at most MaxSearches

engineVars == <<results, snapshot, lastNumberType, lastSearchType, firstScanDone,
                firstSearchDone, unsaved, starved, searches>>
vars == <<memory, mapped, engineVars>>

Cells(b) == b..(b + SizeOf[b] - 1)
Addresses == UNION {Cells(b) : b \in Regions}

Init ==
  /\ memory \in [Addresses -> Values]
  /\ mapped = Regions
  /\ results = <<>>
  /\ snapshot = <<>>
  /\ lastNumberType = NoType
  /\ lastSearchType = NoType
  /\ firstScanDone = FALSE
  /\ firstSearchDone = FALSE
  /\ unsaved = FALSE
  /\ starved = {}
  /\ searches = 0

-----------------------------------------------------------------------------
(* Result and result_region.                                               *)

HasTypes(g) == g.types # <<>>
TypeAt(g, j, fallback) == IF HasTypes(g) THEN g.types[j] ELSE fallback
Address(g, j) == g.base + g.slides[j]

\* The results, by region and by index in it.
Entries(rs) == UNION {{<<i, j>> : j \in DOMAIN rs[i].slides} : i \in DOMAIN rs}
Listed(rs) == {Address(rs[e[1]], e[2]) : e \in Entries(rs)}
Count(rs) == Cardinality(Entries(rs))

RemoveEmptyRegions(rs) == Selected(rs, {i \in DOMAIN rs : rs[i].slides # <<>>})

Readable(a) == \E b \in mapped : a \in Cells(b)
ReadableSlides(g) == {j \in DOMAIN g.slides : Readable(Address(g, j))}

\* The region g with only its slides at the indices in J, and their types.
Keep(g, J, types) ==
  [g EXCEPT !.slides = Selected(@, J),
            !.types = IF types = <<>> THEN <<>> ELSE Selected(types, J)]

Uniform(g, type) == [j \in DOMAIN g.slides |-> type]

\* saveSnapshot: of several results at one address the last one counts.
SavedType(rs, a, type) ==
  LET Lists(i) == {j \in DOMAIN rs[i].slides : Address(rs[i], j) = a}
      last == Max({i \in DOMAIN rs : Lists(i) # {}})
  IN  TypeAt(rs[last], Max(Lists(last)), type)
SaveSnapshot(rs, type) ==
  [a \in {x \in Listed(rs) : Readable(x)} |->
     [type |-> SavedType(rs, a, type), value |-> memory[a]]]

-----------------------------------------------------------------------------
(* Scans, filters and refinements, as functions of the current results.    *)

Matching(b, range, v) ==
  {a \in Cells(b) : range[1] <= a /\ a < range[2] /\ memory[a] = v}

\* One region of a first scan: clipped to the range, with its matches.
ScanRegion(b, range, v, type) ==
  LET base  == Max({b, range[1]})
      end   == Min({b + SizeOf[b], range[2]})
      found == Ascending({a - base : a \in Matching(b, range, v)})
  IN  [base |-> base, size |-> end - base, slides |-> found,
       types |-> IF type = NoType THEN <<>> ELSE [k \in DOMAIN found |-> type]]

\* The regions to scan, and what a first scan of some of them adds.
ToScan(range) == {b \in mapped : Cells(b) \intersect (range[1]..(range[2] - 1)) # {}}
FirstScan(range, v, type, scanned) ==
  LET bs == Ascending(scanned)
  IN  results \o RemoveEmptyRegions([i \in DOMAIN bs |-> ScanRegion(bs[i], range, v, type)])

\* The slides of g in the range whose cell holds v.
Holding(g, range, v) ==
  {j \in ReadableSlides(g) : LET a == Address(g, j) IN
                               range[1] <= a /\ a < range[2] /\ memory[a] = v}

\* Regions that the range does not even touch keep their results; the others
\* are looked at up to a slide of each, all.
ScanAgain(range, v, upTo) ==
  RemoveEmptyRegions([i \in DOMAIN results |->
    LET g == results[i] IN
      IF g.base + g.size < range[1] \/ g.base > range[2] THEN g
      ELSE Keep(g, {j \in Holding(g, range, v) : j <= upTo[i]}, <<>>)])
AllSlides == [i \in DOMAIN results |-> Len(results[i].slides)]

FilterHex(range, v) ==
  RemoveEmptyRegions([i \in DOMAIN results |->
    LET g == results[i] IN Keep(g, Holding(g, range, v), Uniform(g, Hex))])

FilterValue(mode, v, type) ==
  LET Passes(now) == CASE mode = "Equal"   -> now = v
                       [] mode = "Greater" -> now > v
                       [] mode = "Less"    -> now < v
  IN  RemoveEmptyRegions([i \in DOMAIN results |->
        LET g == results[i] IN
          Keep(g, {j \in ReadableSlides(g) : Passes(memory[Address(g, j)])}, Uniform(g, type))])

RefineByChange(change) ==
  LET Passes(g, j) ==
        LET now   == memory[Address(g, j)]
            saved == snapshot[Address(g, j)]
            same  == saved.type = TypeAt(g, j, lastNumberType)
        IN CASE change = "Unchanged" -> now = saved.value
             [] change = "Changed"   -> now # saved.value
             [] change = "Increased" -> same /\ now > saved.value
             [] change = "Decreased" -> same /\ now < saved.value
  IN  RemoveEmptyRegions([i \in DOMAIN results |->
        LET g == results[i] IN
          Keep(g, {j \in ReadableSlides(g) : Address(g, j) \in DOMAIN snapshot /\ Passes(g, j)},
               g.types)])

\* One slide of JJNearBySearch: the cells up to r from it that no earlier
\* slide has looked at, and then the old results near the first and the last
\* match, if there is a match.  acc has the slides and types found so far,
\* and the code's lastold and lastpos.  When slides descend `to' may lie below
\* `from': the size wraps around, to an end below the start in ScanData, which
\* then finds nothing.
NearSlide(g, v, type, r, acc, j) ==
  LET from    == Max({g.slides[j] - r, 0, acc.lastpos})
      to      == Min({g.slides[j] + r, g.size})
      found   == {x \in from..(to - 1) : memory[g.base + x] = v}
      near(x) == \E y \in {Min(found), Max(found)} : y - r < x /\ x < y + r
      old     == IF found = {} THEN {}
                 ELSE {o \in (acc.lastold + 1)..Len(g.slides) : near(g.slides[o])}
      oldAt(x) == {o \in old : g.slides[o] = x}
      matched == Ascending(found \union {g.slides[o] : o \in old})
      typed(x) == IF oldAt(x) = {} THEN type ELSE TypeAt(g, Max(oldAt(x)), lastNumberType)
  IN  [slides  |-> acc.slides \o matched,
       types   |-> acc.types \o [k \in DOMAIN matched |-> typed(matched[k])],
       lastold |-> IF old = {} THEN acc.lastold ELSE Max(old),
       lastpos |-> to]

\* What the first slides of g have found, by how many they are.
NearSlides(g, v, type, r) ==
  LET upTo[n \in 0..Len(g.slides)] ==
        IF n = 0 THEN [slides |-> <<>>, types |-> <<>>, lastold |-> 0, lastpos |-> 0]
                 ELSE NearSlide(g, v, type, r, upTo[n - 1], n)
  IN  upTo

NearRegionBug(g, v, type, r) ==
  LET end == NearSlides(g, v, type, r)[Len(g.slides)]
  IN  [g EXCEPT !.slides = end.slides,
                !.types = IF HasTypes(g) THEN end.types ELSE <<>>]
NearRegion(g, v, type, r) ==
  LET end == NearSlides(g, v, type, r)[Len(g.slides)]
  IN  [g EXCEPT !.slides = end.slides,
                !.types = IF HasTypes(g) \/ type # lastNumberType THEN end.types ELSE <<>>]

\* The first n regions replaced, the others as they were.
NearBySearch(v, type, r, n) ==
  [i \in DOMAIN results |->
    LET g == results[i] IN
      IF i > n THEN g
      ELSE IF Readable(g.base) THEN NearRegion(g, v, type, r)
      ELSE [g EXCEPT !.slides = <<>>, !.types = <<>>]]

-----------------------------------------------------------------------------
(* The methods.                                                            *)

Intact == \A i \in DOMAIN results : results[i].slides # <<>>

OneMoreSearch ==
  /\ Intact
  /\ searches < MaxSearches
  /\ searches' = searches + 1

\* A search has left the results rs and the engine's type: the snapshot is
\* taken anew.
Searched(rs, type) ==
  /\ results' = rs
  /\ lastNumberType' = type
  /\ snapshot' = SaveSnapshot(rs, type)
  /\ unsaved' = FALSE
  /\ OneMoreSearch
  /\ UNCHANGED <<memory, mapped, starved>>

\* markSearchDone
SearchDone(type) ==
  /\ firstSearchDone' = TRUE
  /\ lastSearchType' = type

SearchNumber(v, type, range) ==
  /\ ~(firstSearchDone /\ Count(results) = 0)
  /\ Searched(IF firstScanDone THEN ScanAgain(range, v, AllSlides)
              ELSE FirstScan(range, v, NoType, ToScan(range)), type)
  /\ SearchDone(type)
  /\ firstScanDone' = TRUE

MemoryRunsOut(method) ==
  /\ Cardinality(starved) < MaxShortages
  /\ starved' = starved \union {method}

\* Memory runs out in a scan: within a region, which is then left out of a
\* first scan and cut short in a later one; or between two, which ends it.
ScanRunsOut(v, range) ==
  \/ /\ ~firstScanDone
     /\ \E scanned \in SUBSET ToScan(range) : results' = FirstScan(range, v, NoType, scanned)
     /\ firstScanDone' \in BOOLEAN
  \/ /\ firstScanDone
     /\ \E upTo \in [DOMAIN results -> 0..Max({0} \union {AllSlides[i] : i \in DOMAIN results})] :
          results' \in {results, ScanAgain(range, v, upTo)}
     /\ UNCHANGED firstScanDone

\* The first n regions of rs, of the last of them m slides.
Beginning(rs, n, m) ==
  [i \in 1..n |-> IF i < n THEN rs[i] ELSE Keep(rs[i], 1..m, rs[i].types)]

\* The snapshot may be left as it is, or filled in part.
SearchNumberRunsOut(v, type, range) ==
  /\ MemoryRunsOut("searchNumber")
  /\ OneMoreSearch
  /\ ~(firstSearchDone /\ Count(results) = 0)
  /\ ScanRunsOut(v, range)
  /\ lastNumberType' = type
  /\ \/ UNCHANGED snapshot
     \/ /\ firstScanDone'
        /\ \E n \in 0..Len(results') : \E m \in 1..(IF n = 0 THEN 1 ELSE Len(results'[n].slides)) :
             snapshot' = SaveSnapshot(Beginning(results', n, m), type)
  /\ SearchDone(type)
  /\ unsaved' = TRUE
  /\ UNCHANGED <<memory, mapped>>

SearchHexBug(v, range) ==
  /\ Searched(IF firstScanDone THEN FilterHex(range, v)
              ELSE FirstScan(range, v, Hex, ToScan(range)), Hex)
  /\ SearchDone(Hex)
  /\ UNCHANGED firstScanDone
SearchHex(v, range) ==
  /\ Searched(IF firstScanDone THEN FilterHex(range, v)
              ELSE FirstScan(range, v, Hex, ToScan(range)), Hex)
  /\ SearchDone(Hex)
  /\ firstScanDone' = TRUE

SearchChange(change) ==
  /\ Count(results) > 0
  /\ Searched(RefineByChange(change), lastNumberType)
  /\ SearchDone(lastSearchType)
  /\ UNCHANGED firstScanDone

SearchFilterBug(mode, v, type) ==
  /\ Count(results) > 0
  /\ results' = FilterValue(mode, v, type)
  /\ lastNumberType' = type
  /\ OneMoreSearch
  /\ UNCHANGED <<memory, mapped, snapshot, lastSearchType, firstScanDone, firstSearchDone, unsaved, starved>>
SearchFilter(mode, v, type) ==
  /\ Count(results) > 0
  /\ Searched(FilterValue(mode, v, type), type)
  /\ UNCHANGED <<lastSearchType, firstScanDone, firstSearchDone>>

\* JJNearBySearch takes no snapshot and leaves lastNumberType alone.
NearSearched(rs, type) ==
  /\ Count(results) > 0
  /\ results' = rs
  /\ SearchDone(type)
  /\ unsaved' = TRUE
  /\ OneMoreSearch
  /\ UNCHANGED <<memory, mapped, snapshot, lastNumberType, firstScanDone>>

SearchNearby(v, type, r) ==
  /\ NearSearched(RemoveEmptyRegions(NearBySearch(v, type, r, Len(results))), type)
  /\ UNCHANGED starved

\* Memory runs out after n regions: null ones among them stay.
SearchNearbyRunsOut(v, type, r, n) ==
  /\ NearSearched(NearBySearch(v, type, r, n), type)
  /\ MemoryRunsOut("searchNearby")

\* A new engine; setTargetProc makes one too.
ClearResults ==
  /\ results' = <<>>
  /\ snapshot' = <<>>
  /\ lastNumberType' = NoType
  /\ lastSearchType' = NoType
  /\ firstScanDone' = FALSE
  /\ firstSearchDone' = FALSE
  /\ unsaved' = FALSE
  /\ starved' = {}
  /\ searches' = 0
  /\ UNCHANGED <<memory, mapped>>

-----------------------------------------------------------------------------
(* The target.                                                             *)

TargetWrites(a, v) ==
  /\ memory' = [memory EXCEPT ![a] = v]
  /\ UNCHANGED <<mapped, engineVars>>

TargetUnmaps(b) ==
  /\ b \in mapped
  /\ mapped' = mapped \ {b}
  /\ UNCHANGED <<memory, engineVars>>

Next ==
  \/ \E v \in Values, type \in Types, range \in Ranges : SearchNumber(v, type, range)
  \/ \E v \in Values, type \in Types, range \in Ranges : SearchNumberRunsOut(v, type, range)
  \/ \E v \in Values, range \in Ranges : SearchHex(v, range)
  \/ \E change \in {"Unchanged", "Changed", "Increased", "Decreased"} : SearchChange(change)
  \/ \E mode \in {"Equal", "Greater", "Less"}, v \in Values, type \in Types :
       SearchFilter(mode, v, type)
  \/ \E v \in Values, type \in Types, r \in 1..MaxDistance : SearchNearby(v, type, r)
  \/ \E v \in Values, type \in Types, r \in 1..MaxDistance, n \in 0..(Len(results) - 1) :
       SearchNearbyRunsOut(v, type, r, n)
  \/ ClearResults
  \/ \E a \in Addresses, v \in Values : TargetWrites(a, v)
  \/ \E b \in Regions : TargetUnmaps(b)

Spec == Init /\ [][Next]_vars

-----------------------------------------------------------------------------
(* Properties.                                                             *)

\* docs/javascript-api.md: getResultsCount is the count of results, editAll
\* returns the number of addresses it wrote.
ResultsAreDistinct == Count(results) = Cardinality(Listed(results))

\* The page and the engine agree on the type of every result: what getResults
\* shows is what searchChange will compare, for results that carry no type
\* too, though the two fall back on different variables.  Only memory that
\* runs out in a nearby search parts them: some of the regions have the types
\* they need, and the others are shown as of the type searched for.
TypesAgree ==
  "searchNearby" \notin starved =>
    \A i \in DOMAIN results : HasTypes(results[i]) \/ lastSearchType = lastNumberType

\* Every search after the first narrows the results, except a nearby search:
\* whatever methods were used before, none starts over behind the caller's
\* back.  If memory ran out in the first, the next scan may start over.
SearchesNarrow ==
  [][0 < searches /\ searches < searches' /\ ~unsaved' /\ "searchNumber" \notin starved
       => Listed(results') \subseteq Listed(results)]_vars

\* docs/architecture.md: snapshot entries use the same type as the
\* corresponding result.  So it is, unless a nearby search or one that memory
\* ran out in came last, or an address is listed twice: searchChange never compares a value with one saved as another type,
\* whatever was searched for before.
SnapshotMatchesAfterScan ==
  ~unsaved /\ ResultsAreDistinct =>
    \A i \in DOMAIN results : \A j \in DOMAIN results[i].slides :
      Address(results[i], j) \in DOMAIN snapshot =>
        snapshot[Address(results[i], j)].type = TypeAt(results[i], j, lastNumberType)

=============================================================================
