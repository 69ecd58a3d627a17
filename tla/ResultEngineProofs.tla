------------------------- MODULE ResultEngineProofs --------------------------
(***************************************************************************)
(* Proofs about ResultEngine, for any regions, values, types and ranges    *)
(* and any number of searches.                                             *)
(*                                                                         *)
(* That the engine and the page agree on types rests on the shape of what  *)
(* each search leaves: a region that has types has one for each result     *)
(* (ResultsInv), and no region is empty when a search begins (Intact).     *)
(***************************************************************************)
EXTENDS ResultEngine, SortedSetsProofs, SequenceTheorems

AllTypes == Types \union {Hex, NoType}
ResultRegions == [base : Int, size : Int, slides : Seq(Nat), types : Seq(AllTypes)]

\* A region has no types, or one for each of its slides.
WellFormed(g) ==
  g \in ResultRegions /\ (HasTypes(g) => Len(g.types) = Len(g.slides))

\* The results of h are results of g.
Narrows(h, g) ==
  /\ h.base = g.base
  /\ \A k \in DOMAIN h.slides : \E j \in DOMAIN g.slides : h.slides[k] = g.slides[j]

Shaped(rs) ==
  /\ rs \in Seq(ResultRegions)
  /\ \A i \in DOMAIN rs : WellFormed(rs[i])

\* What a search leaves that memory does not run out in: no region is empty.
Formed(rs) ==
  /\ rs \in Seq(ResultRegions)
  /\ \A i \in DOMAIN rs : WellFormed(rs[i]) /\ rs[i].slides # <<>>

Typed(rs) == \A i \in DOMAIN rs : HasTypes(rs[i])

ResultsInv ==
  /\ Shaped(results)
  /\ mapped \subseteq Regions
  /\ lastNumberType \in AllTypes
  /\ searches \in Nat
  /\ (results # <<>> \/ 0 < searches) /\ "searchNumber" \notin starved => firstScanDone
  /\ TypesAgree

\* Unless a nearby search or one that memory ran out in came last, the snapshot
\* has the types of the results that were saved last.
SavedInv ==
  ~unsaved => \A a \in DOMAIN snapshot : snapshot[a].type = SavedType(results, a, lastNumberType)

-----------------------------------------------------------------------------
(* Result and result_region.                                               *)

LEMMA KeepProperties ==
  ASSUME NEW g, WellFormed(g), NEW J \in SUBSET DOMAIN g.slides,
         NEW types \in Seq(AllTypes), types = <<>> \/ Len(types) = Len(g.slides)
  PROVE  /\ WellFormed(Keep(g, J, types))
         /\ Narrows(Keep(g, J, types), g)
         /\ types # <<>> /\ Keep(g, J, types).slides # <<>> => HasTypes(Keep(g, J, types))
<1>1. g \in ResultRegions
  BY DEF WellFormed
<1>2. /\ Selected(g.slides, J) \in Seq(Nat)
      /\ \A k \in DOMAIN Selected(g.slides, J) : \E j \in J : Selected(g.slides, J)[k] = g.slides[j]
      /\ Len(Selected(g.slides, J)) = Cardinality(J)
  <2>1. g.slides \in Seq(Nat)
    BY <1>1 DEF ResultRegions
  <2> QED
    BY <2>1, SelectedProperties
<1>3. ASSUME types # <<>>
      PROVE  Selected(types, J) \in Seq(AllTypes) /\ Len(Selected(types, J)) = Cardinality(J)
  <2>1. DOMAIN types = DOMAIN g.slides
    BY <1>1, <1>3 DEF ResultRegions
  <2> QED
    BY <2>1, SelectedProperties
<1>4. Keep(g, J, types) =
        [base |-> g.base, size |-> g.size, slides |-> Selected(g.slides, J),
         types |-> IF types = <<>> THEN <<>> ELSE Selected(types, J)]
  <2> DEFINE slides == Selected(g.slides, J)
             kept == IF types = <<>> THEN <<>> ELSE Selected(types, J)
  <2>1. Keep(g, J, types) = [g EXCEPT !.slides = slides, !.types = kept]
    BY DEF Keep
  <2> HIDE DEF slides, kept
  <2>2. Keep(g, J, types) = [base |-> g.base, size |-> g.size, slides |-> slides, types |-> kept]
    BY <1>1, <2>1 DEF ResultRegions
  <2> QED
    BY <2>2 DEF slides, kept
<1>5. Keep(g, J, types) \in ResultRegions
  BY <1>1, <1>2, <1>3, <1>4 DEF ResultRegions
<1>6. HasTypes(Keep(g, J, types)) => Len(Keep(g, J, types).types) = Len(Keep(g, J, types).slides)
  BY <1>2, <1>3, <1>4 DEF HasTypes
<1>7. Narrows(Keep(g, J, types), g)
  BY <1>2, <1>4 DEF Narrows
<1>8. types # <<>> /\ Keep(g, J, types).slides # <<>> => HasTypes(Keep(g, J, types))
  <2> SUFFICES ASSUME types # <<>>, Selected(g.slides, J) # <<>>
               PROVE  Selected(types, J) # <<>>
    BY <1>4 DEF HasTypes
  <2>1. Len(Selected(g.slides, J)) # 0
    BY <1>2
  <2> QED
    BY <1>2, <1>3, <2>1
<1> QED
  BY <1>5, <1>6, <1>7, <1>8 DEF WellFormed

\* Every type is the same, and there is one for each slide.
LEMMA UniformProperties ==
  ASSUME NEW g \in ResultRegions, g.slides # <<>>, NEW type \in AllTypes
  PROVE  /\ Uniform(g, type) \in Seq(AllTypes)
         /\ Len(Uniform(g, type)) = Len(g.slides)
         /\ Uniform(g, type) # <<>>
<1>1. g.slides \in Seq(Nat)
  BY DEF ResultRegions
<1>2. Uniform(g, type) \in [1..Len(g.slides) -> AllTypes]
  BY <1>1 DEF Uniform
<1>3. Uniform(g, type) \in Seq(AllTypes) /\ Len(Uniform(g, type)) = Len(g.slides)
  BY <1>1, <1>2
<1> QED
  BY <1>1, <1>3

\* What is left are regions that were there and are not empty.
LEMMA RemoveEmptyProperties ==
  ASSUME NEW rs \in Seq(ResultRegions)
  PROVE  /\ RemoveEmptyRegions(rs) \in Seq(ResultRegions)
         /\ \A k \in DOMAIN RemoveEmptyRegions(rs) :
              \E i \in DOMAIN rs : RemoveEmptyRegions(rs)[k] = rs[i] /\ rs[i].slides # <<>>
<1> DEFINE I == {i \in DOMAIN rs : rs[i].slides # <<>>}
<1>1. /\ Selected(rs, I) \in Seq(ResultRegions)
      /\ \A k \in DOMAIN Selected(rs, I) : \E i \in I : Selected(rs, I)[k] = rs[i]
  <2>1. I \in SUBSET DOMAIN rs
    OBVIOUS
  <2> HIDE DEF I
  <2> QED
    BY <2>1, SelectedProperties
<1> QED
  BY <1>1 DEF RemoveEmptyRegions

\* Regions that narrow those of the results leave results that were listed.
LEMMA NarrowingProperties ==
  ASSUME NEW rs \in Seq(ResultRegions), NEW fs \in Seq(ResultRegions),
         DOMAIN fs = DOMAIN rs,
         \A i \in DOMAIN rs : Narrows(fs[i], rs[i])
  PROVE  Listed(RemoveEmptyRegions(fs)) \subseteq Listed(rs)
<1> DEFINE out == RemoveEmptyRegions(fs)
<1> SUFFICES ASSUME NEW k \in DOMAIN out, NEW l \in DOMAIN out[k].slides
             PROVE  Address(out[k], l) \in Listed(rs)
  BY DEF Listed, Entries
<1>1. PICK i \in DOMAIN rs : out[k] = fs[i]
  BY RemoveEmptyProperties
<1>2. PICK j \in DOMAIN rs[i].slides : fs[i].slides[l] = rs[i].slides[j]
  BY <1>1 DEF Narrows
<1>3. Address(out[k], l) = Address(rs[i], j)
  BY <1>1, <1>2 DEF Narrows, Address
<1>4. <<i, j>> \in Entries(rs)
  BY DEF Entries
<1> QED
  BY <1>3, <1>4 DEF Listed

\* Of every region some slides are kept, with their types or with others.
LEMMA KeepEach ==
  ASSUME NEW rs, Formed(rs), NEW fs, NEW J, NEW T,
         fs = [i \in DOMAIN rs |-> Keep(rs[i], J[i], T[i])],
         \A i \in DOMAIN rs :
           /\ J[i] \in SUBSET DOMAIN rs[i].slides
           /\ T[i] \in Seq(AllTypes)
           /\ T[i] = <<>> \/ Len(T[i]) = Len(rs[i].slides)
  PROVE  /\ Formed(RemoveEmptyRegions(fs))
         /\ Listed(RemoveEmptyRegions(fs)) \subseteq Listed(rs)
         /\ (\A i \in DOMAIN rs : T[i] # <<>>) => Typed(RemoveEmptyRegions(fs))
<1>1. \A i \in DOMAIN rs :
        /\ WellFormed(fs[i])
        /\ Narrows(fs[i], rs[i])
        /\ T[i] # <<>> /\ fs[i].slides # <<>> => HasTypes(fs[i])
  BY KeepProperties DEF Formed
<1>2. fs \in Seq(ResultRegions) /\ DOMAIN fs = DOMAIN rs
  <2>1. DOMAIN rs = 1..Len(rs) /\ Len(rs) \in Nat
    BY DEF Formed
  <2>2. \A i \in DOMAIN rs : fs[i] \in ResultRegions
    BY <1>1 DEF WellFormed
  <2> QED
    BY <2>1, <2>2
<1>3. /\ RemoveEmptyRegions(fs) \in Seq(ResultRegions)
      /\ \A k \in DOMAIN RemoveEmptyRegions(fs) :
           \E i \in DOMAIN rs : RemoveEmptyRegions(fs)[k] = fs[i] /\ fs[i].slides # <<>>
  BY <1>2, RemoveEmptyProperties
<1>4. Formed(RemoveEmptyRegions(fs))
  BY <1>1, <1>3 DEF Formed
<1>5. Listed(RemoveEmptyRegions(fs)) \subseteq Listed(rs)
  <2>1. rs \in Seq(ResultRegions)
    BY DEF Formed
  <2> QED
    BY <1>1, <1>2, <2>1, NarrowingProperties
<1>6. (\A i \in DOMAIN rs : T[i] # <<>>) => Typed(RemoveEmptyRegions(fs))
  BY <1>1, <1>3 DEF Typed
<1> QED
  BY <1>4, <1>5, <1>6

-----------------------------------------------------------------------------
(* What each search leaves.                                                *)

LEMMA IntactResults ==
  ASSUME ResultsInv, Intact
  PROVE  Formed(results)
BY DEF ResultsInv, Intact, Formed, Shaped

LEMMA ScanAgainProperties ==
  ASSUME ResultsInv, Intact, NEW range, NEW v, NEW upTo
  PROVE  /\ Formed(ScanAgain(range, v, upTo))
         /\ Listed(ScanAgain(range, v, upTo)) \subseteq Listed(results)
<1> DEFINE Skips(g) == g.base + g.size < range[1] \/ g.base > range[2]
           J == [i \in DOMAIN results |-> {j \in Holding(results[i], range, v) : j <= upTo[i]}]
           fs == [i \in DOMAIN results |->
                    LET g == results[i] IN
                      IF Skips(g) THEN g ELSE Keep(g, J[i], <<>>)]
<1>1. Formed(results)
  BY IntactResults
<1>2. \A i \in DOMAIN results : WellFormed(fs[i]) /\ Narrows(fs[i], results[i])
  <2> TAKE i \in DOMAIN results
  <2>1. WellFormed(results[i]) /\ Narrows(results[i], results[i])
    BY <1>1 DEF Formed, Narrows
  <2>2. J[i] \in SUBSET DOMAIN results[i].slides
    BY DEF Holding, ReadableSlides
  <2> HIDE DEF J
  <2>3. /\ WellFormed(Keep(results[i], J[i], <<>>))
        /\ Narrows(Keep(results[i], J[i], <<>>), results[i])
    <3> DEFINE none == <<>>
    <3>1. none \in Seq(AllTypes) /\ none = <<>>
      OBVIOUS
    <3> HIDE DEF none
    <3>2. /\ WellFormed(Keep(results[i], J[i], none))
          /\ Narrows(Keep(results[i], J[i], none), results[i])
      BY <2>1, <2>2, <3>1, KeepProperties
    <3> QED
      BY <3>1, <3>2
  <2>4. fs[i] = results[i] \/ fs[i] = Keep(results[i], J[i], <<>>)
    OBVIOUS
  <2> HIDE DEF fs
  <2> QED
    BY <2>1, <2>3, <2>4
<1>3. fs \in Seq(ResultRegions) /\ DOMAIN fs = DOMAIN results
  <2>1. DOMAIN results = 1..Len(results) /\ Len(results) \in Nat /\ DOMAIN fs = DOMAIN results
    BY <1>1 DEF Formed
  <2>2. fs = [i \in DOMAIN fs |-> fs[i]]
    OBVIOUS
  <2>3. \A i \in DOMAIN results : fs[i] \in ResultRegions
    BY <1>2 DEF WellFormed
  <2> HIDE DEF fs
  <2> QED
    BY <2>1, <2>2, <2>3
<1>4. ScanAgain(range, v, upTo) = RemoveEmptyRegions(fs)
  BY DEF ScanAgain
<1> HIDE DEF fs
<1>5. Formed(RemoveEmptyRegions(fs))
  BY <1>2, <1>3, RemoveEmptyProperties DEF Formed
<1>6. Listed(RemoveEmptyRegions(fs)) \subseteq Listed(results)
  BY <1>1, <1>2, <1>3, NarrowingProperties DEF Formed
<1> QED
  BY <1>4, <1>5, <1>6

LEMMA FilterHexProperties ==
  ASSUME ResultsInv, Intact, NEW range, NEW v
  PROVE  /\ Formed(FilterHex(range, v)) /\ Typed(FilterHex(range, v))
         /\ Listed(FilterHex(range, v)) \subseteq Listed(results)
<1> DEFINE J == [i \in DOMAIN results |-> Holding(results[i], range, v)]
           T == [i \in DOMAIN results |-> Uniform(results[i], Hex)]
           fs == [i \in DOMAIN results |-> Keep(results[i], J[i], T[i])]
<1>1. Formed(results)
  BY IntactResults
<1>2. \A i \in DOMAIN results :
        /\ J[i] \in SUBSET DOMAIN results[i].slides
        /\ T[i] \in Seq(AllTypes) /\ T[i] # <<>> /\ Len(T[i]) = Len(results[i].slides)
  <2> TAKE i \in DOMAIN results
  <2>1. results[i] \in ResultRegions /\ results[i].slides # <<>> /\ Hex \in AllTypes
    BY <1>1 DEF Formed, WellFormed, AllTypes
  <2> QED
    BY <2>1, UniformProperties DEF Holding, ReadableSlides
<1>3. FilterHex(range, v) = RemoveEmptyRegions(fs)
  BY DEF FilterHex
<1> HIDE DEF J, T
<1> QED
  BY <1>1, <1>2, <1>3, KeepEach

LEMMA FilterValueProperties ==
  ASSUME ResultsInv, Intact, NEW mode, NEW v, NEW type \in Types
  PROVE  /\ Formed(FilterValue(mode, v, type)) /\ Typed(FilterValue(mode, v, type))
         /\ Listed(FilterValue(mode, v, type)) \subseteq Listed(results)
<1> DEFINE Passes(now) == CASE mode = "Equal"   -> now = v
                            [] mode = "Greater" -> now > v
                            [] mode = "Less"    -> now < v
           J == [i \in DOMAIN results |->
                   {j \in ReadableSlides(results[i]) : Passes(memory[Address(results[i], j)])}]
           T == [i \in DOMAIN results |-> Uniform(results[i], type)]
           fs == [i \in DOMAIN results |-> Keep(results[i], J[i], T[i])]
<1>1. Formed(results)
  BY IntactResults
<1>2. FilterValue(mode, v, type) = RemoveEmptyRegions(fs)
  BY DEF FilterValue
<1> HIDE DEF Passes
<1>3. \A i \in DOMAIN results :
        /\ J[i] \in SUBSET DOMAIN results[i].slides
        /\ T[i] \in Seq(AllTypes) /\ T[i] # <<>> /\ Len(T[i]) = Len(results[i].slides)
  <2> TAKE i \in DOMAIN results
  <2>1. results[i] \in ResultRegions /\ results[i].slides # <<>> /\ type \in AllTypes
    BY <1>1 DEF Formed, WellFormed, AllTypes
  <2> QED
    BY <2>1, UniformProperties DEF ReadableSlides
<1> HIDE DEF J, T
<1> QED
  BY <1>1, <1>2, <1>3, KeepEach

LEMMA RefineByChangeProperties ==
  ASSUME ResultsInv, Intact, NEW change
  PROVE  /\ Formed(RefineByChange(change))
         /\ Typed(results) => Typed(RefineByChange(change))
         /\ Listed(RefineByChange(change)) \subseteq Listed(results)
<1> DEFINE Passes(g, j) ==
             LET now   == memory[Address(g, j)]
                 saved == snapshot[Address(g, j)]
                 same  == saved.type = TypeAt(g, j, lastNumberType)
             IN CASE change = "Unchanged" -> now = saved.value
                  [] change = "Changed"   -> now # saved.value
                  [] change = "Increased" -> same /\ now > saved.value
                  [] change = "Decreased" -> same /\ now < saved.value
           J == [i \in DOMAIN results |->
                   {j \in ReadableSlides(results[i]) :
                      Address(results[i], j) \in DOMAIN snapshot /\ Passes(results[i], j)}]
           T == [i \in DOMAIN results |-> results[i].types]
           fs == [i \in DOMAIN results |-> Keep(results[i], J[i], T[i])]
<1>1. Formed(results)
  BY IntactResults
<1>2. RefineByChange(change) = RemoveEmptyRegions(fs)
  BY DEF RefineByChange
<1> HIDE DEF Passes
<1>3. \A i \in DOMAIN results :
        /\ J[i] \in SUBSET DOMAIN results[i].slides
        /\ T[i] \in Seq(AllTypes) /\ (T[i] = <<>> \/ Len(T[i]) = Len(results[i].slides))
  BY <1>1 DEF Formed, WellFormed, ResultRegions, HasTypes, ReadableSlides
<1>4. Typed(results) => \A i \in DOMAIN results : T[i] # <<>>
  BY DEF Typed, HasTypes
<1> HIDE DEF J, T
<1> QED
  BY <1>1, <1>2, <1>3, <1>4, KeepEach

\* One region of a first scan has its matches, and types if it is to have any.
LEMMA ScanRegionProperties ==
  ASSUME NEW b \in Regions, NEW range \in Nat \X Nat, NEW v, NEW type \in AllTypes
  PROVE  /\ WellFormed(ScanRegion(b, range, v, type))
         /\ type # NoType /\ ScanRegion(b, range, v, type).slides # <<>>
              => HasTypes(ScanRegion(b, range, v, type))
<1> DEFINE base == Max({b, range[1]})
           end == Min({b + SizeOf[b], range[2]})
           offsets == {a - base : a \in Matching(b, range, v)}
           found == Ascending(offsets)
           types == IF type = NoType THEN <<>> ELSE [k \in DOMAIN found |-> type]
<1>1. b \in Int /\ SizeOf[b] \in Int /\ range[1] \in Int /\ range[2] \in Int
  BY RegionsAssumption
<1>2. base \in {b, range[1]} /\ end \in {b + SizeOf[b], range[2]}
  <2>1. IsFiniteSet({b, range[1]}) /\ IsFiniteSet({b + SizeOf[b], range[2]})
    BY PairIsFinite
  <2> QED
    <3>1. {b, range[1]} \in SUBSET Int /\ {b + SizeOf[b], range[2]} \in SUBSET Int
      BY <1>1
    <3>2. base \in {b, range[1]}
      BY <2>1, <3>1, MaxProperties
    <3>3. end \in {b + SizeOf[b], range[2]}
      BY <2>1, <3>1, MinProperties
    <3> QED
      BY <3>2, <3>3
<1>3. base \in Int /\ end - base \in Int
  BY <1>1, <1>2
<1>4. offsets \in SUBSET Nat /\ IsFiniteSet(offsets)
  <2>1. Matching(b, range, v) \in SUBSET (b..(b + SizeOf[b] - 1))
    BY DEF Matching, Cells
  <2>2. IsFiniteSet(Matching(b, range, v))
    <3> DEFINE last == b + SizeOf[b] - 1
    <3>1. last \in Int
      BY <1>1
    <3> HIDE DEF last
    <3>2. Matching(b, range, v) \in SUBSET (b..last)
      BY <2>1 DEF last
    <3> QED
      BY <1>1, <3>1, <3>2, BoundedIsFinite
  <2>3. \A a \in Matching(b, range, v) : a \in Int /\ b <= a /\ range[1] <= a
    BY <1>1 DEF Matching, Cells
  <2>4. \A a \in Matching(b, range, v) : a - base \in Nat
    BY <1>1, <1>2, <2>3
  <2>5. IsFiniteSet(offsets)
    <3> DEFINE f == [a \in Matching(b, range, v) |-> a - base]
    <3> HIDE DEF base
    <3>1. offsets = {f[a] : a \in Matching(b, range, v)}
      OBVIOUS
    <3> HIDE DEF f, offsets
    <3> QED
      BY <2>2, <3>1, ImageIsFinite
  <2> QED
    BY <2>4, <2>5
<1>5. found \in Seq(Nat) /\ Len(found) \in Nat
  <2> HIDE DEF offsets
  <2>1. found \in Seq(Nat)
    BY <1>4, AscendingInSeq
  <2> HIDE DEF found
  <2> QED
    BY <2>1
<1>6. ScanRegion(b, range, v, type) =
        [base |-> base, size |-> end - base, slides |-> found, types |-> types]
  BY DEF ScanRegion
<1> HIDE DEF base, end, offsets, found
<1>7. types \in Seq(AllTypes) /\ (types # <<>> => Len(types) = Len(found))
  BY <1>5
<1>8. type # NoType /\ found # <<>> => types # <<>>
  BY <1>5
<1> HIDE DEF types
<1> QED
  BY <1>3, <1>5, <1>6, <1>7, <1>8 DEF WellFormed, ResultRegions, HasTypes

LEMMA FirstScanProperties ==
  ASSUME ResultsInv, Intact, NEW range \in Ranges, NEW v, NEW type \in AllTypes,
         NEW B \in SUBSET ToScan(range)
  PROVE  Formed(FirstScan(range, v, type, B))
<1> DEFINE bs == Ascending(B)
           fs == [i \in DOMAIN bs |-> ScanRegion(bs[i], range, v, type)]
<1>1. B \in SUBSET Regions
  BY DEF ResultsInv, ToScan
<1>2. B \in SUBSET Int /\ IsFiniteSet(B)
  <2>1. IsFiniteSet(B)
    BY <1>1, RegionsAssumption, FS_Subset
  <2> QED
    BY <1>1, <2>1, RegionsAssumption
<1>3. Cardinality(B) \in Nat /\ bs \in [1..Cardinality(B) -> B]
  BY <1>2, AscendingProperties
<1>4. FirstScan(range, v, type, B) = results \o RemoveEmptyRegions(fs)
  BY DEF FirstScan
<1> HIDE DEF bs
<1>5. \A i \in 1..Cardinality(B) :
        /\ WellFormed(fs[i])
        /\ type # NoType /\ fs[i].slides # <<>> => HasTypes(fs[i])
  BY <1>1, <1>3, RangesAssumption, ScanRegionProperties
<1>6. fs \in Seq(ResultRegions) /\ DOMAIN fs = 1..Cardinality(B)
  BY <1>3, <1>5 DEF WellFormed
<1> HIDE DEF fs
<1>7. /\ RemoveEmptyRegions(fs) \in Seq(ResultRegions)
      /\ \A k \in DOMAIN RemoveEmptyRegions(fs) :
           \E i \in DOMAIN fs : RemoveEmptyRegions(fs)[k] = fs[i] /\ fs[i].slides # <<>>
  BY <1>6, RemoveEmptyProperties
<1>8. Formed(RemoveEmptyRegions(fs))
  BY <1>5, <1>6, <1>7 DEF Formed
<1> DEFINE found == RemoveEmptyRegions(fs)
<1>9. Formed(results) /\ Formed(found)
  BY <1>8, IntactResults
<1> HIDE DEF found
<1>10. /\ results \in Seq(ResultRegions) /\ found \in Seq(ResultRegions)
       /\ \A i \in 1..Len(results) : WellFormed(results[i]) /\ results[i].slides # <<>>
       /\ \A i \in 1..Len(found) : WellFormed(found[i]) /\ found[i].slides # <<>>
  BY <1>9 DEF Formed
<1>11. results \o found \in Seq(ResultRegions) /\ Len(results \o found) = Len(results) + Len(found)
  BY <1>10
<1>12. \A i \in 1..Len(results \o found) :
         WellFormed((results \o found)[i]) /\ (results \o found)[i].slides # <<>>
  <2> TAKE i \in 1..Len(results \o found)
  <2>1. CASE i <= Len(results)
    BY <1>10, <1>11, <2>1
  <2>2. CASE ~(i <= Len(results))
    <3>1. (results \o found)[i] = found[i - Len(results)] /\ i - Len(results) \in 1..Len(found)
      BY <1>10, <1>11, <2>2
    <3> QED
      BY <1>10, <3>1
  <2> QED
    BY <2>1, <2>2
<1>13. Formed(results \o found)
  BY <1>11, <1>12 DEF Formed
<1> QED
  BY <1>4, <1>13 DEF found

-----------------------------------------------------------------------------
(* The nearby search.                                                      *)

\* What some slides of a region have found: a type for each slide.
Found(acc) ==
  /\ acc \in [slides : Seq(Nat), types : Seq(AllTypes), lastold : Nat, lastpos : Int]
  /\ Len(acc.types) = Len(acc.slides)

LEMMA NearSlideProperties ==
  ASSUME ResultsInv, NEW g, WellFormed(g), NEW v, NEW type \in Types, NEW r \in Nat,
         NEW acc, Found(acc), NEW j \in DOMAIN g.slides
  PROVE  Found(NearSlide(g, v, type, r, acc, j))
<1> DEFINE from    == Max({g.slides[j] - r, 0, acc.lastpos})
           to      == Min({g.slides[j] + r, g.size})
           found   == {x \in from..(to - 1) : memory[g.base + x] = v}
           near(x) == \E y \in {Min(found), Max(found)} : y - r < x /\ x < y + r
           old     == IF found = {} THEN {}
                      ELSE {o \in (acc.lastold + 1)..Len(g.slides) : near(g.slides[o])}
           oldAt(x) == {o \in old : g.slides[o] = x}
           slides  == {g.slides[o] : o \in old}
           matched == Ascending(found \union slides)
           typed(x) == IF oldAt(x) = {} THEN type ELSE TypeAt(g, Max(oldAt(x)), lastNumberType)
           types   == [k \in DOMAIN matched |-> typed(matched[k])]
           lastold == IF old = {} THEN acc.lastold ELSE Max(old)
<1>1. /\ g.slides \in Seq(Nat) /\ g.types \in Seq(AllTypes) /\ g.size \in Int
      /\ HasTypes(g) => DOMAIN g.types = DOMAIN g.slides
  BY DEF WellFormed, ResultRegions
<1>2. /\ acc.slides \in Seq(Nat) /\ acc.types \in Seq(AllTypes)
      /\ acc.lastold \in Nat /\ acc.lastpos \in Int /\ Len(acc.types) = Len(acc.slides)
  BY DEF Found
<1>3. g.slides[j] \in Nat /\ Len(g.slides) \in Nat /\ DOMAIN g.slides = 1..Len(g.slides)
  BY <1>1
<1>4. NearSlide(g, v, type, r, acc, j) =
        [slides |-> acc.slides \o matched, types |-> acc.types \o types,
         lastold |-> lastold, lastpos |-> to]
  BY DEF NearSlide
<1>5. from \in Nat
  <2> DEFINE S == {g.slides[j] - r, 0, acc.lastpos}
  <2>1. S \in SUBSET Int /\ S # {} /\ 0 \in S
    BY <1>2, <1>3
  <2>2. IsFiniteSet(S)
    BY TripleIsFinite
  <2> HIDE DEF S
  <2>3. Max(S) \in Int /\ 0 <= Max(S)
    BY <2>1, <2>2, MaxProperties
  <2> QED
    BY <2>3 DEF S
<1>6. to \in Int
  <2> DEFINE S == {g.slides[j] + r, g.size}
  <2>1. S \in SUBSET Int /\ S # {}
    BY <1>1, <1>3
  <2>2. IsFiniteSet(S)
    BY PairIsFinite
  <2> HIDE DEF S
  <2>3. Min(S) \in Int
    BY <2>1, <2>2, MinProperties
  <2> QED
    BY <2>3 DEF S
<1> HIDE DEF from, to
<1>7. found \in SUBSET Nat /\ IsFiniteSet(found)
  <2> DEFINE last == to - 1
  <2>1. last \in Int
    BY <1>6
  <2>2. found \in SUBSET (from..last)
    OBVIOUS
  <2> HIDE DEF found, last
  <2>3. from \in Int
    BY <1>5
  <2>4. IsFiniteSet(found)
    BY <2>1, <2>2, <2>3, BoundedIsFinite
  <2>5. found \in SUBSET Nat
    BY <1>5, <2>1, <2>2
  <2> QED
    BY <2>4, <2>5
<1> HIDE DEF found, near
<1>8. old \in SUBSET DOMAIN g.slides /\ IsFiniteSet(old)
  <2>1. old \in SUBSET (1..Len(g.slides))
    BY <1>2, <1>3
  <2> HIDE DEF old
  <2>2. 1 \in Int /\ Len(g.slides) \in Int
    BY <1>3
  <2>3. IsFiniteSet(old)
    BY <2>1, <2>2, BoundedIsFinite
  <2> QED
    BY <1>3, <2>1, <2>3
<1> HIDE DEF old
<1>9. slides \in SUBSET Nat /\ IsFiniteSet(slides)
  <2>1. slides \in SUBSET Nat
    BY <1>1, <1>8
  <2>2. IsFiniteSet(slides)
    BY <1>8, ImageIsFinite
  <2> QED
    BY <2>1, <2>2
<1> HIDE DEF slides
<1>10. matched \in Seq(Nat)
  <2> DEFINE S == found \union slides
  <2>1. S \in SUBSET Nat /\ IsFiniteSet(S)
    BY <1>7, <1>9, FS_Union
  <2> HIDE DEF S
  <2>2. Ascending(S) \in Seq(Nat)
    BY <2>1, AscendingInSeq
  <2> QED
    BY <2>2 DEF S
<1> HIDE DEF matched
<1>11. \A x : typed(x) \in AllTypes
  <2> TAKE x
  <2>1. CASE oldAt(x) = {}
    BY <2>1 DEF AllTypes
  <2>2. CASE oldAt(x) # {}
    <3> DEFINE o == Max(oldAt(x))
    <3>1. oldAt(x) \in SUBSET old
      OBVIOUS
    <3> HIDE DEF oldAt
    <3>2. IsFiniteSet(oldAt(x)) /\ oldAt(x) \in SUBSET Int
      BY <1>3, <1>8, <3>1, FS_Subset
    <3>3. o \in DOMAIN g.slides
      BY <1>8, <2>2, <3>1, <3>2, MaxProperties
    <3>4. typed(x) = TypeAt(g, o, lastNumberType)
      BY <2>2
    <3> HIDE DEF o, typed
    <3> QED
      BY <1>1, <3>3, <3>4 DEF TypeAt, ResultsInv
  <2> QED
    BY <2>1, <2>2
<1> HIDE DEF typed
<1>12. types \in Seq(AllTypes) /\ Len(types) = Len(matched)
  BY <1>10, <1>11
<1>13. lastold \in Nat
  <2>1. old # {} => Max(old) \in Nat
    <3>1. old \in SUBSET Int /\ old \in SUBSET Nat
      BY <1>3, <1>8
    <3> QED
      BY <1>8, <3>1, MaxProperties
  <2> QED
    BY <1>2, <2>1
<1> HIDE DEF types, lastold
<1>14. /\ acc.slides \o matched \in Seq(Nat)
       /\ Len(acc.slides \o matched) = Len(acc.slides) + Len(matched)
  BY <1>2, <1>10
<1>15. /\ acc.types \o types \in Seq(AllTypes)
       /\ Len(acc.types \o types) = Len(acc.types) + Len(types)
  BY <1>2, <1>12, ConcatProperties
<1>16. Len(acc.types \o types) = Len(acc.slides \o matched)
  BY <1>2, <1>12, <1>14, <1>15
<1> QED
  BY <1>4, <1>6, <1>13, <1>14, <1>15, <1>16 DEF Found

LEMMA NearSlidesProperties ==
  ASSUME ResultsInv, NEW g, WellFormed(g), NEW v, NEW type \in Types, NEW r \in Nat
  PROVE  Found(NearSlides(g, v, type, r)[Len(g.slides)])
<1> DEFINE none == [slides |-> <<>>, types |-> <<>>, lastold |-> 0, lastpos |-> 0]
           Step(acc, n) == NearSlide(g, v, type, r, acc, n)
           Upto(f, n) == f = [i \in 0..n |-> IF i = 0 THEN none ELSE Step(f[i - 1], i)]
           L == Len(g.slides)
           upTo == NearSlides(g, v, type, r)
<1>1. L \in Nat /\ DOMAIN g.slides = 1..L
  BY DEF WellFormed, ResultRegions
<1>2. upTo = CHOOSE f : Upto(f, L)
  BY DEF NearSlides
<1>3. Found(none)
  BY DEF Found
<1>4. ASSUME NEW acc, Found(acc), NEW n \in 1..L
      PROVE  Found(Step(acc, n))
  BY <1>1, <1>4, NearSlideProperties
<1> HIDE DEF none, Step, L, upTo
<1>5. \A n \in Nat : \E f : Upto(f, n)
  <2> DEFINE T == {n \in Nat : ~\E f : Upto(f, n)}
  <2> SUFFICES ASSUME T # {} PROVE FALSE
    OBVIOUS
  <2>1. T \in SUBSET Nat
    OBVIOUS
  <2> HIDE DEF T
  <2>2. PICK n \in T : \A m \in T : n <= m
    BY <2>1, LeastNumber
  <2>3. n \in Nat /\ n # 0
    <3> DEFINE f == [i \in 0..0 |-> none]
    <3>1. f = [i \in 0..0 |-> IF i = 0 THEN none ELSE Step(f[i - 1], i)]
      OBVIOUS
    <3>2. Upto(f, 0)
      BY <3>1
    <3> QED
      BY <2>2, <3>2 DEF T
  <2>4. n - 1 \in Nat /\ n - 1 \notin T
    BY <2>1, <2>2, <2>3
  <2>5. PICK f : Upto(f, n - 1)
    BY <2>4 DEF T
  <2> DEFINE h == [i \in 0..n |-> IF i = n THEN Step(f[n - 1], n) ELSE f[i]]
  <2>6. \A i \in 0..n : h[i] = IF i = 0 THEN none ELSE Step(h[i - 1], i)
    <3> TAKE i \in 0..n
    <3>1. CASE i = 0
      BY <2>3, <2>4, <2>5, <3>1
    <3>2. CASE i # 0 /\ i # n
      <4>1. i - 1 \in 0..n /\ i - 1 # n /\ i \in 0..(n - 1)
        BY <2>3, <2>4, <3>2
      <4>2. h[i] = f[i] /\ h[i - 1] = f[i - 1]
        BY <3>2, <4>1
      <4> HIDE DEF h
      <4>3. f[i] = Step(f[i - 1], i)
        BY <2>5, <3>2, <4>1
      <4> QED
        BY <3>2, <4>2, <4>3
    <3>3. CASE i = n
      <4>1. n - 1 \in 0..n /\ n - 1 # n
        BY <2>3, <2>4
      <4>2. h[n] = Step(f[n - 1], n) /\ h[n - 1] = f[n - 1]
        BY <2>3, <4>1
      <4> HIDE DEF h
      <4> QED
        BY <2>3, <3>3, <4>2
    <3> QED
      BY <3>1, <3>2, <3>3
  <2>7. h = [i \in 0..n |-> h[i]]
    OBVIOUS
  <2> HIDE DEF h
  <2>8. Upto(h, n)
    BY <2>6, <2>7
  <2> QED
    BY <2>2, <2>8 DEF T
<1>6. Upto(upTo, L)
  BY <1>1, <1>2, <1>5
<1>7. \A n \in 0..L : Found(upTo[n])
  <2> DEFINE T == {n \in 0..L : ~Found(upTo[n])}
  <2> SUFFICES ASSUME T # {} PROVE FALSE
    OBVIOUS
  <2>1. T \in SUBSET Nat
    BY <1>1
  <2> HIDE DEF T
  <2>2. PICK n \in T : \A m \in T : n <= m
    BY <2>1, LeastNumber
  <2> USE DEF T
  <2>3. \A i \in 0..L : upTo[i] = IF i = 0 THEN none ELSE Step(upTo[i - 1], i)
    BY <1>6
  <2>4. n # 0
    BY <1>1, <1>3, <2>2, <2>3
  <2>5. n \in 1..L /\ n - 1 \in 0..L /\ n - 1 \notin T
    BY <1>1, <2>2, <2>4
  <2>6. Found(Step(upTo[n - 1], n))
    BY <1>4, <2>5
  <2> QED
    BY <2>2, <2>3, <2>4, <2>6
<1> QED
  BY <1>1, <1>7 DEF L, upTo

LEMMA NearBySearchProperties ==
  ASSUME ResultsInv, NEW v, NEW type \in Types, NEW r \in Nat, NEW n \in Int
  PROVE  /\ Shaped(NearBySearch(v, type, r, n))
         /\ n = Len(results) =>
              /\ Formed(RemoveEmptyRegions(NearBySearch(v, type, r, n)))
              /\ type # lastNumberType => Typed(RemoveEmptyRegions(NearBySearch(v, type, r, n)))
<1> DEFINE fs == [i \in DOMAIN results |->
                    LET g == results[i] IN
                      IF i > n THEN g
                      ELSE IF Readable(g.base) THEN NearRegion(g, v, type, r)
                      ELSE [g EXCEPT !.slides = <<>>, !.types = <<>>]]
<1>1. /\ results \in Seq(ResultRegions)
      /\ \A i \in DOMAIN results : results[i] \in ResultRegions /\ WellFormed(results[i])
  BY DEF ResultsInv, Shaped, WellFormed
<1>2. \A i \in DOMAIN results :
        LET h == NearRegion(results[i], v, type, r) IN
          /\ WellFormed(h)
          /\ type # lastNumberType /\ h.slides # <<>> => HasTypes(h)
  <2> TAKE i \in DOMAIN results
  <2> DEFINE g == results[i]
             end == NearSlides(g, v, type, r)[Len(g.slides)]
             types == IF HasTypes(g) \/ type # lastNumberType THEN end.types ELSE <<>>
             h == NearRegion(g, v, type, r)
  <2>1. g \in ResultRegions /\ Found(end)
    BY <1>1, NearSlidesProperties
  <2>2. h = [g EXCEPT !.slides = end.slides, !.types = types]
    BY DEF NearRegion
  <2>3. end.slides \in Seq(Nat) /\ end.types \in Seq(AllTypes) /\ Len(end.types) = Len(end.slides)
    BY <2>1 DEF Found
  <2> HIDE DEF g, end, h
  <2>4. /\ types \in Seq(AllTypes) /\ (types # <<>> => Len(types) = Len(end.slides))
        /\ type # lastNumberType /\ end.slides # <<>> => types # <<>>
    BY <2>3
  <2> HIDE DEF types
  <2>5. /\ h \in ResultRegions /\ h.slides = end.slides /\ h.types = types
    BY <2>1, <2>2, <2>3, <2>4 DEF ResultRegions
  <2>6. /\ WellFormed(h)
        /\ type # lastNumberType /\ h.slides # <<>> => HasTypes(h)
    BY <2>4, <2>5 DEF WellFormed, HasTypes
  <2> QED
    BY <2>6 DEF h, g
<1>3. \A i \in DOMAIN results :
        /\ WellFormed(fs[i])
        /\ i <= n /\ fs[i].slides # <<>> => (type # lastNumberType => HasTypes(fs[i]))
  <2> TAKE i \in DOMAIN results
  <2>0. CASE i > n
    <3>1. fs[i] = results[i] /\ ~(i <= n)
      BY <1>1, <2>0
    <3> HIDE DEF fs
    <3> QED
      BY <1>1, <3>1
  <2>1. CASE ~(i > n) /\ Readable(results[i].base)
    <3>1. fs[i] = NearRegion(results[i], v, type, r)
      BY <2>1
    <3> HIDE DEF fs
    <3> QED
      BY <1>2, <3>1
  <2>2. CASE ~(i > n) /\ ~Readable(results[i].base)
    <3> DEFINE none == <<>>
    <3>1. fs[i] = [results[i] EXCEPT !.slides = none, !.types = none]
      BY <2>2
    <3> HIDE DEF fs
    <3>2. none \in Seq(Nat) /\ none \in Seq(AllTypes) /\ none = <<>>
      OBVIOUS
    <3> HIDE DEF none
    <3>3. fs[i] \in ResultRegions /\ fs[i].slides = none /\ fs[i].types = none
      BY <1>1, <3>1, <3>2 DEF ResultRegions
    <3> QED
      BY <3>2, <3>3 DEF WellFormed, HasTypes
  <2> QED
    BY <2>0, <2>1, <2>2
<1>4. fs \in Seq(ResultRegions) /\ DOMAIN fs = DOMAIN results
  <2>1. DOMAIN results = 1..Len(results) /\ Len(results) \in Nat /\ DOMAIN fs = DOMAIN results
    BY <1>1
  <2>2. fs = [i \in DOMAIN fs |-> fs[i]]
    OBVIOUS
  <2> HIDE DEF fs
  <2> QED
    BY <1>3, <2>1, <2>2 DEF WellFormed
<1>5. NearBySearch(v, type, r, n) = fs
  BY DEF NearBySearch
<1> HIDE DEF fs
<1>6. /\ RemoveEmptyRegions(fs) \in Seq(ResultRegions)
      /\ \A k \in DOMAIN RemoveEmptyRegions(fs) :
           \E i \in DOMAIN fs : RemoveEmptyRegions(fs)[k] = fs[i] /\ fs[i].slides # <<>>
  BY <1>4, RemoveEmptyProperties
<1>7. Shaped(fs) /\ Formed(RemoveEmptyRegions(fs))
  BY <1>3, <1>4, <1>6 DEF Shaped, Formed
<1>8. n = Len(results) /\ type # lastNumberType => Typed(RemoveEmptyRegions(fs))
  <2> SUFFICES ASSUME n = Len(results), type # lastNumberType
               PROVE  Typed(RemoveEmptyRegions(fs))
    OBVIOUS
  <2>1. \A i \in DOMAIN fs : i <= n
    BY <1>1, <1>4
  <2> QED
    BY <1>3, <1>4, <1>6, <2>1 DEF Typed
<1> QED
  BY <1>5, <1>7, <1>8

-----------------------------------------------------------------------------
(* The invariant.                                                          *)

LEMMA CountedIsNotEmpty == Count(results) > 0 => results # <<>>
<1> SUFFICES ASSUME results = <<>> PROVE Count(results) = 0
  OBVIOUS
<1>1. Entries(results) = {}
  BY DEF Entries
<1> QED
  BY <1>1, FS_EmptySet DEF Count

LEMMA ResultsInvInit == Init => ResultsInv
<1> SUFFICES ASSUME Init PROVE ResultsInv
  OBVIOUS
<1>1. results = <<>> /\ Shaped(results) /\ TypesAgree
  BY DEF Init, Shaped, TypesAgree
<1> QED
  BY <1>1 DEF Init, ResultsInv, AllTypes

LEMMA ResultsInvStep == ResultsInv /\ [Next]_vars => ResultsInv'
<1> SUFFICES ASSUME ResultsInv, [Next]_vars PROVE ResultsInv'
  OBVIOUS
<1>0. \A rs : Formed(rs) => Shaped(rs)
  BY DEF Formed, Shaped
<1>1. ASSUME NEW v \in Values, NEW type \in Types, NEW range \in Ranges, SearchNumber(v, type, range)
      PROVE  ResultsInv'
  <2>1. NoType \in AllTypes /\ type \in AllTypes
    BY DEF AllTypes
  <2>2. /\ results' = IF firstScanDone THEN ScanAgain(range, v, AllSlides)
                      ELSE FirstScan(range, v, NoType, ToScan(range))
        /\ lastNumberType' = type /\ lastSearchType' = type /\ firstScanDone'
        /\ mapped' = mapped /\ searches' = searches + 1 /\ Intact
    BY <1>1 DEF SearchNumber, Searched, OneMoreSearch, SearchDone
  <2>3. Formed(results')
    BY <2>1, <2>2, ScanAgainProperties, FirstScanProperties
  <2>4. TypesAgree'
    BY <2>2 DEF TypesAgree
  <2> QED
    BY <1>0, <2>1, <2>2, <2>3, <2>4 DEF ResultsInv, Shaped
<1>2. ASSUME NEW v \in Values, NEW type \in Types, NEW range \in Ranges,
             SearchNumberRunsOut(v, type, range)
      PROVE  ResultsInv'
  <2>1. NoType \in AllTypes /\ type \in AllTypes
    BY DEF AllTypes
  <2>2. /\ ScanRunsOut(v, range) /\ "searchNumber" \in starved'
        /\ lastNumberType' = type /\ lastSearchType' = type
        /\ mapped' = mapped /\ searches' = searches + 1 /\ Intact
    BY <1>2 DEF SearchNumberRunsOut, MemoryRunsOut, OneMoreSearch, SearchDone
  <2>3. Shaped(results')
    <3>1. ASSUME NEW scanned \in SUBSET ToScan(range)
          PROVE  Shaped(FirstScan(range, v, NoType, scanned))
      BY <1>0, <2>1, <2>2, FirstScanProperties
    <3>2. ASSUME NEW upTo
          PROVE  Shaped(ScanAgain(range, v, upTo))
      BY <1>0, <2>2, ScanAgainProperties
    <3>3. Shaped(results)
      BY DEF ResultsInv
    <3>4. \/ \E scanned \in SUBSET ToScan(range) : results' = FirstScan(range, v, NoType, scanned)
          \/ results' = results
          \/ \E upTo : results' = ScanAgain(range, v, upTo)
      BY <2>2 DEF ScanRunsOut
    <3> QED
      BY <3>1, <3>2, <3>3, <3>4
  <2>4. TypesAgree'
    BY <2>2 DEF TypesAgree
  <2> QED
    BY <2>1, <2>2, <2>3, <2>4 DEF ResultsInv, Shaped
<1>3. ASSUME NEW v \in Values, NEW range \in Ranges, SearchHex(v, range)
      PROVE  ResultsInv'
  <2>1. Hex \in AllTypes
    BY DEF AllTypes
  <2>2. /\ results' = IF firstScanDone THEN FilterHex(range, v)
                      ELSE FirstScan(range, v, Hex, ToScan(range))
        /\ lastNumberType' = Hex /\ lastSearchType' = Hex /\ firstScanDone'
        /\ mapped' = mapped /\ searches' = searches + 1 /\ Intact
    BY <1>3 DEF SearchHex, Searched, OneMoreSearch, SearchDone
  <2>3. Formed(results')
    BY <2>1, <2>2, FilterHexProperties, FirstScanProperties
  <2>4. TypesAgree'
    BY <2>2 DEF TypesAgree
  <2> QED
    BY <1>0, <2>1, <2>2, <2>3, <2>4 DEF ResultsInv, Shaped
<1>4. ASSUME NEW change, SearchChange(change)
      PROVE  ResultsInv'
  <2>1. /\ results' = RefineByChange(change) /\ UNCHANGED <<lastNumberType, lastSearchType, starved>>
        /\ firstScanDone' = firstScanDone /\ Count(results) > 0
        /\ mapped' = mapped /\ searches' = searches + 1 /\ Intact
    BY <1>4 DEF SearchChange, Searched, OneMoreSearch, SearchDone
  <2>2. "searchNumber" \notin starved => firstScanDone
    BY <2>1, CountedIsNotEmpty DEF ResultsInv
  <2>3. Formed(results')
    BY <2>1, RefineByChangeProperties
  <2>4. TypesAgree'
    <3>1. CASE lastSearchType = lastNumberType
      BY <2>1, <3>1 DEF TypesAgree
    <3>2. CASE lastSearchType # lastNumberType /\ "searchNearby" \notin starved
      <4>1. Typed(results)
        BY <3>2 DEF ResultsInv, TypesAgree, Typed
      <4>2. Typed(results')
        BY <2>1, <4>1, RefineByChangeProperties
      <4> QED
        BY <4>2 DEF Typed, TypesAgree
    <3>3. CASE "searchNearby" \in starved
      BY <2>1, <3>3 DEF TypesAgree
    <3> QED
      BY <3>1, <3>2, <3>3
  <2> QED
    BY <1>0, <2>1, <2>2, <2>3, <2>4 DEF ResultsInv, Shaped
<1>5. ASSUME NEW mode, NEW v \in Values, NEW type \in Types, SearchFilter(mode, v, type)
      PROVE  ResultsInv'
  <2>1. type \in AllTypes
    BY DEF AllTypes
  <2>2. /\ results' = FilterValue(mode, v, type) /\ lastNumberType' = type
        /\ firstScanDone' = firstScanDone /\ Count(results) > 0 /\ starved' = starved
        /\ mapped' = mapped /\ searches' = searches + 1 /\ Intact
    BY <1>5 DEF SearchFilter, Searched, OneMoreSearch
  <2>3. "searchNumber" \notin starved => firstScanDone
    BY <2>2, CountedIsNotEmpty DEF ResultsInv
  <2>4. Formed(results') /\ Typed(results')
    BY <2>2, FilterValueProperties
  <2>5. TypesAgree'
    BY <2>4 DEF Typed, TypesAgree
  <2> QED
    BY <1>0, <2>1, <2>2, <2>3, <2>4, <2>5 DEF ResultsInv, Shaped
<1>6. ASSUME NEW rs, NEW type, NearSearched(rs, type), Shaped(rs), starved \subseteq starved', TypesAgree'
      PROVE  ResultsInv'
  <2>1. /\ results' = rs /\ lastNumberType' = lastNumberType
        /\ firstScanDone' = firstScanDone /\ Count(results) > 0
        /\ mapped' = mapped /\ searches' = searches + 1
    BY <1>6 DEF NearSearched, OneMoreSearch
  <2>2. "searchNumber" \notin starved => firstScanDone
    BY <2>1, CountedIsNotEmpty DEF ResultsInv
  <2> QED
    BY <1>6, <2>1, <2>2 DEF ResultsInv, Shaped
<1>7. ASSUME NEW v \in Values, NEW type \in Types, NEW r \in 1..MaxDistance, SearchNearby(v, type, r)
      PROVE  ResultsInv'
  <2> DEFINE rs == RemoveEmptyRegions(NearBySearch(v, type, r, Len(results)))
  <2>1. r \in Nat /\ Len(results) \in Int
    BY DEF ResultsInv, Shaped
  <2>2. Formed(rs) /\ (type # lastNumberType => Typed(rs))
    BY <2>1, NearBySearchProperties
  <2>3. NearSearched(rs, type) /\ starved' = starved
    BY <1>7 DEF SearchNearby
  <2> HIDE DEF rs
  <2>4. results' = rs /\ lastSearchType' = type /\ lastNumberType' = lastNumberType
    BY <2>3 DEF NearSearched, SearchDone
  <2>5. TypesAgree'
    BY <2>2, <2>4 DEF Typed, TypesAgree
  <2> QED
    BY <1>0, <1>6, <2>2, <2>3, <2>5
<1>8. ASSUME NEW v \in Values, NEW type \in Types, NEW r \in 1..MaxDistance,
             NEW n \in 0..(Len(results) - 1), SearchNearbyRunsOut(v, type, r, n)
      PROVE  ResultsInv'
  <2>1. r \in Nat /\ n \in Int
    OBVIOUS
  <2>2. Shaped(NearBySearch(v, type, r, n))
    BY <2>1, NearBySearchProperties
  <2>3. /\ NearSearched(NearBySearch(v, type, r, n), type)
        /\ starved \subseteq starved' /\ "searchNearby" \in starved'
    BY <1>8 DEF SearchNearbyRunsOut, MemoryRunsOut
  <2>4. TypesAgree'
    BY <2>3 DEF TypesAgree
  <2> QED
    BY <1>6, <2>2, <2>3, <2>4
<1>9. CASE ClearResults
  <2>1. results' = <<>> /\ searches' = 0 /\ mapped' = mapped /\ lastNumberType' = NoType
    BY <1>9 DEF ClearResults
  <2>2. Shaped(results') /\ TypesAgree'
    BY <2>1 DEF Shaped, TypesAgree
  <2> QED
    BY <2>1, <2>2 DEF ResultsInv, Shaped, AllTypes
<1>10. ASSUME NEW a, NEW v, TargetWrites(a, v)
       PROVE  ResultsInv'
  BY <1>10 DEF TargetWrites, engineVars, ResultsInv, TypesAgree, Shaped, WellFormed, HasTypes
<1>11. ASSUME NEW b, TargetUnmaps(b)
       PROVE  ResultsInv'
  <2>1. mapped' \subseteq Regions
    BY <1>11 DEF TargetUnmaps, ResultsInv
  <2> QED
    BY <1>11, <2>1 DEF TargetUnmaps, engineVars, ResultsInv, TypesAgree, Shaped, WellFormed, HasTypes
<1>12. CASE UNCHANGED vars
  BY <1>12 DEF vars, engineVars, ResultsInv, TypesAgree, Shaped, WellFormed, HasTypes
<1> QED
  BY <1>1, <1>2, <1>3, <1>4, <1>5, <1>7, <1>8, <1>9, <1>10, <1>11, <1>12 DEF Next

\* What getResults shows and what searchChange compares are results of the
\* same types, whatever searches there have been, unless memory ran out in a
\* nearby search.
THEOREM PageAndEngineAgree == Spec => []TypesAgree
<1>1. ResultsInv => TypesAgree
  BY DEF ResultsInv
<1> QED
  BY ResultsInvInit, ResultsInvStep, <1>1, PTL DEF Spec

-----------------------------------------------------------------------------
(* Searches narrow.                                                        *)

LEMMA NarrowingStep ==
  ASSUME ResultsInv, [Next]_vars, 0 < searches, searches < searches', ~unsaved',
         "searchNumber" \notin starved
  PROVE  Listed(results') \subseteq Listed(results)
<1>1. firstScanDone /\ searches \in Nat
  BY DEF ResultsInv
<1>2. ASSUME NEW v, NEW type, NEW range, SearchNumber(v, type, range)
      PROVE  Listed(results') \subseteq Listed(results)
  <2>1. results' = ScanAgain(range, v, AllSlides) /\ Intact
    BY <1>1, <1>2 DEF SearchNumber, Searched, OneMoreSearch
  <2> QED
    BY <2>1, ScanAgainProperties
<1>3. ASSUME NEW v, NEW range, SearchHex(v, range)
      PROVE  Listed(results') \subseteq Listed(results)
  <2>1. results' = FilterHex(range, v) /\ Intact
    BY <1>1, <1>3 DEF SearchHex, Searched, OneMoreSearch
  <2> QED
    BY <2>1, FilterHexProperties
<1>4. ASSUME NEW change, SearchChange(change)
      PROVE  Listed(results') \subseteq Listed(results)
  <2>1. results' = RefineByChange(change) /\ Intact
    BY <1>4 DEF SearchChange, Searched, OneMoreSearch
  <2> QED
    BY <2>1, RefineByChangeProperties
<1>5. ASSUME NEW mode, NEW v, NEW type \in Types, SearchFilter(mode, v, type)
      PROVE  Listed(results') \subseteq Listed(results)
  <2>1. results' = FilterValue(mode, v, type) /\ Intact
    BY <1>5 DEF SearchFilter, Searched, OneMoreSearch
  <2> QED
    BY <2>1, FilterValueProperties
<1>6. /\ \A rs, type : ~NearSearched(rs, type)
      /\ \A v, type, range : ~SearchNumberRunsOut(v, type, range)
  BY DEF NearSearched, SearchNumberRunsOut
<1>7. ~ClearResults
  BY <1>1 DEF ClearResults
<1>8. ~((\E a, v : TargetWrites(a, v)) \/ (\E b : TargetUnmaps(b)) \/ UNCHANGED vars)
  <2>1. searches' # searches
    BY <1>1
  <2> QED
    BY <2>1 DEF TargetWrites, TargetUnmaps, vars, engineVars
<1> QED
  BY <1>2, <1>3, <1>4, <1>5, <1>6, <1>7, <1>8 DEF Next, SearchNearby, SearchNearbyRunsOut

\* After the first search, no search but a nearby one adds a result, unless
\* memory ran out in a scan.
THEOREM LaterSearchesNarrow == Spec => SearchesNarrow
<1>1. ResultsInv /\ [Next]_vars
        => [0 < searches /\ searches < searches' /\ ~unsaved' /\ "searchNumber" \notin starved
              => Listed(results') \subseteq Listed(results)]_vars
  BY NarrowingStep
<1> QED
  BY ResultsInvInit, ResultsInvStep, <1>1, PTL DEF Spec, SearchesNarrow

-----------------------------------------------------------------------------
(* The snapshot.                                                           *)

LEMMA SavedInvInit == Init => SavedInv
BY DEF Init, SavedInv

LEMMA SavedInvStep == SavedInv /\ [Next]_vars => SavedInv'
<1> SUFFICES ASSUME SavedInv, [Next]_vars PROVE SavedInv'
  OBVIOUS
<1>1. ASSUME NEW rs, NEW type, Searched(rs, type)
      PROVE  SavedInv'
  <2>1. /\ snapshot' = SaveSnapshot(rs, type)
        /\ results' = rs /\ lastNumberType' = type
    BY <1>1 DEF Searched
  <2>2. \A a \in DOMAIN SaveSnapshot(rs, type) :
          SaveSnapshot(rs, type)[a].type = SavedType(rs, a, type)
    BY DEF SaveSnapshot
  <2>3. \A a : SavedType(rs, a, type) = SavedType(results', a, lastNumberType')
    BY <2>1
  <2> QED
    BY <2>1, <2>2, <2>3 DEF SavedInv
<1>2. ASSUME NEW v, NEW type, NEW range, SearchNumber(v, type, range)
      PROVE  SavedInv'
  BY <1>1, <1>2 DEF SearchNumber
<1>3. ASSUME NEW v, NEW range, SearchHex(v, range)
      PROVE  SavedInv'
  BY <1>1, <1>3 DEF SearchHex
<1>4. ASSUME NEW change, SearchChange(change)
      PROVE  SavedInv'
  BY <1>1, <1>4 DEF SearchChange
<1>5. ASSUME NEW mode, NEW v, NEW type, SearchFilter(mode, v, type)
      PROVE  SavedInv'
  BY <1>1, <1>5 DEF SearchFilter
<1>6. ASSUME unsaved'
      PROVE  SavedInv'
  BY <1>6 DEF SavedInv
<1>10. /\ \A rs, type : NearSearched(rs, type) => unsaved'
       /\ \A v, type, range : SearchNumberRunsOut(v, type, range) => unsaved'
  BY DEF NearSearched, SearchNumberRunsOut
<1>7. CASE ClearResults
  BY <1>7 DEF ClearResults, SavedInv
<1>8. CASE UNCHANGED engineVars
  BY <1>8 DEF engineVars, SavedInv
<1>9. (\E a, v : TargetWrites(a, v)) \/ (\E b : TargetUnmaps(b)) \/ UNCHANGED vars
        => UNCHANGED engineVars
  BY DEF TargetWrites, TargetUnmaps, vars
<1> QED
  BY <1>2, <1>3, <1>4, <1>5, <1>6, <1>7, <1>8, <1>9, <1>10 DEF Next, SearchNearby, SearchNearbyRunsOut

LEMMA EntriesAreFinite ==
  ASSUME NEW rs, Shaped(rs)
  PROVE  IsFiniteSet(Entries(rs))
<1> DEFINE of == [i \in DOMAIN rs |-> {<<i, j>> : j \in DOMAIN rs[i].slides}]
           all == {of[i] : i \in DOMAIN rs}
<1>1. IsFiniteSet(DOMAIN rs)
  <2>1. DOMAIN rs = 1..Len(rs) /\ Len(rs) \in Nat
    BY DEF Shaped
  <2> QED
    BY <2>1, FS_Interval
<1>2. \A i \in DOMAIN rs : IsFiniteSet(of[i])
  <2> TAKE i \in DOMAIN rs
  <2> DEFINE J == DOMAIN rs[i].slides
             f == [j \in J |-> <<i, j>>]
  <2>1. J = 1..Len(rs[i].slides) /\ Len(rs[i].slides) \in Nat
    BY DEF Shaped, WellFormed, ResultRegions
  <2>2. IsFiniteSet(J)
    BY <2>1, FS_Interval
  <2>3. of[i] = {f[j] : j \in J}
    OBVIOUS
  <2> HIDE DEF of, f, J
  <2> QED
    BY <2>2, <2>3, ImageIsFinite
<1>3. Entries(rs) = UNION all
  BY DEF Entries
<1> HIDE DEF of
<1>4. IsFiniteSet(all) /\ \A s \in all : IsFiniteSet(s)
  BY <1>1, <1>2, ImageIsFinite
<1> HIDE DEF all
<1> QED
  BY <1>3, <1>4, FS_UNION

\* No two results have one address.
LEMMA DistinctEntries ==
  ASSUME Shaped(results), ResultsAreDistinct,
         NEW e1 \in Entries(results), NEW e2 \in Entries(results),
         Address(results[e1[1]], e1[2]) = Address(results[e2[1]], e2[2])
  PROVE  e1 = e2
<1> DEFINE E == Entries(results)
           L == Listed(results)
           f == [e \in E |-> Address(results[e[1]], e[2])]
<1>1. f \in Surjection(E, L)
  BY DEF Listed, Surjection
<1>2. IsFiniteSet(E) /\ Cardinality(E) = Cardinality(L)
  BY EntriesAreFinite DEF ResultsAreDistinct, Count
<1>3. f[e1] = f[e2] /\ e1 \in E /\ e2 \in E
  OBVIOUS
<1> HIDE DEF E, L, f
<1>4. f \in Injection(E, L)
  BY <1>1, <1>2, FS_SurjSameCardinalityImpliesInj
<1> QED
  BY <1>3, <1>4 DEF Injection, IsInjective

LEMMA MaxOfSingleton ==
  ASSUME NEW x \in Int
  PROVE  Max({x}) = x
<1>1. IsFiniteSet({x}) /\ {x} \in SUBSET Int /\ {x} # {}
  BY FS_Singleton
<1>2. Max({x}) \in {x}
  BY <1>1, MaxProperties
<1> QED
  BY <1>2

LEMMA SavedTypeIsItsOwn ==
  ASSUME Shaped(results), ResultsAreDistinct, NEW type,
         NEW i \in DOMAIN results, NEW j \in DOMAIN results[i].slides
  PROVE  SavedType(results, Address(results[i], j), type) = TypeAt(results[i], j, type)
<1> DEFINE a == Address(results[i], j)
           Lists(k) == {l \in DOMAIN results[k].slides : Address(results[k], l) = a}
           listing == {k \in DOMAIN results : Lists(k) # {}}
<1>1. ASSUME NEW k \in DOMAIN results, NEW l \in Lists(k)
      PROVE  k = i /\ l = j
  <2>1. <<k, l>> \in Entries(results) /\ <<i, j>> \in Entries(results)
    BY DEF Entries
  <2>2. Address(results[k], l) = Address(results[i], j)
    OBVIOUS
  <2>3. <<k, l>> = <<i, j>>
    BY <2>1, <2>2, DistinctEntries
  <2> QED
    BY <2>3
<1>2. j \in Lists(i)
  OBVIOUS
<1>3. i \in Int /\ j \in Int
  BY DEF Shaped, WellFormed, ResultRegions
<1>4. SavedType(results, a, type) = TypeAt(results[Max(listing)], Max(Lists(Max(listing))), type)
  BY DEF SavedType
<1> HIDE DEF a, Lists
<1>5. Lists(i) = {j}
  BY <1>1, <1>2
<1>6. listing = {i}
  BY <1>1, <1>2
<1> HIDE DEF listing
<1>7. Max(listing) = i /\ Max(Lists(i)) = j
  BY <1>3, <1>5, <1>6, MaxOfSingleton
<1> QED
  BY <1>4, <1>7 DEF a

\* searchChange compares a value with one saved as the same type, unless a
\* nearby search or one that memory ran out in came last, or an address is
\* listed twice.
THEOREM SnapshotMatches == Spec => []SnapshotMatchesAfterScan
<1>1. ResultsInv /\ SavedInv => SnapshotMatchesAfterScan
  BY SavedTypeIsItsOwn DEF ResultsInv, SavedInv, SnapshotMatchesAfterScan
<1> QED
  BY ResultsInvInit, ResultsInvStep, SavedInvInit, SavedInvStep, <1>1, PTL DEF Spec
=============================================================================
