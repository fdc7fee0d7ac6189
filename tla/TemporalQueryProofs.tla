------------------------- MODULE TemporalQueryProofs -------------------------
(***************************************************************************)
(* What a query by time promises, for every file and every sequence of     *)
(* loads, failures and dropped futures.                                    *)
(*                                                                         *)
(* A query uses both caches by their own steps (UsesTheHierarchy,          *)
(* UsesTheIndex), so that what HierarchyCacheProofs and                    *)
(* TemporalCacheProofs say of them holds inside of it; what PointRange-    *)
(* Proofs says of one node holds of each node of the join.  The invariant  *)
(* of the query itself is QInv: which load each of its stages waits for,   *)
(* that neither load gives up a key that was promised when it began, and   *)
(* that what it fetches is the join it computed.                           *)
(***************************************************************************)
EXTENDS TemporalQuery, HierarchyCacheProofs

P == INSTANCE TemporalCacheProofs WITH
        Key <- VoxelKey, Page <- TPage, RootPage <- TRootPage, Wire <- TWire,
        header <- theader, entries <- tentries, pending_pages <- tpending,
        call <- tcall, pc <- tpc, inflight <- tinflight, outcome <- toutcome,
        parsed <- tparsed, lost <- tlost, repaired <- trepaired

(* Only the lemmas on the estimate of a node are used, which are about no variable. *)
Estimates == INSTANCE PointRangeProofs WITH
        Time <- Int, MaxPoints <- U32 - 1, Stride <- Nat \ {0},
        n <- 0, times <- << >>, stride <- 1,
        entry <- [count |-> 1, samples |-> << >>],
        query <- << >>, overlap <- FALSE, range <- << >>

-----------------------------------------------------------------------------
(* The inductive invariant.                                                *)

(* The loads a query makes. *)
HierarchyLoad ==
    IF asked.op \in ByTime THEN [op |-> "load_all"]
    ELSE [op |-> "load_pages_for_bounds", box |-> asked.box]

IndexLoad == [op |-> "load_pages_for_time_range", window |-> asked.window]

StageInv ==
    /\ stage # "idle" =>
          asked \in Question /\ root_loaded /\ answer = << >> /\ points = {}
    /\ stage = "hierarchy" => tpc = "idle" /\ call = HierarchyLoad
    /\ stage \in {"index", "fetch"} =>
          /\ pc = "idle" /\ outcome = "ok" /\ call = HierarchyLoad
          /\ tcall = IndexLoad
    /\ stage = "fetch" => tpc = "idle" /\ toutcome = "ok"

MatchesInv ==
    /\ stage = "fetch" => matches \in Bijection(1 .. Cardinality(Candidates), Candidates)
    /\ stage # "fetch" => matches = << >>

AvailableKeys ==
    { e.key : e \in UNION { Nodes(p) :
                  p \in ReachableFrom({RootPage}) \ ReachableFrom(lost) } }

IndexedKeys ==
    { r.key : r \in UNION { T!Nodes(p) :
                  p \in T!ReachableFrom({TRootPage} \cap tparsed) \ T!ReachableFrom(tlost) } }

(* A key is lost during a query only by a load that fails the query. *)
PromiseInv ==
    /\ (stage = "hierarchy" /\ (pc = "idle" => outcome = "ok")) \/ stage \in {"index", "fetch"} =>
          promised \subseteq AvailableKeys
    /\ \/ stage \in {"hierarchy", "fetch"}
       \/ stage = "index" /\ (tpc = "idle" => toutcome = "ok")
       => promised \subseteq IndexedKeys

TypesInv ==
    /\ stage \in {"idle", "hierarchy", "index", "fetch"}
    /\ asked \in Question \cup [op : {"none"}]
    /\ reply \in {"none", "ok", "err"}
    /\ promised \subseteq NodeKeys
    /\ \A q \in points : q[1] \in NodeKeys /\ q[2] \in Upto(Chunk[q[1]].count)

QInv ==
    /\ StageInv
    /\ MatchesInv
    /\ PromiseInv
    /\ TypesInv
    /\ RangesOfTheirChunks
    /\ ChunksFound
    /\ PointsFound

-----------------------------------------------------------------------------
(* TemporalCacheProofs and PointRangeProofs are about the same operators.  *)

LEMMA SameFile == P!FileAssumption
BY IndexAssumption
   DEF P!FileAssumption, P!IndexFile, T!IndexFile, P!Node, T!Node, P!Pointer, T!Pointer,
       P!Interval, T!Interval, P!Within, T!Within, P!Pointers, T!Pointers, P!Nodes, T!Nodes,
       P!AllNodes, T!AllNodes, P!IsFiniteSet, T!IsFiniteSet, P!EvlrRecord, T!EvlrRecord

LEMMA SameReachable ==
    ASSUME NEW S
    PROVE  P!ReachableFrom(S) = T!ReachableFrom(S)
BY DEF P!ReachableFrom, T!ReachableFrom, P!Closed, T!Closed, P!TargetsOf, T!TargetsOf,
       P!Targets, T!Targets, P!Pointers, T!Pointers, P!Node, T!Node, P!Interval, T!Interval

LEMMA SameTree == P!TreeAssumption
BY IndexAssumption, SameReachable DEF P!TreeAssumption

LEMMA SameNodes ==
    ASSUME NEW p
    PROVE  P!Nodes(p) = T!Nodes(p)
BY DEF P!Nodes, T!Nodes, P!Node, T!Node, P!Interval, T!Interval

LEMMA SameRange ==
    ASSUME NEW e, NEW start, NEW end, NEW step, NEW count
    PROVE  Estimates!estimate_point_range(e, start, end, step, count)
             = estimate_point_range(e, start, end, step, count)
BY DEF Estimates!estimate_point_range, estimate_point_range,
       Estimates!partition_point, partition_point, Estimates!Upto, Upto,
       Estimates!Smaller, Smaller, Estimates!AsU32, AsU32, Estimates!NoPoints, NoPoints

LEMMA EstimatesAssumption == Estimates!PointRangeAssumption
BY QueryAssumption DEF Estimates!PointRangeAssumption

-----------------------------------------------------------------------------
(* A query uses its caches by their own methods, one at a time.            *)

LEMMA StepUsesTheHierarchy == [QueryNext]_queryVars => [Next]_vars
<1> SUFFICES ASSUME [QueryNext]_queryVars
             PROVE  [Next]_vars
    OBVIOUS
<1>1. CASE OpenReader
    BY <1>1 DEF OpenReader, Next, Calls
<1>2. CASE UseReader
    BY <1>2 DEF UseReader, Next
<1>3. CASE UseIndex
    BY <1>3 DEF UseIndex, hvars
<1>4. ASSUME NEW c \in Question, Query(c)
      PROVE  Next
    <2>1. CASE c.op \in ByTime
        BY <1>4, <2>1 DEF Query, Next, Calls
    <2>2. CASE c.op \notin ByTime
        <3>1. c.box \in Box
            BY <2>2 DEF Question
        <3>2. LoadPagesForBounds(c.box)
            BY <1>4, <2>2 DEF Query
        <3>3. QED
            BY <3>1, <3>2 DEF Next, Calls
    <2>3. QED
        BY <2>1, <2>2
<1>5. CASE HierarchyStep \/ HierarchyDrop
    BY <1>5 DEF HierarchyStep, HierarchyDrop, Next
<1>6. CASE IndexStep \/ IndexDrop \/ HierarchyLoaded \/ IndexLoaded \/ Fetched \/ FetchFails
    BY <1>6 DEF IndexStep, IndexDrop, HierarchyLoaded, IndexLoaded, Fetched, FetchFails, hvars
<1>7. CASE UNCHANGED queryVars
    BY <1>7 DEF queryVars, hvars
<1>8. QED
    BY <1>1, <1>2, <1>3, <1>4, <1>5, <1>6, <1>7 DEF QueryNext, Requests, Steps

(* Whatever the caller does, the hierarchy of the reader sees a legal      *)
(* sequence of calls (temporal_cache.rs:290, 341).                         *)
THEOREM UsesTheHierarchy == QuerySpec => Spec
<1>1. QueryInit => Init
    BY DEF QueryInit
<1>2. QED
    BY <1>1, StepUsesTheHierarchy, PTL DEF QuerySpec, Spec

(* A query loads the window it was asked for, which is one of Window. *)
AskedInv == stage = "hierarchy" => asked \in Question

LEMMA InitAskedInv == QueryInit => AskedInv
BY DEF QueryInit, AskedInv

LEMMA StepAskedInv == AskedInv /\ [QueryNext]_queryVars => AskedInv'
BY DEF AskedInv, QueryNext, Requests, Steps, OpenReader, UseReader, UseIndex, Query,
       HierarchyStep, HierarchyDrop, IndexStep, IndexDrop, HierarchyLoaded, IndexLoaded,
       Fetched, FetchFails, Fail, query, queryVars

LEMMA StepUsesTheIndex == AskedInv /\ [QueryNext]_queryVars => [T!Next]_(T!vars)
<1> SUFFICES ASSUME AskedInv, [QueryNext]_queryVars
             PROVE  T!Next \/ UNCHANGED T!vars
    OBVIOUS
<1>1. ASSUME UNCHANGED tvars PROVE UNCHANGED T!vars
    BY <1>1 DEF tvars, T!vars, T!file, T!cache, T!past
<1>2. CASE OpenReader \/ UseReader \/ HierarchyStep \/ HierarchyDrop
    BY <1>1, <1>2 DEF OpenReader, UseReader, HierarchyStep, HierarchyDrop
<1>3. CASE UseIndex
    BY <1>3 DEF UseIndex, T!Next, T!Calls
<1>4. CASE \E c \in Question : Query(c)
    BY <1>1, <1>4 DEF Query
<1>5. CASE IndexStep \/ IndexDrop
    BY <1>5 DEF IndexStep, IndexDrop, T!Next
<1>6. CASE HierarchyLoaded
    <2>1. asked.window \in Window
        BY <1>6 DEF HierarchyLoaded, AskedInv, Question
    <2>2. T!LoadPagesForTimeRange(asked.window) \/ UNCHANGED tvars
        BY <1>6 DEF HierarchyLoaded
    <2>3. QED
        BY <1>1, <2>1, <2>2 DEF T!Next, T!Calls
<1>7. CASE IndexLoaded \/ Fetched \/ FetchFails
    BY <1>1, <1>7 DEF IndexLoaded, Fetched, FetchFails
<1>8. CASE UNCHANGED queryVars
    BY <1>1, <1>8 DEF queryVars
<1>9. QED
    BY <1>2, <1>3, <1>4, <1>5, <1>6, <1>7, <1>8 DEF QueryNext, Requests, Steps

(* So does the temporal index (temporal_cache.rs:291, 342).                *)
THEOREM UsesTheIndex == QuerySpec => T!Spec
<1>1. QueryInit => T!Init
    BY DEF QueryInit
<1>2. QED
    BY <1>1, InitAskedInv, StepAskedInv, StepUsesTheIndex, PTL DEF QuerySpec, T!Spec

LEMMA SameStep == [T!Next]_(T!vars) => [P!Next]_(P!vars)
<1> SUFFICES ASSUME [T!Next]_(T!vars)
             PROVE  P!Next \/ UNCHANGED P!vars
    OBVIOUS
<1> USE DEF T!Finish, P!Finish, T!file, P!file, T!cache, P!cache, T!past, P!past,
            T!NoHeader, P!NoHeader, T!Renew, P!Renew, T!Start, P!Start,
            T!Offsets, P!Offsets, T!ValidHeader, P!ValidHeader
<1>1. ASSUME UNCHANGED T!vars PROVE UNCHANGED P!vars
    BY <1>1 DEF T!vars, P!vars
<1>2. T!LoadHeader => P!LoadHeader
    BY DEF T!LoadHeader, P!LoadHeader
<1>3. T!FromReader => P!FromReader
    BY DEF T!FromReader, P!FromReader
<1>4. T!LoadRootPage => P!LoadRootPage
    BY DEF T!LoadRootPage, P!LoadRootPage
<1>5. T!LoadAllPages => P!LoadAllPages
    BY DEF T!LoadAllPages, P!LoadAllPages
<1>6. ASSUME NEW w
      PROVE  /\ T!LoadPagesForTimeRange(w) => P!LoadPagesForTimeRange(w)
             /\ T!Query(w) => P!Query(w)
    BY DEF T!LoadPagesForTimeRange, P!LoadPagesForTimeRange, T!Query, P!Query
<1>7. T!Calls => P!Calls
    BY <1>2, <1>3, <1>4, <1>5, <1>6 DEF T!Calls, P!Calls
<1>8. T!Matching = P!Matching
    BY DEF T!Matching, P!Matching, T!Selected, P!Selected, T!Overlaps, P!Overlaps
<1>9. ASSUME NEW done, NEW begun
      PROVE  T!Parse(done, begun) => P!Parse(done, begun)
    BY SameNodes DEF T!Parse, P!Parse, T!Pointers, P!Pointers, T!Node, P!Node,
       T!Interval, P!Interval
<1>10. T!Batch = P!Batch
    BY DEF T!Batch, P!Batch
<1>11. T!EvlrRead => P!EvlrRead
    BY DEF T!EvlrRead, P!EvlrRead
<1>12. T!NoIndex => P!NoIndex
    BY DEF T!NoIndex, P!NoIndex
<1>13. T!HeaderRead => P!HeaderRead
    BY DEF T!HeaderRead, P!HeaderRead
<1>14. T!HeaderInvalid => P!HeaderInvalid
    BY DEF T!HeaderInvalid, P!HeaderInvalid
<1>15. T!TakeBatch => P!TakeBatch
    BY <1>8 DEF T!TakeBatch, P!TakeBatch
<1>16. T!Return => P!Return
    BY <1>8 DEF T!Return, P!Return
<1>17. T!PagesRead => P!PagesRead
    BY <1>9, <1>10 DEF T!PagesRead, P!PagesRead
<1>18. T!PageCut => P!PageCut
    BY <1>9, <1>10 DEF T!PageCut, P!PageCut
<1>19. ASSUME NEW result
       PROVE  T!Abandon(result) => P!Abandon(result)
    BY DEF T!Abandon, P!Abandon
<1>20. T!Progress => P!Progress
    BY <1>11, <1>12, <1>13, <1>14, <1>15, <1>16, <1>17, <1>18, <1>19
       DEF T!Progress, P!Progress, T!ReadFails, P!ReadFails
<1>21. T!Cancel => P!Cancel
    BY <1>19 DEF T!Cancel, P!Cancel
<1>22. QED
    BY <1>1, <1>7, <1>20, <1>21 DEF T!Next, P!Next

LEMMA SameSpec == T!Spec => P!Spec
<1>1. T!Init => P!Init
    BY DEF T!Init, P!Init, T!NoHeader, P!NoHeader
<1>2. QED
    BY <1>1, SameStep, PTL DEF T!Spec, P!Spec

LEMMA IndexInvariant == QuerySpec => []P!IInv
BY UsesTheIndex, SameSpec, SameFile, SameTree, P!TemporalCacheInvariant, PTL

-----------------------------------------------------------------------------
(* The nodes of the two indexes.                                           *)

LEMMA ChunkFacts ==
    ASSUME NEW p \in Page, NEW e \in Nodes(p)
    PROVE  /\ e.key \in NodeKeys /\ e.key \in VoxelKey
           /\ e.point_count \in 0 .. U32 - 1
           /\ e.point_count = Chunk[e.key].count
           /\ \A i \in Upto(e.point_count) :
                 /\ Chunk[e.key].time[i] \in Int
                 /\ Chunk[e.key].pos[i] \in Point
                 /\ intersects(bounds(e.key), [min |-> Chunk[e.key].pos[i],
                                               max |-> Chunk[e.key].pos[i]])
<1>1. e \in WireEntry /\ e.point_count >= 0
    BY FileAssumption DEF Nodes, IsNode
<1>2. e.key \in VoxelKey /\ e.point_count \in Int
    BY <1>1 DEF WireEntry
<1>3. e.key \in NodeKeys
    BY DEF NodeKeys
<1>4. e.point_count < U32 /\ U32 \in Nat
    BY QueryAssumption
<1>5. e.point_count \in 0 .. U32 - 1
    BY <1>1, <1>2, <1>4
<1>6. QED
    BY <1>2, <1>3, <1>5, QueryAssumption

LEMMA KeyFacts ==
    ASSUME NEW k \in NodeKeys
    PROVE  /\ k \in VoxelKey
           /\ Chunk[k].count \in 0 .. U32 - 1
           /\ Chunk[k].count \in Nat
           /\ \A i \in Upto(Chunk[k].count) :
                 /\ Chunk[k].time[i] \in Int
                 /\ Chunk[k].pos[i] \in Point
                 /\ intersects(bounds(k), [min |-> Chunk[k].pos[i], max |-> Chunk[k].pos[i]])
<1>1. PICK p \in Page : \E e \in Nodes(p) : k = e.key
    BY DEF NodeKeys
<1>2. PICK e \in Nodes(p) : k = e.key
    BY <1>1
<1>3. Chunk[k].count \in 0 .. U32 - 1
    BY <1>2, ChunkFacts
<1>4. QED
    BY <1>2, <1>3, ChunkFacts

LEMMA EntryFacts ==
    ASSUME IInv, NEW h \in entries
    PROVE  h.key \in NodeKeys /\ h.point_count = Chunk[h.key].count
<1>1. PICK p \in loaded : \E e \in Nodes(p) : h = EntryOf(e)
    BY DEF IInv, EntriesParsed, EntriesIn
<1>2. PICK e \in Nodes(p) : h = EntryOf(e)
    BY <1>1
<1>3. h.key = e.key /\ h.point_count = e.point_count
    BY <1>2 DEF EntryOf
<1>4. p \in Page
    BY DEF IInv, TypeOK
<1>5. QED
    BY <1>3, <1>4, ChunkFacts

LEMMA IndexEntryFacts ==
    ASSUME NEW p \in TPage, NEW r \in T!Nodes(p)
    PROVE  /\ Estimates!OrderedEntry(Entry[r.key])
           /\ r.span = [start |-> Entry[r.key].samples[0],
                        end   |-> Entry[r.key].samples[Entry[r.key].count - 1]]
BY QueryAssumption
   DEF Estimates!OrderedEntry, Estimates!Upto, Upto, Estimates!Sorted, Sorted

LEMMA IndexedNodes ==
    ASSUME P!IInv, NEW r \in tentries
    PROVE  /\ \E p \in TPage : r \in T!Nodes(p)
           /\ theader # T!NoHeader
<1>1. \E p \in TPage : r \in P!Nodes(p)
    BY DEF P!IInv, P!PagesInv
<1>2. theader # P!NoHeader
    BY DEF P!IInv, P!LoadedInv
<1>3. QED
    BY <1>1, <1>2, SameNodes DEF P!NoHeader, T!NoHeader

(* The header of the cache is the one the file has. *)
LEMMA StrideFacts ==
    ASSUME P!IInv, theader # T!NoHeader
    PROVE  theader.stride = FileStride /\ FileStride \in Nat \ {0}
<1>1. P!FirstHas(theader.stride)
    BY DEF P!IInv, P!HeaderInv, P!NoHeader, T!NoHeader
<1>2. PICK i \in 1 .. Len(evlrs) :
          /\ evlrs[i].temporal /\ evlrs[i].version = 1
          /\ theader.stride = evlrs[i].stride /\ theader.stride > 0
          /\ \A j \in 1 .. i - 1 : ~evlrs[j].temporal
    BY <1>1 DEF P!FirstHas
<1>3. /\ DOMAIN evlrs = 1 .. Len(evlrs) /\ Len(evlrs) \in Nat
      /\ theader.stride \in Nat
    BY SameFile DEF P!FileAssumption, P!IndexFile, P!IInv, P!TypeOK
<1>4. \E j \in DOMAIN evlrs :
          evlrs[j].temporal /\ \A l \in 1 .. j - 1 : ~evlrs[l].temporal
    BY <1>2, <1>3
<1>5. /\ FirstIndex \in DOMAIN evlrs
      /\ evlrs[FirstIndex].temporal
      /\ \A l \in 1 .. FirstIndex - 1 : ~evlrs[l].temporal
    BY <1>4 DEF FirstIndex
<1>6. FirstIndex \in Nat /\ i \in Nat /\ FirstIndex >= 1 /\ i >= 1
    BY <1>3, <1>5
<1>7. ~(FirstIndex \in 1 .. i - 1) /\ ~(i \in 1 .. FirstIndex - 1)
    BY <1>2, <1>5
<1>8. FirstIndex = i
    BY <1>6, <1>7
<1>9. QED
    BY <1>2, <1>3, <1>8 DEF FileStride

(* A cell that holds a point of a box meets the box. *)
LEMMA PointInCell ==
    ASSUME NEW k \in VoxelKey, NEW b \in Aabb, NEW x \in Point,
           intersects(bounds(k), [min |-> x, max |-> x]),
           \A a \in Axis : x[a] \in b.min[a] .. b.max[a]
    PROVE  intersects(bounds(k), b)
<1>1. bounds(k) \in Aabb
    BY BoundsType
<1>2. ASSUME NEW a \in Axis
      PROVE  bounds(k).min[a] <= b.max[a] /\ bounds(k).max[a] >= b.min[a]
    <2>1. /\ bounds(k).min[a] \in Int /\ bounds(k).max[a] \in Int
          /\ b.min[a] \in Int /\ b.max[a] \in Int /\ x[a] \in Int
        BY <1>1 DEF Aabb, Point
    <2>2. bounds(k).min[a] <= x[a] /\ bounds(k).max[a] >= x[a]
        BY DEF intersects
    <2>3. b.min[a] <= x[a] /\ x[a] <= b.max[a]
        BY <2>1
    <2>4. QED
        BY <2>1, <2>2, <2>3
<1>3. QED
    BY <1>2 DEF intersects

-----------------------------------------------------------------------------
(* The estimate of a node that the index knows.                            *)

Known(k) ==
    /\ theader # T!NoHeader
    /\ \E p \in TPage : \E r \in T!Nodes(p) : r.key = k

LEMMA QuestionFacts ==
    ASSUME asked \in Question
    PROVE  /\ asked.op \in Boxed \cup ByTime
           /\ asked.window \in Window
           /\ asked.window.start \in Int /\ asked.window.end \in Int
           /\ asked.op \in Boxed => asked.box \in Aabb
<1>1. /\ asked.op \in Boxed \cup ByTime
      /\ asked.window \in Window
      /\ asked.op \in Boxed => asked.box \in Box
    BY DEF Question, Boxed, ByTime
<1>2. asked.window \in [start : Int, end : Int]
    BY <1>1, SameFile DEF P!FileAssumption, P!IndexFile, P!Interval
<1>3. QED
    BY <1>1, <1>2, FileAssumption

LEMMA KnownEntry ==
    ASSUME P!IInv, NEW k, Known(k)
    PROVE  /\ Estimates!OrderedEntry(Entry[k])
           /\ theader.stride = FileStride /\ FileStride \in Nat \ {0}
BY IndexEntryFacts, StrideFacts DEF Known

LEMMA BothKnown ==
    ASSUME P!IInv, NEW k, InBoth(k)
    PROVE  Known(k)
<1>1. PICK r \in tentries : r.key = k
    BY DEF InBoth, T!nodes_in_range
<1>2. QED
    BY <1>1, IndexedNodes DEF Known

LEMMA RangeFacts ==
    ASSUME P!IInv, asked \in Question, NEW k \in NodeKeys, Known(k)
    PROVE  LET r == CandidateRange(k, Chunk[k].count)
           IN  /\ r \in [start : Nat, end : Nat]
               /\ r.start <= r.end /\ r.end <= Chunk[k].count
<1> DEFINE start == asked.window.start
           end   == asked.window.end
           count == Chunk[k].count
           r     == Estimates!estimate_point_range(Entry[k], start, end, FileStride, count)
<1>1. /\ Estimates!OrderedEntry(Entry[k]) /\ FileStride \in Nat \ {0}
      /\ start \in Int /\ end \in Int /\ count \in 0 .. U32 - 1
    BY KnownEntry, QuestionFacts, KeyFacts
<1>2. CandidateRange(k, count) = r
    BY KnownEntry, SameRange DEF CandidateRange
<1>3. /\ r \in [start : Nat, end : Nat]
      /\ r.start <= r.end /\ r.end <= count
    BY <1>1, EstimatesAssumption, Estimates!EstimateInChunk
<1>4. QED
    BY <1>2, <1>3

LEMMA SampledFacts ==
    ASSUME P!IInv, NEW k \in NodeKeys, Known(k), Sampled(k)
    PROVE  /\ Estimates!SampledNode(Chunk[k].count, Chunk[k].time, FileStride, Entry[k])
           /\ Chunk[k].count \in 1 .. U32 - 1
<1>1. Estimates!OrderedEntry(Entry[k]) /\ FileStride \in Nat \ {0}
    BY KnownEntry
<1>2. /\ Chunk[k].count \in 0 .. U32 - 1 /\ Chunk[k].count > 0
      /\ \A i \in Upto(Chunk[k].count) : Chunk[k].time[i] \in Int
    BY KeyFacts DEF Sampled
<1>3. Chunk[k].count \in 1 .. U32 - 1
    BY <1>2, QueryAssumption
<1>4. QED
    BY <1>1, <1>2, <1>3
       DEF Sampled, Estimates!SampledNode, Estimates!OrderedEntry, Estimates!Upto, Upto,
           Estimates!Sorted, Sorted, Estimates!SampleCount, SampleCount,
           Estimates!SampledAt, SampledAt, Estimates!Smaller, Smaller

(* The range misses only points between two samples, so no sampled one.    *)
LEMMA RangeMisses ==
    ASSUME P!IInv, asked \in Question, NEW k \in NodeKeys, Known(k), Sampled(k)
    PROVE  LET r == CandidateRange(k, Chunk[k].count)
           IN  /\ \E m \in Upto(Chunk[k].count) : \A p \in Upto(Chunk[k].count) :
                     InWindow(k, p) /\ ~(r.start <= p /\ p < r.end) =>
                         m * FileStride < p /\ p < (m + 1) * FileStride
               /\ \A p \in Upto(Chunk[k].count) :
                     InWindow(k, p) /\ p % FileStride = 0 => r.start <= p /\ p < r.end
<1> DEFINE start == asked.window.start
           end   == asked.window.end
           count == Chunk[k].count
           time  == Chunk[k].time
           r     == Estimates!estimate_point_range(Entry[k], start, end, FileStride, count)
<1>1. /\ Estimates!SampledNode(count, time, FileStride, Entry[k])
      /\ FileStride \in Nat \ {0}
      /\ start \in Int /\ end \in Int
      /\ count \in 1 .. U32 - 1
    BY SampledFacts, KnownEntry, QuestionFacts
<1>2. CandidateRange(k, count) = r
    BY KnownEntry, SameRange DEF CandidateRange
<1>3. \E m \in Upto(count) : \A p \in Upto(count) :
          /\ start <= time[p] /\ time[p] <= end
          /\ ~(r.start <= p /\ p < r.end)
          => m * FileStride < p /\ p < (m + 1) * FileStride
    <2> HIDE DEF start, end, time, count, r
    <2>1. LET range == Estimates!estimate_point_range(Entry[k], start, end, FileStride, count)
          IN  \E m \in Estimates!Upto(count) : \A p \in Estimates!Upto(count) :
                 /\ start <= time[p] /\ time[p] <= end
                 /\ ~(range.start <= p /\ p < range.end)
                 => m * FileStride < p /\ p < (m + 1) * FileStride
        BY <1>1, EstimatesAssumption, Estimates!EstimateMisses
    <2>2. QED
        BY <2>1 DEF Estimates!Upto, Upto, r
<1>4. PICK m \in Upto(count) : \A p \in Upto(count) :
          /\ start <= time[p] /\ time[p] <= end
          /\ ~(r.start <= p /\ p < r.end)
          => m * FileStride < p /\ p < (m + 1) * FileStride
    BY <1>3
<1>5. ASSUME NEW p \in Upto(count), InWindow(k, p)
      PROVE  start <= time[p] /\ time[p] <= end
    <2>1. time[p] \in Int
        BY KeyFacts
    <2>2. QED
        BY <1>1, <1>5, <2>1 DEF InWindow
<1>6. ASSUME NEW p \in Upto(count), InWindow(k, p), p % FileStride = 0
      PROVE  r.start <= p /\ p < r.end
    <2>1. p \in Nat /\ m \in Nat
        BY <1>1 DEF Upto
    <2>2. ~(m * FileStride < p /\ p < (m + 1) * FileStride)
        BY <1>1, <1>6, <2>1, Estimates!NoMultipleBetween, EstimatesAssumption
    <2>3. QED
        BY <1>4, <1>5, <1>6, <2>2
<1>7. QED
    <2> HIDE DEF r
    <2>1. \A p \in Upto(count) :
              InWindow(k, p) /\ ~(r.start <= p /\ p < r.end) =>
                  m * FileStride < p /\ p < (m + 1) * FileStride
        <3> HIDE DEF start, end, time
        <3>1. QED
            BY <1>4, <1>5
    <2>2. \A p \in Upto(count) :
              InWindow(k, p) /\ p % FileStride = 0 => r.start <= p /\ p < r.end
        BY <1>6
    <2>3. QED
        BY <1>2, <2>1, <2>2

-----------------------------------------------------------------------------
(* The join.                                                               *)

LEMMA CandidateFacts ==
    ASSUME IInv, P!IInv, asked \in Question, NEW c \in Candidates
    PROVE  /\ c.key \in NodeKeys /\ Known(c.key)
           /\ \E h \in entries : h.key = c.key
           /\ c.range = CandidateRange(c.key, Chunk[c.key].count)
           /\ c = [key |-> c.key, range |-> c.range]
           /\ c.range \in [start : Nat, end : Nat]
           /\ c.range.start < c.range.end
           /\ c.range.end <= Chunk[c.key].count
<1>1. PICK h \in Joined : c = [key |-> h.key, range |-> CandidateRange(h.key, h.point_count)]
    BY DEF Candidates
<1>2. h \in entries /\ InBoth(h.key)
    BY DEF Joined
<1>3. c.range.start < c.range.end
    BY DEF Candidates
<1>4. /\ c.key = h.key /\ h.key \in NodeKeys /\ h.point_count = Chunk[h.key].count
      /\ c.range = CandidateRange(c.key, Chunk[c.key].count)
      /\ c = [key |-> c.key, range |-> c.range]
    BY <1>1, <1>2, EntryFacts
<1>5. Known(c.key)
    BY <1>2, <1>4, BothKnown
<1>6. /\ c.range \in [start : Nat, end : Nat]
      /\ c.range.end <= Chunk[c.key].count
    BY <1>4, <1>5, RangeFacts
<1>7. QED
    BY <1>2, <1>3, <1>4, <1>5, <1>6

LEMMA IndexedKnown ==
    ASSUME P!IInv, NEW k \in IndexedKeys
    PROVE  /\ Known(k)
           /\ TRootPage \in tparsed
           /\ \E p \in P!ReachableFrom({TRootPage}) \ P!ReachableFrom(tlost) :
                 p \in TPage /\ \E r \in T!Nodes(p) : r.key = k
<1>1. PICK p \in T!ReachableFrom({TRootPage} \cap tparsed) \ T!ReachableFrom(tlost) :
          \E r \in T!Nodes(p) : r.key = k
    BY DEF IndexedKeys
<1>2. p \in P!ReachableFrom({TRootPage} \cap tparsed) /\ p \notin P!ReachableFrom(tlost)
    BY <1>1, SameReachable
<1>3. p \in TPage
    BY <1>2 DEF P!ReachableFrom
<1>4. TRootPage \in tparsed
    <2> SUFFICES ASSUME TRootPage \notin tparsed PROVE FALSE
        OBVIOUS
    <2>1. {TRootPage} \cap tparsed = {}
        OBVIOUS
    <2>2. {} \in SUBSET TPage /\ P!Closed({})
        BY DEF P!Closed, P!TargetsOf
    <2>3. p \in {}
        BY <1>2, <2>1, <2>2 DEF P!ReachableFrom
    <2>4. QED
        BY <2>3
<1>5. {TRootPage} \cap tparsed = {TRootPage}
    BY <1>4
<1>6. p \in P!ReachableFrom({TRootPage}) \ P!ReachableFrom(tlost)
    BY <1>2, <1>5
<1>7. theader # P!NoHeader
    BY <1>4 DEF P!IInv, P!LoadedInv
<1>8. QED
    BY <1>1, <1>3, <1>4, <1>6, <1>7 DEF Known, P!NoHeader, T!NoHeader

(* What the loads of the query have brought in. *)
Loaded ==
    /\ asked \in Question
    /\ pc = "idle" /\ outcome = "ok" /\ root_loaded /\ call = HierarchyLoad
    /\ tpc = "idle" /\ toutcome = "ok" /\ tcall = IndexLoad

LEMMA PointOfBox ==
    ASSUME asked \in Question, NEW k \in NodeKeys, NEW p \in Upto(Chunk[k].count),
           InAsked(k, p), asked.op \in Boxed
    PROVE  intersects(bounds(k), asked.box)
<1>1. /\ k \in VoxelKey /\ asked.box \in Aabb
      /\ Chunk[k].pos[p] \in Point
      /\ intersects(bounds(k), [min |-> Chunk[k].pos[p], max |-> Chunk[k].pos[p]])
    BY KeyFacts, QuestionFacts
<1>2. \A a \in Axis : Chunk[k].pos[p][a] \in asked.box.min[a] .. asked.box.max[a]
    BY DEF InAsked
<1>3. QED
    BY <1>1, <1>2, PointInCell

LEMMA HierarchyHas ==
    ASSUME IInv, Loaded, NEW k \in AvailableKeys,
           NEW p \in Upto(Chunk[k].count), InAsked(k, p)
    PROVE  k \in NodeKeys /\ \E h \in entries : h.key = k
<1>1. PICK page \in ReachableFrom({RootPage}) \ ReachableFrom(lost) :
          \E e \in Nodes(page) : e.key = k
    BY DEF AvailableKeys
<1>2. PICK e \in Nodes(page) : e.key = k
    BY <1>1
<1>3. page \in Page
    BY DEF ReachableFrom
<1>4. k \in NodeKeys
    BY <1>2, <1>3 DEF NodeKeys
<1>5. Wanted(call, k)
    <2>1. CASE asked.op \in ByTime
        <3>1. call.op = "load_all"
            BY <2>1 DEF Loaded, HierarchyLoad
        <3>2. QED
            BY <3>1 DEF Wanted
    <2>2. CASE asked.op \in Boxed
        <3>1. call.op = "load_pages_for_bounds" /\ call.box = asked.box
            BY <2>2 DEF Loaded, HierarchyLoad, Boxed, ByTime
        <3>2. intersects(bounds(k), asked.box)
            BY <1>4, <2>2, PointOfBox DEF Loaded
        <3>3. QED
            BY <3>1, <3>2 DEF Wanted
    <2>3. QED
        BY <2>1, <2>2, QuestionFacts DEF Loaded
<1>6. HasNode(e)
    BY <1>2, <1>5, CompleteWhenAnswered DEF LoadedOrForgotten, Answered, Loaded
<1>7. EntryOf(e) \in entries /\ EntryOf(e).key = k
    BY <1>2, <1>6 DEF HasNode, EntryOf
<1>8. QED
    BY <1>4, <1>7

LEMMA IndexHas ==
    ASSUME P!IInv, P!FoundOrLost, Loaded, NEW k \in NodeKeys, k \in IndexedKeys, Sampled(k),
           NEW p \in Upto(Chunk[k].count), InWindow(k, p)
    PROVE  InBoth(k)
<1>1. Known(k) /\ TRootPage \in tparsed
    BY IndexedKnown
<1>2. PICK page \in P!ReachableFrom({TRootPage}) \ P!ReachableFrom(tlost) :
          page \in TPage /\ \E r \in T!Nodes(page) : r.key = k
    BY IndexedKnown
<1>3. PICK r \in T!Nodes(page) : r.key = k
    BY <1>2
<1>4. r.span = [start |-> Entry[k].samples[0],
                end   |-> Entry[k].samples[Entry[k].count - 1]]
    BY <1>2, <1>3, IndexEntryFacts
<1>5. /\ Entry[k].samples[Entry[k].count - 1] >= asked.window.start
      /\ Entry[k].samples[0] <= asked.window.end
    <2>1. /\ asked.window.start \in Int /\ asked.window.end \in Int
          /\ Chunk[k].time[p] \in Int
        BY QuestionFacts, KeyFacts DEF Loaded
    <2>2. asked.window.start <= Chunk[k].time[p] /\ Chunk[k].time[p] <= asked.window.end
        BY <2>1 DEF InWindow
    <2>3. Estimates!SampledNode(Chunk[k].count, Chunk[k].time, FileStride, Entry[k])
        BY <1>1, SampledFacts
    <2>4. p \in Estimates!Upto(Chunk[k].count)
        BY DEF Estimates!Upto, Upto
    <2>5. QED
        BY <2>1, <2>2, <2>3, <2>4, EstimatesAssumption, Estimates!PointsOverlap
<1>6. tcall.op = "load_pages_for_time_range" /\ tcall.window = asked.window
    BY DEF Loaded, IndexLoad
<1>7. P!Overlaps(r.span, tcall.window)
    BY <1>4, <1>5, <1>6 DEF P!Overlaps
<1>8. P!Answered
    BY <1>1, <1>6 DEF Loaded, P!Answered
<1>9. r \in P!nodes_in_range(tcall.window)
    BY <1>2, <1>3, <1>7, <1>8, SameNodes DEF P!FoundOrLost, P!FoundIn
<1>10. QED
    BY <1>3, <1>6, <1>9 DEF InBoth, P!nodes_in_range, T!nodes_in_range, P!Overlaps, T!Overlaps

(* A promised node with a point that its range has is a candidate. *)
LEMMA CandidateFound ==
    ASSUME IInv, P!IInv, P!FoundOrLost, Loaded,
           NEW k \in AvailableKeys, k \in IndexedKeys, Sampled(k),
           NEW p \in Upto(Chunk[k].count), InAsked(k, p),
           CandidateRange(k, Chunk[k].count).start <= p,
           p < CandidateRange(k, Chunk[k].count).end
    PROVE  [key |-> k, range |-> CandidateRange(k, Chunk[k].count)] \in Candidates
<1> DEFINE range == CandidateRange(k, Chunk[k].count)
<1>1. k \in NodeKeys
    BY HierarchyHas
<1>2. PICK h \in entries : h.key = k
    BY HierarchyHas
<1>3. InWindow(k, p)
    BY DEF InAsked
<1>4. InBoth(k)
    BY <1>1, <1>3, IndexHas
<1>5. InAskedBox(k)
    BY <1>1, PointOfBox DEF InAskedBox, Loaded
<1>6. h \in Joined
    BY <1>2, <1>4, <1>5 DEF Joined
<1>7. h.point_count = Chunk[k].count
    BY <1>2, EntryFacts
<1>8. range.start < range.end
    <2>1. range \in [start : Nat, end : Nat]
        BY <1>1, <1>4, BothKnown, RangeFacts DEF Loaded
    <2>2. p \in Int
        BY DEF Upto
    <2> HIDE DEF range
    <2>3. QED
        BY <2>1, <2>2 DEF range
<1>9. QED
    BY <1>2, <1>6, <1>7, <1>8 DEF Candidates

-----------------------------------------------------------------------------
(* The fetch.                                                              *)

(* A query whose loads are done, before it is answered. *)
Fetching ==
    /\ IInv /\ P!IInv /\ P!FoundOrLost
    /\ QInv
    /\ stage = "fetch"

LEMMA FetchLoaded ==
    ASSUME Fetching
    PROVE  Loaded /\ asked \in Question /\ promised \subseteq AvailableKeys \cap IndexedKeys
           /\ promised \subseteq NodeKeys
BY DEF Fetching, QInv, StageInv, PromiseInv, TypesInv, Loaded

LEMMA MatchFacts ==
    ASSUME stage = "fetch", MatchesInv
    PROVE  /\ \A i \in DOMAIN matches : matches[i] \in Candidates
           /\ \A i, j \in DOMAIN matches : matches[i] = matches[j] => i = j
           /\ \A c \in Candidates : \E i \in DOMAIN matches : matches[i] = c
<1> DEFINE Places == 1 .. Cardinality(Candidates)
<1>1. matches \in Bijection(Places, Candidates)
    BY DEF MatchesInv
<1> HIDE DEF Places
<1>2. /\ matches \in [Places -> Candidates]
      /\ IsInjective(matches)
      /\ \A c \in Candidates : \E i \in Places : matches[i] = c
    BY <1>1 DEF Bijection, Injection, Surjection
<1>3. DOMAIN matches = Places
    BY <1>2
<1>4. \A i, j \in DOMAIN matches : matches[i] = matches[j] => i = j
    BY <1>2 DEF IsInjective
<1>5. QED
    BY <1>2, <1>3, <1>4

LEMMA KeysMatchOnce ==
    ASSUME IInv, P!IInv, asked \in Question, stage = "fetch", MatchesInv,
           NEW i \in DOMAIN matches, NEW j \in DOMAIN matches,
           matches[i].key = matches[j].key
    PROVE  i = j
<1>1. matches[i] \in Candidates /\ matches[j] \in Candidates
    BY MatchFacts
<1>2. ASSUME NEW c \in Candidates
      PROVE  c = [key |-> c.key, range |-> CandidateRange(c.key, Chunk[c.key].count)]
    BY CandidateFacts
<1>3. matches[i] = matches[j]
    BY <1>1, <1>2
<1>4. QED
    BY <1>3, MatchFacts

LEMMA PairFacts ==
    /\ DOMAIN Pairs = DOMAIN matches
    /\ \A i \in DOMAIN matches :
          /\ Pairs[i].chunk.key = matches[i].key
          /\ Pairs[i].chunk.data = Chunk[matches[i].key]
          /\ Pairs[i].range = matches[i].range
BY DEF Pairs, fetch_chunks, ChunkOf

RangesOf(pairs) ==
    \A i \in DOMAIN pairs :
        LET k     == pairs[i].chunk.key
            range == pairs[i].range
        IN  /\ pairs[i].chunk.data = Chunk[k]
            /\ range.end <= Chunk[k].count
            /\ \A j \in DOMAIN pairs : pairs[j].chunk.key = k => i = j
            /\ Sampled(k) => \A p \in Upto(Chunk[k].count) :
                  (p % FileStride = 0 /\ InWindow(k, p))
                      => range.start <= p /\ p < range.end

LEMMA FetchedRanges ==
    ASSUME Fetching
    PROVE  RangesOf(Pairs)
<1> SUFFICES ASSUME NEW i \in DOMAIN matches
             PROVE  LET k     == matches[i].key
                        range == matches[i].range
                    IN  /\ range.end <= Chunk[k].count
                        /\ \A j \in DOMAIN matches : matches[j].key = k => i = j
                        /\ Sampled(k) => \A p \in Upto(Chunk[k].count) :
                              (p % FileStride = 0 /\ InWindow(k, p))
                                  => range.start <= p /\ p < range.end
    BY PairFacts DEF RangesOf
<1>1. asked \in Question /\ IInv /\ P!IInv /\ MatchesInv /\ stage = "fetch"
    BY FetchLoaded DEF Fetching, QInv
<1>2. matches[i] \in Candidates
    BY <1>1, MatchFacts
<1>3. /\ matches[i].key \in NodeKeys /\ Known(matches[i].key)
      /\ matches[i].range = CandidateRange(matches[i].key, Chunk[matches[i].key].count)
      /\ matches[i].range.end <= Chunk[matches[i].key].count
    BY <1>1, <1>2, CandidateFacts
<1>4. \A j \in DOMAIN matches : matches[j].key = matches[i].key => i = j
    BY <1>1, KeysMatchOnce
<1>5. ASSUME Sampled(matches[i].key),
             NEW p \in Upto(Chunk[matches[i].key].count),
             p % FileStride = 0, InWindow(matches[i].key, p)
      PROVE  matches[i].range.start <= p /\ p < matches[i].range.end
    BY <1>1, <1>3, <1>5, RangeMisses
<1>6. QED
    BY <1>3, <1>4, <1>5

ChunksOf(pairs) ==
    \A k \in promised :
        (Sampled(k) /\ \E p \in Upto(Chunk[k].count) : p % FileStride = 0 /\ InAsked(k, p))
            => \E i \in DOMAIN pairs : pairs[i].chunk.key = k

LEMMA FetchedChunks ==
    ASSUME Fetching
    PROVE  ChunksOf(Pairs)
<1> SUFFICES ASSUME NEW k \in promised, Sampled(k),
                    NEW p \in Upto(Chunk[k].count), p % FileStride = 0, InAsked(k, p)
             PROVE  \E i \in DOMAIN matches : matches[i].key = k
    BY PairFacts DEF ChunksOf
<1>1. /\ Loaded /\ asked \in Question
      /\ k \in AvailableKeys /\ k \in IndexedKeys /\ k \in NodeKeys
      /\ IInv /\ P!IInv /\ P!FoundOrLost /\ MatchesInv /\ stage = "fetch"
    BY FetchLoaded DEF Fetching, QInv
<1>2. Known(k) /\ InWindow(k, p)
    BY <1>1, IndexedKnown DEF InAsked
<1>3. /\ CandidateRange(k, Chunk[k].count).start <= p
      /\ p < CandidateRange(k, Chunk[k].count).end
    BY <1>1, <1>2, RangeMisses
<1>4. [key |-> k, range |-> CandidateRange(k, Chunk[k].count)] \in Candidates
    BY <1>1, <1>3, CandidateFound
<1>5. QED
    BY <1>1, <1>4, MatchFacts

LEMMA AcceptsIsAsked ==
    ASSUME asked \in Question, NEW k \in NodeKeys, NEW p \in Upto(Chunk[k].count)
    PROVE  accepts(Chunk[k], p) <=> InAsked(k, p)
<1>1. /\ asked.window.start \in Int /\ asked.window.end \in Int
      /\ asked.op \in Boxed => asked.box \in Aabb
      /\ Chunk[k].time[p] \in Int /\ Chunk[k].pos[p] \in Point
    BY QuestionFacts, KeyFacts
<1>2. InWindow(k, p) <=>
          asked.window.start <= Chunk[k].time[p] /\ Chunk[k].time[p] <= asked.window.end
    BY <1>1 DEF InWindow
<1>3. ASSUME asked.op \in Boxed, NEW a \in Axis
      PROVE  Chunk[k].pos[p][a] \in asked.box.min[a] .. asked.box.max[a] <=>
                 asked.box.min[a] <= Chunk[k].pos[p][a] /\ Chunk[k].pos[p][a] <= asked.box.max[a]
    BY <1>1, <1>3 DEF Aabb, Point
<1>4. QED
    BY <1>2, <1>3 DEF accepts, InAsked

FetchedPoints ==
    UNION { { << Pairs[i].chunk.key, p >> : p \in MatchingOf(Pairs[i]) } : i \in DOMAIN matches }

LEMMA FetchedPointFacts ==
    ASSUME Fetching, NEW k, NEW p
    PROVE  << k, p >> \in FetchedPoints <=>
               \E i \in DOMAIN matches :
                   /\ k = matches[i].key
                   /\ p \in Upto(Chunk[k].count) /\ InAsked(k, p)
                   /\ matches[i].range.start <= p /\ p < matches[i].range.end
<1>1. asked \in Question /\ IInv /\ P!IInv /\ MatchesInv /\ stage = "fetch"
    BY FetchLoaded DEF Fetching, QInv
<1>2. ASSUME NEW i \in DOMAIN matches
      PROVE  p \in MatchingOf(Pairs[i]) <=>
                 /\ p \in Upto(Chunk[matches[i].key].count)
                 /\ InAsked(matches[i].key, p)
                 /\ matches[i].range.start <= p /\ p < matches[i].range.end
    <2> DEFINE key == matches[i].key
               range == matches[i].range
               count == Chunk[key].count
    <2>1. matches[i] \in Candidates
        BY <1>1, MatchFacts
    <2>2. /\ key \in NodeKeys /\ count \in Nat
          /\ range.start \in Nat /\ range.end \in Nat /\ range.end <= count
        BY <1>1, <2>1, CandidateFacts, KeyFacts
    <2>3. MatchingOf(Pairs[i]) =
              { x \in range.start .. Smaller(range.end, count) - 1 : accepts(Chunk[key], x) }
        BY PairFacts DEF MatchingOf
    <2>4. p \in Upto(count) => (accepts(Chunk[key], p) <=> InAsked(key, p))
        BY <1>1, <2>2, AcceptsIsAsked
    <2> HIDE DEF key, range, count
    <2>5. /\ Smaller(range.end, count) = range.end
          /\ p \in range.start .. range.end - 1 <=>
                 p \in Upto(count) /\ range.start <= p /\ p < range.end
        BY <2>2 DEF Smaller, Upto
    <2>6. QED
        BY <2>3, <2>4, <2>5 DEF key, range, count
<1>3. << k, p >> \in FetchedPoints <=>
          \E i \in DOMAIN matches : k = matches[i].key /\ p \in MatchingOf(Pairs[i])
    BY PairFacts DEF FetchedPoints
<1>4. QED
    BY <1>2, <1>3

PointsOf(found) ==
    /\ \A q \in found : InAsked(q[1], q[2])
    /\ \A k \in promised : Sampled(k) =>
          \E m \in Upto(Chunk[k].count) : \A p \in Upto(Chunk[k].count) :
              InAsked(k, p) /\ << k, p >> \notin found =>
                  m * FileStride < p /\ p < (m + 1) * FileStride

PointTypes(found) == \A q \in found : q[1] \in NodeKeys /\ q[2] \in Upto(Chunk[q[1]].count)

LEMMA FetchedPointsAsked ==
    ASSUME Fetching
    PROVE  PointsOf(FetchedPoints) /\ PointTypes(FetchedPoints)
<1>1. /\ Loaded /\ asked \in Question
      /\ promised \subseteq AvailableKeys \cap IndexedKeys /\ promised \subseteq NodeKeys
      /\ IInv /\ P!IInv /\ P!FoundOrLost /\ MatchesInv /\ stage = "fetch"
    BY FetchLoaded DEF Fetching, QInv
<1>2. ASSUME NEW q \in FetchedPoints
      PROVE  q[1] \in NodeKeys /\ q[2] \in Upto(Chunk[q[1]].count) /\ InAsked(q[1], q[2])
    <2>1. PICK i \in DOMAIN matches : \E p \in MatchingOf(Pairs[i]) :
              q = << Pairs[i].chunk.key, p >>
        BY DEF FetchedPoints
    <2>2. PICK p \in MatchingOf(Pairs[i]) : q = << Pairs[i].chunk.key, p >>
        BY <2>1
    <2>3. q = << q[1], q[2] >>
        BY <2>2
    <2>4. PICK j \in DOMAIN matches :
              q[1] = matches[j].key /\ q[2] \in Upto(Chunk[q[1]].count) /\ InAsked(q[1], q[2])
        BY <2>3, FetchedPointFacts
    <2>5. matches[j].key \in NodeKeys
        BY <1>1, MatchFacts, CandidateFacts
    <2>6. QED
        BY <2>4, <2>5
<1>3. ASSUME NEW k \in promised, Sampled(k)
      PROVE  \E m \in Upto(Chunk[k].count) : \A p \in Upto(Chunk[k].count) :
                 InAsked(k, p) /\ << k, p >> \notin FetchedPoints =>
                     m * FileStride < p /\ p < (m + 1) * FileStride
    <2> DEFINE range == CandidateRange(k, Chunk[k].count)
    <2>1. k \in AvailableKeys /\ k \in IndexedKeys /\ k \in NodeKeys /\ Known(k)
        BY <1>1, IndexedKnown
    <2>2. PICK m \in Upto(Chunk[k].count) : \A p \in Upto(Chunk[k].count) :
              InWindow(k, p) /\ ~(range.start <= p /\ p < range.end) =>
                  m * FileStride < p /\ p < (m + 1) * FileStride
        BY <1>1, <1>3, <2>1, RangeMisses
    <2>3. ASSUME NEW p \in Upto(Chunk[k].count), InAsked(k, p),
                 << k, p >> \notin FetchedPoints
          PROVE  InWindow(k, p) /\ ~(range.start <= p /\ p < range.end)
        <3>1. SUFFICES ASSUME range.start <= p, p < range.end PROVE FALSE
            BY <2>3 DEF InAsked
        <3>2. [key |-> k, range |-> range] \in Candidates
            BY <1>1, <1>3, <2>1, <2>3, <3>1, CandidateFound
        <3>3. PICK i \in DOMAIN matches : matches[i] = [key |-> k, range |-> range]
            BY <1>1, <3>2, MatchFacts
        <3>4. matches[i].key = k /\ matches[i].range = range
            BY <3>3
        <3>5. << k, p >> \in FetchedPoints
            BY <2>3, <3>1, <3>4, FetchedPointFacts
        <3>6. QED
            BY <2>3, <3>5
    <2> HIDE DEF range
    <2>4. QED
        BY <2>2, <2>3
<1>4. QED
    BY <1>2, <1>3 DEF PointsOf, PointTypes

-----------------------------------------------------------------------------
(* What is asked and what the file has does not change with the caches.    *)

LEMMA SamplingStays ==
    ASSUME evlrs' = evlrs
    PROVE  FileStride' = FileStride /\ \A k : Sampled(k)' <=> Sampled(k)
<1>1. FileStride' = FileStride
    BY DEF FileStride, FirstIndex
<1>2. QED
    BY <1>1 DEF Sampled

LEMMA AskedStays ==
    ASSUME asked' = asked
    PROVE  \A k, i : /\ InWindow(k, i)' <=> InWindow(k, i)
                     /\ InAsked(k, i)' <=> InAsked(k, i)
BY DEF InWindow, InAsked

LEMMA AnswersStay ==
    ASSUME RangesOfTheirChunks, ChunksFound, PointsFound,
           evlrs' = evlrs, UNCHANGED query
    PROVE  RangesOfTheirChunks' /\ ChunksFound' /\ PointsFound'
<1>1. /\ UNCHANGED << stage, asked, reply, answer, points, promised >>
      /\ FileStride' = FileStride
      /\ \A k : Sampled(k)' <=> Sampled(k)
      /\ \A k, i : (InWindow(k, i)' <=> InWindow(k, i)) /\ (InAsked(k, i)' <=> InAsked(k, i))
    BY SamplingStays, AskedStays DEF query
<1>2. \A ops : Replied(ops)' <=> Replied(ops)
    BY <1>1 DEF Replied
<1>3. RangesOfTheirChunks'
    BY <1>1, <1>2 DEF RangesOfTheirChunks
<1>4. ChunksFound'
    BY <1>1, <1>2 DEF ChunksFound
<1>5. PointsFound'
    BY <1>1, <1>2 DEF PointsFound
<1>6. QED
    BY <1>3, <1>4, <1>5

LEMMA Unanswered ==
    ASSUME stage' # "idle" \/ reply' # "ok"
    PROVE  RangesOfTheirChunks' /\ ChunksFound' /\ PointsFound'
BY DEF RangesOfTheirChunks, ChunksFound, PointsFound, Replied

LEMMA IdleSteps ==
    ASSUME QInv, stage = "idle", UNCHANGED query, evlrs' = evlrs
    PROVE  QInv'
<1>1. StageInv' /\ MatchesInv' /\ PromiseInv'
    BY DEF QInv, StageInv, MatchesInv, PromiseInv, query
<1>2. TypesInv'
    BY DEF QInv, TypesInv, query
<1>3. RangesOfTheirChunks' /\ ChunksFound' /\ PointsFound'
    BY AnswersStay DEF QInv
<1>4. QED
    BY <1>1, <1>2, <1>3 DEF QInv

LEMMA FailSteps ==
    ASSUME QInv, Fail
    PROVE  QInv'
<1>1. StageInv' /\ MatchesInv' /\ PromiseInv'
    BY DEF StageInv, MatchesInv, PromiseInv, Fail
<1>2. TypesInv'
    BY DEF QInv, TypesInv, Fail
<1>3. RangesOfTheirChunks' /\ ChunksFound' /\ PointsFound'
    BY Unanswered DEF Fail
<1>4. QED
    BY <1>1, <1>2, <1>3 DEF QInv

LEMMA KeysStay ==
    /\ lost' = lost => AvailableKeys' = AvailableKeys
    /\ UNCHANGED tvars => IndexedKeys' = IndexedKeys
    /\ AvailableKeys \subseteq NodeKeys
    /\ Promised = AvailableKeys \cap IndexedKeys
<1>1. lost' = lost => AvailableKeys' = AvailableKeys
    BY DEF AvailableKeys, ReachableFrom
<1>2. UNCHANGED tvars => IndexedKeys' = IndexedKeys
    BY DEF IndexedKeys, T!ReachableFrom, tvars
<1>3. AvailableKeys \subseteq NodeKeys
    BY DEF AvailableKeys, NodeKeys, ReachableFrom
<1>4. Promised = AvailableKeys \cap IndexedKeys
    BY DEF Promised, AvailableKeys, IndexedKeys
<1>5. QED
    BY <1>1, <1>2, <1>3, <1>4

LEMMA QuerySteps ==
    ASSUME QInv, NEW c \in Question, Query(c)
    PROVE  QInv'
<1>1. /\ stage = "idle" /\ root_loaded /\ tpc = "idle"
      /\ stage' = "hierarchy" /\ asked' = c /\ promised' = Promised
      /\ reply' = "none" /\ answer' = << >> /\ points' = {}
      /\ UNCHANGED tvars /\ matches' = matches
    BY DEF Query, Ready
<1>2. /\ root_loaded' = root_loaded /\ lost' = lost
      /\ pc' = "loop" /\ outcome' = "none"
      /\ call' = HierarchyLoad'
    BY <1>1 DEF Query, LoadAll, LoadPagesForBounds, Start, HierarchyLoad
<1>3. StageInv'
    BY <1>1, <1>2 DEF StageInv, tvars
<1>4. MatchesInv'
    BY <1>1 DEF QInv, MatchesInv
<1>5. PromiseInv'
    BY <1>1, <1>2, KeysStay DEF PromiseInv
<1>6. TypesInv'
    BY <1>1, KeysStay DEF TypesInv
<1>7. QED
    BY <1>1, <1>3, <1>4, <1>5, <1>6, Unanswered DEF QInv

LEMMA HierarchySteps ==
    ASSUME QInv, IInv, HierarchyStep \/ HierarchyDrop
    PROVE  QInv'
<1>1. UNCHANGED query /\ UNCHANGED tvars /\ (Progress \/ Cancel)
    BY DEF HierarchyStep, HierarchyDrop
<1>2. evlrs' = evlrs /\ tpc' = tpc
    BY <1>1 DEF tvars
<1>3. CASE stage = "idle"
    BY <1>2, <1>3, <1>1, IdleSteps
<1>4. CASE stage # "idle"
    <2>1. pc # "idle"
        BY <1>1 DEF Progress, Cancel, ReadFails, Abandon, RootRead, TakeBatch, Return, BatchRead
    <2>2. stage = "hierarchy" /\ root_loaded /\ call = HierarchyLoad /\ tpc = "idle"
        BY <1>4, <2>1 DEF QInv, StageInv, TypesInv
    <2>3. pc # "root"
        BY <2>2 DEF IInv, CallInv
    <2>4. /\ call' = call /\ root_loaded' = root_loaded
          /\ lost' = lost \/ (pc' = "idle" /\ outcome' # "ok")
        BY <1>1, <2>3 DEF Progress, Cancel, ReadFails, Abandon, RootRead, TakeBatch, Return,
           BatchRead, Finish
    <2>5. UNCHANGED << stage, asked, matches, reply, answer, points, promised >>
        BY <1>1 DEF query
    <2>6. StageInv'
        BY <1>2, <2>2, <2>4, <2>5 DEF QInv, StageInv, HierarchyLoad
    <2>7. MatchesInv'
        BY <2>2, <2>5 DEF QInv, MatchesInv
    <2>8. PromiseInv'
        BY <1>1, <2>1, <2>2, <2>4, <2>5, KeysStay DEF QInv, PromiseInv
    <2>9. TypesInv'
        BY <2>5 DEF QInv, TypesInv
    <2>10. QED
        BY <1>1, <1>2, <2>6, <2>7, <2>8, <2>9, AnswersStay DEF QInv
<1>5. QED
    BY <1>3, <1>4

(* The load of the index loses no page that it does not fail on.           *)
LEMMA IndexProgress ==
    ASSUME P!IInv, tcall = IndexLoad, T!Progress \/ T!Cancel
    PROVE  /\ tcall' = tcall /\ evlrs' = evlrs
           /\ \/ tparsed \subseteq tparsed' /\ tlost' \subseteq tlost
              \/ tpc' = "idle" /\ toutcome' # "ok"
<1>1. tpc \in {"idle", "loop", "read"}
    BY DEF P!IInv, P!CallInv, P!TypeOK, P!HeaderOps, IndexLoad
<1>2. tcall.op = "load_pages_for_time_range"
    BY DEF IndexLoad
<1>3. CASE T!TakeBatch
    BY <1>3 DEF T!TakeBatch, T!file, T!past
<1>4. CASE T!Return
    BY <1>4 DEF T!Return, T!file, T!past
<1>5. CASE T!PagesRead
    <2>1. tparsed' = tparsed \cup T!Offsets(tinflight)
          /\ tlost' = (tlost \cup T!Offsets(tinflight)) \ (tparsed' \cup T!Offsets(tpending'))
        BY <1>1, <1>5 DEF T!PagesRead, T!Parse, T!Batch
    <2>2. QED
        BY <1>5, <2>1 DEF T!PagesRead, T!file
<1>6. CASE T!PageCut
    BY <1>6 DEF T!PageCut, T!Finish, T!file
<1>7. CASE T!ReadFails \/ T!Cancel
    BY <1>7 DEF T!ReadFails, T!Cancel, T!Abandon, T!Finish, T!file
<1>8. ~(T!EvlrRead \/ T!NoIndex \/ T!HeaderRead \/ T!HeaderInvalid)
    BY <1>1 DEF T!EvlrRead, T!NoIndex, T!HeaderRead, T!HeaderInvalid
<1>9. QED
    BY <1>3, <1>4, <1>5, <1>6, <1>7, <1>8 DEF T!Progress

LEMMA ReachableGrows ==
    ASSUME NEW S, NEW R, S \subseteq R
    PROVE  T!ReachableFrom(S) \subseteq T!ReachableFrom(R)
BY DEF T!ReachableFrom

LEMMA IndexedGrow ==
    ASSUME tparsed \subseteq tparsed', tlost' \subseteq tlost
    PROVE  IndexedKeys \subseteq IndexedKeys'
<1>1. /\ T!ReachableFrom({TRootPage} \cap tparsed)
            \subseteq T!ReachableFrom({TRootPage} \cap tparsed')
      /\ T!ReachableFrom(tlost') \subseteq T!ReachableFrom(tlost)
    BY ReachableGrows
<1>2. IndexedKeys' =
          { r.key : r \in UNION { T!Nodes(p) :
                p \in T!ReachableFrom({TRootPage} \cap tparsed') \ T!ReachableFrom(tlost') } }
    BY DEF IndexedKeys, T!ReachableFrom
<1>3. QED
    BY <1>1, <1>2 DEF IndexedKeys

LEMMA IndexSteps ==
    ASSUME QInv, P!IInv, IndexStep \/ IndexDrop
    PROVE  QInv'
<1>1. UNCHANGED query /\ UNCHANGED hvars /\ (T!Progress \/ T!Cancel)
    BY DEF IndexStep, IndexDrop
<1>2. tpc # "idle"
    BY <1>1 DEF T!Progress, T!Cancel, T!ReadFails, T!Abandon, T!EvlrRead, T!NoIndex,
       T!HeaderRead, T!HeaderInvalid, T!TakeBatch, T!Return, T!PagesRead, T!PageCut
<1>3. evlrs' = evlrs
    BY <1>1 DEF T!Progress, T!Cancel, T!ReadFails, T!Abandon, T!EvlrRead, T!NoIndex,
       T!HeaderRead, T!HeaderInvalid, T!TakeBatch, T!Return, T!PagesRead, T!PageCut, T!file
<1>4. CASE stage = "idle"
    BY <1>1, <1>3, <1>4, IdleSteps
<1>5. CASE stage # "idle"
    <2>1. stage = "index" /\ tcall = IndexLoad
        BY <1>2, <1>5 DEF QInv, StageInv, TypesInv
    <2>2. /\ tcall' = tcall
          /\ \/ tparsed \subseteq tparsed' /\ tlost' \subseteq tlost
             \/ tpc' = "idle" /\ toutcome' # "ok"
        BY <1>1, <2>1, IndexProgress
    <2>3. /\ UNCHANGED << stage, asked, matches, reply, answer, points, promised >>
          /\ UNCHANGED << pc, outcome, call, root_loaded, lost >>
        BY <1>1 DEF query, hvars, vars
    <2>4. StageInv'
        BY <2>1, <2>2, <2>3 DEF QInv, StageInv, HierarchyLoad, IndexLoad
    <2>5. MatchesInv'
        BY <2>1, <2>3 DEF QInv, MatchesInv
    <2>6. PromiseInv'
        BY <1>2, <2>1, <2>2, <2>3, KeysStay, IndexedGrow DEF QInv, PromiseInv
    <2>7. TypesInv'
        BY <2>3 DEF QInv, TypesInv
    <2>8. QED
        BY <1>1, <1>3, <2>4, <2>5, <2>6, <2>7, AnswersStay DEF QInv
<1>6. QED
    BY <1>4, <1>5

LEMMA HierarchyLoadedSteps ==
    ASSUME QInv, HierarchyLoaded
    PROVE  QInv'
<1>1. CASE Fail
    BY <1>1, FailSteps
<1>2. CASE ~Fail
    <2>1. /\ stage = "hierarchy" /\ pc = "idle" /\ outcome = "ok"
          /\ T!LoadPagesForTimeRange(asked.window)
          /\ stage' = "index"
          /\ UNCHANGED << asked, matches, reply, answer, points, promised >>
          /\ UNCHANGED hvars
        BY <1>2 DEF HierarchyLoaded
    <2>2. /\ UNCHANGED << pc, outcome, call, root_loaded, lost >>
          /\ tcall' = IndexLoad /\ tparsed' = tparsed /\ tlost' = tlost
          /\ tpc' = "loop"
        BY <2>1 DEF hvars, vars, T!LoadPagesForTimeRange, T!Start, T!past, IndexLoad
    <2>3. StageInv'
        BY <2>1, <2>2 DEF QInv, StageInv, HierarchyLoad, IndexLoad
    <2>4. MatchesInv'
        BY <2>1 DEF QInv, MatchesInv
    <2>5. PromiseInv'
        BY <2>1, <2>2, KeysStay, IndexedGrow DEF QInv, PromiseInv
    <2>6. TypesInv'
        BY <2>1 DEF QInv, TypesInv
    <2>7. QED
        BY <2>1, <2>3, <2>4, <2>5, <2>6, Unanswered DEF QInv
<1>3. QED
    BY <1>1, <1>2

LEMMA IndexLoadedSteps ==
    ASSUME QInv, IndexLoaded
    PROVE  QInv'
<1>1. CASE Fail
    BY <1>1, FailSteps
<1>2. CASE ~Fail
    <2>1. /\ stage = "index" /\ tpc = "idle" /\ toutcome = "ok"
          /\ matches' \in Bijection(1 .. Cardinality(Candidates), Candidates)
          /\ stage' = "fetch"
          /\ UNCHANGED << asked, reply, answer, points, promised >>
          /\ UNCHANGED hvars /\ UNCHANGED tvars
        BY <1>2 DEF IndexLoaded
    <2>2. /\ UNCHANGED << pc, outcome, call, root_loaded, lost, entries >>
          /\ UNCHANGED << tcall, tpc, toutcome, tentries, theader >>
        BY <2>1 DEF hvars, vars, tvars
    <2>3. StageInv'
        BY <2>1, <2>2 DEF QInv, StageInv, HierarchyLoad, IndexLoad
    <2>4. MatchesInv'
        <3>1. Candidates' = Candidates
            BY <2>1, <2>2 DEF Candidates, Joined, InBoth, InAskedBox, CandidateRange,
               T!nodes_in_range
        <3>2. QED
            BY <2>1, <3>1 DEF MatchesInv
    <2>5. PromiseInv'
        BY <2>1, <2>2, KeysStay DEF QInv, PromiseInv
    <2>6. TypesInv'
        BY <2>1 DEF QInv, TypesInv
    <2>7. QED
        BY <2>1, <2>3, <2>4, <2>5, <2>6, Unanswered DEF QInv
<1>3. QED
    BY <1>1, <1>2

LEMMA FetchedSteps ==
    ASSUME QInv, IInv, P!IInv, P!FoundOrLost, Fetched
    PROVE  QInv'
<1>1. /\ Fetching /\ stage' = "idle" /\ reply' = "ok" /\ matches' = << >>
      /\ asked' = asked /\ promised' = promised /\ evlrs' = evlrs
      /\ asked \in Question
    BY FetchLoaded DEF Fetched, Fetching, tvars
<1>2. /\ FileStride' = FileStride
      /\ \A k : Sampled(k)' <=> Sampled(k)
      /\ \A k, i : (InWindow(k, i)' <=> InWindow(k, i)) /\ (InAsked(k, i)' <=> InAsked(k, i))
    BY <1>1, SamplingStays, AskedStays
<1>3. StageInv' /\ MatchesInv' /\ PromiseInv'
    BY <1>1 DEF StageInv, MatchesInv, PromiseInv
<1>4. CASE asked.op \notin ForPoints
    <2>1. answer' = Pairs /\ points' = points
        BY <1>4 DEF Fetched
    <2>2. TypesInv'
        BY <1>1, <2>1 DEF QInv, TypesInv
    <2>3. RangesOfTheirChunks'
        BY <1>1, <1>2, <2>1, FetchedRanges DEF RangesOfTheirChunks, RangesOf
    <2>4. ChunksFound'
        BY <1>1, <1>2, <2>1, FetchedChunks DEF ChunksFound, ChunksOf
    <2>5. PointsFound'
        BY <1>1, <1>4 DEF PointsFound, Replied
    <2>6. QED
        BY <1>3, <2>2, <2>3, <2>4, <2>5 DEF QInv
<1>5. CASE asked.op \in ForPoints
    <2>1. answer' = << >> /\ points' = FetchedPoints
        BY <1>1, <1>5 DEF Fetched, FetchedPoints, Fetching, QInv, StageInv
    <2>2. TypesInv'
        BY <1>1, <2>1, FetchedPointsAsked DEF QInv, TypesInv, PointTypes
    <2>3. RangesOfTheirChunks'
        BY <2>1 DEF RangesOfTheirChunks
    <2>4. ChunksFound'
        BY <1>1, <1>5 DEF ChunksFound, Replied, ForPoints
    <2>5. PointsFound'
        BY <1>1, <1>2, <2>1, FetchedPointsAsked DEF PointsFound, PointsOf
    <2>6. QED
        BY <1>3, <2>2, <2>3, <2>4, <2>5 DEF QInv
<1>6. QED
    BY <1>4, <1>5

LEMMA StutterQInv ==
    ASSUME QInv, UNCHANGED queryVars
    PROVE  QInv'
<1>1. /\ UNCHANGED query /\ UNCHANGED tvars
      /\ UNCHANGED << stage, asked, matches, reply, answer, points, promised >>
      /\ UNCHANGED << pc, outcome, call, root_loaded, lost, entries >>
      /\ UNCHANGED << evlrs, tcall, tpc, toutcome, tentries, theader >>
    BY DEF queryVars, query, hvars, vars, tvars
<1>2. StageInv'
    BY <1>1 DEF QInv, StageInv, HierarchyLoad, IndexLoad
<1>3. MatchesInv'
    <2>1. Candidates' = Candidates
        BY <1>1 DEF Candidates, Joined, InBoth, InAskedBox, CandidateRange, T!nodes_in_range
    <2>2. QED
        BY <1>1, <2>1 DEF QInv, MatchesInv
<1>4. PromiseInv'
    BY <1>1, KeysStay DEF QInv, PromiseInv
<1>5. TypesInv'
    BY <1>1 DEF QInv, TypesInv
<1>6. QED
    BY <1>1, <1>2, <1>3, <1>4, <1>5, AnswersStay DEF QInv

LEMMA InitQInv == QueryInit => QInv
BY DEF QueryInit, QInv, StageInv, MatchesInv, PromiseInv, TypesInv, RangesOfTheirChunks,
       ChunksFound, PointsFound, Replied

LEMMA StepQInv == QInv /\ IInv /\ P!IInv /\ P!FoundOrLost /\ [QueryNext]_queryVars => QInv'
<1> SUFFICES ASSUME QInv, IInv, P!IInv, P!FoundOrLost, [QueryNext]_queryVars
             PROVE  QInv'
    OBVIOUS
<1>1. CASE OpenReader \/ UseReader
    <2>1. stage = "idle" /\ UNCHANGED query /\ evlrs' = evlrs
        BY <1>1 DEF OpenReader, UseReader, Ready, tvars
    <2>2. QED
        BY <2>1, IdleSteps
<1>2. CASE UseIndex
    <2>1. stage = "idle" /\ UNCHANGED query
        BY <1>2 DEF UseIndex, Ready
    <2>2. evlrs' = evlrs
        BY <1>2 DEF UseIndex, T!LoadHeader, T!FromReader, T!LoadRootPage, T!LoadAllPages,
           T!LoadPagesForTimeRange, T!Start, T!file
    <2>3. QED
        BY <2>1, <2>2, IdleSteps
<1>3. CASE \E c \in Question : Query(c)
    BY <1>3, QuerySteps
<1>4. CASE HierarchyStep \/ HierarchyDrop
    BY <1>4, HierarchySteps
<1>5. CASE IndexStep \/ IndexDrop
    BY <1>5, IndexSteps
<1>6. CASE HierarchyLoaded
    BY <1>6, HierarchyLoadedSteps
<1>7. CASE IndexLoaded
    BY <1>7, IndexLoadedSteps
<1>8. CASE Fetched
    BY <1>8, FetchedSteps
<1>9. CASE FetchFails
    BY <1>9, FailSteps DEF FetchFails
<1>10. CASE UNCHANGED queryVars
    BY <1>10, StutterQInv
<1>11. QED
    BY <1>1, <1>2, <1>3, <1>4, <1>5, <1>6, <1>7, <1>8, <1>9, <1>10
       DEF QueryNext, Requests, Steps

-----------------------------------------------------------------------------
(* The theorems.                                                           *)

(* The invariant holds together with those of the two caches.              *)
THEOREM QueryInvariant == QuerySpec => [](QInv /\ IInv /\ P!IInv)
<1>1. QuerySpec => []IInv
    BY UsesTheHierarchy, InductiveInvariant, PTL
<1>2. QuerySpec => []P!FoundOrLost
    BY UsesTheIndex, SameSpec, SameFile, SameTree, P!QueryFindsWhatIsNotLost, PTL
<1>3. QuerySpec => []QInv
    BY <1>1, <1>2, IndexInvariant, InitQInv, StepQInv, PTL DEF QuerySpec
<1>4. QED
    BY <1>1, <1>3, IndexInvariant, PTL

(* Each state of a query has the types of its stage; the keys it matches   *)
(* and the points it returns are of nodes of the file                      *)
(* (temporal_cache.rs:282-325, 395-441).                                   *)
THEOREM QueryTypeCorrect == QuerySpec => []QueryTypeOK
<1>1. ASSUME QInv, IInv, P!IInv
      PROVE  QueryTypeOK
    <2>1. ASSUME NEW i \in DOMAIN matches
          PROVE  /\ matches[i].key \in NodeKeys
                 /\ matches[i].range.start < matches[i].range.end
        <3>1. stage = "fetch" /\ asked \in Question /\ MatchesInv
            BY <1>1 DEF QInv, MatchesInv, StageInv
        <3>2. QED
            BY <1>1, <3>1, MatchFacts, CandidateFacts
    <2>2. QED
        BY <1>1, <2>1 DEF QInv, TypesInv, QueryTypeOK
<1>2. QED
    BY <1>1, QueryInvariant, PTL

(* A query fetches nodes of the hierarchy only, none twice, and estimates  *)
(* their ranges with a stride that is not 0 (temporal_cache.rs:302-310,    *)
(* 406-413, 463-469).                                                      *)
THEOREM FetchesAreSafe == QuerySpec => []FetchIsSafe
<1>1. ASSUME QInv, IInv, P!IInv
      PROVE  FetchIsSafe
    <2>1. tentries # {} => theader.stride > 0
        <3>1. tentries # {} => theader # T!NoHeader
            BY <1>1, IndexedNodes
        <3>2. QED
            BY <1>1, <3>1, StrideFacts
    <2>2. ASSUME NEW i \in DOMAIN matches
          PROVE  /\ \E e \in entries : e.key = matches[i].key
                 /\ \A j \in DOMAIN matches : matches[j].key = matches[i].key => i = j
                 /\ matches[i].range.start
                      <= Smaller(matches[i].range.end, Chunk[matches[i].key].count)
        <3>1. stage = "fetch" /\ asked \in Question /\ MatchesInv
            BY <1>1 DEF QInv, MatchesInv, StageInv
        <3>2. /\ \E e \in entries : e.key = matches[i].key
              /\ matches[i].key \in NodeKeys
              /\ matches[i].range \in [start : Nat, end : Nat]
              /\ matches[i].range.start < matches[i].range.end
              /\ matches[i].range.end <= Chunk[matches[i].key].count
            BY <1>1, <3>1, MatchFacts, CandidateFacts
        <3>3. \A j \in DOMAIN matches : matches[j].key = matches[i].key => i = j
            BY <1>1, <3>1, KeysMatchOnce
        <3>4. QED
            BY <3>2, <3>3 DEF Smaller
    <2>3. QED
        BY <2>1, <2>2 DEF FetchIsSafe
<1>2. QED
    BY <1>1, QueryInvariant, PTL

(* The range that comes with a chunk is one of that chunk and has all of   *)
(* its sampled points that are in the window (temporal_cache.rs:311-324).  *)
THEOREM RangesAreOfTheirChunks == QuerySpec => []RangesOfTheirChunks
<1>1. QInv => RangesOfTheirChunks
    BY DEF QInv
<1>2. QED
    BY <1>1, QueryInvariant, PTL

(* A chunk query that returns Ok has every chunk with a sampled point that *)
(* was asked for, whatever the loads before it read and failed to read,    *)
(* unless one of those had cut off the node (temporal_cache.rs:282-325,    *)
(* 333-373).                                                               *)
THEOREM ChunksAreFound == QuerySpec => []ChunksFound
<1>1. QInv => ChunksFound
    BY DEF QInv
<1>2. QED
    BY <1>1, QueryInvariant, PTL

(* A point query that returns Ok has only points that were asked for, and  *)
(* of a node not cut off before all but some between two samples           *)
(* (temporal_cache.rs:395-441, 450-477).                                   *)
THEOREM PointsAreFound == QuerySpec => []PointsFound
<1>1. QInv => PointsFound
    BY DEF QInv
<1>2. QED
    BY <1>1, QueryInvariant, PTL

(* When every point is a sample, a point query is exact: of each node that  *)
(* both indexes describe and no load before it had cut off, it returns the  *)
(* points in the window and the box and no others                           *)
(* (temporal_cache.rs:395-441, 450-477).                                    *)
THEOREM PointsAreExactAtStrideOne ==
    QuerySpec => [](FileStride = 1 /\ Replied(ForPoints) =>
                        \A k \in promised : Sampled(k) =>
                            \A p \in Upto(Chunk[k].count) :
                                InAsked(k, p) <=> << k, p >> \in points)
<1>1. ASSUME PointsFound, FileStride = 1, Replied(ForPoints),
             NEW k \in promised, Sampled(k), NEW p \in Upto(Chunk[k].count)
      PROVE  InAsked(k, p) <=> << k, p >> \in points
    <2>1. PICK m \in Upto(Chunk[k].count) : \A x \in Upto(Chunk[k].count) :
              InAsked(k, x) /\ << k, x >> \notin points =>
                  m * FileStride < x /\ x < (m + 1) * FileStride
        BY <1>1 DEF PointsFound
    <2>2. m \in Int /\ p \in Int
        BY DEF Upto
    <2>3. ~(m * FileStride < p /\ p < (m + 1) * FileStride)
        BY <1>1, <2>2
    <2>4. << k, p >> \in points => InAsked(k, p)
        BY <1>1 DEF PointsFound
    <2>5. QED
        BY <2>1, <2>3, <2>4
<1>2. PointsFound =>
          (FileStride = 1 /\ Replied(ForPoints) =>
               \A k \in promised : Sampled(k) =>
                   \A p \in Upto(Chunk[k].count) :
                       InAsked(k, p) <=> << k, p >> \in points)
    BY <1>1
<1>3. QED
    BY <1>2, PointsAreFound, PTL
=============================================================================
