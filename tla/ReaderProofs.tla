---------------------------- MODULE ReaderProofs ----------------------------
(***************************************************************************)
(* What the reader promises, for every file and every sequence of calls,   *)
(* failures and dropped futures.                                           *)
(*                                                                         *)
(* The cache is used by its own steps only (UsesTheCache), so that what    *)
(* HierarchyCacheProofs says of it holds inside the reader.  The invariant *)
(* of the reader itself is RInv: what open has done at each stage, that    *)
(* keys are keys of entries, and that a query loads, fetches and returns   *)
(* what was asked.                                                         *)
(***************************************************************************)
EXTENDS Reader, HierarchyCacheProofs

-----------------------------------------------------------------------------
(* The reader uses its cache by the methods of the cache, one at a time.   *)

LEMMA CacheCalls ==
    ASSUME NEW b \in QueryBox, NEW l \in QueryLimit \cup {NoLimit}, NEW op,
           Query(op, b, l)
    PROVE  Calls
<1>1. b \in Box /\ (l # NoLimit => l \in LevelLimit)
    BY PointAssumption
<1>2. QED
    BY <1>1 DEF Query, Calls

LEMMA StepUsesTheCache == [ReaderNext]_readerVars => [Next]_vars
<1> SUFFICES ASSUME [ReaderNext]_readerVars
             PROVE  [Next]_vars
    OBVIOUS
<1>1. CASE HeaderRead
    BY <1>1 DEF HeaderRead, Next, Calls
<1>2. CASE LoadHierarchy
    BY <1>2 DEF LoadHierarchy, Next, Calls
<1>3. CASE CacheProgress \/ CacheCancel
    BY <1>3 DEF CacheProgress, CacheCancel, Next
<1>4. ASSUME NEW b \in QueryBox, NEW l \in QueryLimit \cup {NoLimit}, NEW op,
             Query(op, b, l)
      PROVE  Next
    BY <1>4, CacheCalls DEF Next
<1>5. CASE Open \/ HeaderFails \/ Opened \/ QueryLoaded \/ Fetched \/ FetchFails
    BY <1>5 DEF Open, HeaderFails, Opened, QueryLoaded, Fetched, FetchFails
<1>6. CASE \E b \in QueryBox, l \in QueryLimit \cup {NoLimit} : VisibleKeys(b, l)
    BY <1>6 DEF VisibleKeys
<1>7. CASE Fetch(held) \/ \E k \in NodeKeys : Fetch({k})
    BY <1>7 DEF Fetch
<1>8. CASE UNCHANGED readerVars
    BY <1>8 DEF readerVars
<1>9. QED
    BY <1>1, <1>2, <1>3, <1>4, <1>5, <1>6, <1>7, <1>8 DEF ReaderNext, Requests, Steps

(* Whatever the caller of the reader does, its cache sees a legal sequence *)
(* of calls (reader.rs:109-153, 275-297).                                  *)
THEOREM UsesTheCache == ReaderSpec => Spec
<1>1. ReaderInit => Init
    BY DEF ReaderInit
<1>2. QED
    BY <1>1, StepUsesTheCache, PTL DEF ReaderSpec, Spec

-----------------------------------------------------------------------------
(* The cache between two steps of the reader.                              *)

LEMMA EntryKeys ==
    ASSUME IInv
    PROVE  \A e \in entries :
               \E p \in loaded : \E n \in Nodes(p) :
                   /\ e.key = n.key
                   /\ e.point_count = n.point_count
                   /\ n.key \in NodeKeys
<1> SUFFICES ASSUME NEW e \in entries
             PROVE  \E p \in loaded : \E n \in Nodes(p) :
                        /\ e.key = n.key
                        /\ e.point_count = n.point_count
                        /\ n.key \in NodeKeys
    OBVIOUS
<1>1. PICK p \in loaded : \E n \in Nodes(p) : e = EntryOf(n)
    BY DEF IInv, EntriesParsed, EntriesIn
<1>2. PICK n \in Nodes(p) : e = EntryOf(n)
    BY <1>1
<1>3. e.key = n.key /\ e.point_count = n.point_count
    BY <1>2 DEF EntryOf
<1>4. p \in Page
    BY DEF IInv, TypeOK
<1>5. n.key \in NodeKeys
    BY <1>4 DEF NodeKeys
<1>6. QED
    BY <1>3, <1>5

LEMMA LostGrows ==
    ASSUME [Next]_vars
    PROVE  lost \subseteq lost'
BY DEF Next, Calls, Progress, LoadRoot, LoadPendingPages, LoadAll,
       LoadPagesForBounds, LoadPagesForBoundsToLevel, Start, RootRead, TakeBatch,
       Return, BatchRead, ReadFails, Cancel, Abandon, vars

LEMMA RootStays ==
    ASSUME [Next]_vars, root_loaded
    PROVE  root_loaded'
BY DEF Next, Calls, Progress, LoadRoot, LoadPendingPages, LoadAll,
       LoadPagesForBounds, LoadPagesForBoundsToLevel, Start, RootRead, TakeBatch,
       Return, BatchRead, ReadFails, Cancel, Abandon, vars

-----------------------------------------------------------------------------
(* The invariant of the reader.                                            *)

(* What open has done so far. *)
OpenInv ==
    /\ stage \in {"closed", "header"} =>
          pc = "idle" /\ ~root_loaded /\ entries = {} /\ pending_pages = {}
    /\ stage = "root" =>
          /\ pc \in {"idle", "root"}
          /\ call.op = "load_root"
          /\ ~root_loaded => entries = {} /\ pending_pages = {}
          /\ pc = "idle" => (outcome = "ok" <=> root_loaded)
    /\ stage \in {"idle", "load", "fetch"} => root_loaded

Querying == ask.op \in {"query_chunks", "query_points"}

(* The load that a query makes. *)
CallOf(a) ==
    IF a.max_level = NoLimit
    THEN [op |-> "load_pages_for_bounds", box |-> a.box]
    ELSE [op |-> "load_pages_for_bounds_to_level", box |-> a.box, max_level |-> a.max_level]

(* The keys a caller keeps, and those a call waits for, are in the cache. *)
KeysKnown ==
    held \cup (IF stage = "fetch" THEN keys ELSE {}) \subseteq { e.key : e \in entries }

(* A query loads for what was asked; once it has loaded, its keys are      *)
(* those of the nodes asked for.                                           *)
QueryInv ==
    /\ stage \in {"closed", "header", "root"} => reply = "none"
    /\ stage = "load" => Querying /\ call = CallOf(ask)
    /\ stage = "fetch" /\ Querying => OnlyAsked(keys) /\ AllAsked(keys)
    /\ QueryReturnsChunks

(* The points are those of the chunks that are in the box. *)
PointsInv ==
    (Answer /\ ask.op = "query_points") =>
        points = { q \in PointsIn(chunks) : inside(q[2], ask.box) }

RInv ==
    /\ ReaderTypeOK
    /\ OpenInv
    /\ KeysKnown
    /\ QueryInv
    /\ PointsInv

(* The step of the cache, and what a step of the reader may assume of it. *)
CacheStep ==
    /\ IInv /\ IInv'
    /\ [Next]_vars
    /\ entries \subseteq entries'
    /\ lost \subseteq lost'
    /\ root_loaded => root_loaded'

LEMMA InitRInv == ReaderInit => RInv
BY DEF ReaderInit, Init, RInv, ReaderTypeOK, OpenInv, KeysKnown, QueryInv,
       PointsInv, QueryReturnsChunks, Answer, Ask

LEMMA VisibleKeysAreKept ==
    ASSUME IInv, NEW b, NEW l
    PROVE  /\ visible_keys(b, l) \subseteq { e.key : e \in entries }
           /\ visible_keys(b, l) \subseteq NodeKeys
BY EntryKeys DEF visible_keys

LEMMA TypeStep ==
    ASSUME RInv, CacheStep, [ReaderNext]_readerVars
    PROVE  ReaderTypeOK'
<1> USE DEF ReaderTypeOK, RInv
<1>1. CASE Open \/ HeaderRead \/ HeaderFails \/ Opened
    BY <1>1 DEF Open, HeaderRead, HeaderFails, Opened
<1>2. CASE LoadHierarchy \/ CacheProgress \/ CacheCancel
    BY <1>2 DEF LoadHierarchy, CacheProgress, CacheCancel, reader
<1>3. ASSUME NEW b \in QueryBox, NEW l \in QueryLimit \cup {NoLimit}, VisibleKeys(b, l)
      PROVE  ReaderTypeOK'
    BY <1>3, VisibleKeysAreKept DEF VisibleKeys, CacheStep
<1>4. ASSUME NEW b \in QueryBox, NEW l \in QueryLimit \cup {NoLimit},
             NEW op \in {"query_chunks", "query_points"}, Query(op, b, l)
      PROVE  ReaderTypeOK'
    BY <1>4 DEF Query, Ask
<1>5. CASE QueryLoaded
    BY <1>5, VisibleKeysAreKept DEF QueryLoaded, Fail, CacheStep
<1>6. CASE Fetch(held) \/ \E k \in NodeKeys : Fetch({k})
    BY <1>6 DEF Fetch, Fail, Ask
<1>7. CASE Fetched
    <2>1. PointsIn(keys) \subseteq NodeKeys \X Point
        BY PointAssumption DEF PointsIn
    <2>2. QED
        BY <1>7, <2>1 DEF Fetched
<1>8. CASE FetchFails
    BY <1>8 DEF FetchFails, Fail
<1>9. CASE UNCHANGED readerVars
    BY <1>9 DEF readerVars, reader
<1>10. QED
    BY <1>1, <1>2, <1>3, <1>4, <1>5, <1>6, <1>7, <1>8, <1>9
       DEF ReaderNext, Requests, Steps

LEMMA OpenStep ==
    ASSUME RInv, CacheStep, [ReaderNext]_readerVars
    PROVE  OpenInv'
<1> USE DEF OpenInv, RInv
<1>1. CASE Open
    BY <1>1 DEF Open, vars
<1>2. CASE HeaderRead
    BY <1>2 DEF HeaderRead, LoadRoot, Start
<1>3. CASE HeaderFails
    BY <1>3 DEF HeaderFails, vars
<1>4. CASE Opened
    BY <1>4 DEF Opened, vars
<1>5. CASE LoadHierarchy
    BY <1>5 DEF LoadHierarchy, Ready, reader, CacheStep
<1>6. CASE CacheProgress \/ CacheCancel
    <2>1. UNCHANGED reader /\ (Progress \/ Cancel)
        BY <1>6 DEF CacheProgress, CacheCancel
    <2>2. stage' = stage
        BY <2>1 DEF reader
    <2>3. pc # "idle"
        BY <2>1 DEF Progress, RootRead, TakeBatch, Return, BatchRead, ReadFails,
                    Cancel, Abandon
    <2>4. CASE stage = "root"
        <3>1. pc = "root" /\ call.op = "load_root" /\ ~root_loaded
            BY <2>3, <2>4 DEF CacheStep, IInv, CallInv
        <3>2. \/ RootRead
              \/ Abandon("err")
              \/ Abandon("cancelled")
            BY <2>1, <3>1 DEF Progress, TakeBatch, Return, BatchRead, ReadFails, Cancel
        <3>3. CASE RootRead
            BY <2>2, <2>4, <3>1, <3>3 DEF RootRead, Finish
        <3>4. CASE Abandon("err") \/ Abandon("cancelled")
            BY <2>2, <2>4, <3>1, <3>4 DEF Abandon, Finish
        <3>5. QED
            BY <3>2, <3>3, <3>4
    <2>5. CASE stage # "root"
        BY <2>2, <2>3, <2>5 DEF CacheStep
    <2>6. QED
        BY <2>4, <2>5
<1>7. ASSUME NEW b \in QueryBox, NEW l \in QueryLimit \cup {NoLimit}, VisibleKeys(b, l)
      PROVE  OpenInv'
    BY <1>7 DEF VisibleKeys, vars
<1>8. ASSUME NEW b \in QueryBox, NEW l \in QueryLimit \cup {NoLimit},
             NEW op \in {"query_chunks", "query_points"}, Query(op, b, l)
      PROVE  OpenInv'
    BY <1>8 DEF Query, Ready, CacheStep
<1>9. CASE QueryLoaded \/ Fetched \/ FetchFails
    BY <1>9 DEF QueryLoaded, Fetched, FetchFails, Fail, vars
<1>10. CASE Fetch(held) \/ \E k \in NodeKeys : Fetch({k})
    BY <1>10 DEF Fetch, Ready, Fail, vars
<1>11. CASE UNCHANGED readerVars
    BY <1>11 DEF readerVars, reader, vars
<1>12. QED
    BY <1>1, <1>2, <1>3, <1>4, <1>5, <1>6, <1>7, <1>8, <1>9, <1>10, <1>11
       DEF ReaderNext, Requests, Steps

LEMMA KeptStep ==
    ASSUME RInv, CacheStep, [ReaderNext]_readerVars
    PROVE  KeysKnown'
<1> DEFINE known == { e.key : e \in entries }
<1>1. known \subseteq known'
    BY DEF CacheStep
<1>2. held \subseteq known /\ (stage = "fetch" => keys \subseteq known)
    BY DEF RInv, KeysKnown
<1>3. SUFFICES held' \subseteq known' /\ (stage' = "fetch" => keys' \subseteq known')
    BY DEF KeysKnown
<1> HIDE DEF known
<1>4. CASE Open \/ HeaderRead \/ HeaderFails \/ Opened
    BY <1>1, <1>2, <1>4 DEF Open, HeaderRead, HeaderFails, Opened
<1>5. CASE LoadHierarchy \/ CacheProgress \/ CacheCancel
    BY <1>1, <1>2, <1>5 DEF LoadHierarchy, CacheProgress, CacheCancel, reader
<1>6. ASSUME NEW b \in QueryBox, NEW l \in QueryLimit \cup {NoLimit}, VisibleKeys(b, l)
      PROVE  held' \subseteq known' /\ stage' # "fetch"
    BY <1>1, <1>6, VisibleKeysAreKept DEF VisibleKeys, Ready, CacheStep, known
<1>7. ASSUME NEW b \in QueryBox, NEW l \in QueryLimit \cup {NoLimit},
             NEW op \in {"query_chunks", "query_points"}, Query(op, b, l)
      PROVE  held' = held /\ stage' # "fetch"
    BY <1>7 DEF Query
<1>8. CASE QueryLoaded
    BY <1>1, <1>2, <1>8, VisibleKeysAreKept DEF QueryLoaded, Fail, CacheStep, known
<1>9. CASE Fetched \/ FetchFails
    BY <1>1, <1>2, <1>9 DEF Fetched, FetchFails, Fail
<1>10. ASSUME NEW ks, Fetch(ks)
      PROVE  held' = held /\ (stage' = "fetch" => keys' \subseteq known)
    <2>1. CASE stage' = "fetch"
        <3>1. \A k \in ks : \E e \in entries : e.key = k
            BY <1>10, <2>1 DEF Fetch, Fail
        <3>2. QED
            BY <1>10, <3>1 DEF Fetch, known
    <2>2. QED
        BY <1>10, <2>1 DEF Fetch
<1>11. CASE UNCHANGED readerVars
    BY <1>1, <1>2, <1>11 DEF readerVars, reader
<1>12. QED
    BY <1>1, <1>2, <1>4, <1>5, <1>6, <1>7, <1>8, <1>9, <1>10, <1>11
       DEF ReaderNext, Requests, Steps

-----------------------------------------------------------------------------
(* What a query asks for, and what its load has brought.                   *)

LEMMA LoadedIsAsked ==
    ASSUME IInv, ReaderTypeOK, pc = "idle", outcome = "ok", root_loaded,
           Querying, call = CallOf(ask)
    PROVE  /\ OnlyAsked(visible_keys(ask.box, ask.max_level))
           /\ AllAsked(visible_keys(ask.box, ask.max_level))
<1> DEFINE K == visible_keys(ask.box, ask.max_level)
<1>1. ASSUME NEW k \in K
      PROVE  \E p \in Page : \E e \in Nodes(p) : e.key = k /\ Asked(e)
    <2>1. PICK n \in entries : /\ n.key = k
                               /\ n.point_count > 0
                               /\ n.key.level <= ask.max_level
                               /\ intersects(bounds(n.key), ask.box)
        BY DEF visible_keys
    <2>2. PICK p \in loaded : \E e \in Nodes(p) :
              n.key = e.key /\ n.point_count = e.point_count
        BY EntryKeys
    <2>3. p \in Page
        BY DEF IInv, TypeOK
    <2>4. QED
        BY <2>1, <2>2, <2>3 DEF Asked
<1>2. ASSUME NEW p \in Available, NEW e \in Nodes(p), Asked(e)
      PROVE  e.key \in K
    <2>1. Wanted(call, e.key)
        <3>1. CASE ask.max_level = NoLimit
            BY <1>2, <3>1 DEF CallOf, Wanted, Asked
        <3>2. CASE ask.max_level # NoLimit
            BY <1>2, <3>2 DEF CallOf, Wanted, Asked
        <3>3. QED
            BY <3>1, <3>2
    <2>2. EntryOf(e) \in entries
        BY <2>1, CompleteWhenAnswered DEF LoadedOrForgotten, Answered, Available, HasNode
    <2>3. EntryOf(e).key = e.key /\ EntryOf(e).point_count = e.point_count
        BY DEF EntryOf
    <2>4. QED
        BY <1>2, <2>2, <2>3 DEF visible_keys, Asked
<1>3. QED
    BY <1>1, <1>2 DEF OnlyAsked, AllAsked

LEMMA AvailableShrinks ==
    ASSUME lost \subseteq lost'
    PROVE  Available' \subseteq Available
BY DEF Available, ReachableFrom, Closed

(* What was complete stays so, as pages can only be lost. *)
LEMMA AskedStays ==
    ASSUME lost \subseteq lost', UNCHANGED ask
    PROVE  /\ UNCHANGED keys /\ OnlyAsked(keys) /\ AllAsked(keys)
                => OnlyAsked(keys)' /\ AllAsked(keys)'
           /\ UNCHANGED chunks /\ OnlyAsked(chunks) /\ AllAsked(chunks)
                => OnlyAsked(chunks)' /\ AllAsked(chunks)'
           /\ chunks' = keys /\ OnlyAsked(keys) /\ AllAsked(keys)
                => OnlyAsked(chunks)' /\ AllAsked(chunks)'
BY AvailableShrinks DEF OnlyAsked, AllAsked, Asked

(* A load that goes on, or is dropped, is the one that was called. *)
LEMMA CallStays ==
    ASSUME Progress \/ Cancel
    PROVE  UNCHANGED call
BY DEF Progress, RootRead, TakeBatch, Return, BatchRead, ReadFails, Cancel, Abandon

LEMMA QueryStep ==
    ASSUME RInv, CacheStep, [ReaderNext]_readerVars
    PROVE  QueryInv'
<1> DEFINE Good(ks) == OnlyAsked(ks) /\ AllAsked(ks)
           Goal == /\ stage' \in {"closed", "header", "root"} => reply' = "none"
                   /\ stage' = "load" => Querying' /\ call' = CallOf(ask)'
                   /\ stage' = "fetch" /\ Querying' => Good(keys)'
                   /\ Answer' => Good(chunks)'
<1>1. lost \subseteq lost'
    BY DEF CacheStep
<1>2. SUFFICES Goal
    BY DEF QueryInv, QueryReturnsChunks
<1>3. /\ stage \in {"closed", "header", "root"} => reply = "none"
      /\ stage = "load" => Querying /\ call = CallOf(ask)
      /\ stage = "fetch" /\ Querying => Good(keys)
      /\ Answer => Good(chunks)
    BY DEF RInv, QueryInv, QueryReturnsChunks
<1> HIDE DEF Good
<1>4. ASSUME UNCHANGED << stage, ask, keys, reply, chunks >>,
             stage = "load" => UNCHANGED call
      PROVE  Goal
    <2>1. /\ Good(keys) => Good(keys)'
          /\ Good(chunks) => Good(chunks)'
        BY <1>1, <1>4, AskedStays DEF Good
    <2>2. QED
        BY <1>3, <1>4, <2>1 DEF Answer, Querying, CallOf
<1>5. CASE CacheProgress \/ CacheCancel
    <2>1. UNCHANGED << stage, ask, keys, reply, chunks >> /\ UNCHANGED call
        BY <1>5, CallStays DEF CacheProgress, CacheCancel, reader
    <2>2. QED
        BY <1>4, <2>1
<1>6. CASE LoadHierarchy
    <2>1. UNCHANGED << stage, ask, keys, reply, chunks >> /\ stage # "load"
        BY <1>6 DEF LoadHierarchy, Ready, reader
    <2>2. QED
        BY <1>4, <2>1
<1>7. CASE UNCHANGED readerVars
    <2>1. UNCHANGED << stage, ask, keys, reply, chunks >> /\ UNCHANGED call
        BY <1>7 DEF readerVars, reader, vars
    <2>2. QED
        BY <1>4, <2>1
<1>8. ASSUME NEW b \in QueryBox, NEW l \in QueryLimit \cup {NoLimit}, VisibleKeys(b, l)
      PROVE  Goal
    <2>1. UNCHANGED << stage, ask, keys, reply, chunks >> /\ UNCHANGED call
        BY <1>8 DEF VisibleKeys, vars
    <2>2. QED
        BY <1>4, <2>1
<1>9. CASE Open \/ HeaderRead \/ HeaderFails \/ Opened
    BY <1>3, <1>9 DEF Open, HeaderRead, HeaderFails, Opened, Answer
<1>10. ASSUME NEW b \in QueryBox, NEW l \in QueryLimit \cup {NoLimit},
             NEW op \in {"query_chunks", "query_points"}, Query(op, b, l)
      PROVE  Goal
    BY <1>10 DEF Query, Start, LoadPagesForBounds, LoadPagesForBoundsToLevel, CallOf,
                 Querying, Answer
<1>11. CASE QueryLoaded
    <2>1. CASE outcome = "ok"
        <3>1. Good(visible_keys(ask.box, ask.max_level))
            BY <1>3, <1>11, <2>1, LoadedIsAsked
               DEF QueryLoaded, Good, CacheStep, RInv, OpenInv
        <3>2. /\ stage' = "fetch"
              /\ keys' = visible_keys(ask.box, ask.max_level)
              /\ ask' = ask /\ lost' = lost
            BY <1>11, <2>1 DEF QueryLoaded, vars
        <3>3. Good(keys)'
            BY <3>1, <3>2 DEF Good, OnlyAsked, AllAsked, Asked, Available, ReachableFrom
        <3>4. QED
            BY <3>2, <3>3 DEF Answer
    <2>2. CASE outcome # "ok"
        BY <1>11, <2>2 DEF QueryLoaded, Fail, Answer
    <2>3. QED
        BY <2>1, <2>2
<1>12. ASSUME NEW ks, Fetch(ks)
      PROVE  Goal
    BY <1>12 DEF Fetch, Ready, Fail, Querying, Answer
<1>13. CASE Fetched
    <2>1. stage' = "idle" /\ ask' = ask /\ chunks' = keys
        BY <1>13 DEF Fetched
    <2>2. Good(keys) => Good(chunks)'
        BY <1>1, <2>1, AskedStays DEF Good
    <2>3. Answer' => Querying
        BY <2>1 DEF Answer, Querying
    <2>4. QED
        BY <1>3, <1>13, <2>1, <2>2, <2>3 DEF Fetched
<1>14. CASE FetchFails
    BY <1>14 DEF FetchFails, Fail, Answer
<1>15. QED
    BY <1>5, <1>6, <1>7, <1>8, <1>9, <1>10, <1>11, <1>12, <1>13, <1>14
       DEF ReaderNext, Requests, Steps

LEMMA PointsStep ==
    ASSUME RInv, CacheStep, [ReaderNext]_readerVars
    PROVE  PointsInv'
<1> USE DEF PointsInv, Answer
<1>1. CASE UNCHANGED << stage, ask, reply, chunks, points >>
    BY <1>1 DEF RInv, PointsIn, inside
<1>2. CASE stage' # "idle" \/ reply' # "ok"
    BY <1>2
<1>3. CASE Fetched
    BY <1>3 DEF Fetched, PointsIn, inside
<1>4. CASE Opened
    BY <1>4 DEF Opened, RInv, QueryInv
<1>5. ASSUME NEW ks, Fetch(ks)
      PROVE  stage' # "idle" \/ reply' # "ok"
    BY <1>5 DEF Fetch, Fail
<1>6. ASSUME NEW b \in QueryBox, NEW l \in QueryLimit \cup {NoLimit},
             NEW op \in {"query_chunks", "query_points"}, Query(op, b, l)
      PROVE  stage' # "idle"
    BY <1>6 DEF Query
<1>7. ASSUME NEW b \in QueryBox, NEW l \in QueryLimit \cup {NoLimit}, VisibleKeys(b, l)
      PROVE  UNCHANGED << stage, ask, reply, chunks, points >>
    BY <1>7 DEF VisibleKeys
<1>8. CASE Open \/ HeaderRead \/ HeaderFails \/ QueryLoaded \/ FetchFails
    BY <1>2, <1>8 DEF Open, HeaderRead, HeaderFails, QueryLoaded, FetchFails, Fail
<1>9. CASE LoadHierarchy \/ CacheProgress \/ CacheCancel \/ UNCHANGED readerVars
    BY <1>1, <1>9 DEF LoadHierarchy, CacheProgress, CacheCancel, readerVars, reader
<1>10. QED
    BY <1>1, <1>2, <1>3, <1>4, <1>5, <1>6, <1>7, <1>8, <1>9
       DEF ReaderNext, Requests, Steps

LEMMA StepRInv == RInv /\ IInv /\ IInv' /\ [ReaderNext]_readerVars => RInv'
<1> SUFFICES ASSUME RInv, IInv, IInv', [ReaderNext]_readerVars
             PROVE  RInv'
    OBVIOUS
<1>1. CacheStep
    BY StepUsesTheCache, EntriesGrow, LostGrows, RootStays DEF CacheStep
<1>2. QED
    BY <1>1, TypeStep, OpenStep, KeptStep, QueryStep, PointsStep DEF RInv

-----------------------------------------------------------------------------
(* The theorems.                                                           *)

(* The invariant of the reader, with that of its cache. *)
THEOREM ReaderInvariant == ReaderSpec => [](RInv /\ IInv)
<1>1. ReaderSpec => []IInv
    BY UsesTheCache, InductiveInvariant, PTL
<1>2. QED
    BY <1>1, InitRInv, StepRInv, PTL DEF ReaderSpec

(* The keys, chunks and points that the reader hands out are of the file.  *)
THEOREM ReaderTypeCorrect == ReaderSpec => []ReaderTypeOK
BY ReaderInvariant, PTL DEF RInv

(* A reader that open has returned has its root page, one that fails to    *)
(* open has nothing (reader.rs:23-37).                                     *)
THEOREM OpenReadsTheRoot == ReaderSpec => []OpenReaderHasRoot
<1>1. RInv => OpenReaderHasRoot
    BY DEF RInv, OpenInv, OpenReaderHasRoot
<1>2. QED
    BY <1>1, ReaderInvariant, PTL

(* A query returns the chunks of the nodes it asks for, all of them but    *)
(* the ones beyond a lost page (reader.rs:253-297).                        *)
THEOREM QueriesReturnTheirChunks == ReaderSpec => []QueryReturnsChunks
BY ReaderInvariant, PTL DEF RInv, QueryInv

LEMMA InsideIsInBox ==
    ASSUME NEW a \in Point, NEW b \in Aabb
    PROVE  inside(a, b) <=> InBox(a, b)
BY DEF inside, InBox, Point, Aabb

(* A point in the box is in a cell that meets the box. *)
LEMMA PointsAreAsked ==
    ASSUME ReaderTypeOK, ask.op = "query_points",
           NEW p \in Page, NEW e \in Nodes(p), NEW a \in Points[e.key],
           e.key.level <= ask.max_level, InBox(a, ask.box)
    PROVE  Asked(e) /\ inside(a, ask.box)
<1>1. e \in WireEntry /\ e.point_count >= 0 /\ e.key \in NodeKeys
    BY FileAssumption DEF Nodes, IsNode, NodeKeys
<1>2. a \in Point /\ ask.box \in Aabb
    BY <1>1, PointAssumption, FileAssumption DEF ReaderTypeOK, Ask
<1>3. bounds(e.key) \in Aabb
    BY <1>1, BoundsType DEF WireEntry
<1>4. e.point_count > 0
    BY <1>1, PointAssumption DEF WireEntry
<1>5. intersects(bounds(e.key), [min |-> a, max |-> a])
    BY PointAssumption
<1>6. intersects(bounds(e.key), ask.box)
    <2>1. ASSUME NEW x \in Axis
          PROVE  /\ bounds(e.key).min[x] <= ask.box.max[x]
                 /\ bounds(e.key).max[x] >= ask.box.min[x]
        <3>1. bounds(e.key).min[x] <= a[x] /\ bounds(e.key).max[x] >= a[x]
            BY <1>5 DEF intersects
        <3>2. ask.box.min[x] <= a[x] /\ a[x] <= ask.box.max[x]
            BY <1>2, InsideIsInBox DEF inside
        <3>3. /\ a[x] \in Int
              /\ ask.box.min[x] \in Int /\ ask.box.max[x] \in Int
              /\ bounds(e.key).min[x] \in Int /\ bounds(e.key).max[x] \in Int
            BY <1>2, <1>3 DEF Aabb, Point
        <3>4. QED
            BY <3>1, <3>2, <3>3
    <2>2. QED
        BY <2>1 DEF intersects
<1>7. QED
    BY <1>2, <1>4, <1>6, InsideIsInBox DEF Asked

(* A query returns the points in its box, all of them but the ones beyond  *)
(* a lost page: neither pages, nor nodes, nor points are left out that     *)
(* should not be (reader.rs:322-369, chunk.rs:235-251).                    *)
THEOREM QueriesReturnTheirPoints == ReaderSpec => []QueryReturnsPoints
<1>1. RInv => QueryReturnsPoints
    <2> SUFFICES ASSUME RInv, Answer, ask.op = "query_points"
                 PROVE  /\ \A q \in points : q[2] \in Points[q[1]] /\ InBox(q[2], ask.box)
                        /\ \A p \in Available : \A e \in Nodes(p) : \A a \in Points[e.key] :
                              e.key.level <= ask.max_level /\ InBox(a, ask.box)
                                  => << e.key, a >> \in points
        BY DEF QueryReturnsPoints
    <2>1. points = { q \in PointsIn(chunks) : inside(q[2], ask.box) }
        BY DEF RInv, PointsInv
    <2>2. ASSUME NEW q \in points
          PROVE  q[2] \in Points[q[1]] /\ InBox(q[2], ask.box)
        <3>1. inside(q[2], ask.box) /\ q[2] \in Points[q[1]]
            BY <2>1 DEF PointsIn
        <3>2. q[2] \in Point /\ ask.box \in Aabb
            BY <3>1, FileAssumption, PointAssumption DEF RInv, ReaderTypeOK, Ask
        <3>3. QED
            BY <3>1, <3>2, InsideIsInBox
    <2>3. ASSUME NEW p \in Available, NEW e \in Nodes(p), NEW a \in Points[e.key],
                 e.key.level <= ask.max_level, InBox(a, ask.box)
          PROVE  << e.key, a >> \in points
        <3>1. p \in Page
            BY DEF Available, ReachableFrom
        <3>2. /\ Asked(e)
              /\ inside(a, ask.box)
            BY <2>3, <3>1, PointsAreAsked DEF RInv
        <3>3. e.key \in chunks
            BY <3>2 DEF RInv, QueryInv, QueryReturnsChunks, AllAsked
        <3>4. << e.key, a >> \in PointsIn(chunks)
            BY <3>3 DEF PointsIn
        <3>5. QED
            BY <2>1, <3>2, <3>4
    <2>4. QED
        BY <2>1, <2>2, <2>3
<1>2. QED
    BY <1>1, ReaderInvariant, PTL

(* A point query returns exactly the points of the file in its box and      *)
(* levels (reader.rs:322-369).                                              *)
ReturnsAllAsked ==
    (Answer /\ ask.op = "query_points") =>
        points = { q \in PointsIn(NodeKeys) :
                       q[1].level <= ask.max_level /\ InBox(q[2], ask.box) }

(* As long as no load has lost a page, a query is the filter of the whole   *)
(* file that its doc says, for a file without pages that no pointer names   *)
(* (reader.rs:322-369).                                                     *)
THEOREM QueriesFilterTheFile ==
    ReaderSpec => [](lost = {} /\ Page \subseteq ReachableFrom({RootPage})
                         => ReturnsAllAsked)
<1>1. ASSUME RInv, QueryReturnsPoints, lost = {}, Page \subseteq ReachableFrom({RootPage})
      PROVE  ReturnsAllAsked
    <2> SUFFICES ASSUME Answer, ask.op = "query_points"
                 PROVE  points = { q \in PointsIn(NodeKeys) :
                                       q[1].level <= ask.max_level /\ InBox(q[2], ask.box) }
        BY DEF ReturnsAllAsked
    <2>1. Page \subseteq Available
        BY <1>1, NothingBeyondNothing DEF Available
    <2>2. points = { q \in PointsIn(chunks) : inside(q[2], ask.box) }
        BY <1>1 DEF RInv, PointsInv
    <2>3. ASSUME NEW q \in points
          PROVE  q \in PointsIn(NodeKeys) /\ q[1].level <= ask.max_level /\ InBox(q[2], ask.box)
        <3>1. PICK k \in chunks : \E a \in Points[k] : q = << k, a >>
            BY <2>2 DEF PointsIn
        <3>2. q[1] = k
            BY <3>1
        <3>3. k \in NodeKeys /\ k.level <= ask.max_level
            BY <1>1, <3>1 DEF RInv, ReaderTypeOK, QueryInv, QueryReturnsChunks, OnlyAsked, Asked
        <3>4. q \in PointsIn(NodeKeys)
            BY <3>1, <3>3 DEF PointsIn
        <3>5. QED
            BY <1>1, <3>2, <3>3, <3>4 DEF QueryReturnsPoints
    <2>4. ASSUME NEW q \in PointsIn(NodeKeys),
                 q[1].level <= ask.max_level, InBox(q[2], ask.box)
          PROVE  q \in points
        <3>1. PICK k \in NodeKeys : \E a \in Points[k] : q = << k, a >>
            BY DEF PointsIn
        <3>2. PICK a \in Points[k] : q = << k, a >>
            BY <3>1
        <3>3. PICK p \in Page : \E e \in Nodes(p) : e.key = k
            BY DEF NodeKeys
        <3>4. PICK e \in Nodes(p) : e.key = k
            BY <3>3
        <3>5. QED
            BY <1>1, <2>1, <2>4, <3>2, <3>4 DEF QueryReturnsPoints
    <2>5. QED
        BY <2>2, <2>3, <2>4
<1>2. RInv /\ QueryReturnsPoints =>
          (lost = {} /\ Page \subseteq ReachableFrom({RootPage}) => ReturnsAllAsked)
    BY <1>1
<1>3. QED
    BY <1>2, ReaderInvariant, QueriesReturnTheirPoints, PTL
=============================================================================
