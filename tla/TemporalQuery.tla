---------------------------- MODULE TemporalQuery ----------------------------
(***************************************************************************)
(* Queries by time, and by time and box, of a COPC file                    *)
(* (copc-temporal/src/temporal_cache.rs): query_chunks, query_points and   *)
(* their _by_time forms.                                                   *)
(*                                                                         *)
(* A query loads the hierarchy of an open reader (HierarchyCache), then    *)
(* the temporal index (T, a TemporalCache), joins the two by the keys of   *)
(* their nodes, fetches the chunks and pairs each with the candidate range *)
(* of its node; a point query then looks at the points of each range.  It  *)
(* takes &mut of both, so that nothing else changes them while it runs;    *)
(* between two queries the caller may load what it likes into either.      *)
(*                                                                         *)
(* Abstractions.  As in Reader, the read and the decoding of the chunks    *)
(* are one step that succeeds or fails.  The keys come in the order of a   *)
(* HashMap, which is any order.  A point is told by its key and its place. *)
(***************************************************************************)
EXTENDS HierarchyCache, TemporalEntry, Sequences, FiniteSets, Functions
LOCAL INSTANCE SequencesExt

CONSTANTS
    Chunk,      \* Chunk[k]: count, pos and time of the points of node k
    Entry,      \* Entry[k]: the samples the temporal index has of node k
    TPage, TRootPage, TWire, Span,  \* the pages of the temporal index
    EvlrLists, Cuts,                \* where it is, and what is cut of it
    Window      \* the time windows queried

VARIABLES
    evlrs, damaged, theader, tentries, tpending, tcall, tpc, scanned,
    tinflight, toutcome, tparsed, tlost, trepaired

T == INSTANCE TemporalCache WITH
        Key <- VoxelKey, Page <- TPage, RootPage <- TRootPage, Wire <- TWire,
        header <- theader, entries <- tentries, pending_pages <- tpending,
        call <- tcall, pc <- tpc, inflight <- tinflight, outcome <- toutcome,
        parsed <- tparsed, lost <- tlost, repaired <- trepaired

VARIABLES
    stage,     \* idle, or what the query waits for: hierarchy, index, fetch
    asked,     \* the query called last
    matches,   \* keys with their candidate ranges, a local variable
    reply,     \* how the query ended
    answer,    \* the chunks with their ranges it returned
    points,    \* the points it returned
    promised   \* history: keys that no load before the query had cut off

hvars     == vars
tvars     == << evlrs, damaged, theader, tentries, tpending, tcall, tpc, scanned,
                tinflight, toutcome, tparsed, tlost, trepaired >>
query     == << stage, asked, matches, reply, answer, points, promised >>
queryVars == << hvars, tvars, query >>

ByTime == {"query_chunks_by_time", "query_points_by_time"}
Boxed  == {"query_chunks", "query_points"}
ForPoints == {"query_points", "query_points_by_time"}

NodeKeys == { e.key : e \in UNION { Nodes(p) : p \in Page } }

(***************************************************************************)
(* The chunk of a node holds as many points as its hierarchy entry says,   *)
(* in its cell.  The temporal index is another record: it may describe     *)
(* some nodes only, and a node as it no longer is; the samples of an entry *)
(* are in order, as a writer leaves them.                                  *)
(***************************************************************************)
ASSUME QueryAssumption ==
    /\ U32 \in Nat \ {0}
    /\ \A p \in Page : \A e \in Nodes(p) :
          /\ e.point_count = Chunk[e.key].count
          /\ e.point_count < U32
          /\ \A i \in Upto(e.point_count) :
                /\ Chunk[e.key].time[i] \in Int
                /\ Chunk[e.key].pos[i] \in Point
                /\ intersects(bounds(e.key), [min |-> Chunk[e.key].pos[i],
                                              max |-> Chunk[e.key].pos[i]])
    /\ \A p \in TPage : \A r \in T!Nodes(p) :
          /\ Entry[r.key].count \in Nat \ {0}
          /\ \A s \in Upto(Entry[r.key].count) : Entry[r.key].samples[s] \in Int
          /\ Sorted(Entry[r.key].count, Entry[r.key].samples)
          /\ r.span = [start |-> Entry[r.key].samples[0],
                       end   |-> Entry[r.key].samples[Entry[r.key].count - 1]]

(* The temporal index is one that TemporalCache is about. *)
ASSUME IndexAssumption ==
    /\ T!IndexFile
    /\ TPage \subseteq T!ReachableFrom({TRootPage})

QueryInit ==
    /\ Init
    /\ T!Init
    /\ stage = "idle"
    /\ asked = [op |-> "none"]
    /\ matches = << >>
    /\ reply = "none"
    /\ answer = << >>
    /\ points = {}
    /\ promised = {}

-----------------------------------------------------------------------------
(* The caller opens a reader and loads what it likes.                      *)

OpenReader ==
    /\ stage = "idle" /\ ~root_loaded
    /\ LoadRoot
    /\ UNCHANGED << tvars, query >>

Ready == stage = "idle" /\ root_loaded /\ pc = "idle" /\ tpc = "idle"

UseReader == Ready /\ Calls /\ UNCHANGED << tvars, query >>

(* TemporalCache::query loads as load_pages_for_time_range does. *)
UseIndex ==
    /\ Ready
    /\ \/ T!LoadHeader \/ T!FromReader \/ T!LoadRootPage \/ T!LoadAllPages
       \/ \E w \in Window : T!LoadPagesForTimeRange(w)
    /\ UNCHANGED << hvars, query >>

(* A load goes on, or its future is dropped, with the query it is part of. *)
HierarchyStep  == Progress /\ UNCHANGED << tvars, query >>
HierarchyDrop  == Cancel /\ UNCHANGED << tvars, query >>
IndexStep      == T!Progress /\ UNCHANGED << hvars, query >>
IndexDrop      == T!Cancel /\ UNCHANGED << hvars, query >>

-----------------------------------------------------------------------------
(* The query.                                                              *)

(* The keys whose entries can still be met, in both indexes. *)
Promised ==
    LET Available == ReachableFrom({RootPage}) \ ReachableFrom(lost)
        Indexed   == T!ReachableFrom({TRootPage} \cap tparsed) \ T!ReachableFrom(tlost)
    IN  { e.key : e \in UNION { Nodes(p) : p \in Available } }
          \cap { r.key : r \in UNION { T!Nodes(p) : p \in Indexed } }

Query(c) ==
    /\ Ready
    /\ IF c.op \in ByTime THEN LoadAll ELSE LoadPagesForBounds(c.box)
    /\ stage' = "hierarchy"
    /\ asked' = c
    /\ promised' = Promised
    /\ reply' = "none"
    /\ answer' = << >>
    /\ points' = {}
    /\ UNCHANGED << tvars, matches >>

Fail ==
    /\ stage' = "idle"
    /\ reply' = "err"
    /\ matches' = << >>
    /\ UNCHANGED << asked, answer, points, promised >>

HierarchyLoaded ==
    /\ stage = "hierarchy" /\ pc = "idle"
    /\ \/ /\ outcome = "ok"
          /\ T!LoadPagesForTimeRange(asked.window)
          /\ stage' = "index"
          /\ UNCHANGED << asked, matches, reply, answer, points, promised >>
       \/ /\ outcome # "ok"
          /\ Fail
          /\ UNCHANGED tvars
    /\ UNCHANGED hvars

CandidateRange(k, point_count) ==
    estimate_point_range(Entry[k], asked.window.start, asked.window.end,
                         theader.stride, point_count)

InAskedBox(k) == asked.op \in Boxed => intersects(bounds(k), asked.box)

InBoth(k) == \E r \in T!nodes_in_range(asked.window) : r.key = k

Joined == { h \in entries : InBoth(h.key) /\ InAskedBox(h.key) }

(* Mutants: nodes without a hierarchy entry kept; empty ranges kept. *)
CandidatesUnchecked ==
    { m \in { [key |-> r.key, range |-> CandidateRange(r.key, Chunk[r.key].count)] :
                 r \in { r \in T!nodes_in_range(asked.window) : InAskedBox(r.key) } } :
        m.range.start < m.range.end }

CandidatesWithEmpty ==
    { [key |-> h.key, range |-> CandidateRange(h.key, h.point_count)] : h \in Joined }

(* The nodes of the window and the box that the hierarchy has too, unless  *)
(* none of their points can match.                                         *)
Candidates ==
    { m \in { [key |-> h.key, range |-> CandidateRange(h.key, h.point_count)] : h \in Joined } :
        m.range.start < m.range.end }

IndexLoaded ==
    /\ stage = "index" /\ tpc = "idle"
    /\ \/ /\ toutcome = "ok"
          /\ matches' \in Bijection(1 .. Cardinality(Candidates), Candidates)
          /\ stage' = "fetch"
          /\ UNCHANGED << asked, reply, answer, points, promised >>
       \/ toutcome # "ok" /\ Fail
    /\ UNCHANGED << hvars, tvars >>

-----------------------------------------------------------------------------
(* fetch_chunks: one chunk per key, in the order of the keys.              *)

ChunkOf(k) == [key |-> k, data |-> Chunk[k]]

(* Mutant: the chunks as they lie in the file. *)
chunks_by_offset(keys) ==
    LET offset(k)    == (CHOOSE e \in entries : e.key = k).offset
        Before(a, b) == offset(a) < offset(b)
        InFile       == SetToSortSeq({ keys[i] : i \in DOMAIN keys }, Before)
    IN  [i \in DOMAIN InFile |-> ChunkOf(InFile[i])]

fetch_chunks(keys) == [i \in DOMAIN keys |-> ChunkOf(keys[i])]

Pairs ==
    LET chunks == fetch_chunks([i \in DOMAIN matches |-> matches[i].key])
    IN  [i \in DOMAIN matches |-> [chunk |-> chunks[i], range |-> matches[i].range]]

(* Mutant: the window open at its end. *)
accepts_before_end(data, i) ==
    /\ asked.window.start <= data.time[i] /\ data.time[i] < asked.window.end
    /\ asked.op \in Boxed =>
          \A a \in Axis : asked.box.min[a] <= data.pos[i][a] /\ data.pos[i][a] <= asked.box.max[a]

accepts(data, i) ==
    /\ asked.window.start <= data.time[i] /\ data.time[i] <= asked.window.end
    /\ asked.op \in Boxed =>
          \A a \in Axis : asked.box.min[a] <= data.pos[i][a] /\ data.pos[i][a] <= asked.box.max[a]

MatchingOf(pair) ==
    { i \in pair.range.start .. Smaller(pair.range.end, pair.chunk.data.count) - 1 :
        accepts(pair.chunk.data, i) }

(* A point query leaves out a chunk without GPS times (lines 413-416,      *)
(* 464-467); every point format of COPC has them, so that none is here.    *)
Fetched ==
    /\ stage = "fetch"
    /\ stage' = "idle"
    /\ reply' = "ok"
    /\ \/ /\ asked.op \notin ForPoints
          /\ answer' = Pairs
          /\ UNCHANGED points
       \/ /\ asked.op \in ForPoints
          /\ points' = UNION { { << Pairs[i].chunk.key, p >> : p \in MatchingOf(Pairs[i]) } :
                                 i \in DOMAIN matches }
          /\ UNCHANGED answer
    /\ matches' = << >>
    /\ UNCHANGED << hvars, tvars, asked, promised >>

(* The read fails, a chunk does not decode, or the future is dropped. *)
FetchFails ==
    /\ stage = "fetch"
    /\ Fail
    /\ UNCHANGED << hvars, tvars >>

-----------------------------------------------------------------------------
Question ==
    [op : Boxed, box : Box, window : Window] \cup [op : ByTime, window : Window]

Requests ==
    \/ OpenReader \/ UseReader \/ UseIndex
    \/ \E c \in Question : Query(c)

Steps ==
    \/ HierarchyStep \/ HierarchyLoaded
    \/ IndexStep \/ IndexLoaded
    \/ Fetched \/ FetchFails

QueryNext == Requests \/ Steps \/ HierarchyDrop \/ IndexDrop

QuerySpec == QueryInit /\ [][QueryNext]_queryVars

(* A query that was called is polled, and its reads are answered. *)
QueryFairSpec == QuerySpec /\ WF_queryVars(Steps)
-----------------------------------------------------------------------------
(* Types. *)
QueryTypeOK ==
    /\ stage \in {"idle", "hierarchy", "index", "fetch"}
    /\ asked \in Question \cup [op : {"none"}]
    /\ reply \in {"none", "ok", "err"}
    /\ promised \subseteq NodeKeys
    /\ \A i \in DOMAIN matches :
          /\ matches[i].key \in NodeKeys
          /\ matches[i].range.start < matches[i].range.end
    /\ \A q \in points : q[1] \in NodeKeys /\ q[2] \in Upto(Chunk[q[1]].count)

(* What is fetched can be: no key is unknown to the hierarchy, although    *)
(* the temporal index may know nodes whose hierarchy page is lost, no key  *)
(* is fetched twice, and the slice of a chunk that a point query walks     *)
(* starts before it ends, also when the two indexes disagree on the size   *)
(* of the node.  As long as there is a node to estimate, there is a stride *)
(* to do it with: stride - 1 would underflow with a stride of 0            *)
(* (temporal_cache.rs:302-310, 406-413, 463-469, temporal_index.rs:85).    *)
FetchIsSafe ==
    /\ tentries # {} => theader.stride > 0
    /\ \A i \in DOMAIN matches :
          /\ \E e \in entries : e.key = matches[i].key
          /\ \A j \in DOMAIN matches : matches[j].key = matches[i].key => i = j
          /\ matches[i].range.start
               <= Smaller(matches[i].range.end, Chunk[matches[i].key].count)

FirstIndex ==
    CHOOSE i \in DOMAIN evlrs : evlrs[i].temporal /\ \A j \in 1 .. i - 1 : ~evlrs[j].temporal

FileStride == evlrs[FirstIndex].stride

(* The temporal entry of k is the sampling of the points of its chunk. *)
Sampled(k) ==
    LET n == Chunk[k].count
    IN  /\ n > 0
        /\ Sorted(n, Chunk[k].time)
        /\ SampleCount(n, FileStride, Entry[k].count)
        /\ \A s \in Upto(Entry[k].count) :
              Entry[k].samples[s] = Chunk[k].time[SampledAt(n, FileStride, s)]

Replied(ops) == stage = "idle" /\ reply = "ok" /\ asked.op \in ops

InWindow(k, i) == Chunk[k].time[i] \in asked.window.start .. asked.window.end

InAsked(k, i) ==
    /\ InWindow(k, i)
    /\ asked.op \in Boxed =>
          \A a \in Axis : Chunk[k].pos[i][a] \in asked.box.min[a] .. asked.box.max[a]

(* The chunks of a query are of known nodes, none twice, and the range     *)
(* that comes with a chunk is a range of that chunk: it has every sampled  *)
(* point of the chunk that is in the window (temporal_cache.rs:311-324).   *)
RangesOfTheirChunks ==
    Replied(Boxed \cup ByTime) =>
        \A i \in DOMAIN answer :
            LET k     == answer[i].chunk.key
                range == answer[i].range
            IN  /\ answer[i].chunk.data = Chunk[k]
                /\ range.end <= Chunk[k].count
                /\ \A j \in DOMAIN answer : answer[j].chunk.key = k => i = j
                /\ Sampled(k) => \A p \in Upto(Chunk[k].count) :
                      (p % FileStride = 0 /\ InWindow(k, p))
                          => range.start <= p /\ p < range.end

(* A chunk query returns every chunk that has a sampled point in the       *)
(* window and the box, but those that a load before the query had cut off  *)
(* from either index: a load that fails inside of it fails the query       *)
(* (temporal_cache.rs:282-325, 333-373).                                   *)
ChunksFound ==
    Replied({"query_chunks", "query_chunks_by_time"}) =>
        \A k \in promised :
            (Sampled(k) /\ \E p \in Upto(Chunk[k].count) : p % FileStride = 0 /\ InAsked(k, p))
                => \E i \in DOMAIN answer : answer[i].chunk.key = k

(* A point query returns points in its window and box only, and all those  *)
(* of a node that no load before it had cut off, but some between two      *)
(* consecutive sampled places (temporal_cache.rs:395-441, 450-477).        *)
PointsFound ==
    Replied(ForPoints) =>
        /\ \A q \in points : InAsked(q[1], q[2])
        /\ \A k \in promised : Sampled(k) =>
              \E m \in Upto(Chunk[k].count) : \A p \in Upto(Chunk[k].count) :
                  InAsked(k, p) /\ << k, p >> \notin points =>
                      m * FileStride < p /\ p < (m + 1) * FileStride

(* Every query ends. *)
QueryReturns == stage # "idle" ~> stage = "idle"
=============================================================================
