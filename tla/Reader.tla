------------------------------- MODULE Reader -------------------------------
(***************************************************************************)
(* The streaming reader (copc-streaming/src/reader.rs): it owns a          *)
(* hierarchy cache, loads the pages a query needs, picks the nodes, and    *)
(* fetches and decodes their chunks.                                       *)
(*                                                                         *)
(* The steps of the cache are those of HierarchyCache.  A method that      *)
(* loads takes &mut self, so that between its load and its fetch no other  *)
(* call changes the cache; a caller may keep the keys it was given across  *)
(* later calls.                                                            *)
(*                                                                         *)
(* Abstractions.  A chunk is known by its key, and what it decodes to is   *)
(* Points[key]; a point is told by its chunk and its place.  The single    *)
(* read of a batch of chunks, the decoding and the drop of the future      *)
(* there are one step that succeeds or fails.                              *)
(***************************************************************************)
EXTENDS HierarchyCache

CONSTANTS
    Points,     \* Points[k]: the places of the points in the chunk of key k
    QueryBox,   \* the boxes queried, some of those loaded
    QueryLimit  \* the max_level values queried

NodeKeys == { e.key : e \in UNION { Nodes(p) : p \in Page } }

(* A point is in the cell of its node, and a chunk has as many points as   *)
(* the entry of its node says.                                             *)
ASSUME PointAssumption ==
    /\ QueryBox \subseteq Box
    /\ QueryLimit \subseteq LevelLimit
    /\ Points \in [NodeKeys -> SUBSET Point]
    /\ \A p \in Page : \A e \in Nodes(p) :
          /\ e.point_count = 0 <=> Points[e.key] = {}
          /\ \A a \in Points[e.key] :
                intersects(bounds(e.key), [min |-> a, max |-> a])

VARIABLES
    stage,    \* where the method of the reader is; "closed" without a reader
    ask,      \* the query or fetch called last
    held,     \* keys the caller got from visible_keys
    keys,     \* the keys to fetch, a local variable
    reply,    \* how the query or fetch ended
    chunks,   \* keys of the chunks it returned
    points    \* the points it returned

reader == << stage, ask, held, keys, reply, chunks, points >>
readerVars == << vars, reader >>

(* No limit: is_none_or, and no node is deeper than MaxLevel. *)
NoLimit == MaxLevel

Ask ==
    [op : {"query_chunks", "query_points"}, box : QueryBox, max_level : QueryLimit \cup {NoLimit}]
      \cup [op : {"none", "fetch"}]

ReaderInit ==
    /\ Init
    /\ stage = "closed"
    /\ ask = [op |-> "none"]
    /\ held = {}
    /\ keys = {}
    /\ reply = "none"
    /\ chunks = {}
    /\ points = {}

-----------------------------------------------------------------------------
(* open: the header, then the root page.  A reader exists when both have   *)
(* been read.                                                              *)

Open ==
    /\ stage = "closed" /\ pc = "idle"
    /\ stage' = "header"
    /\ UNCHANGED << vars, ask, held, keys, reply, chunks, points >>

HeaderRead ==
    /\ stage = "header"
    /\ LoadRoot
    /\ stage' = "root"
    /\ UNCHANGED << ask, held, keys, reply, chunks, points >>

(* The first 64 KB are not read, or are not the header of a COPC file, or  *)
(* the future is dropped.                                                  *)
HeaderFails ==
    /\ stage = "header"
    /\ stage' = "closed"
    /\ UNCHANGED << vars, ask, held, keys, reply, chunks, points >>

(* Mutant: a reader whose root page was not read. *)
OpenedAnyway ==
    /\ stage = "root" /\ pc = "idle"
    /\ stage' = "idle"
    /\ UNCHANGED << vars, ask, held, keys, reply, chunks, points >>

Opened ==
    /\ stage = "root" /\ pc = "idle"
    /\ \/ outcome = "ok" /\ stage' = "idle"
       \/ outcome # "ok" /\ stage' = "closed"
    /\ UNCHANGED << vars, ask, held, keys, reply, chunks, points >>

-----------------------------------------------------------------------------
(* Loading.                                                                *)

Ready == stage = "idle" /\ pc = "idle"

LoadHierarchy ==
    /\ Ready
    /\ \/ LoadPendingPages
       \/ LoadAll
       \/ \E b \in Box : LoadPagesForBounds(b)
       \/ \E b \in Box, l \in LevelLimit : LoadPagesForBoundsToLevel(b, l)
    /\ UNCHANGED reader

(* The load that was called goes on, or its future is dropped. *)
CacheProgress == Progress /\ UNCHANGED reader
CacheCancel   == Cancel /\ UNCHANGED reader

-----------------------------------------------------------------------------
(* Queries.                                                                *)

(* Mutant: nodes on the limit left out. *)
visible_above(b, l) ==
    { e.key : e \in { n \in entries : /\ n.point_count > 0
                                      /\ n.key.level < l
                                      /\ intersects(bounds(n.key), b) } }

visible_keys(b, l) ==
    { e.key : e \in { n \in entries : /\ n.point_count > 0
                                      /\ n.key.level <= l
                                      /\ intersects(bounds(n.key), b) } }

VisibleKeys(b, l) ==
    /\ Ready
    /\ held' = visible_keys(b, l)
    /\ UNCHANGED << vars, stage, ask, keys, reply, chunks, points >>

(* query_chunks and query_points, and their _to_level forms. *)
Query(op, b, l) ==
    /\ Ready
    /\ IF l = NoLimit THEN LoadPagesForBounds(b) ELSE LoadPagesForBoundsToLevel(b, l)
    /\ stage' = "load"
    /\ ask' = [op |-> op, box |-> b, max_level |-> l]
    /\ reply' = "none"
    /\ UNCHANGED << held, keys, chunks, points >>

Fail(result) ==
    /\ stage' = "idle"
    /\ reply' = result
    /\ chunks' = {}
    /\ points' = {}

(* Mutant: the end of the load handed on as it is. *)
QueryLoadedAsIs ==
    /\ stage = "load" /\ pc = "idle"
    /\ \/ /\ outcome = "ok"
          /\ keys' = visible_keys(ask.box, ask.max_level)
          /\ stage' = "fetch"
          /\ UNCHANGED << reply, chunks, points >>
       \/ /\ outcome # "ok"
          /\ Fail(outcome)
          /\ UNCHANGED keys
    /\ UNCHANGED << vars, ask, held >>

(* The load returned, or was dropped with the query it is part of. *)
QueryLoaded ==
    /\ stage = "load" /\ pc = "idle"
    /\ \/ /\ outcome = "ok"
          /\ keys' = visible_keys(ask.box, ask.max_level)
          /\ stage' = "fetch"
          /\ UNCHANGED << reply, chunks, points >>
       \/ /\ outcome # "ok"
          /\ Fail("err")
          /\ UNCHANGED keys
    /\ UNCHANGED << vars, ask, held >>

(* fetch_chunk and fetch_chunks of keys the caller has. *)
Fetch(ks) ==
    /\ Ready
    /\ ask' = [op |-> "fetch"]
    /\ keys' = ks
    /\ \/ /\ \A k \in ks : \E e \in entries : e.key = k
          /\ stage' = "fetch"
          /\ reply' = "none"
          /\ UNCHANGED << chunks, points >>
       \/ /\ \E k \in ks : \A e \in entries : e.key # k
          /\ Fail("not_found")
    /\ UNCHANGED << vars, held >>

(* Mutant: the box open at its faces. *)
strictly_inside(a, b) == \A x \in Axis : b.min[x] < a[x] /\ a[x] < b.max[x]

inside(a, b) == \A x \in Axis : b.min[x] <= a[x] /\ a[x] <= b.max[x]

PointsIn(ks) == UNION { { << k, a >> : a \in Points[k] } : k \in ks }

Fetched ==
    /\ stage = "fetch"
    /\ stage' = "idle"
    /\ reply' = "ok"
    /\ chunks' = keys
    /\ points' = IF ask.op = "query_points"
                 THEN { q \in PointsIn(keys) : inside(q[2], ask.box) }
                 ELSE {}
    /\ UNCHANGED << vars, ask, held, keys >>

FetchFails ==
    /\ stage = "fetch"
    /\ Fail("err")
    /\ UNCHANGED << vars, ask, held, keys >>

-----------------------------------------------------------------------------
Requests ==
    \/ Open
    \/ LoadHierarchy
    \/ \E b \in QueryBox, l \in QueryLimit \cup {NoLimit} :
          \/ VisibleKeys(b, l)
          \/ \E op \in {"query_chunks", "query_points"} : Query(op, b, l)
    \/ Fetch(held)
    \/ \E k \in NodeKeys : Fetch({k})

Steps ==
    \/ HeaderRead \/ HeaderFails \/ Opened
    \/ CacheProgress
    \/ QueryLoaded \/ Fetched \/ FetchFails

ReaderNext == Requests \/ Steps \/ CacheCancel

ReaderSpec == ReaderInit /\ [][ReaderNext]_readerVars

(* As in HierarchyCache: a method that was called is polled, its reads are *)
(* answered.                                                               *)
ReaderFairSpec == ReaderSpec /\ WF_readerVars(Steps)
-----------------------------------------------------------------------------
(* Types. *)
ReaderTypeOK ==
    /\ stage \in {"closed", "header", "root", "idle", "load", "fetch"}
    /\ ask \in Ask
    /\ reply \in {"none", "ok", "err", "not_found"}
    /\ held \cup keys \cup chunks \subseteq NodeKeys
    /\ points \subseteq NodeKeys \X Point

(* A reader that open has returned has its root page, and an open that     *)
(* fails leaves nothing a later one could trip over (reader.rs:23-37).     *)
OpenReaderHasRoot ==
    /\ stage \in {"idle", "load", "fetch"} => root_loaded
    /\ stage \in {"closed", "header"} => entries = {} /\ pending_pages = {}

Answer == stage = "idle" /\ reply = "ok" /\ ask.op \in {"query_chunks", "query_points"}

Asked(e) ==
    /\ e.point_count > 0
    /\ e.key.level <= ask.max_level
    /\ intersects(bounds(e.key), ask.box)

OnlyAsked(ks) == \A k \in ks : \E p \in Page : \E e \in Nodes(p) : e.key = k /\ Asked(e)

(* The pages that no failed or dropped load has cut off. *)
Available == ReachableFrom({RootPage}) \ ReachableFrom(lost)

AllAsked(ks) == \A p \in Available : \A e \in Nodes(p) : Asked(e) => e.key \in ks

(* A query returns the chunks of the nodes it asks for: those of nodes of  *)
(* the file with points in the box, all of them but the ones beyond a page *)
(* lost by a failed or dropped load (reader.rs:253-297).                   *)
QueryReturnsChunks == Answer => OnlyAsked(chunks) /\ AllAsked(chunks)

(* What it is for a point to be in a box, faces included. *)
InBox(a, b) == \A x \in Axis : a[x] \in b.min[x] .. b.max[x]

(* The points a query returns are points of the file in the box, and all   *)
(* of those, but the ones beyond a lost page: no pruning of pages or nodes *)
(* by their cells, and no filtering of points, loses one on a face         *)
(* (reader.rs:322-369, chunk.rs:235-251).                                  *)
QueryReturnsPoints ==
    (Answer /\ ask.op = "query_points") =>
        /\ \A q \in points : q[2] \in Points[q[1]] /\ InBox(q[2], ask.box)
        /\ \A p \in Available : \A e \in Nodes(p) : \A a \in Points[e.key] :
              e.key.level <= ask.max_level /\ InBox(a, ask.box) => << e.key, a >> \in points

(* Every method of the reader returns. *)
MethodReturns == (stage \in {"header", "root", "load", "fetch"} \/ pc # "idle")
                    ~> (stage \in {"closed", "idle"} /\ pc = "idle")
=============================================================================
