--------------------------- MODULE TemporalCache ---------------------------
(***************************************************************************)
(* The incrementally loaded temporal index of a COPC file                  *)
(* (copc-temporal/src/temporal_cache.rs).                                  *)
(*                                                                         *)
(* The index is announced by an EVLR and is a tree of pages.  A record of  *)
(* a page is a node, with the times of some of its points, or a pointer to *)
(* a page, with the times its subtree spans.  As in HierarchyCache, one    *)
(* async call runs at a time, is suspended at its awaits on the source,    *)
(* and there the read succeeds, fails, or the caller drops the future.     *)
(* Unlike there, the root page may be read again at any time, and          *)
(* parse_page fails on a record that is cut behind its first 20 bytes:     *)
(* what it has parsed by then stays, and the rest of the batch is dropped. *)
(*                                                                         *)
(* A page that ends within the first 20 bytes of a record is no error:     *)
(* parse_page breaks off and returns Ok (temporal_cache.rs:483-485), the   *)
(* records not read are lost in silence, and no state of the cache tells.  *)
(* To the cache this is a page without those records.  So it is here:      *)
(* Wire[p] is what there is of page p up to such an end, and "every node   *)
(* of the file" in the properties is every node up to it.  Only the count  *)
(* of nodes in the header could tell, and the cache does not look at it    *)
(* (see SameAsSequential).                                                 *)
(*                                                                         *)
(* Abstractions.  A page is named by its offset.  pending_pages, a Vec, is *)
(* a set: the copies of a pointer that re-reading the root leaves in it    *)
(* are equal, so that every filter takes all of them or none; the order of *)
(* a batch decides only which pages precede the one that fails to parse,   *)
(* and any set of them may.  A node keeps of its samples the first and the *)
(* last, all that overlaps looks at; PointRange models the others.         *)
(***************************************************************************)
EXTENDS Integers, Sequences, FiniteSets

CONSTANTS
    EvlrLists, \* the lists of EVLRs a file may have
    Key,       \* keys of octree nodes
    Page,      \* file offsets of the temporal pages
    RootPage,  \* header.root_page_offset
    Wire,      \* Wire[p]: the whole records of page p
    Cuts,      \* the sets of pages that may end in a record that is cut
               \* behind its first 20 bytes
    Span,      \* Span[p]: the times the pointer to p gives
    Window     \* the time windows queried

(* An EVLR: whether it is one of an index and, if so, its header. *)
EvlrRecord == [temporal : BOOLEAN, version : Nat, stride : Nat, node_count : Nat]

Interval == [start : Int, end : Int]

Node    == [key : Key, span : Interval]
Pointer == [offset : Page, span : Interval]

Nodes(p)     == Wire[p] \cap Node
Pointers(p)  == Wire[p] \ Node
Targets(p)   == { r.offset : r \in Pointers(p) }
TargetsOf(S) == UNION { Targets(p) : p \in S }
AllNodes     == UNION { Nodes(p) : p \in Page }

Within(a, b) == b.start <= a.start /\ a.end <= b.end

(***************************************************************************)
(* What a writer of the index produces, up to bytes cut from pages: pages  *)
(* form a tree, a pointer's times span those of the subtree under it, and  *)
(* a key is that of one node.  The count of nodes in the header need not   *)
(* be right.                                                               *)
(***************************************************************************)
IndexFile ==
    /\ EvlrLists \subseteq Seq(EvlrRecord)
    /\ RootPage \in Page
    /\ \A p \in Page : \A r \in Wire[p] : r \in Node \/ r \in Pointer
    /\ IsFiniteSet(AllNodes)
    /\ Cuts \subseteq SUBSET Page
    /\ \A p \in Page : Span[p] \in Interval
    /\ \A w \in Window : w \in Interval
    /\ \A p \in Page : \A r \in Wire[p] : Within(r.span, Span[p])
    /\ \A p \in Page : \A r \in Pointers(p) :
          r.offset # RootPage /\ r.span = Span[r.offset]
    /\ \A p, q \in Page : \A d \in Pointers(p), e \in Pointers(q) :
          d.offset = e.offset => p = q /\ d = e
    /\ \A p, q \in Page : \A d \in Nodes(p), e \in Nodes(q) :
          d.key = e.key => p = q /\ d = e

ASSUME FileAssumption == IndexFile

Overlaps(a, w) == a.end >= w.start /\ a.start <= w.end

(* parse_temporal_header. *)
AnyStride(evlr) == evlr.version = 1   \* mutant: the stride not checked

ValidHeader(evlr) == evlr.version = 1 /\ evlr.stride >= 1

-----------------------------------------------------------------------------
VARIABLES
    evlrs,          \* the EVLRs of the file, in order
    damaged,        \* the pages that end in a record cut behind 20 bytes
    header,         \* the header of the index, or NoHeader
    entries,        \* the nodes of the HashMap
    pending_pages,  \* pointers met and not followed
    call,           \* the method called last, with its arguments
    pc,             \* idle, or where the call is
    scanned,        \* EVLRs behind load_header, a local variable
    inflight,       \* the batch taken out of pending_pages, a local variable
    outcome,        \* how the last call ended
    parsed,         \* history: pages parsed to their end
    lost,           \* history: pages of batches not parsed, and not met again
    repaired        \* history: no batch lost since the root page was parsed

file  == << evlrs, damaged >>
cache == << header, entries, pending_pages >>
past  == << parsed, lost, repaired >>
vars  == << file, cache, call, pc, scanned, inflight, outcome, past >>

NoHeader == [stride |-> 0]

Init ==
    /\ evlrs \in EvlrLists
    /\ damaged \in Cuts
    /\ header = NoHeader
    /\ entries = {}
    /\ pending_pages = {}
    /\ parsed = {}
    /\ lost = {}
    /\ repaired = FALSE
    /\ call = [op |-> "load_header"]
    /\ pc = "idle"
    /\ scanned = 0
    /\ inflight = {}
    /\ outcome = "none"

(* The cache dropped, a new one in its place. *)
Renew ==
    /\ header' = NoHeader
    /\ entries' = {}
    /\ pending_pages' = {}
    /\ parsed' = {}
    /\ lost' = {}
    /\ repaired' = FALSE

Offsets(pointers) == { r.offset : r \in pointers }

nodes_in_range(w) == { e \in entries : Overlaps(e.span, w) }

-----------------------------------------------------------------------------
(* The calls, up to their first await.                                     *)

Call ==
    [op : {"load_header", "from_reader", "load_root_page", "load_all_pages"}]
      \cup [op : {"load_pages_for_time_range", "query"}, window : Window]

Start(c, next_pc) ==
    /\ pc = "idle"
    /\ call' = c
    /\ pc' = next_pc
    /\ outcome' = "none"
    /\ scanned' = 0
    /\ UNCHANGED << file, cache, inflight, past >>

LoadHeader == Start([op |-> "load_header"], "scan")

(* A new cache, loaded in one call; the one there was is gone. *)
FromReader ==
    /\ pc = "idle"
    /\ Renew
    /\ call' = [op |-> "from_reader"]
    /\ pc' = "scan"
    /\ outcome' = "none"
    /\ scanned' = 0
    /\ UNCHANGED << file, inflight >>

(* Mutant: the root page read only once, as in HierarchyCache. *)
LoadRootPageOnce ==
    /\ pc = "idle"
    /\ call' = [op |-> "load_root_page"]
    /\ \/ header # NoHeader /\ RootPage \notin parsed /\ pc' = "root" /\ outcome' = "none"
       \/ header = NoHeader /\ pc' = pc /\ outcome' = "err"
       \/ RootPage \in parsed /\ pc' = pc /\ outcome' = "ok"
    /\ scanned' = 0
    /\ repaired' = (repaired \/ RootPage \in parsed)
    /\ UNCHANGED << file, cache, inflight, parsed, lost >>

LoadRootPage ==
    \/ header # NoHeader /\ Start([op |-> "load_root_page"], "root")
    \/ /\ header = NoHeader
       /\ pc = "idle"
       /\ call' = [op |-> "load_root_page"]
       /\ outcome' = "err"
       /\ UNCHANGED << file, cache, pc, scanned, inflight, past >>

LoadPagesForTimeRange(w) ==
    Start([op |-> "load_pages_for_time_range", window |-> w], "loop")

LoadAllPages == Start([op |-> "load_all_pages"], "loop")

Query(w) == Start([op |-> "query", window |-> w], "loop")

-----------------------------------------------------------------------------
(* The steps of a call.                                                    *)

Finish(result) ==
    /\ pc' = "idle"
    /\ outcome' = result

EvlrRead ==
    /\ pc = "scan"
    /\ scanned < Len(evlrs)
    /\ \/ evlrs[scanned + 1].temporal /\ pc' = "header" /\ UNCHANGED scanned
       \/ ~evlrs[scanned + 1].temporal /\ scanned' = scanned + 1 /\ UNCHANGED pc
    /\ UNCHANGED << file, cache, call, inflight, outcome, past >>

NoIndex ==
    /\ pc = "scan"
    /\ scanned = Len(evlrs)
    /\ Finish("absent")
    /\ UNCHANGED << file, cache, call, scanned, inflight, past >>

HeaderRead ==
    /\ pc = "header"
    /\ ValidHeader(evlrs[scanned + 1])
    /\ header' = [stride |-> evlrs[scanned + 1].stride]
    /\ \/ call.op = "load_header" /\ Finish("ok")
       \/ call.op = "from_reader" /\ pc' = "root" /\ UNCHANGED outcome
    /\ UNCHANGED << file, entries, pending_pages, call, scanned, inflight, past >>

HeaderInvalid ==
    /\ pc = "header"
    /\ ~ValidHeader(evlrs[scanned + 1])
    /\ Finish("err")
    /\ UNCHANGED << file, cache, call, scanned, inflight, past >>

Everything(span) == TRUE   \* mutant: a query takes every pending page

Selected(span) ==
    call.op \in {"load_pages_for_time_range", "query"} => Overlaps(span, call.window)

Matching == { r \in pending_pages : Selected(r.span) }

(* Mutant: drain(..) in place of retain. *)
TakeBatchDraining ==
    /\ pc = "loop"
    /\ Matching # {}
    /\ inflight' = Matching
    /\ pending_pages' = {}
    /\ pc' = "read"
    /\ UNCHANGED << file, header, entries, call, scanned, outcome, past >>

(* Mutant: the pages read stay pending. *)
TakeBatchOnly ==
    /\ pc = "loop"
    /\ Matching # {}
    /\ inflight' = Matching
    /\ pc' = "read"
    /\ UNCHANGED << file, header, entries, pending_pages, call, scanned, outcome, past >>

(* The pages leave pending_pages before the read is awaited. *)
TakeBatch ==
    /\ pc = "loop"
    /\ Matching # {}
    /\ inflight' = Matching
    /\ pending_pages' = pending_pages \ Matching
    /\ pc' = "read"
    /\ UNCHANGED << file, header, entries, call, scanned, outcome, past >>

(* Mutant: the call returns after one batch. *)
ReturnEarly ==
    /\ pc = "loop"
    /\ Finish("ok")
    /\ UNCHANGED << file, cache, call, scanned, inflight, past >>

Return ==
    /\ pc = "loop"
    /\ Matching = {}
    /\ Finish("ok")
    /\ UNCHANGED << file, cache, call, scanned, inflight, past >>

(* The pages whose bytes the suspended call waits for. *)
Batch == IF pc = "root" THEN {RootPage} ELSE Offsets(inflight)

(* Mutant: a record without samples is a pointer, and a node as well. *)
ParseBoth(done, begun) ==
    /\ entries' = entries \cup UNION { Wire[p] : p \in done \cup begun }
    /\ pending_pages' = pending_pages \cup UNION { Pointers(p) : p \in done \cup begun }
    /\ parsed' = parsed \cup done
    /\ lost' = (lost \cup Offsets(inflight)) \ (parsed' \cup Offsets(pending_pages'))

(* parse_page of the pages of done, and of those of begun up to the cut. *)
Parse(done, begun) ==
    /\ entries' = entries \cup UNION { Nodes(p) : p \in done \cup begun }
    /\ pending_pages' = pending_pages \cup UNION { Pointers(p) : p \in done \cup begun }
    /\ parsed' = parsed \cup done
    /\ lost' = (lost \cup Offsets(inflight)) \ (parsed' \cup Offsets(pending_pages'))

PagesRead ==
    /\ pc \in {"root", "read"}
    /\ Batch \cap damaged = {}
    /\ Parse(Batch, {})
    /\ inflight' = {}
    /\ repaired' = (repaired \/ pc = "root")
    /\ \/ pc = "root" /\ Finish("ok")
       \/ pc = "read" /\ pc' = "loop" /\ UNCHANGED outcome
    /\ UNCHANGED << file, header, call, scanned >>

(* A record is cut behind its first 20 bytes: the read of the rest fails.  *)
(* The pages before this one in the batch have been parsed.                *)
PageCut ==
    /\ pc \in {"root", "read"}
    /\ Finish("err")
    /\ inflight' = {}
    /\ \/ /\ call.op = "from_reader"
          /\ RootPage \in damaged
          /\ Renew
       \/ /\ call.op # "from_reader"
          /\ \E page \in Batch \cap damaged, done \in SUBSET (Batch \ damaged) :
                Parse(done, {page})
          /\ repaired' = (repaired /\ pc = "root")
          /\ UNCHANGED header
    /\ UNCHANGED << file, call, scanned >>

(* The "?" after an await, and the drop of a future suspended at one.  A   *)
(* call of from_reader drops its cache with it.                            *)
Abandon(result) ==
    /\ pc \in {"scan", "header", "root", "read"}
    /\ pc = "scan" => scanned < Len(evlrs)
    /\ Finish(result)
    /\ inflight' = {}
    /\ \/ call.op = "from_reader" /\ Renew
       \/ /\ call.op # "from_reader"
          /\ lost' = (lost \cup Offsets(inflight)) \ parsed
          /\ repaired' = (repaired /\ inflight = {})
          /\ UNCHANGED << cache, parsed >>
    /\ UNCHANGED << file, call, scanned >>

ReadFails == Abandon("err")
Cancel    == Abandon("cancelled")

-----------------------------------------------------------------------------
Calls ==
    \/ LoadHeader
    \/ FromReader
    \/ LoadRootPage
    \/ LoadAllPages
    \/ \E w \in Window : LoadPagesForTimeRange(w)
    \/ \E w \in Window : Query(w)

Progress ==
    \/ EvlrRead \/ NoIndex \/ HeaderRead \/ HeaderInvalid
    \/ TakeBatch \/ Return \/ PagesRead \/ PageCut \/ ReadFails

Next == Calls \/ Progress \/ Cancel

Spec == Init /\ [][Next]_vars

(* The executor polls the future and the source answers, with the data or  *)
(* with an error.                                                          *)
FairSpec == Spec /\ WF_vars(Progress)
-----------------------------------------------------------------------------
TypeOK ==
    /\ evlrs \in EvlrLists
    /\ damaged \in Cuts
    /\ header \in [stride : Nat]
    /\ entries \subseteq Node
    /\ pending_pages \subseteq Pointer
    /\ call \in Call
    /\ pc \in {"idle", "scan", "header", "root", "loop", "read"}
    /\ scanned \in 0 .. Len(evlrs)
    /\ inflight \subseteq Pointer
    /\ outcome \in {"none", "ok", "absent", "err", "cancelled"}
    /\ parsed \subseteq Page
    /\ lost \subseteq Page
    /\ repaired \in BOOLEAN

(* The scan stops at the first EVLR of a temporal index, takes its header  *)
(* if that is one it can use, and reports that there is none only when no  *)
(* EVLR is one (temporal_cache.rs:92-121, 523-535).                        *)
HeaderOfFirstIndex ==
    (pc = "idle" /\ call.op \in {"load_header", "from_reader"}) =>
        /\ outcome = "absent" => \A i \in 1 .. Len(evlrs) : ~evlrs[i].temporal
        /\ outcome = "ok" =>
              \E i \in 1 .. Len(evlrs) :
                  /\ evlrs[i].temporal /\ evlrs[i].version = 1
                  /\ header.stride = evlrs[i].stride /\ header.stride > 0
                  /\ \A j \in 1 .. i - 1 : ~evlrs[j].temporal

(* A page met by following pointers is parsed, pending, in flight or lost, *)
(* the nodes of a parsed page are in the cache, and a lost page is nowhere *)
(* else, also when the root page has been read twice or a page was cut     *)
(* (temporal_cache.rs:125-133, 154-162, 479-519).                          *)
PagesAccounted ==
    LET pending == Offsets(pending_pages)
        flying  == Offsets(inflight)
    IN  /\ TargetsOf(parsed) \subseteq parsed \cup pending \cup flying \cup lost
        /\ \A p \in parsed : Nodes(p) \subseteq entries
        /\ lost \cap (parsed \cup pending \cup flying) = {}

Closed(S) == TargetsOf(S) \subseteq S

(* The pages that can be reached from those of S by following pointers. *)
ReachableFrom(S) ==
    { p \in Page : \A T \in SUBSET Page : S \subseteq T /\ Closed(T) => p \in T }

(* No page is written that no pointer names. *)
ASSUME TreeAssumption == Page \subseteq ReachableFrom({RootPage})

Answered ==
    /\ pc = "idle" /\ outcome = "ok"
    /\ call.op \in {"load_pages_for_time_range", "query"}
    /\ RootPage \in parsed

FoundIn(pages) ==
    \A p \in pages : \A e \in Nodes(p) :
        Overlaps(e.span, call.window) => e \in nodes_in_range(call.window)

(* A query that returns Ok has found every node of the file that overlaps  *)
(* its window, unless the node's page is beyond one that a failed or       *)
(* dropped call took out of pending_pages (temporal_cache.rs:136-195).     *)
FoundOrLost ==
    Answered => FoundIn(ReachableFrom({RootPage}) \ ReachableFrom(lost))

(* Reading the root page again repairs the cache: if no call has failed    *)
(* since, a query finds every node that overlaps its window, whatever the  *)
(* calls before had lost (temporal_cache.rs:125-133).                      *)
RootReloadRepairs ==
    (Answered /\ repaired) => FoundIn(ReachableFrom({RootPage}))

(* What the doc of query says of it: it cannot return incomplete results   *)
(* (temporal_cache.rs:184-186).                                            *)
QueryIsComplete ==
    (Answered /\ call.op = "query") => FoundIn(ReachableFrom({RootPage}))

Indices  == { i \in DOMAIN evlrs : evlrs[i].temporal }
TheIndex == evlrs[CHOOSE i \in Indices : \A j \in Indices : i <= j]

Absent == [result |-> "absent"]
Failed == [result |-> "err"]
Parsed(stride, nodes) == [result |-> "ok", stride |-> stride, entries |-> nodes]

(***************************************************************************)
(* TemporalIndex::from_evlrs, the parser that scans the data of the first  *)
(* EVLR of an index in one pass, pages one behind the other: what it may   *)
(* return for a file of whole pages.  It skips the pointers, stops when it *)
(* has as many nodes as the header says, and fails when the data ends      *)
(* before.  Which nodes come first in the data is left open: any may.      *)
(***************************************************************************)
from_evlrs ==
    IF Indices = {} THEN {Absent}
    ELSE IF TheIndex.version # 1 \/ TheIndex.stride < 1
            \/ TheIndex.node_count > Cardinality(AllNodes) THEN {Failed}
    ELSE { Parsed(TheIndex.stride, nodes) :
             nodes \in { S \in SUBSET AllNodes :
                            Cardinality(S) = TheIndex.node_count } }

(* The incremental cache and the sequential parser, on a file of whole     *)
(* pages.  The cache finds no index only where the parser finds none, and  *)
(* has a stride only where the parser has the same or fails.  Once         *)
(* everything has been loaded, after whatever calls failed before, the     *)
(* cache has all the nodes the parser may return; they are equal if the    *)
(* header counts the nodes it has, and the parser fails, where the cache   *)
(* returned Ok, exactly if the header counts more                          *)
(* (temporal_index.rs:107-177, temporal_cache.rs:165-177, 537-551).        *)
SameAsSequential ==
    (pc = "idle" /\ damaged = {}) =>
        /\ call.op \in {"load_header", "from_reader"} /\ outcome = "absent" =>
              from_evlrs = {Absent}
        /\ header # NoHeader =>
              \A o \in from_evlrs : o = Failed \/ o = Parsed(header.stride, o.entries)
        /\ (call.op = "load_all_pages" /\ outcome = "ok" /\ RootPage \in parsed /\ lost = {}) =>
              LET all == Cardinality(entries)
              IN  /\ TheIndex.node_count > all <=> from_evlrs = {Failed}
                  /\ TheIndex.node_count = all =>
                        from_evlrs = {Parsed(header.stride, entries)}
                  /\ TheIndex.node_count < all =>
                        \A o \in from_evlrs : o.entries \subseteq entries

(* A call for a window leaves the pages outside of it pending, also those  *)
(* it meets on the way (temporal_cache.rs:143-155).                        *)
OthersStayPending ==
    [][ (pc # "idle" /\ call.op \in {"load_pages_for_time_range", "query"}) =>
            \A r \in pending_pages :
                ~Overlaps(r.span, call.window) => r \in pending_pages' ]_vars

(* Every call ends. *)
CallReturns == pc # "idle" ~> pc = "idle"
=============================================================================
