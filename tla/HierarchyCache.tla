--------------------------- MODULE HierarchyCache ---------------------------
(***************************************************************************)
(* The incrementally loaded hierarchy of a COPC file                       *)
(* (copc-streaming/src/hierarchy.rs).                                      *)
(*                                                                         *)
(* The hierarchy is a tree of pages.  An entry of a page describes a node  *)
(* of the octree or points to a further page.  The cache keeps the nodes   *)
(* of the pages it has read (entries) and the pointers it has met and not  *)
(* followed (pending_pages).  Each load method is an async function taking *)
(* &mut self: one call runs at a time, it is suspended at its awaits on    *)
(* the byte source, and there the read succeeds, the read fails, or the    *)
(* caller drops the future.                                                *)
(*                                                                         *)
(* Abstractions.  A page is named by its file offset; Wire[p] is what the  *)
(* bytes its pointer designates decode to, trailing bytes that do not make *)
(* an entry left out (hierarchy.rs:239).  pending_pages, a Vec, is a set:  *)
(* no method looks at its order and FileAssumption leaves no duplicates.   *)
(* read_ranges is one step: an error of one read is the error of the batch *)
(* (byte_source.rs:33), and no state changes between two reads of a batch. *)
(***************************************************************************)
EXTENDS Octree

CONSTANTS
    Page,        \* file offsets of the hierarchy pages
    RootPage,    \* info.root_hier_offset
    RootSize,    \* info.root_hier_size
    Wire,        \* Wire[p]: the set of entries page p decodes to
    Anchor,      \* Anchor[p]: key of the pointer to p (ROOT for the root page)
    Box,         \* the boxes queried
    LevelLimit,  \* the max_level values queried
    U64,         \* 2^64, where the cast "as u64" wraps
    SourceSize   \* length of the byte source

-----------------------------------------------------------------------------
(* The file.  byte_size and point_count are signed on the wire.            *)

WireEntry ==
    [key : VoxelKey, offset : Nat, byte_size : Int, point_count : Int]

IsPointer(e) == e.point_count = -1

HasPoints(e) == e.point_count > 0 /\ e.byte_size >= 0   \* mutant: empty nodes dropped

IsNode(e) == e.point_count >= 0 /\ e.byte_size >= 0

Pointers(p) == { e \in Wire[p] : IsPointer(e) }
Nodes(p)    == { e \in Wire[p] : IsNode(e) }
Targets(p)  == { e.offset : e \in Pointers(p) }

TargetsOf(S) == UNION { Targets(p) : p \in S }

PageKey(p)  == Anchor[p]

(***************************************************************************)
(* A file a COPC writer produces, except that it may hold corrupt entries: *)
(* negative sizes and counts are allowed.  Pages form a tree whose edges   *)
(* are the pointers, the entries of a page lie in the subtree of its key,  *)
(* and a key is that of one node.                                          *)
(***************************************************************************)
ASSUME FileAssumption ==
    /\ Page \subseteq Nat
    /\ RootPage \in Page
    /\ RootSize \in Nat
    /\ Wire \in [Page -> SUBSET WireEntry]
    /\ Anchor \in [Page -> VoxelKey]
    /\ Box \subseteq Aabb
    /\ LevelLimit \subseteq Int
    /\ U64 \in Nat \ {0}
    /\ SourceSize \in Nat
    /\ \A p \in Page : \A e \in Wire[p] : Nested(PageKey(p), e.key)
    /\ \A p \in Page : \A e \in Pointers(p) :
          /\ e.offset \in Page \ {RootPage}
          /\ PageKey(e.offset) = e.key
    /\ \A p, q \in Page : \A d \in Pointers(p), e \in Pointers(q) :
          d.offset = e.offset => p = q /\ d = e
    /\ \A p, q \in Page : \A d \in Nodes(p), e \in Nodes(q) :
          d.key = e.key => p = q /\ d = e

-----------------------------------------------------------------------------
(* What parse_page makes of an entry.                                      *)

NoCast(n) == n   \* mutant: the signed size kept as it is

AsU64(n) == n % U64

PendingPage    == [key : VoxelKey, offset : Page, size : 0 .. U64 - 1]
HierarchyEntry == [key : VoxelKey, offset : Nat, byte_size : Nat, point_count : Nat]

PendingOf(e) == [key |-> e.key, offset |-> e.offset, size |-> AsU64(e.byte_size)]
EntryOf(e)   == [key |-> e.key, offset |-> e.offset,
                 byte_size |-> e.byte_size, point_count |-> e.point_count]

PendingIn(batch) == { PendingOf(e) : e \in UNION { Pointers(p) : p \in batch } }
EntriesIn(batch) == { EntryOf(e) : e \in UNION { Nodes(p) : p \in batch } }

ReplacedBy(map, new) == new   \* mutant: a batch replaces the map

(* entries is a HashMap: a second node of the same key replaces the first. *)
Inserted(map, new) == { e \in map : \A n \in new : n.key # e.key } \cup new

-----------------------------------------------------------------------------
VARIABLES
    entries,        \* the nodes of the HashMap
    pending_pages,  \* pointers met and not followed
    root_loaded,
    call,           \* the load method called last, with its arguments
    pc,             \* idle, or where the call is: awaiting the root page,
                    \* at the head of its loop, awaiting a batch
    inflight,       \* the batch taken out of pending_pages, a local variable
    outcome,        \* how the last call ended
    loaded,         \* history: pages parsed
    lost            \* history: pages of batches that were never parsed

cache == << entries, pending_pages, root_loaded >>
vars  == << entries, pending_pages, root_loaded, call, pc, inflight, outcome,
            loaded, lost >>

Call ==
    [op : {"load_root", "load_pending_pages", "load_all"}]
      \cup [op : {"load_pages_for_bounds"}, box : Box]
      \cup [op : {"load_pages_for_bounds_to_level"}, box : Box,
            max_level : LevelLimit]

Offsets(pages) == { p.offset : p \in pages }

(* Mutant: the level limit excluded. *)
SelectedBelow(c, key) ==
    \/ c.op \in {"load_pending_pages", "load_all"}
    \/ c.op = "load_pages_for_bounds" /\ intersects(bounds(key), c.box)
    \/ /\ c.op = "load_pages_for_bounds_to_level"
       /\ key.level < c.max_level
       /\ intersects(bounds(key), c.box)

(* Which pending pages the loop of call c takes. *)
Selected(c, key) ==
    \/ c.op \in {"load_pending_pages", "load_all"}
    \/ /\ c.op = "load_pages_for_bounds"
       /\ intersects(bounds(key), c.box)
    \/ /\ c.op = "load_pages_for_bounds_to_level"
       /\ key.level <= c.max_level
       /\ intersects(bounds(key), c.box)

AllPending == pending_pages   \* mutant: pages taken without the filter

Matching == { p \in pending_pages : Selected(call, p.key) }

(* A range past the end of the source is an error (byte_source.rs:45).  So *)
(* is one whose end is past 2^64, a size that was negative: the sum of     *)
(* byte_source.rs:44 then panics, or wraps and the slice panics; the call  *)
(* ends without data, which is all that an error is here.                  *)
Readable(offset, size) == offset + size <= SourceSize

Init ==
    /\ entries = {}
    /\ pending_pages = {}
    /\ root_loaded = FALSE
    /\ call = [op |-> "load_root"]
    /\ pc = "idle"
    /\ inflight = {}
    /\ outcome = "none"
    /\ loaded = {}
    /\ lost = {}

-----------------------------------------------------------------------------
(* The calls, up to their first await.                                     *)

Start(c, next_pc, result) ==
    /\ pc = "idle"
    /\ call' = c
    /\ pc' = next_pc
    /\ outcome' = result
    /\ UNCHANGED << entries, pending_pages, root_loaded, inflight, loaded, lost >>

(* Mutant: the guard on root_loaded dropped. *)
LoadRootAgain == Start([op |-> "load_root"], "root", "none")

LoadRoot ==
    \/ /\ root_loaded
       /\ Start([op |-> "load_root"], "idle", "ok")
    \/ /\ ~root_loaded
       /\ Start([op |-> "load_root"], "root", "none")

LoadPendingPages == Start([op |-> "load_pending_pages"], "loop", "none")

LoadAll == Start([op |-> "load_all"], IF root_loaded THEN "loop" ELSE "root", "none")

LoadPagesForBounds(b) ==
    Start([op |-> "load_pages_for_bounds", box |-> b], "loop", "none")

LoadPagesForBoundsToLevel(b, l) ==
    Start([op |-> "load_pages_for_bounds_to_level", box |-> b, max_level |-> l],
          "loop", "none")

-----------------------------------------------------------------------------
(* The steps of a call.                                                    *)

(* parse_page of every page of a batch. *)
Parse(batch) ==
    /\ entries' = Inserted(entries, EntriesIn(batch))
    /\ pending_pages' = pending_pages \cup PendingIn(batch)
    /\ loaded' = loaded \cup batch

Finish(result) ==
    /\ pc' = "idle"
    /\ outcome' = result

RootRead ==
    /\ pc = "root"
    /\ Readable(RootPage, RootSize)
    /\ Parse({RootPage})
    /\ root_loaded' = TRUE
    /\ \/ call.op = "load_root" /\ Finish("ok")
       \/ call.op = "load_all" /\ pc' = "loop" /\ UNCHANGED outcome
    /\ UNCHANGED << call, inflight, lost >>

(* Mutant: the pages read stay pending. *)
TakeBatchOnly ==
    /\ pc = "loop"
    /\ Matching # {}
    /\ inflight' = Matching
    /\ pc' = "read"
    /\ UNCHANGED << entries, pending_pages, root_loaded, call, outcome, loaded, lost >>

(* The pages leave pending_pages before the read is awaited. *)
TakeBatch ==
    /\ pc = "loop"
    /\ Matching # {}
    /\ inflight' = Matching
    /\ pending_pages' = pending_pages \ Matching
    /\ pc' = "read"
    /\ UNCHANGED << entries, root_loaded, call, outcome, loaded, lost >>

Return ==
    /\ pc = "loop"
    /\ Matching = {}
    /\ Finish("ok")
    /\ UNCHANGED << entries, pending_pages, root_loaded, call, inflight, loaded, lost >>

BatchRead ==
    /\ pc = "read"
    /\ \A p \in inflight : Readable(p.offset, p.size)
    /\ Parse(Offsets(inflight))
    /\ inflight' = {}
    /\ \/ call.op = "load_pending_pages" /\ Finish("ok")
       \/ call.op # "load_pending_pages" /\ pc' = "loop" /\ UNCHANGED outcome
    /\ UNCHANGED << root_loaded, call, lost >>

(* The "?" after an await, and the drop of a future that is suspended at   *)
(* one, both end the call and the life of its local variables.             *)
Abandon(result) ==
    /\ pc \in {"root", "read"}
    /\ Finish(result)
    /\ lost' = lost \cup Offsets(inflight)
    /\ inflight' = {}
    /\ UNCHANGED << entries, pending_pages, root_loaded, call, loaded >>

ReadFails == Abandon("err")
Cancel    == Abandon("cancelled")

-----------------------------------------------------------------------------
Calls ==
    \/ LoadRoot
    \/ LoadPendingPages
    \/ LoadAll
    \/ \E b \in Box : LoadPagesForBounds(b)
    \/ \E b \in Box, l \in LevelLimit : LoadPagesForBoundsToLevel(b, l)

Progress == RootRead \/ TakeBatch \/ Return \/ BatchRead \/ ReadFails

Next == Calls \/ Progress \/ Cancel

Spec == Init /\ [][Next]_vars

(* The executor polls the future and the source answers, with the data or  *)
(* with an error.  Nobody has to call, and nobody has to cancel.           *)
FairSpec == Spec /\ WF_vars(Progress)
-----------------------------------------------------------------------------
(* Types.                                                                  *)
TypeOK ==
    /\ entries \subseteq HierarchyEntry
    /\ pending_pages \subseteq PendingPage
    /\ root_loaded \in BOOLEAN
    /\ call \in Call
    /\ pc \in {"idle", "root", "loop", "read"}
    /\ inflight \subseteq PendingPage
    /\ outcome \in {"none", "ok", "err", "cancelled"}
    /\ loaded \subseteq Page
    /\ lost \subseteq Page

(* No page is lost track of, or fetched twice: the pages known are the     *)
(* root page and those a parsed page points to, and a known page is        *)
(* pending, in flight, parsed or lost, and only one of these               *)
(* (hierarchy.rs:89-95, 132-151, 169-190, 250-256).                        *)
PagesConserved ==
    LET pending == Offsets(pending_pages)
        flying  == Offsets(inflight)
    IN  /\ pending \cup flying \cup lost \cup (loaded \ {RootPage})
             = TargetsOf(loaded)
        /\ root_loaded <=> RootPage \in loaded
        /\ RootPage \notin pending \cup flying \cup lost
        /\ pending \cap (flying \cup loaded \cup lost) = {}
        /\ flying \cap (loaded \cup lost) = {}
        /\ loaded \cap lost = {}

-----------------------------------------------------------------------------
(* Completeness of the cache and of a query.                               *)

Closed(S) == TargetsOf(S) \subseteq S

(* The pages that can be reached from those of S by following pointers. *)
ReachableFrom(S) ==
    { p \in Page : \A T \in SUBSET Page : S \subseteq T /\ Closed(T) => p \in T }

Describes(h, w) ==
    /\ h.key = w.key
    /\ h.offset = w.offset
    /\ h.byte_size = w.byte_size
    /\ h.point_count = w.point_count

(* What the cache holds can be told from the file and the pages not read:  *)
(* it is what the pages say that are reached from the root without passing *)
(* a page pending, in flight or lost.  Of these each entry with no         *)
(* negative number is there, that of a node without points too, with the   *)
(* numbers it has in the file; nothing is there of an entry with a         *)
(* negative number, and nothing of a page whose batch failed, not even     *)
(* when pages of the same batch could be read (hierarchy.rs:91-97,         *)
(* 147-152, 250-268).                                                      *)
EntriesExact ==
    LET unread == Offsets(pending_pages) \cup Offsets(inflight) \cup lost
        read   == IF root_loaded
                  THEN ReachableFrom({RootPage}) \ ReachableFrom(unread)
                  ELSE {}
        wire   == UNION { Wire[p] : p \in read }
    IN  /\ \A h \in entries : \E w \in wire :
              w.byte_size >= 0 /\ w.point_count >= 0 /\ Describes(h, w)
        /\ \A w \in wire :
              w.byte_size >= 0 /\ w.point_count >= 0
                => \E h \in entries : Describes(h, w)

(* The subtrees a call is about: those the caller of c expects to find     *)
(* loaded when c returns Ok.                                               *)
Wanted(c, key) ==
    CASE c.op = "load_all" -> TRUE
      [] c.op = "load_pages_for_bounds" -> intersects(bounds(key), c.box)
      [] c.op = "load_pages_for_bounds_to_level" ->
            key.level <= c.max_level /\ intersects(bounds(key), c.box)
      [] OTHER -> FALSE

Answered == pc = "idle" /\ outcome = "ok" /\ root_loaded

HasNode(e) == EntryOf(e) \in entries

(* When a call returns Ok, every node of the file it was about is in the   *)
(* cache, unless its page is beyond a page that an earlier failed or       *)
(* dropped call took out of pending_pages (hierarchy.rs:119-124, 157-159). *)
LoadedOrForgotten ==
    Answered =>
        \A p \in ReachableFrom({RootPage}) \ ReachableFrom(lost) :
            \A e \in Nodes(p) : Wanted(call, e.key) => HasNode(e)

(* What the doc of load_pages_for_bounds says of it: the full relevant     *)
(* subtree is loaded by the time it returns (hierarchy.rs:122-124).        *)
FullSubtreeLoaded ==
    (Answered /\ call.op = "load_pages_for_bounds") =>
        \A p \in ReachableFrom({RootPage}) :
            \A e \in Nodes(p) : intersects(bounds(e.key), call.box) => HasNode(e)

(* What the comment of parse_page says: entries with invalid negative      *)
(* values are skipped, so that no range to fetch comes from one            *)
(* (hierarchy.rs:268).                                                     *)
NegativeEntriesSkipped ==
    \A p \in loaded : \A e \in Pointers(p) :
        e.byte_size < 0 => PendingOf(e) \notin pending_pages \cup inflight

-----------------------------------------------------------------------------
(* What a step may never do, and what must happen.                         *)

(* A call parses only pages of subtrees it is about, whatever the pages    *)
(* found on the way point to; the others stay pending for future calls     *)
(* (hierarchy.rs:121-122, 158-159).                                        *)
OnlyWantedPages ==
    [][ \A p \in loaded' \ loaded :
          \/ p = RootPage
          \/ call.op = "load_pending_pages"
          \/ Wanted(call, PageKey(p)) ]_vars

(* A node in the cache stays there unchanged, through every later call,    *)
(* failure and cancellation: an entry cloned by a caller that then fetches *)
(* the chunk without the reader stays good (chunk.rs:268-285).             *)
EntriesStable == [][entries \subseteq entries']_vars

(* Every call ends, the loops of load_all and of the bounded loads too.    *)
CallReturns == pc # "idle" ~> pc = "idle"

-----------------------------------------------------------------------------
(* The cache implements the page loader.                                   *)
Abstract ==
    INSTANCE PageLoader WITH
        Root      <- RootPage,
        Names     <- [p \in Page |-> Targets(p)],
        resolved  <- loaded,
        frontier  <- (IF root_loaded THEN {} ELSE {RootPage})
                       \cup Offsets(pending_pages) \cup Offsets(inflight),
        forgotten <- lost

(* The pages of the file are conserved as PageLoader says: a page the      *)
(* cache has heard of is resolved once, or forgotten for good              *)
(* (hierarchy.rs:68-194).                                                  *)
ImplementsPageLoader == Abstract!Spec
=============================================================================
