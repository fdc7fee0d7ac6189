------------------------ MODULE TemporalCacheProofs ------------------------
(***************************************************************************)
(* The safety properties of TemporalCache, for every index, every sequence *)
(* of calls and every failure.                                             *)
(*                                                                         *)
(* The inductive invariant says, of a page, where it can be (PagesInv); of *)
(* a call, what its place says of its batch and of the EVLRs behind it     *)
(* (CallInv, ScanInv, HeaderInv, LoadedInv); of a loop that returned Ok, that it left *)
(* nothing to load (LoopInv); and of a cache that is repaired, that the    *)
(* pages parsed since the root point to each other or to pending ones      *)
(* (RepairInv).                                                            *)
(***************************************************************************)
EXTENDS TemporalCache, FiniteSetTheorems, TLAPS

HeaderOps == {"load_header", "from_reader"}
LoopOps   == {"load_all_pages", "load_pages_for_time_range", "query"}

CallInv ==
    /\ pc # "read" => inflight = {}
    /\ pc \in {"scan", "header"} => call.op \in HeaderOps
    /\ pc = "root" => call.op \in {"from_reader", "load_root_page"}
    /\ pc \in {"loop", "read"} => call.op \in LoopOps

ScanInv ==
    /\ pc \in {"scan", "header"} => \A j \in 1 .. scanned : ~evlrs[j].temporal
    /\ pc = "header" => scanned < Len(evlrs) /\ evlrs[scanned + 1].temporal

FirstHas(stride) ==
    \E i \in 1 .. Len(evlrs) :
        /\ evlrs[i].temporal /\ evlrs[i].version = 1
        /\ stride = evlrs[i].stride /\ stride > 0
        /\ \A j \in 1 .. i - 1 : ~evlrs[j].temporal

HeaderInv ==
    /\ header # NoHeader => FirstHas(header.stride)
    /\ pc = "root" => header # NoHeader
    /\ (pc = "idle" /\ call.op \in HeaderOps) =>
          /\ outcome = "ok" => header # NoHeader
          /\ outcome = "absent" => \A i \in 1 .. Len(evlrs) : ~evlrs[i].temporal

(* Nothing is loaded before the header is. *)
LoadedInv ==
    (entries # {} \/ parsed # {} \/ pending_pages # {} \/ inflight # {})
        => header # NoHeader

(* Pointers kept are pointers of the file, and none is kept twice. *)
PagesInv ==
    /\ PagesAccounted
    /\ \A r \in pending_pages \cup inflight : \E p \in Page : r \in Pointers(p)
    /\ \A q \in pending_pages, r \in inflight : q.offset # r.offset
    /\ \A e \in entries : \E p \in Page : e \in Nodes(p)

LoopInv ==
    (pc = "idle" /\ outcome = "ok" /\ call.op \in LoopOps) => Matching = {}

RepairInv ==
    repaired =>
        \E S \in SUBSET parsed :
            /\ RootPage \in S
            /\ TargetsOf(S) \subseteq S \cup Offsets(pending_pages) \cup Offsets(inflight)

IInv ==
    /\ TypeOK
    /\ CallInv
    /\ ScanInv
    /\ HeaderInv
    /\ LoadedInv
    /\ PagesInv
    /\ LoopInv
    /\ RepairInv

-----------------------------------------------------------------------------
(* The file.                                                               *)

LEMMA PointerFacts ==
    ASSUME NEW p \in Page, NEW r \in Pointers(p)
    PROVE  /\ r \in Pointer /\ r.offset \in Page /\ r.span \in Interval
           /\ r.span = Span[r.offset]
           /\ Within(r.span, Span[p])
<1>1. r \in Wire[p] /\ r \notin Node
    BY DEF Pointers
<1>2. r \in Pointer
    BY <1>1, FileAssumption DEF IndexFile
<1>3. r.offset \in Page /\ r.span \in Interval
    BY <1>2 DEF Pointer
<1>4. r.span = Span[r.offset] /\ Within(r.span, Span[p])
    BY <1>1, FileAssumption DEF IndexFile
<1>5. QED
    BY <1>2, <1>3, <1>4

LEMMA PointersUnique ==
    ASSUME NEW p \in Page, NEW q \in Page,
           NEW d \in Pointers(p), NEW e \in Pointers(q), d.offset = e.offset
    PROVE  d = e
BY FileAssumption DEF IndexFile

LEMMA NodeFacts ==
    ASSUME NEW p \in Page, NEW e \in Nodes(p)
    PROVE  e \in Node /\ e.span \in Interval /\ Within(e.span, Span[p])
BY FileAssumption DEF IndexFile, Nodes, Node

LEMMA TargetsInPage ==
    ASSUME NEW p \in Page
    PROVE  Targets(p) \subseteq Page
BY PointerFacts DEF Targets

(* A time span within another overlaps no window that the other misses. *)
LEMMA WithinMisses ==
    ASSUME NEW a \in Interval, NEW b \in Interval, NEW w \in Interval,
           Within(a, b), Overlaps(a, w)
    PROVE  Overlaps(b, w)
BY DEF Interval, Within, Overlaps

LEMMA ReachableLeast ==
    ASSUME NEW S, NEW C \in SUBSET Page, S \subseteq C, Closed(C)
    PROVE  ReachableFrom(S) \subseteq C
BY DEF ReachableFrom

LEMMA ReachableClosed ==
    ASSUME NEW S \in SUBSET Page
    PROVE  /\ S \subseteq ReachableFrom(S)
           /\ \A p \in ReachableFrom(S) : Targets(p) \subseteq ReachableFrom(S)
<1>1. S \subseteq ReachableFrom(S)
    BY DEF ReachableFrom
<1>2. ASSUME NEW p \in ReachableFrom(S), NEW t \in Targets(p)
      PROVE  t \in ReachableFrom(S)
    <2>1. p \in Page /\ t \in Page
        BY TargetsInPage DEF ReachableFrom
    <2>2. ASSUME NEW T \in SUBSET Page, S \subseteq T, Closed(T)
          PROVE  t \in T
        <3>1. p \in T
            BY <2>2 DEF ReachableFrom
        <3>2. QED
            BY <2>2, <3>1 DEF Closed, TargetsOf
    <2>3. QED
        BY <2>1, <2>2 DEF ReachableFrom
<1>3. QED
    BY <1>1, <1>2

-----------------------------------------------------------------------------
(* Types.                                                                  *)

LEMMA ElementType ==
    ASSUME NEW S, NEW s \in Seq(S), NEW i \in 1 .. Len(s)
    PROVE  s[i] \in S
OBVIOUS

LEMMA EvlrTypes ==
    ASSUME TypeOK
    PROVE  /\ Len(evlrs) \in Nat
           /\ \A i \in 1 .. Len(evlrs) :
                 /\ evlrs[i].temporal \in BOOLEAN
                 /\ evlrs[i].version \in Nat /\ evlrs[i].stride \in Nat
                 /\ evlrs[i].node_count \in Nat
           /\ scanned \in Nat /\ scanned <= Len(evlrs)
<1>1. evlrs \in Seq(EvlrRecord)
    BY FileAssumption DEF IndexFile, TypeOK
<1>2. Len(evlrs) \in Nat
    BY <1>1
<1>3. ASSUME NEW i \in 1 .. Len(evlrs)
      PROVE  /\ evlrs[i].temporal \in BOOLEAN
             /\ evlrs[i].version \in Nat /\ evlrs[i].stride \in Nat
             /\ evlrs[i].node_count \in Nat
    <2>1. evlrs[i] \in EvlrRecord
        BY <1>1, ElementType
    <2>2. QED
        BY <2>1 DEF EvlrRecord
<1>4. scanned \in 0 .. Len(evlrs)
    BY DEF TypeOK
<1>5. QED
    BY <1>2, <1>3, <1>4

LEMMA InitIInv == Init => IInv
<1> SUFFICES ASSUME Init PROVE IInv
    OBVIOUS
<1>1. TypeOK
    <2>1. evlrs \in Seq(EvlrRecord)
        BY FileAssumption DEF IndexFile, Init
    <2>2. scanned \in 0 .. Len(evlrs)
        BY <2>1 DEF Init
    <2>3. QED
        BY <2>2 DEF Init, TypeOK, NoHeader, Call
<1>2. CallInv /\ ScanInv /\ HeaderInv /\ LoadedInv /\ LoopInv /\ RepairInv
    BY DEF Init, CallInv, ScanInv, HeaderInv, LoadedInv, LoopInv, RepairInv, HeaderOps, LoopOps
<1>3. PagesInv
    BY DEF Init, PagesInv, PagesAccounted, TargetsOf, Offsets
<1>4. QED
    BY <1>1, <1>2, <1>3 DEF IInv

LEMMA BatchInPage ==
    ASSUME TypeOK
    PROVE  Batch \subseteq Page /\ Offsets(inflight) \subseteq Page
           /\ Offsets(pending_pages) \subseteq Page
BY FileAssumption DEF IndexFile, TypeOK, Batch, Offsets, Pointer

LEMMA ParseTypes ==
    ASSUME TypeOK, NEW done \in SUBSET Page, NEW begun \in SUBSET Page,
           Parse(done, begun)
    PROVE  /\ entries' \subseteq Node
           /\ pending_pages' \subseteq Pointer
           /\ parsed' \subseteq Page /\ lost' \subseteq Page
<1>1. \A p \in Page : Nodes(p) \subseteq Node /\ Pointers(p) \subseteq Pointer
    BY PointerFacts DEF Nodes
<1>2. QED
    BY <1>1, BatchInPage DEF TypeOK, Parse

LEMMA RenewTypes ==
    ASSUME Renew
    PROVE  /\ header' \in [stride : Nat]
           /\ entries' \subseteq Node /\ pending_pages' \subseteq Pointer
           /\ parsed' \subseteq Page /\ lost' \subseteq Page
           /\ repaired' \in BOOLEAN
BY DEF Renew, NoHeader

LEMMA StepTypeOK == TypeOK /\ CallInv /\ ScanInv /\ [Next]_vars => TypeOK'
<1> SUFFICES ASSUME TypeOK, CallInv, ScanInv, [Next]_vars PROVE TypeOK'
    OBVIOUS
<1> USE DEF file, cache, past, Finish
<1>1. CASE UNCHANGED vars
    BY <1>1 DEF TypeOK, vars
<1>2. ASSUME NEW c \in Call, NEW next_pc \in {"scan", "root", "loop"}, Start(c, next_pc)
      PROVE  TypeOK'
    <2>1. scanned' \in 0 .. Len(evlrs')
        BY <1>2, EvlrTypes DEF Start
    <2>2. QED
        BY <1>2, <2>1 DEF Start, TypeOK
<1>3. CASE Calls
    <2>1. \A w \in Window :
              /\ [op |-> "load_pages_for_time_range", window |-> w] \in Call
              /\ [op |-> "query", window |-> w] \in Call
        BY DEF Call
    <2>2. \A o \in {"load_header", "from_reader", "load_root_page", "load_all_pages"} :
              [op |-> o] \in Call
        BY DEF Call
    <2>3. CASE FromReader
        <3>1. scanned' \in 0 .. Len(evlrs') /\ call' \in Call /\ header' \in [stride : Nat]
            BY <2>2, <2>3, EvlrTypes, RenewTypes DEF FromReader
        <3>2. QED
            BY <2>3, <3>1, RenewTypes DEF FromReader, TypeOK
    <2>4. CASE LoadRootPage
        BY <1>2, <2>2, <2>4 DEF LoadRootPage, TypeOK
    <2>5. CASE LoadHeader \/ LoadAllPages
        BY <1>2, <2>2, <2>5 DEF LoadHeader, LoadAllPages
    <2>6. ASSUME NEW w \in Window, LoadPagesForTimeRange(w) \/ Query(w)
          PROVE  TypeOK'
        BY <1>2, <2>1, <2>6 DEF LoadPagesForTimeRange, Query
    <2>7. QED
        BY <1>3, <2>3, <2>4, <2>5, <2>6 DEF Calls
<1>4. CASE EvlrRead \/ NoIndex \/ HeaderInvalid \/ Return
    <2>1. scanned' \in 0 .. Len(evlrs')
        BY <1>4, EvlrTypes DEF EvlrRead, NoIndex, HeaderInvalid, Return
    <2>2. QED
        BY <1>4, <2>1 DEF EvlrRead, NoIndex, HeaderInvalid, Return, TypeOK, cache
<1>5. CASE HeaderRead
    <2>1. evlrs[scanned + 1].stride \in Nat
        BY <1>5, EvlrTypes DEF HeaderRead, ScanInv
    <2>2. header' \in [stride : Nat]
        BY <1>5, <2>1 DEF HeaderRead
    <2>3. pc' \in {"idle", "root"} /\ outcome' \in {"ok", outcome}
        BY <1>5 DEF HeaderRead
    <2>4. QED
        BY <1>5, <2>2, <2>3, Zenon DEF HeaderRead, TypeOK
<1>6. CASE TakeBatch
    BY <1>6 DEF TakeBatch, TypeOK, Matching
<1>7. CASE PagesRead
    <2>1. PICK done \in SUBSET Page : Parse(done, {})
        BY <1>7, BatchInPage DEF PagesRead
    <2>2. QED
        BY <1>7, <2>1, ParseTypes DEF PagesRead, TypeOK
<1>8. CASE PageCut
    <2>1. CASE call.op = "from_reader"
        BY <1>8, <2>1, RenewTypes DEF PageCut, TypeOK
    <2>2. CASE call.op # "from_reader"
        <3>1. PICK page \in Page, done \in SUBSET Page : Parse(done, {page})
            BY <1>8, <2>2, BatchInPage DEF PageCut
        <3>2. QED
            BY <1>8, <2>2, <3>1, ParseTypes DEF PageCut, TypeOK
    <2>3. QED
        BY <2>1, <2>2
<1>9. CASE ReadFails \/ Cancel
    <2>1. CASE call.op = "from_reader"
        BY <1>9, <2>1, RenewTypes DEF ReadFails, Cancel, Abandon, TypeOK
    <2>2. CASE call.op # "from_reader"
        <3>1. lost' \subseteq Page /\ repaired' \in BOOLEAN
            BY <1>9, <2>2, BatchInPage DEF ReadFails, Cancel, Abandon, TypeOK
        <3>2. QED
            BY <1>9, <2>2, <3>1 DEF ReadFails, Cancel, Abandon, TypeOK
    <2>3. QED
        BY <2>1, <2>2
<1>10. QED
    BY <1>1, <1>3, <1>4, <1>5, <1>6, <1>7, <1>8, <1>9 DEF Next, Progress

-----------------------------------------------------------------------------
(* The place of a call, and the EVLRs behind it.                           *)

LEMMA StepCallInv == TypeOK /\ CallInv /\ [Next]_vars => CallInv'
<1> SUFFICES ASSUME TypeOK, CallInv, [Next]_vars PROVE CallInv'
    OBVIOUS
<1> USE DEF CallInv, HeaderOps, LoopOps, Finish
<1>1. CASE UNCHANGED vars
    BY <1>1 DEF vars
<1>2. CASE Calls
    BY <1>2 DEF Calls, LoadHeader, FromReader, LoadRootPage, LoadAllPages,
                LoadPagesForTimeRange, Query, Start
<1>3. CASE EvlrRead \/ NoIndex \/ HeaderRead \/ HeaderInvalid
    BY <1>3 DEF EvlrRead, NoIndex, HeaderRead, HeaderInvalid
<1>4. CASE TakeBatch \/ Return \/ PagesRead \/ PageCut
    BY <1>4 DEF TakeBatch, Return, PagesRead, PageCut
<1>5. CASE ReadFails \/ Cancel
    BY <1>5 DEF ReadFails, Cancel, Abandon
<1>6. QED
    BY <1>1, <1>2, <1>3, <1>4, <1>5 DEF Next, Progress

LEMMA StepScanInv == TypeOK /\ ScanInv /\ [Next]_vars => ScanInv'
<1> SUFFICES ASSUME TypeOK, ScanInv, [Next]_vars PROVE ScanInv'
    OBVIOUS
<1> USE DEF ScanInv, Finish, file
<1>1. CASE UNCHANGED vars
    BY <1>1 DEF vars
<1>2. CASE Calls
    <2>1. scanned' = 0 \/ pc' = pc
        BY <1>2 DEF Calls, LoadHeader, FromReader, LoadRootPage, LoadAllPages,
                    LoadPagesForTimeRange, Query, Start
    <2>2. pc' \notin {"header"}
        BY <1>2 DEF Calls, LoadHeader, FromReader, LoadRootPage, LoadAllPages,
                    LoadPagesForTimeRange, Query, Start
    <2>3. pc = "idle"
        BY <1>2 DEF Calls, LoadHeader, FromReader, LoadRootPage, LoadAllPages,
                    LoadPagesForTimeRange, Query, Start
    <2>4. QED
        BY <2>1, <2>2, <2>3
<1>3. CASE EvlrRead
    <2>1. evlrs' = evlrs /\ scanned \in Nat /\ Len(evlrs) \in Nat
        BY <1>3, EvlrTypes DEF EvlrRead
    <2>2. CASE evlrs[scanned + 1].temporal /\ pc' = "header" /\ scanned' = scanned
        BY <1>3, <2>1, <2>2 DEF EvlrRead
    <2>3. CASE ~evlrs[scanned + 1].temporal /\ scanned' = scanned + 1 /\ pc' = pc
        <3>1. \A j \in 1 .. scanned + 1 : ~evlrs[j].temporal
            <4>1. \A j \in 1 .. scanned : ~evlrs[j].temporal
                BY <1>3 DEF EvlrRead
            <4>2. \A j \in 1 .. scanned + 1 : j \in 1 .. scanned \/ j = scanned + 1
                BY <2>1
            <4>3. QED
                BY <2>3, <4>1, <4>2
        <3>2. QED
            BY <1>3, <2>1, <2>3, <3>1 DEF EvlrRead
    <2>4. QED
        BY <1>3, <2>2, <2>3 DEF EvlrRead
<1>4. CASE NoIndex \/ HeaderRead \/ HeaderInvalid \/ TakeBatch \/ Return
    BY <1>4 DEF NoIndex, HeaderRead, HeaderInvalid, TakeBatch, Return
<1>5. CASE PagesRead \/ PageCut \/ ReadFails \/ Cancel
    BY <1>5 DEF PagesRead, PageCut, ReadFails, Cancel, Abandon
<1>6. QED
    BY <1>1, <1>2, <1>3, <1>4, <1>5 DEF Next, Progress

LEMMA StepHeaderInv ==
    TypeOK /\ CallInv /\ ScanInv /\ HeaderInv /\ [Next]_vars => HeaderInv'
<1> SUFFICES ASSUME TypeOK, CallInv, ScanInv, HeaderInv, [Next]_vars PROVE HeaderInv'
    OBVIOUS
<1>1. evlrs' = evlrs
    BY DEF Next, Calls, Progress, LoadHeader, FromReader, LoadRootPage, LoadAllPages,
           LoadPagesForTimeRange, Query, Start, EvlrRead, NoIndex, HeaderRead,
           HeaderInvalid, TakeBatch, Return, PagesRead, PageCut, ReadFails, Cancel,
           Abandon, vars, file
<1>2. \A stride : FirstHas(stride) => FirstHas(stride)'
    BY <1>1 DEF FirstHas
<1>3. CASE UNCHANGED vars
    <2>1. header' = header /\ pc' = pc /\ call' = call /\ outcome' = outcome
        BY <1>3 DEF vars, cache
    <2>2. QED
        BY <1>1, <1>2, <2>1, Zenon DEF HeaderInv
<1>4. CASE Calls
    BY <1>1, <1>2, <1>4
       DEF Calls, LoadHeader, FromReader, LoadRootPage, LoadAllPages, Renew,
           LoadPagesForTimeRange, Query, Start, HeaderInv, HeaderOps, cache
<1>5. CASE HeaderRead
    <2>1. FirstHas(evlrs[scanned + 1].stride)
        BY <1>5, EvlrTypes DEF HeaderRead, ScanInv, FirstHas, ValidHeader
    <2>2. evlrs[scanned + 1].stride > 0
        BY <1>5, EvlrTypes DEF HeaderRead, ScanInv, ValidHeader
    <2>3. header' # NoHeader /\ FirstHas(header'.stride)
        BY <1>5, <2>1, <2>2, EvlrTypes DEF HeaderRead, NoHeader
    <2>4. outcome' # "absent" \/ pc' # "idle"
        BY <1>5 DEF HeaderRead, Finish
    <2>5. QED
        BY <1>2, <2>3, <2>4 DEF HeaderInv
<1>6. CASE NoIndex
    <2>1. \A i \in 1 .. Len(evlrs) : ~evlrs[i].temporal
        BY <1>6 DEF NoIndex, ScanInv
    <2>2. QED
        BY <1>1, <1>2, <1>6, <2>1 DEF NoIndex, HeaderInv, Finish, cache
<1>7. CASE EvlrRead \/ HeaderInvalid \/ TakeBatch
    BY <1>1, <1>2, <1>7 DEF EvlrRead, HeaderInvalid, TakeBatch, HeaderInv, Finish, cache
<1>8. CASE Return
    BY <1>1, <1>2, <1>8 DEF Return, HeaderInv, CallInv, LoopOps, HeaderOps, Finish, cache
<1>9. CASE PagesRead
    BY <1>1, <1>2, <1>9
       DEF PagesRead, HeaderInv, CallInv, LoopOps, HeaderOps, Finish
<1>10. CASE PageCut
    BY <1>1, <1>2, <1>10 DEF PageCut, HeaderInv, Finish, Renew
<1>11. CASE ReadFails \/ Cancel
    BY <1>1, <1>2, <1>11 DEF ReadFails, Cancel, Abandon, HeaderInv, Finish, Renew, cache
<1>12. QED
    BY <1>3, <1>4, <1>5, <1>6, <1>7, <1>8, <1>9, <1>10, <1>11 DEF Next, Progress

LEMMA StepLoadedInv ==
    TypeOK /\ CallInv /\ ScanInv /\ HeaderInv /\ LoadedInv /\ [Next]_vars => LoadedInv'
<1> SUFFICES ASSUME TypeOK, CallInv, ScanInv, HeaderInv, LoadedInv, [Next]_vars
             PROVE  LoadedInv'
    OBVIOUS
<1> USE DEF LoadedInv, cache, past
<1>1. CASE UNCHANGED vars
    BY <1>1 DEF vars
<1>2. CASE Calls
    BY <1>2 DEF Calls, LoadHeader, FromReader, LoadRootPage, LoadAllPages, Renew,
                LoadPagesForTimeRange, Query, Start, CallInv
<1>3. CASE EvlrRead \/ NoIndex \/ HeaderInvalid \/ TakeBatch \/ Return
    BY <1>3 DEF EvlrRead, NoIndex, HeaderInvalid, TakeBatch, Return, Matching
<1>4. CASE HeaderRead
    <2>1. evlrs[scanned + 1].stride \in Nat /\ evlrs[scanned + 1].stride >= 1
        BY <1>4, EvlrTypes DEF HeaderRead, ScanInv, ValidHeader
    <2>2. header' # NoHeader
        BY <1>4, <2>1 DEF HeaderRead, NoHeader
    <2>3. QED
        BY <2>2
<1>5. CASE PagesRead \/ PageCut
    <2>1. ASSUME header = NoHeader
          PROVE  Batch = {} /\ entries = {} /\ parsed = {} /\ pending_pages = {}
        BY <1>5, <2>1 DEF PagesRead, PageCut, HeaderInv, Batch, Offsets
    <2>2. CASE PagesRead
        BY <2>1, <2>2 DEF PagesRead, Parse
    <2>3. CASE PageCut
        BY <2>1, <2>3 DEF PageCut, Renew
    <2>4. QED
        BY <1>5, <2>2, <2>3
<1>6. CASE ReadFails \/ Cancel
    BY <1>6 DEF ReadFails, Cancel, Abandon, Renew
<1>7. QED
    BY <1>1, <1>2, <1>3, <1>4, <1>5, <1>6 DEF Next, Progress

LEMMA StepLoopInv == CallInv /\ LoopInv /\ [Next]_vars => LoopInv'
<1> SUFFICES ASSUME CallInv, LoopInv, [Next]_vars PROVE LoopInv'
    OBVIOUS
<1> USE DEF Finish, cache
<1>1. CASE UNCHANGED vars
    BY <1>1 DEF vars, LoopInv, Matching, Selected
<1>2. CASE Return
    BY <1>2 DEF Return, LoopInv, Matching, Selected
<1>3. CASE Calls
    BY <1>3 DEF Calls, LoadHeader, FromReader, LoadRootPage, LoadAllPages,
                LoadPagesForTimeRange, Query, Start, LoopInv
<1>4. CASE EvlrRead \/ NoIndex \/ HeaderRead \/ HeaderInvalid
    BY <1>4 DEF EvlrRead, NoIndex, HeaderRead, HeaderInvalid, LoopInv, CallInv,
                LoopOps, HeaderOps
<1>5. CASE TakeBatch \/ PagesRead \/ PageCut
    BY <1>5 DEF TakeBatch, PagesRead, PageCut, LoopInv, CallInv, LoopOps
<1>6. CASE ReadFails \/ Cancel
    BY <1>6 DEF ReadFails, Cancel, Abandon, LoopInv
<1>7. QED
    BY <1>1, <1>2, <1>3, <1>4, <1>5, <1>6 DEF Next, Progress

-----------------------------------------------------------------------------
(* Where the pages are.                                                    *)

LEMMA ParsePages ==
    ASSUME TypeOK, PagesInv, NEW done \in SUBSET Page, NEW begun \in SUBSET Page,
           Parse(done, begun), inflight' = {}
    PROVE  PagesInv'
<1> DEFINE flying == Offsets(inflight)
           later  == Offsets(pending_pages')
<1>1. Offsets(pending_pages) \subseteq later
    BY DEF Parse, Offsets
<1>2. \A p \in done : Targets(p) \subseteq later
    BY DEF Parse, Offsets, Targets
<1>3. lost' = (lost \cup flying) \ (parsed' \cup later) /\ parsed' = parsed \cup done
    BY DEF Parse
<1>4. TargetsOf(parsed) \subseteq parsed' \cup later \cup lost'
    <2>1. TargetsOf(parsed) \subseteq parsed \cup Offsets(pending_pages) \cup flying \cup lost
        BY DEF PagesInv, PagesAccounted
    <2>2. QED
        BY <2>1, <1>1, <1>3
<1>5. TargetsOf(parsed') \subseteq parsed' \cup later \cup lost'
    BY <1>2, <1>3, <1>4 DEF TargetsOf
<1>6. \A p \in parsed' : Nodes(p) \subseteq entries'
    BY DEF Parse, PagesInv, PagesAccounted
<1>7. Offsets(inflight') = {}
    BY DEF Offsets
<1>8. PagesAccounted'
    BY <1>3, <1>5, <1>6, <1>7 DEF PagesAccounted
<1>9. \A r \in pending_pages' : \E p \in Page : r \in Pointers(p)
    BY DEF Parse, PagesInv
<1>10. \A e \in entries' : \E p \in Page : e \in Nodes(p)
    BY DEF Parse, PagesInv
<1>11. QED
    BY <1>8, <1>9, <1>10 DEF PagesInv

LEMMA RenewPages == ASSUME Renew, inflight' = {} PROVE PagesInv'
BY DEF Renew, PagesInv, PagesAccounted, TargetsOf, Offsets

LEMMA StepPagesInv == TypeOK /\ CallInv /\ PagesInv /\ [Next]_vars => PagesInv'
<1> SUFFICES ASSUME TypeOK, CallInv, PagesInv, [Next]_vars PROVE PagesInv'
    OBVIOUS
<1> USE DEF cache, past
<1>1. ASSUME UNCHANGED << entries, pending_pages, inflight, parsed, lost >>
      PROVE  PagesInv'
    BY <1>1 DEF PagesInv, PagesAccounted
<1>2. CASE UNCHANGED vars
    BY <1>1, <1>2 DEF vars
<1>3. CASE FromReader
    BY <1>3, RenewPages DEF FromReader, CallInv
<1>4. CASE Calls /\ ~FromReader
    BY <1>1, <1>4 DEF Calls, LoadHeader, LoadRootPage, LoadAllPages,
                      LoadPagesForTimeRange, Query, Start
<1>5. CASE EvlrRead \/ NoIndex \/ HeaderRead \/ HeaderInvalid \/ Return
    BY <1>1, <1>5 DEF EvlrRead, NoIndex, HeaderRead, HeaderInvalid, Return
<1>6. CASE TakeBatch
    <2>1. inflight = {} /\ inflight' = Matching
          /\ pending_pages' = pending_pages \ Matching /\ Matching \subseteq pending_pages
        BY <1>6 DEF TakeBatch, CallInv, Matching
    <2>2. UNCHANGED << entries, parsed, lost >>
        BY <1>6 DEF TakeBatch
    <2>3. Offsets(pending_pages) = Offsets(pending_pages') \cup Offsets(inflight')
          /\ Offsets(inflight) = {}
        BY <2>1 DEF Offsets
    <2>4. PagesAccounted'
        BY <2>2, <2>3 DEF PagesInv, PagesAccounted
    <2>5. ASSUME NEW q \in pending_pages', NEW r \in inflight'
          PROVE  q.offset # r.offset
        <3>1. PICK p1 \in Page : q \in Pointers(p1)
            BY <2>1 DEF PagesInv
        <3>2. PICK p2 \in Page : r \in Pointers(p2)
            BY <2>1 DEF PagesInv
        <3>3. q # r
            BY <2>1
        <3>4. QED
            BY <3>1, <3>2, <3>3, PointersUnique
    <2>6. \A r \in pending_pages' \cup inflight' : \E p \in Page : r \in Pointers(p)
        BY <2>1 DEF PagesInv
    <2>7. \A e \in entries' : \E p \in Page : e \in Nodes(p)
        BY <2>2 DEF PagesInv
    <2>8. QED
        BY <2>4, <2>5, <2>6, <2>7 DEF PagesInv
<1>7. CASE PagesRead
    <2>1. Batch \in SUBSET Page /\ {} \in SUBSET Page
        BY BatchInPage
    <2>2. QED
        BY <1>7, <2>1, ParsePages DEF PagesRead
<1>8. CASE PageCut
    <2>1. CASE call.op = "from_reader"
        BY <1>8, <2>1, RenewPages DEF PageCut
    <2>2. CASE call.op # "from_reader"
        <3>1. PICK page \in Batch \cap damaged, done \in SUBSET (Batch \ damaged) :
                  Parse(done, {page})
            BY <1>8, <2>2 DEF PageCut
        <3>2. done \in SUBSET Page /\ {page} \in SUBSET Page
            BY <3>1, BatchInPage
        <3>3. QED
            BY <1>8, <3>1, <3>2, ParsePages DEF PageCut
    <2>3. QED
        BY <2>1, <2>2
<1>9. CASE ReadFails \/ Cancel
    <2>1. CASE call.op = "from_reader"
        BY <1>9, <2>1, RenewPages DEF ReadFails, Cancel, Abandon
    <2>2. CASE call.op # "from_reader"
        <3>1. UNCHANGED << entries, pending_pages, parsed >> /\ inflight' = {}
              /\ lost' = (lost \cup Offsets(inflight)) \ parsed
            BY <1>9, <2>2 DEF ReadFails, Cancel, Abandon
        <3>2. Offsets(inflight) \cap Offsets(pending_pages) = {}
            BY DEF PagesInv, Offsets
        <3>3. Offsets(inflight') = {}
            BY <3>1 DEF Offsets
        <3>4. TargetsOf(parsed) \subseteq parsed \cup Offsets(pending_pages) \cup lost'
            BY <3>1 DEF PagesInv, PagesAccounted
        <3>5. lost' \cap (parsed \cup Offsets(pending_pages)) = {}
            BY <3>1, <3>2 DEF PagesInv, PagesAccounted
        <3>6. PagesAccounted'
            BY <3>1, <3>3, <3>4, <3>5 DEF PagesInv, PagesAccounted
        <3>7. QED
            BY <3>1, <3>6 DEF PagesInv
    <2>3. QED
        BY <2>1, <2>2
<1>10. QED
    BY <1>2, <1>3, <1>4, <1>5, <1>6, <1>7, <1>8, <1>9 DEF Next, Progress

-----------------------------------------------------------------------------
(* The cache since the root page was parsed.                               *)

(* A page parsed whole has its pointers pending. *)
LEMMA RepairStays ==
    ASSUME RepairInv, repaired, inflight = {}, inflight' = {},
           parsed \subseteq parsed', pending_pages \subseteq pending_pages'
    PROVE  RepairInv'
<1>1. PICK S \in SUBSET parsed :
          /\ RootPage \in S
          /\ TargetsOf(S) \subseteq S \cup Offsets(pending_pages) \cup Offsets(inflight)
    BY DEF RepairInv
<1>2. Offsets(inflight) = {} /\ Offsets(pending_pages) \subseteq Offsets(pending_pages')
    BY DEF Offsets
<1>3. S \in SUBSET parsed' /\ TargetsOf(S) \subseteq S \cup Offsets(pending_pages')
    BY <1>1, <1>2
<1>4. QED
    BY <1>1, <1>3 DEF RepairInv

LEMMA StepRepairInv == TypeOK /\ CallInv /\ RepairInv /\ [Next]_vars => RepairInv'
<1> SUFFICES ASSUME TypeOK, CallInv, RepairInv, [Next]_vars PROVE RepairInv'
    OBVIOUS
<1> USE DEF cache, past
<1>1. ASSUME UNCHANGED << pending_pages, inflight, parsed, repaired >>
      PROVE  RepairInv'
    BY <1>1 DEF RepairInv
<1>2. ASSUME ~repaired' PROVE RepairInv'
    BY <1>2 DEF RepairInv
<1>3. CASE UNCHANGED vars
    BY <1>1, <1>3 DEF vars
<1>4. CASE FromReader
    BY <1>2, <1>4 DEF FromReader, Renew
<1>5. CASE Calls /\ ~FromReader
    BY <1>1, <1>5 DEF Calls, LoadHeader, LoadRootPage, LoadAllPages,
                      LoadPagesForTimeRange, Query, Start
<1>6. CASE EvlrRead \/ NoIndex \/ HeaderRead \/ HeaderInvalid \/ Return
    BY <1>1, <1>6 DEF EvlrRead, NoIndex, HeaderRead, HeaderInvalid, Return
<1>7. CASE TakeBatch
    <2>1. Offsets(pending_pages) \subseteq Offsets(pending_pages') \cup Offsets(inflight')
          /\ Offsets(inflight) = {}
        BY <1>7 DEF TakeBatch, CallInv, Offsets
    <2>2. parsed' = parsed /\ repaired' = repaired
        BY <1>7 DEF TakeBatch
    <2>3. ASSUME repaired
          PROVE  \E S \in SUBSET parsed :
                    /\ RootPage \in S
                    /\ TargetsOf(S) \subseteq
                          S \cup Offsets(pending_pages') \cup Offsets(inflight')
        BY <2>1, <2>3 DEF RepairInv
    <2>4. QED
        BY <2>2, <2>3 DEF RepairInv
<1>8. CASE PagesRead
    <2>1. inflight' = {} /\ Parse(Batch, {})
        BY <1>8 DEF PagesRead
    <2>2. parsed' = parsed \cup Batch /\ Offsets(pending_pages) \subseteq Offsets(pending_pages')
        BY <2>1 DEF Parse, Offsets
    <2>3. TargetsOf(Batch) \subseteq Offsets(pending_pages')
        BY <2>1 DEF Parse, Offsets, TargetsOf, Targets
    <2>4. CASE pc = "root"
        <3>1. Batch = {RootPage}
            BY <2>4 DEF Batch
        <3>2. Batch \in SUBSET parsed' /\ RootPage \in Batch
            BY <2>2, <3>1
        <3>3. QED
            BY <2>3, <3>2 DEF RepairInv
    <2>5. CASE pc = "read"
        <3>1. repaired' = repaired \/ repaired' = (repaired \/ FALSE)
            BY <1>8, <2>5 DEF PagesRead
        <3>2. SUFFICES ASSUME repaired PROVE RepairInv'
            BY <1>2, <3>1
        <3>3. PICK S \in SUBSET parsed :
                  /\ RootPage \in S
                  /\ TargetsOf(S) \subseteq
                        S \cup Offsets(pending_pages) \cup Offsets(inflight)
            BY <3>2 DEF RepairInv
        <3>4. Batch = Offsets(inflight)
            BY <2>5 DEF Batch
        <3>5. TargetsOf(S \cup Batch) = TargetsOf(S) \cup TargetsOf(Batch)
            BY DEF TargetsOf
        <3>6. TargetsOf(S \cup Batch) \subseteq (S \cup Batch) \cup Offsets(pending_pages')
            BY <2>2, <2>3, <3>3, <3>4, <3>5
        <3>7. S \cup Batch \in SUBSET parsed' /\ RootPage \in S \cup Batch
            BY <2>2, <3>3
        <3>8. QED
            BY <3>6, <3>7 DEF RepairInv
    <2>6. QED
        BY <1>8, <2>4, <2>5 DEF PagesRead
<1>9. CASE PageCut
    <2>1. CASE call.op = "from_reader"
        BY <1>2, <1>9, <2>1 DEF PageCut, Renew
    <2>2. CASE call.op # "from_reader"
        <3>1. inflight' = {} /\ repaired' = (repaired /\ pc = "root")
            BY <1>9, <2>2 DEF PageCut
        <3>2. parsed \subseteq parsed' /\ pending_pages \subseteq pending_pages'
            BY <1>9, <2>2 DEF PageCut, Parse
        <3>3. CASE repaired /\ pc = "root"
            BY <3>1, <3>2, <3>3, RepairStays DEF CallInv
        <3>4. CASE ~(repaired /\ pc = "root")
            BY <1>2, <3>1, <3>4
        <3>5. QED
            BY <3>3, <3>4
    <2>3. QED
        BY <2>1, <2>2
<1>10. CASE ReadFails \/ Cancel
    <2>1. CASE call.op = "from_reader"
        BY <1>2, <1>10, <2>1 DEF ReadFails, Cancel, Abandon, Renew
    <2>2. CASE call.op # "from_reader"
        <3>1. inflight' = {} /\ repaired' = (repaired /\ inflight = {})
              /\ UNCHANGED << pending_pages, parsed >>
            BY <1>10, <2>2 DEF ReadFails, Cancel, Abandon
        <3>2. CASE repaired /\ inflight = {}
            BY <3>1, <3>2, RepairStays
        <3>3. CASE ~(repaired /\ inflight = {})
            BY <1>2, <3>1, <3>3
        <3>4. QED
            BY <3>2, <3>3
    <2>3. QED
        BY <2>1, <2>2
<1>11. QED
    BY <1>3, <1>4, <1>5, <1>6, <1>7, <1>8, <1>9, <1>10 DEF Next, Progress

LEMMA StepIInv == IInv /\ [Next]_vars => IInv'
<1> SUFFICES ASSUME IInv, [Next]_vars PROVE IInv'
    OBVIOUS
<1>1. TypeOK' /\ CallInv' /\ ScanInv' /\ HeaderInv' /\ LoadedInv'
    BY StepTypeOK, StepCallInv, StepScanInv, StepHeaderInv, StepLoadedInv DEF IInv
<1>2. PagesInv' /\ LoopInv' /\ RepairInv'
    BY StepPagesInv, StepLoopInv, StepRepairInv DEF IInv
<1>3. QED
    BY <1>1, <1>2 DEF IInv

(* The invariant holds in every state, from which the theorems below follow *)
(* (temporal_cache.rs:92-195).                                              *)
THEOREM TemporalCacheInvariant == Spec => []IInv
<1>1. Init => IInv
    BY InitIInv
<1>2. IInv /\ [Next]_vars => IInv'
    BY StepIInv
<1>3. QED
    BY <1>1, <1>2, PTL DEF Spec

(* Every variable has its type. *)
THEOREM TypeCorrect == Spec => []TypeOK
<1>1. IInv => TypeOK
    BY DEF IInv
<1>2. QED
    BY <1>1, TemporalCacheInvariant, PTL

(* A page met by following pointers is parsed, pending, in flight or lost. *)
THEOREM PagesAreAccounted == Spec => []PagesAccounted
<1>1. IInv => PagesAccounted
    BY DEF IInv, PagesInv
<1>2. QED
    BY <1>1, TemporalCacheInvariant, PTL

-----------------------------------------------------------------------------
(* What a call has found.                                                  *)

(* The scan ends at the first EVLR of an index. *)
THEOREM HeaderIsOfFirstIndex == Spec => []HeaderOfFirstIndex
<1>1. IInv => HeaderOfFirstIndex
    BY DEF IInv, HeaderInv, FirstHas, HeaderOps, HeaderOfFirstIndex
<1>2. QED
    BY <1>1, TemporalCacheInvariant, PTL

(* A pending page that the call left out does not overlap its window. *)
LEMMA PendingOutside ==
    ASSUME IInv, Answered, NEW t \in Offsets(pending_pages)
    PROVE  t \in Page /\ ~Overlaps(Span[t], call.window)
<1>1. PICK r \in pending_pages : t = r.offset
    BY DEF Offsets
<1>2. PICK p \in Page : r \in Pointers(p)
    BY <1>1 DEF IInv, PagesInv
<1>3. t \in Page /\ r.span = Span[t]
    BY <1>1, <1>2, PointerFacts
<1>4. Matching = {}
    BY DEF IInv, LoopInv, LoopOps, Answered
<1>5. ~Overlaps(r.span, call.window)
    BY <1>1, <1>4 DEF Matching, Selected
<1>6. QED
    BY <1>3, <1>5

LEMMA AnsweredWindow ==
    ASSUME TypeOK, Answered
    PROVE  call.window \in Interval
BY FileAssumption DEF IndexFile, TypeOK, Call, Answered

LEMMA FoundBeside ==
    ASSUME IInv, Answered,
           NEW S \in SUBSET parsed, RootPage \in S,
           NEW L \in SUBSET Page, \A p \in L : Targets(p) \subseteq L,
           TargetsOf(S) \subseteq S \cup L \cup Offsets(pending_pages)
    PROVE  FoundIn(ReachableFrom({RootPage}) \ L)
<1> DEFINE w == call.window
           C == S \cup L \cup { p \in Page : ~Overlaps(Span[p], w) }
<1>1. w \in Interval
    BY AnsweredWindow DEF IInv
<1>2. C \in SUBSET Page /\ {RootPage} \subseteq C
    BY DEF IInv, TypeOK
<1>3. ASSUME NEW p \in C, NEW t \in Targets(p) PROVE t \in C
    <2>1. CASE p \in S
        <3>1. t \in S \cup L \cup Offsets(pending_pages)
            BY <2>1, <1>3 DEF TargetsOf
        <3>2. QED
            BY <3>1, PendingOutside
    <2>2. CASE p \in L
        BY <1>3, <2>2
    <2>3. CASE p \in Page /\ ~Overlaps(Span[p], w)
        <3>1. PICK r \in Pointers(p) : t = r.offset
            BY <1>3 DEF Targets
        <3>2. t \in Page /\ Span[t] \in Interval /\ Within(Span[t], Span[p])
            BY <2>3, <3>1, PointerFacts
        <3>3. Span[p] \in Interval
            BY <2>3, FileAssumption DEF IndexFile
        <3>4. ~Overlaps(Span[t], w)
            BY <1>1, <2>3, <3>2, <3>3, WithinMisses
        <3>5. QED
            BY <3>2, <3>4
    <2>4. QED
        BY <2>1, <2>2, <2>3
<1>4. Closed(C)
    BY <1>3 DEF Closed, TargetsOf
<1>5. ReachableFrom({RootPage}) \subseteq C
    BY <1>2, <1>4, ReachableLeast
<1>6. ASSUME NEW p \in ReachableFrom({RootPage}) \ L, NEW e \in Nodes(p),
             Overlaps(e.span, w)
      PROVE  e \in nodes_in_range(w)
    <2>1. p \in Page
        BY DEF ReachableFrom
    <2>2. e.span \in Interval /\ Within(e.span, Span[p]) /\ Span[p] \in Interval
        BY <2>1, NodeFacts, FileAssumption DEF IndexFile
    <2>3. Overlaps(Span[p], w)
        BY <1>1, <1>6, <2>2, WithinMisses
    <2>4. p \in S
        BY <1>5, <1>6, <2>3
    <2>5. e \in entries
        BY <2>4 DEF IInv, PagesInv, PagesAccounted
    <2>6. QED
        BY <1>6, <2>5 DEF nodes_in_range
<1>7. QED
    BY <1>6 DEF FoundIn

(* A query finds what is not beyond a page lost. *)
THEOREM QueryFindsWhatIsNotLost == Spec => []FoundOrLost
<1>1. ASSUME IInv, Answered
      PROVE  FoundIn(ReachableFrom({RootPage}) \ ReachableFrom(lost))
    <2>1. ReachableFrom(lost) \in SUBSET Page
        BY DEF ReachableFrom
    <2>2. /\ lost \subseteq ReachableFrom(lost)
          /\ \A p \in ReachableFrom(lost) : Targets(p) \subseteq ReachableFrom(lost)
        BY <1>1, ReachableClosed DEF IInv, TypeOK
    <2>3. Offsets(inflight) = {}
        BY <1>1 DEF IInv, CallInv, Answered, Offsets
    <2>4. TargetsOf(parsed) \subseteq
              parsed \cup ReachableFrom(lost) \cup Offsets(pending_pages)
        BY <1>1, <2>2, <2>3 DEF IInv, PagesInv, PagesAccounted
    <2>5. RootPage \in parsed
        BY <1>1 DEF Answered
    <2>6. QED
        BY <1>1, <2>1, <2>2, <2>4, <2>5, FoundBeside
<1>2. IInv => FoundOrLost
    BY <1>1 DEF FoundOrLost
<1>3. QED
    BY <1>2, TemporalCacheInvariant, PTL

LEMMA NothingBeyondNothing == ReachableFrom({}) = {}
<1>1. {} \in SUBSET Page /\ Closed({})
    BY DEF Closed, TargetsOf
<1>2. QED
    BY <1>1 DEF ReachableFrom

(* After the root page has been read again, a query finds everything. *)
THEOREM RepairedCacheFindsAll == Spec => []RootReloadRepairs
<1>1. ASSUME IInv, Answered, repaired
      PROVE  FoundIn(ReachableFrom({RootPage}))
    <2>1. PICK S \in SUBSET parsed :
              /\ RootPage \in S
              /\ TargetsOf(S) \subseteq S \cup Offsets(pending_pages) \cup Offsets(inflight)
        BY <1>1 DEF IInv, RepairInv
    <2>2. Offsets(inflight) = {}
        BY <1>1 DEF IInv, CallInv, Answered, Offsets
    <2>3. {} \in SUBSET Page /\ \A p \in {} : Targets(p) \subseteq {}
        OBVIOUS
    <2>4. TargetsOf(S) \subseteq S \cup {} \cup Offsets(pending_pages)
        BY <2>1, <2>2
    <2>5. FoundIn(ReachableFrom({RootPage}) \ {})
        BY <1>1, <2>1, <2>3, <2>4, FoundBeside
    <2>6. ReachableFrom({RootPage}) \ {} = ReachableFrom({RootPage})
        OBVIOUS
    <2>7. QED
        BY <2>5, <2>6
<1>2. IInv => RootReloadRepairs
    BY <1>1 DEF RootReloadRepairs
<1>3. QED
    BY <1>2, TemporalCacheInvariant, PTL

(* The doc of query is right as long as no batch has been lost, and again   *)
(* from a load_root_page that succeeds until the next batch is lost         *)
(* (temporal_cache.rs:184-195).                                             *)
THEOREM QueryIsCompleteUnlessLost == Spec => [](lost = {} \/ repaired => QueryIsComplete)
<1>1. ASSUME FoundOrLost, RootReloadRepairs, lost = {} \/ repaired
      PROVE  QueryIsComplete
    <2> SUFFICES ASSUME Answered
                 PROVE  FoundIn(ReachableFrom({RootPage}))
        BY DEF QueryIsComplete
    <2>1. CASE lost = {}
        <3>1. ReachableFrom({RootPage}) \ ReachableFrom(lost) = ReachableFrom({RootPage})
            BY <2>1, NothingBeyondNothing
        <3>2. QED
            BY <1>1, <3>1 DEF FoundOrLost
    <2>2. CASE repaired
        BY <1>1, <2>2 DEF RootReloadRepairs
    <2>3. QED
        BY <1>1, <2>1, <2>2
<1>2. QED
    BY <1>1, QueryFindsWhatIsNotLost, RepairedCacheFindsAll, PTL

(* A query for a window takes only pages that overlap it out of the list.  *)
LEMMA WindowStep ==
    ASSUME IInv, [Next]_vars, pc # "idle",
           call.op \in {"load_pages_for_time_range", "query"},
           NEW r \in pending_pages, ~Overlaps(r.span, call.window)
    PROVE  r \in pending_pages'
<1>1. pc \in {"loop", "read"} /\ call.op # "from_reader"
    BY DEF IInv, TypeOK, CallInv, HeaderOps
<1>2. CASE Calls
    BY <1>2 DEF Calls, LoadHeader, FromReader, LoadRootPage, LoadAllPages,
       LoadPagesForTimeRange, Query, Start
<1>3. CASE EvlrRead \/ NoIndex \/ HeaderRead \/ HeaderInvalid
    BY <1>1, <1>3 DEF EvlrRead, NoIndex, HeaderRead, HeaderInvalid
<1>4. CASE TakeBatch
    BY <1>4 DEF TakeBatch, Matching, Selected
<1>5. CASE Return
    BY <1>5 DEF Return, cache
<1>6. CASE PagesRead \/ PageCut
    BY <1>1, <1>6 DEF PagesRead, PageCut, Parse
<1>7. CASE ReadFails \/ Cancel
    BY <1>1, <1>7 DEF ReadFails, Cancel, Abandon, cache
<1>8. CASE UNCHANGED vars
    BY <1>8 DEF vars, cache
<1>9. QED
    BY <1>2, <1>3, <1>4, <1>5, <1>6, <1>7, <1>8 DEF Next, Progress

(* The pages outside of the window a call is for stay pending, for as long *)
(* as the call runs and however it ends (temporal_cache.rs:143-155).       *)
THEOREM OthersArePending == Spec => OthersStayPending
<1> DEFINE Kept == (pc # "idle" /\ call.op \in {"load_pages_for_time_range", "query"}) =>
                       \A r \in pending_pages :
                           ~Overlaps(r.span, call.window) => r \in pending_pages'
<1>1. IInv /\ [Next]_vars => [Kept]_vars
    BY WindowStep
<1>2. QED
    BY <1>1, TemporalCacheInvariant, PTL DEF Spec, OthersStayPending

(* The first index is the one the sequential parser takes. *)
LEMMA SequentialTakesFirst ==
    ASSUME TypeOK, NEW stride, FirstHas(stride)
    PROVE  /\ Indices # {}
           /\ TheIndex.version = 1
           /\ TheIndex.stride = stride
           /\ stride \in Nat /\ stride >= 1
           /\ TheIndex.node_count \in Nat
<1> DEFINE least(i) == \A j \in Indices : i <= j
           first == CHOOSE i \in Indices : least(i)
<1>1. DOMAIN evlrs = 1 .. Len(evlrs) /\ Len(evlrs) \in Nat
    BY FileAssumption DEF IndexFile, TypeOK
<1>2. PICK i \in 1 .. Len(evlrs) :
          /\ evlrs[i].temporal /\ evlrs[i].version = 1
          /\ stride = evlrs[i].stride /\ stride > 0
          /\ \A j \in 1 .. i - 1 : ~evlrs[j].temporal
    BY DEF FirstHas
<1>3. i \in Indices /\ least(i)
    <2>1. ASSUME NEW j \in Indices PROVE i <= j
        <3>1. j \in 1 .. Len(evlrs) /\ evlrs[j].temporal
            BY <1>1, <2>1 DEF Indices
        <3>2. ~(j \in 1 .. i - 1)
            BY <1>2, <3>1
        <3>3. QED
            BY <1>1, <3>1, <3>2
    <2>2. i \in Indices
        BY <1>1, <1>2 DEF Indices
    <2>3. QED
        BY <2>1, <2>2
<1>4. first \in Indices /\ least(first)
    BY <1>3
<1>5. first <= i /\ i <= first
    BY <1>3, <1>4
<1>6. first \in Nat
    BY <1>1, <1>4 DEF Indices
<1>7. first = i
    BY <1>5, <1>6
<1>8. TheIndex = evlrs[i]
    BY <1>7 DEF TheIndex
<1>9. stride \in Nat /\ evlrs[i].node_count \in Nat
    BY <1>2, EvlrTypes
<1>10. QED
    BY <1>2, <1>3, <1>8, <1>9

(* What the sequential parser may return when there is an index it can use. *)
LEMMA SequentialOutcomes ==
    ASSUME TypeOK, NEW stride, FirstHas(stride)
    PROVE  /\ TheIndex.node_count > Cardinality(AllNodes) => from_evlrs = {Failed}
           /\ ~(TheIndex.node_count > Cardinality(AllNodes)) =>
                 from_evlrs = { Parsed(stride, nodes) :
                                  nodes \in { S \in SUBSET AllNodes :
                                                Cardinality(S) = TheIndex.node_count } }
<1>1. Indices # {} /\ TheIndex.stride = stride
    BY SequentialTakesFirst
<1>2. ~(TheIndex.version # 1 \/ TheIndex.stride < 1)
    BY SequentialTakesFirst
<1>3. QED
    BY <1>1, <1>2, Zenon DEF from_evlrs

(* When the header counts the nodes there are, the only subset of the nodes *)
(* with that count is all of them.                                          *)
LEMMA RightCount ==
    ASSUME NEW S \in SUBSET AllNodes, Cardinality(S) = Cardinality(AllNodes)
    PROVE  S = AllNodes
BY FS_Subset, FileAssumption DEF IndexFile

(* The cache agrees with the parser that scans the index in one pass, on    *)
(* every file of whole pages: the nodes it has once all is loaded are those *)
(* the parser may return, and the parser fails exactly if the header counts *)
(* more than there are (temporal_index.rs:107-177).                         *)
THEOREM CacheIsAsSequential == Spec => []SameAsSequential
<1> DEFINE count == TheIndex.node_count
<1>1. ASSUME IInv, header # NoHeader
      PROVE  TypeOK /\ FirstHas(header.stride) /\ count \in Nat
    BY <1>1, SequentialTakesFirst DEF IInv, HeaderInv
<1>2. ASSUME IInv, pc = "idle", call.op \in HeaderOps, outcome = "absent"
      PROVE  from_evlrs = {Absent}
    <2>1. \A i \in 1 .. Len(evlrs) : ~evlrs[i].temporal
        BY <1>2 DEF IInv, HeaderInv
    <2>2. DOMAIN evlrs = 1 .. Len(evlrs)
        BY <1>2, FileAssumption DEF IndexFile, IInv, TypeOK
    <2>3. Indices = {}
        BY <2>1, <2>2 DEF Indices
    <2>4. QED
        BY <2>3 DEF from_evlrs
<1>3. ASSUME IInv, pc = "idle", outcome = "ok", call.op = "load_all_pages",
             RootPage \in parsed, lost = {}
      PROVE  header # NoHeader /\ entries = AllNodes
    <2>1. header # NoHeader
        BY <1>3 DEF IInv, LoadedInv
    <2>2. Offsets(inflight) = {} /\ Offsets(pending_pages) = {}
        <3>1. Matching = {}
            BY <1>3 DEF IInv, LoopInv, LoopOps
        <3>2. pending_pages = {}
            BY <1>3, <3>1 DEF Matching, Selected
        <3>3. inflight = {}
            BY <1>3 DEF IInv, CallInv
        <3>4. QED
            BY <3>2, <3>3 DEF Offsets
    <2>3. Closed(parsed)
        BY <1>3, <2>2 DEF IInv, PagesInv, PagesAccounted, Closed
    <2>4. parsed \in SUBSET Page /\ {RootPage} \subseteq parsed
        BY <1>3 DEF IInv, TypeOK
    <2>5. Page \subseteq parsed
        BY <2>3, <2>4, ReachableLeast, TreeAssumption
    <2>6. AllNodes \subseteq entries
        BY <1>3, <2>5 DEF IInv, PagesInv, PagesAccounted, AllNodes
    <2>7. entries \subseteq AllNodes
        BY <1>3 DEF IInv, PagesInv, AllNodes
    <2>8. QED
        BY <2>1, <2>6, <2>7
<1>4. ASSUME IInv, header # NoHeader, NEW o \in from_evlrs
      PROVE  o = Failed \/ o = Parsed(header.stride, o.entries)
    <2>1. CASE count > Cardinality(AllNodes)
        BY <1>1, <1>4, <2>1, SequentialOutcomes
    <2>2. CASE ~(count > Cardinality(AllNodes))
        <3>1. PICK nodes : o = Parsed(header.stride, nodes)
            BY <1>1, <1>4, <2>2, SequentialOutcomes
        <3>2. o.entries = nodes
            BY <3>1 DEF Parsed
        <3>3. QED
            BY <3>1, <3>2
    <2>3. QED
        BY <2>1, <2>2
<1>5. ASSUME IInv, header # NoHeader, entries = AllNodes
      PROVE  /\ count > Cardinality(entries) <=> from_evlrs = {Failed}
             /\ count = Cardinality(entries) => from_evlrs = {Parsed(header.stride, entries)}
             /\ count < Cardinality(entries) => \A o \in from_evlrs : o.entries \subseteq entries
    <2> DEFINE Subsets == { S \in SUBSET AllNodes : Cardinality(S) = count }
    <2>1. Cardinality(entries) \in Nat /\ count \in Nat
        BY <1>1, <1>5, FS_CardinalityType, FileAssumption DEF IndexFile
    <2>2. CASE count > Cardinality(entries)
        BY <1>1, <1>5, <2>1, <2>2, SequentialOutcomes
    <2>3. CASE ~(count > Cardinality(entries))
        <3>1. from_evlrs = { Parsed(header.stride, nodes) : nodes \in Subsets }
            BY <1>1, <1>5, <2>3, SequentialOutcomes
        <3>2. Failed \notin from_evlrs
            <4>1. \A nodes : Parsed(header.stride, nodes) # Failed
                BY DEF Parsed, Failed
            <4>2. QED
                BY <3>1, <4>1
        <3>3. ASSUME count = Cardinality(entries)
              PROVE  from_evlrs = {Parsed(header.stride, entries)}
            <4>1. Subsets = {entries}
                BY <1>5, <3>3, RightCount
            <4>2. QED
                BY <3>1, <4>1
        <3>4. \A o \in from_evlrs : o.entries \subseteq entries
            <4>1. \A nodes : Parsed(header.stride, nodes).entries = nodes
                BY DEF Parsed
            <4>2. \A nodes \in Subsets : nodes \subseteq entries
                BY <1>5
            <4> HIDE DEF Subsets
            <4>3. QED
                BY <3>1, <4>1, <4>2
        <3>5. QED
            BY <2>3, <3>2, <3>3, <3>4
    <2>4. QED
        BY <2>2, <2>3
<1>6. IInv => SameAsSequential
    <2> SUFFICES ASSUME IInv, pc = "idle" PROVE SameAsSequential
        BY DEF SameAsSequential
    <2>1. (call.op \in HeaderOps /\ outcome = "absent") => from_evlrs = {Absent}
        BY <1>2
    <2>2. header # NoHeader =>
              \A o \in from_evlrs : o = Failed \/ o = Parsed(header.stride, o.entries)
        BY <1>4
    <2>3. (call.op = "load_all_pages" /\ outcome = "ok" /\ RootPage \in parsed /\ lost = {}) =>
              /\ count > Cardinality(entries) <=> from_evlrs = {Failed}
              /\ count = Cardinality(entries) => from_evlrs = {Parsed(header.stride, entries)}
              /\ count < Cardinality(entries) =>
                    \A o \in from_evlrs : o.entries \subseteq entries
        BY <1>3, <1>5
    <2>4. QED
        BY <2>1, <2>2, <2>3, Zenon DEF SameAsSequential, HeaderOps
<1>7. QED
    BY <1>6, TemporalCacheInvariant, PTL
=============================================================================
