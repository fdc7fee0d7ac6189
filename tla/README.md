# A TLA+ model of copc-streaming and copc-temporal

The repository reads Cloud-Optimized Point Clouds (COPC) over an asynchronous
byte source.  A COPC file is a LAZ file whose points are grouped in the nodes
of an octree; a *hierarchy*, a tree of pages, says where the compressed chunk
of each node is, and an optional *temporal index*, another tree of pages, gives
sampled GPS times of each node.  The readers load only the pages and chunks
that a query needs.

## Inventory

| component | state | operations | interacts with |
|---|---|---|---|
| octree geometry (`copc-streaming/src/types.rs`) | none: keys and boxes | `parent`, `child`, `children`, `bounds`, `intersects` | used by every pruning decision |
| hierarchy cache (`hierarchy.rs`) | `entries`, `pending_pages`, `root_loaded` | `load_root`, `load_pending_pages`, `load_all`, `load_pages_for_bounds`, `load_pages_for_bounds_to_level`, accessors | awaits the byte source; owned by the reader |
| streaming reader (`reader.rs`) | source, header, hierarchy cache | `open`, `load_hierarchy_*`, `visible_keys`, `fetch_chunk(s)`, `query_chunks`, `query_points` | hierarchy cache, byte source, chunks |
| chunks and field masks (`chunk.rs`, `fields.rs`) | decoded bytes and the mask they were decoded with | column accessors, `to_points`, `points_at`, `indices_in_bounds`, `decompress` | laz and las crates |
| temporal cache (`copc-temporal/src/temporal_cache.rs`) | `header`, `entries`, `pending_pages`, `stride` | `from_reader`, `load_header`, `load_root_page`, `load_pages_for_time_range`, `load_all_pages`, `query`, `query_chunks*`, `query_points*` | byte source; joins with the reader's hierarchy |
| temporal entries (`temporal_index.rs`) | samples of a node | `overlaps`, `estimate_point_range` | used by the temporal cache |
| byte sources (`byte_source.rs`, `file_source.rs`) | a buffer; a file behind a mutex | `read_range`, `read_ranges`, `size` | awaited by all of the above |
| header parsing (`header.rs`) | none: a conversion | `parse_header`, `root_bounds`, `level_for_resolution` | done once by `open` |
| errors, GPS time, VLR records, crate façades | none | | |

Nothing runs in parallel inside a cache: its load methods take `&mut self`.
Only the file source is shared by threads that run at once.  What is hard is
mostly elsewhere.  Every load is a future that is suspended at its
reads, where the read may fail and the caller may drop the future; between two
calls the cache is in whatever state the last one left.  What makes each
component correct:

* **geometry**: the box of a node contains the boxes of its subtree, so that
  skipping a page by its key skips nothing that is asked for;
* **hierarchy cache**: every page met is accounted for and fetched once, in any
  order of calls and failures; a load that returns `Ok` has loaded what it is
  about; entries never change; loops end;
* **temporal cache**: the same, with two differences: the root page may be read
  again, and a page may fail to parse when part of it is already in the cache;
* **temporal entries**: a skipped node has no matching point, a candidate range
  is inside the chunk, and it leaves out as few matching points as the sampling
  permits;
* **reader, temporal queries**: the points returned are those of the file in the
  box and the window, chunks are paired with the right keys and ranges, a node
  known to one index and not to the other is handled;
* **chunks**: no accessor returns a column that was not decoded, and none refuses
  one that was;
* **file source**: a read returns the bytes at its own offset whatever the other
  threads do, and no thread waits for ever;
* **header**: a file is opened if and only if its records fit the prefix and parse,
  and the parameters are those of the right records.

`PROJECT.json` lists the hazards at their lines, with the properties that cover
them.

## Modules

| module | models | proofs |
|---|---|---|
| `Octree` | `types.rs` | `HierarchyCacheProofs` |
| `PageLoader` | the abstract specification of an incremental page loader | |
| `HierarchyCache` | `hierarchy.rs`, an extension of `Octree`, an implementation of `PageLoader` | `HierarchyCacheProofs` |
| `Reader` | `reader.rs` and the filters of `chunk.rs` that it uses, an extension of `HierarchyCache` | `ReaderProofs` |
| `TemporalCache` | the page loading of `temporal_cache.rs`, and `from_evlrs` of `temporal_index.rs` as its reference | `TemporalCacheProofs` |
| `TemporalEntry` | `overlaps` and `estimate_point_range` of `temporal_index.rs`, as operators | |
| `PointRange` | queries of one entry, an extension of `TemporalEntry` | `PointRangeProofs` |
| `TemporalQuery` | the `query_*` methods of `temporal_cache.rs`: an extension of `HierarchyCache` and `TemporalEntry` with an instance of `TemporalCache` | `TemporalQueryProofs` |
| `ByteSource` | the abstract specification of a byte source that is shared | |
| `FileSource` | `file_source.rs` and `read_ranges` of `byte_source.rs`, an implementation of `ByteSource` | `FileSourceProofs` |
| `ChunkFields` | `fields.rs`, the accessors of `chunk.rs`, the filters of `copc-temporal/src/lib.rs` | `ChunkFieldsProofs` |
| `Header` | the prefix read by `open`, and `parse_header` of `header.rs` | `HeaderProofs` |
| `MC_*` | the files and constants that TLC checks each one with | |

### HierarchyCache

`entries`, `pending_pages` and `root_loaded` are the fields of the Rust struct.
`call` and `pc` are the future: which method was called with which arguments,
and whether it is awaiting the root page (`root`), at the head of its loop
(`loop`) or awaiting a batch (`read`).  `inflight` is the local variable that
holds the batch, which the code takes out of `pending_pages` *before* it awaits
the read.  `outcome` is what the call returned, or `cancelled`.  Two history
variables, `loaded` and `lost`, name the pages parsed and the pages of batches
that were never parsed.

| action | code |
|---|---|
| `LoadRoot`, `LoadPendingPages`, `LoadAll`, `LoadPagesForBounds`, `LoadPagesForBoundsToLevel` | a method, up to its first await |
| `RootRead` | `load_root` after its await: parse, set `root_loaded` |
| `TakeBatch` | select the pages, remove them from `pending_pages`, start the read |
| `BatchRead` | the read has succeeded: parse every page, return or loop |
| `Return` | no page matches: `Ok` |
| `ReadFails` | the `?` after an await |
| `Cancel` | the future is dropped at an await (a panic in the source unwinds it likewise) |

`parse_page` is `Parse`: pointers go to `pending_pages` with the cast
`byte_size as u64` modelled modulo `U64`, nodes go to the map, other entries
leave no trace.  `EntriesExact` says the same without the definitions of
`Parse` and without `loaded`: it reads the wire records of the pages that are
reached from the root without passing a page pending, in flight or lost, and
compares them with the cache field by field.  Under `FileAssumption` the file is any tree of pages with any
entries, corrupt sizes and counts included, whose subtrees lie in the cells of
their keys; a cycle of pointers is excluded, as no writer produces one (the
code would read it for ever).

`PageLoader` says what this promises, without keys and boxes: pages are
`resolved`, in the `frontier` or `forgotten`; a step resolves or forgets pages
of the frontier; a resolved page adds the pages it names.  That a page of a
failed batch is forgotten for good is part of the promise, because the code
does forget it.

### Reader

`Reader` extends `HierarchyCache`: the `hierarchy` field of the Rust struct is
the state of that module, and every step of the reader is a step of it or leaves
it alone.  `stage` says where the method in progress is: `open` reading the
header or the root page, nothing, the load of a query, or the fetch of chunks.
`ask` and `keys` are its arguments and its local list of keys, `reply`, `chunks`
and `points` what it returned.  `held` are keys that the caller got from
`visible_keys` and may use at any later time.

| action | code |
|---|---|
| `Open`, `HeaderRead`, `HeaderFails`, `Opened` | `open`, cut at its awaits |
| `LoadHierarchy` | the four `load_*` wrappers |
| `CacheProgress`, `CacheCancel` | the cache's own awaits, or the future dropped there |
| `VisibleKeys` | `visible_keys` |
| `Query`, `QueryLoaded`, `Fetched`, `FetchFails` | `query_chunks`, `query_points` and their `_to_level` forms: load, select the keys, fetch and decode, filter |
| `Fetch` | `fetch_chunk`, `fetch_chunks`, `fetch_points` with keys of the caller, known or not |

A chunk is its key; a point is its chunk and its place there.  `PointAssumption`
is what a file promises: points lie in the cell of their node, and a chunk is
empty when the entry says so.  `inside` is the comparison of
`indices_in_bounds`; the property speaks of `InBox`.

### TemporalCache

Built the same way.  `evlrs` and `damaged` are the file: its list of EVLRs, and
which pages end in a record that is cut behind its first 20 bytes.  `scanned` is the position of
`load_header` in the list.  What differs from the hierarchy cache is in the
code: `load_root_page` has no guard against reading the root twice, so a page
can be pending again after it was parsed; `parse_page` returns an error at a
cut record (`PageCut`), when the records before it and the pages before it in
the batch are already in the cache; `from_reader` drops its cache on any error
(`Renew`).  A page that ends *within* the first 20 bytes of a record is no error
in the code: `parse_page` breaks off and returns `Ok`
(`temporal_cache.rs:483-485`), and the records not read are lost in silence.  To
the cache that is a page without those records, and so it is in the model:
`Wire[p]` is what there is up to such an end, and completeness is up to it too.
`pending_pages` is a set although the `Vec` may hold equal copies of
a pointer: every filter takes all copies or none, and parsing a page twice is
the same as parsing it once.  `repaired` is a history variable: the root page
has been parsed, and no batch has been lost since.  An EVLR is its kind and the
version, stride and node count of its header; one whose header is cut counts as
one with a version that is not supported.

`from_evlrs` is what the sequential parser may return for the same file, when its
pages are whole.  It reads the pages one behind the other, whatever the pointers
say; under `FileAssumption` those are the pages of the index.  It stops when it
has as many nodes as the header counts, and fails when the data ends first
(`temporal_index.rs:144-148`); the cache does not look at the count, by
`copc-temporal/docs/temporal-index-spec.md:73` the "Total number of node entries
across all pages".  The
count is not assumed right.  `SameAsSequential` says what that makes of the two:
they agree if it is right, the parser fails where the cache returns `Ok` exactly
if it is too large, and has a part of the nodes if it is too small.

### TemporalQuery

`HierarchyCache` is the hierarchy of an open reader and `T` the temporal cache;
a query takes `&mut` of both.  `stage` is what the query waits for: the load of
the hierarchy, that of the index, or the chunks.  Between two queries the caller
may call any load method of either (`UseReader`, `UseIndex`), so that a query
finds the two in any state their own modules reach, with pages lost in one and
not in the other.

| action | code |
|---|---|
| `OpenReader`, `UseReader`, `UseIndex` | calls of the caller before and between queries |
| `Query` | `query_chunks`, `query_points` (with a box) and their `_by_time` forms, to the first await |
| `HierarchyStep`, `IndexStep`, `HierarchyDrop`, `IndexDrop` | the awaits inside the two loads, or the future dropped there |
| `HierarchyLoaded` | `?`, then the load of the index |
| `IndexLoaded` | `?`, then the join: nodes of the window, in the box, with a hierarchy entry and a candidate range that is not empty, in the order of a `HashMap` (any) |
| `Fetched` | the chunks paired with their ranges by position; a point query walks each range |
| `FetchFails` | `?`, or the future dropped |

The temporal index is a record of its own and need not agree with the chunks:
`Entry[k]` may be the sampling of other points than `Chunk[k]` has, and
properties about what is found speak of nodes for which it is (`Sampled`).
`QueryAssumption` asks of an entry only that its samples are in order, as the
binary search of the code needs and a writer leaves them, and of a chunk that it
has the count of its hierarchy entry and its points in the cell of its node.
Chunks have GPS times, as the point formats of COPC (6 to 8) do; the code skips
one that has none (`temporal_cache.rs:413-416, 464-467`).
`IndexAssumption` says that the index is one `TemporalCache` is about: the
assumption of that module cannot be inherited through an INSTANCE.  `matches` is
any bijection onto the candidates, as the order of a `HashMap` is any.
`promised` is a history variable: the keys that both indexes could still meet
when the query began.

### FileSource and ByteSource

A thread in `read_range` is at the lock, the seek, the allocation or the reads
that fill its buffer; other threads take steps in between.  The file handle has
one cursor, `pos`; `holder` is the set of threads inside the mutex, which the
code keeps to one.  `read_ranges` is a loop of such reads, and another thread may
take the mutex between two of them.  A read brings any number of bytes
(`Portion`) and may fail at any time.  `length as usize` of a length close to
2^64, that of a page pointer with a negative size, panics with "capacity
overflow" while the guard is held: the mutex is poisoned, and the `unwrap` of
every later `lock` panics (`AllocPanics`, `LockPanics`).

`ByteSource` says the same without cursor, mutex and buffer: a batch is answered
in one step, with the bytes of its ranges, an error, or a panic that breaks the
source for all.

### ChunkFields

`file` is what the writer stored of the points of a node, layer by layer, and
`chunk` what the caller has decoded of it: the mask, and a buffer that is zero
where nothing was decoded.  `Decompress` is `fetch_chunk` and
`Chunk::decompress`, `New` the constructor for callers that decode by
themselves.  Every accessor is an operator named as in the code; `question` and
`answer` are the last call of one.  `points_at` is asked with indices that came
from a filter of the same chunk.  The abstraction keeps what the masks are
about, one value per layer and point; the types of columns, scaling and the
order of an iterator are left out.  Values, boxes and windows are integers, which
are only compared.

### Header

One action per await of `open` and per record of `parse_header`.  A record is a
kind and a length; what the las and laz crates accept is a flag of the file.
`Files` are any; `SizeTold` is `size()`, which may not know.

### PointRange

The state is one node: the times of its points in chunk order, non-decreasing
as the index requires (`copc-temporal/docs/temporal-index-spec.md`), and the
samples a writer takes of them: every `stride`-th point, and the last.
`Estimate` is one query of that node with any window and with any point count,
since that comes from the hierarchy, another record of the file.  The result of
the binary search is characterised, not computed: `partition_point` is the
length of the prefix in which the predicate holds.

## Runs

| run | instance | result |
|---|---|---|
| `hierarchy_cache` | six pages in three levels, boxes on a face, in a cell, around everything and outside, level limits from −1 to 2, one node without points, one entry with a negative count and one with a negative size, one pointer with a negative size | passes: types, page accounting, entries exact, completeness up to lost pages, stability, termination, refinement of `PageLoader` |
| `hierarchy_cache_lost` | the same, all sizes valid | **violated**: `FullSubtreeLoaded`, the doc of `load_pages_for_bounds` |
| `hierarchy_cache_negative` | the same, one negative size | **violated**: `NegativeEntriesSkipped`, the comment of `parse_page` |
| `reader` | the file of `hierarchy_cache` with one or two points per node, on faces of cells and of boxes; two boxes, one a single point on a face; with and without a level limit | passes: `open` needs the root page, queries return the chunks and points asked for up to lost pages, every method returns |
| `temporal_cache` | six pages; seven lists of EVLRs (none, unrelated, usable between others, invalid version, invalid stride, and a usable one whose header counts a node too many or too few); no page, the root or a leaf damaged; four windows, one of them empty | passes: header, page accounting, completeness up to lost pages, repair by the root page, agreement with the sequential parser, pruning, termination |
| `temporal_cache_lost` | the same | **violated**: `QueryIsComplete`, the doc of `query` |
| `point_range` | every node of up to 6 points with times 0..3, strides 1..3, every window, every point count | passes: range in the chunk, skipping is sound, misses within one stride |
| `point_range_outside` | the same | **violated**: `OutsideNeverMatches`, the doc of `query_chunks` |
| `temporal_query` | two hierarchy pages and two temporal pages that split three nodes differently, one node with a stale temporal entry, points on a face; a box that is one point on the face, a box around everything; two windows; a usable index or one with stride 0 | passes: only known keys are fetched, none twice; ranges belong to their chunks; chunks and points are complete up to what earlier loads lost and less than a stride; queries return |
| `file_source` | two threads with up to two batches each, of overlapping, empty, too long, unseekable and unallocatable ranges of a file of three bytes | passes: own bytes only, every batch ends, refinement of `ByteSource` |
| `chunk_fields` | point formats 6, 7, 8; files of two points and of none; every mask of four fields with none or all of the others, and every mask that lacks one field | passes: answers are what the file holds; refusals are justified |
| `header` | every sequence of up to three records out of seven, one of which is as long as the prefix permits and one a byte longer; files that end with the records, a byte before or much later, with known and unknown size | passes: opened if and only if everything fits; the verdict is that of the records |

What the violated ones show:

1. *Pages are lost for good* (`hierarchy.rs:89, 143, 181`,
   `temporal_cache.rs:154, 171`).  A batch leaves `pending_pages` before its
   read is awaited; if the read fails, or the future is dropped, no one knows
   the pages any more, and later calls return `Ok` with nodes missing.
   `LoadedOrForgotten` and `FoundOrLost` say exactly how much is missing, and
   `RootReloadRepairs` that the temporal cache, unlike the hierarchy cache, can
   be repaired by `load_root_page`.
2. *A pointer with a negative size is followed* (`hierarchy.rs:250-256`), with a
   size near 2^64; the batch it is in can only fail, and then 1 applies to the
   batch.
3. *Matching points outside the candidate range* (`temporal_index.rs:71-87`).
   Sample `i` is placed at point `i * stride`, also the last sample, which is that
   of the last point.  In the run a node of two points with stride two has its
   second point, the last sample, in the window; the estimate takes it for point
   2, and the range 2..2 is empty.  The other way to miss a point is that it lies
   between two samples.  `MissesWithinOneStride` says how many points that are in
   all: those strictly between two consecutive multiples of the stride.

For three of the four the proofs say when the doc is right: with no lost page
(`SubtreeIsFullUnlessLost`, `QueryIsCompleteUnlessLost`, the latter also after a
repair) and with a stride of one (`NothingMatchesOutsideAtStrideOne`).

**Bounds.**  Six pages give two branches with a page under a page, a page whose
key is a grandchild of the root, and one that no box but the largest reaches;
every filter splits them differently, and with a failure or a cancellation
possible at each read all subsets of pages that calls can separate occur.
Histories are sets of pages, so no counter needs a bound and both caches are
explored to the end.  In `point_range`, six points and strides up to three give
up to four samples, with the last one regular or not, equal times within and
across strides, and products beyond `U32` (set to 7).  `reader` uses two of the
boxes and one level limit of `hierarchy_cache`, since the pages they load have
been varied there; what is new is what happens between a load and a fetch, and
the fetches are of the keys held and of every single key, known or not.
`temporal_query` has few pages because it multiplies the states of two caches,
each of which has been explored on six; two pages each are enough for a node to
be lost in one, the other, both or neither, and its stride, two, has points
between samples.  `file_source` bounds the batches of a thread by `MaxCalls`;
two batches of two ranges put a lock between any two steps of the other thread,
and a batch after the mutex was poisoned.  `header` uses the sizes of the code.

**Fairness.**  `FairSpec` of the caches assumes weak fairness of `Progress`
only: the executor polls a future that is ready, and the source answers each
read with the data or with an error.  Nobody has to call a method or to cancel
one.  Which of the answers comes is not constrained.  `ReaderFairSpec` is the same for
the reader's methods: `Steps` are the steps of a method that was called, the
requests of the caller and the drop of a future are not among them.
`QueryFairSpec` is alike.  `FairSpec` of `FileSource` is weak fairness of each
thread's steps: the operating system runs every thread.  The mutex of std is not
fair, and nothing is assumed of who gets it; a thread waits for the finitely
many reads of the others only because `MaxCalls` bounds them, so `BatchReturns`
shows that nobody waits for a mutex that is never released, not that a thread
cannot be overtaken.

**Deadlock** is checked in every run but two, since a caller can always call
again.  The threads of `file_source` stop after `MaxCalls` batches, and `header`
is one call of `open`.

## Proofs

All for every value of the constants that the assumptions admit, with no
obligation left open.

* `HierarchyCacheProofs`, its first part: the cells of the octree.
  `IntersectsExactly`: `intersects` is true of two boxes exactly when they have
  a point in common.  Nesting of cells is reflexive and transitive, a child is
  nested in its parent, the children of a cell cover it (`ChildrenCover`),
  `parent` undoes `child`, and `PruningSound`: a box that intersects the cell of
  a node intersects that of every ancestor.
* `HierarchyCacheProofs`, its second part: `IInv` is the conjunction of the types, the page
  accounting (`PagesConserved`), `EntriesParsed` (the entries are the nodes of the
  pages parsed), `ParsedFromRoot` (a set of pages that has the root and is closed
  under the pointers of parsed pages has all of these), `PointersAgree`
  (each pointer kept was read in a parsed page), `CallInv` (what the place of a
  call says of it: the batch is made of pages it selects, the root is read once)
  and `NothingWantedLeft` (a call that returned `Ok` left no page that it was
  about pending).  `PagesConserved` alone is not inductive: that a page is not
  fetched twice needs that each page is the target of one pointer
  (`FileAssumption`), and that pending pointers come from parsed pages.
  `EntriesAreExact`, on what can be told from the file and the pages not read,
  follows by two closures: no pointer leads from a page that is not parsed to one
  that is (`UnparsedIsClosed`), so nothing parsed is beyond a page not read; and
  the parsed pages, with all that is beyond those not read, are closed under
  pointers, so they cover everything reachable.
  From it: `TypeCorrect`, `PagesAreConserved`,
  `EntriesAreExact`, `EntriesAreStable`, `OnlyWantedPagesRead`,
  `RefinesPageLoader`, and `QueriesAreComplete`.  The last one goes: when a call
  has returned `Ok`, the set of pages that are parsed, or beyond a lost page, or
  in a cell the call is not about, contains the root and is closed under
  pointers; so it contains all reachable pages.  The closure step uses
  `PruningSound` and that levels grow downwards.  With no page lost this is the
  doc that a run refutes (`SubtreeIsFullUnlessLost`).
* `ReaderProofs`: `UsesTheCache` shows that the reader drives its cache by a
  legal sequence of calls (`ReaderSpec => Spec`), so that `IInv` and the theorems
  above hold inside it.  `RInv` adds what `open` has done at each stage, that
  kept keys are keys of entries, that the load of a query is the one for what was
  asked, and that the keys and then the chunks are those asked for; it is
  inductive because entries and lost pages only grow.  From it:
  `ReaderTypeCorrect`, `OpenReadsTheRoot`, `QueriesReturnTheirChunks` (by `LoadedOrForgotten` at the moment the load
  returns) and `QueriesReturnTheirPoints` (a point in the box is in a cell that
  meets the box, so its node was asked for).  `QueriesFilterTheFile` is the same
  as an equality: while no page is lost, a point query returns the points of the
  file in its box and levels.
* `PointRangeProofs`: a binary search ends where the prefix does
  (`PartitionPoint`, from the well-foundedness of the naturals), all samples but
  the last are at multiples of the stride, so a matching point lies between the
  multiples next to the window (`WindowBetweenSamples`).  The lemmas are stated
  of any entry, window and count and of no variable (`EstimateInChunk`,
  `EstimateMisses`), so that `TemporalQueryProofs` uses them of every node of the
  join.  The invariant ties the entry to the node and the range to the last
  window.  From both: `RangesAreInTheirChunk`, `SkippingIsSound`,
  `EstimateIsOffByLessThanAStride` and, since no multiple of the stride lies
  between two consecutive ones, `SampledPointsAreInRange` and
  `NothingMatchesOutsideAtStrideOne`.
* `TemporalCacheProofs`: `IInv` is the conjunction of the types, `CallInv` and
  `ScanInv` (what the place of a call says of its batch and of the EVLRs behind
  it), `HeaderInv` (the header is that of the first index), `LoadedInv` (nothing
  is loaded before the header), `PagesInv` (`PagesAccounted`, and that every
  pointer and node kept comes from a page), `LoopInv` (a load that returned `Ok`
  left no page it selects) and `RepairInv`.  The last one replaces the history
  variable `repaired` by what it stands for: some of the parsed pages, the root
  among them, point only to each other, to pending pages and to the batch; a
  root read again starts such a set anew, with the root alone.
  `PagesAccounted` by itself is not inductive: that a failed batch is not
  pending as well needs that equal offsets are equal pointers
  (`FileAssumption`).  From it: `TypeCorrect`,
  `PagesAreAccounted`, `HeaderIsOfFirstIndex`, and, by one lemma
  (`FoundBeside`), `QueryFindsWhatIsNotLost` and `RepairedCacheFindsAll`, which
  together give `QueryIsCompleteUnlessLost`: a set
  of parsed pages whose pointers stay within it, within the lost part or are
  pending, together with the pages outside of the window, is closed under
  pointers, so it contains all reachable pages.  `CacheIsAsSequential` needs
  that every page of the file is reachable (`TreeAssumption`), since the
  sequential parser does not follow pointers; that it has all nodes when the header
  counts them right is a fact on finite sets, a part with as many members as the
  whole.  `OthersArePending` is an action
  property: what a load for a window does with the pages outside of it, at any
  of its steps.
* `TemporalQueryProofs`: `UsesTheHierarchy` and `UsesTheIndex` show that whatever
  the caller does both caches take steps of their own specifications
  (`QuerySpec => Spec`, `QuerySpec => T!Spec`); the second needs the small
  invariant `AskedInv`, since the window of the load is that of the query.  So
  the invariants of the two caches, and `LoadedOrForgotten` and `FoundOrLost`,
  hold inside a query; the theorems of `TemporalCacheProofs` come through an
  instance of that module, whose assumptions are proved of the index.  `QInv` adds
  which load each stage waits for and that the two have returned `Ok` when the
  chunks are fetched (`StageInv`), that `matches` is an order of the join
  (`MatchesInv`), and why a key promised at the start is still there at the end
  (`PromiseInv`): during the query a key can only be given up by a batch that
  fails, and then the query fails with it.  None of the properties is inductive
  without these.  At the fetch, a point in the box lies in a cell that meets the
  box (`PointInCell`), so the hierarchy has its node; a point at a multiple of
  the stride in the window is a sample, so the index has it, and its range has
  every such point and all others up to those between two multiples
  (`RangeMisses`); so the node is in the join (`CandidateFound`) with a range that
  is not empty.  From it: `QueryTypeCorrect`, `FetchesAreSafe`,
  `RangesAreOfTheirChunks`, `ChunksAreFound`, `PointsAreFound`, and
  `PointsAreExactAtStrideOne`.
* `ChunkFieldsProofs`: for any formats, masks, files and questions.  The
  invariant is that the chunk has the values of the file in every layer that its
  mask names (`Faithful`) and that the last answer is right and was not refused
  needlessly; `points_at` is asked with the indices of the answer before, so
  that one answer carries to the next.  From it: `NeverTheZeros`,
  `NoNeedlessRefusal`.
* `HeaderProofs`: for any files, with any number of records.  The invariant puts
  the cursor at the end of the last record parsed, every record parsed in the
  prefix, and at the two places kept the last record of each kind so far.  Where
  records end is a recursive function; that it exists for every file is proved by
  a least counterexample (`EndsExist`), in place of the induction theorem that
  the provers cannot instantiate.  From it: `OpenedExactlyIfItFits`,
  `NoRecordMissedByThePrefix`.
* `FileSourceProofs`: for any number of threads, any batches and any file.
  `IInv` says that the mutex has one holder, that nobody is in a poisoned one,
  and of each thread that it is in the mutex exactly when it touches the cursor,
  that the cursor and the buffer are then its own, and that the buffers kept are
  those of the ranges asked for so far.  From it: `TypeCorrect`,
  `CursorIsOfTheHolder` and `RefinesByteSource`, a refinement in which only the
  step that answers, fails or panics is a step of `ByteSource`.

Only model-checked: the liveness properties `CallReturns` (of both caches),
`MethodReturns`, `QueryReturns` and `BatchReturns`, which are out of the prover's
reach.  Every other property of a passing run is a theorem.

## Not modelled, and why

* The decoding of the LAS header, the LAZ decompression and the conversion of
  points: conversions done by the las and laz crates.  `Chunk::cloud` hands out
  the buffer and is documented to bypass the masks.
* `CopcInfo::level_for_resolution`: a logarithm of floats.
* File offsets of EVLRs and of chunks: data no property here looks at; their
  overflow hazards are listed in `PROJECT.json`.
* f64 arithmetic: coordinates are integers in a unit that makes the halving of
  cells exact; times are only compared.  NaN is excluded.
* Sources that return fewer results than ranges: the ones of the repository do
  not.
* Accessors that read a field, error types, `GpsTime`, `VlrData`: no behaviour of
  their own.

## Plan

1. (done) The modules, runs and proofs above.
2. (done) A theorem for every property of a passing run that is not liveness.
3. What could still be stated and proved: an abstract specification of the
   temporal cache, whose pages may become pending again when the root is read
   twice, and a reader of `TemporalQuery` that uses `Reader` in place of
   `HierarchyCache`.
