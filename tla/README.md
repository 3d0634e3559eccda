# MiniDB: a TLA+ model of the storage engine and the statements above it

MiniDB (`src/`) is a single-threaded SQL engine in C: one table, rows in slotted
heap pages, a B+ tree on the automatic `id`, both in one file behind a page
cache. There are no threads and no network. What makes it hard is *sequence*:
long runs of legal calls move pages between tree, heap and free list, frames are
replaced while pointers into them are held, nothing is logged, and a process
that dies leaves whatever the write-backs have put into the file.

## 1. Inventory

| Part | State | Operations | Talks to |
|---|---|---|---|
| Page format (`page_format.h`) | page and header layouts | none | everything |
| Pager (`pager.c`) | 256 frames with page id, dirty flag, pin count, tick; in-memory header; cached heap tail; the file | open, close, get, mark dirty, unpin, alloc, free, flush | file; called by all below |
| B+ tree (`bptree.c`) | node pages, `root_index_page_id` | search, insert, delete | pager |
| Heap (`table.c`) | heap pages, the chain, free slots | insert, fetch, delete, scan with callback | pager |
| Schema (`schema.c`) | column metadata in the header | layout, serialise, deserialise | none |
| Executor (`executor.c`) | `next_id`, `row_count`, `column_count` in the header | CREATE, INSERT, SELECT, DELETE, EXPLAIN | heap, tree, schema, planner |
| Planner (`planner.c`) | none | statement to access path | none |
| Parser (`parser.c`) | none | text to `statement_t` | none |
| Command loop (`main.c`) | the open pager | statements, `.flush`, `.exit`, printing commands | parser, executor, pager |
| Data generator (`tools/gen_data.c`) | none | writes SQL text | none |

What is hard in each part, and what makes it correct:

* **Pager.** Eviction and the watermark flush happen inside calls of callers that
  hold other pages. Correct means: one frame per page, nothing dropped unwritten,
  pins kept, always a frame for the next page, no page allocated twice or lost,
  the cached heap tail right after any reopen, the file always made of whole
  page versions.
* **B+ tree.** Splits climb by parent pointers, deletes borrow and merge by child
  positions, internal nodes are never rebalanced. Correct means: search finds
  what the leaves hold, leaves are sorted, linked and equally deep, parent
  pointers and page accounting are exact, every call returns.
* **Heap.** Deleted slots form a chain inside each page; the tail is cached; free
  space is computed in 16 bits. Correct means: no two rows share bytes, a free
  slot is reused once, the scan sees each live row once, the file grows only when
  it must.
* **Frames in the callers' hands.** Tree, heap, executor and the printing commands
  work through pointers into frames. Correct means: no access through a pointer
  whose frame has been given to another page, every edit marked while the page
  is still pinned, every pin given back on every path.
* **Executor.** INSERT writes two structures and two counters; a scan DELETE
  collects ids first and removes them later. Correct means: both access paths
  give the same rows, the counters are exact, each statement is all or nothing as
  seen through what it has decided to do.
* **Schema, parser, planner.** Rows are bytes at 16-bit offsets; three places
  decide by name what the id is; a condition that is lost on its way turns a
  DELETE of one row into a DELETE of all. Correct means: rows read back as
  written, answers and deletions are those the text asked for, on either path.
* **Crashes.** There is no log. The file of a dead process is page by page the
  last flush or something newer, its header always that of the last flush.
  Correct can only mean: what was flushed and not deleted since is still there.

`PROJECT.json` lists every hazard at its line with the properties that watch it.

## 2. Modules

```
PageNumbers ── Pages ── PageStore                     (abstract page array)
     │            └──── PagerCore ── Pager ── PagerCrash
     │                      └─ FrameUse ── (INSTANCE Pager)     (what a caller may do)
     ├── BPTree ── (INSTANCE Index)                   (abstract dictionary)
     └── HeapCore ── Heap ── (INSTANCE RowStore)      (abstract row store)
BPTree + HeapCore ── Database ── (INSTANCE Table)     (abstract SQL table)
                         └────── Recovery
Schema ── Parser ── Session

LinkedLists        (walks along links; used by Pager, HeapCore and BPTree)
LinkedListProofs ─┬─ PagerProofs                       (Pager, PagerCrash)
                  ├─ SchemaProofs                      (Schema)
                  ├─ HeapCoreProofs ── HeapProofs      (Heap)
                  └─ BPTreeCoreProofs ── BPTreeProofs  (BPTree)
HeapCoreProofs + BPTreeProofs ── DatabaseProofs        (Database, Recovery)
```

The chain of trust from bottom to top: `Pager` shows that the cache is a page
array for any client that keeps its contract; `FrameUse` shows that the C
functions keep it; `BPTree` and `Heap` work on the page array; `Database` puts
them together and shows that index and scan agree; `Session` relies on that
agreement and follows the text of a statement to its answer; `Recovery` lets
the process of `Database` die.

| Module | Models | State | Actions |
|---|---|---|---|
| `PageNumbers`, `Pages` | page ids, page formats, the file `pager_open` creates | | |
| `PagerCore` | each function of `pager.c` as an operator on one record (frames, header, tail, file) | | |
| `Pager` | the pager and a client that stands for heap and tree | `pager`, `phase`, `walk`, and the client's pins, unmarked edits and pages | one per pager call; append a heap page; flush; close; open and one step of its walk |
| `PagerCrash` | `Pager` in a process that may die, also inside `pager_flush_all` | adds `torn`: a crash has lost unflushed work | adds the crashes and opening a torn file |
| `PageStore` | what the pager promises | page array, allocator header | write, alloc, free, append |
| `BPTree` | `bptree.c` over an array of pages | `pages`, `header`, `call` | one per C function and branch; `call` is the C function in progress with its arguments, so recursion needs none |
| `Index` | what the tree promises | a set of pairs; whether a call is in progress | insert, delete, repair (changes nothing) |
| `HeapCore`, `Heap` | `table.c`: slotted pages and chain | `heap` | insert, delete |
| `RowStore` | what the heap promises | a set of referenced rows | store, remove |
| `Database` | `executor.c`: each statement a sequence of heap and tree calls over one shared file | tree + heap + counters + `stmt` | one per call the statement makes |
| `Table` | what the engine promises | rows, next id | insert, delete |
| `FrameUse` | every function of `bptree.c` and `table.c`, and the page accesses of `executor.c` and `main.c`, as the sequence of its pager calls and of its accesses through pointers | `pager`, `todo` (what the function has still to do), `local` (its pointers, as frames), the pins and edits of the client | one per kind of call or access |
| `Schema` | `schema.c`, the column metadata, and the conversions between text and values in `executor.c` | | |
| `Parser` | `parser.c` on words, `planner.c` | | |
| `Session` | the loop of `main.c` and the five statements of `executor.c`, from words to answers | `columns`, `rows` (id and bytes), `next_id`, `status`, `shown`; history: `asked`, `made`, `wrote` | a line entered; a line that lost a word; `.exit`; the next start |
| `Recovery` | `Database` in a process that may die, and the file it leaves | adds `disk`; history: `written`, `flushed`, `stale` | adds write-back of one page, flush, crash, crash inside `flush_all` |
| `MC*` | constants for TLC | | |
| `LinkedLists` | the walks along links that heap, free list and tree share | | |
| `*Proofs` | lemmas and theorems, see section 5 | | |

Operators commented as mutants next to a definition are deliberate defects of it.
They belong to no specification; each shows that some property would notice.

### Abstractions worth knowing

* A page of `Pages` has a type, one link word (the heap chain's and the free
  list's next pointer are the same word of the page) and an opaque body.
  `BPTree` and `HeapCore` give the body its structure, on the page array that
  `PagerImplementsStore` shows the pager to be.
* `used_tick` is kept as a rank: the code only compares ticks.
* In `HeapCore` slots count from 1 so that 0 can be `SLOT_NONE`. Byte offsets and
  16-bit arithmetic are kept; row contents are opaque. `HeapAssumption` demands
  that one row fits an empty page. The code does not check this: CREATE TABLE
  accepts rows larger than a page.
* Behind the `key_count` entries of a node the model keeps nothing. The only code
  that looks there is the merge branch of `fix_leaf_after_delete` for
  `child_idx == 0` when the parent has no entry. What it reads is stale, and the
  shift that follows is bounded by `key_count - 1 = 2^32 - 1`, so it runs over
  unmapped memory: the model's `MergeMissingSibling` ends the process.
* `pwrite` succeeds and is atomic for a page. The code ignores its result.
* `Database` never closes its file, so all its statements see one process;
  `Recovery` adds the restarts.
* In `FrameUse` a function is the order of its accesses; its arguments are fixed
  roles (a parent with three leaves, a heap chain of two pages, the page the
  allocator gives out next). That is enough because the cache treats all pages
  alike, and every start has a different cache. `Functions` lists every path:
  a boolean argument is a branch that touches other pages.
* In `Schema` a byte is a pair that says what was written there: a character, or
  the k-th byte of an integer. Equality of values is then equality of bytes, and
  a byte read at the wrong offset is never mistaken for the right one.
* `Parser` reads words. Quotes, blanks, the case of keywords and the limits on
  lengths are left out. The name of the table is ignored, as the executor does.
* What C leaves undefined ends `Session` in the status `undefined`: more columns or
  values than the arrays hold (`Overrun`, `ColumnsFit`), a row longer than a page,
  `VARCHAR(0)`, a `VARCHAR` longer than `str_val`, sizes that wrap around
  (`Workable`). The program checks none of these.
* `Session` keeps the rows as a set. `StructuresAgree` of `Database` is what
  entitles it to look up an id there. In the runs of `Database` no INSERT is refused,
  since `next_id` only rises; the row a refused INSERT leaves behind is
  the subject of `Recovery` (`IndexedRowsAreLive`, `FlushedRowsStay`).
* `Recovery` writes a page back between two calls of heap or tree, while
  `mark_dirty` does so inside them. A heap call edits a page that is already in use
  once, so no version of such a page is missed; of the tree's pages
  the property `FlushedRowsStay` reads none.
* `Recovery` follows two kinds of file beyond the crash: nothing written back since the
  flush, and a `flush_all` that ended before page 0 with only `next_id` and
  `row_count` changed. From any other mixture a statement would read pages of the
  wrong type through old pointers, and the code has no behaviour worth following.
  Rows that are inserted under old counters are not owed to the user: a refused
  INSERT leaves a second row of an id in the heap, a scan DELETE that matches
  this second row removes the one in the index, and INSERT goes on being refused,
  since `next_id` does not advance, until that id is deleted.

## 3. Runs

| Run | Instance | Shows |
|---|---|---|
| `pager` | 3 pages, 2 frames, high mark 2, low mark 1, 1 page held | refinement of `PageStore`; dirty frames stay below the mark when pins cannot prevent it; opening ends |
| `pager_crash` | as `pager`, 2 pages held, crashes | cache coherence, pins, frames suffice; a page enters the file only as the callers saw it before the step, a flush makes all durable, and only lost unflushed work can make the free list or the cached heap tail wrong |
| `frame_use` | 3 frames, 7 pages, 3 pages pinned at once, 1 pin on each; any cache contents and order | no access through a stale pointer, a frame for every get, pins given back, and every function keeps the contract `Pager` assumes of its client |
| `btree` | 4 keys per leaf, 2 per internal node, keys 1..9, 9 pages, 2 references | structure of the tree after, and order of the leaves during, every call; refinement of `Index`, each call as the step with its own arguments; every call returns |
| `btree_abort` | 2 keys per node, keys 1..6 | *violated*: a delete can kill the process |
| `heap` | 4 pages, one of them the root; 3 rows per page; 2 rows | layout, free slots, scan, reuse, refinement of `RowStore` |
| `database` | 2 keys per node, 11 pages, 2 rows per page, 5 ids, 2 values | heap, index and counters agree; refinement of `Table`; statements end |
| `database_file` | 4 keys per leaf, 16 pages, 1 row per page, 9 ids, 1 value, at most 2 deleted rows | tree, heap and free list share the file |
| `recovery` | 2 keys per node, 6 pages, 1 row per page, 3 ids, 2 values, 1 write-back between flushes | flushed rows stay findable, a flushed file is consistent, the index never leads astray |
| `session` | sizes modulo 64, strings up to 15 characters, 3 columns, 28 bytes per row, 2 ids; 7 tables, 5 inputs, 7 conditions | rows read back, answers and deletions are the ones meant, paths as documented, a lost word does no harm |
| `session_explain` | as `session`, with EXPLAIN EXPLAIN | *violated*: EXPLAIN prints the path exactly |
| `session_columns` | as `session`, a table of 3 columns | *violated*: at most `MAX_COLUMNS` columns |

**Why the bounds are enough.** Two frames for three pages make every access a
possible eviction, with one frame pinned and the other dirty, and two held pages
pin all of them. A high mark of 2 makes every second edit flush. Three pages
hold a heap chain of up to three pages, or a free list of up to two. Three frames
are what the functions need at once (`split_leaf` and `split_internal` hold three
pages), so `frame_use` has no frame to spare and every unpinned frame is replaced
by the next miss; a larger cache only makes stale pointers rarer.

Four keys per leaf are the smallest leaf whose minimum (2) differs from empty and
from full, so that borrowing, merging and refusing to borrow are three different
cases; nine keys make three levels. Keys of different parity carry different
references (`RefsByParity`), so that no entry can be taken for its neighbour. Three
rows per heap page allow free-slot chains of every order, and three heap pages have
a first, a middle and a last.

Five ids in the database make leaf and internal splits, merges and root changes in
both directions. A page goes from the tree to the heap only when merged leaves are
denser than the leaves before: that takes four keys per leaf, seven rows, a delete
and two more inserts, which is what `database_file` is made for; it explores at
most `MaxGone` deleted rows. In `recovery` three ids split the root once, so
that a written-back leaf can be newer than its parent, and one row per page makes
every INSERT grow the heap chain. One row with a second value (`OneOther`) is enough for
the second row of an id, which a refused INSERT leaves, to differ from the first.

In the sessions a string of 3 bytes is shorter than, as long as and longer than the
words put into it, fewer and more words than columns are given, columns lie
before and behind a string, one table has two columns of one name, one has a
column that WHERE takes for the id, and the sizes that wrap around at 65536 wrap
around at 64. Two ids suffice there since no statement relates more than the rows
it takes and the rows it leaves.

`MaxPage`, `MaxKey`, `MaxPins`, `MaxHold`, `SlotsPerPage`, `MaxGone`, `OneOther`,
`RefsByParity`, `MaxId` and `MaxWriteBacks` are bounds of the models; `NumFrames`, the
watermarks, `MaxLeaf`, `MaxInternal`, `PageSize`, `RowSize`, `SizeModulus`, `StrSize`,
`MaxColumns`, `MaxRowSize` and `DefaultSize` are small values of parameters of the
program. `CrashInFlush` happens once in a behaviour of `Recovery`.

**Precondition of the watermark.** `DirtyBelowWatermark` speaks of a mark that is
above the pins a caller holds, as in the program (64 against three or four).
`pager_crash` has no such mark, which is why the property is in `pager`.

**Deadlock** is checked for the pager and the heap. `PagerCrash` stops where a
torn file has been opened. `BPTree` and `Database` stop
when the process has died, and at the bounds on pages and ids; `Recovery`
inherits that. `FrameUse` stops when its function has returned, `Session` where C
leaves the behaviour undefined.

**Fairness.** Weak fairness of `OpenWalk`, of `BPTree!Continue` and of
`Database!Proceed`: each says that a C function that has been called goes on. The
program is single-threaded and none of these functions waits for input, so
nothing else can run instead. No fairness is put on what the user does.

## 4. Findings

* **`btree_abort`** (`bptree.c:865`). Merging leaves takes entries out of internal
  nodes, and nothing puts them back. With two keys per node, six ids
  are enough to leave an internal node with one child and no key. When that
  child underflows, it has no sibling; the code takes its merge branch all the
  same. The comment at `bptree.c:961-965` says an underfull internal node does
  not affect search, insertion or deletion. At the real page size the same
  happens with a tree of three levels (about 60000 ids inserted, then deleted in
  ascending order).
* **`session_explain`** (`planner.c:79`). For EXPLAIN the planner calls itself with a
  statement of which it has set two fields. If the explained statement is an EXPLAIN
  too, it reads two uninitialised fields and prints any path.
* **`session_columns`** (`executor.c:138`). CREATE TABLE adds the id to the user's
  columns without comparing with `MAX_COLUMNS`: 16 columns of the user's make 17, and
  the last is written behind the array in the header.

What else the models show to differ from the documents, without a run of its own:

* Internal nodes fall below half (`fix_internal_after_delete` only returns), against
  the fifth invariant of `docs/03-B+Tree-인덱스-구조.md` (line 323). `LeavesHalfFull`
  speaks of leaves for this reason.
* Dirty pages reach the file by eviction and by the watermark (`pager.c:143`,
  `pager.c:448`), not only at commit and exit as `docs/sql/implementation-spec.md` (lines
  362 and 1192) has it. `WritesWholePages` says what holds instead, and `WriteBack`
  of `Recovery` what it costs after a crash.
* Offsets and `row_size` are 16 bits wide (`schema.c:43`): two long strings wrap them
  around, and `row_size` is not the sum of the sizes (`implementation-spec.md:227`).
  `Workable` excludes such tables from INSERT.
* CREATE TABLE skips a column spelled `id` only (`executor.c:134`), WHERE takes `ID` for
  the id as well: a column `ID INT` is stored and can never be asked for. `Meant` counts
  the condition as one on the id.

## 5. Proofs

Everything below holds for every number of frames and pages, every pair of
watermarks, every page and row size, every fan-out of leaves and inner nodes and every
range of keys, from the named assumptions on the constants only (`FileAssumption`,
`PagesAssumption`, `CacheAssumption`, `ClientAssumption`, `HeapAssumption`,
`TreeAssumption`, `DatabaseAssumption`, which says that a row is an id with values
and that the index can hold the reference of every slot a page has room for, and
`SchemaAssumption`, that the size of a row that fits a page is a 16-bit number).

### The pager

| Theorem | Module | States |
|---|---|---|
| `PagerTypes` | `PagerProofs` | `[]TypeOK` |
| `CacheCoherence` | `PagerProofs` | `[]Coherence` |
| `PinAccounting` | `PagerProofs` | `[]PinsAreTheClients` |
| `FramesSuffice` | `PagerProofs` | `[]GetNeverFails` |
| `PagerImplementsStore` | `PagerProofs` | `ImplementsStore`, the refinement of `PageStore` |
| `WatermarkHolds` | `PagerProofs` | `[]DirtyBelowWatermark` |
| `CrashTypes`, `CrashCoherence`, `CrashPins`, `CrashFrames` | `PagerProofs` | the same four when the process may die |
| `OnlyWholePagesReachTheFile` | `PagerProofs` | `WritesWholePages`: what a step puts into the file is what was seen in that page before it, the appended heap page apart |
| `FlushIsDurable` | `PagerProofs` | `FlushedSurvives` |
| `ListsAreAlwaysSound` | `PagerProofs` | without crashes, free list and heap tail are right |
| `UntornFileIsSound` | `PagerProofs` | `[]UntornIsSound` |

None of the properties is inductive alone. `IInv` of `PagerProofs` joins the types,
one frame per page, clean frames equal to the file, pins equal to the client's,
edited pages held, and what the phases of the process exclude. Types are needed
so that arithmetic on pins means anything; one frame per page so that
`FrameOf` is a function of the page; pins so that a victim is never a page being
edited; that in turn so that writing the victim back and dropping it changes no
`View`. `FramesSuffice` is a counting argument: pinned frames map one to one to
held pages, of which there are fewer than frames.

`WatermarkHolds` adds `BelowMark`: no more than `HighWatermark` frames are dirty
without an edit in progress, which is what every path that marks a page must
restore. `OnlyWholePagesReachTheFile` is an action property; each operator of
`PagerCore` is shown to put into a page of the file only what was seen in that page
before, and only when nobody has it pinned (`WritesBack`). Two steps need a case of their
own: the crash inside `pager_flush_all`, which has written some of the frames, and the
append of a heap page, which one step fills and may already write back.

The lists need more. `Lists` of `PagerProofs` says that the walk from
`free_list_head` visits exactly the pages that are not in use and the walk from
`first_heap_page` ends at the cached tail, both over `View`, the pages as cache and
file together show them. A step changes few words of `View`; the
lemmas of `LinkedListProofs` say what that does to a walk. With crashes the same
holds of the file of the last flush as long as `torn` is false, and reopening
walks that file.

The first part of `PagerProofs` holds the lemmas, one group per operator of `PagerCore`: what
`GetPage`, `MarkDirty`, `Unpin`, `UpdatePage`, `AllocPage`, ... preserve and what
they do to `View`. The step proofs have one step per action and read these off.

### Walks along links

`LinkedListProofs` is about `Walk`, a recursive function. The library's induction
theorems are out of the prover's reach, so a fact about every step of a walk is
proved by a least counterexample: were there a step at which it fails, there would
be a first one, which is not step 0, and the step before leads to a
contradiction. From it follow what a walk visits, that a walk that visits every node
once ends (the list is no longer than there are nodes), and that taking a node off the
head, putting one at the head, appending at the end, or changing links elsewhere changes
the visited set as it should. `Flattening` does the same for `FlattenSeq`: the position
of an element in the joined sequence is determined by its sequence and its place there.

### The heap

| Theorem (`HeapProofs`) | States |
|---|---|
| `HeapTypes` | `[]TypeOK` |
| `DeletedSlotsAreChained` | `[]FreeSlotsAreChained` |
| `RowsStayApart` | `[]RowsDoNotOverlap` |
| `GrowthIsNeeded` | `GrowsOnlyWhenFull` |
| `ScansAreComplete` | `[]ScanIsComplete` |
| `HeapImplementsRowStore` | `ImplementsRowStore`, the refinement of `RowStore` |

`HeapInv` is the conjunction of the types, for every page in the chain the layout of
its rows (slot `i` lies exactly `i` rows below the end of the page, the directory
ends before the last of them, so no 16-bit sum wraps), the chain of free slots
as a linked list over the deleted slots, and the chain of pages as a linked list
over the heap pages that ends at the tail. The layout makes `RowsStayApart` a
matter of arithmetic; the chain of slots says that `heap_insert` reuses a deleted slot and
not a live one, which is what the refinement rests on; the chain of pages says
that a search that has found no room has seen every page. It also says that no page is
walked twice and none left out, so that `heap_scan` sees each live row once.

### The B+ tree

| Theorem (`BPTreeProofs`) | States |
|---|---|
| `TreeIsSound` | `[]IInv`, the inductive invariant below |
| `TypeIsOK` | `[]TypeOK` |
| `SearchesAreExact` | `[]SearchIsExact` |
| `LeavesAreHalfFull` | `[]LeavesHalfFull` |
| `ParentsAreRight` | `[]ParentsMatchChildren`, one half of `TreeIsLinked` |
| `PointersAgree` | `[]TreeIsLinked`: child, parent and sibling pointers |
| `ChainIsSorted` | `[]KeysAscend`, also while a call is under way |
| `PagesAreAccounted` | `[]PagesAccounted` |
| `IndexIsImplemented` | `ImplementsIndex`: the refinement of `Index`, and that each call adds or takes the pair of its own arguments |

`IInv` has six parts.

* `IsTree`: there are three functions on pages, `lo`, `hi` and `ht`, such that a node `p`
  is responsible for the keys from `lo[p]` up to but not including `hi[p]` and lies `ht[p]`
  levels above the leaves. The root has all keys; a child has what its parent has between
  the two separators around its pointer, lies one level lower and points back to the
  parent; entries ascend within the interval of their node. Nothing in a page
  stores `lo` and `hi`: they are why a search that descends by separators ends at the only leaf
  that may hold the key.
* While `insert_into_parent` is pending, the tree lacks one pointer: the node that was
  split and its right half together fill the interval the parent still gives to the
  former, and the separator on its way up is where the right half begins.
* `Linked`: the leaf behind `next` begins where this one ends, and its `prev` points back; the
  leaf that begins at 0 has no `prev`, the one that ends behind the last key no `next`. A
  split puts the new leaf into this list before any parent knows it, a merge takes one
  out, and borrowing moves the limit between two neighbours.
* `Filled`: leaves other than the root hold at least `MinLeaf` entries, the leaf
  that `fix_leaf_after_delete` is called for at most one less, so that one borrowed
  entry is enough. Inner nodes have no lower bound: `fix_internal_after_delete` leaves them as
  they are.
* `Allocated`: pages from `next_page_id` on were never written, the free list is a linked
  list over exactly the pages formatted as free, and no page but the heap's is
  anything else than a node.
* `Sized`, `CallIsSound`: bounds of the arrays, and what the arguments of the call in
  progress are.

The lemmas come in three layers. About sequences: what `InsertAt`, `RemoveAt` and the
two parts of a split do to ascending entries, position by position. About trees
(`BPTreeCoreProofs`): widening, splitting, joining and re-keying intervals, a new
root, one level less; that two nodes of a level share no key; and that the node of a
level that has a given key exists and is what `FindLeaf` reaches. Since the levels above a
leaf have different pages, a tree is lower than the file has pages, so the `MaxPage` steps
that `FindLeaf` is given are always enough. About steps
(`BPTreeProofs`): one lemma per action, which shows that the intervals of the next state
exist, that fill and allocation are kept, and that the set of pairs in the leaves
changes as the abstract step says. `PagesAreAccounted` follows from uniqueness: two
pointers to one page would give one interval two places in its level.

`ChainIsSorted` and `PointersAgree` are about sequences that recursive definitions build. Since
the intervals along `next` rise, the walk from the leftmost leaf ends (`RankedChain`), and
it meets every leaf because the intervals fill the range of keys without a gap
(`RowIsListing`). `LevelsAreListed` shows, from one level to the next, that `Levels` lists each level in
the order of the intervals. A set has one such list (`OneListing`), so the chain is the
bottom level. While a separator is on its way up the levels have a gap but the chain has
none, which is why `ChainIsSorted` needs the chain alone: key 0 still descends to the
leftmost leaf (`LeftmostLeaf`), since every node on the left edge has its parent.

### The engine

| Theorem (`DatabaseProofs`) | States |
|---|---|
| `EngineIsSound` | `[]DbInv`, the inductive invariant below |
| `StructuresDoAgree` | `[]StructuresAgree` |
| `FileStaysShared` | `[]FileIsShared` |
| `TableIsImplemented` | `ImplementsTable`, the refinement of `Table` |

`DbInv` joins three invariants. `HeapInv` is the heap's own. `TreeInv(hp)` is `IInv` of the
tree with a parameter: the set `hp` of pages that belong to the heap, which for the
tree alone is the page of the new file, and here is the range of the heap's chain
(`FileInv`). No step of `bptree.c` touches a page of `hp` or changes its type, so
every lemma about the tree is stated for a fixed `hp`; the one step at which `hp` grows
is a `heap_insert` that takes a page from the allocator, and `HeapGrows` shows that the rest
of the file does not notice. `DataInv` says where a statement is:

* `RowsAreIndexed`: the index holds the ids and references of the live rows, except for the
  row that is stored and not yet indexed, or removed and not yet taken out.
* `RowsAreNumbered`: ids are unique and older than the counter; the row a DELETE
  has just removed was the only one of its id.
* `RowsAreCounted`: `row_count` lags behind by the row in progress.
* `StatementIsSound`: which states of `bptree.c` go with which place in a statement.

Uniqueness of ids is why the entry that `bptree_delete` takes out is that of the row
`heap_delete` removed, and being older than `next_id` is why `bptree_insert` never meets its
key. `FileStaysShared` follows from `FileInv`, `TableIsImplemented` from
the refinements of heap and index put together: a DELETE takes effect when its
ids are collected, an INSERT with its heap row.

### The engine in a process that dies

| Theorem (`DatabaseProofs`) | States |
|---|---|
| `RecoveryIsSound` | `[]RecoveryInv`, the inductive invariant below |
| `FlushedRowsDoStay` | `[]FlushedRowsStay` |
| `FlushedFileDoesAgree` | `[]FlushedFileAgrees` |
| `IndexedRowsDoLive` | `[]IndexedRowsAreLive` |

`RecoveryInv` says what is in memory and what is in the file. Until a crash in
`flush_all` has brought old counters back, memory is `DbInv`. After it the ids are no
longer unique, so `DbInv` is weakened to `SoundNow`: tree, heap and free list are as
sound as before, and every entry of the index still leads to a live row of its id
(`IndexIsLive`), but a row may be missing from the index. `KeptNow` saves what
the user was promised: the ids of the flushed rows are still unique among the live rows and
below the counter, since they were numbered before the flush, and no statement is
about to delete them. So a DELETE that takes the first row of a doubled id
never takes a flushed one that was not asked for, and `bptree_delete` never takes an
entry of a row that stays.

The file is a mixture of page versions, and an invariant that relates every page of it to
the page in memory would be hopeless. `DiskInv` says only what a scan needs. `LinksStay`:
a link of the heap chain in the file is the one in memory, or ends the chain there. `Remains`: some
first part of the chain is in the file, linked and of type HEAP, and each flushed row is on
it, where it is in memory. Both survive whatever page is written back next, because the chain
grows only at its tail and because a row that stays never moves (`RowsStay`, which
each statement step is shown to keep). `FoundRows` reads `FlushedRowsStay` off them: the scan
of the file goes at least that far. Where nothing has been written back since the flush,
`FileIsSound` says that the file is a sound memory, and `WakeUp` that a process that
starts from it satisfies the invariant.

### Rows as bytes

The theorems of `SchemaProofs` are about the operators of `Schema`, for every number of
columns, every size, every word and every id. The columns are what CREATE TABLE stores
(`ColumnMeta`: an INT has 4 bytes, a BIGINT 8).

| Theorem | States |
|---|---|
| `ColumnsStayApart` | if the sizes do not wrap around 16 bits, each column ends where the next starts, or before, and no column ends behind `row_size` |
| `RowsComeBack` | in a layout that is `Workable`, deserialising a serialised row gives each value back, a string cut to the size of its column less one |
| `InsertedRowsComeBack` | the same for the values `exec_insert` makes of the words of a statement, be they fewer or more than the columns |
| `RowsKeepTheirId` | the id that `exec_delete` reads out of a row is the one it was inserted with, and no other |

`RunningSum` shows that the offsets are the sums of the sizes before them, by the finite
induction of `LinkedListProofs` (`EveryRound`). A sum that grows keeps columns apart
(`SumGrows`), so no byte of the row lies in two columns (`SidesMeet`) and byte `k` of a
column is byte `k` of its value or a zero (`BytesInRow`). A string is found
again because no character is a zero and because one byte of its column is left for the zero
that ends it (`StringEnds`): the hypothesis `size > 0` of `Workable` is there for that byte.
`Database` treats the id of a row as a part of the row; `RowsKeepTheirId` is why it may.

### Only model-checked

* Liveness (`OpenEnds`, `CallEnds`, `StatementEnds` and the like) and whatever
  contains ENABLED: outside what the prover handles.
* `FrameUse` and `Session`. The first lists the accesses of each C function for a
  fixed cast of pages, and a theorem about it would be a case split over that list, which
  TLC does. `Session` follows the words of a statement through the parser;
  what it relies on in `Schema` is proved, but that the parser hands `Schema` the
  columns and words that were typed (`RowsReadBack`, `AnswersAreRight`) is checked by TLC.

## 6. Not modelled

* How rows, pages and the tree are printed; `.log`, `.debug`, `.stats` and the
  counters behind them; the history of the prompt. The page accesses of the
  printing commands are in `FrameUse`.
* The text below the level of words: quotes, blanks, the cut of a line at 1023,
  of a value at 255 and of a name at 31 characters.
* What the program does after undefined behaviour.
* Failing system calls: the result of `pwrite` is ignored everywhere, so a write that
  fails is simply a lost page version. Page size detection. A crash while
  `pager_open` writes the three pages of a new file.
* What runs from a torn file other than the two kinds of `Recovery`.
* `tools/gen_data.c`, which writes SQL text, and the tests.
* SELECT and EXPLAIN change nothing and have no action in `Database`; what they answer
  is in `Session`, that both paths lead to the same rows is `StructuresAgree`.

## 7. Plan

Done, in this order: pager, crash, tree, heap, database; proofs about the pager;
frame use of the callers; schema, parser, planner and session; recovery.

Proofs: pager, with crashes, with its lists; heap, with its scan; tree; the engine, also
across crashes; rows as bytes.

Nothing of the plan is open. A next step would be a theorem about `Session` that
joins `InsertedRowsComeBack` to the parser and to `TableIsImplemented`.
