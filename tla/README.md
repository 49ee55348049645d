# Verification of MQSSD_Model

The repository measures how storage data structures behave on SSDs. It holds a
disk-resident B+ tree, a Bloom filter on persistent memory, a raw I/O micro
benchmark, the drivers of the RocksDB experiments, a copy of RocksDB 8.6.7 with
a changed universal compaction picker, and the scripts that generate workloads
and turn block traces into figures. This directory holds TLA+ models of that
code, the TLC configurations that check them and TLAPS proofs about them.

`PROJECT.json` records, per definition, the source lines it models, and lists
the runs, the theorems, the hazards and the findings.

## Inventory

| Part | Code | State and operations | Module |
|---|---|---|---|
| B+ tree | `bplustree/lib/bplustree.c` | nodes in blocks of a file, parent and sibling offsets; put, delete, get, range | `BPlusTree` |
| its contract | `bplustree/tests/bplustree_coverage.c` | the set of keys the test keeps as oracle | `KeyValueMap` |
| node search | `key_binary_search` | low, high | `KeySearch` |
| node buffers | `cache_refer`, `node_fetch`, `node_flush`, ... | the five `used` flags and who holds which buffer | `BPlusCache` |
| boot file | `bplus_tree_init`, `bplus_tree_deinit` | root, sizes and free list as hexadecimal words | `BPlusBoot` |
| trace parsers | `micro_benchmarks/parse_trace.py`, `rocksdb_exp/parse_log.py` | outstanding I/Os per stream | `TraceParser` |
| micro benchmark | `micro_benchmarks/micro_bench.c` | offsets, workers, join | `MicroBench` |
| workload generator | `workload_gen.cc` | keys shared out over threads | `WorkloadGen` |
| Bloom filter | `filter_exps/bf.hpp` | bit array; insert, query | `BloomFilter` |
| universal compaction | `db/compaction/compaction_picker_universal.cc` | sorted runs; which of them to merge | `UniversalPicker` |
| experiment driver and background work | `mqssd/*.cc`, `db/db_impl/db_impl_compaction_flush.cc`, `db/column_family.cc` | load, write stall, job queues, flush and compaction threads, the wait for compactions | `BackgroundWork` |
| flushes | `db/memtable_list.cc`, `db/db_impl/*`, `db/error_handler.cc`, `db/version_set.cc` | immutable memtables, their files, commits, deletion of files, recovery from errors | `MemTableList`, `FlushJobs` |
| superversions | `db/column_family.cc`, `util/thread_local.cc` | reference counts, thread-local copies | `SuperVersion` |
| not modelled | MurmurHash3, plotting, shell drivers, `bplus_tree_dump`, the demo, the rest of RocksDB | | none |

The paths that start with `db`, `util` or `mqssd` are below
`rocksdb_exp/rocksdb-8.6.7`.

How the parts interact. The driver is a client of RocksDB: its puts, its final
flush and its polling meet the flush and compaction threads in the queues of
`DBImpl`, and `BackgroundWork` is that composition. `FlushJobs` opens up the flush
threads, with the files they write and the failures they meet, and `SuperVersion` what a reader sees while
such steps install new state. The B+ tree, the Bloom filter and the micro
benchmark are programs of their own; the trace parsers only see their I/O.

## The modules

### BPlusTree

`disk` maps the number of a live block (offset divided by `_block_size`) to the
node last flushed there; `root`, `level`, `fileSize` and `freeBlocks` are the
fields of `struct bplus_tree`. Node arrays are sequences; `children` is their
length. `memmove`s on parallel arrays become insertions and removals.

A put is one step for the descent and the work on the leaf, then one step per
call of the recursions that climb to the root: `parent_node_build` with
`non_leaf_insert`, and `non_leaf_remove`. `frame` holds the arguments of the
pending call; the nodes in it are newer than `disk`. No two puts overlap: the
code has no locks and its callers use one thread. The content of a freed block
is dropped from `disk`, so following a dangling offset is an error that TLC
reports.

`key_binary_search` is its closed form, which `KeySearch` justifies, and
`bplus_tree_get` narrows the datum to an `int` as the code does.
`bplus_tree_get_range` is the set of its possible results, because it may read a
slot past the last entry of a leaf, where anything may stand.

### KeyValueMap

The map of the coverage test, with the return values it expects. `BPlusTree`
instantiates it with the pairs found in the leaves (`Map`, `MapSpec`): a put
takes effect in its first step and returns in its last.

### KeySearch and KeySearchProofs

The loop of `key_binary_search`, one action per branch of its body, over sorted
arrays indexed from zero.

### BPlusCache and BPlusCacheProofs

`used` says which C variable holds which of the `MIN_CACHE_NUM` buffers; `pc` is
the point of the put. The contents of nodes are left out: whether a node is
full, the root or above its minimum, which siblings exist and how many children
are rewritten are arbitrary choices. The module therefore allows every path the
code can take for any height and order.

### BPlusBoot

Extends `BPlusTree` with closing and reopening. The boot file is a sequence of
words of hexadecimal digits holding byte offsets; closing overwrites it from the
start without truncating it; opening reads the words back, the free list through
an `int` and in reverse order, and lets the stored block size win. `level` is not
stored and restarts at 0. `BlockSizes` are sizes that `bplus_tree_init` accepts (it
returns `NULL` for others before there is a tree), and the order is the constant
`MaxOrder` for all of them.

### TraceParser and TraceParserProofs

The loop of both scripts over the lines of a block trace. `device` holds the
requests that are really under way; the other variables are the scripts' own. An
issue either starts an I/O or continues the chain that ends where it starts; a
completion may come in any order. The scripts skip lines of kernel workers and of
other events, and so does the module. `Shared` says whether two processes may
have the same sectors under way at once.

### BloomFilter and BloomFilterProofs

The sizes that the constructor derives and the loops of `insert` and `query`, one
action per pass. The hash is an arbitrary function, chosen in `Init`.

### WorkloadGen and MicroBench, with their proofs

The two nested loops that write keys into one file per thread; and `main` with
its worker threads, whose creation does not fail (the code ignores the result of
`pthread_create`). `Init` allows every number of keys and threads, and every file
size with every smaller access size (for others the code's unsigned difference
wraps around or is zero), so these modules are only for the provers. No run uses
them.

### UniversalPicker and BackgroundWork

`UniversalPicker` gives, for a sequence of sorted runs, the compaction that the
changed picker returns: by size amplification, then by size ratio, and no last
resort. `BackgroundWork` runs a load against it. A step is what one thread does
while it holds the database mutex. The client puts keys, may be stopped by the
stall, flushes at the end, and polls as `waitForBGCompactions` does. A
flush thread writes a table, then commits: it fixes a batch of completed memtables
from the oldest on, releases the mutex to write the manifest, applies the batch,
and looks for the next one; only after the last does it install a superversion,
which recomputes the stall and queues compactions. A thread that finishes while
another commits leaves its memtables to it. Compaction threads pick, run and may
fail and try again. `bg` holds the queues and counters, `token` the
stall that was computed when the last superversion was installed, `asleep`
whether the client waits on `bg_cv_`: only the steps that signal in the code wake
it. Puts are numbered; a memtable or run holds an interval of them. The edits of
threads that wait for the manifest may be written and applied together by the
first of them; in the model each thread applies its own.

### MemTableList, FlushJobs and FlushJobsProofs

`MemTableList` has the operations of the list of immutable memtables that change
it, each under the mutex. `FlushJobs` says who calls them: writers that add
memtables, flush threads that pick some, write a table, and commit for
themselves or for others while one of them writes the manifest, and the
recovery thread. Tables, manifest writes and the application of a version edit
may fail; an edit fails to apply in a way that restores the flags of its
memtables, not as a corruption, after which the code leaves them. After a failure the code deletes what no version names and no job
protects (`pending_outputs_`), so the model keeps the files on disk, what each
holds, and the edits that a crash may or may not find in the manifest
(`Leftovers`): a prefix of those written last or, when a new manifest is being made
after a failed write, all of them, once `CURRENT` names it. A failed switch of
`CURRENT` leaves the old one. One
column family, retryable errors only, no listeners,
`min_write_buffer_number_to_merge` 1; writers go on during soft errors. The edits
of a commit are indexed by the position in the list of the first memtable of their
file, which is where the code makes them.

### SuperVersion and SuperVersionProofs

Readers take the copy of their thread, use it and put it back with atomic
operations; an installing thread replaces the superversion, scrapes the copies
and drops the old references. `sv` is what a reader holds, `iterator` what one of
its iterators has pinned. A step is one atomic operation, or a section under the
mutex that nobody else can look into. Threads may exit, in one step: they hold the
mutex of thread-local storage and, as `LastUnrefCleansUp` says, never need the other.

### Operators marked "faulty"

A definition whose comment says `faulty` is a plausible mistake in the operator
defined after it. Replacing the one by the other makes the property that
`PROJECT.json` pairs it with fail: it shows the property depends on that code.

## The runs

| Run | What it asks | Bounds |
|---|---|---|
| `bplus_closure` | every tree reachable with eight keys, in any order and any number of requests | order 4, 4 entries per leaf |
| `bplus_map` | five loads that build trees of height 3, then any three requests: structure, refinement of `KeyValueMap`, every put returns | 14 keys, order 4 |
| `bplus_reopen` | one closing and reopening at any point | 6 keys, block sizes 128 and 256 |
| `bplus_stale_boot` | two reopenings: a violation | 5 keys |
| `bplus_cache` | every path of a put | 5 buffers |
| `key_search` | every sorted node of up to six keys out of seven | |
| `trace_parser` | two processes whose requests touch, overlap and continue each other | 4 requests, 3 addresses, lengths 1 and 2 |
| `bloom` | every assignment of hash values to three keys | sizes 8 and 12, hashes 0, 8 and 23, words of 5 and 7 bits |
| `universal_load` | a load against two flush and two compaction threads, with a failing compaction: safety, and the load ends | 5 puts, fanout 2 |
| `universal_hang` | a load with the driver's options for fanout 16: a violation | 80 puts, fanout 16, one thread of each kind |
| `flush_jobs` | three flush threads with failures of every kind: safety, crashes, and all is flushed | 3 memtables, 2 failures |
| `superversion` | two readers with iterators and thread exits against an installing thread | 3 superversions |

B+ tree. Order and entries are equal in the code, `(block_size - 40) / 12`: 7 for
the smallest block, then 18, 39 and so on. Order 4 keeps every branch (both leaf
splits, the three non-leaf splits, borrow and merge on both sides on both levels,
growing and shrinking the root) with few keys. Order 3 is no order of the code,
and `OrderAssumption` excludes it. An odd order is not run: `Balanced` asks for
`MaxOrder \div 2` children because with one `non_leaf_split_right1` leaves one
child less than the minimum that deletion maintains. Eight keys never split a
non-leaf, so `bplus_map` starts from loaded trees: from either end, thinned out
until non-leaves borrow and merge, and emptied and refilled so that freed blocks
are reused. `IntBits` and `ADDR_STR_WIDTH` are the widths of an `int` and of a
boot word, scaled; `INVALID_OFFSET` is a model value, or in `BPlusBoot` a number
that no block reaches, like 0xdeadbeef in the code.

The others. Four requests suffice for a chain that is continued after its head
completed, next to a second chain. The sizes of `bloom` include one that is
rounded up, and the hashes include the last bit of a file and equal values. In
`universal_load` a memtable holds one put; with five, flushes overtake each other,
a thread commits a second batch for the other one, the write stall sets in, and a
compaction fails and is tried again while another is queued. `universal_hang` has the
triggers of the driver: the state needs nineteen runs. Its `MCSpec` lets the client act only when the background is idle, which
makes the load one of the slow ones and keeps the run short. `flush_jobs` has as
many threads as memtables, so that a thread commits for two others, and the second
failure can hit the recovery from the first. In `superversion` the third
superversion comes while a reader still holds the first.

What they show. The structure of the tree (`OrderedKeys`, `ParentLinks`,
`SiblingLinks`, `Balanced`, `BlocksPartition`), the assertions in the code and
the answers of gets hold in every state reached. `bplus_map` checks the parts of
the structure one by one, and `bplus_closure` all of them as `WellFormed`. The tree implements the map of
its test. Ranges that start at a stored key are right. The plotted count is the
number of chains under way, as long as no two processes share a request. A load
loses and reorders no put, every waiter has a job that will wake it, and with
triggers that leave room for a compaction the load ends. The cached stall is
current and every eligible compaction has a job, except while a flush thread has
applied a batch and writes the manifest for the next one (`BetweenBatches`): then
memtables are gone and runs are new, but no superversion has been installed. Flushes
commit in order whatever order they finish in, no completed one is forgotten, and after failed manifest writes no file is deleted that a crash could
make necessary. `CrashLosesNothing` and `CompletedFilesExist` say this only while
nothing but manifest writes has failed (`OnlyManifestFailed`), and `AllFlushed`
only while nothing has: see Findings. No reader uses a freed or a stale
superversion, none leaks, and the last reference is dropped only where it can be
cleaned up.

Deadlock is checked except in `key_search`, where a search that returned stops,
`flush_jobs`, where the database comes to rest when all is flushed or it stopped
on an error, and `superversion`, where readers may all have exited. `MCBPlusTree`
and `MCBPlusBoot` bound the number of requests and sessions; their `Done` action
is the client that has finished.

Fairness. `BPlusTree` has weak fairness of `Climb`: a call that started keeps
running, as the thread that makes it is scheduled and waits for nobody. Nothing is assumed about the tree's clients. `BackgroundWork`
has weak fairness of the client, a program that runs to its end, and of each
thread: a thread with a job takes its next step once it gets the mutex. Failures
are bounded by `MaxFailures`, not excluded. `FlushJobs` has it for the recovery
and for each flush thread, not for writers. `SuperVersion` has it for the steps
inside a read and inside an installation; nobody has to begin either.

## Findings

With a run:

* Two reopenings can lose data. `bplus_tree_deinit` does not truncate the boot
  file, so words of an older, longer free list survive and are loaded as free
  blocks although the tree uses them; the next split writes over a live node.
  Insert and delete a key, close; open, insert it, close; open: block 0 is both
  the root and free. (`bplus_stale_boot`)
* The hang that `rocksdb.sh` notes ("experiment hangs for fan == 16 and large N,
  not sure why"). With the last resort of the picker commented out, nineteen runs,
  four of sixteen memtables and fifteen of one, are eligible for no compaction.
  The final flush of the driver would make the twentieth, which is the slowdown
  trigger, so it waits for background work that does not exist.
  (`universal_hang`)

Met while modelling, with how to see it:

* A free offset of 2^31 bytes and more is changed when the boot file is loaded
  through `int i` (`bplustree.c:1101`): `OpenBlocksPartition` with `IntBits = 9`.
* A range whose lower end lies after the last key of its leaf starts at the wrong
  entry of the next leaf (`bplustree.c:985`): `RangeFindsLast` in `bplus_closure`.
* `bplus_tree_get` returns a `long` that passed through an `int`
  (`bplustree.c:224`): `GetFindsStored` with a datum of `2^IntBits` or more.
* Two processes with the same sectors under way share an entry of `reqs`, and the
  count drifts (`parse_trace.py:112`): `CountIsOutstanding` with `Shared = TRUE`.
* A Bloom filter of more than `UINT32_MAX - 7` bits has a last, incomplete byte
  that the file lacks (`bf.hpp:40`): `InsideFile` with one key, the size 40 and
  the hash 30 (`W32 = 32`).
* `waitForBGCompactions` may return while a compaction is scheduled, because it
  reads running jobs only (`mqssd_util.cc:108`): `SettledWhenDone` in
  `universal_load`.
* Runs are not always powers of the fanout, as the comment at `mqssd.cc:279`
  expects: when flushes lag, two memtables go into one run.
* A `pread` or `pwrite` that returns -1 is not reported, since the comparison with
  a `size_t` makes it a large number (`micro_bench.c:49`).
* When the commit of a batch fails because of a table or a version edit, the full
  scan that follows may delete the file of a flush that completed meanwhile
  (`memtable_list.cc:773`); the rollback of a failed flush looks for younger ones
  behind its oldest memtable, and stops at once when it has two
  (`memtable_list.cc:451`). `CompletedFilesExist` without `OnlyManifestFailed`.
* The flush that recovery asks for is ignored when a writer's is queued, and the
  writer's is dropped because of the error (`db_impl_compaction_flush.cc:2935`):
  the recovery then waits with nothing left to wake it. `AllFlushed` therefore
  claims nothing after a failure.

## Proofs

`BPlusCacheProofs` proves, for every number of buffers from five up
(`CacheAssumption`), that `cache_refer` always finds one (`CacheSuffices`) and
that puts give all back (`PutsReleaseBuffers`). That a buffer is unused is not
inductive. The invariant is `TypeOK` with `BuffersOK`: it says, for each point of
a put, which variables may hold buffers there, and that no variable holds two.
Each action is one case; `Refer` says what taking a buffer does. Where the code
asks for a buffer the invariant leaves at most four names, and `FreeSlot` is the
pigeonhole argument that a fifth slot is then unused.

`KeySearchProofs` proves, for keys from any set of integers and nodes of any
size, that the search keeps its bracket and stays inside the array
(`SearchInvariant`), returns the rank (`SearchResult`) and halves the bracket in
each pass (`SearchHalves`). The invariant adds to `TypeOK` and `Bracket` what
`result` is once the function returned; the rank is the cardinality of the
interval below the closed bracket. `SearchResult` is the licence for the closed
form in `BPlusTree`.

`BloomFilterProofs` proves, for every set of keys, all hash functions and all
sizes allowed by `BloomAssumption`, that there are no false negatives
(`BloomNoFalseNegatives`). The invariant adds to the types that all bits of a key
inserted are set, and of a key under way those of the passes made: `insert` sets a
bit only when it is clear, so the xor never clears one. `BloomInsideFile` adds the
hypothesis that the size does not saturate; then it is a multiple of eight, and a
smaller number addresses a byte that exists. `BloomPositivesExplained` is the
converse of the first: a bit is set only if a hash of some inserted key addresses
it, because two bit numbers with the same byte and the same place in it are equal
(`BitInjective`). So every positive answer has a reason.

`SuperVersionProofs` proves, for every finite set of threads and every number of
installs (`SuperVersionAssumption`), that no superversion is used once freed
(`SuperVersionsOutliveUse`), that a read sees none older than the one installed
when it began and no stale copy outlives an install (`CopiesNeverStale`), that
without readers all but the current one are freed (`SuperVersionsAreFreed`), and
that whoever drops the last reference cleans up (`LastReferenceIsCleanedUp`). None of these
is inductive. The invariant counts: the reference count of a superversion is the
number of threads that cache it, read with it, pin it with an iterator or have
scraped it, plus one for the column family and one while the install that
replaced it has not yet dropped its own (`RefsCountOwners`). With it go what a
cached copy is (`CopiesAreCurrent`), where the installing thread stands
(`InstallerInOrder`), who still has to clean up (`CleanupIsDue`) and what a reader
may hold (`ReadersAreFresh`). A step moves at most one thread in or out of one of
the four sets, and `OneMore` and `OneLess` say what that does to a cardinality.
Finiteness of the set of threads is needed to count them.

`FlushJobsProofs` proves, for all numbers of memtables, threads and failures, and
all kinds of failures, that memtables are recorded in the order of their creation
(`MemtablesCommittedInOrder`), each in exactly one file
(`MemtablesFlushedOnce`), and that a completed flush is never left to a thread
that does not commit (`CommitIsNeverLost`). The invariant `Inv` says that the list
is an interval of numbers and those below it are recorded (`ListOK`, `LiveOK`);
that a job that writes owns consecutive memtables nobody else has (`WritersOK`);
that completed memtables form groups, one for each file and each an interval
(`GroupsOK`); and that at most one thread commits, whole groups from the start of
the list (`CommitterOK`, `CommitNotLost`). Groups are what makes it inductive: a
commit records whole files because the longest completed prefix cannot end inside
an interval of completed memtables (`BatchIsWhole`), and
`RollbackMemtableFlush`, whose loop also undoes flushes of other threads that
completed later memtables, undoes them as a whole, because the memtable it starts
at is not completed (`RollbackKeepsInv`). The scans of the code are a least or a
greatest number of a set; that these exist follows from the well-foundedness of
the natural numbers (`LeastExists`, `MinIsLeast`, `MaxIsGreatest`). Most steps of
threads that neither write nor commit, and all those of the recovery, are covered
by one lemma, `FrameKeepsInv`.

`TraceParserProofs` proves, for any number of processes, addresses, lengths and
requests, that the scripts plot the number of I/Os that are outstanding and do not
stop (`TraceCountIsOutstanding`), if no request is issued again while it is under
way (`~Shared`). The invariant says how the four variables of the script fit
together: `reqs` names the chain of each request under way (`ReqsOK`), a chain
holds nothing else (`NoStrays`), and the tails belong to chains that have not
ended, at most one each (`TailsOK`); without the last the loop that deletes one
tail would leave others behind, and a later request would join a chain that is no
longer counted.

`WorkloadGenProofs` proves, for every number of keys and threads, that each file
gets its share (`WorkloadShares`) and that all shares make up the total
(`WorkloadTotal`). The invariant ties `total` to the loop indices.

`MicroBenchProofs` proves, for every number of threads and accesses (`Counts`)
and every file larger than an access, that workers stay inside the array of
offsets and the file (`BenchInsideFile`), and that the time printed covers every
access (`BenchTimesEverything`). The invariant says which accesses a worker at
index `i` has made, that a closed worker has made all, and that joined workers
are closed. `SliceInside` and `SlicesCover` are the arithmetic: the slices lie in
the array and leave no gap.

The inductive invariants of `SuperVersion`, `FlushJobs` and `TraceParser` were
also checked by TLC before they were proved, on the constants of the component's
run.

Only model-checked:

* the liveness properties (`PutReturns`, `LoadCompletes`, `AllFlushed`,
  `ReadsEnd`), because fairness is outside what the prover handles;
* the invariants of `BPlusTree` and `BPlusBoot` and the refinement of
  `KeyValueMap`: they are about trees reached through recursive definitions, and
  a proof would be an induction over them;
* `CrashLosesNothing` and `CompletedFilesExist`, which also need an invariant about
  pending outputs and the lists of files that purging threads carry;
* the invariants of `BackgroundWork`: `PutsInOrder` and `EligibleCompactionHasJob`
  depend on what the picker returns, whose size sums are folds over the runs;
  `StallIsCurrent`, `QueuesMatchJobs` and `WaiterHasJob` are not proved yet.

## Not modelled

* Crashes of the B+ tree: the code makes no provision for them. A process that
  dies before `bplus_tree_deinit` leaves a boot file older than the index file.
* Failing system calls in the B+ tree: the code asserts that every `pread` and
  `pwrite` succeeds in full.
* Two trees open at once, which would share the static block size and order.
* The pointer operations of the intrusive list; the free list is a sequence.
* `bplus_tree_dump` and the demo, which print; plotting; the result parser; shell
  scripts; MurmurHash3, for which any function stands.
* Parts of the modelled RocksDB code that the driver switches off or never
  reaches: periodic, delete-triggered and incremental compactions, several column
  families, atomic flushes, mempurge, dropping a column family, errors that need
  the user.
* The rest of RocksDB: write queue, write-ahead log, memtables, block cache,
  thread pools, rate limiter, tables, transactions, tools. It is a vendored
  library of several hundred thousand lines that this repository does not change;
  what is modelled of it is where the driver and the background threads meet. It
  is also why the models cover a small share of the lines below `src`.
