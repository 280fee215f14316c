# A TLA+ model of the learned index test framework

The repository benchmarks and tests in-memory indexes. A benchmark harness
(`src/src/benchmark`) loads keys, generates a workload and runs it with a team of
threads; a test driver (`src/src/ours/test.cpp`) checks that an index answers
correctly; both call an index through `indexInterface`
(`src/src/competitor/indexInterface.h`). The index with the most delicate code of
its own in the tree is XIndex (`src/src/competitor/xindex/src`): workers use
groups of records without locks while background threads compact, split and
merge the groups and free what they replaced.

The model covers these three parts. Every definition that stands for code is
listed with its source lines in `PROJECT.json` ("map").

## Inventory

| part | where | state and concurrency | modelled in |
|---|---|---|---|
| RCU of XIndex | `xindex_util.h` | a counter per worker slot, global exit flag; workers and background threads | `Rcu`, abstract `Quiescence` |
| record of XIndex | `xindex_util.h` (`AtomicVal`) | status word with version, lock, removed and pointer bits | `AtomicVal` |
| operations and structure updates of XIndex | `xindex_impl.h`, `xindex_root_impl.h`, `xindex_group_impl.h` | roots, groups, arrays, buffers; workers against the background thread | `XIndex`, abstract `ConcurrentMap` |
| searches of XIndex | same | local state; slots may be nullified under the search | `Search`, `GroupSearch`, `ArraySearch`, composed in `Lookup` |
| buffer of XIndex | `xindex_buffer_impl.h` | B+-tree with node latches and versions | `Buffer`, abstract `ConcurrentMap` |
| master thread of XIndex | `xindex_impl.h` | start/finish handshake, slot ranges, termination | `XIndexBg`, with `Quiescence` |
| scans of XIndex | `xindex_impl.h`, `xindex_root_impl.h`, `xindex_group_impl.h` | two- and three-way merge of changing sources | `XIndex` |
| measurement loop | `benchmark.h` (`run`, `print_stat`, `run_benchmark`) | OpenMP team, shared counters, clock, statistics | `BenchRun` |
| workload | `benchmark.h` (`load_keys`, `generate_operations`), `utils.h` | sequential, random draws | `Workload` |
| command line | `flags.h`, `benchmark.h` (`parse_args`) | sequential | `Flags`, composed into `Workload` |
| test driver | `ours/test.cpp`, `ours/utils.h` | parallel loops over an index | `TestDriver` |
| dataset metric | `pgm_metric.h` (`PGM_metric`, `add_point`) | sequential, integer geometry | `PgmMetric`, composed into `Workload` |
| Zipf generator, profiling, clock | `zipf.h`, `utils.h`, `tscns.h` | floating point or I/O | not modelled |
| other indexes and their adapters | `src/src/competitor/*` | vendored third party code | not modelled |

How the parts meet: `BenchRun` calls the index with a slot number taken from
`parlay::worker_id()`; the same number selects the RCU counter of XIndex. In
`BenchRun` it is what an OpenMP thread gets, 0; in `Rcu` it is the constant `SlotOf`.
`XIndex` and `XIndexBg` use the abstract `Quiescence` for their barriers, and
`Rcu` is shown to implement `Quiescence`. `XIndex` is shown to implement
`ConcurrentMap`, which is what `TestDriver` takes a correct index to be. `XIndex`
takes an operation on a buffer as one step; `Buffer` opens it up and is shown to
implement `ConcurrentMap` too. `XIndex` takes a record operation as one or two
steps; `AtomicVal` opens those up. `XIndex` takes the search for a group and the
search in an array as one step (`SlotFor`, the lookup of a key); `Lookup`
composes the two loops, with merges running between their iterations. `XIndexBg` takes one
adjustment as one stay in `rcu_barrier` and adds what `XIndex` leaves out: several
adjusting threads, the rounds of the master and their end. `Workload` composes
`Flags` and `PgmMetric`: a command line leads to keys, operations and, if asked
for, the metric of the loaded keys.

## Modules

**Quiescence**: what `rcu_barrier` promises. A call waits for a set of slots, a
progress of a slot takes it out of the set of every pending call, and a call
returns when nothing is left to wait for or when the index has been closed.

**Rcu**: `rcu_status[s].status`, `config.exited`, the workers inside an
operation, and for every caller the snapshot and the loop position of
`rcu_barrier`. The snapshot and the spin loop handle one slot per step, so
progress can fall anywhere between. `Construct` and `Destroy` are the constructor and
the destructor, which sets `exited`. `old` is a history variable: the threads
that were in an operation when the barrier was called.

**ConcurrentMap**: get, put, update and remove with a call, one atomic effect, and
a return; the specification of a linearizable map. `seen` holds the values the key has
had since the call: a get may answer with any of them, and a put that another write of
the key has overtaken may leave the map alone, having taken effect right before it.

**XIndex**: `root`, the root objects (`roots`), the groups (`grp`), the arrays
and buffers (`mem`, a record per key), the freed objects (`dead`), one background
thread (`bg`) and the workers (`wk`). The worker actions follow `XIndex::get`,
`put` and `remove` through `locate_group_pt1`, `locate_group_pt2` and the places
a key may be in (array, buffer, second buffer), with one shared access per step; the
background actions follow `do_adjustment` and the root update of `background`
statement by statement, each pointer store, each `rcu_barrier` and each free
being a step. Which adjustment is done is a free choice of the scenario's, because
it depends on error statistics and buffer sizes that the model does not have. A
`scenario`, chosen at the start, says what is loaded, which operations are called
and which adjustments happen.
`view` and `seen` are history variables: the content, and the values the key of a
running operation has had; they give the refinement of `ConcurrentMap`
without prophecy. Each worker has an RCU slot of its own here, and there is one
index. A scan is a worker's operation as well: `Root::scan` over the slots,
`Group::scan` choosing two or three sources when it enters a group, the copies
`DataSource` takes of the buffers, the array read record by record and through
pointers, and the merge. The bounds of the code are in it: the latest pivot starts at
key_t::min() (`MinKey`), a group is scanned up to but without key_t::max() (`InRange`), and
after the last slot a pointer from behind the array is read (`Wild`). `recs` records what a
scan may have met.

**AtomicVal**: two records, `new` with a pointer to `old`, as `merge_refs_internal`
leaves them. Every load and store of the status word and of the value is a step
of its own, `replace_pointer` included. Memory is sequentially consistent: the
code separates the accesses with full fences.

**Buffer**: `AltBtreeBuffer`, its nodes with latch, version, keys, slots, `parent`
and `next`. Descents read a child, its version, and the latch and version of the
parent again; leaf operations validate the same way or hold the latch; a split
writes the sibling, links it, and latches its way up, to a new root if it must. What a reader
sees in a node that is being rewritten under its latch is arbitrary (`Torn`). `view`,
`seen` and `hist` are history variables, as in `XIndex`.

**XIndexBg**: `background` with the `bg_num` threads of `do_adjustment`, the flags
`started`, `finished`, `running` and `should_update_array` between them, the part
of the root's array each takes, the groups chained in each slot by splits, the
replacement of the root, and `terminate_bg` with the destructor.

**Search**, **GroupSearch**, **ArraySearch**, **Lookup**: the loops of
`locate_group_pt1` and of `exponential_search_key`, and their composition in
`Root::get`. The predictions are arbitrary, so nothing depends on the quality of
the models. A group merge may nullify a slot between any two steps, under the
conditions `do_adjustment` merges under, and the group read from a slot is any that
such merges can have put there (`Spans`).

**BenchRun**: the runs `run_benchmark` makes, one per thread count. A run is `prepare`,
the parallel region (entry and `latency.reserve`, barrier, start time, dynamic schedule in
chunks, execution, the load and the store of `+=` on the counters and of `push_back` on the
latencies, the implicit barrier of the loop, end time, join), gathering, and the report and
clearing of `print_stat`. A slot of `params` is chosen by `worker_id`, which is 0 in every
thread parlay did not create, so all threads of the team work on slot 0. Two
threads that grow its vector at the same time end the run in the phase "crash", which
stands for undefined behaviour. A report is the counts that are printed; the CSV row has
others, which are not modelled. The
build file of the repository has the `microbench` target commented out and names
no OpenMP flag; the model is of the code as its pragmas say, compiled with OpenMP.

**Flags**: `parse_flags` argument by argument and `parse_args` with its checks.
An argument is a record (is it a flag, key, value), not a string. A missing
required flag, which the code dereferences, and a value `stod` rejects are
outcomes of their own. Ratios are multiples of 1/`Unit`.

**Workload** extends `Flags` and `PgmMetric`: when the command line has led to a
run, `load_keys` and `generate_operations` follow with the parameters it gave. A draw
is any multiple of 1/`Unit` below one, shuffles are all permutations, samples are any
loaded key. A read outside an array (fewer than ten keys to print, nothing to sample
from) ends the run in the state "undefined". With `--dataset_statistic` the sorted
loaded keys go through `PGM_metric`.

**PgmMetric**: `add_point` of `OptimalPiecewiseLinearModel`, one point per step:
the test against the two extreme lines of `rectangle`, the walk along a hull for the
new extreme line, and the update of the hulls; `reset`, and the exception for keys
that do not increase. Slopes are pairs compared by cross product, as in the code.
`Fits`, `Flattest`, `Steepest` and `MinSegments` define the answer without hulls.

**TestDriver**: `main`, loading and generating entries, the strictly-increasing
assertion, and the parallel loops of `TestRead` and `TestReadWrite` with one task
per step. `LoadEntries` and `UniformRandomEntries` are translated with their edge cases: no
limit (for generated keys: 200000000, the constant `DefaultKeys`), and a limit above the
number of different keys, which pads with zeros. The index is external: a correct map, or (`faulty`) one that may answer
anything. The flags of `main` and the kind of index are the `setting`, chosen at the
start. `NDEBUG` says whether assertions are compiled in.

The `MC*` modules only define constants for the configurations. Definitions whose
comment begins with "Fault:" are plausible mistakes; they are used only to see that
the properties notice them, and no specification refers to them.

## Runs

Passing runs; states are distinct states.

| run | instance | states | what it shows |
|---|---|---|---|
| `rcu` | 2 workers, 2 callers, counters to 3 | 109,582 | `GracePeriod`, refinement of `Quiescence` |
| `xindex` | 2 workers, one with 2 operations and one with 1, on one key, against one adjustment and the root update it causes: compaction, model change, merge, split | 567,864 | linearizable (during a split: gets with inserts and updates, or with removes of a key of the array), no use after free, a key in one place except during a split, pointers flat |
| `xindex_put_returns` | 2 workers that put for ever, one compaction | 25,250 | a retrying put returns |
| `atomicval` | 2 threads, all operations, versions to 2 | 1,919,251 | atomic answers, safe pointers, locks with one owner and no deadlock, `replace_pointer` changes no content |
| `bench` | a run of 1 and a run of 2 threads on slot 0, reads, a scan and an insert in chunks of 2, sampling | 379,249 | exactly once, end after all, no count above what the run achieved and, with one thread, none below |
| `workload` | 45 command lines, every file of up to 4 keys out of 3; files of 7 and 8 keys for the metric | 150,746 | parameters as asked, operations exist, fresh keys (with data shift: from the second part of the file), the least number of segments from exact hulls |
| `test` | both tests, files of up to 5 keys out of 4 and generated keys, limits below and above the number of different keys, a map and an index that answers anything | 10,274 | praise means right answers; a correct index is blamed for nothing, and an assert fails only before it is used and when the source ran out of different keys |
| `lookup` | every content of keys of 1..5, cut into groups in every way, any key, any two predictions, merges | 173,601 | finds the slot and the key, returns |
| `buffer` | 2 threads, 3 operations, nodes of 3 keys; one full leaf, two full leaves, a full root | 202,662 | linearizable, tree in order, complete between operations, exact size, exact scans, no deadlock |
| `xindex_bg` | 3 adjusting threads, 1 to 3 groups at the start and 4 at most, 3 roots | 116,691 | each slot adjusted by one thread once a round, no chain left for the next round, rounds end, threads end, no deadlock |
| `xindex_scan` | a scan of 4 or of 1 records by one of 2 workers, against puts and removes and one compaction, merge or split; an index that holds key_t::max(), and one whose first pivot is key_t::min() | 849,471 | only records that existed, in order, complete outside these two extremes, no freed memory read |

One run is answered with a counterexample, against an assertion of the repository
(quoted in `PROJECT.json`, "findings"):

* `xindex_split`: `UpdatesInPlace` fails in a group split, with two puts of one new key.
  Compaction and merge freeze a buffer and wait before they publish groups with a second
  one; `split_group_pt1` publishes frozen halves that have one at once. A put that read the
  old group as not frozen inserts into the shared buffer, and a put that looked there
  before inserts the same key into the second buffer of the half. The assertion
  `base_key != buf_key` of the next merge of the two fails. Gets and puts do not notice (run `xindex`
  has the same scenarios): the second copy is shadowed by the first, as if its put had come
  just before. A remove of the key uncovers it: `ImplementsMap` fails when "remove" is added
  to the operations of `SplitWithInserts`.

The other configurations reproduce further disagreements, each by the violation
of the property named:

| configuration | property | what happens |
|---|---|---|
| `MCRcu_second.cfg` | `GracePeriod` | `config.exited` is never reset, so barriers of the second index of a process wait for nobody, where `xindex_util.h:96` says "wait for all workers" |
| `MCXIndex_rmi.cfg` | `NoDanglingModels` | the new root deletes the second stage models that the old root still uses |
| `MCXIndex_scan_moving.cfg` | `ScanNoRepeat` | a key removed and put back during a scan is in the copies of both buffers, against the assertion at `xindex_group_impl.h:1007` |
| `MCXIndex_scan_ends.cfg` | `ScanReturnsAll` | a scan that begins in a group whose pivot is key_t::min(), the first group whenever key 0 is loaded, takes the group for visited and skips its slot, and key_t::max() is never returned; `ours/test.cpp` compares a scan with all entries of the range (behind a return, with the remark "xindex: result not correct" at line 55) |
| `MCXIndexBg_freed.cfg` | `IndexOutlivesThreads` | nobody joins the master: it and its threads may read `bg_running` and `root` of an index that has been freed |
| `MCXIndex_upper.cfg` | `UpperHalfNotEmpty` | the assertion at `xindex_group_impl.h:740` fails when the records of the upper half of a split were removed in the meantime |
| `MCXIndex_idle.cfg` | `PutReturns` | a worker without further operations blocks the background thread in a barrier, and with it every put on the frozen group |
| `MCBenchRun_shared.cfg` | `RowsExact` | with worker id 0 in all threads, the "thread local variable" of `benchmark.h:378` is shared and loses increments |
| `MCWorkload_order.cfg` | `FileOrderKept` | `data_shift` shuffles the keys to insert; the repository's README says it preserves "the order in the key file" |
| `MCWorkload_slack.cfg` | `NoUnaskedDelete` | a sum of ratios just below one turns into deletes |
| `MCWorkload_scan.cfg` | `ScanRatioHonoured` | the documented `--scan_ratio` is not read |
| `MCWorkload_index.cfg` | `IndexRequired` | a missing `--index`, marked required, runs nothing |
| `MCWorkload_duplicate.cfg` | `MetricReported` | with `data_shift` duplicate keys stay, `add_point` throws (`pgm_metric.h:314`), and the metric the repository's README offers is not reported |
| `MCTestDriver_limit.cfg` | `EntriesIncrease` | a limit above the number of different keys appends zero entries |
| `MCTestDriver_release.cfg` | `GoodMeansRight` | a Release build prints "All good!" unconditionally |

`rcu` gives each thread a slot of its own, as parlay's workers have in `test.cpp`. OpenMP threads
share slot 0, while the adapter asks for `parlay::num_workers()` slots (`xindex.h:99`): if that is more than
one, the other slots never move and a barrier waits for ever, which is the situation of `MCXIndex_idle.cfg`. `bench`
has the shared slot; its properties are proved for any number of threads.

The modules also state a type invariant each (`TypeOK`, `GroupTypeOK`). It holds in
all these instances, and the proofs use it, but it says less than the properties
above and the configurations leave it out. Nor do they name the bounds of the
searches: TLC stops with an error at any read outside an array, and the theorems
`ArraySearchInBounds` and `GroupSearchInBounds` cover every size.

Deadlock is checked in `buffer` and `xindex_bg`, where a state without a step would
be a circle of waiting threads. In the others bounded workers, a finished
benchmark and a program that has printed its verdict stop.

### Bounds and why they suffice

Two workers are the least for a write to race with another write, and the
background thread is the third party; a barrier distinguishes only workers it
has seen moving from workers it has not. Two operations of one worker (`MaxOps`) allow one
before and one after a barrier while the other worker is in a third; progress by
operations on keys outside the model (`Elsewhere`) is not bounded. One adjustment (`MaxAdjust`) already includes up to
four barriers and, for split and merge, the root replacement and its two. One
operated key suffices for the record protocol because operations on different
keys of a group touch different records; the other keys in `Keys` give the groups
their pivots. During a split the key is new to the group, in the lower or in the upper half, with gets and puts,
or it is in the array, with gets and removes; with puts and removes of the same key the race of `xindex_split` breaks
linearizability, so no passing run has both. `MaxVersion` counts the writes to a record in
`AtomicVal`: two, so that a reader can be overtaken twice. Five operations in chunks
of two leave a short last chunk. The searches use all arrays up to a size at which the
gallop doubles twice. A scan writes nothing, so one scan per
behaviour suffices; it is asked for more records than there are, and for one. The scan instance has
key_t::max() = 4 so that a loaded key can reach it. In `Buffer` a node of three keys
is the smallest that splits into two nonempty halves with a key between; the
three starting trees make a leaf split into a new root, a leaf split under a scan,
and two splits that meet in a full root. Three threads with three operations and two
threads with four were checked once and passed. In `XIndexBg` three threads on one to
four groups cover fewer, as many and more groups than threads, hence empty ranges; three
roots allow two replacements. For the metric, all sets of 7 and 8 keys out of 0..12
that begin with 0 (only differences matter), with error bounds 0, 1 and 2, are large enough that
both hulls drop points at their front. The theorems below remove the bounds where they apply.
Symmetry in the workers is used with invariants and safety refinements only.

### Fairness

`BusySpec` of `XIndex`: threads are scheduled (weak fairness of the background
thread and of a worker inside an operation), and a worker that is idle begins
another operation, which is what the benchmark loop does until its operations
run out. `FairSpec` leaves the last assumption out, and `MCXIndex_idle.cfg`
shows that it is needed. `BenchRun` and `TestDriver` assume none, their properties being
safety properties; `Lookup` assumes that the call goes on while it can (not the merges). In `XIndexBg` the
scheduler runs the master and its threads, and an owner that has begun
`terminate_bg` ends it; nobody has to call or destroy the index. `RoundsEnd` has
as its premise that every barrier is served again and again, which is what workers
that keep calling do; `BackgroundEnds` needs no such premise, because a barrier gives
up once `exited` is set. `PutReturns` also rests on `MaxAdjust`: a put that met a new
compaction each time it retries could go on. `OperationsReturn` of `Buffer` (latches
are handed on, so that every operation returns) holds on the same
instance, without symmetry, under weak fairness of the threads; its check
takes too long to be among the runs. `AtomicVal` assumes none: a reader may be overtaken for
ever by writers, and that the locks cannot deadlock is the invariant `LocksOwned`.

## Proofs

The proofs hold for every value of the constants that satisfies the named
assumptions, and are checked by TLAPS.

* `Rcu_proofs`. `RcuTypeOK` and `RcuImplementsQuiescence` need no more than the type
  assumptions: the inductive invariant `CounterInv` adds to the types that a
  snapshot never exceeds its counter (`SnapshotBelow`) and the range of the loop
  variable. It is needed because a slot that differs from the snapshot must have
  moved forward since the call, which is what lets it count as progress in
  `Quiescence`. `RcuGracePeriod` assumes `OneInstance`, whose failure `MCRcu_second.cfg`
  exhibits, and `OwnSlot`: two threads on one slot would vouch for one another. Its invariant `GraceInv` adds that an
  operation older than a call has not moved its counter since the snapshot and
  that the spin loop has not passed its slot (`OldNotPassed`), and that nobody is in an
  operation once `exited` is set (`Lifecycle`).
* `BenchRun_proofs`. `BenchTypeOK`; `BenchExactlyOnce` and `BenchEndAfterAll` from
  `LoopInv`: an operation has not run exactly when it is still in the schedule
  or a single thread owes it, and nobody passes the end of the loop before
  everybody reached it. `BenchSlotBounded` is about the race on slot 0, for a team of any size.
  A thread that stores an old copy of a counter undoes the successes stored since, but must not
  bring the counter above what the team achieved; so `CountInv` adds that the slot, and every copy a
  thread is about to store, leaves room for all the successes still in hand (`Room`), and that a
  thread alone finds the slot as it left it (`Alone`).
* `ArraySearch_proofs`. `ArraySearchTypeOK`, `ArraySearchInBounds` and
  `ArraySearchLowerBound` from `RangeInv`: while galloping, the near end of the range is on
  the known side of the key; while bisecting, everything before the range is below the
  key and everything after it is not.
* `GroupSearch_proofs`. The same for the pivots, and `SlotInv`: the first slot is in
  use, of two neighbours one is, and the walk back has skipped only empty slots. It
  gives `GroupSearchFindsSlot` and `GroupSearchShortWalk` with merges running.
* `Lookup_proofs`. `LookupFindsKey` joins the two. `LookupInv` adds that every pivot is a
  key and the first the smallest (`ContentInv`), and that the array that was read has the key exactly if
  the index has it (`LinkInv`). The step that needs an argument is the read of the
  group (`SpanHasKey`): if the walk went back over an empty slot, the group found
  is merged with that slot's, so its keys reach to the next pivot.
* `AtomicVal_proofs`. `AtomicValAnswers`, `AtomicValPointers`, `AtomicValLocks`,
  `AtomicValOnlyWriters` and `AtomicValTypeOK`, for any set of threads and any
  bound on versions (`VersionAssumption`), assuming that the operations are among the four
  (`OpsAssumption`) and that thread names differ from the values of the model
  (`ThreadsAssumption`). The inductive invariant `RecordInv` says who may be on which
  record at which stage of `replace_pointer` (`Control`), what the records and the
  copy in the hand of `replace_pointer` hold then (`Memory`, `Copy`), who owns the
  lock bits (`Locks`), and, of a reader that has loaded a status word, that the word
  is no newer than the record, and that a pointer bit it saw means either that it holds the pointer, or that
  `replace_pointer` has the lock, or that the version has moved on (`LoadedBy`). The
  last is why checking lock and version after the value suffices although the pointer
  is overwritten before its bit is cleared. `SeenBy` adds that what a reader is going to
  answer with was the content at some moment. There is one lemma per action; steps that write nothing
  shared go through `QuietStep`, those of writers through `WriteStep`, those of
  `replace_pointer` through `ReplaceStep`.

Only model-checked: everything about `XIndex`, `XIndexBg`, `Buffer`, `Workload`,
`Flags`, `PgmMetric` and `TestDriver`, and `CountsBounded` of `BenchRun`, whose reports are sums
over the slots; and the liveness properties, since fairness and
ENABLED are outside what the prover handles.

## Not modelled

* `range_scan` of XIndex, which exits with "not implemented"; sequential insertion
  (`seq`), which `Root::init` rejects; model training, which is floating point and on which nothing
  depends, since the searches are correct for every prediction.
* What a scan returns when a group split or merge overlaps it, beyond that it
  returns records that existed and reads no freed memory: the code makes no attempt
  to avoid keys met twice or passed over there.
* The buffers in `XIndex` are maps; that the tree behind them is one is shown in
  `Buffer`, not in one composed instance, which would be too large.
* The mean squared error, `skew_variance` and the generators of `pgm_metric.h`, which
  nothing calls; percentiles, memory accounting and the CSV row of the benchmark, and what becomes of a
  program after two threads have grown one vector; the Zipf
  generator, profiling and the clock, which compute in floating point or talk to the
  operating system; the file formats of data sets beyond their length.
* Weak memory: every module takes memory as sequentially consistent. Overflow of the
  60 bit version.
* The third party indexes, and their adapters, which forward each call to code that
  is not this repository's own; a model of an adapter would consist of assumptions about the library
  behind it. They are listed in `PROJECT.json`.

## Plan

1. Proofs: `OneAdjuster` and `RoundCovers` of `XIndexBg` for any number of threads and
   groups; `FreshKeys` of `Workload`; the latching of `Buffer`.
2. Scans that overlap a group split or merge: which keys may be met twice.
3. Adapters: the return values that deviate from the interface, once a model of one
   of the libraries exists.
