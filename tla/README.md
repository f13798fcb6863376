# TempoGraph: specifications, model checking, proofs

TempoGraph is a cache (page replacement) simulator in C. `main.c` reads a trace of
page numbers and replays it through one of five replacement policies, or through all
five in turn, counting faults. Every policy is a module of static state behind three
functions: `X_init(n_frames)`, `X_access(page)` returning `HIT` or `FAULT`, and
`X_reset()`. That program is sequential and keeps nothing on disk, so what is hard there
is not concurrency but state that is kept twice (arrays and indices, lists and maps,
tags and links), long sequences of legal calls, arithmetic at boundaries, loops that
must end, and static storage that every `X_init` must set up again.

The repository also vendors libCacheSim, to which it adds one file: a port of the policy
to libCacheSim's cache interface, used to compare it with other algorithms. There the
policy meets byte capacities, evictions that another module decides, removals, 16-bit
fields, and the one concurrent part of the system, the pool of threads that replays a
trace through many caches at once.

## The system

| part | state | operations | correct when |
|---|---|---|---|
| `tempograph.c` | adjacency lists `edges`, circular `win_buf`, linked recency list over frames, `frames`/`in_frames`/`frame_of`/`size`, stamps | `tg_init`, `tg_access`, `tg_reset` | the four residency structures agree; the list is in order of use; the window and the graph reflect the trace; the victim is the least predicted of the oldest `SAMPLE_SIZE` |
| `lru.c` | linked list, chained hash map, `size` | `lru_*` | holds exactly the last `capacity` distinct pages |
| `lfu.c` | slots of page, count, time; `size`, clock | `lfu_*` | evicts the least used of this stay, least recent on ties |
| `arc.c` | lists T1, T2, B1, B2, map to tagged nodes, target `p` | `arc_*`, `arc_replace` | size bounds hold, a victim always exists, the directory is a pair of recency lists of 2c pages |
| `sieve.c` | `pages`, `visited`, `hand`, `n` | `sieve_*` | the scan ends; the array is one FIFO queue with second chances |
| `main.c` | trace, options, result counters | `load_trace`, `run_sim`, `main` | every access is counted once, every row is printed, and the rows are possible ones |
| `libCacheSim/.../eviction/Tempograph.c` | the graph and window again, with 16-bit destinations; libCacheSim's object list as recency list | `get`, `find`, `insert`, `to_evict`, `evict`, `remove` | the weights count what followed in the trace; the queue is in order of use; `to_evict` foretells `evict` |
| `libCacheSim/.../cache.c`, `cacheObj.c`, `FIFO.c`, `LRU.c`, `Clock.c`, `Sieve.c` | hash table, byte and object counts, linked list of objects, frequencies, SIEVE's hand | `get`, `find`, `insert`, `evict`, `remove` | list, table and counts agree; every request is served |
| `libCacheSim/.../profiler/simulator.c` | tasks of a thread pool, `progress` under a mutex, rows, caches, shared `params` | `simulate_at_multi_sizes`, `simulate_with_multi_caches`, `_simulate` | the rows are those of independent replays; nothing is used after it is freed; the call returns |
| scripts (`gen_trace.py`, `fix_csv.py`, `run_experiments.sh`, ...) | files | | not state machines |
| the rest of `libCacheSim/` | vendored | | not this project's code |

`main.c` calls the policies, which share nothing but `common.h`. libCacheSim's generic
`cache_get_base` calls the callbacks of an eviction algorithm, which call back into
`cache.c` and `cacheObj.c`; a task of the parallel simulation owns one such cache and
shares `params` (the reader it clones, the rows, `progress` and its mutex) with the others
and with the caller.

## Modules

The policies:

* **DemandPaging**: the contract between `run_sim` and a policy. `HIT` exactly when
  the page is resident; a fault loads the page, never evicts while a frame is free, and
  evicts exactly one page otherwise; `X_init` and `X_reset` empty the frames. All five
  policies implement it, model-checked and proved.
* **TempoGraph**: `tempograph.c`. One action per entry point, `tg_access` as `Hit` and
  `Fault`. `Observe` is what both paths share (decay if due, `update_graph`,
  `slide_window`). `win` bundles `win_buf`, `win_head`, `win_size`; `lru` bundles the four
  link variables, with the arrays kept as arrays. `choose_victim` walks the real
  `lru_prev` links. `hist` and `reply` are history variables.
* **EdgeLists**: the adjacency list that `tempograph.c` and the plugin share, as sequences
  of edges: `adj_inc`, `adj_weight`, and the inner loop of `apply_decay`, followed turn by
  turn because its swap-remove matters.
* **TempoGraphProperties**: what is required of it, stated over `hist`.
* **LinkedList**: a doubly linked list as the code keeps it, head, tail, `prev` and `next`
  set one by one, so that a missing assignment shows; **Lru**: `lru.c` over it, the hash map
  being the set of its keys and a node going by its page. `list` and `listFromTail` are what
  a walk from either end meets.
* **Lists**: the same lists as sequences of distinct pages. **Arc**: `arc.c` over them, one
  action per case of `arc_access`, the directory threaded through the steps of a case in the
  order of the code. `dl_remove` and `dl_push_front` of `arc.c` are the code of `lru.c`'s
  `list_remove` and `list_push_front`, which `ListedRemove` and `ListedPrepend` (in
  ListProofs) prove to do to the links what `Remove` and `PushFront` do to the sequence;
  what is hard in ARC is which list a page is on. **ArcProperties**: its requirements.
  **Dbl**: the two-list directory that ARC is built on.
* **Lfu**: `lfu.c`. **Sieve**: `sieve.c`, the scan of a fault one turn of the loop per
  step; **FrameArray**: the frames both keep in an array; **SecondChance**: a FIFO queue
  with reference bits. Operators of Sieve that Lfu has too begin with `Sieve`, so that one
  module can extend both.

The program:

* **Simulator**: `main.c` composed with the five policy modules themselves, each over its
  own static storage. `ReadPiece` and `SkipPiece` are what one `fgets` of `load_trace` may
  lead to, `StartRun`, `Replay` and `EndRun` are `run_sim`, `EndLoad` and `Following` are
  the loop of `main`. `Untouched` states that only the policy being run changes. A policy
  runs once in a process, so that re-initialisation over used storage is met in the models
  of the policies, whose entry points come in any order, and not here.
* **References**: what the rows are held against, as functions of the trace and the number
  of frames alone: the optimum of Belady (on a fault evict the page used again last), the
  faults of LRU by stack distances, and the traces that are cyclic scans.

libCacheSim:

* **ObjList**: the linked list through the cached objects, link by link as in
  `cacheObj.c`, which has operations of its own (`move_obj_to_head`, tails cut by hand).
* **LibCache**: `cache.c` with five eviction algorithms, chosen by the variable `algo`. A
  request that misses evicts until the object fits, each eviction and each turn of a scan
  being a step; `RemoveObj` may come between requests. `candidate` is what `to_evict`
  answers when an eviction begins.
* **ParallelSim**: `simulator.c`. The caller (`Create`, `Push`, `Spin`, `Waited`, `Join`,
  `Clear`) and the threads of the pool (`Take` to `Finish`) interleave at every access to
  something shared; `(*progress)++` is a read and a write, and the loop that waits for
  progress reads it without the mutex, as the code does.

`recency` in Lru and Arc is a history variable: the pages used so far, last used
first. Unlike a full history it is finite, so these two models, and Sieve, need no
bound on the length of the trace. TempoGraph, Lfu and Simulator keep stamps that grow for
ever and are bounded by `MAX_TRACE` accesses after each initialisation, LibCache by
`MAX_REQ` requests to `Tempograph.c`.

The proofs are in **TempoGraphProofs**, **LruProofs** (with the lemmas on References),
**ArrayProofs** (Lfu and Sieve), **ArcProofs**, **SimulatorProofs**, which instantiates the
four before it, **LibCacheProofs** and **ParallelSimProofs**. **ListProofs** holds what
they share: lists of distinct elements, linked lists and the sequences they thread, loops
written as recursive functions, the adjacency lists of EdgeLists, the counting of pairs of a
history, sums over a table.

## Runs

| run | shows | bounds and why they suffice |
|---|---|---|
| `TempoGraph` | types, residency, recency list, window, the victim (and with it the exact edge weights), refinement of DemandPaging | 4 pages on 2 and 3 frames, windows 1 and 2, two samples, 7 accesses. A run of 7 fills the frames, wraps the window several times, hits and evicts, and samples fewer frames than are resident; re-initialisation with other parameters happens at any moment |
| `TempoGraphForgets` | graph well formed, no overcounting, edges lost by overflow only | lists of 2 edges, weights up to 2, a sweep each 3 accesses with a shift of one bit, so that overflow, saturation and decay all happen, in every order, in 7 accesses |
| `Lru` | the links read from both ends and the map agree, exact recency prefix, refinement | 5 pages, 1 to 3 frames, traces of any length |
| `Lfu` | slots and size agree, counts of this stay, victim, refinement | 4 pages, 1 to 3 frames, 7 accesses: a page is evicted, returns and is compared again |
| `Arc` | tags, sizes, victim for every replace, recency order, remembered pages, refinement of DemandPaging and of Dbl | 7 pages, symmetric, 1 to 3 frames, traces of any length: 7 pages overflow the full directory of 6, and lists of 1 and 2 ghosts make the quotient in the target larger than one |
| `Sieve` | scan ends, frames agree, refinement of SecondChance and DemandPaging | 5 pages, 1 to 3 frames, traces of any length; smaller configurations follow larger ones, so stale entries exist |
| `Simulator` | each row against counts computed from the trace alone (the optimum and the number of pages; for LRU the stack distances), the scan of `DEMO.md`, that TempoGraph does better on it, all rows printed | traces of up to 6 accesses to 3 pages, 1 to 3 frames: a cyclic scan of more pages than frames fits twice. One policy or all five in turn |
| `LibCache` | list, table and counts agree, order of the queue, weights modulo 16 bits, `to_evict` against `evict`, every request served | 4 objects of 1 or 2 bytes in caches of 1 and 3, so that objects are refused, one eviction does not suffice, and removals meet SIEVE's hand; objects 0 and 2 differ as nodes and agree in their (one-bit) destination, 0 and 4 agree as nodes; 4 requests to the plugin with a sweep every second one, whose shift is one bit so that a weight of 2 loses one, traces of any length otherwise |
| `ParallelSim` | rows as if each task ran alone, nothing used after it is freed, the call returns | 2 threads, 1 or 3 tasks (so that a thread takes a second task while another still runs), traces of up to 2 requests, with and without a warm-up reader, warm-up by requests or by seconds, both entry points, caches freed or kept |

`WeightsCountPairs`, `WeightsCountCongruentPairs` and `EvictsBestSampled` state the exact
value only where nothing was forgotten, which the trace alone decides (`Remembered`: the
followers of the source fit its list, no sweep came or the count is below `DECAY_DIV`, the
count fits the weight). In the run `TempoGraph` that is always so. `TempoGraphForgets`, with
lists that overflow, weights that saturate and sweeps that bite, and `LibCache`, with sweeps
only (its one-bit destinations never overflow a list of two), check the bound that survives
forgetting and that nothing else is ever missing. `EvictsTheCandidate` is of interest for
Clock and SIEVE, where `to_evict` and `evict` scan in different ways; for FIFO, LRU and the
plugin both read the tail. The case of `TempoGraphKeepsSome` occurs with 3 pages on 2 frames
over six accesses. The constants of the C files (64 edges, 64 samples, a sweep each 2000
accesses, 16-bit weights and destinations) are parameters; the small values exercise the
same branches. Deadlock is checked in every run; the actions `Exited` of Simulator and
`Returned` of ParallelSim stand for the program having ended.

Three runs are expected to find a violation, each a place where the code and its
documentation part:

* `TempoGraphAliases`: residency is decided by `page % MAX_UNIQUE`, so with page numbers
  at or above `MAX_UNIQUE` an access is answered `HIT` although the page is in no frame.
* `TempoGraphSweep`: the integer decay leaves every weight below 64 as it is. The
  documented factor 0.984 does not apply to such edges and no edge ever dies; the
  compaction branch of `apply_decay` cannot be reached (proved: `DecayRemovesNoEdge`).
* `TempoGraphHeader`: `tempograph.h` scores a resident page by its edges to the resident
  pages; the code scores it by the edges from the window to it.

Others were noticed and have no run. `main.c:13` documents the default of `-d`, 1.0, as no
decay, while `tg_init` ignores the argument and sweeps all the same: `TgInit` has no such
parameter, and no property speaks of it. `sieve.c` cites SIEVE, where a new page
enters at the head of the queue and survivors keep their place, while its array behaves
as a second-chance queue, which is what `RefinesSecondChance` shows; libCacheSim's own
`Sieve.c`, in LibCache, keeps `Queue = born`, so the two files of one name are two
policies. The comment on `cache_find_base` says that the size of the cached object is
updated, which the code does not do. The caller in `simulator.c` spins until `n - 1` tasks
are counted, not `n`; that is harmless because freeing the pool waits for the last one,
which `RowsAsIfAlone` and `NothingUsedAfterFree` show and a mutant that drops the wait
breaks.

## Fairness

Accesses and requests come from outside, so no action that starts one is fair.

* Sieve: `WF_sieve_vars(Skip \/ Replace)`. Once a fault's loop runs, the program takes its next
  turn. `ScanEnds` needs no more: that each turn clears a bit does the rest.
* Simulator: one program that runs to its end, so `EndLoad`, `StartRun`, `Replay` and
  `EndRun` are weakly fair; the trace is finite (`MAX_TRACE`). The condition of `Replay` is
  written out because it is enabled exactly when `Replaying` holds.
* LibCache: `WF_vars(Serve)`, as for Sieve: one thread serves a request to its end.
* ParallelSim: weak fairness of the caller and of each thread, which the operating system's
  scheduler gives. Nothing is assumed of the mutex beyond that: a thread that waits for it
  may be overtaken, but only by finitely many tasks.

## Proofs

The theorems hold for every value of the constants that satisfies the named ASSUMEs of the
modules, which the runs evaluate: any natural page numbers, any number of frames (up to
`MAX_FRAMES` where the code has arrays), any threads, tasks and traces.

**TempoGraph** (`DECAY_DIV` at least 2, which is a shift of at least one bit):

* `TypeCorrect`, `ResidencyCorrect`, `RecencyCorrect`: from the inductive invariant
  `IInv == TypeOk /\ ResidencyAgrees /\ ListIsRecencyOrder`. None of the three is
  inductive alone: `frame_of` of a resident index must be an occupied slot for a hit to
  touch the list, the list must hold exactly the occupied frames for the walk to return
  a victim, and `size` must count them for the free-slot search to succeed.
  The list part rests on lemmas on the pointer operations themselves
  (`UnlinkThreads`, `PushThreads`): each neighbour is described by the stamps, `lru_next`
  as the newest of the older frames, so no reachability along pointers is needed.
* `GraphCorrect`: the graph's bounds, by `AdjIncKeepsWellFormed` and `DecayKeepsWellFormed`.
* `WindowCorrect`: the circular buffer against the history; the arithmetic modulo `W`
  is in `Position` and `NextHead`.
* `EdgesCorrect`: an access may insert the same destination several times, once for each
  place of its window, and lose an edge at most the first time (`AdjIncLoses`); the edge
  is the weakest also by the swept weights because a sweep is monotonic (`DecayedOrder`).
* `WeightsCorrect`: how the weight of every edge relates to the pairs of the history, by
  induction on the trace. An access adds to the pairs (u, v) one for each place of the
  window that holds u (`PairsGrow`, over `Near` in ListProofs: the pairs of two sets of
  positions at most `W` apart), and the loop of `update_graph` calls `adj_inc` exactly as
  often. The loop invariant says that the weight is the old one plus the turns taken and
  that the list names only followers, so it has room while they fit.
* `VictimCorrect`: the walk meets the frames in order of last use (from
  `ListIsRecencyOrder`), the sum of the window's weights is the number of the pairs that
  `HistScore` counts (`WeightsCorrect`, `WindowCorrect`, and `Tallies` in ListProofs for the
  sum), and the fold over the sampled frames keeps the best so far.
* `DecayRemovesNoEdge` (in ListProofs, for it speaks of EdgeLists alone), and `Refinement`
  of DemandPaging.

**Lru**: `MapCorrect`, `RecencyCorrect`, `Refinement`. `Listed(S, l, s)` (in ListProofs) says
that the links `l` thread the sequence `s` of elements of `S` from both ends; the invariant
holds that the links thread the prefix of `recency` of length `size` and that `recency` has
no page twice. The pointer operations are those on sequences (`ListedRemove`,
`ListedPrepend`), and a walk along the links meets the sequence (`ListedWalks`), so the
steps reason about sequences.

**Lfu**: `SlotsCorrect`, `CountsCorrect`, `VictimCorrect`, `Refinement`. The invariant
adds that `lfu_clock` is the length of the history and describes each slot's count and
time as those of the accesses since the page's last load, so that a comparison of two
slots is one of two stays.

**Arc**: all eight properties of its run. Types, tags and sizes form one inductive
invariant: the sizes alone are not inductive, since each case relies on the tag to say on
which list a page stands. `VictimsExist` is the arithmetic of the cases (when
`arc_replace` is called the frames are full, so T1 or T2 is not empty, and the comparison
with the target never picks the empty one). For `DirectoryRefinement`, T1 with B1 and T2
with B2 are joined into one list each (`Join*` in ListProofs), on which what
`arc_replace` does is invisible. `OrderCorrect` and `RecentRemembered` need a second
invariant, `OInv`: both joined lists follow `recency`, and a used page off the directory
stands beyond place c of `recency`.

**Sieve**: `FramesCorrect`, `SieveRefinement` and `SecondChances`. The invariant adds
`FillsInOrder`: while a frame is free the occupied ones are those before the hand, so the
scan never replaces a page while a frame is free, which the code does not test.
`SecondChances` is the safety part of `RefinesSecondChance`, step by step: `QueuePlaces`
says which frame holds which entry of the abstract queue, and `TurnQueue` that a hand that
leaves a frame moves the front of the queue to its back.

**Simulator** (any trace, frames, windows and choice of policies):

* What is proved of a policy alone holds in the program because `main.c` drives every
  policy through its interface only: each step of Simulator is a step of the policy's own
  module or leaves its variables unchanged (`LruDriven`, `LfuDriven`, `ArcDriven`,
  `TgDriven`, `SieveDriven`; `SameLru` and its like identify the actions of the two instances
  of a module, one with and one without its proofs), so the inductive invariants of all five
  hold throughout (`DInv`), with the frames of the run being `n_frames` and a scan of
  `sieve.c` being one for the access under way.
* `RowsCorrect`: that no row is below the optimum is not inductive; a policy may well be
  ahead of it in what it will need next. The invariant `Account` compares, for every
  distance `d`, how many of the pages held are used again by access `d` (`DueBy`): the
  optimum's faults plus those the policy holds never exceed the policy's faults plus those
  the optimum holds (`Tally`). An access keeps that for any policy that serves on demand
  (`TallyStep`), because the page the optimum evicts is due only when every page it held
  was (`OptimumKeepsDue`); when the trace ends nothing is due and the faults are left
  (`TallyEnd`). Each policy serves on demand by its refinement of DemandPaging
  (`EveryPolicyServes`). The optimum serves on demand too (`OptimumServes`), so it is the
  minimum. The rest of `Tally` is the count of cold misses while the pages fit.
  `tempograph.c` tells pages apart by `page % MAX_UNIQUE` only, so its row is compared with
  the references of the trace of indices (`Seen`): on page numbers that share indices it may
  fault less than an optimum that tells them apart.
  LRU's row follows from `ListIsRecentPrefix` and `Recent` (`LruCorrect`): the pages in
  front of a page on `recency` are those used since its last use, so a page is off the list
  exactly when there are at least `n_frames` of them.
* `ScanCorrect`: in a scan of more pages than frames no page is among the last `n_frames`
  accesses, so LRU misses each by its stack distance (`ScanIsFar`), and LFU, ARC and SIEVE
  are proved to hold just those pages: slots all used once and stamped in order, ARC's T1
  alone with no ghosts and an untouched target, an array with no bit set (`LfuScanned`,
  `ArcScanned`, `SieveScanned`).
* `ExitRows`: when the program has exited, the rows are those asked for. It is the safety
  part of `EveryRowPrinted`.

**LibCache** (any set of objects and sizes, any subset of the five algorithms):

* `QueueConsistent`, `OrderCorrect`: from the inductive invariant
  `IInv == CacheOk /\ PluginOk /\ ServingOk /\ QueueInOrder`. As for
  `lru.c`, the links thread a sequence (`Listed`), and each operation of `cacheObj.c` is the
  corresponding operation on sequences (`ObjectRemoved`, `ObjectMoved`, `ObjectPrepended`,
  `TailCut`).
  `occupied_byte` is a sum over the table, which one insertion or removal changes by one
  size (`TotalHeap`). `QueueInOrder` is not inductive alone: FIFO and LRU evict the tail
  they read from the list, which is the last of `born` or `used` only because the links
  thread them.
* `CandidateCorrect`: while a scan runs, the candidate is the cached object of the least
  frequency, the one met first from `at` on if there are several (`Foremost`, `Turns`).
  Sparing the object at `at` takes one from its frequency and sends it to the end of the
  turn, every other object is met one turn earlier, and the candidate stays foremost
  (`WornForemost`); the eviction comes at frequency 0, where the foremost object is the one
  at hand. This holds for Clock, which moves the spared object to the head, and for SIEVE,
  which moves its hand, by different lemmas on positions (`TailTurns`, `HandTurns`).
* `CongruentWeights`: as `WeightsCorrect`, with destinations modulo `DST_RANGE` and the self
  edge recognised by the full index.

**ParallelSim**: `UsesAreLive`, `NoCountLost`, `EveryTaskCounted`, `RowsCorrect`. The
invariant `IInv` says that a
task pushed is in the queue or with one thread, its cache live (`TasksApart`), that
what the caller has freed is used by nobody (`Lifetimes`), and that between `Lock` and
`Unlock` what a thread has read of `progress` is still its value (`MutexHeld`).
`RowsCorrect` needs more, since a row is made by many steps of a thread between steps of
all others. `RowsInv` says that every task is untouched (`Waiting`), run by a thread that
is somewhere along the task's course (`Along`), or has its final row. The course is the
warm-up trace followed by the trace; after `s` of its requests the cache is the newest
end of the log of misses that `RowOf` counts (`Mirrors`), and the row is the one of `s`
requests (`WarmRow`, `MeasuredRow`). `MirrorsNext` is the step: a request is held by the
cache if and only if it is among the last misses of the log. `WarmedUpEnds` shows that the
loop leaves the warm-up where `WarmedUp` counts, and `OwnTask` that what a thread does to
its task leaves the other tasks along theirs.

The loops of the code (`update_graph`, the walk, the sweep of a list) are recursive
functions; ListProofs proves once that such a function exists and how a property is
carried through it.

Model-checked only:

* what rests on fairness, which is out of the prover's reach: `ScanEnds`,
  `EveryRowPrinted`, `RequestsServed`, `CallReturns`, and the fairness of the abstract
  specification in `RefinesSecondChance`. Of the second and the last the safety part is
  proved (`ExitRows`, `SecondChances`);
* `TempoGraphKeepsSome`, which is not true for all constants: with `SAMPLE_SIZE` 1 the only
  frame sampled is the least recently used one, TempoGraph is LRU and the scan defeats it
  too. It is checked where the sample covers all the frames, as the 64 of the code does for
  up to 64 frames.

## What is assumed

* Page numbers are natural numbers. `-1` marks an empty frame in `tempograph.c`, `lfu.c`
  and `sieve.c`; a trace that holds it is outside the models. (In Lru any values but `NULL`
  may be pages, for a node goes by its page.)
* The number of frames is at least 1, and at most `MAX_FRAMES` for the array policies.
  `main.c` checks neither; beyond it the behaviour is undefined.
* `malloc` succeeds; counters (`int`) do not overflow within a trace of `MAX_TRACE` = 5
  million accesses; the chained hash maps and libCacheSim's hash table are their contents.
* `(uint16_t)v` in `tempograph.c` is the identity because `MAX_UNIQUE` is 4096. In the
  plugin it is not, and is modelled.
* GLib's thread pool runs each pushed task once, `g_thread_pool_free(pool, FALSE, TRUE)`
  waits for all of them, and a `GMutex` excludes. The unlocked read of `progress` returns a
  value that was written. At least one size or cache is passed (`TasksAssumption`).
* The caches of ParallelSim are FIFO caches of unit-size objects: the smallest state in
  which a row depends on every earlier request. The trace's clock advances by one second
  each `REQS_PER_SEC` requests.

## Not modelled

* Timing, formatting of the output, parsing of options other than `-a`, `-f`, `-w`, and the
  scripts.
* libCacheSim beyond the files above. It is vendored, TempoGraph neither changes nor calls
  it, and it is by far the larger part of the repository's lines (hash tables, hash
  functions, some forty eviction algorithms, prefetchers, trace readers, analysers). The
  models cover the code this project wrote, and of libCacheSim what the plugin
  stands on.
* Of the modelled libCacheSim files: expiry (TTL, off by default), admission,
  prefetching, metadata sizes (`consider_obj_metadata` is false), eviction-age tracking, and
  the list operations no modelled algorithm calls.
