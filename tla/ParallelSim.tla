----------------------------- MODULE ParallelSim -----------------------------
(***************************************************************************)
(* libCacheSim's parallel simulation (profiler/simulator.c).  The caller   *)
(* of simulate_at_multi_sizes or simulate_with_multi_caches pushes a task  *)
(* per cache to a pool of threads; each thread replays its own clone of    *)
(* the trace through the cache of its task (_simulate), writes the row of  *)
(* the task and counts it in progress under a mutex.  The caller spins on  *)
(* progress, waits for the pool and frees what the tasks share.            *)
(***************************************************************************)
EXTENDS Integers, Sequences, FiniteSets

CONSTANTS
  Threads, NoThread,   \* the threads of the pool; what holds a free mutex
  TaskCounts,          \* num_of_sizes, num_of_caches
  Objs,
  MAX_LEN, MAX_WARMUP, \* bounds on the lengths of the trace and of the warm-up trace
  WarmupReqs,          \* values of n_warmup_req
  WarmupSecs,          \* values of warmup_sec
  REQS_PER_SEC, START  \* clock times of the trace

ASSUME ThreadsAssumption == IsFiniteSet(Threads) /\ Threads # {} /\ NoThread \notin Threads
ASSUME TasksAssumption   == TaskCounts \subseteq Nat \ {0}
ASSUME TraceAssumption   == MAX_LEN \in Nat /\ MAX_WARMUP \in Nat
ASSUME WarmupAssumption  == WarmupReqs \subseteq Nat /\ WarmupSecs \subseteq Nat
ASSUME ClockAssumption   == REQS_PER_SEC \in Nat \ {0} /\ START \in Nat

VARIABLES
  \* the arguments of the call; an empty warmup_reader stands for none
  n, reader, warmup_reader, n_warmup_req, warmup_sec,
  at_sizes,            \* simulate_at_multi_sizes, which creates the caches itself
  free_cache_when_finish,
  main,                \* where the caller is
  i,                   \* the task it is pushing
  queue,               \* the tasks of the pool no thread has taken
  params,              \* params, its caches array and its mutex: "live" or "freed"
  mtx,                 \* the thread that holds the mutex
  progress,
  result,              \* the rows
  cache,               \* the cache of each task: its state and its objects, newest first
  pc, task, k, read    \* each thread: where it is, its task, its next request and the
                       \* value of progress it has read

arguments == <<n, reader, warmup_reader, n_warmup_req, warmup_sec, at_sizes,
               free_cache_when_finish>>
caller    == <<main, i>>
threads   == <<pc, task, k, read>>
vars      == <<arguments, caller, queue, params, mtx, progress, result, cache, threads>>

NoTask   == 0
EmptyRow == [n_warmup_req |-> 0, n_req |-> 0, n_miss |-> 0, n_obj |-> 0]

Traces(max) == UNION {[1..len -> Objs] : len \in 0..max}

\* The two ways to warm up by requests of the trace are exclusive.
Init ==
  /\ n \in TaskCounts
  /\ reader \in Traces(MAX_LEN) /\ warmup_reader \in Traces(MAX_WARMUP)
  /\ n_warmup_req \in WarmupReqs /\ warmup_sec \in WarmupSecs
  /\ 0 \in {n_warmup_req, warmup_sec}
  /\ at_sizes \in BOOLEAN /\ free_cache_when_finish \in BOOLEAN
  /\ at_sizes => free_cache_when_finish
  /\ main = "push" /\ i = 1
  /\ queue = <<>> /\ params = "live" /\ mtx = NoThread /\ progress = 0
  /\ result = [t \in 1..n |-> EmptyRow]
  /\ cache = [t \in 1..n |-> [state |-> IF at_sizes THEN "none" ELSE "live", objs |-> <<>>]]
  /\ pc = [t \in Threads |-> "idle"] /\ task = [t \in Threads |-> NoTask]
  /\ k = [t \in Threads |-> 1] /\ read = [t \in Threads |-> 0]

-------------------------------------------------------------------------------
(* The caller.                                                             *)

Create ==
  /\ main = "push" /\ i <= n /\ cache[i].state = "none"
  /\ cache' = [cache EXCEPT ![i].state = "live"]
  /\ UNCHANGED <<arguments, caller, queue, params, mtx, progress, result, threads>>

Push ==
  /\ main = "push" /\ i <= n /\ cache[i].state # "none"
  /\ queue' = Append(queue, i) /\ i' = i + 1
  /\ UNCHANGED <<arguments, main, params, mtx, progress, result, cache, threads>>

AllPushed ==
  /\ main = "push" /\ i > n
  /\ main' = "wait"
  /\ UNCHANGED <<arguments, i, queue, params, mtx, progress, result, cache, threads>>

\* The loop that reads progress without the mutex.
Spin == main = "wait" /\ progress < n - 1 /\ UNCHANGED vars

Waited ==
  /\ main = "wait" /\ progress >= n - 1
  /\ main' = "join"
  /\ UNCHANGED <<arguments, i, queue, params, mtx, progress, result, cache, threads>>

\* Mutant of PoolDone: g_thread_pool_free is not asked to wait for running tasks.
PoolDrained == queue = <<>>
\* g_thread_pool_free(pool, FALSE, TRUE): no task is left or running.
PoolDone == queue = <<>> /\ \A t \in Threads : pc[t] = "idle"

Join ==
  /\ main = "join" /\ PoolDone
  /\ main' = "clear"
  /\ UNCHANGED <<arguments, i, queue, params, mtx, progress, result, cache, threads>>

Clear ==
  /\ main = "clear"
  /\ params' = "freed" /\ main' = "returned"
  /\ UNCHANGED <<arguments, i, queue, mtx, progress, result, cache, threads>>

Returned == main = "returned" /\ UNCHANGED vars

Caller == Create \/ Push \/ AllPushed \/ Spin \/ Waited \/ Join \/ Clear

-------------------------------------------------------------------------------
(* A thread of the pool: _simulate.                                        *)

clock_time(r) == START + (r \div REQS_PER_SEC)

\* The cache of task b holds b objects, all of one size, in FIFO order.
Holds(b, o) == \E j \in DOMAIN cache[b].objs : cache[b].objs[j] = o
Got(b, o) ==
  IF Holds(b, o) THEN cache
  ELSE [cache EXCEPT ![b].objs =
          [j \in 1..(IF Len(@) < b THEN Len(@) + 1 ELSE b) |-> IF j = 1 THEN o ELSE @[j - 1]]]

Goes(t, to) == pc' = [pc EXCEPT ![t] = to]

Take(t) ==
  /\ pc[t] = "idle" /\ queue # <<>>
  /\ task' = [task EXCEPT ![t] = Head(queue)] /\ queue' = Tail(queue)
  /\ k' = [k EXCEPT ![t] = 1]
  /\ Goes(t, "warmup_reader")
  /\ UNCHANGED <<arguments, caller, params, mtx, progress, result, cache, read>>

\* A request is served by the cache and not measured.
WarmUpWith(t, o) ==
  /\ cache' = Got(task[t], o)
  /\ result' = [result EXCEPT ![task[t]].n_warmup_req = @ + 1]
  /\ k' = [k EXCEPT ![t] = @ + 1]
  /\ UNCHANGED <<arguments, caller, queue, params, mtx, progress, pc, task, read>>

WarmUpFromReader(t) ==
  /\ pc[t] = "warmup_reader" /\ k[t] <= Len(warmup_reader)
  /\ WarmUpWith(t, warmup_reader[k[t]])

\* The first request of the trace is read.
BeginTrace(t) ==
  /\ pc[t] = "warmup_reader" /\ k[t] > Len(warmup_reader)
  /\ Goes(t, "warmup") /\ k' = [k EXCEPT ![t] = 1]
  /\ UNCHANGED <<arguments, caller, queue, params, mtx, progress, result, cache, task, read>>

\* Mutant of Warming: both limits have to be open.
WarmingBoth(r) == r - 1 < n_warmup_req /\ clock_time(r) - clock_time(1) < warmup_sec
\* Request r still belongs to the warm-up when it is reached.
Warming(r) == r - 1 < n_warmup_req \/ clock_time(r) - clock_time(1) < warmup_sec

WarmUp(t) ==
  /\ pc[t] = "warmup" /\ k[t] <= Len(reader) /\ Warming(k[t])
  /\ WarmUpWith(t, reader[k[t]])

EndWarmUp(t) ==
  /\ pc[t] = "warmup" /\ (k[t] > Len(reader) \/ ~Warming(k[t]))
  /\ Goes(t, "measure")
  /\ UNCHANGED <<arguments, caller, queue, params, mtx, progress, result, cache, task, k, read>>

Measure(t) ==
  /\ pc[t] = "measure" /\ k[t] <= Len(reader)
  /\ cache' = Got(task[t], reader[k[t]])
  /\ result' = [result EXCEPT
       ![task[t]].n_req  = @ + 1,
       ![task[t]].n_miss = IF Holds(task[t], reader[k[t]]) THEN @ ELSE @ + 1]
  /\ k' = [k EXCEPT ![t] = @ + 1]
  /\ UNCHANGED <<arguments, caller, queue, params, mtx, progress, pc, task, read>>

EndTrace(t) ==
  /\ pc[t] = "measure" /\ k[t] > Len(reader)
  /\ result' = [result EXCEPT ![task[t]].n_obj = Len(cache[task[t]].objs)]
  /\ Goes(t, "lock")
  /\ UNCHANGED <<arguments, caller, queue, params, mtx, progress, cache, task, k, read>>

\* Mutant of MutexFree: progress is counted without the mutex.
MutexIgnored == TRUE
MutexFree == mtx = NoThread

Lock(t) ==
  /\ pc[t] = "lock" /\ MutexFree
  /\ mtx' = t /\ Goes(t, "read")
  /\ UNCHANGED <<arguments, caller, queue, params, progress, result, cache, task, k, read>>

\* (*progress)++ reads, then writes.
Read(t) ==
  /\ pc[t] = "read"
  /\ read' = [read EXCEPT ![t] = progress] /\ Goes(t, "write")
  /\ UNCHANGED <<arguments, caller, queue, params, mtx, progress, result, cache, task, k>>

Write(t) ==
  /\ pc[t] = "write"
  /\ progress' = read[t] + 1 /\ Goes(t, "unlock")
  /\ read' = [read EXCEPT ![t] = 0]
  /\ UNCHANGED <<arguments, caller, queue, params, mtx, result, cache, task, k>>

Unlock(t) ==
  /\ pc[t] = "unlock"
  /\ mtx' = NoThread /\ Goes(t, "finish")
  /\ UNCHANGED <<arguments, caller, queue, params, progress, result, cache, task, k, read>>

Finish(t) ==
  /\ pc[t] = "finish"
  /\ cache' = IF free_cache_when_finish
              THEN [cache EXCEPT ![task[t]] = [state |-> "freed", objs |-> <<>>]] ELSE cache
  /\ Goes(t, "idle") /\ task' = [task EXCEPT ![t] = NoTask] /\ k' = [k EXCEPT ![t] = 1]
  /\ UNCHANGED <<arguments, caller, queue, params, mtx, progress, result, read>>

Thread(t) ==
  \/ Take(t) \/ WarmUpFromReader(t) \/ BeginTrace(t) \/ WarmUp(t) \/ EndWarmUp(t)
  \/ Measure(t) \/ EndTrace(t) \/ Lock(t) \/ Read(t) \/ Write(t) \/ Unlock(t) \/ Finish(t)

Next == Caller \/ (\E t \in Threads : Thread(t)) \/ Returned

\* The caller and every thread of the pool run on.
Spec == Init /\ [][Next]_vars /\ WF_vars(Caller) /\ \A t \in Threads : WF_vars(Thread(t))

-------------------------------------------------------------------------------

\* The misses of a FIFO cache of b objects, as a log: a request misses when its object
\* is not among the last b that missed.
MissLog(b, stream) ==
  LET log[j \in 0..Len(stream)] ==
        IF j = 0 THEN <<>>
        ELSE IF \E l \in DOMAIN log[j - 1] : l > Len(log[j - 1]) - b /\ log[j - 1][l] = stream[j]
             THEN log[j - 1]
             ELSE Append(log[j - 1], stream[j])
  IN log

\* The requests of the trace that warm up: a prefix, up to the first one neither in the
\* first n_warmup_req nor in the first warmup_sec seconds.
WarmedUp ==
  Cardinality({r \in DOMAIN reader : \A j \in 1..r :
    j <= n_warmup_req \/ clock_time(j) < START + (1 \div REQS_PER_SEC) + warmup_sec})

RowOf(b) ==
  LET stream == warmup_reader \o reader
      before == Len(warmup_reader) + WarmedUp
      log    == MissLog(b, stream)
      missed == Len(log[Len(stream)])
  IN [n_warmup_req |-> before,
      n_req        |-> Len(stream) - before,
      n_miss       |-> missed - Len(log[before]),
      n_obj        |-> IF missed < b THEN missed ELSE b]

\* The rows the call returns are those of a replay of each task alone, whichever threads
\* served the tasks and in whatever order, and every task was counted.
RowsAsIfAlone ==
  main = "returned" =>
    /\ \A b \in 1..n : result[b] = RowOf(b)
    /\ progress = n

\* A running task finds what it uses: params with its mutex and its array of caches
\* until the thread is back in the pool, and its own cache, which no other thread uses
\* (simulator.c:131-134, 226-230).
NothingUsedAfterFree ==
  \A t \in Threads : pc[t] # "idle" =>
    /\ params = "live"
    /\ cache[task[t]].state = "live"
    /\ \A u \in Threads : pc[u] # "idle" /\ task[u] = task[t] => u = t

\* The call returns: the caller's spin on progress ends although it asks for one task
\* less than there are and reads without the mutex.
CallReturns == <>(main = "returned")
===============================================================================
