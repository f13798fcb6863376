-------------------------- MODULE ParallelSimProofs --------------------------
(***************************************************************************)
(* Proofs about the parallel simulation for any number of tasks and        *)
(* threads and any trace: no running task uses what was freed, no count of *)
(* progress is lost, and every row is the one its task alone would have.   *)
(***************************************************************************)
EXTENDS ParallelSim, ListProofs

PCs == {"idle", "warmup_reader", "warmup", "measure", "lock", "read", "write", "unlock",
        "finish"}
CacheType == [1..n -> [state : {"none", "live", "freed"}, objs : Seq(Objs)]]

TypeOk ==
  /\ n \in Nat \ {0} /\ reader \in Seq(Objs) /\ warmup_reader \in Seq(Objs)
  /\ main \in {"push", "wait", "join", "clear", "returned"} /\ i \in 1..(n + 1)
  /\ queue \in Seq(1..n) /\ progress \in Nat
  /\ cache \in CacheType
  /\ pc \in [Threads -> PCs] /\ task \in [Threads -> 0..n]
  /\ k \in [Threads -> Nat \ {0}] /\ read \in [Threads -> Nat]

Running(t) == pc[t] # "idle"

\* A task that was pushed is on the queue or run by one thread, its cache live.
TasksApart ==
  /\ \A t \in Threads : Running(t) =>
       task[t] \in 1..(i - 1) /\ cache[task[t]].state = "live"
  /\ \A j \in DOMAIN queue : queue[j] < i /\ cache[queue[j]].state = "live"
  /\ \A t, u \in Threads : Running(t) /\ Running(u) /\ task[t] = task[u] => t = u
  /\ \A t \in Threads, j \in DOMAIN queue : Running(t) => queue[j] # task[t]
  /\ \A j, l \in DOMAIN queue : queue[j] = queue[l] => j = l
  /\ \A b \in i..n : cache[b].state # "freed"

\* What the caller has freed is used by nobody.
Lifetimes ==
  /\ main \in {"clear", "returned"} => queue = <<>> /\ \A t \in Threads : ~Running(t)
  /\ main # "returned" => params = "live"
  /\ main # "push" => i = n + 1

\* Between Lock and Unlock a thread is alone, and what it read of progress stays true.
MutexHeld ==
  /\ \A t \in Threads : pc[t] \in {"read", "write", "unlock"} => mtx = t
  /\ \A t \in Threads : pc[t] = "write" => read[t] = progress

IInv == TypeOk /\ TasksApart /\ Lifetimes /\ MutexHeld

-------------------------------------------------------------------------------

\* A get changes the objects of one cache and no cache's state.
LEMMA GotType ==
  ASSUME NEW b \in 1..n, NEW o \in Objs, n \in Nat, cache \in CacheType
  PROVE  Got(b, o) \in CacheType /\ \A x \in 1..n : Got(b, o)[x].state = cache[x].state
<1> DEFINE old == cache[b].objs
           len == IF Len(old) < b THEN Len(old) + 1 ELSE b
           new == [j \in 1..len |-> IF j = 1 THEN o ELSE old[j - 1]]
<1>1. old \in Seq(Objs) /\ len \in Nat /\ len <= Len(old) + 1
  BY DEF CacheType
<1>2. \A j \in 1..len : j # 1 => j - 1 \in 1..Len(old)
  BY <1>1
<1>3. new \in [1..len -> Objs]
  BY <1>1, <1>2
<1>4. new \in Seq(Objs)
  <2> HIDE DEF new, len
  <2> QED BY <1>1, <1>3
<1>5. Got(b, o) = cache \/ Got(b, o) = [cache EXCEPT ![b].objs = new]
  BY DEF Got
<1> HIDE DEF new
<1>6. CASE Got(b, o) = cache
  BY <1>6
<1>7. CASE Got(b, o) = [cache EXCEPT ![b].objs = new]
  <2>1. PICK q \in Seq(Objs) : q = new
    BY <1>4
  <2>2. Got(b, o) = [cache EXCEPT ![b] = [cache[b] EXCEPT !.objs = q]]
    BY <1>7, <2>1
  <2>3. PICK r \in [state : {"none", "live", "freed"}, objs : Seq(Objs)] : r = cache[b]
    BY DEF CacheType
  <2>4. PICK x : x = [r EXCEPT !.objs = q]
    OBVIOUS
  <2>5. x \in [state : {"none", "live", "freed"}, objs : Seq(Objs)] /\ x.state = r.state
    BY <2>4
  <2>6. Got(b, o) = [cache EXCEPT ![b] = x]
    BY <2>2, <2>3, <2>4
  <2> QED BY <2>3, <2>5, <2>6 DEF CacheType
<1> QED BY <1>5, <1>6, <1>7

\* A trace is a sequence of objects.
LEMMA TraceType == ASSUME NEW max \in Nat, NEW s \in Traces(max) PROVE s \in Seq(Objs)
BY DEF Traces

\* The initial states satisfy the inductive invariant.
LEMMA InitIInv == Init => IInv
<1> SUFFICES ASSUME Init PROVE IInv
  OBVIOUS
<1>1. TypeOk
  <2>1. n \in Nat \ {0}
    BY TasksAssumption DEF Init
  <2>2. reader \in Seq(Objs) /\ warmup_reader \in Seq(Objs)
    BY TraceType, TraceAssumption DEF Init
  <2>3. cache \in CacheType
    BY <2>1 DEF Init, CacheType
  <2> QED BY <2>1, <2>2, <2>3 DEF Init, TypeOk, PCs, NoTask
<1>2. TasksApart
  BY <1>1 DEF Init, TasksApart, TypeOk, Running
<1> QED BY <1>1, <1>2 DEF Init, IInv, Lifetimes, MutexHeld, Running

-------------------------------------------------------------------------------
(* Every step keeps the invariant.                                         *)

\* The caller's steps.
LEMMA CallerIInv == IInv /\ Caller => IInv'
<1> SUFFICES ASSUME IInv, Caller PROVE IInv'
  OBVIOUS
<1> USE DEF IInv, Running
<1>1. CASE Create
  <2>0. i \in 1..n /\ n' = n /\ cache' = [cache EXCEPT ![i].state = "live"]
    BY <1>1 DEF Create, TypeOk, arguments
  <2>1. cache' \in CacheType /\ n' = n /\ i \in 1..n
    BY <2>0 DEF TypeOk, CacheType
  <2>2. \A b \in 1..n : b # i => cache'[b] = cache[b]
    BY <1>1 DEF Create, TypeOk, CacheType
  <2>3. cache'[i].state = "live"
    BY <1>1, <2>1 DEF Create, TypeOk, CacheType
  <2>4. TypeOk'
    BY <1>1, <2>1 DEF Create, TypeOk, CacheType, arguments, caller, threads
  <2>5. TasksApart'
    BY <1>1, <2>1, <2>2, <2>3 DEF Create, TypeOk, TasksApart, arguments, caller, threads
  <2> QED BY <1>1, <2>4, <2>5 DEF Create, Lifetimes, MutexHeld, arguments, caller, threads
<1>2. CASE Push
  <2>1. i \in 1..n /\ i' = i + 1 /\ n' = n /\ queue' \in Seq(1..n)
    BY <1>2 DEF Push, TypeOk, arguments
  <2>2. Len(queue') = Len(queue) + 1 /\ queue'[Len(queue) + 1] = i
        /\ \A j \in DOMAIN queue : queue'[j] = queue[j]
    BY <1>2 DEF Push, TypeOk
  <2>3. TypeOk'
    BY <1>2, <2>1 DEF Push, TypeOk, CacheType, arguments, threads
  <2>4. cache[i].state = "live"
    BY <1>2, <2>1 DEF Push, TypeOk, TasksApart, CacheType
  <2>5. \A j \in DOMAIN queue' : j \in DOMAIN queue \/ j = Len(queue) + 1
    BY <2>1, <2>2 DEF TypeOk
  <2>6. TasksApart'
    <3>1. pc' = pc /\ task' = task /\ cache' = cache
      BY <1>2 DEF Push, threads
    <3>2. i \in Nat /\ \A j \in DOMAIN queue : queue[j] \in 1..n /\ queue[j] < i
      BY <2>1 DEF TypeOk, TasksApart
    <3>3. \A j \in DOMAIN queue' : queue'[j] = i \/ (j \in DOMAIN queue /\ queue'[j] = queue[j])
      BY <2>2, <2>5
    <3>4. \A t \in Threads : Running(t)' =>
            task'[t] \in 1..(i' - 1) /\ cache'[task'[t]].state = "live"
      BY <2>1, <3>1, <3>2 DEF TasksApart
    <3>5. \A j \in DOMAIN queue' : queue'[j] < i' /\ cache'[queue'[j]].state = "live"
      BY <2>1, <2>4, <3>1, <3>2, <3>3 DEF TasksApart
    <3>6. \A t \in Threads, j \in DOMAIN queue' : Running(t)' => queue'[j] # task'[t]
      BY <3>1, <3>2, <3>3 DEF TasksApart
    <3>7. \A j, l \in DOMAIN queue' : queue'[j] = queue'[l] => j = l
      <4> SUFFICES ASSUME NEW j \in DOMAIN queue', NEW l \in DOMAIN queue', queue'[j] = queue'[l]
                   PROVE  j = l
        OBVIOUS
      <4>1. j = Len(queue) + 1 => queue'[j] = i
        BY <2>2
      <4>2. l = Len(queue) + 1 => queue'[l] = i
        BY <2>2
      <4>3. j \in DOMAIN queue => queue'[j] = queue[j] /\ queue[j] # i
        BY <2>2, <3>2
      <4>4. l \in DOMAIN queue => queue'[l] = queue[l] /\ queue[l] # i
        BY <2>2, <3>2
      <4> QED BY <2>5, <4>1, <4>2, <4>3, <4>4 DEF TasksApart
    <3>8. \A b \in i'..n' : cache'[b].state # "freed"
      BY <2>1, <3>1, <3>2 DEF TasksApart, TypeOk
    <3> QED BY <3>1, <3>4, <3>5, <3>6, <3>7, <3>8 DEF TasksApart
  <2> QED BY <1>2, <2>3, <2>6 DEF Push, Lifetimes, MutexHeld, arguments, threads
<1>3. CASE AllPushed \/ Waited \/ Join \/ Clear
  <2>1. UNCHANGED <<arguments, i, queue, mtx, progress, cache, threads>>
        /\ main' \in {"wait", "join", "clear", "returned"}
    BY <1>3 DEF AllPushed, Waited, Join, Clear
  <2>3. TypeOk'
    BY <2>1 DEF TypeOk, CacheType, arguments, threads
  <2>4. TasksApart'
    BY <2>1 DEF TasksApart, arguments, threads
  <2>5. MutexHeld'
    BY <2>1 DEF MutexHeld, threads
  <2>2. Lifetimes'
    BY <1>3 DEF AllPushed, Waited, Join, Clear, Lifetimes, PoolDone, TypeOk, arguments, threads
  <2> QED BY <2>2, <2>3, <2>4, <2>5
<1>4. CASE Spin
  BY <1>4 DEF Spin, vars, arguments, caller, threads, TypeOk, CacheType, TasksApart, Lifetimes,
              MutexHeld
<1> QED BY <1>1, <1>2, <1>3, <1>4 DEF Caller

\* A thread that moves on within its task, its cache in the same state.
LEMMA MovesOn ==
  ASSUME IInv, NEW t \in Threads, Running(t),
         NEW to \in PCs \ {"idle"}, Goes(t, to) \/ pc' = pc,
         cache' \in CacheType, \A x \in 1..n : cache'[x].state = cache[x].state,
         UNCHANGED <<arguments, caller, queue, params, task>>
  PROVE  TasksApart' /\ Lifetimes'
<1>1. \A u \in Threads : Running(u)' = Running(u)
  BY DEF IInv, TypeOk, Running, Goes, PCs
<1>2. TasksApart'
  <2>1. \A j \in DOMAIN queue : queue[j] \in 1..n
    BY DEF IInv, TypeOk
  <2>2. \A b \in i..n : b \in 1..n
    BY DEF IInv, TypeOk
  <2>3. \A u \in Threads : Running(u) => task[u] \in 1..n
    BY DEF IInv, TypeOk, TasksApart
  <2> QED BY <1>1, <2>1, <2>2, <2>3 DEF IInv, TasksApart, arguments, caller
<1>3. Lifetimes'
  BY <1>1 DEF IInv, Lifetimes, arguments, caller
<1> QED BY <1>2, <1>3

\* A thread's steps.
LEMMA ThreadIInv == ASSUME IInv, NEW t \in Threads, Thread(t) PROVE IInv'
<1>1. CASE Take(t)
  <2>1. queue \in Seq(1..n) /\ queue # <<>> /\ queue' = Tail(queue) /\ n' = n /\ i' = i
    BY <1>1 DEF Take, IInv, TypeOk, arguments, caller
  <2>2. Len(queue) > 0 /\ queue' \in Seq(1..n) /\ Len(queue') = Len(queue) - 1
        /\ \A j \in 1..Len(queue') : queue'[j] = queue[j + 1] /\ j + 1 \in 1..Len(queue)
    <3>1. Len(queue) \in Nat /\ Len(queue) # 0
      BY <2>1
    <3>2. queue' \in Seq(1..n) /\ Len(queue') = Len(queue) - 1
      BY <2>1
    <3>3. \A j \in 1..(Len(queue) - 1) : queue'[j] = queue[j + 1]
      BY <2>1
    <3> QED BY <3>1, <3>2, <3>3
  <2>3. Head(queue) = queue[1] /\ 1 \in DOMAIN queue /\ queue[1] \in 1..n
    <3>1. 1 \in DOMAIN queue
      BY <2>1, <2>2
    <3>2. ASSUME NEW m \in Nat, NEW s \in Seq(1..m), 1 \in DOMAIN s
          PROVE  Head(s) = s[1] /\ s[1] \in 1..m
      BY <3>2
    <3>3. n \in Nat
      BY DEF IInv, TypeOk
    <3> QED BY <2>1, <3>1, <3>2, <3>3
  <2>4. TypeOk'
    <3>1. pc' \in [Threads -> PCs]
      BY <1>1 DEF Take, Goes, IInv, TypeOk, PCs
    <3>2. task' \in [Threads -> 0..n]
      BY <1>1, <2>3 DEF Take, IInv, TypeOk
    <3>3. k' \in [Threads -> Nat \ {0}]
      BY <1>1 DEF Take, IInv, TypeOk
    <3>4. cache' = cache /\ UNCHANGED <<reader, warmup_reader, main, progress, read>>
      BY <1>1 DEF Take, arguments, caller
    <3> QED BY <2>1, <2>2, <3>1, <3>2, <3>3, <3>4 DEF IInv, TypeOk, CacheType
  <2>5. pc' = [pc EXCEPT ![t] = "warmup_reader"] /\ task' = [task EXCEPT ![t] = queue[1]]
    BY <1>1, <2>3 DEF Take, Goes
  <2>6. \A u \in Threads : u # t => pc'[u] = pc[u] /\ task'[u] = task[u]
    BY <2>5 DEF IInv, TypeOk
  <2>7. task'[t] = queue[1] /\ ~Running(t) /\ cache' = cache
    BY <1>1, <2>5 DEF Take, IInv, TypeOk, Running
  <2>8. TasksApart'
    <3>1. \A u \in Threads : Running(u)' =>
            task'[u] \in 1..(i - 1) /\ cache[task'[u]].state = "live"
      <4>1. queue[1] \in 1..(i - 1) /\ cache[queue[1]].state = "live"
        BY <2>3 DEF IInv, TasksApart, TypeOk
      <4> QED BY <2>6, <2>7, <4>1 DEF IInv, TasksApart, Running
    <3>2. \A j \in DOMAIN queue' : queue'[j] < i /\ cache[queue'[j]].state = "live"
      BY <2>1, <2>2 DEF IInv, TasksApart
    <3>3. \A u, w \in Threads : Running(u)' /\ Running(w)' /\ task'[u] = task'[w] => u = w
      BY <2>3, <2>6, <2>7 DEF IInv, TasksApart, Running
    <3>4. \A u \in Threads, j \in DOMAIN queue' : Running(u)' => queue'[j] # task'[u]
      <4> SUFFICES ASSUME NEW u \in Threads, NEW j \in DOMAIN queue', Running(u)'
                   PROVE  queue'[j] # task'[u]
        OBVIOUS
      <4>1. j \in Nat /\ j + 1 \in DOMAIN queue /\ queue'[j] = queue[j + 1] /\ j + 1 # 1
        BY <2>1, <2>2
      <4>2. CASE u = t
        BY <2>3, <2>7, <4>1, <4>2 DEF IInv, TasksApart
      <4>3. CASE u # t
        BY <2>6, <4>1, <4>3 DEF IInv, TasksApart, Running
      <4> QED BY <4>2, <4>3
    <3>5. \A j, l \in DOMAIN queue' : queue'[j] = queue'[l] => j = l
      <4> SUFFICES ASSUME NEW j \in DOMAIN queue', NEW l \in DOMAIN queue', queue'[j] = queue'[l]
                   PROVE  j = l
        OBVIOUS
      <4>1. j \in Nat /\ l \in Nat /\ j + 1 \in DOMAIN queue /\ l + 1 \in DOMAIN queue
            /\ queue[j + 1] = queue[l + 1]
        BY <2>1, <2>2
      <4>2. j + 1 = l + 1
        BY <4>1 DEF IInv, TasksApart
      <4> QED BY <4>1, <4>2
    <3> QED BY <2>1, <2>7, <3>1, <3>2, <3>3, <3>4, <3>5 DEF IInv, TasksApart
  <2>9. Lifetimes' /\ MutexHeld'
    BY <1>1, <2>1, <2>5, <2>6 DEF Take, IInv, Lifetimes, MutexHeld, TypeOk, Running, arguments,
                                  caller
  <2> QED BY <2>4, <2>8, <2>9 DEF IInv
<1>2. ASSUME NEW o \in Objs, WarmUpWith(t, o), pc[t] \in {"warmup_reader", "warmup"} PROVE IInv'
  <2>1. task[t] \in 1..n /\ Running(t) /\ n \in Nat /\ cache \in CacheType
    BY <1>2 DEF IInv, TypeOk, TasksApart, Running
  <2>2. cache' \in CacheType /\ \A x \in 1..n : cache'[x].state = cache[x].state
    BY <1>2, <2>1, GotType DEF WarmUpWith
  <2>3. TasksApart' /\ Lifetimes'
    BY <1>2, <2>1, <2>2, MovesOn DEF WarmUpWith, PCs
  <2>4. TypeOk'
    <3>1. UNCHANGED <<n, reader, warmup_reader, main, i, queue, progress, pc, task, read>>
      BY <1>2 DEF WarmUpWith, arguments, caller
    <3>2. k' \in [Threads -> Nat \ {0}]
      BY <1>2 DEF WarmUpWith, IInv, TypeOk
    <3> QED BY <2>2, <3>1, <3>2 DEF IInv, TypeOk, CacheType
  <2>5. MutexHeld'
    BY <1>2 DEF WarmUpWith, IInv, MutexHeld
  <2> QED BY <2>3, <2>4, <2>5 DEF IInv
<1>3. CASE WarmUpFromReader(t)
  <2>1. warmup_reader[k[t]] \in Objs
    BY <1>3 DEF WarmUpFromReader, IInv, TypeOk
  <2> QED BY <1>2, <1>3, <2>1 DEF WarmUpFromReader
<1>4. CASE WarmUp(t)
  <2>1. reader[k[t]] \in Objs
    BY <1>4 DEF WarmUp, IInv, TypeOk
  <2> QED BY <1>2, <1>4, <2>1 DEF WarmUp
<1>5. CASE Measure(t)
  <2>1. task[t] \in 1..n /\ Running(t) /\ n \in Nat /\ cache \in CacheType /\ reader[k[t]] \in Objs
    BY <1>5 DEF Measure, IInv, TypeOk, TasksApart, Running
  <2>2. cache' \in CacheType /\ \A x \in 1..n : cache'[x].state = cache[x].state
    BY <1>5, <2>1, GotType DEF Measure
  <2>3. TasksApart' /\ Lifetimes'
    BY <1>5, <2>1, <2>2, MovesOn DEF Measure, PCs
  <2>4. TypeOk'
    <3>1. UNCHANGED <<n, reader, warmup_reader, main, i, queue, progress, pc, task, read>>
      BY <1>5 DEF Measure, arguments, caller
    <3>2. k' \in [Threads -> Nat \ {0}]
      BY <1>5 DEF Measure, IInv, TypeOk
    <3> QED BY <2>2, <3>1, <3>2 DEF IInv, TypeOk, CacheType
  <2>5. MutexHeld'
    BY <1>5 DEF Measure, IInv, MutexHeld
  <2> QED BY <2>3, <2>4, <2>5 DEF IInv
<1>6. CASE BeginTrace(t) \/ EndWarmUp(t) \/ EndTrace(t) \/ Lock(t) \/ Read(t) \/ Write(t)
           \/ Unlock(t)
  <2> DEFINE to == pc'[t]
  <2>1. to \in PCs \ {"idle"} /\ Goes(t, to) /\ Running(t)
    BY <1>6 DEF BeginTrace, EndWarmUp, EndTrace, Lock, Read, Write, Unlock, Goes, PCs, IInv,
                TypeOk, Running
  <2>2. UNCHANGED <<arguments, caller, queue, params, task, cache>>
    BY <1>6 DEF BeginTrace, EndWarmUp, EndTrace, Lock, Read, Write, Unlock
  <2>3. TasksApart' /\ Lifetimes'
    <3> HIDE DEF to
    <3> QED BY <2>1, <2>2, MovesOn DEF IInv, TypeOk
  <2>4. TypeOk'
    <3>1. pc' \in [Threads -> PCs]
      BY <2>1 DEF Goes, IInv, TypeOk, PCs
    <3>2. k' \in [Threads -> Nat \ {0}]
      BY <1>6 DEF BeginTrace, EndWarmUp, EndTrace, Lock, Read, Write, Unlock, IInv, TypeOk
    <3>3. read' \in [Threads -> Nat] /\ progress' \in Nat
      <4>1. CASE Read(t)
        BY <4>1 DEF Read, IInv, TypeOk
      <4>2. CASE Write(t)
        BY <4>2 DEF Write, IInv, TypeOk
      <4>3. CASE BeginTrace(t) \/ EndWarmUp(t) \/ EndTrace(t) \/ Lock(t) \/ Unlock(t)
        BY <4>3 DEF BeginTrace, EndWarmUp, EndTrace, Lock, Unlock, IInv, TypeOk
      <4> QED BY <1>6, <4>1, <4>2, <4>3
    <3> QED BY <2>2, <3>1, <3>2, <3>3 DEF IInv, TypeOk, CacheType, arguments, caller
  <2>5. MutexHeld'
    <3>1. CASE BeginTrace(t) \/ EndWarmUp(t) \/ EndTrace(t)
      BY <3>1 DEF BeginTrace, EndWarmUp, EndTrace, Goes, IInv, TypeOk, MutexHeld
    <3>2. CASE Lock(t)
      BY <3>2, ThreadsAssumption DEF Lock, MutexFree, Goes, IInv, TypeOk, MutexHeld
    <3>3. CASE Read(t)
      BY <3>3 DEF Read, Goes, IInv, TypeOk, MutexHeld
    <3>4. CASE Write(t)
      BY <3>4 DEF Write, Goes, IInv, TypeOk, MutexHeld
    <3>5. CASE Unlock(t)
      BY <3>5 DEF Unlock, Goes, IInv, TypeOk, MutexHeld
    <3> QED BY <1>6, <3>1, <3>2, <3>3, <3>4, <3>5
  <2> QED BY <2>3, <2>4, <2>5 DEF IInv
<1>7. CASE Finish(t)
  <2>1. task[t] \in 1..n /\ Running(t) /\ n \in Nat /\ task[t] < i
    BY <1>7 DEF Finish, IInv, TypeOk, TasksApart, Running
  <2>2. cache' \in CacheType /\ \A x \in 1..n : x # task[t] => cache'[x] = cache[x]
    BY <1>7, <2>1 DEF Finish, IInv, TypeOk, CacheType
  <2>3. pc'[t] = "idle" /\ \A u \in Threads : u # t => pc'[u] = pc[u] /\ task'[u] = task[u]
    BY <1>7 DEF Finish, Goes, IInv, TypeOk
  <2>4. TypeOk'
    BY <1>7, <2>2 DEF Finish, Goes, IInv, TypeOk, CacheType, PCs, NoTask, arguments, caller
  <2>5. TasksApart'
    <3>1. n' = n /\ i' = i /\ queue' = queue
      BY <1>7 DEF Finish, arguments, caller
    <3>2. \A u \in Threads : Running(u)' =>
            task'[u] \in 1..(i - 1) /\ task'[u] # task[t] /\ cache'[task'[u]].state = "live"
      <4> SUFFICES ASSUME NEW u \in Threads, Running(u)'
                   PROVE  /\ task'[u] \in 1..(i - 1) /\ task'[u] # task[t]
                          /\ cache'[task'[u]].state = "live"
        OBVIOUS
      <4>1. u # t /\ Running(u) /\ task'[u] = task[u]
        BY <2>3 DEF Running
      <4>2. task[u] \in 1..(i - 1) /\ task[u] # task[t] /\ cache[task[u]].state = "live"
        BY <2>1, <4>1 DEF IInv, TasksApart
      <4>3. task[u] \in 1..n
        BY <4>2 DEF IInv, TypeOk
      <4> QED BY <2>2, <4>1, <4>2, <4>3
    <3>3. \A j \in DOMAIN queue : queue[j] < i /\ cache'[queue[j]].state = "live"
      <4> SUFFICES ASSUME NEW j \in DOMAIN queue
                   PROVE  queue[j] < i /\ cache'[queue[j]].state = "live"
        OBVIOUS
      <4>1. queue[j] < i /\ cache[queue[j]].state = "live" /\ queue[j] # task[t]
        BY <2>1 DEF IInv, TasksApart
      <4>2. queue[j] \in 1..n
        BY DEF IInv, TypeOk
      <4> QED BY <2>2, <4>1, <4>2
    <3>4. \A b \in i..n : cache'[b].state # "freed"
      <4> SUFFICES ASSUME NEW b \in i..n PROVE cache'[b].state # "freed"
        OBVIOUS
      <4>1. b \in 1..n /\ b # task[t]
        BY <2>1 DEF IInv, TypeOk
      <4> QED BY <2>2, <4>1 DEF IInv, TasksApart
    <3> QED BY <2>3, <3>1, <3>2, <3>3, <3>4 DEF IInv, TasksApart, Running
  <2>6. Lifetimes' /\ MutexHeld'
    BY <1>7, <2>3 DEF Finish, IInv, Lifetimes, MutexHeld, Running, arguments, caller
  <2> QED BY <2>4, <2>5, <2>6 DEF IInv
<1> QED BY <1>1, <1>3, <1>4, <1>5, <1>6, <1>7 DEF Thread

\* The invariant holds in every reachable state.
LEMMA Invariance == Spec => []IInv
<1>1. IInv /\ [Next]_vars => IInv'
  <2> SUFFICES ASSUME IInv, [Next]_vars PROVE IInv'
    OBVIOUS
  <2>1. CASE UNCHANGED vars
    BY <2>1 DEF vars, arguments, caller, threads, IInv, TypeOk, CacheType, TasksApart, Lifetimes,
                MutexHeld, Running
  <2> QED BY <2>1, CallerIInv, ThreadIInv DEF Next, Returned
<1> QED BY <1>1, InitIInv, PTL DEF Spec

-------------------------------------------------------------------------------

\* Whatever the number of tasks and threads, a running task never uses params, its
\* mutex or a cache that was freed, and shares its cache with nobody: the wait of
\* g_thread_pool_free stands between the last task and the caller's clean-up.
THEOREM UsesAreLive == Spec => []NothingUsedAfterFree
<1>1. IInv => NothingUsedAfterFree
  BY DEF IInv, TasksApart, Lifetimes, NothingUsedAfterFree, Running, TypeOk
<1> QED BY <1>1, Invariance, PTL

\* The threads that run a task they have not counted yet.
Uncounted == {t \in Threads : pc[t] \in PCs \ {"idle", "unlock", "finish"}}

\* Every task pushed is on the queue, run and not yet counted, or counted.
TasksAccounted == progress + Len(queue) + Cardinality(Uncounted) = i - 1

\* No increment of progress is lost or made twice, however the threads interleave: the
\* mutex makes the read and the write of (*progress)++ one step.
THEOREM NoCountLost == Spec => []TasksAccounted
<1>1. Init => TasksAccounted
  <2> SUFFICES ASSUME Init PROVE TasksAccounted
    OBVIOUS
  <2>1. Uncounted = {}
    BY DEF Init, Uncounted
  <2> QED BY <2>1, FS_EmptySet DEF Init, TasksAccounted
<1>2. IInv /\ TasksAccounted /\ [Next]_vars => TasksAccounted'
  <2> SUFFICES ASSUME IInv, TasksAccounted, [Next]_vars PROVE TasksAccounted'
    OBVIOUS
  <2>0. IsFiniteSet(Uncounted) /\ Cardinality(Uncounted) \in Nat
    BY ThreadsAssumption, FS_Subset, FS_CardinalityType DEF Uncounted
  <2>1. ASSUME UNCHANGED <<progress, queue, i>>, Uncounted' = Uncounted PROVE TasksAccounted'
    BY <2>1 DEF TasksAccounted
  <2>2. CASE Push
    <3>1. Uncounted' = Uncounted
      BY <2>2 DEF Push, Uncounted, threads
    <3>2. Len(queue') = Len(queue) + 1 /\ i' = i + 1 /\ progress' = progress
      BY <2>2 DEF Push, IInv, TypeOk
    <3>3. Len(queue) \in Nat /\ i \in Nat /\ progress \in Nat
      BY DEF IInv, TypeOk
    <3> QED BY <2>0, <3>1, <3>2, <3>3 DEF TasksAccounted
  <2>3. ASSUME NEW t \in Threads, Take(t) PROVE TasksAccounted'
    <3>1. t \notin Uncounted /\ Uncounted' = Uncounted \cup {t}
      BY <2>3 DEF Take, Goes, Uncounted, IInv, TypeOk, PCs
    <3>2. Cardinality(Uncounted') = Cardinality(Uncounted) + 1
      BY <2>0, <3>1, FS_AddElement
    <3>3. Len(queue') = Len(queue) - 1 /\ i' = i /\ progress' = progress
      BY <2>3 DEF Take, IInv, TypeOk, caller
    <3>4. Len(queue) \in Nat /\ i \in Nat /\ progress \in Nat
      BY DEF IInv, TypeOk
    <3> QED BY <2>0, <3>2, <3>3, <3>4 DEF TasksAccounted
  <2>4. ASSUME NEW t \in Threads, Write(t) PROVE TasksAccounted'
    <3>1. t \in Uncounted /\ Uncounted' = Uncounted \ {t}
      BY <2>4 DEF Write, Goes, Uncounted, IInv, TypeOk, PCs
    <3>2. Cardinality(Uncounted') = Cardinality(Uncounted) - 1
      BY <2>0, <3>1, FS_RemoveElement
    <3>3. progress' = progress + 1 /\ queue' = queue /\ i' = i
      BY <2>4 DEF Write, IInv, MutexHeld, caller
    <3>4. Len(queue) \in Nat /\ i \in Nat /\ progress \in Nat
      BY DEF IInv, TypeOk
    <3> QED BY <2>0, <3>2, <3>3, <3>4 DEF TasksAccounted
  <2>5. CASE Create \/ AllPushed \/ Spin \/ Waited \/ Join \/ Clear \/ Returned \/ UNCHANGED vars
    BY <2>1, <2>5 DEF Create, AllPushed, Spin, Waited, Join, Clear, Returned, Uncounted, vars,
                      caller, threads
  <2>6. ASSUME NEW t \in Threads,
               WarmUpFromReader(t) \/ WarmUp(t) \/ Measure(t)
        PROVE  TasksAccounted'
    BY <2>1, <2>6 DEF WarmUpFromReader, WarmUp, WarmUpWith, Measure, Uncounted, caller
  <2>7. ASSUME NEW t \in Threads,
               BeginTrace(t) \/ EndWarmUp(t) \/ EndTrace(t) \/ Lock(t) \/ Read(t) \/ Unlock(t)
               \/ Finish(t)
        PROVE  TasksAccounted'
    <3>1. Uncounted' = Uncounted
      BY <2>7 DEF BeginTrace, EndWarmUp, EndTrace, Lock, Read, Unlock, Finish, Goes, Uncounted,
                  IInv, TypeOk, PCs
    <3> QED BY <2>1, <2>7, <3>1 DEF BeginTrace, EndWarmUp, EndTrace, Lock, Read, Unlock, Finish,
                                    caller
  <2> QED BY <2>2, <2>3, <2>4, <2>5, <2>6, <2>7 DEF Next, Caller, Thread
<1> QED BY <1>1, <1>2, Invariance, PTL DEF Spec

\* When the call returns progress has reached n, although its wait asked for n - 1.
THEOREM EveryTaskCounted == Spec => [](main = "returned" => progress = n)
<1>1. IInv /\ TasksAccounted => (main = "returned" => progress = n)
  <2> SUFFICES ASSUME IInv, TasksAccounted, main = "returned" PROVE progress = n
    OBVIOUS
  <2>1. Uncounted = {}
    BY DEF IInv, Lifetimes, Running, Uncounted
  <2> QED BY <2>1, FS_EmptySet DEF IInv, Lifetimes, TypeOk, TasksAccounted
<1> QED BY <1>1, Invariance, NoCountLost, PTL
-------------------------------------------------------------------------------
(* The rows.  The log of a cache is what it would miss if its task ran     *)
(* alone; a running task is somewhere along the requests of the call.      *)

Stream == warmup_reader \o reader
Before == Len(warmup_reader) + WarmedUp

\* The object is among the last b of the log.
Recent(b, log, o) == \E l \in DOMAIN log : l > Len(log) - b /\ log[l] = o
Logged(b, log, o) == IF Recent(b, log, o) THEN log ELSE Append(log, o)

\* The log grows request by request.
LEMMA MissLogIs ==
  ASSUME NEW b \in Nat, NEW stream \in Seq(Objs)
  PROVE  /\ MissLog(b, stream) \in [0..Len(stream) -> Seq(Objs)]
         /\ MissLog(b, stream)[0] = <<>>
         /\ \A j \in 1..Len(stream) :
              MissLog(b, stream)[j] = Logged(b, MissLog(b, stream)[j - 1], stream[j])
<1> DEFINE m == Len(stream)
           X == Seq(Objs)
           Rec(f) == [j \in 0..Len(stream) |->
                        IF j = 0 THEN <<>>
                        ELSE IF \E l \in DOMAIN f[j - 1] :
                                  l > Len(f[j - 1]) - b /\ f[j - 1][l] = stream[j]
                             THEN f[j - 1]
                             ELSE Append(f[j - 1], stream[j])]
           step == [j \in 1..m |-> [log \in X |-> Logged(b, log, stream[j])]]
<1>1. m \in Nat /\ <<>> \in X /\ \A j \in 1..m : stream[j] \in Objs
  OBVIOUS
<1>2. step \in [1..m -> [X -> X]]
  <2>1. ASSUME NEW j \in 1..m, NEW log \in X PROVE Logged(b, log, stream[j]) \in X
    BY <1>1 DEF Logged
  <2> HIDE DEF X, m
  <2> QED BY <2>1
<1>3. PICK f \in [0..m -> X] : f[0] = <<>> /\ \A j \in 1..m : f[j] = step[j][f[j - 1]]
  <2> DEFINE x0 == <<>>
  <2>1. x0 \in X /\ m \in Nat
    BY <1>1
  <2>2. \E f \in [0..m -> X] : f[0] = x0 /\ \A j \in 1..m : f[j] = step[j][f[j - 1]]
    <3> HIDE DEF step, m, X, x0
    <3> QED BY ONLY <2>1, <1>2, IterExists
  <2> QED BY <2>2
<1>4. ASSUME NEW j \in 1..m PROVE f[j] = Logged(b, f[j - 1], stream[j])
  <2> HIDE DEF X
  <2>1. j - 1 \in 0..m
    BY <1>1
  <2>2. f[j - 1] \in X
    BY <1>3, <2>1
  <2>3. f[j] = step[j][f[j - 1]]
    BY <1>3
  <2> QED BY <2>2, <2>3
<1>5. f = Rec(f)
  <2>1. ASSUME NEW j \in 0..m PROVE f[j] = Rec(f)[j]
    <3>1. CASE j = 0
      BY <1>1, <1>3, <3>1
    <3>2. CASE j # 0
      <4>1. j \in 1..m
        BY <1>1, <3>2
      <4> QED BY <1>4, <3>2, <4>1 DEF Logged, Recent
    <3> QED BY <3>1, <3>2
  <2>2. f = [j \in 0..m |-> f[j]]
    BY <1>3
  <2>3. Rec(f) = [j \in 0..m |-> Rec(f)[j]]
    OBVIOUS
  <2> HIDE DEF Rec
  <2> QED BY <2>1, <2>2, <2>3
<1>6. MissLog(b, stream) = CHOOSE g : g = Rec(g)
  BY DEF MissLog
<1> HIDE DEF Rec
<1>7. PICK g : g = MissLog(b, stream)
  OBVIOUS
<1>8. g = Rec(g)
  BY <1>5, <1>6, <1>7
<1>9. DOMAIN g = 0..m /\ g[0] = <<>>
      /\ \A j \in 1..m : g[j] = Logged(b, g[j - 1], stream[j])
  <2>1. DOMAIN g = 0..m
    BY <1>8 DEF Rec
  <2>2. \A j \in 0..m : g[j] = IF j = 0 THEN <<>>
                        ELSE IF \E l \in DOMAIN g[j - 1] :
                                  l > Len(g[j - 1]) - b /\ g[j - 1][l] = stream[j]
                             THEN g[j - 1]
                             ELSE Append(g[j - 1], stream[j])
    BY <1>8 DEF Rec
  <2>3. 0 \in 0..m /\ \A j \in 1..m : j \in 0..m /\ j # 0
    BY <1>1
  <2> QED BY <2>1, <2>2, <2>3 DEF Logged, Recent
<1>10. \A j \in 0..m : g[j] \in X
  <2> DEFINE S == {j \in Nat : j <= m => g[j] \in X}
  <2>1. 0 \in S
    BY <1>1, <1>9
  <2>2. ASSUME NEW j \in Nat, j \in S PROVE j + 1 \in S
    <3>1. SUFFICES ASSUME j + 1 <= m PROVE g[j + 1] \in X
      OBVIOUS
    <3>2. j + 1 \in 1..m /\ (j + 1) - 1 = j /\ g[j] \in X
      BY <1>1, <2>2, <3>1
    <3>3. g[j + 1] = Logged(b, g[j], stream[j + 1])
      BY <1>9, <3>2
    <3>4. stream[j + 1] \in Objs
      BY <1>1, <3>2
    <3> QED BY <3>2, <3>3, <3>4 DEF Logged
  <2>3. \A j \in Nat : j \in S
    <3> HIDE DEF S
    <3> QED BY <2>1, <2>2, SetInduction
  <2> QED BY <1>1, <2>3
<1>11. g \in [0..m -> X]
  <2>1. g = [j \in 0..m |-> g[j]]
    BY <1>8, <1>9 DEF Rec
  <2> HIDE DEF X
  <2> QED BY <1>10, <2>1
<1> QED BY <1>7, <1>9, <1>11

\* The cache holds the last objects of the log, newest first.
Mirrors(b, objs, log) ==
  /\ Len(objs) = IF Len(log) < b THEN Len(log) ELSE b
  /\ \A j \in 1..Len(objs) : objs[j] = log[(Len(log) + 1) - j]

Inserted(b, objs, o) ==
  [j \in 1..(IF Len(objs) < b THEN Len(objs) + 1 ELSE b) |-> IF j = 1 THEN o ELSE objs[j - 1]]

\* An object is held when it is recent in the log.
LEMMA HoldsRecent ==
  ASSUME NEW b \in Nat \ {0}, NEW objs \in Seq(Objs), NEW log \in Seq(Objs),
         Mirrors(b, objs, log), NEW o
  PROVE  (\E j \in DOMAIN objs : objs[j] = o) <=> Recent(b, log, o)
<1>1. Len(log) \in Nat /\ DOMAIN log = 1..Len(log) /\ DOMAIN objs = 1..Len(objs)
      /\ Len(objs) \in Nat
  OBVIOUS
<1>2. Len(objs) = IF Len(log) < b THEN Len(log) ELSE b
  BY DEF Mirrors
<1>3. ASSUME NEW j \in DOMAIN objs, objs[j] = o PROVE Recent(b, log, o)
  <2>1. (Len(log) + 1) - j \in DOMAIN log /\ (Len(log) + 1) - j > Len(log) - b
    BY <1>1, <1>2
  <2>2. log[(Len(log) + 1) - j] = o
    BY <1>1, <1>3 DEF Mirrors
  <2> QED BY <2>1, <2>2 DEF Recent
<1>4. ASSUME NEW l \in DOMAIN log, l > Len(log) - b, log[l] = o
      PROVE  \E j \in DOMAIN objs : objs[j] = o
  <2> DEFINE j == (Len(log) + 1) - l
  <2>1. j \in DOMAIN objs /\ (Len(log) + 1) - j = l
    BY <1>1, <1>2, <1>4
  <2>2. objs[j] = log[(Len(log) + 1) - j]
    BY <1>1, <2>1 DEF Mirrors
  <2> QED BY <1>4, <2>1, <2>2
<1> QED BY <1>3, <1>4 DEF Recent

\* A request served leaves the cache a mirror of the longer log.
LEMMA MirrorsNext ==
  ASSUME NEW b \in Nat \ {0}, NEW objs \in Seq(Objs), NEW log \in Seq(Objs),
         Mirrors(b, objs, log), NEW o \in Objs
  PROVE  /\ Recent(b, log, o) => Mirrors(b, objs, Logged(b, log, o))
         /\ ~Recent(b, log, o) => Mirrors(b, Inserted(b, objs, o), Logged(b, log, o))
<1>1. CASE Recent(b, log, o)
  BY <1>1 DEF Logged
<1>2. CASE ~Recent(b, log, o)
  <2> DEFINE m == Len(log)
             len == IF Len(objs) < b THEN Len(objs) + 1 ELSE b
             new == Inserted(b, objs, o)
  <2>1. m \in Nat /\ Len(objs) \in Nat /\ Len(objs) = IF m < b THEN m ELSE b
    BY DEF Mirrors
  <2>2. PICK next \in Seq(Objs) : next = Append(log, o)
    <3>1. Append(log, o) \in Seq(Objs)
      OBVIOUS
    <3> QED BY <3>1
  <2>3. Len(next) = m + 1 /\ next[m + 1] = o /\ \A l \in 1..m : next[l] = log[l]
    BY <2>2
  <2>4. len \in Nat /\ len = (IF m + 1 < b THEN m + 1 ELSE b) /\ len <= Len(objs) + 1
        /\ len <= m + 1
    BY <2>1
  <2>5. Len(new) = len /\ \A j \in 1..len : new[j] = IF j = 1 THEN o ELSE objs[j - 1]
    <3>1. new = [j \in 1..len |-> IF j = 1 THEN o ELSE objs[j - 1]]
      BY DEF Inserted
    <3> HIDE DEF new, len
    <3> QED BY <2>4, <3>1
  <2> HIDE DEF len, new
  <2>6. ASSUME NEW j \in 1..len PROVE new[j] = next[((m + 1) + 1) - j]
    <3>1. CASE j = 1
      <4>1. ((m + 1) + 1) - j = m + 1
        BY <2>1, <3>1
      <4> QED BY <2>3, <2>5, <3>1, <4>1
    <3>2. CASE j # 1
      <4>1. j - 1 \in 1..Len(objs) /\ (m + 1) - (j - 1) = ((m + 1) + 1) - j
            /\ ((m + 1) + 1) - j \in 1..m
        BY <2>1, <2>4, <3>2
      <4>2. objs[j - 1] = log[(m + 1) - (j - 1)]
        BY <4>1 DEF Mirrors
      <4> QED BY <2>3, <2>5, <3>2, <4>1, <4>2
    <3> QED BY <3>1, <3>2
  <2>7. Mirrors(b, new, next)
    BY <2>3, <2>4, <2>5, <2>6 DEF Mirrors
  <2>8. Logged(b, log, o) = next
    BY <1>2, <2>2 DEF Logged
  <2> QED BY <1>2, <2>7, <2>8 DEF new
<1> QED BY <1>1, <1>2

Args == n_warmup_req \in Nat /\ warmup_sec \in Nat
WithinWarmUp(j) ==
  j <= n_warmup_req \/ clock_time(j) < START + (1 \div REQS_PER_SEC) + warmup_sec

\* A quotient of natural numbers is one.
LEMMA QuotientType == ASSUME NEW a \in Nat, NEW d \in Nat \ {0} PROVE a \div d \in Nat
OBVIOUS

\* The test of the loop, and the same as WarmedUp has it.
LEMMA WarmingIs ==
  ASSUME Args, NEW j \in Nat
  PROVE  Warming(j) <=> WithinWarmUp(j)
<1>1. PICK q \in Nat : q = j \div REQS_PER_SEC
  BY QuotientType, ClockAssumption
<1>2. PICK q1 \in Nat : q1 = 1 \div REQS_PER_SEC
  <2>1. 1 \in Nat
    OBVIOUS
  <2> QED BY <2>1, QuotientType, ClockAssumption
<1>3. Warming(j) <=> j - 1 < n_warmup_req \/ (START + q) - (START + q1) < warmup_sec
  BY <1>1, <1>2 DEF Warming, clock_time
<1>4. WithinWarmUp(j) <=> j <= n_warmup_req \/ START + q < (START + q1) + warmup_sec
  BY <1>1, <1>2 DEF WithinWarmUp, clock_time
<1>5. /\ j - 1 < n_warmup_req <=> j <= n_warmup_req
      /\ (START + q) - (START + q1) < warmup_sec <=> START + q < (START + q1) + warmup_sec
  BY ClockAssumption DEF Args
<1> QED BY <1>3, <1>4, <1>5

\* The warm-up of a task ends where WarmedUp says.
LEMMA WarmedUpIs ==
  ASSUME TypeOk, Args, NEW m \in Nat, m <= Len(reader), \A j \in 1..m : Warming(j),
         m = Len(reader) \/ ~Warming(m + 1)
  PROVE  WarmedUp = m
<1> DEFINE R == {r \in DOMAIN reader : \A j \in 1..r : WithinWarmUp(j)}
<1>1. reader \in Seq(Objs) /\ DOMAIN reader = 1..Len(reader) /\ Len(reader) \in Nat
  BY DEF TypeOk
<1>2. /\ \A j \in 1..m : WithinWarmUp(j)
      /\ m = Len(reader) \/ ~WithinWarmUp(m + 1)
  BY WarmingIs
<1>3. R = 1..m
  <2>1. ASSUME NEW r \in R PROVE r \in 1..m
    <3>0. r \in DOMAIN reader /\ \A j \in 1..r : WithinWarmUp(j)
      OBVIOUS
    <3>1. r \in Nat /\ 1 <= r /\ r <= Len(reader)
      <4>1. r \in DOMAIN reader
        BY <3>0
      <4>2. r \in 1..Len(reader)
        BY ONLY <1>1, <4>1
      <4> QED BY ONLY <1>1, <4>2
    <3>2. CASE m = Len(reader)
      BY <3>1, <3>2
    <3>3. CASE ~WithinWarmUp(m + 1)
      <4>1. ~(m + 1 \in 1..r)
        BY <3>0, <3>3
      <4> QED BY <3>1, <4>1
    <3> QED BY <1>2, <3>2, <3>3
  <2>2. ASSUME NEW r \in 1..m PROVE r \in R
    <3>1. r \in Nat /\ 1 <= r /\ r <= m
      OBVIOUS
    <3>2. r \in DOMAIN reader
      <4>1. r <= Len(reader)
        BY ONLY <1>1, <3>1, m \in Nat, m <= Len(reader)
      <4>2. r \in 1..Len(reader)
        BY ONLY <1>1, <3>1, <4>1
      <4> QED BY ONLY <1>1, <4>2
    <3>3. \A j \in 1..r : WithinWarmUp(j)
      BY <1>2, <3>1
    <3> QED BY <3>2, <3>3
  <2> QED BY <2>1, <2>2
<1>4. Cardinality(1..m) = m
  <2>1. 1 \in Int /\ m \in Int
    OBVIOUS
  <2>2. Cardinality(1..m) = IF 1 > m THEN 0 ELSE m - 1 + 1
    BY <2>1, FS_Interval
  <2> QED BY <2>2
<1>5. WarmedUp = Cardinality(R)
  BY DEF WarmedUp, WithinWarmUp
<1> QED BY <1>3, <1>4, <1>5

\* WarmedUp is where the loop stops.
LEMMA WarmedUpEnds ==
  ASSUME TypeOk, Args
  PROVE  /\ WarmedUp \in Nat /\ WarmedUp <= Len(reader)
         /\ \A j \in 1..WarmedUp : Warming(j)
         /\ WarmedUp = Len(reader) \/ ~Warming(WarmedUp + 1)
<1> DEFINE T == {m \in Nat : m = Len(reader) \/ ~Warming(m + 1)}
<1>1. Len(reader) \in Nat
  BY DEF TypeOk
<1>2. T \in SUBSET Nat /\ T # {}
  BY <1>1
<1>3. PICK m \in T : \A l \in T : m <= l
  <2> HIDE DEF T
  <2> QED BY <1>2, LeastNumber
<1>4. m \in Nat /\ (m = Len(reader) \/ ~Warming(m + 1))
  OBVIOUS
<1>5. m <= Len(reader)
  BY <1>1, <1>3
<1>6. ASSUME NEW j \in 1..m PROVE Warming(j)
  <2>1. j - 1 \in Nat /\ ~(m <= j - 1) /\ (j - 1) + 1 = j
    BY <1>4
  <2>2. j - 1 \notin T
    <3> HIDE DEF T
    <3> QED BY <1>3, <2>1
  <2> QED BY <2>1, <2>2
<1>7. WarmedUp = m
  <2> HIDE DEF T
  <2> QED BY <1>4, <1>5, <1>6, WarmedUpIs
<1> HIDE DEF T
<1> QED BY <1>4, <1>5, <1>6, <1>7

-------------------------------------------------------------------------------
(* One task, from its first request to its row.                            *)

\* What the arguments of the call say of every task.
Course == [stream |-> Stream, warm |-> Len(warmup_reader), before |-> Before]
CourseOk(c) ==
  /\ c.stream \in Seq(Objs) /\ c.warm \in Nat /\ c.before \in Nat
  /\ c.warm <= c.before /\ c.before <= Len(c.stream)

\* The cache of task b after s requests.
Serving(c, b, s, objs) ==
  s \in 0..Len(c.stream) /\ Mirrors(b, objs, MissLog(b, c.stream)[s])

\* The row of task b while it warms up, while it measures, at the end.
WarmRow(s) == [n_warmup_req |-> s, n_req |-> 0, n_miss |-> 0, n_obj |-> 0]
MeasuredRow(c, b, s) ==
  [n_warmup_req |-> c.before,
   n_req        |-> s - c.before,
   n_miss       |-> Len(MissLog(b, c.stream)[s]) - Len(MissLog(b, c.stream)[c.before]),
   n_obj        |-> 0]
FinalRow(c, b) ==
  LET last == Len(c.stream)
      all  == Len(MissLog(b, c.stream)[last])
  IN [n_warmup_req |-> c.before,
      n_req        |-> last - c.before,
      n_miss       |-> all - Len(MissLog(b, c.stream)[c.before]),
      n_obj        |-> IF all < b THEN all ELSE b]

AlongAt(c, b, where, next, row, objs) ==
  /\ where = "warmup_reader" =>
       /\ next - 1 <= c.warm /\ row = WarmRow(next - 1)
       /\ Serving(c, b, next - 1, objs)
  /\ where = "warmup" =>
       /\ c.warm + (next - 1) <= c.before /\ row = WarmRow(c.warm + (next - 1))
       /\ Serving(c, b, c.warm + (next - 1), objs)
  /\ where = "measure" =>
       /\ c.before <= c.warm + (next - 1) /\ row = MeasuredRow(c, b, c.warm + (next - 1))
       /\ Serving(c, b, c.warm + (next - 1), objs)
  /\ where \in {"lock", "read", "write", "unlock", "finish"} => row = FinalRow(c, b)

\* The course of a task in terms of the arguments.
LEMMA CourseType ==
  ASSUME TypeOk, Args
  PROVE  /\ CourseOk(Course)
         /\ Course.warm = Len(warmup_reader) /\ Course.before = Len(warmup_reader) + WarmedUp
         /\ Len(Course.stream) = Len(warmup_reader) + Len(reader)
         /\ \A j \in 1..Len(warmup_reader) : Course.stream[j] = warmup_reader[j]
         /\ \A j \in 1..Len(reader) : Course.stream[Len(warmup_reader) + j] = reader[j]
<1>1. reader \in Seq(Objs) /\ warmup_reader \in Seq(Objs)
  BY DEF TypeOk
<1>2. Len(reader) \in Nat /\ Len(warmup_reader) \in Nat
  BY <1>1
<1>3. Stream \in Seq(Objs) /\ Len(Stream) = Len(warmup_reader) + Len(reader)
      /\ \A j \in 1..Len(warmup_reader) : Stream[j] = warmup_reader[j]
  BY <1>1, <1>2 DEF Stream
<1>4. \A j \in 1..Len(reader) : Stream[Len(warmup_reader) + j] = reader[j]
  BY <1>1, <1>2 DEF Stream
<1>5. WarmedUp \in Nat /\ WarmedUp <= Len(reader)
  BY WarmedUpEnds
<1> QED BY <1>2, <1>3, <1>4, <1>5 DEF Course, CourseOk, Before

\* The row the property asks for.
LEMMA RowIs ==
  ASSUME TypeOk, Args, NEW b \in 1..n
  PROVE  RowOf(b) = FinalRow(Course, b)
<1>1. Stream = Course.stream /\ Before = Course.before
  BY DEF Course
<1>2. PICK log : log = MissLog(b, Stream)
  OBVIOUS
<1>3. PICK last : last = Len(Stream)
  OBVIOUS
<1>4. RowOf(b) = [n_warmup_req |-> Before,
                  n_req        |-> last - Before,
                  n_miss       |-> Len(log[last]) - Len(log[Before]),
                  n_obj        |-> IF Len(log[last]) < b THEN Len(log[last]) ELSE b]
  <2>1. MissLog(b, warmup_reader \o reader) = log
    BY <1>2 DEF Stream
  <2>2. Len(warmup_reader \o reader) = last
    BY <1>3 DEF Stream
  <2>3. Len(warmup_reader) + WarmedUp = Before
    BY DEF Before
  <2>4. RowOf(b) =
          [n_warmup_req |-> Len(warmup_reader) + WarmedUp,
           n_req        |-> Len(warmup_reader \o reader) - (Len(warmup_reader) + WarmedUp),
           n_miss       |-> Len(MissLog(b, warmup_reader \o reader)[Len(warmup_reader \o reader)])
                              - Len(MissLog(b, warmup_reader \o reader)[Len(warmup_reader) + WarmedUp]),
           n_obj        |-> IF Len(MissLog(b, warmup_reader \o reader)[Len(warmup_reader \o reader)]) < b
                            THEN Len(MissLog(b, warmup_reader \o reader)[Len(warmup_reader \o reader)])
                            ELSE b]
    BY DEF RowOf
  <2> QED BY <2>1, <2>2, <2>3, <2>4
<1>5. FinalRow(Course, b) =
        [n_warmup_req |-> Before,
         n_req        |-> last - Before,
         n_miss       |-> Len(log[last]) - Len(log[Before]),
         n_obj        |-> IF Len(log[last]) < b THEN Len(log[last]) ELSE b]
  BY <1>1, <1>2, <1>3 DEF FinalRow
<1> QED BY <1>4, <1>5

\* A task begins with an empty cache.
LEMMA ServingNothing ==
  ASSUME NEW c, CourseOk(c), NEW b \in Nat \ {0}
  PROVE  Serving(c, b, 0, <<>>)
<1>1. c.stream \in Seq(Objs) /\ Len(c.stream) \in Nat
  BY DEF CourseOk
<1>2. MissLog(b, c.stream)[0] = <<>>
  BY <1>1, MissLogIs
<1> QED BY <1>1, <1>2 DEF Serving, Mirrors

\* One request more.
LEMMA ServingNext ==
  ASSUME NEW c, CourseOk(c), NEW b \in Nat \ {0}, NEW objs \in Seq(Objs), NEW s \in Nat,
         s + 1 <= Len(c.stream), Serving(c, b, s, objs), NEW o, o = c.stream[s + 1]
  PROVE  /\ (\E j \in DOMAIN objs : objs[j] = o) =>
              /\ Serving(c, b, s + 1, objs)
              /\ Len(MissLog(b, c.stream)[s + 1]) = Len(MissLog(b, c.stream)[s])
         /\ ~(\E j \in DOMAIN objs : objs[j] = o) =>
              /\ Serving(c, b, s + 1, Inserted(b, objs, o))
              /\ Len(MissLog(b, c.stream)[s + 1]) = Len(MissLog(b, c.stream)[s]) + 1
<1>1. PICK stream \in Seq(Objs) : stream = c.stream
  BY DEF CourseOk
<1>2. PICK log : log = MissLog(b, stream)
  OBVIOUS
<1>3. Len(stream) \in Nat /\ s + 1 \in 1..Len(stream) /\ s \in 0..Len(stream)
      /\ s + 1 \in 0..Len(stream) /\ (s + 1) - 1 = s
  BY <1>1
<1>4. o \in Objs
  BY <1>1, <1>3
<1>5. log \in [0..Len(stream) -> Seq(Objs)] /\ log[s + 1] = Logged(b, log[s], o)
  <2>1. \A j \in 1..Len(stream) : log[j] = Logged(b, log[j - 1], stream[j])
    BY <1>2, MissLogIs
  <2>2. log \in [0..Len(stream) -> Seq(Objs)]
    BY <1>2, MissLogIs
  <2> QED BY <1>1, <1>3, <2>1, <2>2
<1>6. PICK old \in Seq(Objs) : old = log[s]
  BY <1>3, <1>5
<1>7. Mirrors(b, objs, old)
  BY <1>1, <1>2, <1>6 DEF Serving
<1>8. (\E j \in DOMAIN objs : objs[j] = o) <=> Recent(b, old, o)
  BY <1>7, HoldsRecent
<1>9. /\ Recent(b, old, o) => Mirrors(b, objs, Logged(b, old, o))
      /\ ~Recent(b, old, o) => Mirrors(b, Inserted(b, objs, o), Logged(b, old, o))
  BY <1>4, <1>7, MirrorsNext
<1>10. /\ Recent(b, old, o) => Logged(b, old, o) = old
       /\ ~Recent(b, old, o) => Len(Logged(b, old, o)) = Len(old) + 1
  BY <1>4 DEF Logged
<1> HIDE DEF Inserted
<1> QED BY <1>1, <1>2, <1>3, <1>5, <1>6, <1>8, <1>9, <1>10 DEF Serving

\* The row after a request that is measured.
Counted(row, missed) == [row EXCEPT !.n_req = @ + 1, !.n_miss = missed]

\* A request that is measured.
LEMMA Measures ==
  ASSUME NEW c, CourseOk(c), NEW b \in Nat \ {0}, NEW s \in Nat, s + 1 <= Len(c.stream),
         NEW objs \in Seq(Objs), Serving(c, b, s, objs), NEW missed,
         missed = IF \E j \in DOMAIN objs : objs[j] = c.stream[s + 1]
                  THEN MeasuredRow(c, b, s).n_miss ELSE MeasuredRow(c, b, s).n_miss + 1
  PROVE  Counted(MeasuredRow(c, b, s), missed) = MeasuredRow(c, b, s + 1)
<1>0. PICK o : o = c.stream[s + 1]
  OBVIOUS
<1>1. /\ (\E j \in DOMAIN objs : objs[j] = o) =>
           /\ Serving(c, b, s + 1, objs)
           /\ Len(MissLog(b, c.stream)[s + 1]) = Len(MissLog(b, c.stream)[s])
      /\ ~(\E j \in DOMAIN objs : objs[j] = o) =>
           /\ Serving(c, b, s + 1, Inserted(b, objs, o))
           /\ Len(MissLog(b, c.stream)[s + 1]) = Len(MissLog(b, c.stream)[s]) + 1
  BY <1>0, ServingNext
<1>2. PICK u : u = Len(MissLog(b, c.stream)[s])
  OBVIOUS
<1>3. PICK w : w = Len(MissLog(b, c.stream)[c.before])
  OBVIOUS
<1>4. PICK x : x = Len(MissLog(b, c.stream)[s + 1])
  OBVIOUS
<1>5. u \in Nat /\ w \in Nat /\ x \in Nat /\ c.before \in Nat
  <2>1. c.before \in 0..Len(c.stream) /\ s \in 0..Len(c.stream) /\ s + 1 \in 0..Len(c.stream)
    BY DEF CourseOk
  <2>2. MissLog(b, c.stream) \in [0..Len(c.stream) -> Seq(Objs)]
    BY MissLogIs DEF CourseOk
  <2>3. /\ MissLog(b, c.stream)[s] \in Seq(Objs) /\ MissLog(b, c.stream)[c.before] \in Seq(Objs)
        /\ MissLog(b, c.stream)[s + 1] \in Seq(Objs)
    BY <2>1, <2>2
  <2>4. \A log \in Seq(Objs) : Len(log) \in Nat
    OBVIOUS
  <2>5. u \in Nat
    BY ONLY <1>2, <2>3, <2>4
  <2>6. w \in Nat
    BY ONLY <1>3, <2>3, <2>4
  <2>7. x \in Nat
    BY ONLY <1>4, <2>3, <2>4
  <2>8. c.before \in Nat
    BY DEF CourseOk
  <2> QED BY ONLY <2>5, <2>6, <2>7, <2>8
<1>6. MeasuredRow(c, b, s) = [n_warmup_req |-> c.before, n_req |-> s - c.before,
                              n_miss |-> u - w, n_obj |-> 0]
  BY <1>2, <1>3 DEF MeasuredRow
<1>7. MeasuredRow(c, b, s + 1) = [n_warmup_req |-> c.before, n_req |-> (s + 1) - c.before,
                                  n_miss |-> x - w, n_obj |-> 0]
  BY <1>3, <1>4 DEF MeasuredRow
<1>8. missed = x - w
  <2>1. MeasuredRow(c, b, s).n_miss = u - w
    BY <1>6
  <2>2. CASE \E j \in DOMAIN objs : objs[j] = o
    <3>1. x = u /\ missed = u - w
      BY <1>0, <1>1, <1>2, <1>4, <2>1, <2>2
    <3> QED BY <3>1
  <2>3. CASE ~(\E j \in DOMAIN objs : objs[j] = o)
    <3>1. x = u + 1 /\ missed = (u - w) + 1
      BY <1>0, <1>1, <1>2, <1>4, <2>1, <2>3
    <3>2. (u - w) + 1 = (u + 1) - w
      BY <1>5
    <3> QED BY <3>1, <3>2
  <2> QED BY <2>2, <2>3
<1>9. PICK d \in Nat : d = c.before
  BY <1>5
<1>10. (s - d) + 1 = (s + 1) - d
  OBVIOUS
<1>11. /\ MeasuredRow(c, b, s) = [n_warmup_req |-> d, n_req |-> s - d, n_miss |-> u - w, n_obj |-> 0]
       /\ MeasuredRow(c, b, s + 1) = [n_warmup_req |-> d, n_req |-> (s + 1) - d,
                                      n_miss |-> x - w, n_obj |-> 0]
  BY <1>6, <1>7, <1>9
<1>12. [n_warmup_req |-> d, n_req |-> s - d, n_miss |-> u - w, n_obj |-> 0].n_req = s - d
  OBVIOUS
<1>13. [MeasuredRow(c, b, s) EXCEPT !.n_req = @ + 1, !.n_miss = missed] =
         [n_warmup_req |-> d, n_req |-> (s - d) + 1, n_miss |-> missed, n_obj |-> 0]
  <2>1. PICK r : r = MeasuredRow(c, b, s)
    OBVIOUS
  <2>2. PICK y : y = r.n_req + 1
    OBVIOUS
  <2>3. [r EXCEPT !.n_req = y, !.n_miss = missed] =
          [n_warmup_req |-> d, n_req |-> y, n_miss |-> missed, n_obj |-> 0]
    <3>1. r = [n_warmup_req |-> d, n_req |-> s - d, n_miss |-> u - w, n_obj |-> 0]
      BY <1>11, <2>1
    <3>2. [r EXCEPT !.n_req = y] =
            [n_warmup_req |-> d, n_req |-> y, n_miss |-> u - w, n_obj |-> 0]
      BY <3>1
    <3>3. [[n_warmup_req |-> d, n_req |-> y, n_miss |-> u - w, n_obj |-> 0]
             EXCEPT !.n_miss = missed] =
            [n_warmup_req |-> d, n_req |-> y, n_miss |-> missed, n_obj |-> 0]
      OBVIOUS
    <3>4. [r EXCEPT !.n_req = y, !.n_miss = missed] =
            [[r EXCEPT !.n_req = y] EXCEPT !.n_miss = missed]
      OBVIOUS
    <3> QED BY <3>2, <3>3, <3>4
  <2>4. y = (s - d) + 1
    BY <1>11, <1>12, <2>1, <2>2
  <2> QED BY <2>1, <2>2, <2>3, <2>4
<1> QED BY <1>8, <1>10, <1>11, <1>13 DEF Counted

\* The warm-up is over: nothing is measured yet.
LEMMA MeasuringBegins ==
  ASSUME NEW c, CourseOk(c), NEW b \in Nat \ {0}
  PROVE  WarmRow(c.before) = MeasuredRow(c, b, c.before)
<1>1. c.before \in 0..Len(c.stream) /\ c.before \in Nat
  BY DEF CourseOk
<1>2. MissLog(b, c.stream)[c.before] \in Seq(Objs)
  <2>1. MissLog(b, c.stream) \in [0..Len(c.stream) -> Seq(Objs)]
    BY MissLogIs DEF CourseOk
  <2> QED BY <1>1, <2>1
<1>3. PICK w \in Nat : w = Len(MissLog(b, c.stream)[c.before])
  BY <1>2
<1>4. w - w = 0 /\ c.before - c.before = 0
  BY <1>1
<1> QED BY <1>3, <1>4 DEF WarmRow, MeasuredRow

\* The trace is over: what the cache holds is the rest of the row.
LEMMA MeasuringEnds ==
  ASSUME NEW c, CourseOk(c), NEW b \in Nat \ {0}, NEW objs, Serving(c, b, Len(c.stream), objs)
  PROVE  [MeasuredRow(c, b, Len(c.stream)) EXCEPT !.n_obj = Len(objs)] = FinalRow(c, b)
<1>1. PICK all : all = Len(MissLog(b, c.stream)[Len(c.stream)])
  OBVIOUS
<1>2. Len(objs) = IF all < b THEN all ELSE b
  BY <1>1 DEF Serving, Mirrors
<1>3. PICK last : last = Len(c.stream)
  OBVIOUS
<1>4. PICK w : w = Len(MissLog(b, c.stream)[c.before])
  OBVIOUS
<1>5. MeasuredRow(c, b, last) = [n_warmup_req |-> c.before, n_req |-> last - c.before,
                                 n_miss |-> all - w, n_obj |-> 0]
  BY <1>1, <1>3, <1>4 DEF MeasuredRow
<1>6. FinalRow(c, b) = [n_warmup_req |-> c.before, n_req |-> last - c.before,
                        n_miss |-> all - w, n_obj |-> Len(objs)]
  BY <1>1, <1>2, <1>3, <1>4 DEF FinalRow
<1>7. ASSUME NEW d, NEW p, NEW q, NEW z
      PROVE  [[n_warmup_req |-> d, n_req |-> p, n_miss |-> q, n_obj |-> 0] EXCEPT !.n_obj = z]
               = [n_warmup_req |-> d, n_req |-> p, n_miss |-> q, n_obj |-> z]
  OBVIOUS
<1>8. [[n_warmup_req |-> c.before, n_req |-> last - c.before, n_miss |-> all - w, n_obj |-> 0]
         EXCEPT !.n_obj = Len(objs)] =
        [n_warmup_req |-> c.before, n_req |-> last - c.before, n_miss |-> all - w,
         n_obj |-> Len(objs)]
  BY <1>7
<1> QED BY <1>3, <1>5, <1>6, <1>8

-------------------------------------------------------------------------------
(* All tasks.                                                              *)

Row == [n_warmup_req : Int, n_req : Int, n_miss : Int, n_obj : Int]

\* The caller has not pushed task b, or no thread has taken it.
Waiting(b) == b >= i \/ \E j \in DOMAIN queue : queue[j] = b
Along(t) == AlongAt(Course, task[t], pc[t], k[t], result[task[t]], cache[task[t]].objs)

RowsInv ==
  /\ Args
  /\ result \in [1..n -> Row]
  /\ \A b \in 1..n : Waiting(b) => result[b] = EmptyRow /\ cache[b].objs = <<>>
  /\ \A t \in Threads : Running(t) => Along(t)
  /\ \A b \in 1..n : ~Waiting(b) /\ (\A t \in Threads : Running(t) => task[t] # b) =>
       result[b] = FinalRow(Course, b)

\* Before the first step every task waits.
LEMMA InitRows == Init => RowsInv
<1> SUFFICES ASSUME Init PROVE RowsInv
  OBVIOUS
<1>1. Args
  BY WarmupAssumption DEF Init, Args
<1>2. n \in Nat \ {0} /\ EmptyRow \in Row
  BY TasksAssumption DEF Init, EmptyRow, Row
<1>3. result \in [1..n -> Row] /\ \A b \in 1..n : result[b] = EmptyRow /\ cache[b].objs = <<>>
  BY <1>2 DEF Init
<1>4. \A b \in 1..n : Waiting(b)
  BY <1>2 DEF Init, Waiting
<1>5. \A t \in Threads : ~Running(t)
  BY DEF Init, Running
<1> QED BY <1>1, <1>3, <1>4, <1>5 DEF RowsInv

\* The arguments of the call stand, and with them the course of every task.
LEMMA SameCourse ==
  ASSUME UNCHANGED arguments
  PROVE  Course' = Course /\ n' = n /\ (Args' <=> Args)
<1>1. UNCHANGED <<n, reader, warmup_reader, n_warmup_req, warmup_sec>>
  BY DEF arguments
<1>2. WarmedUp' = WarmedUp
  <2> DEFINE R == {r \in DOMAIN reader : \A j \in 1..r :
                     j <= n_warmup_req \/ clock_time(j) < START + (1 \div REQS_PER_SEC) + warmup_sec}
  <2>1. R' = R
    BY <1>1
  <2>2. WarmedUp = Cardinality(R)
    BY DEF WarmedUp
  <2>3. WarmedUp' = Cardinality(R')
    BY DEF WarmedUp
  <2> HIDE DEF R
  <2> QED BY <2>1, <2>2, <2>3
<1>3. Stream' = Stream /\ Before' = Before /\ warmup_reader' = warmup_reader
  BY <1>1, <1>2 DEF Stream, Before
<1> QED BY <1>1, <1>3 DEF Course, Args

\* The caller's steps change no task's course.
LEMMA CallerRows ==
  ASSUME IInv, RowsInv, UNCHANGED <<arguments, result, threads>>,
         \A b \in 1..n : cache'[b].objs = cache[b].objs,
         \A b \in 1..n : Waiting(b)' <=> Waiting(b)
  PROVE  RowsInv'
<1>1. Course' = Course /\ n' = n /\ Args'
  BY SameCourse DEF RowsInv
<1>2. pc' = pc /\ task' = task /\ k' = k /\ result' = result
  BY DEF threads
<1>3. \A t \in Threads : Running(t)' <=> Running(t)
  BY <1>2 DEF Running
<1>4. ASSUME NEW t \in Threads, Running(t) PROVE Along(t)'
  <2>1. task[t] \in 1..n
    BY <1>4 DEF IInv, TypeOk, TasksApart
  <2>2. cache'[task[t]].objs = cache[task[t]].objs
    BY <2>1
  <2>3. Along(t)
    BY <1>4 DEF RowsInv
  <2> QED BY <1>1, <1>2, <2>2, <2>3 DEF Along
<1>5. \A b \in 1..n : Waiting(b)' => result'[b] = EmptyRow /\ cache'[b].objs = <<>>
  BY <1>2 DEF RowsInv
<1>6. \A b \in 1..n : ~Waiting(b)' /\ (\A t \in Threads : Running(t)' => task'[t] # b) =>
        result'[b] = FinalRow(Course', b)
  BY <1>1, <1>2, <1>3 DEF RowsInv
<1>7. result' \in [1..n' -> Row]
  BY <1>1, <1>2 DEF RowsInv
<1> QED BY <1>1, <1>3, <1>4, <1>5, <1>6, <1>7 DEF RowsInv

\* A task that is run does not wait.
LEMMA RunningApart ==
  ASSUME IInv, NEW t \in Threads, Running(t)
  PROVE  /\ task[t] \in 1..n /\ ~Waiting(task[t])
         /\ \A u \in Threads : Running(u) /\ u # t => task[u] \in 1..n /\ task[u] # task[t]
<1>1. \A u \in Threads : Running(u) => task[u] \in 1..n
  BY DEF IInv, TypeOk, TasksApart
<1>2. task[t] < i /\ i \in Nat /\ task[t] \in Nat
  BY DEF IInv, TypeOk, TasksApart
<1>3. ~(task[t] >= i)
  BY <1>2
<1>4. ~Waiting(task[t])
  BY <1>3 DEF IInv, TasksApart, Waiting
<1> QED BY <1>1, <1>4 DEF IInv, TasksApart

\* A thread that goes on with its task, alone on its cache and its row.
LEMMA OwnTask ==
  ASSUME IInv, RowsInv, NEW t \in Threads, Running(t), Running(t)',
         UNCHANGED <<arguments, caller, queue, task>>,
         \A u \in Threads : u # t => pc'[u] = pc[u] /\ k'[u] = k[u],
         result' \in [1..n -> Row],
         \A b \in 1..n : b # task[t] => result'[b] = result[b] /\ cache'[b].objs = cache[b].objs,
         AlongAt(Course, task[t], pc'[t], k'[t], result'[task[t]], cache'[task[t]].objs)
  PROVE  RowsInv'
<1>1. Course' = Course /\ n' = n /\ Args'
  BY SameCourse DEF RowsInv
<1>2. task' = task /\ i' = i /\ queue' = queue
  BY DEF caller
<1>3. \A b \in 1..n : Waiting(b)' <=> Waiting(b)
  BY <1>2 DEF Waiting
<1>4. \A u \in Threads : Running(u)' <=> Running(u)
  BY DEF Running
<1>5. /\ task[t] \in 1..n /\ ~Waiting(task[t])
      /\ \A u \in Threads : Running(u) /\ u # t => task[u] \in 1..n /\ task[u] # task[t]
  BY RunningApart
<1>6. \A b \in 1..n : Waiting(b)' => result'[b] = EmptyRow /\ cache'[b].objs = <<>>
  <2> SUFFICES ASSUME NEW b \in 1..n, Waiting(b)
               PROVE  result'[b] = EmptyRow /\ cache'[b].objs = <<>>
    BY <1>3
  <2>1. b # task[t]
    BY <1>5
  <2> QED BY <2>1 DEF RowsInv
<1>7. ASSUME NEW u \in Threads, Running(u) PROVE Along(u)'
  <2>1. CASE u = t
    BY <1>1, <1>2, <2>1 DEF Along
  <2>2. CASE u # t
    <3>1. /\ task[u] \in 1..n /\ pc'[u] = pc[u] /\ k'[u] = k[u]
          /\ result'[task[u]] = result[task[u]] /\ cache'[task[u]].objs = cache[task[u]].objs
      BY <1>5, <1>7, <2>2
    <3>2. Along(u)
      BY <1>7 DEF RowsInv
    <3> QED BY <1>1, <1>2, <3>1, <3>2 DEF Along
  <2> QED BY <2>1, <2>2
<1>8. \A b \in 1..n : ~Waiting(b)' /\ (\A u \in Threads : Running(u)' => task'[u] # b) =>
        result'[b] = FinalRow(Course', b)
  <2> SUFFICES ASSUME NEW b \in 1..n, ~Waiting(b), \A u \in Threads : Running(u) => task[u] # b
               PROVE  result'[b] = FinalRow(Course, b)
    BY <1>1, <1>2, <1>3, <1>4
  <2>1. b # task[t]
    OBVIOUS
  <2> QED BY <2>1 DEF RowsInv
<1>9. result' \in [1..n' -> Row]
  BY <1>1
<1> QED BY <1>1, <1>4, <1>6, <1>7, <1>8, <1>9 DEF RowsInv

\* A task begins.
LEMMA TakeRows ==
  ASSUME IInv, RowsInv, NEW t \in Threads, Take(t)
  PROVE  RowsInv'
<1>1. Course' = Course /\ n' = n /\ Args'
  BY SameCourse DEF RowsInv, Take
<1>2. PICK b : b = Head(queue)
  OBVIOUS
<1>3. queue \in Seq(1..n) /\ queue # <<>> /\ queue' = Tail(queue) /\ i' = i
      /\ result' = result /\ cache' = cache
  BY DEF Take, IInv, TypeOk, caller
<1>4. Len(queue) \in Nat /\ Len(queue) >= 1 /\ Len(queue') = Len(queue) - 1
      /\ \A j \in 1..(Len(queue) - 1) : queue'[j] = queue[j + 1]
  <2>1. Len(queue) \in Nat /\ Len(queue) # 0
    BY <1>3
  <2>2. Len(Tail(queue)) = Len(queue) - 1
    BY <1>3
  <2>3. \A j \in 1..(Len(queue) - 1) : Tail(queue)[j] = queue[j + 1]
    BY <1>3
  <2> QED BY <1>3, <2>1, <2>2, <2>3
<1>5. DOMAIN queue = 1..Len(queue) /\ DOMAIN queue' = 1..(Len(queue) - 1)
  <2>1. queue' \in Seq(1..n)
    BY <1>3
  <2> QED BY <1>3, <1>4, <2>1
<1>6. 1 \in DOMAIN queue /\ b = queue[1] /\ b \in 1..n
  <2>1. 1 \in DOMAIN queue
    BY <1>4, <1>5
  <2>2. \A m \in Nat : \A s \in Seq(1..m) : 1 \in DOMAIN s => Head(s) = s[1] /\ s[1] \in 1..m
    OBVIOUS
  <2>3. n \in Nat
    BY DEF IInv, TypeOk
  <2> QED BY <1>2, <1>3, <2>1, <2>2, <2>3
<1>7. b < i /\ i \in Nat /\ b \in Nat
  BY <1>6 DEF IInv, TasksApart, TypeOk
<1>8. \A x \in 1..n : Waiting(x)' <=> Waiting(x) /\ x # b
  <2> SUFFICES ASSUME NEW x \in 1..n PROVE Waiting(x)' <=> Waiting(x) /\ x # b
    OBVIOUS
  <2>1. ASSUME NEW j \in DOMAIN queue', queue'[j] = x PROVE Waiting(x) /\ x # b
    <3>1. j + 1 \in DOMAIN queue /\ queue[j + 1] = x /\ j + 1 # 1
      BY <1>4, <1>5, <2>1
    <3>2. queue[j + 1] # queue[1]
      BY <1>6, <3>1 DEF IInv, TasksApart
    <3> QED BY <1>6, <3>1, <3>2 DEF Waiting
  <2>2. ASSUME NEW j \in DOMAIN queue, queue[j] = x, x # b PROVE Waiting(x)'
    <3>1. j # 1
      BY <1>6, <2>2
    <3>2. j - 1 \in DOMAIN queue' /\ queue'[j - 1] = queue[j]
      BY <1>4, <1>5, <3>1
    <3> QED BY <2>2, <3>2 DEF Waiting
  <2>3. x >= i => x # b
    BY <1>7
  <2> QED BY <1>3, <2>1, <2>2, <2>3 DEF Waiting
<1>9. Waiting(b)
  BY <1>6 DEF Waiting
<1>10. /\ pc'[t] = "warmup_reader" /\ task'[t] = b /\ k'[t] = 1 /\ ~Running(t)
       /\ \A u \in Threads : u # t => pc'[u] = pc[u] /\ task'[u] = task[u] /\ k'[u] = k[u]
  BY <1>2 DEF Take, Goes, IInv, TypeOk, Running
<1>11. Running(t)' /\ \A u \in Threads : u # t => (Running(u)' <=> Running(u))
  BY <1>10 DEF Running
<1>12. \A x \in 1..n : Waiting(x)' => result'[x] = EmptyRow /\ cache'[x].objs = <<>>
  BY <1>3, <1>8 DEF RowsInv
<1>13. Along(t)'
  <2>1. CourseOk(Course)
    BY CourseType DEF IInv, RowsInv
  <2>2. Serving(Course, b, 0, <<>>)
    BY <1>6, <2>1, ServingNothing
  <2>3. result[b] = EmptyRow /\ cache[b].objs = <<>>
    BY <1>6, <1>9 DEF RowsInv
  <2>4. EmptyRow = WarmRow(0)
    BY DEF EmptyRow, WarmRow
  <2>5. 1 - 1 = 0 /\ 0 <= Course.warm
    BY <2>1 DEF CourseOk
  <2>6. AlongAt(Course, b, "warmup_reader", 1, EmptyRow, <<>>)
    BY <2>2, <2>4, <2>5 DEF AlongAt
  <2> QED BY <1>1, <1>3, <1>10, <2>3, <2>6 DEF Along
<1>14. ASSUME NEW u \in Threads, u # t, Running(u) PROVE Along(u)'
  <2>1. Along(u)
    BY <1>14 DEF RowsInv
  <2> QED BY <1>1, <1>3, <1>10, <1>14, <2>1 DEF Along
<1>15. \A x \in 1..n : ~Waiting(x)' /\ (\A u \in Threads : Running(u)' => task'[u] # x) =>
         result'[x] = FinalRow(Course', x)
  <2> SUFFICES ASSUME NEW x \in 1..n, ~Waiting(x)', \A u \in Threads : Running(u)' => task'[u] # x
               PROVE  result'[x] = FinalRow(Course', x)
    OBVIOUS
  <2>1. x # b
    BY <1>10, <1>11
  <2>2. ~Waiting(x)
    BY <1>8, <2>1
  <2>3. \A u \in Threads : Running(u) => task[u] # x
    BY <1>10, <1>11
  <2> QED BY <1>1, <1>3, <2>2, <2>3 DEF RowsInv
<1>16. result' \in [1..n' -> Row]
  BY <1>1, <1>3 DEF RowsInv
<1> QED BY <1>1, <1>11, <1>12, <1>13, <1>14, <1>15, <1>16 DEF RowsInv

\* A task ends, and its row stays.
LEMMA FinishRows ==
  ASSUME IInv, RowsInv, NEW t \in Threads, Finish(t)
  PROVE  RowsInv'
<1>1. Course' = Course /\ n' = n /\ Args'
  BY SameCourse DEF RowsInv, Finish
<1>2. i' = i /\ queue' = queue /\ result' = result
  BY DEF Finish, caller
<1>3. \A b \in 1..n : Waiting(b)' <=> Waiting(b)
  BY <1>2 DEF Waiting
<1>4. /\ pc[t] = "finish" /\ Running(t) /\ ~Running(t)'
      /\ \A u \in Threads : u # t =>
           /\ pc'[u] = pc[u] /\ task'[u] = task[u] /\ k'[u] = k[u]
           /\ Running(u)' <=> Running(u)
  BY DEF Finish, Goes, IInv, TypeOk, Running
<1>5. /\ task[t] \in 1..n /\ ~Waiting(task[t])
      /\ \A u \in Threads : Running(u) /\ u # t => task[u] \in 1..n /\ task[u] # task[t]
  BY <1>4, RunningApart
<1>6. \A b \in 1..n : b # task[t] => cache'[b].objs = cache[b].objs
  BY <1>5 DEF Finish, IInv, TypeOk, CacheType
<1>7. \A b \in 1..n : Waiting(b)' => result'[b] = EmptyRow /\ cache'[b].objs = <<>>
  <2> SUFFICES ASSUME NEW b \in 1..n, Waiting(b)
               PROVE  result'[b] = EmptyRow /\ cache'[b].objs = <<>>
    BY <1>3
  <2>1. b # task[t]
    BY <1>5
  <2> QED BY <1>2, <1>6, <2>1 DEF RowsInv
<1>8. ASSUME NEW u \in Threads, Running(u)' PROVE Along(u)'
  <2>1. u # t /\ Running(u)
    BY <1>4, <1>8
  <2>2. task[u] \in 1..n /\ cache'[task[u]].objs = cache[task[u]].objs
    BY <1>5, <1>6, <2>1
  <2>3. Along(u)
    BY <2>1 DEF RowsInv
  <2> QED BY <1>1, <1>2, <1>4, <2>1, <2>2, <2>3 DEF Along
<1>9. result[task[t]] = FinalRow(Course, task[t])
  <2>1. Along(t)
    BY <1>4 DEF RowsInv
  <2> QED BY <1>4, <2>1 DEF Along, AlongAt
<1>10. \A b \in 1..n : ~Waiting(b)' /\ (\A u \in Threads : Running(u)' => task'[u] # b) =>
         result'[b] = FinalRow(Course', b)
  <2> SUFFICES ASSUME NEW b \in 1..n, ~Waiting(b), \A u \in Threads : Running(u)' => task'[u] # b,
                      b # task[t]
               PROVE  result[b] = FinalRow(Course, b)
    BY <1>1, <1>2, <1>3, <1>9
  <2>1. \A u \in Threads : Running(u) => task[u] # b
    BY <1>4
  <2> QED BY <2>1 DEF RowsInv
<1>11. result' \in [1..n' -> Row]
  BY <1>1, <1>2 DEF RowsInv
<1> QED BY <1>1, <1>7, <1>8, <1>10, <1>11 DEF RowsInv

\* What a get leaves in the caches.
LEMMA GotIs ==
  ASSUME NEW b \in 1..n, NEW o, cache \in CacheType
  PROVE  /\ \A x \in 1..n : x # b => Got(b, o)[x].objs = cache[x].objs
         /\ Holds(b, o) => Got(b, o)[b].objs = cache[b].objs
         /\ ~Holds(b, o) => Got(b, o)[b].objs = Inserted(b, cache[b].objs, o)
<1>1. CASE Holds(b, o)
  BY <1>1 DEF Got
<1>2. CASE ~Holds(b, o)
  <2>1. PICK new : new = Inserted(b, cache[b].objs, o)
    OBVIOUS
  <2>2. Got(b, o) = [cache EXCEPT ![b].objs = new]
    <3>1. new = [j \in 1..(IF Len(cache[b].objs) < b THEN Len(cache[b].objs) + 1 ELSE b) |->
                   IF j = 1 THEN o ELSE cache[b].objs[j - 1]]
      BY <2>1 DEF Inserted
    <3> QED BY <1>2, <3>1 DEF Got
  <2> QED BY <1>2, <2>1, <2>2 DEF CacheType
<1> QED BY <1>1, <1>2

\* The rows of a step that changes one of them.
LEMMA RowChanged ==
  ASSUME n \in Nat, result \in [1..n -> Row], NEW b \in 1..n, NEW row \in Row,
         result' = [result EXCEPT ![b] = row]
  PROVE  /\ result' \in [1..n -> Row] /\ result'[b] = row
         /\ \A x \in 1..n : x # b => result'[x] = result[x]
<1> HIDE DEF Row
<1> QED OBVIOUS

\* A request that warms up.
LEMMA WarmUpRequest ==
  ASSUME IInv, RowsInv, NEW t \in Threads, Running(t), NEW o, WarmUpWith(t, o),
         NEW s \in Nat, s + 1 <= Len(Course.stream), o = Course.stream[s + 1],
         Serving(Course, task[t], s, cache[task[t]].objs), result[task[t]] = WarmRow(s)
  PROVE  /\ Serving(Course, task[t], s + 1, cache'[task[t]].objs)
         /\ result'[task[t]] = WarmRow(s + 1)
         /\ result' \in [1..n -> Row]
         /\ \A b \in 1..n : b # task[t] =>
              result'[b] = result[b] /\ cache'[b].objs = cache[b].objs
<1>1. PICK b \in 1..n : b = task[t]
  BY RunningApart
<1>2. n \in Nat /\ b \in Nat \ {0} /\ cache \in CacheType /\ result \in [1..n -> Row]
  BY DEF IInv, TypeOk, RowsInv
<1>3. PICK objs \in Seq(Objs) : objs = cache[b].objs
  BY <1>2 DEF CacheType
<1>4. CourseOk(Course)
  BY CourseType DEF IInv, RowsInv
<1>5. PICK c : c = Course
  OBVIOUS
<1>6. cache' = Got(b, o) /\ result' = [result EXCEPT ![b].n_warmup_req = @ + 1]
  BY <1>1 DEF WarmUpWith
<1>7. PICK after : after = cache'[b].objs
  OBVIOUS
<1>8. /\ (\E j \in DOMAIN objs : objs[j] = o) => after = objs
      /\ ~(\E j \in DOMAIN objs : objs[j] = o) => after = Inserted(b, objs, o)
      /\ \A x \in 1..n : x # b => cache'[x].objs = cache[x].objs
  <2>1. Holds(b, o) <=> \E j \in DOMAIN objs : objs[j] = o
    BY <1>3 DEF Holds
  <2>2. /\ \A x \in 1..n : x # b => Got(b, o)[x].objs = cache[x].objs
        /\ Holds(b, o) => Got(b, o)[b].objs = cache[b].objs
        /\ ~Holds(b, o) => Got(b, o)[b].objs = Inserted(b, cache[b].objs, o)
    BY <1>2, GotIs
  <2> QED BY <1>3, <1>6, <1>7, <2>1, <2>2
<1>9. /\ CourseOk(c) /\ s + 1 <= Len(c.stream) /\ o = c.stream[s + 1]
      /\ Serving(c, b, s, objs)
  BY <1>1, <1>3, <1>4, <1>5
<1>10. /\ Serving(c, b, s + 1, after)
       /\ [WarmRow(s) EXCEPT !.n_warmup_req = @ + 1] = WarmRow(s + 1)
  <2>1. objs \in Seq(Objs) /\ s \in Nat /\ b \in Nat \ {0}
    BY <1>2
  <2>2. /\ (\E j \in DOMAIN objs : objs[j] = o) => Serving(c, b, s + 1, objs)
        /\ ~(\E j \in DOMAIN objs : objs[j] = o) => Serving(c, b, s + 1, Inserted(b, objs, o))
    BY ONLY <1>9, <2>1, ServingNext
  <2>3. Serving(c, b, s + 1, after)
    BY <1>8, <2>2
  <2> QED BY <2>3 DEF WarmRow
<1>11. result' = [result EXCEPT ![b] = WarmRow(s + 1)]
  <2>1. result[b] = WarmRow(s)
    BY <1>1
  <2>2. result' = [result EXCEPT ![b] = [result[b] EXCEPT !.n_warmup_req = @ + 1]]
    BY <1>6
  <2> QED BY <1>10, <2>1, <2>2
<1>12. WarmRow(s + 1) \in Row
  BY DEF WarmRow, Row
<1>13. /\ result' \in [1..n -> Row] /\ result'[b] = WarmRow(s + 1)
       /\ \A x \in 1..n : x # b => result'[x] = result[x]
  BY <1>2, <1>11, <1>12, RowChanged
<1> QED BY <1>1, <1>5, <1>7, <1>8, <1>10, <1>13

\* What the invariants say of the course.
LEMMA CourseFacts ==
  ASSUME IInv, RowsInv
  PROVE  /\ Len(reader) \in Nat /\ Len(warmup_reader) \in Nat
         /\ CourseOk(Course) /\ Course.warm = Len(warmup_reader)
         /\ Course.before = Len(warmup_reader) + WarmedUp
         /\ Len(Course.stream) = Len(warmup_reader) + Len(reader)
         /\ \A j \in 1..Len(warmup_reader) : Course.stream[j] = warmup_reader[j]
         /\ \A j \in 1..Len(reader) : Course.stream[Len(warmup_reader) + j] = reader[j]
         /\ WarmedUp \in Nat /\ WarmedUp <= Len(reader)
         /\ \A j \in 1..WarmedUp : Warming(j)
         /\ WarmedUp = Len(reader) \/ ~Warming(WarmedUp + 1)
<1>1. TypeOk /\ Args
  BY DEF IInv, RowsInv
<1>2. Len(reader) \in Nat /\ Len(warmup_reader) \in Nat
  BY <1>1 DEF TypeOk
<1> QED BY <1>1, <1>2, CourseType, WarmedUpEnds

\* A request of the warm-up trace.
LEMMA WarmUpFromReaderRows ==
  ASSUME IInv, RowsInv, NEW t \in Threads, WarmUpFromReader(t)
  PROVE  RowsInv'
<1>1. PICK s \in Nat : s = k[t] - 1
  BY DEF IInv, TypeOk
<1>2. /\ pc[t] = "warmup_reader" /\ k[t] = s + 1 /\ s + 1 <= Len(warmup_reader)
      /\ WarmUpWith(t, warmup_reader[s + 1]) /\ Running(t)
  BY <1>1 DEF WarmUpFromReader, Running, IInv, TypeOk
<1>3. Along(t)
  BY <1>2 DEF RowsInv
<1>4. result[task[t]] = WarmRow(s) /\ Serving(Course, task[t], s, cache[task[t]].objs)
  BY <1>1, <1>2, <1>3 DEF Along, AlongAt
<1>5. /\ s + 1 <= Len(Course.stream) /\ warmup_reader[s + 1] = Course.stream[s + 1]
      /\ s + 1 <= Course.warm
  <2>1. /\ Len(warmup_reader) \in Nat /\ Len(reader) \in Nat /\ Course.warm = Len(warmup_reader)
        /\ Len(Course.stream) = Len(warmup_reader) + Len(reader)
        /\ \A j \in 1..Len(warmup_reader) : Course.stream[j] = warmup_reader[j]
    BY CourseFacts
  <2>2. s + 1 \in 1..Len(warmup_reader)
    BY <1>2, <2>1
  <2> QED BY <1>2, <2>1, <2>2
<1>6. /\ Serving(Course, task[t], s + 1, cache'[task[t]].objs)
      /\ result'[task[t]] = WarmRow(s + 1)
      /\ result' \in [1..n -> Row]
      /\ \A b \in 1..n : b # task[t] =>
           result'[b] = result[b] /\ cache'[b].objs = cache[b].objs
  BY <1>2, <1>4, <1>5, WarmUpRequest
<1>7. /\ pc' = pc /\ k'[t] = (s + 1) + 1 /\ \A u \in Threads : u # t => k'[u] = k[u]
      /\ UNCHANGED <<arguments, caller, queue, task>>
  BY <1>2 DEF WarmUpWith, IInv, TypeOk
<1>8. AlongAt(Course, task[t], pc'[t], k'[t], result'[task[t]], cache'[task[t]].objs)
  <2>1. k'[t] - 1 = s + 1
    BY <1>7
  <2> QED BY <1>2, <1>5, <1>6, <1>7, <2>1 DEF AlongAt
<1>9. Running(t)'
  BY <1>2, <1>7 DEF Running
<1> QED BY <1>2, <1>6, <1>7, <1>8, <1>9, OwnTask

\* A request of the trace that warms up.
LEMMA WarmUpRows ==
  ASSUME IInv, RowsInv, NEW t \in Threads, WarmUp(t)
  PROVE  RowsInv'
<1>1. PICK m \in Nat : m = k[t] - 1
  BY DEF IInv, TypeOk
<1>2. /\ pc[t] = "warmup" /\ k[t] = m + 1 /\ m + 1 <= Len(reader) /\ Warming(m + 1)
      /\ WarmUpWith(t, reader[m + 1]) /\ Running(t)
  BY <1>1 DEF WarmUp, Running, IInv, TypeOk
<1>3. Along(t)
  BY <1>2 DEF RowsInv
<1>4. /\ Len(reader) \in Nat /\ Len(warmup_reader) \in Nat /\ Course.warm = Len(warmup_reader)
      /\ Course.before = Len(warmup_reader) + WarmedUp
      /\ Len(Course.stream) = Len(warmup_reader) + Len(reader)
      /\ \A j \in 1..Len(reader) : Course.stream[Len(warmup_reader) + j] = reader[j]
      /\ WarmedUp \in Nat /\ WarmedUp <= Len(reader)
      /\ WarmedUp = Len(reader) \/ ~Warming(WarmedUp + 1)
  BY CourseFacts
<1>5. PICK s \in Nat : s = Course.warm + m
  BY <1>4
<1>6. /\ result[task[t]] = WarmRow(s) /\ Serving(Course, task[t], s, cache[task[t]].objs)
      /\ s <= Course.before
  BY <1>1, <1>2, <1>3, <1>5 DEF Along, AlongAt
<1>7. m + 1 <= WarmedUp
  <2>1. m <= WarmedUp
    BY <1>4, <1>5, <1>6
  <2>2. m # WarmedUp
    BY <1>2, <1>4
  <2> QED BY <1>4, <2>1, <2>2
<1>8. /\ s + 1 <= Len(Course.stream) /\ reader[m + 1] = Course.stream[s + 1]
      /\ s + 1 <= Course.before
  <2>1. s + 1 = Len(warmup_reader) + (m + 1)
    BY <1>4, <1>5
  <2>2. m + 1 \in 1..Len(reader)
    BY <1>2, <1>4
  <2>3. reader[m + 1] = Course.stream[Len(warmup_reader) + (m + 1)]
    BY <1>4, <2>2
  <2>4. s + 1 <= Course.before /\ s + 1 <= Len(Course.stream)
    <3>1. /\ Len(warmup_reader) \in Nat /\ Len(reader) \in Nat /\ WarmedUp \in Nat
          /\ m + 1 <= WarmedUp /\ WarmedUp <= Len(reader)
      BY <1>4, <1>7
    <3>2. /\ Course.before = Len(warmup_reader) + WarmedUp
          /\ Len(Course.stream) = Len(warmup_reader) + Len(reader)
      BY <1>4
    <3> QED BY ONLY m \in Nat, <2>1, <3>1, <3>2
  <2> QED BY <2>1, <2>3, <2>4
<1>9. /\ Serving(Course, task[t], s + 1, cache'[task[t]].objs)
      /\ result'[task[t]] = WarmRow(s + 1)
      /\ result' \in [1..n -> Row]
      /\ \A b \in 1..n : b # task[t] =>
           result'[b] = result[b] /\ cache'[b].objs = cache[b].objs
  BY <1>2, <1>6, <1>8, WarmUpRequest
<1>10. /\ pc' = pc /\ k'[t] = (m + 1) + 1 /\ \A u \in Threads : u # t => k'[u] = k[u]
       /\ UNCHANGED <<arguments, caller, queue, task>>
  BY <1>2 DEF WarmUpWith, IInv, TypeOk
<1>11. AlongAt(Course, task[t], pc'[t], k'[t], result'[task[t]], cache'[task[t]].objs)
  <2>1. Course.warm + (k'[t] - 1) = s + 1
    BY <1>4, <1>5, <1>10
  <2> QED BY <1>2, <1>8, <1>9, <1>10, <2>1 DEF AlongAt
<1>12. Running(t)'
  BY <1>2, <1>10 DEF Running
<1> QED BY <1>2, <1>9, <1>10, <1>11, <1>12, OwnTask

\* The warm-up trace is over.
LEMMA BeginTraceRows ==
  ASSUME IInv, RowsInv, NEW t \in Threads, BeginTrace(t)
  PROVE  RowsInv'
<1>1. PICK s \in Nat : s = k[t] - 1
  BY DEF IInv, TypeOk
<1>2. /\ pc[t] = "warmup_reader" /\ k[t] = s + 1 /\ s + 1 > Len(warmup_reader) /\ Running(t)
      /\ cache' = cache /\ result' = result /\ UNCHANGED <<arguments, caller, queue, task>>
  BY <1>1 DEF BeginTrace, Running, IInv, TypeOk
<1>3. Along(t)
  BY <1>2 DEF RowsInv
<1>4. result[task[t]] = WarmRow(s) /\ Serving(Course, task[t], s, cache[task[t]].objs)
      /\ s <= Course.warm
  BY <1>1, <1>2, <1>3 DEF Along, AlongAt
<1>5. /\ Len(warmup_reader) \in Nat /\ Course.warm = Len(warmup_reader)
      /\ Course.warm <= Course.before
  BY CourseFacts DEF CourseOk
<1>6. s = Course.warm
  BY <1>2, <1>4, <1>5
<1>7. /\ pc'[t] = "warmup" /\ k'[t] = 1
      /\ \A u \in Threads : u # t => pc'[u] = pc[u] /\ k'[u] = k[u]
  BY DEF BeginTrace, Goes, IInv, TypeOk
<1>8. AlongAt(Course, task[t], pc'[t], k'[t], result'[task[t]], cache'[task[t]].objs)
  <2>1. Course.warm + (k'[t] - 1) = s
    BY <1>5, <1>6, <1>7
  <2> QED BY <1>2, <1>4, <1>5, <1>6, <1>7, <2>1 DEF AlongAt
<1>9. Running(t)' /\ result' \in [1..n -> Row]
  BY <1>2, <1>7 DEF Running, RowsInv
<1> QED BY <1>2, <1>7, <1>8, <1>9, OwnTask

\* The warm-up is over.
LEMMA EndWarmUpRows ==
  ASSUME IInv, RowsInv, NEW t \in Threads, EndWarmUp(t)
  PROVE  RowsInv'
<1>1. PICK m \in Nat : m = k[t] - 1
  BY DEF IInv, TypeOk
<1>2. /\ pc[t] = "warmup" /\ k[t] = m + 1 /\ (m + 1 > Len(reader) \/ ~Warming(m + 1))
      /\ Running(t) /\ cache' = cache /\ result' = result
      /\ UNCHANGED <<arguments, caller, queue, task>>
  BY <1>1 DEF EndWarmUp, Running, IInv, TypeOk
<1>3. Along(t)
  BY <1>2 DEF RowsInv
<1>4. /\ Len(reader) \in Nat /\ Len(warmup_reader) \in Nat /\ Course.warm = Len(warmup_reader)
      /\ Course.before = Len(warmup_reader) + WarmedUp
      /\ WarmedUp \in Nat /\ WarmedUp <= Len(reader) /\ \A j \in 1..WarmedUp : Warming(j)
  BY CourseFacts
<1>5. /\ Course.warm + m <= Course.before /\ result[task[t]] = WarmRow(Course.warm + m)
      /\ Serving(Course, task[t], Course.warm + m, cache[task[t]].objs)
  BY <1>1, <1>2, <1>3 DEF Along, AlongAt
<1>6. m = WarmedUp
  <2>1. m <= WarmedUp
    BY <1>4, <1>5
  <2>2. ~(m + 1 <= WarmedUp)
    <3>1. ASSUME m + 1 <= WarmedUp PROVE FALSE
      <4>1. m + 1 \in 1..WarmedUp
        BY <1>4, <3>1
      <4>2. Warming(m + 1) /\ ~(m + 1 > Len(reader))
        BY <1>4, <4>1
      <4> QED BY <1>2, <4>2
    <3> QED BY <3>1
  <2> QED BY <1>4, <2>1, <2>2
<1>7. Course.warm + m = Course.before
  BY <1>4, <1>6
<1>8. /\ pc'[t] = "measure" /\ k' = k
      /\ \A u \in Threads : u # t => pc'[u] = pc[u]
  BY DEF EndWarmUp, Goes, IInv, TypeOk
<1>9. AlongAt(Course, task[t], pc'[t], k'[t], result'[task[t]], cache'[task[t]].objs)
  <2>1. CourseOk(Course) /\ task[t] \in Nat \ {0}
    <3>1. task[t] \in 1..n
      BY <1>2, RunningApart
    <3> QED BY <3>1, CourseFacts DEF IInv, TypeOk
  <2>2. WarmRow(Course.before) = MeasuredRow(Course, task[t], Course.before)
    <3>1. PICK c : c = Course
      OBVIOUS
    <3>2. WarmRow(c.before) = MeasuredRow(c, task[t], c.before)
      BY <2>1, <3>1, MeasuringBegins
    <3> QED BY <3>1, <3>2
  <2>3. Course.warm + (k'[t] - 1) = Course.before
    BY <1>1, <1>7, <1>8
  <2>4. Course.before <= Course.before
    BY <1>4
  <2> QED BY <1>2, <1>5, <1>7, <1>8, <2>2, <2>3, <2>4 DEF AlongAt
<1>10. Running(t)' /\ result' \in [1..n -> Row]
  BY <1>2, <1>8 DEF Running, RowsInv
<1> QED BY <1>2, <1>8, <1>9, <1>10, OwnTask

\* The trace is over, and the row complete.
LEMMA EndTraceRows ==
  ASSUME IInv, RowsInv, NEW t \in Threads, EndTrace(t)
  PROVE  RowsInv'
<1>1. PICK m \in Nat : m = k[t] - 1
  BY DEF IInv, TypeOk
<1>2. /\ pc[t] = "measure" /\ k[t] = m + 1 /\ m + 1 > Len(reader) /\ Running(t) /\ cache' = cache
      /\ UNCHANGED <<arguments, caller, queue, task>>
  BY <1>1 DEF EndTrace, Running, IInv, TypeOk
<1>3. PICK b \in 1..n : b = task[t]
  BY <1>2, RunningApart
<1>4. PICK objs : objs = cache[b].objs
  OBVIOUS
<1>5. PICK c : c = Course
  OBVIOUS
<1>6. Along(t)
  BY <1>2 DEF RowsInv
<1>7. result[b] = MeasuredRow(c, b, c.warm + m) /\ Serving(c, b, c.warm + m, objs)
  BY <1>1, <1>2, <1>3, <1>4, <1>5, <1>6 DEF Along, AlongAt
<1>8. CourseOk(c) /\ c.warm = Len(warmup_reader) /\ Len(c.stream) = Len(warmup_reader) + Len(reader)
      /\ Len(reader) \in Nat /\ Len(warmup_reader) \in Nat /\ n \in Nat /\ b \in Nat \ {0}
  <2>1. n \in Nat /\ b \in Nat \ {0}
    BY DEF IInv, TypeOk
  <2> QED BY <1>5, <2>1, CourseFacts
<1>9. c.warm + m = Len(c.stream)
  <2>1. c.warm + m <= Len(c.stream)
    BY <1>7, <1>8 DEF Serving
  <2> QED BY <1>2, <1>8, <2>1
<1>10. [MeasuredRow(c, b, Len(c.stream)) EXCEPT !.n_obj = Len(objs)] = FinalRow(c, b)
  BY <1>7, <1>8, <1>9, MeasuringEnds
<1>11. result' = [result EXCEPT ![b] = FinalRow(c, b)]
  <2>1. result' = [result EXCEPT ![b] = [result[b] EXCEPT !.n_obj = Len(objs)]]
    BY <1>3, <1>4 DEF EndTrace
  <2> QED BY <1>7, <1>9, <1>10, <2>1
<1>12. FinalRow(c, b) \in Row
  <2>1. PICK log : log = MissLog(b, c.stream)
    OBVIOUS
  <2>2. c.stream \in Seq(Objs) /\ c.before \in 0..Len(c.stream) /\ Len(c.stream) \in Nat
    BY <1>8 DEF CourseOk
  <2>3. log \in [0..Len(c.stream) -> Seq(Objs)]
    BY <1>8, <2>1, <2>2, MissLogIs
  <2>4. log[c.before] \in Seq(Objs) /\ log[Len(c.stream)] \in Seq(Objs)
    BY <2>2, <2>3
  <2>5. Len(log[c.before]) \in Nat /\ Len(log[Len(c.stream)]) \in Nat
    BY <2>4
  <2> QED BY <1>8, <2>1, <2>2, <2>5 DEF FinalRow, Row
<1>13. /\ result' \in [1..n -> Row] /\ result'[b] = FinalRow(c, b)
       /\ \A x \in 1..n : x # b => result'[x] = result[x]
  BY <1>8, <1>11, <1>12, RowChanged DEF RowsInv
<1>14. /\ pc'[t] = "lock" /\ k' = k
       /\ \A u \in Threads : u # t => pc'[u] = pc[u]
  BY DEF EndTrace, Goes, IInv, TypeOk
<1>15. AlongAt(Course, task[t], pc'[t], k'[t], result'[task[t]], cache'[task[t]].objs)
  BY <1>3, <1>5, <1>13, <1>14 DEF AlongAt
<1>16. Running(t)'
  BY <1>14 DEF Running
<1> QED BY <1>2, <1>3, <1>13, <1>14, <1>15, <1>16, OwnTask

\* Counting the task in progress leaves its row alone.
LEMMA CountingRows ==
  ASSUME IInv, RowsInv, NEW t \in Threads, Lock(t) \/ Read(t) \/ Write(t) \/ Unlock(t)
  PROVE  RowsInv'
<1> DEFINE counting == {"lock", "read", "write", "unlock", "finish"}
<1>1. /\ pc[t] \in counting /\ pc'[t] \in counting
      /\ \A u \in Threads : u # t => pc'[u] = pc[u]
  BY DEF Lock, Read, Write, Unlock, Goes, IInv, TypeOk
<1>2. UNCHANGED <<arguments, caller, queue, task, k, result, cache>>
  BY DEF Lock, Read, Write, Unlock
<1>3. Running(t) /\ Running(t)'
  BY <1>1 DEF Running
<1>4. AlongAt(Course, task[t], pc'[t], k'[t], result'[task[t]], cache'[task[t]].objs)
  <2>1. Along(t)
    BY <1>3 DEF RowsInv
  <2> QED BY <1>1, <1>2, <2>1 DEF Along, AlongAt
<1>5. result' \in [1..n -> Row]
  BY <1>2 DEF RowsInv
<1> QED BY <1>1, <1>2, <1>3, <1>4, <1>5, OwnTask

\* A request that is measured.
LEMMA MeasureRows ==
  ASSUME IInv, RowsInv, NEW t \in Threads, Measure(t)
  PROVE  RowsInv'
<1>1. PICK m \in Nat : m = k[t] - 1
  BY DEF IInv, TypeOk
<1>2. /\ pc[t] = "measure" /\ k[t] = m + 1 /\ m + 1 <= Len(reader) /\ Running(t)
      /\ UNCHANGED <<arguments, caller, queue, task, pc>>
      /\ k'[t] = (m + 1) + 1 /\ \A u \in Threads : u # t => k'[u] = k[u]
  <2>1. k \in [Threads -> Nat \ {0}] /\ k[t] = m + 1
    BY <1>1 DEF IInv, TypeOk
  <2>2. /\ pc[t] = "measure" /\ k[t] <= Len(reader) /\ k' = [k EXCEPT ![t] = @ + 1]
        /\ UNCHANGED <<arguments, caller, queue, task, pc>>
    BY DEF Measure
  <2> QED BY <2>1, <2>2 DEF Running
<1>3. PICK b \in 1..n : b = task[t]
  BY <1>2, RunningApart
<1>4. cache \in CacheType /\ n \in Nat /\ b \in Nat \ {0}
  BY DEF IInv, TypeOk
<1>5. PICK objs \in Seq(Objs) : objs = cache[b].objs
  BY <1>4 DEF CacheType
<1>6. PICK c : c = Course
  OBVIOUS
<1>7. PICK o : o = reader[m + 1]
  OBVIOUS
<1>8. Along(t)
  BY <1>2 DEF RowsInv
<1>9. /\ CourseOk(c) /\ c.warm = Len(warmup_reader)
      /\ Len(c.stream) = Len(warmup_reader) + Len(reader)
      /\ Len(reader) \in Nat /\ Len(warmup_reader) \in Nat /\ c.before \in Nat
      /\ \A j \in 1..Len(reader) : c.stream[Len(warmup_reader) + j] = reader[j]
  BY <1>6, CourseFacts DEF CourseOk
<1>10. PICK s \in Nat : s = c.warm + m
  BY <1>9
<1>11. /\ result[b] = MeasuredRow(c, b, s) /\ Serving(c, b, s, objs) /\ c.before <= s
  BY <1>1, <1>2, <1>3, <1>5, <1>6, <1>8, <1>10 DEF Along, AlongAt
<1>12. s + 1 <= Len(c.stream) /\ o = c.stream[s + 1]
  <2>1. s + 1 = Len(warmup_reader) + (m + 1)
    BY <1>9, <1>10
  <2>2. m + 1 \in 1..Len(reader)
    BY <1>2, <1>9
  <2>3. s + 1 <= Len(c.stream)
    <3>1. m + 1 <= Len(reader) /\ Len(c.stream) = Len(warmup_reader) + Len(reader)
      BY <1>2, <1>9
    <3>2. Len(warmup_reader) \in Nat /\ Len(reader) \in Nat
      BY <1>9
    <3> QED BY ONLY m \in Nat, <2>1, <3>1, <3>2
  <2>4. c.stream[Len(warmup_reader) + (m + 1)] = reader[m + 1]
    BY <1>9, <2>2
  <2> QED BY <1>7, <2>1, <2>3, <2>4
<1>13. PICK after : after = cache'[b].objs
  OBVIOUS
<1>14. PICK missed : missed = IF Holds(b, o) THEN result[b].n_miss ELSE result[b].n_miss + 1
  OBVIOUS
<1>15. cache' = Got(b, o)
  BY <1>2, <1>3, <1>7 DEF Measure
<1>16. /\ (\E j \in DOMAIN objs : objs[j] = o) =>
            after = objs /\ missed = MeasuredRow(c, b, s).n_miss
       /\ ~(\E j \in DOMAIN objs : objs[j] = o) =>
            after = Inserted(b, objs, o) /\ missed = MeasuredRow(c, b, s).n_miss + 1
       /\ \A x \in 1..n : x # b => cache'[x].objs = cache[x].objs
  <2>1. Holds(b, o) <=> \E j \in DOMAIN objs : objs[j] = o
    BY <1>5 DEF Holds
  <2>2. /\ \A x \in 1..n : x # b => Got(b, o)[x].objs = cache[x].objs
        /\ Holds(b, o) => Got(b, o)[b].objs = cache[b].objs
        /\ ~Holds(b, o) => Got(b, o)[b].objs = Inserted(b, cache[b].objs, o)
    BY <1>4, GotIs
  <2> QED BY <1>5, <1>11, <1>13, <1>14, <1>15, <2>1, <2>2
<1>17. /\ Serving(c, b, s + 1, after)
       /\ Counted(MeasuredRow(c, b, s), missed) = MeasuredRow(c, b, s + 1)
  <2>1. objs \in Seq(Objs) /\ s \in Nat
    OBVIOUS
  <2>2. /\ (\E j \in DOMAIN objs : objs[j] = o) => Serving(c, b, s + 1, objs)
        /\ ~(\E j \in DOMAIN objs : objs[j] = o) => Serving(c, b, s + 1, Inserted(b, objs, o))
    BY ONLY <1>4, <1>9, <1>11, <1>12, <2>1, ServingNext
  <2>3. missed = IF \E j \in DOMAIN objs : objs[j] = c.stream[s + 1]
                 THEN MeasuredRow(c, b, s).n_miss ELSE MeasuredRow(c, b, s).n_miss + 1
    BY <1>12, <1>16
  <2>4. Counted(MeasuredRow(c, b, s), missed) = MeasuredRow(c, b, s + 1)
    BY ONLY <1>4, <1>9, <1>11, <1>12, <2>1, <2>3, Measures
  <2> QED BY <1>16, <2>2, <2>4
<1>18. result' = [result EXCEPT ![b] = MeasuredRow(c, b, s + 1)]
  <2>1. result' = [result EXCEPT ![b] = [result[b] EXCEPT !.n_req = result[b].n_req + 1,
                                                        !.n_miss = missed]]
    <3>1. result' = [result EXCEPT
            ![task[t]].n_req  = @ + 1,
            ![task[t]].n_miss = IF Holds(task[t], reader[k[t]]) THEN @ ELSE @ + 1]
      BY DEF Measure
    <3>2. result \in [1..n -> Row]
      BY DEF RowsInv
    <3>3. result' = [result EXCEPT ![b].n_req  = @ + 1,
                                  ![b].n_miss = IF Holds(b, o) THEN @ ELSE @ + 1]
      BY <1>2, <1>3, <1>7, <3>1
    <3> QED BY <1>14, <3>2, <3>3 DEF Row
  <2>2. result' = [result EXCEPT ![b] = Counted(result[b], missed)]
    BY <2>1 DEF Counted
  <2> QED BY <1>11, <1>17, <2>2
<1>19. MeasuredRow(c, b, s + 1) \in Row
  <2>1. c.stream \in Seq(Objs) /\ c.before \in 0..Len(c.stream) /\ s + 1 \in 0..Len(c.stream)
    BY <1>9, <1>12 DEF CourseOk
  <2>2. PICK log \in [0..Len(c.stream) -> Seq(Objs)] : log = MissLog(b, c.stream)
    BY <1>4, <2>1, MissLogIs
  <2>3. Len(log[c.before]) \in Nat /\ Len(log[s + 1]) \in Nat
    <3>1. log[c.before] \in Seq(Objs) /\ log[s + 1] \in Seq(Objs)
      BY <2>1
    <3> QED BY <3>1
  <2> QED BY <1>9, <2>2, <2>3 DEF MeasuredRow, Row
<1>20. /\ result' \in [1..n -> Row] /\ result'[b] = MeasuredRow(c, b, s + 1)
       /\ \A x \in 1..n : x # b => result'[x] = result[x]
  BY <1>4, <1>18, <1>19, RowChanged DEF RowsInv
<1>21. AlongAt(Course, task[t], pc'[t], k'[t], result'[task[t]], cache'[task[t]].objs)
  <2>1. c.warm + (k'[t] - 1) = s + 1 /\ c.before <= s + 1
    BY <1>2, <1>9, <1>10, <1>11
  <2>2. pc'[t] = "measure"
    BY <1>2
  <2> QED BY <1>3, <1>6, <1>13, <1>17, <1>20, <2>1, <2>2 DEF AlongAt
<1>22. Running(t)' /\ \A u \in Threads : pc'[u] = pc[u]
  BY <1>2 DEF Running
<1> QED BY <1>2, <1>3, <1>16, <1>20, <1>21, <1>22, OwnTask

\* The caller's steps keep the rows.
LEMMA CallerKeepsRows == ASSUME IInv, RowsInv, Caller \/ Returned \/ UNCHANGED vars PROVE RowsInv'
<1>1. CASE Create
  <2>1. i \in 1..n /\ cache \in CacheType /\ cache' = [cache EXCEPT ![i].state = "live"]
    BY <1>1 DEF Create, IInv, TypeOk
  <2>2. \A b \in 1..n : cache'[b].objs = cache[b].objs
    BY <2>1 DEF CacheType
  <2>3. UNCHANGED <<arguments, caller, queue, result, threads>>
    BY <1>1 DEF Create
  <2>4. \A b \in 1..n : Waiting(b)' <=> Waiting(b)
    BY <2>3 DEF Waiting, caller
  <2> QED BY <2>2, <2>3, <2>4, CallerRows
<1>2. CASE Push
  <2>1. i \in Nat /\ queue \in Seq(1..n) /\ queue' = Append(queue, i) /\ i' = i + 1 /\ n \in Nat
        /\ i <= n
    BY <1>2 DEF Push, IInv, TypeOk
  <2>2. UNCHANGED <<arguments, result, cache, threads>>
    BY <1>2 DEF Push
  <2>3. PICK m \in Nat : m = Len(queue)
    BY <2>1
  <2>4. DOMAIN queue = 1..m /\ DOMAIN queue' = 1..(m + 1) /\ queue'[m + 1] = i
        /\ \A j \in 1..m : queue'[j] = queue[j]
    BY <2>1, <2>3
  <2>5. ASSUME NEW b \in 1..n PROVE Waiting(b)' <=> Waiting(b)
    <3>1. ASSUME Waiting(b) PROVE Waiting(b)'
      <4>1. CASE b >= i
        <5>1. b = i \/ b >= i'
          BY <2>1, <4>1
        <5>2. m + 1 \in DOMAIN queue'
          BY <2>4
        <5> QED BY <2>4, <5>1, <5>2 DEF Waiting
      <4>2. CASE ~(b >= i)
        <5>1. PICK j \in DOMAIN queue : queue[j] = b
          BY <3>1, <4>2 DEF Waiting
        <5>2. j \in DOMAIN queue' /\ queue'[j] = b
          BY <2>4, <5>1
        <5> QED BY <5>2 DEF Waiting
      <4> QED BY <4>1, <4>2
    <3>2. ASSUME Waiting(b)' PROVE Waiting(b)
      <4>1. CASE b >= i'
        <5>1. b >= i
          BY <2>1, <4>1
        <5> QED BY <5>1 DEF Waiting
      <4>2. CASE ~(b >= i')
        <5>1. PICK j \in DOMAIN queue' : queue'[j] = b
          BY <3>2, <4>2 DEF Waiting
        <5>2. j \in DOMAIN queue \/ j = m + 1
          BY <2>4
        <5>3. j = m + 1 => b >= i
          BY <2>1, <2>4, <5>1
        <5>4. j \in DOMAIN queue => queue[j] = b
          BY <2>4, <5>1
        <5> QED BY <5>2, <5>3, <5>4 DEF Waiting
      <4> QED BY <4>1, <4>2
    <3> QED BY <3>1, <3>2
  <2> QED BY <2>2, <2>5, CallerRows
<1>3. CASE AllPushed \/ Spin \/ Waited \/ Join \/ Clear \/ Returned \/ UNCHANGED vars
  <2>1. UNCHANGED <<arguments, i, queue, result, cache, threads>>
    BY <1>3 DEF AllPushed, Spin, Waited, Join, Clear, Returned, vars, caller
  <2>2. \A b \in 1..n : Waiting(b)' <=> Waiting(b)
    BY <2>1 DEF Waiting
  <2>3. \A b \in 1..n : cache'[b].objs = cache[b].objs
    BY <2>1
  <2> QED BY <2>1, <2>2, <2>3, CallerRows
<1> QED BY <1>1, <1>2, <1>3 DEF Caller

\* Every step keeps the rows.
LEMMA StepRows == IInv /\ RowsInv /\ [Next]_vars => RowsInv'
<1> SUFFICES ASSUME IInv, RowsInv, [Next]_vars PROVE RowsInv'
  OBVIOUS
<1>1. ASSUME NEW t \in Threads, Thread(t) PROVE RowsInv'
  BY <1>1, TakeRows, WarmUpFromReaderRows, BeginTraceRows, WarmUpRows, EndWarmUpRows, MeasureRows,
     EndTraceRows, CountingRows, FinishRows DEF Thread
<1> QED BY <1>1, CallerKeepsRows DEF Next

\* Whichever threads serve the tasks and in whatever order, the rows the call returns are
\* those of a replay of each task alone: where its warm-up ends, what it measures, misses
\* and holds at the end follow from the call's arguments (simulator.c:69-140).
THEOREM RowsCorrect == Spec => []RowsAsIfAlone
<1>1. Spec => []RowsInv
  BY InitRows, StepRows, Invariance, PTL DEF Spec
<1>2. IInv /\ RowsInv /\ (main = "returned" => progress = n) => RowsAsIfAlone
  <2> SUFFICES ASSUME IInv, RowsInv, main = "returned" => progress = n, main = "returned"
               PROVE  \A b \in 1..n : result[b] = RowOf(b)
    BY DEF RowsAsIfAlone
  <2>1. queue = <<>> /\ i = n + 1 /\ \A t \in Threads : ~Running(t)
    BY DEF IInv, Lifetimes
  <2> TAKE b \in 1..n
  <2>2. n \in Nat /\ ~(b >= i)
    BY <2>1 DEF IInv, TypeOk
  <2>3. ~Waiting(b)
    BY <2>1, <2>2 DEF Waiting
  <2>4. result[b] = FinalRow(Course, b)
    BY <2>1, <2>3 DEF RowsInv
  <2> QED BY <2>4, RowIs DEF IInv, RowsInv
<1> QED BY <1>1, <1>2, Invariance, EveryTaskCounted, PTL
===============================================================================
