--------------------------- MODULE ThreadPoolProofs ---------------------------
(***************************************************************************)
(* Proofs about ThreadPool, for pools of any size, any number of callers   *)
(* and any ranges.                                                         *)
(***************************************************************************)
EXTENDS ThreadPool, TLAPS

-----------------------------------------------------------------------------
(* The inductive invariant.                                                *)

CallerPlaces == {"idle", "pool", "ids", "push", "submit", "notify", "exec",
                 "pop", "wait", "waiting"}
InsidePlaces == CallerPlaces \ {"idle", "pool"}
WorkerPlaces == {"lock", "test", "sleep", "asleep", "woken", "exec", "pop",
                 "finish", "ended"}
HoldingPlaces == {"test", "sleep", "woken", "exec", "pop"}

\* Callers and workers keep to their own places, a worker holds its mutex from
\* the test of its job to the end of its jobs, and a thread has a call of func
\* exactly while it runs one.
PlacesOK ==
  /\ \A c \in Callers : pc[c] \in CallerPlaces
  /\ \A w \in Workers : pc[w] \in WorkerPlaces
  /\ \A w \in Workers : mutex[w] # Free <=> pc[w] \in HoldingPlaces
  /\ \A c \in Callers : poolMutex = c <=> pc[c] \in InsidePlaces
  /\ \A t \in Threads : exec[t] # NoJob <=> pc[t] = "exec"

\* What a caller may ask for: one job for each thread, or a nonempty range.
CallArgs ==
  {BlockCall} \cup {ForCall(r[1], r[2]) : r \in {q \in Ranges : q[1] < q[2]}}

\* Nobody destroys a pool in use.
CallsOK ==
  /\ \A c \in Callers : call[c] \in CallArgs
  /\ \A c \in Callers : pc[c] # "idle" => dtor.at = "none"
  /\ \A w \in Workers : stop[w] => dtor.at # "none"

\* A worker's job is the chunk of its number, in the call in progress.
JobsOK ==
  \A w \in Workers : job[w] # NoJob =>
    /\ poolMutex # Free
    /\ \A c \in Callers : poolMutex = c =>
         /\ job[w] = Job(c, w)
         /\ w < ThreadCount(call[c]) - 1
         /\ pc[c] \notin {"ids", "push"}
         /\ pc[c] = "submit" => w < k[c]
         /\ pc[c] = "notify" => w <= k[c]
         /\ pc[c] \in {"wait", "waiting"} => w >= k[c]

\* A worker that runs jobs has not given its own up.
BusyOK ==
  \A w \in Workers :
    /\ pc[w] \in {"exec", "pop"} => job[w] # NoJob
    /\ pc[w] = "woken" => job[w] # NoJob \/ stop[w]

\* The queue holds later chunks of the call in progress until its caller has
\* found it empty.
QueueOK ==
  \A i \in 1..Len(queue) :
    /\ poolMutex # Free
    /\ \A c \in Callers : poolMutex = c =>
         /\ queue[i].caller = c
         /\ queue[i].chunk >= ThreadCount(call[c])
         /\ queue[i].chunk < JobCount(call[c])
         /\ pc[c] \notin {"ids", "wait", "waiting"}

\* A running thread's number: the worker's own, and threadCount - 1 for the
\* caller.
ExecsOK ==
  \A t \in Threads : exec[t] # NoJob =>
    /\ poolMutex # Free
    /\ \A c \in Callers : poolMutex = c =>
         /\ exec[t].job.caller = c
         /\ exec[t].job.chunk < JobCount(call[c])
         /\ exec[t].id = IF t \in Callers THEN ThreadCount(call[c]) - 1 ELSE t

\* How far the loops of a caller are.
LoopOf(c) ==
  LET n == ThreadCount(call[c]) IN
  /\ pc[c] = "ids" =>
       /\ k[c] < n
       /\ \A w \in Workers : w < k[c] => threadId[w] = w
  /\ pc[c] \in InsidePlaces \ {"ids"} =>
       \A w \in Workers : w < n - 1 => threadId[w] = w
  /\ pc[c] = "push" => k[c] >= n /\ k[c] <= JobCount(call[c])
  /\ pc[c] = "submit" => k[c] < n
  /\ pc[c] \in {"notify", "waiting"} => k[c] < n - 1
LoopsOK == \A c \in Callers : LoopOf(c)

DtorOK ==
  /\ dtor.at \in {"notify", "join"} => dtor.worker \in Workers
  /\ poolMutex # Free => dtor.at = "none"

IInv ==
  /\ TypeOK
  /\ PlacesOK
  /\ CallsOK
  /\ JobsOK
  /\ BusyOK
  /\ QueueOK
  /\ ExecsOK
  /\ LoopsOK
  /\ DtorOK

-----------------------------------------------------------------------------
(* Lemmas about threads, calls and their chunks.                           *)

LEMMA ThreadsApart ==
  /\ Workers \cap Callers = {}
  /\ Free \notin Workers \cup Callers
  /\ Workers \subseteq Nat
  /\ NoJob \notin Jobs \cup Execs
BY PoolAssumption DEF Workers, Jobs, Execs

LEMMA CallArgsAreCalls ==
  ASSUME NEW a \in CallArgs
  PROVE  a \in Calls /\ a.begin < a.end
<1>1. CASE a = BlockCall
  BY <1>1, PoolAssumption DEF Calls, BlockCall
<1>2. ASSUME NEW r \in Ranges, r[1] < r[2], a = ForCall(r[1], r[2])
      PROVE  a \in Calls /\ a.begin < a.end
  BY <1>2, PoolAssumption DEF Calls, ForCall
<1> QED  BY <1>1, <1>2 DEF CallArgs

LEMMA Counts ==
  ASSUME NEW a \in CallArgs
  PROVE  /\ JobCount(a) \in Nat /\ ThreadCount(a) \in Nat
         /\ ThreadCount(a) >= 1 /\ ThreadCount(a) <= NThreads
         /\ ThreadCount(a) <= JobCount(a)
         /\ a.kind # "for" => JobCount(a) = ThreadCount(a)
<1>1. NThreads * ChunksPerThread \in Nat /\ NThreads * ChunksPerThread >= 1
  BY PoolAssumption
<1>2. CountOf(a) \in Nat /\ CountOf(a) >= 1
  BY PoolAssumption, CallArgsAreCalls DEF Calls, BlockCall, CountOf
<1>3. JobCount(a) \in Nat /\ JobCount(a) >= 1
  BY <1>1, <1>2, PoolAssumption DEF JobCount, ChunkCount, MinOf
<1>4. a.kind # "for" => JobCount(a) = NThreads
  BY DEF JobCount
<1> QED  BY <1>3, <1>4, PoolAssumption DEF ThreadCount, MinOf

LEMMA CountsOf ==
  ASSUME CallsOK, NEW c \in Callers
  PROVE  /\ JobCount(call[c]) \in Nat /\ ThreadCount(call[c]) \in Nat
         /\ ThreadCount(call[c]) >= 1 /\ ThreadCount(call[c]) <= NThreads
         /\ ThreadCount(call[c]) <= JobCount(call[c])
         /\ call[c].kind # "for" => JobCount(call[c]) = ThreadCount(call[c])
BY Counts DEF CallsOK

\* A loop counter below threadCount - 1 is the number of a worker.
LEMMA WorkerOf ==
  ASSUME CallsOK, TypeOK, NEW c \in Callers, k[c] < ThreadCount(call[c]) - 1
  PROVE  k[c] \in Workers
BY CountsOf, PoolAssumption DEF TypeOK, Workers

LEMMA ChunkInts ==
  ASSUME NEW a \in CallArgs, NEW j \in Nat
  PROVE  JobBegin(a, j) \in Int /\ JobEnd(a, j) \in Int
<1> DEFINE n == CountOf(a)
<1>1. NThreads * ChunksPerThread \in Nat /\ NThreads * ChunksPerThread >= 1
  BY PoolAssumption
<1>2. n \in Nat \ {0} /\ a.begin \in Int
  BY PoolAssumption, CallArgsAreCalls DEF Calls, BlockCall, CountOf
<1>3. ChunkCount(n) \in Nat \ {0}
  BY <1>1, <1>2 DEF ChunkCount, MinOf
<1> HIDE DEF n
<1>4. n \div ChunkCount(n) \in Int /\ n % ChunkCount(n) \in Int
  BY <1>2, <1>3
<1>5. \A i \in Nat : i * (n \div ChunkCount(n)) \in Int
  BY <1>4
<1>6. \A i \in Nat : ChunkBegin(n, i) \in Int
  BY <1>4, <1>5 DEF ChunkBegin, MinOf
<1> QED  BY <1>2, <1>6 DEF JobBegin, JobEnd, n

\* func entered for a job is a call of func, and applies it to one element.
LEMMA RunningType ==
  ASSUME CallsOK, NEW b \in Jobs, NEW id \in Nat
  PROVE  /\ Running(b, id) \in Execs
         /\ Running(b, id) # NoJob
         /\ Running(b, id).job = b
         /\ Running(b, id).id = id
<1>1. JobBegin(call[b.caller], b.chunk) \in Int
  BY ChunkInts DEF CallsOK, Jobs
<1> QED  BY <1>1, ThreadsApart DEF Running, Execs

LEMMA AppliedType ==
  ASSUME TypeOK, NEW i
  PROVE  Applied(i) \in [Elements -> Nat]
<1>1. applied \in [Elements -> Nat]
  BY DEF TypeOK
<1>2. ASSUME NEW e \in Elements PROVE Applied(i)[e] \in Nat
  BY <1>1 DEF Applied
<1>3. Applied(i) = [e \in Elements |-> Applied(i)[e]]
  BY <1>1 DEF Applied
<1> QED  BY <1>2, <1>3

-----------------------------------------------------------------------------
(* What one thread's step changes, and what it leaves as it was.           *)

LEMMA GoesTo ==
  ASSUME TypeOK, NEW t \in Threads, NEW place \in Places, Goto(t, place)
  PROVE  /\ pc' \in [Threads -> Places]
         /\ pc'[t] = place
         /\ \A s \in Threads : s # t => pc'[s] = pc[s]
BY DEF TypeOK, Goto

LEMMA CountsTo ==
  ASSUME TypeOK, NEW c \in Callers, NEW n \in Nat, SetK(c, n)
  PROVE  /\ k' \in [Callers -> Nat]
         /\ k'[c] = n
         /\ \A d \in Callers : d # c => k'[d] = k[d]
BY DEF TypeOK, SetK

\* A caller inside holds the pool's mutex, and the others are outside.
LEMMA OneInside ==
  ASSUME PlacesOK, NEW c \in Callers, pc[c] \in InsidePlaces
  PROVE  /\ poolMutex = c
         /\ \A d \in Callers : d # c => pc[d] \in {"idle", "pool"}
BY DEF PlacesOK, InsidePlaces

LEMMA PlacesMoved ==
  ASSUME PlacesOK, NEW t \in Threads,
         \A s \in Threads : s # t => pc'[s] = pc[s] /\ exec'[s] = exec[s],
         \A w \in Workers : w # t => mutex'[w] = mutex[w],
         \A c \in Callers : c # t => (poolMutex' = c <=> poolMutex = c),
         t \in Callers => pc'[t] \in CallerPlaces /\ (poolMutex' = t <=> pc'[t] \in InsidePlaces),
         t \in Workers => pc'[t] \in WorkerPlaces /\ (mutex'[t] # Free <=> pc'[t] \in HoldingPlaces),
         exec'[t] # NoJob <=> pc'[t] = "exec"
  PROVE  PlacesOK'
BY DEF PlacesOK, Threads

LEMMA CallsKept ==
  ASSUME CallsOK, UNCHANGED <<call, stop, dtor>>,
         \A c \in Callers : pc'[c] # "idle" => pc[c] # "idle"
  PROVE  CallsOK'
BY DEF CallsOK

LEMMA JobsKept ==
  ASSUME JobsOK, UNCHANGED <<job, poolMutex>>,
         \A c \in Callers : poolMutex = c =>
           pc'[c] = pc[c] /\ k'[c] = k[c] /\ call'[c] = call[c]
  PROVE  JobsOK'
BY DEF JobsOK

LEMMA BusyKept ==
  ASSUME BusyOK, UNCHANGED <<job, stop>>,
         \A w \in Workers : pc'[w] \in {"exec", "pop", "woken"} => pc[w] = pc'[w]
  PROVE  BusyOK'
BY DEF BusyOK

LEMMA QueueKept ==
  ASSUME QueueOK, UNCHANGED <<queue, poolMutex>>,
         \A c \in Callers : poolMutex = c =>
           call'[c] = call[c] /\ (pc'[c] \in {"ids", "wait", "waiting"} => pc[c] = pc'[c])
  PROVE  QueueOK'
BY DEF QueueOK

LEMMA ExecsKept ==
  ASSUME ExecsOK, UNCHANGED <<exec, poolMutex>>,
         \A c \in Callers : poolMutex = c => call'[c] = call[c]
  PROVE  ExecsOK'
BY DEF ExecsOK

LEMMA LoopsKept ==
  ASSUME LoopsOK, UNCHANGED threadId,
         \A c \in Callers : pc'[c] = pc[c] /\ k'[c] = k[c] /\ call'[c] = call[c]
  PROVE  LoopsOK'
BY DEF LoopsOK, LoopOf

\* A step of the caller inside concerns no other caller's loops.
LEMMA LoopsMoved ==
  ASSUME PlacesOK, NEW c \in Callers, pc[c] \in InsidePlaces,
         \A d \in Callers : d # c => pc'[d] = pc[d],
         LoopOf(c)'
  PROVE  LoopsOK'
<1> SUFFICES ASSUME NEW d \in Callers, d # c PROVE LoopOf(d)'
  BY DEF LoopsOK
<1>1. pc'[d] \in {"idle", "pool"}
  BY OneInside
<1> QED  BY <1>1 DEF LoopOf, InsidePlaces

LEMMA DtorKept ==
  ASSUME DtorOK, UNCHANGED <<dtor, poolMutex>>
  PROVE  DtorOK'
BY DEF DtorOK

\* What no step of a worker that keeps its job touches.
LEMMA WorkerLeaves ==
  ASSUME IInv, \A c \in Callers : pc'[c] = pc[c],
         UNCHANGED <<stop, job, threadId, poolMutex, call, k, dtor>>
  PROVE  CallsOK' /\ JobsOK' /\ LoopsOK' /\ DtorOK'
BY CallsKept, JobsKept, LoopsKept, DtorKept DEF IInv

-----------------------------------------------------------------------------
(* Every step of a caller preserves the invariant.                         *)

LEMMA CallEmptyPreserves ==
  ASSUME IInv, NEW c \in Callers, CallEmpty(c) PROVE IInv'
<1>1. UNCHANGED <<pc, stop, job, threadId, mutex, queue, poolMutex, call, k, exec, applied, dtor>>
  BY DEF CallEmpty
<1>2. TypeOK'
  BY <1>1 DEF IInv, TypeOK, CallEmpty
<1>3. PlacesOK' /\ CallsOK' /\ BusyOK'
  BY <1>1, CallsKept, BusyKept DEF IInv, PlacesOK
<1>4. JobsOK' /\ QueueOK' /\ ExecsOK' /\ LoopsOK' /\ DtorOK'
  BY <1>1, JobsKept, QueueKept, ExecsKept, LoopsKept, DtorKept DEF IInv
<1> QED  BY <1>2, <1>3, <1>4 DEF IInv

LEMMA CallPreserves ==
  ASSUME IInv, NEW c \in Callers, Call(c) PROVE IInv'
<1>1. PICK a \in CallArgs : call' = [call EXCEPT ![c] = a]
  BY DEF Call, CallArgs
<1>2. /\ pc' \in [Threads -> Places] /\ pc'[c] = "pool"
      /\ \A s \in Threads : s # c => pc'[s] = pc[s]
  BY GoesTo DEF IInv, Call, Places, Threads
<1>3. /\ call' \in [Callers -> Calls] /\ call'[c] = a
      /\ \A d \in Callers : d # c => call'[d] = call[d]
  BY <1>1, CallArgsAreCalls DEF IInv, TypeOK
<1>4. /\ UNCHANGED <<stop, job, threadId, mutex, queue, poolMutex, k, exec, applied, dtor>>
      /\ pc[c] = "idle" /\ dtor.at = "none"
  BY DEF Call
<1>5. poolMutex # c
  BY <1>4 DEF IInv, PlacesOK, InsidePlaces
<1>6. TypeOK'
  BY <1>2, <1>3, <1>4 DEF IInv, TypeOK, Call
<1>7. PlacesOK'
  BY <1>2, <1>4, <1>5, PlacesMoved, ThreadsApart
  DEF IInv, PlacesOK, Threads, CallerPlaces, InsidePlaces
<1>8. CallsOK'
  BY <1>2, <1>3, <1>4 DEF IInv, CallsOK, Threads
<1>9. BusyOK' /\ DtorOK'
  BY <1>2, <1>4, BusyKept, DtorKept, ThreadsApart DEF IInv, Threads
<1>10. JobsOK' /\ QueueOK' /\ ExecsOK'
  BY <1>2, <1>3, <1>4, <1>5, JobsKept, QueueKept, ExecsKept DEF IInv, Threads
<1>11. LoopsOK'
  BY <1>2, <1>3, <1>4 DEF IInv, LoopsOK, LoopOf, InsidePlaces, Threads
<1> QED  BY <1>6, <1>7, <1>8, <1>9, <1>10, <1>11 DEF IInv

LEMMA LockPoolPreserves ==
  ASSUME IInv, NEW c \in Callers, LockPool(c) PROVE IInv'
<1>1. /\ pc' \in [Threads -> Places] /\ pc'[c] = "ids"
      /\ \A s \in Threads : s # c => pc'[s] = pc[s]
  BY GoesTo DEF IInv, LockPool, Places, Threads
<1>2. /\ k' \in [Callers -> Nat] /\ k'[c] = 0
      /\ \A d \in Callers : d # c => k'[d] = k[d]
  BY CountsTo DEF IInv, LockPool
<1>3. /\ UNCHANGED <<stop, job, threadId, mutex, queue, call, exec, dtor>>
      /\ pc[c] = "pool" /\ poolMutex = Free /\ poolMutex' = c
  BY DEF LockPool
<1>4. /\ \A w \in Workers : job[w] = NoJob
      /\ \A t \in Threads : exec[t] = NoJob
      /\ \A i \in 1..Len(queue) : FALSE
  BY <1>3 DEF IInv, JobsOK, QueueOK, ExecsOK
<1>5. TypeOK'
  BY <1>1, <1>2, <1>3 DEF IInv, TypeOK, LockPool
<1>6. PlacesOK'
  <2>1. \A d \in Callers : d # c => (poolMutex' = d <=> poolMutex = d)
    BY <1>3, ThreadsApart
  <2>2. exec'[c] = NoJob
    BY <1>3, <1>4 DEF Threads
  <2> QED
    BY <1>1, <1>3, <2>1, <2>2, PlacesMoved, ThreadsApart
    DEF IInv, Threads, CallerPlaces, InsidePlaces
<1>7. CallsOK' /\ BusyOK'
  BY <1>1, <1>3, CallsKept, BusyKept, ThreadsApart DEF IInv, Threads
<1>8. JobsOK' /\ QueueOK' /\ ExecsOK'
  BY <1>3, <1>4 DEF JobsOK, QueueOK, ExecsOK
<1>9. LoopsOK'
  <2>1. LoopOf(c)'
    <3>1. ThreadCount(call[c]) \in Nat /\ ThreadCount(call[c]) >= 1
      BY CountsOf DEF IInv
    <3>2. \A w \in Workers : ~(w < 0)
      BY ThreadsApart
    <3> QED  BY <1>1, <1>2, <1>3, <3>1, <3>2 DEF LoopOf
  <2>2. \A d \in Callers : d # c => LoopOf(d)'
    BY <1>1, <1>2, <1>3 DEF IInv, LoopsOK, LoopOf, Threads
  <2> QED  BY <2>1, <2>2 DEF LoopsOK
<1>10. DtorOK'
  BY <1>3 DEF IInv, DtorOK, CallsOK
<1> QED  BY <1>5, <1>6, <1>7, <1>8, <1>9, <1>10 DEF IInv

LEMMA SetThreadIdPreserves ==
  ASSUME IInv, NEW c \in Callers, SetThreadId(c) PROVE IInv'
<1>1. /\ UNCHANGED <<pc, stop, job, mutex, queue, poolMutex, call, exec, dtor>>
      /\ pc[c] = "ids" /\ k[c] < ThreadCount(call[c]) - 1
      /\ threadId' = [threadId EXCEPT ![k[c]] = k[c]]
  BY DEF SetThreadId
<1>2. k[c] \in Nat /\ k[c] \in Workers
  BY <1>1, WorkerOf DEF IInv, TypeOK
<1>3. /\ k' \in [Callers -> Nat] /\ k'[c] = k[c] + 1
      /\ \A d \in Callers : d # c => k'[d] = k[d]
  BY <1>2, CountsTo DEF IInv, SetThreadId
<1>4. /\ threadId' \in [Workers -> Nat] /\ threadId'[k[c]] = k[c]
      /\ \A w \in Workers : w # k[c] => threadId'[w] = threadId[w]
  BY <1>1, <1>2 DEF IInv, TypeOK
<1>5. poolMutex = c
  BY <1>1, OneInside DEF IInv, CallerPlaces, InsidePlaces
<1>6. TypeOK'
  BY <1>1, <1>3, <1>4 DEF IInv, TypeOK, SetThreadId
<1>7. PlacesOK' /\ CallsOK' /\ BusyOK'
  BY <1>1, CallsKept, BusyKept DEF IInv, PlacesOK
<1>8. JobsOK'
  BY <1>1, <1>5 DEF IInv, JobsOK
<1>9. QueueOK' /\ ExecsOK' /\ DtorOK'
  BY <1>1, QueueKept, ExecsKept, DtorKept DEF IInv
<1>10. LoopsOK'
  <2>1. \A w \in Workers : w < k[c] + 1 => threadId'[w] = w
    <3>1. \A w \in Workers : w < k[c] => threadId[w] = w
      BY <1>1 DEF IInv, LoopsOK, LoopOf
    <3> QED  BY <1>2, <1>4, <3>1, ThreadsApart
  <2>2. LoopOf(c)'
    BY <1>1, <1>2, <1>3, <2>1, CountsOf DEF IInv, LoopOf, InsidePlaces
  <2> QED  BY <1>1, <2>2, LoopsMoved DEF IInv, InsidePlaces, CallerPlaces
<1> QED  BY <1>6, <1>7, <1>8, <1>9, <1>10 DEF IInv

LEMMA IdsDonePreserves ==
  ASSUME IInv, NEW c \in Callers, IdsDone(c) PROVE IInv'
<1>1. /\ UNCHANGED <<stop, job, threadId, mutex, queue, poolMutex, call, exec, dtor>>
      /\ pc[c] = "ids" /\ k[c] >= ThreadCount(call[c]) - 1
  BY DEF IdsDone
<1>2. /\ pc' \in [Threads -> Places] /\ pc'[c] = "push"
      /\ \A s \in Threads : s # c => pc'[s] = pc[s]
  BY GoesTo DEF IInv, IdsDone, Places, Threads
<1>3. /\ ThreadCount(call[c]) \in Nat /\ ThreadCount(call[c]) <= JobCount(call[c])
      /\ JobCount(call[c]) \in Nat /\ k[c] \in Nat
  BY CountsOf DEF IInv, TypeOK
<1>4. /\ k' \in [Callers -> Nat] /\ k'[c] = ThreadCount(call[c])
      /\ \A d \in Callers : d # c => k'[d] = k[d]
  BY <1>3, CountsTo DEF IInv, IdsDone
<1>5. poolMutex = c
  BY <1>1, OneInside DEF IInv, CallerPlaces, InsidePlaces
<1>6. TypeOK'
  BY <1>1, <1>2, <1>4 DEF IInv, TypeOK, IdsDone
<1>7. PlacesOK'
  BY <1>1, <1>2, <1>5, PlacesMoved, ThreadsApart
  DEF IInv, PlacesOK, Threads, CallerPlaces, InsidePlaces
<1>8. CallsOK' /\ BusyOK'
  BY <1>1, <1>2, CallsKept, BusyKept, ThreadsApart DEF IInv, Threads
<1>9. JobsOK' /\ QueueOK'
  BY <1>1, <1>5 DEF IInv, JobsOK, QueueOK
<1>10. ExecsOK' /\ DtorOK'
  BY <1>1, ExecsKept, DtorKept DEF IInv
<1>11. LoopsOK'
  <2>1. \A w \in Workers : w < ThreadCount(call[c]) - 1 => threadId[w] = w
    BY <1>1, <1>3, ThreadsApart DEF IInv, LoopsOK, LoopOf
  <2>2. LoopOf(c)'
    BY <1>1, <1>2, <1>3, <1>4, <2>1 DEF LoopOf
  <2> QED  BY <1>1, <1>2, <2>2, LoopsMoved DEF IInv, InsidePlaces, CallerPlaces, Threads
<1> QED  BY <1>6, <1>7, <1>8, <1>9, <1>10, <1>11 DEF IInv

LEMMA UnsafePushPreserves ==
  ASSUME IInv, NEW c \in Callers, UnsafePush(c) PROVE IInv'
<1>1. /\ UNCHANGED <<pc, stop, job, threadId, mutex, poolMutex, call, exec, dtor>>
      /\ pc[c] = "push" /\ k[c] < JobCount(call[c])
      /\ queue' = Append(queue, Job(c, k[c]))
  BY DEF UnsafePush
<1>2. /\ k[c] \in Nat /\ k[c] >= ThreadCount(call[c]) /\ queue \in Seq(Jobs)
      /\ ThreadCount(call[c]) \in Nat /\ JobCount(call[c]) \in Nat
  BY <1>1, CountsOf DEF IInv, TypeOK, LoopsOK, LoopOf
<1>3. /\ k' \in [Callers -> Nat] /\ k'[c] = k[c] + 1
      /\ \A d \in Callers : d # c => k'[d] = k[d]
  BY <1>2, CountsTo DEF IInv, UnsafePush
<1>4. poolMutex = c
  BY <1>1, OneInside DEF IInv, CallerPlaces, InsidePlaces
<1>5. /\ queue' \in Seq(Jobs) /\ Len(queue) \in Nat /\ Len(queue') = Len(queue) + 1
      /\ queue'[Len(queue) + 1] = Job(c, k[c])
      /\ \A i \in 1..Len(queue) : queue'[i] = queue[i]
  BY <1>1, <1>2 DEF Job, Jobs
<1>6. TypeOK'
  BY <1>1, <1>3, <1>5 DEF IInv, TypeOK, UnsafePush
<1>7. PlacesOK' /\ CallsOK' /\ BusyOK'
  BY <1>1, CallsKept, BusyKept DEF IInv, PlacesOK
<1>8. JobsOK'
  BY <1>1, <1>4 DEF IInv, JobsOK
<1>9. QueueOK'
  <2>1. ASSUME NEW i \in 1..Len(queue')
        PROVE  /\ queue'[i].caller = c
               /\ queue'[i].chunk >= ThreadCount(call[c]) /\ queue'[i].chunk < JobCount(call[c])
    <3>1. CASE i = Len(queue) + 1
      BY <1>1, <1>2, <1>5, <3>1 DEF Job
    <3>2. CASE i \in 1..Len(queue)
      BY <1>4, <1>5, <3>2 DEF IInv, QueueOK
    <3> QED  BY <1>5, <3>1, <3>2
  <2> QED  BY <1>1, <1>4, <2>1, ThreadsApart DEF QueueOK
<1>10. ExecsOK' /\ DtorOK'
  BY <1>1, ExecsKept, DtorKept DEF IInv
<1>11. LoopsOK'
  <2>1. LoopOf(c)'
    BY <1>1, <1>2, <1>3 DEF IInv, LoopsOK, LoopOf
  <2> QED  BY <1>1, <2>1, LoopsMoved DEF IInv, InsidePlaces, CallerPlaces
<1> QED  BY <1>6, <1>7, <1>8, <1>9, <1>10, <1>11 DEF IInv

LEMMA PushDonePreserves ==
  ASSUME IInv, NEW c \in Callers, PushDone(c) PROVE IInv'
<1>1. /\ UNCHANGED <<stop, job, threadId, mutex, queue, poolMutex, call, exec, dtor>>
      /\ pc[c] = "push"
  BY DEF PushDone
<1>2. /\ pc' \in [Threads -> Places] /\ pc'[c] = "submit"
      /\ \A s \in Threads : s # c => pc'[s] = pc[s]
  BY GoesTo DEF IInv, PushDone, Places, Threads
<1>3. /\ k' \in [Callers -> Nat] /\ k'[c] = 0
      /\ \A d \in Callers : d # c => k'[d] = k[d]
  BY CountsTo DEF IInv, PushDone
<1>4. poolMutex = c
  BY <1>1, OneInside DEF IInv, CallerPlaces, InsidePlaces
<1>5. TypeOK'
  BY <1>1, <1>2, <1>3 DEF IInv, TypeOK, PushDone
<1>6. PlacesOK'
  BY <1>1, <1>2, <1>4, PlacesMoved, ThreadsApart
  DEF IInv, PlacesOK, Threads, CallerPlaces, InsidePlaces
<1>7. CallsOK' /\ BusyOK'
  BY <1>1, <1>2, CallsKept, BusyKept, ThreadsApart DEF IInv, Threads
<1>8. JobsOK' /\ QueueOK'
  BY <1>1, <1>2, <1>4 DEF IInv, JobsOK, QueueOK
<1>9. ExecsOK' /\ DtorOK'
  BY <1>1, ExecsKept, DtorKept DEF IInv
<1>10. LoopsOK'
  <2>1. LoopOf(c)'
    BY <1>1, <1>2, <1>3, CountsOf DEF IInv, LoopsOK, LoopOf, InsidePlaces, CallerPlaces
  <2> QED  BY <1>1, <1>2, <2>1, LoopsMoved DEF IInv, InsidePlaces, CallerPlaces, Threads
<1> QED  BY <1>5, <1>6, <1>7, <1>8, <1>9, <1>10 DEF IInv

LEMMA SubmitPreserves ==
  ASSUME IInv, NEW c \in Callers, Submit(c) PROVE IInv'
<1>1. /\ UNCHANGED <<stop, threadId, mutex, queue, poolMutex, call, k, exec, dtor>>
      /\ pc[c] = "submit" /\ k[c] < ThreadCount(call[c]) - 1 /\ mutex[k[c]] = Free
      /\ job' = [job EXCEPT ![k[c]] = Job(c, k[c])]
  BY DEF Submit
<1>2. k[c] \in Nat /\ k[c] \in Workers /\ Job(c, k[c]) \in Jobs
  BY <1>1, WorkerOf DEF IInv, TypeOK, Job, Jobs
<1>3. /\ pc' \in [Threads -> Places] /\ pc'[c] = "notify"
      /\ \A s \in Threads : s # c => pc'[s] = pc[s]
  BY GoesTo DEF IInv, Submit, Places, Threads
<1>4. /\ job' \in [Workers -> Jobs \cup {NoJob}]
      /\ job'[k[c]] = Job(c, k[c]) /\ job'[k[c]] # NoJob
      /\ \A w \in Workers : w # k[c] => job'[w] = job[w]
  BY <1>1, <1>2, ThreadsApart DEF IInv, TypeOK
<1>5. poolMutex = c
  BY <1>1, OneInside DEF IInv, CallerPlaces, InsidePlaces
<1>6. TypeOK'
  BY <1>1, <1>3, <1>4 DEF IInv, TypeOK, Submit
<1>7. PlacesOK'
  BY <1>1, <1>3, <1>5, PlacesMoved, ThreadsApart
  DEF IInv, PlacesOK, Threads, CallerPlaces, InsidePlaces
<1>8. CallsOK'
  BY <1>1, <1>3, CallsKept DEF IInv, Threads
<1>9. JobsOK'
  <2>1. ASSUME NEW w \in Workers, job'[w] # NoJob
        PROVE  job'[w] = Job(c, w) /\ w < ThreadCount(call[c]) - 1 /\ w <= k[c]
    <3>1. CASE w = k[c]
      BY <1>1, <1>2, <1>4, <3>1
    <3>2. CASE w # k[c]
      BY <1>1, <1>2, <1>4, <1>5, <2>1, <3>2, ThreadsApart DEF IInv, JobsOK
    <3> QED  BY <3>1, <3>2
  <2> QED  BY <1>1, <1>3, <1>5, <2>1, ThreadsApart DEF JobsOK
<1>10. BusyOK'
  BY <1>1, <1>3, <1>4, ThreadsApart DEF IInv, BusyOK, Threads
<1>11. QueueOK' /\ ExecsOK' /\ DtorOK'
  BY <1>1, <1>3, QueueKept, ExecsKept, DtorKept DEF IInv, Threads
<1>12. LoopsOK'
  <2>1. LoopOf(c)'
    BY <1>1, <1>3 DEF IInv, LoopsOK, LoopOf, InsidePlaces, CallerPlaces
  <2> QED  BY <1>1, <1>3, <2>1, LoopsMoved DEF IInv, InsidePlaces, CallerPlaces, Threads
<1> QED  BY <1>6, <1>7, <1>8, <1>9, <1>10, <1>11, <1>12 DEF IInv

\* A worker that is notified leaves its sleep, and nothing else of it changes.
LEMMA NotifyOccupiedPreserves ==
  ASSUME IInv, NEW c \in Callers, NotifyOccupied(c) PROVE IInv'
<1>1. /\ UNCHANGED <<stop, job, threadId, mutex, queue, poolMutex, call, exec, dtor>>
      /\ pc[c] = "notify"
  BY DEF NotifyOccupied
<1>2. k[c] < ThreadCount(call[c]) - 1 /\ k[c] \in Nat /\ k[c] \in Workers /\ k[c] # c
  BY <1>1, WorkerOf, ThreadsApart DEF IInv, TypeOK, LoopsOK, LoopOf
<1>3. /\ k' \in [Callers -> Nat] /\ k'[c] = k[c] + 1
      /\ \A d \in Callers : d # c => k'[d] = k[d]
  BY <1>2, CountsTo DEF IInv, NotifyOccupied
<1>4. /\ pc'[c] = "submit"
      /\ pc'[k[c]] = IF pc[k[c]] = "asleep" THEN "lock" ELSE pc[k[c]]
      /\ \A s \in Threads : s # c /\ s # k[c] => pc'[s] = pc[s]
  BY <1>2 DEF IInv, TypeOK, NotifyOccupied, Threads
<1>5. /\ \A d \in Callers : d # c => pc'[d] = pc[d]
      /\ \A w \in Workers : pc'[w] = pc[w] \/ (pc[w] = "asleep" /\ pc'[w] = "lock")
  <2>1. \A d \in Callers : d # c => d # k[c] /\ d \in Threads
    BY <1>2, ThreadsApart DEF Threads
  <2>2. ASSUME NEW w \in Workers
        PROVE  pc'[w] = pc[w] \/ (pc[w] = "asleep" /\ pc'[w] = "lock")
    <3>1. w # c /\ w \in Threads
      BY ThreadsApart DEF Threads
    <3>2. CASE w = k[c]
      BY <1>4, <3>2
    <3>3. CASE w # k[c]
      BY <1>4, <3>1, <3>3
    <3> QED  BY <3>2, <3>3
  <2>3. \A d \in Callers : d # c => pc'[d] = pc[d]
    BY <1>4, <2>1
  <2> QED  BY <2>2, <2>3
<1>6. poolMutex = c
  BY <1>1, OneInside DEF IInv, CallerPlaces, InsidePlaces
<1>7. TypeOK'
  <2>1. ASSUME NEW t \in Threads PROVE pc'[t] \in Places
    <3>1. pc'[t] \in {pc[t], "lock", "submit"}
      BY <1>4, <1>5 DEF Threads
    <3> QED  BY <3>1 DEF IInv, TypeOK, Places
  <2>2. pc' = [t \in Threads |-> pc'[t]]
    BY DEF IInv, TypeOK, NotifyOccupied
  <2>3. pc' \in [Threads -> Places]
    BY <2>1, <2>2
  <2> QED  BY <1>1, <1>3, <2>3 DEF IInv, TypeOK, NotifyOccupied
<1>8. PlacesOK'
  <2>1. \A d \in Callers : /\ pc'[d] \in CallerPlaces
                           /\ poolMutex = d <=> pc'[d] \in InsidePlaces
                           /\ exec[d] # NoJob <=> pc'[d] = "exec"
    BY <1>1, <1>4, <1>5, <1>6 DEF IInv, PlacesOK, CallerPlaces, InsidePlaces, Threads
  <2>2. \A w \in Workers : /\ pc'[w] \in WorkerPlaces
                           /\ mutex[w] # Free <=> pc'[w] \in HoldingPlaces
                           /\ exec[w] # NoJob <=> pc'[w] = "exec"
    BY <1>5 DEF IInv, PlacesOK, WorkerPlaces, HoldingPlaces, Threads
  <2> QED  BY <1>1, <2>1, <2>2 DEF PlacesOK, Threads
<1>9. CallsOK' /\ BusyOK'
  BY <1>1, <1>5, CallsKept, BusyKept DEF IInv
<1>10. JobsOK'
  BY <1>1, <1>2, <1>3, <1>4, <1>6, ThreadsApart DEF IInv, JobsOK
<1>11. QueueOK' /\ ExecsOK' /\ DtorOK'
  BY <1>1, <1>4, <1>5, QueueKept, ExecsKept, DtorKept DEF IInv
<1>12. LoopsOK'
  <2>1. ThreadCount(call[c]) \in Nat
    BY CountsOf DEF IInv
  <2>2. LoopOf(c)'
    BY <1>1, <1>2, <1>3, <1>4, <2>1 DEF IInv, LoopsOK, LoopOf, InsidePlaces, CallerPlaces
  <2> QED  BY <1>1, <1>5, <2>2, LoopsMoved DEF IInv, InsidePlaces, CallerPlaces
<1> QED  BY <1>7, <1>8, <1>9, <1>10, <1>11, <1>12 DEF IInv

LEMMA RunOwnPreserves ==
  ASSUME IInv, NEW c \in Callers, RunOwn(c) PROVE IInv'
<1>1. /\ UNCHANGED <<stop, job, threadId, mutex, queue, poolMutex, call, k, dtor>>
      /\ pc[c] = "submit" /\ k[c] >= ThreadCount(call[c]) - 1
      /\ exec' = [exec EXCEPT ![c] = Running(Job(c, k[c]), ThreadCount(call[c]) - 1)]
  BY DEF RunOwn
<1>2. /\ ThreadCount(call[c]) \in Nat /\ ThreadCount(call[c]) >= 1
      /\ ThreadCount(call[c]) <= JobCount(call[c]) /\ JobCount(call[c]) \in Nat
      /\ k[c] \in Nat /\ k[c] < ThreadCount(call[c])
  BY <1>1, CountsOf DEF IInv, TypeOK, LoopsOK, LoopOf
<1>3. Job(c, k[c]) \in Jobs
  BY <1>2 DEF Job, Jobs
<1>4. /\ exec' \in [Threads -> Execs \cup {NoJob}] /\ exec'[c] # NoJob
      /\ exec'[c].job = Job(c, k[c]) /\ exec'[c].id = ThreadCount(call[c]) - 1
      /\ \A t \in Threads : t # c => exec'[t] = exec[t]
  BY <1>1, <1>2, <1>3, RunningType DEF IInv, TypeOK, Threads
<1>5. /\ pc' \in [Threads -> Places] /\ pc'[c] = "exec"
      /\ \A s \in Threads : s # c => pc'[s] = pc[s]
  BY GoesTo DEF IInv, RunOwn, Places, Threads
<1>6. poolMutex = c
  BY <1>1, OneInside DEF IInv, CallerPlaces, InsidePlaces
<1>7. TypeOK'
  BY <1>1, <1>4, <1>5, AppliedType DEF IInv, TypeOK, RunOwn
<1>8. PlacesOK'
  BY <1>1, <1>4, <1>5, <1>6, PlacesMoved, ThreadsApart
  DEF IInv, Threads, CallerPlaces, InsidePlaces
<1>9. CallsOK' /\ BusyOK'
  BY <1>1, <1>5, CallsKept, BusyKept, ThreadsApart DEF IInv, Threads
<1>10. JobsOK'
  BY <1>1, <1>5, <1>6 DEF IInv, JobsOK
<1>11. QueueOK' /\ DtorOK'
  BY <1>1, <1>5, QueueKept, DtorKept DEF IInv, Threads
<1>12. ExecsOK'
  <2>1. Job(c, k[c]).caller = c /\ Job(c, k[c]).chunk < JobCount(call[c])
    BY <1>2 DEF Job
  <2> QED  BY <1>1, <1>4, <1>6, <2>1, ThreadsApart DEF IInv, ExecsOK
<1>13. LoopsOK'
  <2>1. LoopOf(c)'
    BY <1>1, <1>5 DEF IInv, LoopsOK, LoopOf, InsidePlaces, CallerPlaces
  <2> QED  BY <1>1, <1>5, <2>1, LoopsMoved DEF IInv, InsidePlaces, CallerPlaces, Threads
<1> QED  BY <1>7, <1>8, <1>9, <1>10, <1>11, <1>12, <1>13 DEF IInv

LEMMA CallerPopsNothingPreserves ==
  ASSUME IInv, NEW c \in Callers, CallerPopsNothing(c) PROVE IInv'
<1>1. /\ UNCHANGED <<stop, job, threadId, mutex, queue, poolMutex, call, exec, dtor>>
      /\ pc[c] = "pop" /\ queue = <<>>
  BY DEF CallerPopsNothing
<1>2. /\ pc' \in [Threads -> Places] /\ pc'[c] = "wait"
      /\ \A s \in Threads : s # c => pc'[s] = pc[s]
  BY GoesTo DEF IInv, CallerPopsNothing, Places, Threads
<1>3. /\ k' \in [Callers -> Nat] /\ k'[c] = 0
      /\ \A d \in Callers : d # c => k'[d] = k[d]
  BY CountsTo DEF IInv, CallerPopsNothing
<1>4. poolMutex = c
  BY <1>1, OneInside DEF IInv, CallerPlaces, InsidePlaces
<1>5. TypeOK'
  BY <1>1, <1>2, <1>3 DEF IInv, TypeOK, CallerPopsNothing
<1>6. PlacesOK'
  BY <1>1, <1>2, <1>4, PlacesMoved, ThreadsApart
  DEF IInv, PlacesOK, Threads, CallerPlaces, InsidePlaces
<1>7. CallsOK' /\ BusyOK'
  BY <1>1, <1>2, CallsKept, BusyKept, ThreadsApart DEF IInv, Threads
<1>8. JobsOK'
  BY <1>1, <1>2, <1>3, <1>4, ThreadsApart DEF IInv, JobsOK
<1>9. QueueOK' /\ ExecsOK' /\ DtorOK'
  BY <1>1, ExecsKept, DtorKept DEF IInv, QueueOK
<1>10. LoopsOK'
  <2>1. LoopOf(c)'
    BY <1>1, <1>2 DEF IInv, LoopsOK, LoopOf, InsidePlaces, CallerPlaces
  <2> QED  BY <1>1, <1>2, <2>1, LoopsMoved DEF IInv, InsidePlaces, CallerPlaces, Threads
<1> QED  BY <1>5, <1>6, <1>7, <1>8, <1>9, <1>10 DEF IInv

LEMMA WaitWorkerPreserves ==
  ASSUME IInv, NEW c \in Callers, WaitWorker(c) PROVE IInv'
<1>1. /\ UNCHANGED <<stop, job, threadId, mutex, queue, poolMutex, call, exec, dtor>>
      /\ pc[c] = "wait" /\ k[c] < ThreadCount(call[c]) - 1
  BY DEF WaitWorker
<1>2. /\ k[c] \in Nat /\ k[c] \in Workers /\ ThreadCount(call[c]) \in Nat
      /\ \A w \in Workers : w < ThreadCount(call[c]) - 1 => threadId[w] = w
  BY <1>1, WorkerOf, CountsOf DEF IInv, TypeOK, LoopsOK, LoopOf, InsidePlaces, CallerPlaces
<1>3. /\ pc' \in [Threads -> Places] /\ k' \in [Callers -> Nat]
      /\ \/ job[k[c]] = NoJob /\ pc'[c] = "wait" /\ k'[c] = k[c] + 1
         \/ job[k[c]] # NoJob /\ pc'[c] = "waiting" /\ k'[c] = k[c]
      /\ \A s \in Threads : s # c => pc'[s] = pc[s]
      /\ \A d \in Callers : d # c => k'[d] = k[d]
  <2>1. CASE job[k[c]] = NoJob
    <3>1. SetK(c, k[c] + 1) /\ UNCHANGED pc
      BY <2>1 DEF WaitWorker
    <3> QED  BY <1>1, <1>2, <2>1, <3>1, CountsTo DEF IInv, TypeOK
  <2>2. CASE job[k[c]] # NoJob
    <3>1. Goto(c, "waiting") /\ UNCHANGED k
      BY <2>2 DEF WaitWorker
    <3> QED  BY <1>1, <2>2, <3>1, GoesTo DEF IInv, TypeOK, Places, Threads
  <2> QED  BY <2>1, <2>2
<1>4. poolMutex = c
  BY <1>1, OneInside DEF IInv, CallerPlaces, InsidePlaces
<1>5. TypeOK'
  BY <1>1, <1>3 DEF IInv, TypeOK, WaitWorker
<1>6. PlacesOK'
  BY <1>1, <1>3, <1>4, PlacesMoved, ThreadsApart
  DEF IInv, PlacesOK, Threads, CallerPlaces, InsidePlaces
<1>7. CallsOK' /\ BusyOK'
  BY <1>1, <1>3, CallsKept, BusyKept, ThreadsApart DEF IInv, Threads
<1>8. JobsOK'
  <2>1. ASSUME NEW w \in Workers, job[w] # NoJob PROVE w >= k'[c]
    <3>1. w >= k[c] /\ w \in Nat
      BY <1>1, <1>4, <2>1, ThreadsApart DEF IInv, JobsOK
    <3> QED  BY <1>2, <1>3, <2>1, <3>1
  <2> QED  BY <1>1, <1>3, <1>4, <2>1 DEF IInv, JobsOK
<1>9. QueueOK' /\ ExecsOK' /\ DtorOK'
  BY <1>1, <1>4, ExecsKept, DtorKept DEF IInv, QueueOK
<1>10. LoopsOK'
  <2>1. LoopOf(c)'
    BY <1>1, <1>2, <1>3 DEF LoopOf
  <2> QED  BY <1>1, <1>3, <2>1, LoopsMoved DEF IInv, InsidePlaces, CallerPlaces, Threads
<1> QED  BY <1>5, <1>6, <1>7, <1>8, <1>9, <1>10 DEF IInv

\* A caller that leaves has found every worker without a job.
LEMMA ReturnIsAlone ==
  ASSUME IInv, NEW c \in Callers, Return(c)
  PROVE  /\ poolMutex = c
         /\ \A w \in Workers : job[w] = NoJob
         /\ \A t \in Threads : exec[t] = NoJob
         /\ \A i \in 1..Len(queue) : FALSE
<1>1. pc[c] = "wait" /\ k[c] >= ThreadCount(call[c]) - 1
  BY DEF Return
<1>2. poolMutex = c /\ \A d \in Callers : pc[d] # "exec"
  BY <1>1, OneInside DEF IInv, CallerPlaces, InsidePlaces
<1>3. k[c] \in Nat /\ ThreadCount(call[c]) \in Nat
  BY CountsOf DEF IInv, TypeOK
<1>4. \A w \in Workers : job[w] = NoJob
  BY <1>1, <1>2, <1>3, ThreadsApart DEF IInv, JobsOK
<1>5. \A t \in Threads : exec[t] = NoJob
  BY <1>2, <1>4 DEF IInv, BusyOK, PlacesOK, Threads
<1> QED  BY <1>1, <1>2, <1>4, <1>5 DEF IInv, QueueOK

LEMMA ReturnPreserves ==
  ASSUME IInv, NEW c \in Callers, Return(c) PROVE IInv'
<1>1. /\ UNCHANGED <<stop, job, threadId, mutex, queue, call, k, exec, dtor>>
      /\ pc[c] = "wait" /\ poolMutex' = Free /\ poolMutex = c
  BY ReturnIsAlone DEF Return
<1>2. /\ pc' \in [Threads -> Places] /\ pc'[c] = "idle"
      /\ \A s \in Threads : s # c => pc'[s] = pc[s]
  BY GoesTo DEF IInv, Return, Places, Threads
<1>3. TypeOK'
  BY <1>1, <1>2 DEF IInv, TypeOK, Return
<1>4. PlacesOK'
  BY <1>1, <1>2, PlacesMoved, ReturnIsAlone, ThreadsApart
  DEF IInv, Threads, CallerPlaces, InsidePlaces
<1>5. CallsOK' /\ BusyOK'
  BY <1>1, <1>2, CallsKept, BusyKept, ThreadsApart DEF IInv, Threads
<1>6. JobsOK' /\ QueueOK' /\ ExecsOK'
  BY <1>1, ReturnIsAlone DEF JobsOK, QueueOK, ExecsOK
<1>7. LoopsOK'
  <2>1. LoopOf(c)'
    BY <1>2 DEF LoopOf, InsidePlaces
  <2> QED  BY <1>1, <1>2, <2>1, LoopsMoved DEF IInv, InsidePlaces, CallerPlaces, Threads
<1>8. DtorOK'
  BY <1>1 DEF IInv, DtorOK
<1> QED  BY <1>3, <1>4, <1>5, <1>6, <1>7, <1>8 DEF IInv

-----------------------------------------------------------------------------
(* Every step of a worker preserves the invariant.                         *)

\* A worker that only takes or gives up its mutex, or moves between places
\* where it runs nothing.
LEMMA WorkerMoves ==
  ASSUME IInv, NEW w \in Workers, NEW place \in WorkerPlaces, Goto(w, place),
         pc[w] # "exec", place \notin {"exec", "pop"},
         place = "woken" => job[w] # NoJob \/ stop[w],
         mutex' \in [Workers -> Workers \cup {Free}],
         \A v \in Workers : v # w => mutex'[v] = mutex[v],
         mutex'[w] # Free <=> place \in HoldingPlaces,
         UNCHANGED <<stop, job, threadId, queue, poolMutex, call, k, exec, calls, applied, dtor>>
  PROVE  IInv'
<1>1. /\ pc' \in [Threads -> Places] /\ pc'[w] = place
      /\ \A s \in Threads : s # w => pc'[s] = pc[s]
  BY GoesTo DEF IInv, Places, WorkerPlaces, Threads
<1>2. \A c \in Callers : c # w /\ pc'[c] = pc[c]
  BY <1>1, ThreadsApart DEF Threads
<1>3. TypeOK'
  BY <1>1 DEF IInv, TypeOK
<1>4. PlacesOK'
  <2>1. exec'[w] # NoJob <=> pc'[w] = "exec"
    BY <1>1 DEF IInv, PlacesOK, Threads
  <2> QED  BY <1>1, <1>2, <2>1, PlacesMoved DEF IInv, Threads
<1>5. BusyOK'
  BY <1>1 DEF IInv, BusyOK, Threads
<1>6. CallsOK' /\ JobsOK' /\ LoopsOK' /\ DtorOK'
  BY <1>2, WorkerLeaves
<1>7. QueueOK' /\ ExecsOK'
  BY <1>2, QueueKept, ExecsKept DEF IInv
<1> QED  BY <1>3, <1>4, <1>5, <1>6, <1>7 DEF IInv

LEMMA LockPreserves ==
  ASSUME IInv, NEW w \in Workers, Lock(w) PROVE IInv'
<1>1. /\ mutex' \in [Workers -> Workers \cup {Free}] /\ mutex'[w] # Free
      /\ \A v \in Workers : v # w => mutex'[v] = mutex[v]
  BY ThreadsApart DEF IInv, TypeOK, Lock
<1> QED  BY <1>1, WorkerMoves DEF Lock, WorkerPlaces, HoldingPlaces

LEMMA TestOccupiedPreserves ==
  ASSUME IInv, NEW w \in Workers, TestOccupied(w) PROVE IInv'
<1> DEFINE place == IF job[w] # NoJob \/ stop[w] THEN "woken" ELSE "sleep"
<1>1. mutex[w] # Free
  BY DEF IInv, PlacesOK, TestOccupied, HoldingPlaces
<1>2. /\ Goto(w, place) /\ pc[w] = "test"
      /\ UNCHANGED <<stop, job, threadId, mutex, queue, poolMutex, call, k, exec, calls, applied, dtor>>
  BY DEF TestOccupied
<1>3. /\ place \in WorkerPlaces /\ place \in HoldingPlaces /\ place \notin {"exec", "pop"}
      /\ place = "woken" => job[w] # NoJob \/ stop[w]
  BY DEF WorkerPlaces, HoldingPlaces
<1>4. mutex \in [Workers -> Workers \cup {Free}]
  BY DEF IInv, TypeOK
<1> HIDE DEF place
<1> QED  BY <1>1, <1>2, <1>3, <1>4, WorkerMoves

LEMMA SleepPreserves ==
  ASSUME IInv, NEW w \in Workers, Sleep(w) PROVE IInv'
<1>1. /\ mutex' \in [Workers -> Workers \cup {Free}] /\ mutex'[w] = Free
      /\ \A v \in Workers : v # w => mutex'[v] = mutex[v]
  BY DEF IInv, TypeOK, Sleep
<1> QED  BY <1>1, WorkerMoves DEF Sleep, WorkerPlaces, HoldingPlaces

LEMMA WorkerReturnsPreserves ==
  ASSUME IInv, NEW w \in Workers, WorkerReturns(w) PROVE IInv'
<1>1. /\ mutex' \in [Workers -> Workers \cup {Free}] /\ mutex'[w] = Free
      /\ \A v \in Workers : v # w => mutex'[v] = mutex[v]
  BY DEF IInv, TypeOK, WorkerReturns
<1> QED  BY <1>1, WorkerMoves DEF WorkerReturns, WorkerPlaces, HoldingPlaces

\* Nobody has stopped the worker, so it has woken for a job, which is the chunk
\* of its number in the call in progress.
LEMMA WokenHasJob ==
  ASSUME IInv, NEW w \in Workers, RunJob(w)
  PROVE  /\ job[w] \in Jobs /\ poolMutex \in Callers
         /\ job[w] = Job(poolMutex, w)
         /\ w < ThreadCount(call[poolMutex]) - 1
         /\ threadId[w] = w
<1>1. job[w] # NoJob
  BY DEF IInv, BusyOK, RunJob
<1>2. job[w] \in Jobs /\ poolMutex \in Callers
  BY <1>1 DEF IInv, TypeOK, JobsOK
<1>3. /\ job[w] = Job(poolMutex, w) /\ w < ThreadCount(call[poolMutex]) - 1
      /\ pc[poolMutex] # "ids" /\ pc[poolMutex] \in InsidePlaces
  BY <1>1, <1>2 DEF IInv, JobsOK, PlacesOK
<1>4. threadId[w] = w
  BY <1>2, <1>3 DEF IInv, LoopsOK, LoopOf
<1> QED  BY <1>2, <1>3, <1>4

LEMMA RunJobPreserves ==
  ASSUME IInv, NEW w \in Workers, RunJob(w) PROVE IInv'
<1>1. /\ UNCHANGED <<stop, job, threadId, mutex, queue, poolMutex, call, k, dtor>>
      /\ pc[w] = "woken" /\ exec' = [exec EXCEPT ![w] = Running(job[w], threadId[w])]
  BY DEF RunJob
<1>2. /\ pc' \in [Threads -> Places] /\ pc'[w] = "exec"
      /\ \A s \in Threads : s # w => pc'[s] = pc[s]
  BY GoesTo DEF IInv, RunJob, Places, Threads
<1>3. \A c \in Callers : c # w /\ c \in Threads /\ pc'[c] = pc[c]
  BY <1>2, ThreadsApart DEF Threads
<1>4. w \in Nat /\ w \in Threads
  BY ThreadsApart DEF Threads
<1>5. /\ exec' \in [Threads -> Execs \cup {NoJob}] /\ exec'[w] # NoJob
      /\ exec'[w].job = Job(poolMutex, w) /\ exec'[w].id = w
      /\ \A t \in Threads : t # w => exec'[t] = exec[t]
  BY <1>1, <1>4, WokenHasJob, RunningType DEF IInv, TypeOK
<1>6. TypeOK'
  BY <1>1, <1>2, <1>5, AppliedType DEF IInv, TypeOK, RunJob
<1>7. PlacesOK'
  <2>1. mutex[w] # Free
    BY <1>1 DEF IInv, PlacesOK, HoldingPlaces
  <2> QED
    BY <1>1, <1>2, <1>3, <1>4, <1>5, <2>1, PlacesMoved DEF IInv, WorkerPlaces, HoldingPlaces
<1>8. BusyOK'
  BY <1>1, <1>2, WokenHasJob, ThreadsApart DEF IInv, BusyOK, Threads
<1>9. CallsOK' /\ JobsOK' /\ LoopsOK' /\ DtorOK'
  BY <1>1, <1>3, WorkerLeaves
<1>10. QueueOK'
  BY <1>1, <1>3, QueueKept DEF IInv
<1>11. ExecsOK'
  <2>1. /\ ThreadCount(call[poolMutex]) <= JobCount(call[poolMutex])
        /\ ThreadCount(call[poolMutex]) \in Nat /\ JobCount(call[poolMutex]) \in Nat
    BY WokenHasJob, CountsOf DEF IInv
  <2>2. Job(poolMutex, w).caller = poolMutex /\ Job(poolMutex, w).chunk < JobCount(call[poolMutex])
    <3>1. w < ThreadCount(call[poolMutex]) - 1
      BY WokenHasJob
    <3>2. w < JobCount(call[poolMutex])
      BY <1>4, <2>1, <3>1
    <3> QED  BY <3>2 DEF Job
  <2>3. poolMutex # Free /\ w \notin Callers
    BY WokenHasJob, ThreadsApart
  <2>4. \A c \in Callers : poolMutex' = c => c = poolMutex /\ call'[c] = call[poolMutex]
    BY <1>1
  <2> QED  BY <1>1, <1>5, <2>2, <2>3, <2>4 DEF IInv, ExecsOK
<1> QED  BY <1>6, <1>7, <1>8, <1>9, <1>10, <1>11 DEF IInv

LEMMA ClearJobPreserves ==
  ASSUME IInv, NEW w \in Workers, ClearJob(w) PROVE IInv'
<1>1. /\ UNCHANGED <<stop, threadId, queue, poolMutex, call, k, exec, dtor>>
      /\ pc[w] = "pop" /\ queue = <<>>
  BY DEF ClearJob
<1>2. /\ mutex' \in [Workers -> Workers \cup {Free}] /\ mutex'[w] = Free
      /\ \A v \in Workers : v # w => mutex'[v] = mutex[v]
  BY DEF IInv, TypeOK, ClearJob
<1>3. /\ job' \in [Workers -> Jobs \cup {NoJob}] /\ job'[w] = NoJob
      /\ \A v \in Workers : v # w => job'[v] = job[v]
  BY DEF IInv, TypeOK, ClearJob
<1>4. /\ pc' \in [Threads -> Places] /\ pc'[w] = "finish"
      /\ \A s \in Threads : s # w => pc'[s] = pc[s]
  BY GoesTo DEF IInv, ClearJob, Places, Threads
<1>5. \A c \in Callers : c # w /\ pc'[c] = pc[c]
  BY <1>4, ThreadsApart DEF Threads
<1>6. TypeOK'
  BY <1>1, <1>2, <1>3, <1>4 DEF IInv, TypeOK, ClearJob
<1>7. PlacesOK'
  <2>1. exec[w] = NoJob
    BY <1>1 DEF IInv, PlacesOK, Threads
  <2> QED
    BY <1>1, <1>2, <1>4, <1>5, <2>1, PlacesMoved DEF IInv, WorkerPlaces, HoldingPlaces, Threads
<1>8. JobsOK'
  BY <1>1, <1>3, <1>5 DEF IInv, JobsOK
<1>9. BusyOK'
  BY <1>1, <1>3, <1>4 DEF IInv, BusyOK, Threads
<1>10. CallsOK' /\ LoopsOK' /\ DtorOK'
  BY <1>1, <1>5, CallsKept, LoopsKept, DtorKept DEF IInv
<1>11. QueueOK' /\ ExecsOK'
  BY <1>1, <1>5, QueueKept, ExecsKept DEF IInv
<1> QED  BY <1>6, <1>7, <1>8, <1>9, <1>10, <1>11 DEF IInv

LEMMA NotifyFinishedPreserves ==
  ASSUME IInv, NEW w \in Workers, NotifyFinished(w) PROVE IInv'
<1>1. /\ UNCHANGED <<stop, job, threadId, mutex, queue, poolMutex, call, k, exec, dtor>>
      /\ pc[w] = "finish"
  BY DEF NotifyFinished
<1>2. /\ pc'[w] = "lock"
      /\ \A v \in Workers : v # w => pc'[v] = pc[v]
      /\ \A c \in Callers : pc'[c] = pc[c] \/ (pc[c] = "waiting" /\ pc'[c] = "wait")
  <2>1. pc' = [t \in Threads |->
                IF t = w THEN "lock"
                ELSE IF t \in Callers /\ pc[t] = "waiting" /\ k[t] = w THEN "wait" ELSE pc[t]]
    BY DEF NotifyFinished
  <2>2. w \in Threads /\ pc'[w] = "lock"
    BY <2>1 DEF Threads
  <2>3. ASSUME NEW v \in Workers, v # w PROVE pc'[v] = pc[v]
    BY <2>1, <2>3, ThreadsApart DEF Threads
  <2>4. ASSUME NEW c \in Callers
        PROVE  pc'[c] = pc[c] \/ (pc[c] = "waiting" /\ pc'[c] = "wait")
    <3>1. c # w /\ c \in Threads
      BY ThreadsApart DEF Threads
    <3> QED  BY <2>1, <3>1
  <2> QED  BY <2>2, <2>3, <2>4
<1>3. TypeOK'
  <2>1. pc' \in [Threads -> Places]
    BY DEF IInv, TypeOK, NotifyFinished, Places
  <2> QED  BY <1>1, <2>1 DEF IInv, TypeOK, NotifyFinished
<1>4. PlacesOK'
  <2>1. \A c \in Callers : /\ pc'[c] \in CallerPlaces
                           /\ poolMutex = c <=> pc'[c] \in InsidePlaces
                           /\ exec[c] # NoJob <=> pc'[c] = "exec"
    BY <1>2 DEF IInv, PlacesOK, CallerPlaces, InsidePlaces, Threads
  <2>2. \A v \in Workers : /\ pc'[v] \in WorkerPlaces
                           /\ mutex[v] # Free <=> pc'[v] \in HoldingPlaces
                           /\ exec[v] # NoJob <=> pc'[v] = "exec"
    BY <1>1, <1>2 DEF IInv, PlacesOK, WorkerPlaces, HoldingPlaces, Threads
  <2> QED  BY <1>1, <2>1, <2>2 DEF PlacesOK, Threads
<1>5. CallsOK' /\ BusyOK'
  BY <1>1, <1>2, CallsKept, BusyKept DEF IInv
<1>6. JobsOK' /\ QueueOK'
  BY <1>1, <1>2 DEF IInv, JobsOK, QueueOK
<1>7. ExecsOK' /\ DtorOK'
  BY <1>1, ExecsKept, DtorKept DEF IInv
<1>8. LoopsOK'
  <2> SUFFICES ASSUME NEW c \in Callers PROVE LoopOf(c)'
    BY DEF LoopsOK
  <2>1. LoopOf(c)
    BY DEF IInv, LoopsOK
  <2>2. CASE pc'[c] = pc[c]
    BY <1>1, <2>1, <2>2 DEF LoopOf
  <2>3. CASE pc[c] = "waiting" /\ pc'[c] = "wait"
    BY <1>1, <2>1, <2>3 DEF LoopOf, InsidePlaces, CallerPlaces
  <2> QED  BY <1>2, <2>2, <2>3
<1> QED  BY <1>3, <1>4, <1>5, <1>6, <1>7, <1>8 DEF IInv

-----------------------------------------------------------------------------
(* Steps inside func, in a worker or in the caller.                        *)

LEMMA NextElementPreserves ==
  ASSUME IInv, NEW t \in Threads, NextElement(t) PROVE IInv'
<1>1. /\ UNCHANGED <<pc, stop, job, threadId, mutex, queue, poolMutex, call, k, dtor>>
      /\ pc[t] = "exec" /\ exec' = [exec EXCEPT ![t].at = @ + 1]
  BY DEF NextElement
<1>2. exec[t] \in Execs /\ exec[t] # NoJob
  BY <1>1 DEF IInv, TypeOK, PlacesOK
<1>3. /\ exec'[t] = [exec[t] EXCEPT !.at = exec[t].at + 1]
      /\ \A s \in Threads : s # t => exec'[s] = exec[s]
      /\ DOMAIN exec' = Threads /\ exec' = [s \in Threads |-> exec'[s]]
  BY <1>1 DEF IInv, TypeOK
<1>4. /\ exec'[t] \in Execs /\ exec'[t] # NoJob
      /\ exec'[t].job = exec[t].job /\ exec'[t].id = exec[t].id
  BY <1>2, <1>3, ThreadsApart DEF Execs
<1>5. exec' \in [Threads -> Execs \cup {NoJob}]
  BY <1>3, <1>4 DEF IInv, TypeOK
<1>6. TypeOK'
  BY <1>1, <1>5, AppliedType DEF IInv, TypeOK, NextElement
<1>7. PlacesOK'
  BY <1>1, <1>2, <1>3, <1>4 DEF IInv, PlacesOK, Threads
<1>8. ExecsOK'
  BY <1>1, <1>2, <1>3, <1>4 DEF IInv, ExecsOK
<1>9. CallsOK' /\ BusyOK' /\ JobsOK' /\ QueueOK'
  BY <1>1, CallsKept, BusyKept, JobsKept, QueueKept DEF IInv
<1>10. LoopsOK' /\ DtorOK'
  BY <1>1, LoopsKept, DtorKept DEF IInv
<1> QED  BY <1>6, <1>7, <1>8, <1>9, <1>10 DEF IInv

\* A thread that has come to the end of its chunk goes to look at the queue, or
\* to wait for the workers when it is the caller of parallelBlock.
LEMMA EndJobGoes ==
  ASSUME TypeOK, NEW t \in Threads, EndJob(t)
  PROVE  /\ exec' \in [Threads -> Execs \cup {NoJob}] /\ exec'[t] = NoJob
         /\ \A s \in Threads : s # t => exec'[s] = exec[s]
         /\ pc' \in [Threads -> Places] /\ k' \in [Callers -> Nat]
         /\ \A s \in Threads : s # t => pc'[s] = pc[s]
         /\ \A c \in Callers : c # t => k'[c] = k[c]
         /\ \/ t \in Callers /\ call[t].kind = "block" /\ pc'[t] = "wait" /\ k'[t] = 0
            \/ pc'[t] = "pop" /\ UNCHANGED k
<1>1. exec' = [exec EXCEPT ![t] = NoJob]
  BY DEF EndJob
<1>2. /\ exec' \in [Threads -> Execs \cup {NoJob}] /\ exec'[t] = NoJob
      /\ \A s \in Threads : s # t => exec'[s] = exec[s]
  BY <1>1 DEF TypeOK
<1>3. CASE t \in Callers /\ call[t].kind = "block"
  <2>1. Goto(t, "wait") /\ SetK(t, 0)
    BY <1>3 DEF EndJob
  <2> QED  BY <1>2, <1>3, <2>1, GoesTo, CountsTo DEF Places
<1>4. CASE ~(t \in Callers /\ call[t].kind = "block")
  <2>1. Goto(t, "pop") /\ UNCHANGED k
    BY <1>4 DEF EndJob
  <2> QED  BY <1>2, <2>1, GoesTo DEF TypeOK, Places
<1> QED  BY <1>3, <1>4

LEMMA EndJobPreserves ==
  ASSUME IInv, NEW t \in Threads, EndJob(t) PROVE IInv'
<1>1. /\ UNCHANGED <<stop, job, threadId, mutex, queue, poolMutex, call, dtor>>
      /\ pc[t] = "exec"
  BY DEF EndJob
<1>2. /\ exec' \in [Threads -> Execs \cup {NoJob}] /\ exec'[t] = NoJob
      /\ \A s \in Threads : s # t => exec'[s] = exec[s]
  BY EndJobGoes DEF IInv
<1>3. /\ pc' \in [Threads -> Places] /\ k' \in [Callers -> Nat]
      /\ \A s \in Threads : s # t => pc'[s] = pc[s]
      /\ \A c \in Callers : c # t => k'[c] = k[c]
      /\ \/ t \in Callers /\ call[t].kind = "block" /\ pc'[t] = "wait" /\ k'[t] = 0
         \/ pc'[t] = "pop" /\ UNCHANGED k
  BY EndJobGoes DEF IInv
<1>4. TypeOK'
  BY <1>1, <1>2, <1>3 DEF IInv, TypeOK, EndJob
<1>5. CASE t \in Workers
  <2>1. pc'[t] = "pop" /\ UNCHANGED k /\ mutex[t] # Free
    BY <1>1, <1>3, <1>5, ThreadsApart DEF IInv, PlacesOK, HoldingPlaces
  <2>2. \A c \in Callers : c # t /\ c \in Threads /\ pc'[c] = pc[c]
    BY <1>3, <1>5, ThreadsApart DEF Threads
  <2>3. PlacesOK'
    BY <1>1, <1>2, <1>3, <1>5, <2>1, <2>2, PlacesMoved DEF IInv, WorkerPlaces, HoldingPlaces
  <2>4. BusyOK'
    BY <1>1, <1>3, <1>5, <2>1 DEF IInv, BusyOK, Threads
  <2>5. CallsOK' /\ JobsOK' /\ LoopsOK' /\ DtorOK'
    BY <1>1, <2>1, <2>2, WorkerLeaves
  <2>6. QueueOK'
    BY <1>1, <2>2, QueueKept DEF IInv
  <2>7. ExecsOK'
    BY <1>1, <1>2 DEF IInv, ExecsOK
  <2> QED  BY <1>4, <2>3, <2>4, <2>5, <2>6, <2>7 DEF IInv
<1>6. CASE t \in Callers
  <2>1. poolMutex = t /\ pc[t] \in InsidePlaces
    BY <1>1, <1>6, OneInside DEF IInv, InsidePlaces, CallerPlaces
  <2>2. \A w \in Workers : w # t /\ w \in Threads /\ pc'[w] = pc[w]
    BY <1>3, <1>6, ThreadsApart DEF Threads
  <2>3. PlacesOK'
    BY <1>1, <1>2, <1>3, <1>6, <2>1, <2>2, PlacesMoved DEF IInv, CallerPlaces, InsidePlaces
  <2>4. CallsOK' /\ BusyOK'
    BY <1>1, <1>3, <2>2, CallsKept, BusyKept DEF IInv, Threads
  <2>5. JobsOK'
    <3>1. /\ pc'[t] \in {"pop", "wait"}
          /\ pc'[t] = "wait" => k'[t] = 0
          /\ \A w \in Workers : w >= 0
      BY <1>3, ThreadsApart
    <3>2. \A w \in Workers : job[w] # NoJob =>
            job[w] = Job(t, w) /\ w < ThreadCount(call[t]) - 1
      BY <1>6, <2>1 DEF IInv, JobsOK
    <3>3. poolMutex' = t /\ t # Free /\ UNCHANGED <<job, call>>
      BY <1>1, <1>6, <2>1, ThreadsApart
    <3> QED  BY <3>1, <3>2, <3>3 DEF JobsOK
  <2>6. QueueOK'
    <3>1. CASE call[t].kind = "block"
      <4>1. JobCount(call[t]) = ThreadCount(call[t]) /\ JobCount(call[t]) \in Nat
        BY <1>6, <3>1, CountsOf DEF IInv
      <4>2. \A i \in 1..Len(queue) : queue[i] \in Jobs
        BY DEF IInv, TypeOK
      <4>3. ASSUME NEW i \in 1..Len(queue) PROVE FALSE
        <5>1. queue[i].chunk \in Nat
          BY <4>2 DEF Jobs
        <5>2. /\ queue[i].chunk >= ThreadCount(call[t])
              /\ queue[i].chunk < JobCount(call[t])
          BY <1>6, <2>1 DEF IInv, QueueOK
        <5> QED  BY <4>1, <5>1, <5>2
      <4> QED  BY <1>1, <4>3 DEF QueueOK
    <3>2. CASE call[t].kind # "block"
      BY <1>1, <1>3, <2>1, <3>2 DEF IInv, QueueOK
    <3> QED  BY <3>1, <3>2
  <2>7. ExecsOK' /\ DtorOK'
    BY <1>1, <1>2, DtorKept DEF IInv, ExecsOK
  <2>8. LoopsOK'
    <3>1. LoopOf(t)'
      BY <1>1, <1>3, <1>6 DEF IInv, LoopsOK, LoopOf, InsidePlaces, CallerPlaces
    <3> QED  BY <1>3, <1>6, <2>1, <3>1, LoopsMoved DEF IInv, Threads
  <2> QED  BY <1>4, <2>3, <2>4, <2>5, <2>6, <2>7, <2>8 DEF IInv
<1> QED  BY <1>5, <1>6 DEF Threads

\* A thread that looks at the queue is the caller inside or a worker it has
\* given a job and a number.
LEMMA PopsInside ==
  ASSUME IInv, NEW t \in Threads, pc[t] = "pop"
  PROVE  /\ poolMutex \in Callers
         /\ t \in Callers => poolMutex = t
         /\ NumberOf(t) = IF t \in Callers THEN ThreadCount(call[poolMutex]) - 1 ELSE t
         /\ NumberOf(t) \in Nat
<1>1. CASE t \in Callers
  <2>1. poolMutex = t
    BY <1>1, OneInside DEF IInv, InsidePlaces, CallerPlaces
  <2>2. ThreadCount(call[t]) \in Nat /\ ThreadCount(call[t]) >= 1
    BY <1>1, CountsOf DEF IInv
  <2> QED  BY <1>1, <2>1, <2>2 DEF NumberOf
<1>2. CASE t \in Workers
  <2>1. job[t] # NoJob
    BY <1>2 DEF IInv, BusyOK
  <2>2. poolMutex \in Callers
    BY <1>2, <2>1 DEF IInv, TypeOK, JobsOK
  <2>3. /\ t < ThreadCount(call[poolMutex]) - 1
        /\ pc[poolMutex] # "ids" /\ pc[poolMutex] \in InsidePlaces
    BY <1>2, <2>1, <2>2 DEF IInv, JobsOK, PlacesOK
  <2>4. threadId[t] = t
    BY <1>2, <2>2, <2>3 DEF IInv, LoopsOK, LoopOf
  <2> QED  BY <1>2, <2>2, <2>4, ThreadsApart DEF NumberOf
<1> QED  BY <1>1, <1>2 DEF Threads

LEMMA PopJobPreserves ==
  ASSUME IInv, NEW t \in Threads, PopJob(t) PROVE IInv'
<1> DEFINE b == Head(queue)
<1>1. /\ UNCHANGED <<stop, job, threadId, mutex, poolMutex, call, k, dtor>>
      /\ pc[t] = "pop" /\ queue # <<>> /\ queue' = Tail(queue)
      /\ exec' = [exec EXCEPT ![t] = Running(b, NumberOf(t))]
  BY DEF PopJob
<1>2. /\ Len(queue) \in Nat /\ 1 \in 1..Len(queue) /\ b = queue[1] /\ b \in Jobs
      /\ queue' \in Seq(Jobs)
      /\ \A i \in 1..Len(queue') : i + 1 \in 1..Len(queue) /\ queue'[i] = queue[i + 1]
  BY <1>1 DEF IInv, TypeOK
<1>3. /\ poolMutex \in Callers
      /\ b.caller = poolMutex /\ b.chunk < JobCount(call[poolMutex])
  BY <1>1, <1>2, PopsInside DEF IInv, QueueOK
<1> HIDE DEF b
<1>4. /\ exec' \in [Threads -> Execs \cup {NoJob}] /\ exec'[t] # NoJob
      /\ exec'[t].job = b /\ exec'[t].id = NumberOf(t)
      /\ \A s \in Threads : s # t => exec'[s] = exec[s]
  BY <1>1, <1>2, PopsInside, RunningType DEF IInv, TypeOK
<1>5. /\ pc' \in [Threads -> Places] /\ pc'[t] = "exec"
      /\ \A s \in Threads : s # t => pc'[s] = pc[s]
  BY GoesTo DEF IInv, PopJob, Places
<1>6. TypeOK'
  BY <1>1, <1>2, <1>4, <1>5, AppliedType DEF IInv, TypeOK, PopJob
<1>7. PlacesOK'
  <2>1. t \in Callers => poolMutex = t
    BY <1>1, PopsInside
  <2>2. t \in Workers => mutex[t] # Free
    BY <1>1 DEF IInv, PlacesOK, HoldingPlaces
  <2> QED
    BY <1>1, <1>4, <1>5, <2>1, <2>2, PlacesMoved
    DEF IInv, CallerPlaces, InsidePlaces, WorkerPlaces, HoldingPlaces
<1>8. CallsOK' /\ DtorOK'
  BY <1>1, <1>5, CallsKept, DtorKept DEF IInv, Threads
<1>9. BusyOK'
  BY <1>1, <1>5 DEF IInv, BusyOK, Threads
<1>10. JobsOK'
  BY <1>1, <1>5 DEF IInv, JobsOK, Threads
<1>11. QueueOK'
  BY <1>1, <1>2, <1>5 DEF IInv, QueueOK, Threads
<1>12. ExecsOK'
  <2>1. exec'[t].id = IF t \in Callers THEN ThreadCount(call[poolMutex]) - 1 ELSE t
    BY <1>1, <1>4, PopsInside
  <2> QED  BY <1>1, <1>3, <1>4, <2>1, ThreadsApart DEF IInv, ExecsOK
<1>13. LoopsOK'
  <2> SUFFICES ASSUME NEW c \in Callers PROVE LoopOf(c)'
    BY DEF LoopsOK
  <2>1. LoopOf(c)
    BY DEF IInv, LoopsOK
  <2>2. pc'[c] = pc[c] \/ (pc[c] = "pop" /\ pc'[c] = "exec")
    BY <1>1, <1>5 DEF Threads
  <2> QED  BY <1>1, <2>1, <2>2 DEF LoopOf, InsidePlaces, CallerPlaces
<1> QED  BY <1>6, <1>7, <1>8, <1>9, <1>10, <1>11, <1>12, <1>13 DEF IInv

LEMMA WakeSpuriouslyPreserves ==
  ASSUME IInv, NEW t \in Threads, WakeSpuriously(t) PROVE IInv'
<1>1. UNCHANGED <<stop, job, threadId, mutex, queue, poolMutex, call, k, exec, calls, applied, dtor>>
  BY DEF WakeSpuriously
<1>2. CASE pc[t] = "asleep" /\ Goto(t, "lock")
  <2>1. t \in Workers
    BY <1>2 DEF IInv, PlacesOK, CallerPlaces, Threads
  <2>2. mutex[t] = Free /\ mutex \in [Workers -> Workers \cup {Free}]
    BY <1>2, <2>1 DEF IInv, PlacesOK, TypeOK, HoldingPlaces
  <2> QED  BY <1>1, <1>2, <2>1, <2>2, WorkerMoves DEF WorkerPlaces, HoldingPlaces
<1>3. CASE pc[t] = "waiting" /\ Goto(t, "wait")
  <2>1. t \in Callers
    BY <1>3 DEF IInv, PlacesOK, WorkerPlaces, Threads
  <2>2. /\ pc' \in [Threads -> Places] /\ pc'[t] = "wait"
        /\ \A s \in Threads : s # t => pc'[s] = pc[s]
    BY <1>3, GoesTo DEF IInv, Places
  <2>3. poolMutex = t
    BY <1>3, <2>1, OneInside DEF IInv, InsidePlaces, CallerPlaces
  <2>4. TypeOK'
    BY <1>1, <2>2 DEF IInv, TypeOK
  <2>5. PlacesOK'
    BY <1>1, <1>3, <2>1, <2>2, <2>3, PlacesMoved, ThreadsApart
    DEF IInv, PlacesOK, CallerPlaces, InsidePlaces
  <2>6. CallsOK' /\ BusyOK'
    BY <1>1, <1>3, <2>1, <2>2, CallsKept, BusyKept, ThreadsApart DEF IInv, Threads
  <2>7. JobsOK' /\ QueueOK'
    BY <1>1, <1>3, <2>2, <2>3 DEF IInv, JobsOK, QueueOK
  <2>8. ExecsOK' /\ DtorOK'
    BY <1>1, ExecsKept, DtorKept DEF IInv
  <2>9. LoopsOK'
    <3>1. LoopOf(t)'
      BY <1>1, <1>3, <2>1, <2>2 DEF IInv, LoopsOK, LoopOf, InsidePlaces, CallerPlaces
    <3> QED  BY <1>3, <2>1, <2>2, <3>1, LoopsMoved DEF IInv, InsidePlaces, CallerPlaces, Threads
  <2> QED  BY <2>4, <2>5, <2>6, <2>7, <2>8, <2>9 DEF IInv
<1> QED  BY <1>2, <1>3 DEF WakeSpuriously

-----------------------------------------------------------------------------
(* The destructor.                                                         *)

LEMMA DtorGoes ==
  ASSUME IInv, NEW place \in {"stop", "notify", "join", "destroyed"}, NEW w \in Nat,
         DtorGoto(place, w)
  PROVE  /\ dtor'.at = place /\ dtor'.worker = w
         /\ dtor' \in [at : {"none", "stop", "notify", "join", "destroyed"}, worker : Nat]
BY DEF DtorGoto

\* Only the destructor moves on: callers are idle, and workers keep to their
\* places.
LEMMA DtorMoves ==
  ASSUME IInv, dtor'.at # "none", \A c \in Callers : pc[c] = "idle",
         dtor' \in [at : {"none", "stop", "notify", "join", "destroyed"}, worker : Nat],
         dtor'.at \in {"notify", "join"} => dtor'.worker \in Workers,
         UNCHANGED <<pc, job, threadId, mutex, queue, poolMutex, call, k, exec, calls, applied>>,
         stop' \in [Workers -> BOOLEAN],
         \A w \in Workers : stop[w] => stop'[w]
  PROVE  IInv'
<1>1. poolMutex = Free
  BY DEF IInv, TypeOK, PlacesOK, InsidePlaces
<1>2. TypeOK'
  BY DEF IInv, TypeOK
<1>3. PlacesOK' /\ CallsOK' /\ DtorOK'
  BY <1>1 DEF IInv, PlacesOK, CallsOK, DtorOK
<1>4. BusyOK'
  BY DEF IInv, BusyOK
<1>5. JobsOK' /\ QueueOK' /\ ExecsOK' /\ LoopsOK'
  BY JobsKept, QueueKept, ExecsKept, LoopsKept DEF IInv
<1> QED  BY <1>2, <1>3, <1>4, <1>5 DEF IInv

\* Callers are idle while the pool is destroyed.
LEMMA DtorIsAlone ==
  ASSUME IInv, dtor.at # "none", NEW c \in Callers
  PROVE  pc[c] = "idle"
BY DEF IInv, CallsOK

LEMMA DtorStartPreserves ==
  ASSUME IInv, DtorStart PROVE IInv'
BY DtorGoes, DtorMoves DEF DtorStart, IInv, TypeOK

LEMMA DtorStopPreserves ==
  ASSUME IInv, DtorStop PROVE IInv'
<1>1. /\ stop' \in [Workers -> BOOLEAN]
      /\ \A w \in Workers : stop[w] => stop'[w]
  BY DEF IInv, TypeOK, DtorStop
<1>2. dtor.worker \in Workers /\ dtor.worker \in Nat
  BY ThreadsApart DEF DtorStop
<1> QED  BY <1>1, <1>2, DtorGoes, DtorMoves, DtorIsAlone DEF DtorStop

LEMMA DtorNotifyPreserves ==
  ASSUME IInv, DtorNotify PROVE IInv'
<1> DEFINE w == dtor.worker
<1>1. /\ UNCHANGED <<stop, job, threadId, mutex, queue, poolMutex, call, k, exec, calls, applied>>
      /\ dtor.at = "notify" /\ DtorGoto("join", w)
      /\ pc' = [pc EXCEPT ![w] = IF @ = "asleep" THEN "lock" ELSE @]
  BY DEF DtorNotify
<1>2. w \in Workers /\ w \in Nat
  BY <1>1, ThreadsApart DEF IInv, DtorOK
<1>3. dtor' = [at |-> "join", worker |-> w] /\ poolMutex = Free
  BY <1>1 DEF DtorGoto, IInv, DtorOK
<1> HIDE DEF w
<1>4. /\ pc' \in [Threads -> Places]
      /\ \A s \in Threads : pc'[s] = pc[s] \/ (pc[s] = "asleep" /\ pc'[s] = "lock")
  <2>1. pc \in [Threads -> Places] /\ w \in Threads
    BY <1>2 DEF IInv, TypeOK, Threads
  <2>2. ASSUME NEW s \in Threads
        PROVE  pc'[s] = pc[s] \/ (pc[s] = "asleep" /\ pc'[s] = "lock")
    BY <1>1, <2>1
  <2> QED  BY <1>1, <2>1, <2>2 DEF Places
<1>5. \A c \in Callers : pc'[c] = pc[c]
  BY <1>4 DEF IInv, PlacesOK, CallerPlaces, Threads
<1>6. TypeOK'
  BY <1>1, <1>2, <1>3, <1>4 DEF IInv, TypeOK
<1>7. PlacesOK'
  <2>1. \A v \in Workers : /\ pc'[v] \in WorkerPlaces
                           /\ mutex[v] # Free <=> pc'[v] \in HoldingPlaces
                           /\ exec[v] # NoJob <=> pc'[v] = "exec"
    BY <1>4 DEF IInv, PlacesOK, WorkerPlaces, HoldingPlaces, Threads
  <2> QED  BY <1>1, <1>5, <2>1 DEF IInv, PlacesOK, Threads
<1>8. CallsOK' /\ DtorOK'
  BY <1>1, <1>2, <1>3, <1>5 DEF IInv, CallsOK, DtorOK
<1>9. BusyOK'
  BY <1>1, <1>4, BusyKept DEF IInv, Threads
<1>10. JobsOK' /\ QueueOK' /\ ExecsOK' /\ LoopsOK'
  BY <1>1, <1>5, JobsKept, QueueKept, ExecsKept, LoopsKept DEF IInv
<1> QED  BY <1>6, <1>7, <1>8, <1>9, <1>10 DEF IInv

LEMMA DtorJoinPreserves ==
  ASSUME IInv, DtorJoin PROVE IInv'
<1>1. dtor.worker + 1 \in Nat
  BY DEF IInv, TypeOK
<1> QED  BY <1>1, DtorGoes, DtorMoves, DtorIsAlone DEF DtorJoin, IInv, TypeOK

LEMMA DtorEndPreserves ==
  ASSUME IInv, DtorEnd PROVE IInv'
<1>1. dtor.worker \in Nat
  BY DEF IInv, TypeOK
<1> QED  BY <1>1, DtorGoes, DtorMoves, DtorIsAlone DEF DtorEnd, IInv, TypeOK


-----------------------------------------------------------------------------
LEMMA InitInv ==
  ASSUME Init PROVE IInv
<1>1. \A t \in Threads : pc[t] = (IF t \in Callers THEN "idle" ELSE "lock")
  BY DEF Init
<1>2. /\ \A c \in Callers : pc[c] = "idle"
      /\ \A w \in Workers : pc[w] = "lock"
  BY <1>1, ThreadsApart DEF Threads
<1>3. TypeOK
  <2>1. /\ pc \in [Threads -> Places] /\ stop \in [Workers -> BOOLEAN]
        /\ job \in [Workers -> Jobs \cup {NoJob}] /\ threadId \in [Workers -> Nat]
        /\ mutex \in [Workers -> Workers \cup {Free}] /\ queue \in Seq(Jobs)
        /\ poolMutex \in Callers \cup {Free}
    BY DEF Init, Places
  <2>2. /\ call \in [Callers -> Calls] /\ k \in [Callers -> Nat]
        /\ exec \in [Threads -> Execs \cup {NoJob}] /\ calls \in [Callers -> Nat]
        /\ applied \in [Elements -> Nat]
        /\ dtor \in [at : {"none", "stop", "notify", "join", "destroyed"}, worker : Nat]
    BY DEF Init, Calls
  <2> QED  BY <2>1, <2>2 DEF TypeOK
<1>4. PlacesOK
  <2>1. /\ \A w \in Workers : mutex[w] = Free
        /\ poolMutex = Free /\ \A t \in Threads : exec[t] = NoJob
    BY DEF Init
  <2>2. \A c \in Callers : poolMutex # c
    BY <2>1, ThreadsApart
  <2> QED
    BY <1>2, <2>1, <2>2
    DEF PlacesOK, CallerPlaces, InsidePlaces, WorkerPlaces, HoldingPlaces, Threads
<1>5. CallsOK
  BY <1>2 DEF Init, CallsOK, CallArgs
<1>6. JobsOK /\ QueueOK /\ ExecsOK /\ DtorOK
  BY DEF Init, JobsOK, QueueOK, ExecsOK, DtorOK
<1>7. BusyOK
  BY <1>2 DEF BusyOK
<1>8. LoopsOK
  BY <1>2 DEF LoopsOK, LoopOf, InsidePlaces, CallerPlaces
<1> QED  BY <1>3, <1>4, <1>5, <1>6, <1>7, <1>8 DEF IInv

LEMMA StutterPreserves ==
  ASSUME IInv, UNCHANGED vars PROVE IInv'
<1>1. TypeOK'
  BY DEF IInv, vars, TypeOK
<1>2. PlacesOK'
  BY DEF IInv, vars, PlacesOK
<1>3. CallsOK' /\ BusyOK' /\ DtorOK'
  BY CallsKept, BusyKept, DtorKept DEF IInv, vars
<1>4. JobsOK' /\ QueueOK' /\ ExecsOK' /\ LoopsOK'
  BY JobsKept, QueueKept, ExecsKept, LoopsKept DEF IInv, vars
<1> QED  BY <1>1, <1>2, <1>3, <1>4 DEF IInv

LEMMA NextPreserves ==
  ASSUME IInv, [Next]_vars PROVE IInv'
<1>1. ASSUME NEW c \in Callers, Call(c) \/ CallEmpty(c) \/ CallerStep(c)
      PROVE  IInv'
  BY <1>1, CallPreserves, CallEmptyPreserves, LockPoolPreserves,
     SetThreadIdPreserves, IdsDonePreserves, UnsafePushPreserves,
     PushDonePreserves, SubmitPreserves, NotifyOccupiedPreserves,
     RunOwnPreserves, CallerPopsNothingPreserves, WaitWorkerPreserves,
     ReturnPreserves
  DEF CallerStep
<1>2. ASSUME NEW w \in Workers, WorkerStep(w) PROVE IInv'
  BY <1>2, LockPreserves, TestOccupiedPreserves, SleepPreserves,
     RunJobPreserves, WorkerReturnsPreserves, ClearJobPreserves,
     NotifyFinishedPreserves
  DEF WorkerStep
<1>3. ASSUME NEW t \in Threads, RunStep(t) \/ WakeSpuriously(t) PROVE IInv'
  BY <1>3, NextElementPreserves, EndJobPreserves, PopJobPreserves,
     WakeSpuriouslyPreserves
  DEF RunStep
<1>4. ASSUME DtorStart \/ Dtor PROVE IInv'
  BY <1>4, DtorStartPreserves, DtorStopPreserves, DtorNotifyPreserves,
     DtorJoinPreserves, DtorEndPreserves
  DEF Dtor
<1> QED  BY <1>1, <1>2, <1>3, <1>4, StutterPreserves DEF Next

\* The invariant, and with it the types, hold in every reachable state of
\* every pool.
THEOREM Invariant == Spec => []IInv
<1> QED  BY InitInv, NextPreserves, PTL DEF Spec

\* No value leaves the type its variable was given, whatever the pool's size.
THEOREM TypeCorrect == Spec => []TypeOK
<1>1. IInv => TypeOK
  BY DEF IInv
<1> QED  BY <1>1, Invariant, PTL

\* The workers have their own numbers, all below threadCount - 1, which is the
\* caller's.
LEMMA NumbersApart ==
  ASSUME IInv PROVE NumbersDiffer
<1> SUFFICES ASSUME NEW s \in Threads, NEW t \in Threads,
                    exec[s] # NoJob, exec[t] # NoJob
             PROVE  exec[s].id < NThreads /\ (s # t => exec[s].id # exec[t].id)
  BY DEF NumbersDiffer
<1>1. PICK c \in Callers : poolMutex = c
  BY DEF IInv, TypeOK, ExecsOK
<1>2. ThreadCount(call[c]) \in Nat /\ ThreadCount(call[c]) <= NThreads
  BY CountsOf DEF IInv
<1>3. ASSUME NEW u \in Threads, exec[u] # NoJob
      PROVE  \/ u = c /\ exec[u].id = ThreadCount(call[c]) - 1
             \/ u \in Workers /\ exec[u].id = u /\ u < ThreadCount(call[c]) - 1
  <2>1. CASE u \in Callers
    BY <1>1, <1>3, <2>1 DEF IInv, ExecsOK, PlacesOK, InsidePlaces, CallerPlaces
  <2>2. CASE u \in Workers
    <3>1. pc[u] = "exec" /\ job[u] # NoJob
      BY <1>3, <2>2 DEF IInv, PlacesOK, BusyOK, Threads
    <3>2. u < ThreadCount(call[c]) - 1
      BY <1>1, <2>2, <3>1 DEF IInv, JobsOK
    <3>3. exec[u].id = u
      BY <1>1, <1>3, <2>2, ThreadsApart DEF IInv, ExecsOK
    <3> QED  BY <2>2, <3>2, <3>3
  <2> QED  BY <2>1, <2>2 DEF Threads
<1>4. s \in Workers => s \in Nat
  BY ThreadsApart
<1>5. t \in Workers => t \in Nat
  BY ThreadsApart
<1> QED  BY <1>2, <1>3, <1>4, <1>5, PoolAssumption

\* Two threads inside func never share a number.
THEOREM NumbersAlwaysDiffer == Spec => []NumbersDiffer
<1>1. IInv => NumbersDiffer
  BY NumbersApart
<1> QED  BY <1>1, Invariant, PTL

\* No job outlives the call whose frame it refers to.
THEOREM JobsStayInsideCall == Spec => []JobsInsideCall
<1>1. IInv => JobsInsideCall
  <2> SUFFICES ASSUME IInv PROVE JobsInsideCall
    OBVIOUS
  <2>1. \A w \in Workers : job[w] # NoJob => job[w].caller = poolMutex
    BY DEF IInv, JobsOK, Job, TypeOK
  <2>2. \A i \in 1..Len(queue) : queue[i].caller = poolMutex
    BY DEF IInv, QueueOK, TypeOK
  <2>3. \A t \in Threads : exec[t] # NoJob => exec[t].job.caller = poolMutex
    BY DEF IInv, ExecsOK, TypeOK
  <2> QED  BY <2>1, <2>2, <2>3 DEF JobsInsideCall
<1> QED  BY <1>1, Invariant, PTL

\* What is written without a lock is written while nobody else uses it.
THEOREM UnlockedWritesAreAlone == Spec => []UnlockedWritesAlone
<1>1. IInv => UnlockedWritesAlone
  <2> SUFFICES ASSUME IInv, NEW c \in Callers, NEW t \in Threads,
                      pc[c] \in {"ids", "push"}
               PROVE  pc[t] \notin {"pop", "exec", "woken"}
    BY DEF UnlockedWritesAlone
  <2>1. poolMutex = c /\ dtor.at = "none"
    BY DEF IInv, PlacesOK, CallsOK, InsidePlaces, CallerPlaces
  <2>2. CASE t \in Callers
    BY <2>1, <2>2 DEF IInv, PlacesOK, InsidePlaces, CallerPlaces
  <2>3. CASE t \in Workers
    BY <2>1, <2>3 DEF IInv, JobsOK, BusyOK, CallsOK
  <2> QED  BY <2>2, <2>3 DEF Threads
<1> QED  BY <1>1, Invariant, PTL

-----------------------------------------------------------------------------
(* ThreadPool implements ParallelCall: divideWork cuts a range into nonempty *)
(* chunks that do not overlap and leave nothing out, every chunk is begun    *)
(* once, and a call returns when all of them have ended.                     *)

(* The invariant: which elements func has been applied to.                 *)

\* Element i is in the chunk of job j of call a.
InChunk(a, j, i) == JobBegin(a, j) <= i /\ i < JobEnd(a, j)

\* No thread has begun job j of caller c: it is still to be pushed or
\* submitted, a worker has it and has not begun it, or it is in the queue.
Untaken(c, j) ==
  \/ pc[c] \in {"ids", "push"}
  \/ pc[c] = "submit" /\ k[c] <= j /\ j < ThreadCount(call[c])
  \/ pc[c] = "notify" /\ k[c] < j /\ j < ThreadCount(call[c])
  \/ j \in Workers /\ job[j] # NoJob /\ pc[j] \notin {"exec", "pop"}
  \/ \E i \in 1..Len(queue) : queue[i].chunk = j

Runs(t, j) == exec[t] # NoJob /\ exec[t].job.chunk = j

\* A job is in the queue once, and those after the threads' own have been
\* pushed in their order.
QueuedOnce ==
  /\ \A i, j \in 1..Len(queue) : i # j => queue[i].chunk # queue[j].chunk
  /\ \A c \in Callers : pc[c] = "push" =>
       /\ \A i \in 1..Len(queue) : queue[i].chunk < k[c]
       /\ \A j \in ThreadCount(call[c])..k[c]-1 :
            \E i \in 1..Len(queue) : queue[i].chunk = j

\* A job is run by one thread, and only after it was taken.
RunOnce ==
  /\ \A s, t \in Threads :
       exec[s] # NoJob /\ exec[t] # NoJob /\ s # t =>
         exec[s].job.chunk # exec[t].job.chunk
  /\ \A c \in Callers : poolMutex = c =>
       \A t \in Threads : exec[t] # NoJob =>
         /\ ~Untaken(c, exec[t].job.chunk)
         /\ InChunk(call[c], exec[t].job.chunk, exec[t].at)

\* func has been applied to an element unless its chunk has not been begun or
\* the thread that runs it has not come to the element.
AppliedOK ==
  \A c \in Callers : poolMutex = c =>
    \A j \in 0..JobCount(call[c])-1, i \in Elements :
      InChunk(call[c], j, i) =>
        (applied[i] = 0 <=>
           \/ Untaken(c, j)
           \/ \E t \in Threads : Runs(t, j) /\ exec[t].at < i)

RInv == QueuedOnce /\ RunOnce /\ AppliedOK

-----------------------------------------------------------------------------
(* The chunks of a call.                                                   *)

LEMMA Division ==
  ASSUME NEW n \in Nat, NEW d \in Nat \ {0}
  PROVE  /\ n \div d \in Nat /\ n % d \in Nat /\ n % d < d
         /\ n = d * (n \div d) + (n % d)
<1>1. n \div d \in Int /\ n % d \in 0..d-1
  OBVIOUS
<1>2. n = d * (n \div d) + (n % d)
  OBVIOUS
<1>3. n \div d >= 0
  OBVIOUS
<1> QED  BY <1>1, <1>2, <1>3

LEMMA TimesMonotone ==
  ASSUME NEW i \in Nat, NEW j \in Nat, i <= j, NEW q \in Nat
  PROVE  i * q \in Nat /\ j * q \in Nat /\ i * q <= j * q
OBVIOUS

LEMMA TimesNext ==
  ASSUME NEW i \in Nat, NEW q \in Nat
  PROVE  (i + 1) * q = i * q + q /\ i * (q + 1) = i * q + i
OBVIOUS

\* A range is cut into at least one chunk and no more than it has elements.
LEMMA ChunkCounts ==
  ASSUME NEW n \in Nat \ {0}
  PROVE  /\ ChunkCount(n) \in Nat \ {0} /\ ChunkCount(n) <= n
         /\ n \div ChunkCount(n) \in Nat /\ n \div ChunkCount(n) >= 1
         /\ n % ChunkCount(n) \in Nat /\ n % ChunkCount(n) < ChunkCount(n)
         /\ n = ChunkCount(n) * (n \div ChunkCount(n)) + (n % ChunkCount(n))
<1> DEFINE d == ChunkCount(n)
<1>1. NThreads * ChunksPerThread \in Nat /\ NThreads * ChunksPerThread >= 1
  BY PoolAssumption
<1>2. d \in Nat \ {0} /\ d <= n
  BY <1>1 DEF ChunkCount, MinOf
<1> HIDE DEF d
<1>3. /\ n \div d \in Nat /\ n % d \in Nat /\ n % d < d
      /\ n = d * (n \div d) + (n % d)
  BY <1>2, Division
<1>4. n \div d # 0
  <2> SUFFICES ASSUME n \div d = 0 PROVE FALSE
    OBVIOUS
  <2>1. d * (n \div d) = 0
    BY <1>2
  <2> QED  BY <1>2, <1>3, <2>1
<1> QED  BY <1>2, <1>3, <1>4 DEF d

\* A chunk begins before it ends, the first at the range's beginning and the
\* last ends at its end.
LEMMA ChunksGoOn ==
  ASSUME NEW n \in Nat \ {0}
  PROVE  /\ ChunkBegin(n, 0) = 0 /\ ChunkBegin(n, ChunkCount(n)) = n
         /\ \A i \in Nat : ChunkBegin(n, i) \in Nat
         /\ \A i \in Nat : ChunkBegin(n, i) < ChunkBegin(n, i + 1)
         /\ \A i, j \in Nat : i <= j => ChunkBegin(n, i) <= ChunkBegin(n, j)
<1> DEFINE d == ChunkCount(n)
           q == n \div d
           r == n % d
<1>1. /\ d \in Nat \ {0} /\ q \in Nat /\ q >= 1 /\ r \in Nat /\ r < d
      /\ n = d * q + r
  BY ChunkCounts
<1>2. \A i : ChunkBegin(n, i) = i * q + MinOf(i, r)
  BY DEF ChunkBegin
<1> HIDE DEF d, q, r
<1>3. ChunkBegin(n, 0) = 0 /\ ChunkBegin(n, d) = n
  <2>1. 0 * q = 0
    BY <1>1
  <2> QED  BY <1>1, <1>2, <2>1 DEF MinOf
<1>4. ASSUME NEW i \in Nat PROVE ChunkBegin(n, i) \in Nat
  <2>1. i * q \in Nat
    BY <1>1
  <2> QED  BY <1>1, <1>2, <2>1 DEF MinOf
<1>5. ASSUME NEW i \in Nat PROVE ChunkBegin(n, i) < ChunkBegin(n, i + 1)
  <2>1. (i + 1) * q = i * q + q /\ i * q \in Nat
    BY <1>1, TimesNext
  <2> QED  BY <1>1, <1>2, <2>1 DEF MinOf
<1>6. ASSUME NEW i \in Nat, NEW j \in Nat, i <= j
      PROVE  ChunkBegin(n, i) <= ChunkBegin(n, j)
  <2>1. i * q \in Nat /\ j * q \in Nat /\ i * q <= j * q
    BY <1>1, <1>6, TimesMonotone
  <2> QED  BY <1>1, <1>2, <1>6, <2>1 DEF MinOf
<1> QED  BY <1>3, <1>4, <1>5, <1>6 DEF d

\* Every element is in a chunk: the first n % d chunks have one element more.
LEMMA ChunksCover ==
  ASSUME NEW n \in Nat \ {0}, NEW x \in Nat, x < n
  PROVE  \E j \in 0..ChunkCount(n)-1 :
           ChunkBegin(n, j) <= x /\ x < ChunkBegin(n, j + 1)
<1> DEFINE d == ChunkCount(n)
           q == n \div d
           r == n % d
<1>1. /\ d \in Nat \ {0} /\ q \in Nat /\ q >= 1 /\ r \in Nat /\ r < d
      /\ n = d * q + r
  BY ChunkCounts
<1>2. \A i : ChunkBegin(n, i) = i * q + MinOf(i, r)
  BY DEF ChunkBegin
<1> HIDE DEF d, q, r
<1>3. r * q \in Nat /\ r * (q + 1) = r * q + r
  BY <1>1, TimesNext
<1>4. CASE x < r * q + r
  <2> DEFINE j == x \div (q + 1)
             m == x % (q + 1)
  <2>1. j \in Nat /\ m \in Nat /\ m < q + 1 /\ x = (q + 1) * j + m
    <3>1. q + 1 \in Nat \ {0}
      BY <1>1
    <3> QED  BY <3>1, Division
  <2> HIDE DEF j, m
  <2>2. (q + 1) * j = j * q + j /\ j * q \in Nat
    BY <1>1, <2>1, TimesNext
  <2>3. j < r
    <3> SUFFICES ASSUME r <= j PROVE FALSE
      BY <1>1, <2>1
    <3>1. r * q <= j * q
      BY <1>1, <2>1, TimesMonotone
    <3> QED  BY <1>1, <1>3, <1>4, <2>1, <2>2, <3>1
  <2>4. (j + 1) * q = j * q + q
    BY <1>1, <2>1, TimesNext
  <2>5. ChunkBegin(n, j) = j * q + j /\ ChunkBegin(n, j + 1) = j * q + q + j + 1
    BY <1>1, <1>2, <2>1, <2>2, <2>3, <2>4 DEF MinOf
  <2>6. ChunkBegin(n, j) <= x /\ x < ChunkBegin(n, j + 1)
    BY <1>1, <2>1, <2>2, <2>5
  <2>7. j \in 0..d-1
    BY <1>1, <2>1, <2>3
  <2> QED  BY <2>6, <2>7 DEF d
<1>5. CASE x >= r * q + r
  <2> DEFINE j == (x - r) \div q
             m == (x - r) % q
  <2>1. x - r \in Nat
    BY <1>1, <1>3, <1>5
  <2>2. j \in Nat /\ m \in Nat /\ m < q /\ x - r = q * j + m
    BY <1>1, <2>1, Division
  <2> HIDE DEF j, m
  <2>3. q * j = j * q /\ j * q \in Nat /\ (j + 1) * q = j * q + q
    BY <1>1, <2>2, TimesNext
  <2>4. r <= j
    <3> SUFFICES ASSUME j + 1 <= r PROVE FALSE
      BY <1>1, <2>2
    <3>1. (j + 1) * q <= r * q
      BY <1>1, <2>2, TimesMonotone
    <3> QED  BY <1>1, <1>3, <1>5, <2>2, <2>3, <3>1
  <2>5. j < d
    <3> SUFFICES ASSUME d <= j PROVE FALSE
      BY <1>1, <2>2
    <3>1. d * q \in Nat /\ d * q <= j * q
      BY <1>1, <2>2, TimesMonotone
    <3> QED  BY <1>1, <2>2, <2>3, <3>1
  <2>6. ChunkBegin(n, j) = j * q + r /\ ChunkBegin(n, j + 1) = j * q + q + r
    BY <1>1, <1>2, <2>2, <2>3, <2>4 DEF MinOf
  <2>7. ChunkBegin(n, j) <= x /\ x < ChunkBegin(n, j + 1)
    BY <1>1, <2>2, <2>3, <2>6
  <2>8. j \in 0..d-1
    BY <1>1, <2>2, <2>5
  <2> QED  BY <2>7, <2>8 DEF d
<1> QED  BY <1>1, <1>3, <1>4, <1>5

\* The same of the jobs of a call, whose job is an element when it is a block.
LEMMA JobsGoOn ==
  ASSUME NEW a \in CallArgs
  PROVE  /\ JobBegin(a, 0) = a.begin /\ JobBegin(a, JobCount(a)) = a.end
         /\ a.begin \in Int /\ a.end \in Int
         /\ \A i \in Nat : JobBegin(a, i) \in Int
         /\ \A i \in Nat : JobBegin(a, i) < JobEnd(a, i)
         /\ \A i, j \in Nat : i <= j => JobBegin(a, i) <= JobBegin(a, j)
         /\ \A i \in Nat : JobEnd(a, i) = JobBegin(a, i + 1)
<1>1. a \in Calls /\ a.begin < a.end
  BY CallArgsAreCalls
<1>2. a.begin \in Int /\ a.end \in Int
  BY <1>1, PoolAssumption DEF Calls, BlockCall
<1>3. CASE a.kind = "for"
  <2> DEFINE n == CountOf(a)
  <2>1. n \in Nat \ {0} /\ n = a.end - a.begin
    BY <1>1, <1>2 DEF CountOf
  <2>2. JobCount(a) = ChunkCount(n) /\ \A i : JobBegin(a, i) = a.begin + ChunkBegin(n, i)
    BY <1>3 DEF JobCount, JobBegin
  <2> HIDE DEF n
  <2>3. /\ ChunkBegin(n, 0) = 0 /\ ChunkBegin(n, ChunkCount(n)) = n
        /\ \A i \in Nat : ChunkBegin(n, i) \in Nat
        /\ \A i \in Nat : ChunkBegin(n, i) < ChunkBegin(n, i + 1)
        /\ \A i, j \in Nat : i <= j => ChunkBegin(n, i) <= ChunkBegin(n, j)
    BY <2>1, ChunksGoOn
  <2>4. \A i \in Nat : i + 1 \in Nat
    OBVIOUS
  <2>5. JobBegin(a, 0) = a.begin /\ JobBegin(a, JobCount(a)) = a.end
    BY <1>2, <2>1, <2>2, <2>3
  <2>6. \A i \in Nat : JobBegin(a, i) \in Int
    BY <1>2, <2>2, <2>3
  <2>7. \A i \in Nat : JobBegin(a, i) < JobEnd(a, i)
    BY <1>2, <2>2, <2>3, <2>4 DEF JobEnd
  <2>8. ASSUME NEW i \in Nat, NEW j \in Nat, i <= j
        PROVE  JobBegin(a, i) <= JobBegin(a, j)
    <3>1. /\ ChunkBegin(n, i) \in Nat /\ ChunkBegin(n, j) \in Nat
          /\ ChunkBegin(n, i) <= ChunkBegin(n, j)
      BY <2>3, <2>8
    <3> QED  BY <1>2, <2>2, <3>1
  <2> QED  BY <1>2, <2>5, <2>6, <2>7, <2>8 DEF JobEnd
<1>4. CASE a.kind # "for"
  <2>1. a.begin = 0 /\ a.end = NThreads /\ JobCount(a) = NThreads
    BY <1>1, <1>4 DEF Calls, BlockCall, JobCount
  <2>2. \A i : JobBegin(a, i) = i /\ JobEnd(a, i) = i + 1
    BY <1>4 DEF JobBegin, JobEnd
  <2> QED  BY <1>2, <2>1, <2>2
<1> QED  BY <1>3, <1>4

\* Each element of a call is in the chunk of one of its jobs, the chunks have
\* no element in common, and none outside the call's range.
LEMMA JobsDivide ==
  ASSUME NEW a \in CallArgs
  PROVE  /\ \A x \in Int : a.begin <= x /\ x < a.end =>
              \E j \in 0..JobCount(a)-1 : InChunk(a, j, x)
         /\ \A x \in Int, i, j \in Nat : InChunk(a, i, x) /\ InChunk(a, j, x) => i = j
         /\ \A x \in Int : \A j \in 0..JobCount(a)-1 :
              InChunk(a, j, x) => a.begin <= x /\ x < a.end
<1>1. /\ JobBegin(a, 0) = a.begin /\ JobBegin(a, JobCount(a)) = a.end
      /\ a.begin \in Int /\ a.end \in Int
      /\ \A i \in Nat : JobBegin(a, i) \in Int
      /\ \A i, j \in Nat : i <= j => JobBegin(a, i) <= JobBegin(a, j)
      /\ \A i \in Nat : JobEnd(a, i) = JobBegin(a, i + 1)
  BY JobsGoOn
<1>2. JobCount(a) \in Nat
  BY Counts
<1>3. ASSUME NEW x \in Int, a.begin <= x, x < a.end
      PROVE  \E j \in 0..JobCount(a)-1 : InChunk(a, j, x)
  <2>1. CASE a.kind = "for"
    <3> DEFINE n == CountOf(a)
    <3>1. n \in Nat \ {0} /\ x - a.begin \in Nat /\ x - a.begin < n
      BY <1>1, <1>3 DEF CountOf
    <3>2. /\ JobCount(a) = ChunkCount(n)
          /\ \A i : JobBegin(a, i) = a.begin + ChunkBegin(n, i)
      BY <2>1 DEF JobCount, JobBegin
    <3> HIDE DEF n
    <3>3. PICK j \in 0..JobCount(a)-1 :
            ChunkBegin(n, j) <= x - a.begin /\ x - a.begin < ChunkBegin(n, j + 1)
      BY <3>1, <3>2, ChunksCover
    <3>4. j \in Nat /\ j + 1 \in Nat /\ ChunkBegin(n, j) \in Nat /\ ChunkBegin(n, j + 1) \in Nat
      BY <1>2, <3>1, <3>3, ChunksGoOn
    <3>5. InChunk(a, j, x)
      BY <1>1, <3>2, <3>3, <3>4 DEF InChunk
    <3> QED  BY <3>5
  <2>2. CASE a.kind # "for"
    <3>1. a.begin = 0 /\ a.end = NThreads /\ JobCount(a) = NThreads
      BY <2>2, CallArgsAreCalls DEF Calls, BlockCall, JobCount
    <3>2. InChunk(a, x, x)
      BY <2>2, <1>3 DEF InChunk, JobBegin, JobEnd
    <3>3. x \in 0..JobCount(a)-1
      BY <1>2, <1>3, <3>1
    <3> QED  BY <3>2, <3>3
  <2> QED  BY <2>1, <2>2
<1>4. ASSUME NEW x \in Int, NEW i \in Nat, NEW j \in Nat, InChunk(a, i, x), i < j
      PROVE  ~InChunk(a, j, x)
  <2>1. i + 1 \in Nat /\ i + 1 <= j
    BY <1>4
  <2>2. JobEnd(a, i) <= JobBegin(a, j) /\ JobEnd(a, i) \in Int /\ JobBegin(a, j) \in Int
    BY <1>1, <2>1
  <2> QED  BY <1>4, <2>2 DEF InChunk
<1>5. ASSUME NEW x \in Int, NEW j \in 0..JobCount(a)-1, InChunk(a, j, x)
      PROVE  a.begin <= x /\ x < a.end
  <2>1. j \in Nat /\ 0 <= j /\ j + 1 \in Nat /\ j + 1 <= JobCount(a)
    BY <1>2
  <2>2. JobBegin(a, 0) <= JobBegin(a, j) /\ JobEnd(a, j) <= JobBegin(a, JobCount(a))
    BY <1>1, <1>2, <2>1
  <2>3. JobBegin(a, j) \in Int /\ JobEnd(a, j) \in Int
    BY <1>1, <2>1
  <2> QED  BY <1>1, <1>5, <2>2, <2>3 DEF InChunk
<1> QED  BY <1>3, <1>4, <1>5

\* The elements of a call's range have a count.
LEMMA CallElements ==
  ASSUME NEW a \in CallArgs, NEW x \in Int, a.begin <= x, x < a.end
  PROVE  x \in Elements
<1>1. CASE a = BlockCall
  <2>1. x \in 0..NThreads-1
    BY <1>1, PoolAssumption DEF BlockCall
  <2> QED  BY <2>1 DEF Elements
<1>2. ASSUME NEW r \in Ranges, a = ForCall(r[1], r[2])
      PROVE  x \in Elements
  <2>1. r[1] \in Int /\ r[2] \in Int /\ x \in r[1]..r[2]-1
    BY <1>2, PoolAssumption DEF ForCall
  <2> QED  BY <2>1 DEF Elements
<1> QED  BY <1>1, <1>2 DEF CallArgs

-----------------------------------------------------------------------------
(* What keeps the invariant, whatever the step.                            *)

\* The call in progress, and the numbers of its jobs.
LEMMA CallInProgress ==
  ASSUME IInv, NEW c \in Callers, poolMutex = c
  PROVE  /\ call[c] \in CallArgs
         /\ JobCount(call[c]) \in Nat /\ ThreadCount(call[c]) \in Nat
         /\ ThreadCount(call[c]) >= 1 /\ ThreadCount(call[c]) <= JobCount(call[c])
         /\ pc[c] \in InsidePlaces
BY CountsOf DEF IInv, CallsOK, PlacesOK

\* A thread in func runs a job of the call in progress.
LEMMA RunsInCall ==
  ASSUME IInv, NEW t \in Threads, exec[t] # NoJob
  PROVE  /\ poolMutex \in Callers
         /\ exec[t] \in Execs /\ exec[t].at \in Int /\ exec[t].id \in Nat
         /\ exec[t].job.caller = poolMutex /\ exec[t].job.chunk \in Nat
         /\ exec[t].job.chunk \in 0..JobCount(call[poolMutex])-1
<1>1. poolMutex \in Callers /\ exec[t] \in Execs
  BY DEF IInv, TypeOK, ExecsOK
<1>2. /\ exec[t].at \in Int /\ exec[t].id \in Nat
      /\ exec[t].job.caller \in Callers /\ exec[t].job.chunk \in Nat
  BY <1>1 DEF Execs, Jobs
<1>3. /\ exec[t].job.caller = poolMutex
      /\ exec[t].job.chunk < JobCount(call[poolMutex])
  BY <1>1 DEF IInv, ExecsOK
<1>4. JobCount(call[poolMutex]) \in Nat
  BY <1>1, CallInProgress
<1> QED  BY <1>1, <1>2, <1>3, <1>4

\* A step that neither enters nor leaves func, in a call that goes on.
LEMMA RunsKept ==
  ASSUME IInv, RInv, UNCHANGED <<applied, exec, poolMutex>>,
         \A c \in Callers : poolMutex = c =>
           /\ call'[c] = call[c]
           /\ \A j \in 0..JobCount(call[c])-1 : Untaken(c, j)' <=> Untaken(c, j)
  PROVE  RunOnce' /\ AppliedOK'
<1>1. RunOnce'
  <2>1. ASSUME NEW c \in Callers, poolMutex' = c, NEW t \in Threads, exec'[t] # NoJob
        PROVE  /\ ~Untaken(c, exec[t].job.chunk)'
               /\ InChunk(call[c], exec[t].job.chunk, exec[t].at)'
    <3>1. poolMutex = c /\ call'[c] = call[c] /\ exec'[t] = exec[t] /\ exec[t] # NoJob
      BY <2>1
    <3>2. exec[t].job.chunk \in 0..JobCount(call[c])-1
      BY <3>1, RunsInCall
    <3>3. ~Untaken(c, exec[t].job.chunk) /\ InChunk(call[c], exec[t].job.chunk, exec[t].at)
      BY <3>1 DEF RInv, RunOnce
    <3>4. ~Untaken(c, exec[t].job.chunk)'
      BY <3>1, <3>2, <3>3
    <3> QED  BY <3>1, <3>3, <3>4 DEF InChunk
  <2>2. \A s, t \in Threads :
          exec'[s] # NoJob /\ exec'[t] # NoJob /\ s # t =>
            exec'[s].job.chunk # exec'[t].job.chunk
    BY DEF RInv, RunOnce
  <2> QED  BY <2>1, <2>2 DEF RunOnce
<1>2. AppliedOK'
  <2> SUFFICES ASSUME NEW c \in Callers, poolMutex = c,
                      NEW j \in 0..JobCount(call[c])-1, NEW i \in Elements,
                      InChunk(call[c], j, i)
               PROVE  applied[i] = 0 <=>
                        \/ Untaken(c, j)
                        \/ \E t \in Threads : Runs(t, j) /\ exec[t].at < i
    BY DEF AppliedOK, Runs
  <2> QED  BY DEF RInv, AppliedOK
<1> QED  BY <1>1, <1>2

LEMMA ElementsAreInts == Elements \subseteq Int
BY DEF Elements

LEMMA AppliedTo ==
  ASSUME IInv, NEW x \in Elements, applied' = Applied(x)
  PROVE  /\ \A e \in Elements : e # x => applied'[e] = applied[e]
         /\ applied'[x] # 0
BY DEF IInv, TypeOK, Applied

\* A thread begins a job that nobody had taken.
LEMMA JobBegins ==
  ASSUME IInv, RInv, NEW c \in Callers, poolMutex = c, NEW t \in Threads,
         NEW j \in 0..JobCount(call[c])-1,
         UNCHANGED <<call, poolMutex>>,
         Untaken(c, j), ~Untaken(c, j)',
         \A m \in 0..JobCount(call[c])-1 : m # j => (Untaken(c, m)' <=> Untaken(c, m)),
         exec[t] = NoJob, exec'[t] # NoJob,
         exec'[t].job.chunk = j, exec'[t].at = JobBegin(call[c], j),
         \A s \in Threads : s # t => exec'[s] = exec[s],
         applied' = Applied(JobBegin(call[c], j))
  PROVE  RunOnce' /\ AppliedOK'
<1> DEFINE x == JobBegin(call[c], j)
           J == JobCount(call[c])
<1>1. /\ call[c] \in CallArgs /\ J \in Nat /\ j \in Nat
      /\ \A m \in 0..J-1 : m \in Nat
  BY CallInProgress
<1>2. x \in Int /\ InChunk(call[c], j, x)
  BY <1>1, JobsGoOn DEF InChunk
<1>3. x \in Elements
  <2>1. call[c].begin <= x /\ x < call[c].end
    BY <1>1, <1>2, JobsDivide
  <2> QED  BY <1>1, <1>2, <2>1, CallElements
<1>4. /\ \A e \in Elements : e # x => applied'[e] = applied[e]
      /\ applied'[x] # 0
  BY <1>3, AppliedTo
<1>5. \A s \in Threads : exec[s] # NoJob =>
        /\ exec[s].job.chunk \in 0..J-1 /\ exec[s].job.chunk # j
        /\ ~Untaken(c, exec[s].job.chunk)
        /\ InChunk(call[c], exec[s].job.chunk, exec[s].at)
  BY RunsInCall DEF RInv, RunOnce
<1> HIDE DEF J
<1>6. RunOnce'
  <2>1. \A s, u \in Threads :
          exec'[s] # NoJob /\ exec'[u] # NoJob /\ s # u =>
            exec'[s].job.chunk # exec'[u].job.chunk
    <3> SUFFICES ASSUME NEW s \in Threads, NEW u \in Threads, s # u,
                        exec'[s] # NoJob, exec'[u] # NoJob
                 PROVE  exec'[s].job.chunk # exec'[u].job.chunk
      OBVIOUS
    <3>1. CASE s = t
      BY <1>5, <3>1
    <3>2. CASE u = t
      BY <1>5, <3>2
    <3>3. CASE s # t /\ u # t
      BY <3>3 DEF RInv, RunOnce
    <3> QED  BY <3>1, <3>2, <3>3
  <2>2. ASSUME NEW s \in Threads, exec'[s] # NoJob
        PROVE  /\ ~Untaken(c, exec[s].job.chunk)' \/ s = t
               /\ InChunk(call[c], exec'[s].job.chunk, exec'[s].at)
    BY <1>2, <1>5, <2>2 DEF J
  <2>3. ASSUME NEW s \in Threads, exec'[s] # NoJob
        PROVE  ~Untaken(c, exec[s].job.chunk)'
    BY <1>5, <2>2, <2>3
  <2> QED  BY <2>1, <2>2, <2>3 DEF RunOnce
<1>7. AppliedOK'
  <2> SUFFICES ASSUME NEW m \in 0..J-1, NEW i \in Elements,
                      InChunk(call[c], m, i)
               PROVE  applied'[i] = 0 <=>
                        \/ Untaken(c, m)'
                        \/ \E s \in Threads : Runs(s, m)' /\ exec'[s].at < i
    BY DEF AppliedOK, J
  <2>1. applied[i] = 0 <=>
          Untaken(c, m) \/ \E s \in Threads : Runs(s, m) /\ exec[s].at < i
    BY DEF RInv, AppliedOK, J
  <2>2. CASE m = j
    <3>1. \A s \in Threads : Runs(s, m)' <=> s = t
      BY <1>5, <2>2 DEF Runs
    <3>2. i \in Int /\ x <= i
      BY <2>2, ElementsAreInts DEF InChunk
    <3>3. applied'[i] = 0 <=> x < i
      BY <1>2, <1>4, <2>1, <2>2, <3>2
    <3> QED  BY <2>2, <3>1, <3>3
  <2>3. CASE m # j
    <3>1. i # x
      BY <1>1, <1>2, <2>3, JobsDivide
    <3>2. \A s \in Threads : Runs(s, m)' <=> Runs(s, m)
      BY <2>3 DEF Runs
    <3>3. \A s \in Threads : Runs(s, m) => exec'[s].at = exec[s].at
      BY DEF Runs
    <3> QED  BY <1>4, <2>1, <2>3, <3>1, <3>2, <3>3 DEF J
  <2> QED  BY <2>2, <2>3
<1> QED  BY <1>6, <1>7

\* Who has taken which job does not change with a step of another thread that
\* keeps its own, nor with a caller's after it has given them all.
LEMMA UntakenKept ==
  ASSUME NEW c \in Callers, NEW j, UNCHANGED <<job, queue>>, call'[c] = call[c],
         \/ pc'[c] = pc[c] /\ k'[c] = k[c]
         \/ {pc[c], pc'[c]} \cap {"ids", "push", "submit", "notify"} = {},
         \A w \in Workers : pc'[w] \in {"exec", "pop"} <=> pc[w] \in {"exec", "pop"}
  PROVE  Untaken(c, j)' <=> Untaken(c, j)
BY DEF Untaken

LEMMA QueuedOnceKept ==
  ASSUME QueuedOnce, UNCHANGED queue,
         \A c \in Callers : pc'[c] = "push" =>
           pc[c] = "push" /\ k'[c] = k[c] /\ call'[c] = call[c]
  PROVE  QueuedOnce'
BY DEF QueuedOnce

\* A thread goes on to an element of its chunk.
LEMMA NextElementRuns ==
  ASSUME IInv, RInv, NEW t \in Threads, NextElement(t)
  PROVE  /\ RInv'
         /\ exec[t].at + 1 \in Elements
         /\ applied[exec[t].at + 1] = 0
<1> DEFINE c == poolMutex
           x == exec[t].at + 1
           j == exec[t].job.chunk
           J == JobCount(call[c])
<1>1. /\ UNCHANGED <<pc, stop, job, threadId, mutex, queue, poolMutex, call, k, calls, dtor>>
      /\ exec[t] # NoJob /\ exec' = [exec EXCEPT ![t].at = @ + 1]
      /\ x < JobEnd(call[exec[t].job.caller], j)
      /\ applied' = Applied(x)
  BY DEF NextElement, IInv, PlacesOK
<1>2. /\ c \in Callers /\ exec[t].job.caller = c /\ exec[t] \in Execs
      /\ j \in Nat /\ j \in 0..J-1 /\ exec[t].at \in Int
  BY <1>1, RunsInCall
<1>3. /\ call[c] \in CallArgs /\ J \in Nat
      /\ \A m \in 0..J-1 : m \in Nat
  BY <1>2, CallInProgress
<1>4. /\ ~Untaken(c, j) /\ InChunk(call[c], j, exec[t].at)
      /\ \A s \in Threads : s # t /\ exec[s] # NoJob => exec[s].job.chunk # j
  BY <1>1, <1>2 DEF RInv, RunOnce
<1>5. x \in Int /\ InChunk(call[c], j, x)
  BY <1>1, <1>2, <1>3, <1>4, JobsGoOn DEF InChunk
<1>6. x \in Elements
  <2>1. call[c].begin <= x /\ x < call[c].end
    BY <1>2, <1>3, <1>5, JobsDivide
  <2> QED  BY <1>3, <1>5, <2>1, CallElements
<1>7. /\ \A e \in Elements : e # x => applied'[e] = applied[e]
      /\ applied'[x] # 0
  BY <1>1, <1>6, AppliedTo
<1>8. /\ exec'[t] # NoJob /\ exec'[t].job = exec[t].job /\ exec'[t].at = x
      /\ \A s \in Threads : s # t => exec'[s] = exec[s]
  <2>1. exec'[t] = [exec[t] EXCEPT !.at = x] /\ \A s \in Threads : s # t => exec'[s] = exec[s]
    BY <1>1 DEF IInv, TypeOK
  <2>2. exec'[t] \in Execs /\ exec'[t].job = exec[t].job /\ exec'[t].at = x
    BY <1>2, <1>5, <2>1 DEF Execs
  <2> QED  BY <2>1, <2>2, ThreadsApart
<1>9. \A d \in Callers : \A m : Untaken(d, m)' <=> Untaken(d, m)
  BY <1>1 DEF Untaken
<1>10. QueuedOnce'
  BY <1>1, QueuedOnceKept DEF RInv
<1>11. RunOnce'
  <2>1. \A s, u \in Threads :
          exec'[s] # NoJob /\ exec'[u] # NoJob /\ s # u =>
            exec'[s].job.chunk # exec'[u].job.chunk
    BY <1>1, <1>8 DEF RInv, RunOnce
  <2>2. ASSUME NEW s \in Threads, exec'[s] # NoJob
        PROVE  /\ ~Untaken(c, exec'[s].job.chunk)
               /\ InChunk(call[c], exec'[s].job.chunk, exec'[s].at)
    <3>1. CASE s = t
      BY <1>4, <1>5, <1>8, <3>1
    <3>2. CASE s # t
      BY <1>2, <1>8, <2>2, <3>2 DEF RInv, RunOnce
    <3> QED  BY <3>1, <3>2
  <2>3. ASSUME NEW d \in Callers, poolMutex' = d, NEW s \in Threads, exec'[s] # NoJob
        PROVE  /\ ~Untaken(d, exec[s].job.chunk)'
               /\ InChunk(call'[d], exec'[s].job.chunk, exec'[s].at)
    <3>1. c = d
      BY <1>1, <2>3
    <3>2. ~Untaken(d, exec'[s].job.chunk)
      BY <2>2, <2>3, <3>1
    <3>3. Untaken(d, exec[s].job.chunk)' <=> Untaken(d, exec'[s].job.chunk)
      BY <1>1 DEF Untaken
    <3>4. InChunk(call'[d], exec'[s].job.chunk, exec'[s].at)
      BY <1>1, <2>2, <2>3, <3>1
    <3> QED  BY <3>2, <3>3, <3>4
  <2> QED  BY <2>1, <2>3 DEF RunOnce, InChunk, JobBegin, JobEnd
<1>12. applied[x] = 0
  <2>1. exec[t].at < x /\ Runs(t, j)
    BY <1>1, <1>2 DEF Runs
  <2> QED  BY <1>2, <1>5, <1>6, <2>1 DEF RInv, AppliedOK
<1>13. AppliedOK'
  <2> SUFFICES ASSUME NEW m \in 0..J-1, NEW i \in Elements,
                      InChunk(call[c], m, i)
               PROVE  applied'[i] = 0 <=>
                        \/ Untaken(c, m)
                        \/ \E s \in Threads : Runs(s, m)' /\ exec'[s].at < i
    BY <1>1, <1>9 DEF AppliedOK, InChunk, JobBegin, JobEnd
  <2>1. applied[i] = 0 <=>
          Untaken(c, m) \/ \E s \in Threads : Runs(s, m) /\ exec[s].at < i
    BY <1>2 DEF RInv, AppliedOK
  <2>2. \A s \in Threads : Runs(s, m)' <=> Runs(s, m)
    BY <1>1, <1>8 DEF Runs
  <2>3. i \in Int
    BY ElementsAreInts
  <2>4. CASE m = j
    <3>1. \A s \in Threads : Runs(s, m) <=> s = t
      BY <1>1, <1>4, <2>4 DEF Runs
    <3>2. applied[i] = 0 <=> exec[t].at < i
      BY <1>4, <2>1, <2>4, <3>1
    <3>3. applied'[i] = 0 <=> x < i
      BY <1>2, <1>7, <2>3, <3>2
    <3> QED  BY <1>4, <1>8, <2>2, <2>4, <3>1, <3>3
  <2>5. CASE m # j
    <3>1. i # x
      BY <1>2, <1>3, <1>5, <2>3, <2>5, JobsDivide
    <3>2. \A s \in Threads : Runs(s, m) => exec'[s].at = exec[s].at
      BY <1>8, <2>5 DEF Runs
    <3> QED  BY <1>7, <2>1, <2>2, <3>1, <3>2
  <2> QED  BY <2>4, <2>5
<1> QED  BY <1>6, <1>10, <1>11, <1>12, <1>13 DEF RInv

\* A thread has come to the end of its chunk.
LEMMA EndJobRuns ==
  ASSUME IInv, RInv, NEW t \in Threads, EndJob(t)
  PROVE  RInv'
<1> DEFINE c == poolMutex
           j == exec[t].job.chunk
           J == JobCount(call[c])
<1>1. /\ UNCHANGED <<job, queue, poolMutex, call, applied>>
      /\ pc[t] = "exec" /\ exec[t] # NoJob
      /\ exec[t].at + 1 >= JobEnd(call[exec[t].job.caller], j)
  BY DEF EndJob, IInv, PlacesOK
<1>2. /\ exec'[t] = NoJob
      /\ \A s \in Threads : s # t => exec'[s] = exec[s] /\ pc'[s] = pc[s]
      /\ \A d \in Callers : d # t => k'[d] = k[d]
      /\ pc'[t] \in {"pop", "wait"}
      /\ t \in Workers => pc'[t] = "pop"
  BY EndJobGoes, ThreadsApart DEF IInv
<1>3. /\ c \in Callers /\ exec[t].job.caller = c
      /\ j \in Nat /\ j \in 0..J-1 /\ exec[t].at \in Int
  BY <1>1, RunsInCall
<1>4. call[c] \in CallArgs /\ JobEnd(call[c], j) \in Int
  BY <1>3, CallInProgress, ChunkInts
<1>5. \A d \in Callers : \A m : Untaken(d, m)' <=> Untaken(d, m)
  <2> SUFFICES ASSUME NEW d \in Callers, NEW m PROVE Untaken(d, m)' <=> Untaken(d, m)
    OBVIOUS
  <2>1. \A w \in Workers : pc'[w] \in {"exec", "pop"} <=> pc[w] \in {"exec", "pop"}
    BY <1>1, <1>2 DEF Threads
  <2>2. \/ pc'[d] = pc[d] /\ k'[d] = k[d]
        \/ {pc[d], pc'[d]} \cap {"ids", "push", "submit", "notify"} = {}
    BY <1>1, <1>2 DEF Threads
  <2> QED  BY <1>1, <2>1, <2>2, UntakenKept
<1>6. QueuedOnce'
  <2>1. \A d \in Callers : pc'[d] = "push" =>
          pc[d] = "push" /\ k'[d] = k[d] /\ call'[d] = call[d]
    BY <1>1, <1>2 DEF Threads
  <2> QED  BY <1>1, <2>1, QueuedOnceKept DEF RInv
<1>7. RunOnce'
  <2>1. ASSUME NEW d \in Callers, poolMutex' = d, NEW s \in Threads, exec'[s] # NoJob
        PROVE  /\ ~Untaken(d, exec[s].job.chunk)'
               /\ InChunk(call[d], exec[s].job.chunk, exec[s].at)'
    <3>1. exec'[s] = exec[s] /\ exec[s] # NoJob /\ poolMutex = d
      BY <1>1, <1>2, <2>1
    <3>2. ~Untaken(d, exec[s].job.chunk) /\ InChunk(call[d], exec[s].job.chunk, exec[s].at)
      BY <3>1 DEF RInv, RunOnce
    <3>3. Untaken(d, exec[s].job.chunk)' <=> Untaken(d, exec[s].job.chunk)
      BY <1>5, <3>1
    <3> QED  BY <1>1, <3>1, <3>2, <3>3 DEF InChunk
  <2>2. \A s, u \in Threads :
          exec'[s] # NoJob /\ exec'[u] # NoJob /\ s # u =>
            exec'[s].job.chunk # exec'[u].job.chunk
    BY <1>2 DEF RInv, RunOnce
  <2> QED  BY <2>1, <2>2 DEF RunOnce
<1>8. AppliedOK'
  <2> SUFFICES ASSUME NEW m \in 0..J-1, NEW i \in Elements,
                      InChunk(call[c], m, i)
               PROVE  applied[i] = 0 <=>
                        \/ Untaken(c, m)
                        \/ \E s \in Threads : Runs(s, m)' /\ exec'[s].at < i
    BY <1>1, <1>5 DEF AppliedOK
  <2>1. applied[i] = 0 <=>
          Untaken(c, m) \/ \E s \in Threads : Runs(s, m) /\ exec[s].at < i
    BY <1>3 DEF RInv, AppliedOK
  <2>2. Runs(t, m) => ~(exec[t].at < i)
    <3> SUFFICES ASSUME m = j PROVE ~(exec[t].at < i)
      BY DEF Runs
    <3>1. i < JobEnd(call[c], j) /\ i \in Int
      BY ElementsAreInts DEF InChunk
    <3> QED  BY <1>1, <1>3, <1>4, <3>1
  <2>3. ~Runs(t, m)' /\ \A s \in Threads : s # t => (Runs(s, m)' <=> Runs(s, m))
    BY <1>2 DEF Runs
  <2> QED  BY <1>2, <2>1, <2>2, <2>3
<1> QED  BY <1>6, <1>7, <1>8 DEF RInv

-----------------------------------------------------------------------------
(* The state ParallelCall sees.                                            *)

Todo == {i \in Inside : applied[i] = 0}

\* The threads inside func by their numbers, when e says what they run.
Numbers(e) == {e[t].id : t \in {s \in Threads : e[s] # NoJob}}
Active(e) ==
  [id \in Numbers(e) |->
     e[CHOOSE t \in Threads : e[t] # NoJob /\ e[t].id = id].at]
Sets == {r[1]..r[2]-1 : r \in {q \in Ranges : q[1] < q[2]}} \cup {0..NThreads-1}

\* What a step of the pool is to ParallelCall.
AStep == Abstract!Next \/ UNCHANGED <<poolMutex, Todo, Active(exec)>>

LEMMA AbstractSteps ==
  /\ [Abstract!Next]_(Abstract!pvars) <=> AStep
  /\ Abstract!Init <=> poolMutex = Free /\ Todo = {} /\ Active(exec) = [id \in {} |-> 0]
  /\ \A c \in Callers, s \in Sets :
       /\ poolMutex = Free /\ poolMutex' = c /\ Todo' = s
       /\ UNCHANGED Active(exec)
       => AStep
  /\ \A id \in 0..NThreads-1, i \in Todo :
       /\ id \notin Numbers(exec)
       /\ Todo' = Todo \ {i}
       /\ Active(exec)' = [d \in Numbers(exec) \cup {id} |-> IF d = id THEN i ELSE Active(exec)[d]]
       /\ UNCHANGED poolMutex
       => AStep
  /\ \A id \in 0..NThreads-1, i \in Todo :
       /\ id \in Numbers(exec)
       /\ Todo' = Todo \ {i}
       /\ Active(exec)' = [Active(exec) EXCEPT ![id] = i]
       /\ UNCHANGED poolMutex
       => AStep
  /\ \A id \in 0..NThreads-1 :
       /\ id \in Numbers(exec)
       /\ Active(exec)' = [d \in Numbers(exec) \ {id} |-> Active(exec)[d]]
       /\ UNCHANGED <<poolMutex, Todo>>
       => AStep
  /\ /\ poolMutex # Free /\ Todo = {} /\ Numbers(exec) = {}
     /\ poolMutex' = Free /\ UNCHANGED <<Todo, Active(exec)>>
     => AStep
BY DEF AStep, Abstract!Next, Abstract!pvars, Abstract!Init, Abstract!Enter, Abstract!Start,
       Abstract!Continue, Abstract!Finish, Abstract!Return, Abstract!Busy,
       Abstract!ThreadIds, Todo, Active, Numbers, Sets

\* No two threads inside func have one number.
ApartIn(e) ==
  \A s, t \in Threads : e[s] # NoJob /\ e[t] # NoJob /\ s # t => e[s].id # e[t].id

LEMMA ActiveAt ==
  ASSUME NEW e, ApartIn(e), NEW t \in Threads, e[t] # NoJob
  PROVE  e[t].id \in Numbers(e) /\ Active(e)[e[t].id] = e[t].at
<1> DEFINE u == CHOOSE s \in Threads : e[s] # NoJob /\ e[s].id = e[t].id
<1>1. u \in Threads /\ e[u] # NoJob /\ e[u].id = e[t].id
  OBVIOUS
<1>2. u = t
  BY <1>1 DEF ApartIn
<1>3. e[t].id \in Numbers(e)
  BY DEF Numbers
<1> QED  BY <1>2, <1>3 DEF Active

LEMMA ActiveStarts ==
  ASSUME NEW e, NEW f, ApartIn(f), NEW t \in Threads, e[t] = NoJob, f[t] # NoJob,
         \A s \in Threads : s # t => f[s] = e[s]
  PROVE  /\ f[t].id \notin Numbers(e)
         /\ Active(f) = [d \in Numbers(e) \cup {f[t].id} |->
                           IF d = f[t].id THEN f[t].at ELSE Active(e)[d]]
<1>1. f[t].id \notin Numbers(e)
  BY DEF ApartIn, Numbers
<1>2. Numbers(f) = Numbers(e) \cup {f[t].id}
  BY DEF Numbers
<1>3. ApartIn(e)
  BY DEF ApartIn
<1>4. ASSUME NEW d \in Numbers(f)
      PROVE  Active(f)[d] = IF d = f[t].id THEN f[t].at ELSE Active(e)[d]
  <2>1. PICK s \in Threads : f[s] # NoJob /\ f[s].id = d
    BY <1>4 DEF Numbers
  <2>2. Active(f)[d] = f[s].at
    BY <2>1, ActiveAt
  <2>3. CASE s = t
    BY <2>1, <2>2, <2>3
  <2>4. CASE s # t
    <3>1. e[s] = f[s] /\ d # f[t].id
      BY <2>1, <2>4 DEF ApartIn
    <3>2. Active(e)[d] = e[s].at
      BY <1>3, <2>1, <3>1, ActiveAt
    <3> QED  BY <2>2, <3>1, <3>2
  <2> QED  BY <2>3, <2>4
<1>5. Active(f) = [d \in Numbers(f) |-> Active(f)[d]]
  BY DEF Active
<1> QED  BY <1>1, <1>2, <1>4, <1>5

LEMMA ActiveGoesOn ==
  ASSUME NEW e, NEW f, ApartIn(e), NEW t \in Threads, e[t] # NoJob, f[t] # NoJob,
         f[t].id = e[t].id,
         \A s \in Threads : s # t => f[s] = e[s]
  PROVE  /\ e[t].id \in Numbers(e)
         /\ Active(f) = [Active(e) EXCEPT ![e[t].id] = f[t].at]
<1>1. ApartIn(f)
  BY DEF ApartIn
<1>2. Numbers(f) = Numbers(e) /\ e[t].id \in Numbers(e)
  BY DEF Numbers
<1>3. ASSUME NEW d \in Numbers(f)
      PROVE  Active(f)[d] = IF d = e[t].id THEN f[t].at ELSE Active(e)[d]
  <2>1. PICK s \in Threads : f[s] # NoJob /\ f[s].id = d
    BY <1>3 DEF Numbers
  <2>2. Active(f)[d] = f[s].at
    BY <1>1, <2>1, ActiveAt
  <2>3. CASE s = t
    BY <2>1, <2>2, <2>3
  <2>4. CASE s # t
    <3>1. e[s] = f[s] /\ d # e[t].id
      BY <1>1, <2>1, <2>4 DEF ApartIn
    <3>2. Active(e)[d] = e[s].at
      BY <2>1, <3>1, ActiveAt
    <3> QED  BY <2>2, <3>1, <3>2
  <2> QED  BY <2>3, <2>4
<1>4. /\ Active(f) = [d \in Numbers(f) |-> Active(f)[d]]
      /\ Active(e) = [d \in Numbers(e) |-> Active(e)[d]]
  BY DEF Active
<1> QED  BY <1>2, <1>3, <1>4

LEMMA ActiveEnds ==
  ASSUME NEW e, NEW f, ApartIn(e), NEW t \in Threads, e[t] # NoJob, f[t] = NoJob,
         \A s \in Threads : s # t => f[s] = e[s]
  PROVE  /\ e[t].id \in Numbers(e)
         /\ Active(f) = [d \in Numbers(e) \ {e[t].id} |-> Active(e)[d]]
<1>1. ApartIn(f)
  BY DEF ApartIn
<1>2. Numbers(f) = Numbers(e) \ {e[t].id} /\ e[t].id \in Numbers(e)
  BY DEF Numbers, ApartIn
<1>3. ASSUME NEW d \in Numbers(f) PROVE Active(f)[d] = Active(e)[d]
  <2>1. PICK s \in Threads : f[s] # NoJob /\ f[s].id = d
    BY <1>3 DEF Numbers
  <2>2. e[s] = f[s]
    BY <2>1
  <2> QED  BY <1>1, <2>1, <2>2, ActiveAt
<1>4. Active(f) = [d \in Numbers(f) |-> Active(f)[d]]
  BY DEF Active
<1> QED  BY <1>2, <1>3, <1>4

LEMMA InvariantKeepsApart == IInv => ApartIn(exec)
BY NumbersApart DEF NumbersDiffer, ApartIn

LEMMA InvariantKeepsApartNext == IInv' => ApartIn(exec')
<1>1. IInv => ApartIn(exec)
  BY InvariantKeepsApart
<1>2. ApartIn(exec)' <=> ApartIn(exec')
  BY DEF ApartIn
<1> QED  BY <1>1, <1>2, PTL

-----------------------------------------------------------------------------
(* Every step of the pool keeps the invariant and is a step of             *)
(* ParallelCall, or changes nothing ParallelCall sees.                     *)

Refines == RInv' /\ AStep

LEMMA Unseen ==
  ASSUME UNCHANGED <<poolMutex, exec, applied>>,
         \A c \in Callers : poolMutex = c => call'[c] = call[c],
         IInv
  PROVE  AStep
<1>1. Inside' = Inside
  <2>1. CASE poolMutex = Free
    BY <2>1 DEF Inside
  <2>2. CASE poolMutex \in Callers
    BY <2>2 DEF Inside
  <2> QED  BY <2>1, <2>2 DEF IInv, TypeOK
<1>2. Todo' = Todo
  BY <1>1 DEF Todo
<1> QED  BY <1>2 DEF AStep

\* A step that takes no job, and enters, leaves and advances nothing.
LEMMA QuietStep ==
  ASSUME IInv, IInv', RInv, UNCHANGED <<poolMutex, exec, applied, job, queue>>,
         \A c \in Callers : poolMutex = c =>
           /\ call'[c] = call[c]
           /\ \/ pc'[c] = pc[c] /\ k'[c] = k[c]
              \/ {pc[c], pc'[c]} \cap {"ids", "push", "submit", "notify"} = {},
         \A w \in Workers : pc'[w] \in {"exec", "pop"} <=> pc[w] \in {"exec", "pop"}
  PROVE  Refines
<1>1. RunOnce' /\ AppliedOK'
  <2>1. ASSUME NEW c \in Callers, poolMutex = c,
               NEW j \in 0..JobCount(call[c])-1
        PROVE  Untaken(c, j)' <=> Untaken(c, j)
    BY <2>1, UntakenKept
  <2> QED  BY <2>1, RunsKept
<1>2. QueuedOnce'
  <2>1. ASSUME NEW c \in Callers, pc'[c] = "push"
        PROVE  pc[c] = "push" /\ k'[c] = k[c] /\ call'[c] = call[c]
    <3>1. poolMutex' = c
      BY <2>1 DEF IInv, PlacesOK, InsidePlaces, CallerPlaces
    <3> QED  BY <2>1, <3>1
  <2> QED  BY <2>1, QueuedOnceKept DEF RInv
<1> QED  BY <1>1, <1>2, Unseen DEF Refines, RInv

\* Nothing is queued and nobody is in func before a call begins.
LEMMA NothingRuns ==
  ASSUME IInv, \/ poolMutex = Free
               \/ \E c \in Callers : poolMutex = c /\ pc[c] \in {"ids", "push"}
  PROVE  \A t \in Threads : exec[t] = NoJob
<1> SUFFICES ASSUME NEW t \in Threads, exec[t] # NoJob PROVE FALSE
  OBVIOUS
<1>1. pc[t] = "exec" /\ poolMutex # Free
  BY DEF IInv, PlacesOK, ExecsOK
<1>2. PICK c \in Callers : poolMutex = c /\ pc[c] \in {"ids", "push"}
  BY <1>1
<1>3. CASE t \in Callers
  BY <1>1, <1>2, <1>3 DEF IInv, PlacesOK, InsidePlaces, CallerPlaces
<1>4. CASE t \in Workers
  BY <1>1, <1>2, <1>4 DEF IInv, BusyOK, JobsOK
<1> QED  BY <1>3, <1>4 DEF Threads

LEMMA CallRefines ==
  ASSUME IInv, IInv', RInv, NEW c \in Callers, Call(c) PROVE Refines
<1>1. /\ UNCHANGED <<poolMutex, exec, applied, job, queue, k>>
      /\ pc[c] = "idle" /\ Goto(c, "pool")
  BY DEF Call
<1>2. \A s \in Threads : s # c => pc'[s] = pc[s]
  BY <1>1, GoesTo DEF IInv, Places, Threads
<1>3. poolMutex # c
  BY <1>1 DEF IInv, PlacesOK, InsidePlaces
<1>4. \A d \in Callers : d # c => call'[d] = call[d]
  BY DEF Call, IInv, TypeOK
<1>5. \A w \in Workers : w # c /\ w \in Threads
  BY ThreadsApart DEF Threads
<1>6. \A d \in Callers : poolMutex = d => /\ call'[d] = call[d]
                                          /\ pc'[d] = pc[d] /\ k'[d] = k[d]
  BY <1>1, <1>2, <1>3, <1>4 DEF Threads
<1> QED  BY <1>1, <1>2, <1>5, <1>6, QuietStep

LEMMA CallEmptyRefines ==
  ASSUME IInv, IInv', RInv, NEW c \in Callers, CallEmpty(c) PROVE Refines
BY QuietStep DEF CallEmpty

\* The step with which a call begins.
LEMMA LockPoolRefines ==
  ASSUME IInv, IInv', RInv, NEW c \in Callers, LockPool(c) PROVE Refines
<1>1. /\ UNCHANGED <<job, queue, call, exec>>
      /\ poolMutex = Free /\ poolMutex' = c /\ Goto(c, "ids")
      /\ applied' = [i \in Elements |-> 0]
  BY DEF LockPool
<1>2. pc'[c] = "ids" /\ \A s \in Threads : s # c => pc'[s] = pc[s]
  BY <1>1, GoesTo DEF IInv, Places, Threads
<1>3. \A t \in Threads : exec[t] = NoJob
  BY <1>1, NothingRuns
<1>4. Len(queue) \in Nat /\ 1..Len(queue) = {}
  BY <1>1 DEF IInv, TypeOK, QueueOK
<1>5. QueuedOnce'
  <2>1. \A d \in Callers : pc'[d] # "push"
    BY <1>1, <1>2 DEF IInv, PlacesOK, InsidePlaces, CallerPlaces, Threads
  <2> QED  BY <1>1, <1>4, <2>1 DEF QueuedOnce
<1>6. RunOnce'
  BY <1>1, <1>3 DEF RunOnce
<1>7. AppliedOK'
  <2>1. ASSUME NEW j PROVE Untaken(c, j)'
    BY <1>2 DEF Untaken
  <2> QED  BY <1>1, <2>1 DEF AppliedOK
<1>8. Todo' \in Sets
  <2> DEFINE a == call[c]
  <2>1. a \in CallArgs /\ a \in Calls
    BY CallArgsAreCalls DEF IInv, CallsOK
  <2>2. a.begin \in Int /\ a.end \in Int
    BY <2>1, JobsGoOn
  <2>3. \A i \in Elements : i \in Int
    BY ElementsAreInts
  <2>4. c # Free
    BY ThreadsApart
  <2>5. Todo' = {i \in Elements : a.begin <= i /\ i < a.end}
    BY <1>1, <2>4 DEF Todo, Inside
  <2> HIDE DEF a
  <2>6. Todo' = a.begin..a.end-1
    BY <2>1, <2>2, <2>3, <2>5, CallElements
  <2>7. CASE a = BlockCall
    BY <2>6, <2>7 DEF BlockCall, Sets
  <2>8. ASSUME NEW r \in Ranges, r[1] < r[2], a = ForCall(r[1], r[2])
        PROVE  Todo' \in Sets
    BY <2>6, <2>8 DEF ForCall, Sets
  <2> QED  BY <2>1, <2>7, <2>8 DEF CallArgs
<1>9. AStep
  BY <1>1, <1>8, AbstractSteps
<1> QED  BY <1>5, <1>6, <1>7, <1>9 DEF Refines, RInv

\* Until the jobs have been pushed, none has been taken.
LEMMA NotYetSubmitted ==
  ASSUME IInv, IInv', RInv, NEW c \in Callers, pc[c] \in {"ids", "push"},
         UNCHANGED <<poolMutex, exec, applied, call>>,
         \A j \in 0..JobCount(call[c])-1 : Untaken(c, j)'
  PROVE  AStep /\ RunOnce' /\ AppliedOK'
<1>1. poolMutex = c
  BY OneInside DEF IInv, InsidePlaces, CallerPlaces
<1>2. \A t \in Threads : exec[t] = NoJob
  BY <1>1, NothingRuns
<1>3. RunOnce'
  BY <1>2 DEF RunOnce
<1>4. \A j \in 0..JobCount(call[c])-1 : Untaken(c, j)
  BY DEF Untaken
<1>5. AppliedOK'
  BY <1>1, <1>4, RunsKept
<1> QED  BY <1>3, <1>5, Unseen

LEMMA SetThreadIdRefines ==
  ASSUME IInv, IInv', RInv, NEW c \in Callers, SetThreadId(c) PROVE Refines
<1>1. /\ UNCHANGED <<pc, queue, poolMutex, exec, applied, call>>
      /\ pc[c] = "ids"
  BY DEF SetThreadId
<1>2. \A j : Untaken(c, j)'
  BY <1>1 DEF Untaken
<1>3. \A d \in Callers : pc[d] # "push"
  BY <1>1 DEF IInv, PlacesOK, InsidePlaces, CallerPlaces
<1>4. QueuedOnce'
  BY <1>1, <1>3, QueuedOnceKept DEF RInv
<1> QED  BY <1>1, <1>2, <1>4, NotYetSubmitted DEF Refines, RInv

LEMMA IdsDoneRefines ==
  ASSUME IInv, IInv', RInv, NEW c \in Callers, IdsDone(c) PROVE Refines
<1>1. /\ UNCHANGED <<queue, poolMutex, exec, applied, call>>
      /\ pc[c] = "ids" /\ Goto(c, "push") /\ SetK(c, ThreadCount(call[c]))
  BY DEF IdsDone
<1>2. pc'[c] = "push"
  BY <1>1, GoesTo DEF IInv, Places, Threads
<1>3. \A j : Untaken(c, j)'
  BY <1>2 DEF Untaken
<1>4. poolMutex = c
  BY <1>1, OneInside DEF IInv, InsidePlaces, CallerPlaces
<1>5. ThreadCount(call[c]) \in Nat
  BY <1>4, CallInProgress
<1>6. k'[c] = ThreadCount(call[c])
  BY <1>1, <1>5, CountsTo DEF IInv
<1>7. Len(queue) \in Nat /\ 1..Len(queue) = {}
  BY <1>1, <1>4 DEF IInv, TypeOK, QueueOK
<1>8. QueuedOnce'
  <2>1. \A d \in Callers : pc'[d] = "push" => d = c
    BY <1>1, <1>4 DEF IInv, PlacesOK, InsidePlaces, CallerPlaces
  <2>2. ThreadCount(call[c])..k'[c]-1 = {}
    BY <1>5, <1>6
  <2> QED  BY <1>1, <1>7, <2>1, <2>2 DEF QueuedOnce
<1> QED  BY <1>1, <1>3, <1>8, NotYetSubmitted DEF Refines, RInv

LEMMA UnsafePushRefines ==
  ASSUME IInv, IInv', RInv, NEW c \in Callers, UnsafePush(c) PROVE Refines
<1> DEFINE b == Job(c, k[c])
<1>1. /\ UNCHANGED <<pc, poolMutex, exec, applied, call>>
      /\ pc[c] = "push" /\ queue' = Append(queue, b) /\ SetK(c, k[c] + 1)
  BY DEF UnsafePush
<1>2. \A j : Untaken(c, j)'
  BY <1>1 DEF Untaken
<1>3. poolMutex = c
  BY <1>1, OneInside DEF IInv, InsidePlaces, CallerPlaces
<1>4. /\ ThreadCount(call[c]) \in Nat /\ k[c] \in Nat /\ ThreadCount(call[c]) <= k[c]
      /\ k'[c] = k[c] + 1
  <2>1. ThreadCount(call[c]) \in Nat /\ k[c] \in Nat
    BY <1>3, CallInProgress DEF IInv, TypeOK
  <2>2. ThreadCount(call[c]) <= k[c]
    BY <1>1, <2>1 DEF IInv, LoopsOK, LoopOf
  <2>3. k[c] + 1 \in Nat
    BY <2>1
  <2> QED  BY <1>1, <2>1, <2>2, <2>3, CountsTo DEF IInv
<1>5. b \in Jobs /\ b.chunk = k[c]
  BY <1>4 DEF Job, Jobs
<1> HIDE DEF b
<1>6. /\ Len(queue) \in Nat /\ Len(queue') = Len(queue) + 1
      /\ \A i \in 1..Len(queue) : queue'[i] = queue[i]
      /\ queue'[Len(queue) + 1] = b
  BY <1>1, <1>5 DEF IInv, TypeOK
<1>7. \A i \in 1..Len(queue) : queue[i].chunk \in Nat /\ queue[i].chunk < k[c]
  <2>1. \A i \in 1..Len(queue) : queue[i] \in Jobs
    BY DEF IInv, TypeOK
  <2>2. \A i \in 1..Len(queue) : queue[i].chunk < k[c]
    BY <1>1 DEF RInv, QueuedOnce
  <2> QED  BY <2>1, <2>2 DEF Jobs
<1>8. QueuedOnce'
  <2>1. ASSUME NEW i \in 1..Len(queue'), NEW j \in 1..Len(queue'), i # j
        PROVE  queue'[i].chunk # queue'[j].chunk
    <3>1. CASE i = Len(queue) + 1
      BY <1>4, <1>5, <1>6, <1>7, <2>1, <3>1
    <3>2. CASE j = Len(queue) + 1
      BY <1>4, <1>5, <1>6, <1>7, <2>1, <3>2
    <3>3. CASE i \in 1..Len(queue) /\ j \in 1..Len(queue)
      BY <1>6, <2>1, <3>3 DEF RInv, QueuedOnce
    <3> QED  BY <1>6, <3>1, <3>2, <3>3
  <2>2. ASSUME NEW i \in 1..Len(queue') PROVE queue'[i].chunk < k'[c]
    <3>1. CASE i = Len(queue) + 1
      BY <1>4, <1>5, <1>6, <3>1
    <3>2. CASE i \in 1..Len(queue)
      BY <1>4, <1>6, <1>7, <3>2
    <3> QED  BY <1>6, <3>1, <3>2
  <2>3. ASSUME NEW j \in ThreadCount(call[c])..k'[c]-1
        PROVE  \E i \in 1..Len(queue') : queue'[i].chunk = j
    <3>1. CASE j = k[c]
      <4>1. Len(queue) + 1 \in 1..Len(queue')
        BY <1>6
      <4> QED  BY <1>5, <1>6, <3>1, <4>1
    <3>2. CASE j # k[c]
      <4>1. j \in ThreadCount(call[c])..k[c]-1
        BY <1>4, <3>2
      <4>2. PICK i \in 1..Len(queue) : queue[i].chunk = j
        BY <1>1, <4>1 DEF RInv, QueuedOnce
      <4>3. i \in 1..Len(queue')
        BY <1>6
      <4> QED  BY <1>6, <4>2, <4>3
    <3> QED  BY <3>1, <3>2
  <2>4. \A d \in Callers : pc'[d] = "push" => d = c
    BY <1>1, <1>3 DEF IInv, PlacesOK, InsidePlaces, CallerPlaces
  <2> QED  BY <1>1, <2>1, <2>2, <2>3, <2>4 DEF QueuedOnce
<1> QED  BY <1>1, <1>2, <1>8, NotYetSubmitted DEF Refines, RInv

LEMMA PushDoneRefines ==
  ASSUME IInv, IInv', RInv, NEW c \in Callers, PushDone(c) PROVE Refines
<1>1. /\ UNCHANGED <<job, queue, poolMutex, exec, applied, call>>
      /\ pc[c] = "push" /\ k[c] >= JobCount(call[c])
      /\ Goto(c, "submit") /\ SetK(c, 0)
  BY DEF PushDone
<1>2. pc'[c] = "submit" /\ k'[c] = 0
  BY <1>1, GoesTo, CountsTo DEF IInv, Places, Threads
<1>3. poolMutex = c
  BY <1>1, OneInside DEF IInv, InsidePlaces, CallerPlaces
<1>4. /\ ThreadCount(call[c]) \in Nat /\ JobCount(call[c]) \in Nat
      /\ k[c] = JobCount(call[c])
  BY <1>1, <1>3, CallInProgress DEF IInv, TypeOK, LoopsOK, LoopOf
<1>5. ASSUME NEW j \in 0..JobCount(call[c])-1 PROVE Untaken(c, j)'
  <2>1. CASE j < ThreadCount(call[c])
    BY <1>1, <1>2, <2>1 DEF Untaken
  <2>2. CASE ThreadCount(call[c]) <= j
    <3>1. j \in ThreadCount(call[c])..k[c]-1
      BY <1>4, <2>2
    <3>2. \E i \in 1..Len(queue) : queue[i].chunk = j
      BY <1>1, <3>1 DEF RInv, QueuedOnce
    <3> QED  BY <1>1, <3>2 DEF Untaken
  <2> QED  BY <1>4, <2>1, <2>2
<1>6. QueuedOnce'
  <2>1. \A d \in Callers : pc'[d] # "push"
    BY <1>1, <1>2, <1>3 DEF IInv, PlacesOK, InsidePlaces, CallerPlaces
  <2> QED  BY <1>1, <2>1, QueuedOnceKept DEF RInv
<1> QED  BY <1>1, <1>5, <1>6, NotYetSubmitted DEF Refines, RInv

\* The job a worker is given passes from the caller to the worker.
LEMMA SubmitRefines ==
  ASSUME IInv, IInv', RInv, NEW c \in Callers, Submit(c) PROVE Refines
<1>1. /\ UNCHANGED <<queue, poolMutex, exec, applied, call, k>>
      /\ pc[c] = "submit" /\ k[c] < ThreadCount(call[c]) - 1
      /\ job' = [job EXCEPT ![k[c]] = Job(c, k[c])]
      /\ Goto(c, "notify")
  BY DEF Submit
<1>2. poolMutex = c
  BY <1>1, OneInside DEF IInv, InsidePlaces, CallerPlaces
<1>3. /\ ThreadCount(call[c]) \in Nat /\ k[c] \in Nat /\ k[c] \in Workers
      /\ \A j \in 0..JobCount(call[c])-1 : j \in Nat
  <2>1. /\ ThreadCount(call[c]) \in Nat /\ JobCount(call[c]) \in Nat
        /\ \A j \in 0..JobCount(call[c])-1 : j \in Nat
    BY <1>2, CallInProgress
  <2>2. k[c] \in Nat /\ k[c] \in Workers
    BY <1>1, WorkerOf DEF IInv, TypeOK
  <2> QED  BY <2>1, <2>2
<1>4. /\ pc'[c] = "notify" /\ \A s \in Threads : s # c => pc'[s] = pc[s]
  BY <1>1, GoesTo DEF IInv, Places, Threads
<1>5. /\ job'[k[c]] = Job(c, k[c]) /\ Job(c, k[c]) # NoJob
      /\ \A w \in Workers : w # k[c] => job'[w] = job[w]
  <2>1. Job(c, k[c]) \in Jobs
    BY <1>3 DEF Job, Jobs
  <2> QED  BY <1>1, <1>3, <2>1, ThreadsApart DEF IInv, TypeOK
<1>6. \A w \in Workers : pc'[w] = pc[w]
  BY <1>4, ThreadsApart DEF Threads
<1>7. pc[k[c]] \notin {"exec", "pop"}
  <2>1. job[k[c]] = NoJob
    BY <1>1, <1>2, <1>3 DEF IInv, JobsOK
  <2> QED  BY <1>3, <2>1 DEF IInv, BusyOK
<1>8. ASSUME NEW j \in 0..JobCount(call[c])-1
      PROVE  Untaken(c, j)' <=> Untaken(c, j)
  <2>1. CASE j = k[c]
    <3>1. Untaken(c, j)
      BY <1>1, <1>3, <2>1 DEF Untaken
    <3>2. Untaken(c, j)'
      BY <1>3, <1>5, <1>6, <1>7, <2>1 DEF Untaken
    <3> QED  BY <3>1, <3>2
  <2>2. CASE j # k[c]
    <3>1. k[c] <= j <=> k[c] < j
      BY <1>3, <2>2
    <3>2. j \in Workers => job'[j] = job[j] /\ pc'[j] = pc[j]
      BY <1>5, <1>6, <2>2
    <3> QED  BY <1>1, <1>4, <3>1, <3>2 DEF Untaken
  <2> QED  BY <2>1, <2>2
<1>9. RunOnce' /\ AppliedOK'
  BY <1>1, <1>2, <1>8, RunsKept
<1>10. QueuedOnce'
  <2>1. \A d \in Callers : pc'[d] # "push"
    BY <1>1, <1>2, <1>4 DEF IInv, PlacesOK, InsidePlaces, CallerPlaces
  <2> QED  BY <1>1, <2>1, QueuedOnceKept DEF RInv
<1> QED  BY <1>1, <1>9, <1>10, Unseen DEF Refines, RInv

LEMMA NotifyOccupiedRefines ==
  ASSUME IInv, IInv', RInv, NEW c \in Callers, NotifyOccupied(c) PROVE Refines
<1>1. /\ UNCHANGED <<job, queue, poolMutex, exec, applied, call>>
      /\ pc[c] = "notify" /\ SetK(c, k[c] + 1)
      /\ pc' = [pc EXCEPT ![c] = "submit", ![k[c]] = IF @ = "asleep" THEN "lock" ELSE @]
  BY DEF NotifyOccupied
<1>2. poolMutex = c
  BY <1>1, OneInside DEF IInv, InsidePlaces, CallerPlaces
<1>3. /\ ThreadCount(call[c]) \in Nat /\ k[c] \in Nat /\ k[c] \in Workers
      /\ \A j \in 0..JobCount(call[c])-1 : j \in Nat
  <2>1. /\ ThreadCount(call[c]) \in Nat /\ JobCount(call[c]) \in Nat
        /\ \A j \in 0..JobCount(call[c])-1 : j \in Nat
    BY <1>2, CallInProgress
  <2>2. k[c] < ThreadCount(call[c]) - 1
    BY <1>1 DEF IInv, LoopsOK, LoopOf
  <2>3. k[c] \in Nat /\ k[c] \in Workers
    BY <2>2, WorkerOf DEF IInv, TypeOK
  <2> QED  BY <2>1, <2>3
<1>4. k'[c] = k[c] + 1
  <2>1. k[c] + 1 \in Nat
    BY <1>3
  <2> QED  BY <1>1, <2>1, CountsTo DEF IInv
<1>5. /\ c # k[c] /\ c \in Threads /\ k[c] \in Threads
      /\ \A w \in Workers : w # c /\ w \in Threads
  BY <1>3, ThreadsApart DEF Threads
<1>6. /\ pc'[c] = "submit"
      /\ pc'[k[c]] = IF pc[k[c]] = "asleep" THEN "lock" ELSE pc[k[c]]
      /\ \A s \in Threads : s # c /\ s # k[c] => pc'[s] = pc[s]
  BY <1>1, <1>5 DEF IInv, TypeOK
<1>7. ASSUME NEW w \in Workers
      PROVE  pc'[w] \in {"exec", "pop"} <=> pc[w] \in {"exec", "pop"}
  <2>1. CASE w = k[c]
    BY <1>6, <2>1
  <2>2. CASE w # k[c]
    BY <1>5, <1>6, <2>2
  <2> QED  BY <2>1, <2>2
<1>8. ASSUME NEW j \in 0..JobCount(call[c])-1
      PROVE  Untaken(c, j)' <=> Untaken(c, j)
  <2>1. k[c] < j <=> k'[c] <= j
    BY <1>3, <1>4
  <2>2. j \in Workers => (pc'[j] \in {"exec", "pop"} <=> pc[j] \in {"exec", "pop"})
    BY <1>7
  <2> QED  BY <1>1, <1>6, <2>1, <2>2 DEF Untaken
<1>9. RunOnce' /\ AppliedOK'
  BY <1>1, <1>2, <1>8, RunsKept
<1>10. QueuedOnce'
  <2>1. \A d \in Callers : pc'[d] # "push"
    BY <1>1, <1>2, <1>6 DEF IInv, PlacesOK, InsidePlaces, CallerPlaces
  <2> QED  BY <1>1, <2>1, QueuedOnceKept DEF RInv
<1> QED  BY <1>1, <1>9, <1>10, Unseen DEF Refines, RInv

\* A thread with a number nobody has begins a job nobody had taken.
LEMMA JobStarts ==
  ASSUME IInv, IInv', RInv, NEW c \in Callers, poolMutex = c, NEW t \in Threads,
         NEW j \in 0..JobCount(call[c])-1,
         UNCHANGED <<call, poolMutex>>,
         Untaken(c, j), ~Untaken(c, j)',
         \A m \in 0..JobCount(call[c])-1 : m # j => (Untaken(c, m)' <=> Untaken(c, m)),
         exec[t] = NoJob, exec'[t] # NoJob,
         exec'[t].job.chunk = j, exec'[t].at = JobBegin(call[c], j),
         \A s \in Threads : s # t => exec'[s] = exec[s],
         applied' = Applied(JobBegin(call[c], j)),
         exec'[t].id \in 0..NThreads-1
  PROVE  RunOnce' /\ AppliedOK' /\ AStep
<1> DEFINE x == JobBegin(call[c], j)
<1>1. /\ call[c] \in CallArgs /\ JobCount(call[c]) \in Nat /\ j \in Nat
  BY CallInProgress
<1>2. x \in Int /\ InChunk(call[c], j, x)
  BY <1>1, JobsGoOn DEF InChunk
<1>3. call[c].begin <= x /\ x < call[c].end /\ x \in Elements
  BY <1>1, <1>2, JobsDivide, CallElements
<1>4. applied[x] = 0
  BY <1>2, <1>3 DEF RInv, AppliedOK
<1>5. /\ \A e \in Elements : e # x => applied'[e] = applied[e]
      /\ applied'[x] # 0
  BY <1>3, AppliedTo
<1>6. Inside' = Inside /\ x \in Inside
  BY <1>3, ThreadsApart DEF Inside
<1>7. x \in Todo /\ Todo' = Todo \ {x}
  <2>1. Inside \subseteq Elements
    BY DEF Inside
  <2> QED  BY <1>3, <1>4, <1>5, <1>6, <2>1 DEF Todo
<1>8. /\ exec'[t].id \notin Numbers(exec)
      /\ Active(exec') = [d \in Numbers(exec) \cup {exec'[t].id} |->
                           IF d = exec'[t].id THEN x ELSE Active(exec)[d]]
  BY InvariantKeepsApartNext, ActiveStarts
<1>9. Active(exec)' = Active(exec')
  BY DEF Active, Numbers
<1> HIDE DEF x
<1>10. AStep
  BY <1>7, <1>8, <1>9, AbstractSteps
<1>11. RunOnce' /\ AppliedOK'
  BY JobBegins
<1> QED  BY <1>10, <1>11

LEMMA RunOwnRefines ==
  ASSUME IInv, IInv', RInv, NEW c \in Callers, RunOwn(c) PROVE Refines
<1>. PICK j : j = ThreadCount(call[c]) - 1
  OBVIOUS
<1>1. /\ UNCHANGED <<queue, job, poolMutex, call, k>>
      /\ pc[c] = "submit" /\ k[c] >= j
      /\ exec' = [exec EXCEPT ![c] = Running(Job(c, k[c]), j)]
      /\ applied' = Applied(JobBegin(call[c], k[c]))
      /\ Goto(c, "exec")
  BY DEF RunOwn
<1>2. poolMutex = c
  BY <1>1, OneInside DEF IInv, InsidePlaces, CallerPlaces
<1>3. /\ ThreadCount(call[c]) \in Nat /\ JobCount(call[c]) \in Nat
      /\ j \in Nat /\ j < JobCount(call[c]) /\ j \in 0..NThreads-1
      /\ k[c] = j
      /\ \A m \in 0..JobCount(call[c])-1 : m \in Nat
  <2>1. /\ ThreadCount(call[c]) \in Nat /\ ThreadCount(call[c]) >= 1
        /\ ThreadCount(call[c]) <= NThreads /\ ThreadCount(call[c]) <= JobCount(call[c])
        /\ JobCount(call[c]) \in Nat
    BY CountsOf DEF IInv
  <2>2. k[c] \in Nat /\ k[c] < ThreadCount(call[c])
    BY <1>1 DEF IInv, TypeOK, LoopsOK, LoopOf
  <2> QED  BY <1>1, <2>1, <2>2, PoolAssumption
<1>4. /\ pc'[c] = "exec" /\ \A s \in Threads : s # c => pc'[s] = pc[s]
  BY <1>1, GoesTo DEF IInv, Places, Threads
<1>5. \A w \in Workers : pc'[w] = pc[w]
  BY <1>4, ThreadsApart DEF Threads
<1>6. /\ exec[c] = NoJob /\ exec'[c] # NoJob
      /\ exec'[c].job.chunk = j /\ exec'[c].id = j
      /\ exec'[c].at = JobBegin(call[c], j)
      /\ \A s \in Threads : s # c => exec'[s] = exec[s]
  <2>1. Job(c, j) \in Jobs /\ Job(c, j).chunk = j /\ Job(c, j).caller = c
    BY <1>3 DEF Job, Jobs
  <2>2. /\ Running(Job(c, j), j) # NoJob /\ Running(Job(c, j), j).job = Job(c, j)
        /\ Running(Job(c, j), j).id = j
    BY <1>3, <2>1, RunningType DEF IInv
  <2>3. Running(Job(c, j), j).at = JobBegin(call[c], j)
    BY <2>1 DEF Running
  <2>4. exec[c] = NoJob
    BY <1>1 DEF IInv, PlacesOK, Threads
  <2>5. /\ exec'[c] = Running(Job(c, j), j)
        /\ \A s \in Threads : s # c => exec'[s] = exec[s]
    BY <1>1, <1>3 DEF IInv, TypeOK, Threads
  <2> QED  BY <2>1, <2>2, <2>3, <2>4, <2>5
<1>7. Untaken(c, j)
  BY <1>1, <1>3 DEF Untaken
<1>8. ~Untaken(c, j)'
  <2>1. j \in Workers => job[j] = NoJob
    <3>1. j \in Workers /\ job[j] # NoJob => j < k[c]
      BY <1>1, <1>2 DEF IInv, JobsOK
    <3> QED  BY <1>3, <3>1
  <2>2. \A i \in 1..Len(queue) : queue[i].chunk # j
    <3>1. \A i \in 1..Len(queue) : queue[i].chunk >= ThreadCount(call[c])
      BY <1>2 DEF IInv, QueueOK
    <3> QED  BY <1>3, <3>1
  <2> QED  BY <1>1, <1>4, <2>1, <2>2 DEF Untaken
<1>9. ASSUME NEW m \in 0..JobCount(call[c])-1, m # j
      PROVE  Untaken(c, m)' <=> Untaken(c, m)
  <2>1. ~(k[c] <= m /\ m < ThreadCount(call[c]))
    BY <1>3, <1>9
  <2> QED  BY <1>1, <1>4, <1>5, <2>1 DEF Untaken
<1>10. RunOnce' /\ AppliedOK' /\ AStep
  <2>1. applied' = Applied(JobBegin(call[c], j)) /\ j \in 0..JobCount(call[c])-1
    BY <1>1, <1>3
  <2>2. c \in Threads
    BY DEF Threads
  <2> QED  BY <1>1, <1>2, <1>3, <1>6, <1>7, <1>8, <1>9, <2>1, <2>2, JobStarts
<1>11. QueuedOnce'
  <2>1. \A d \in Callers : pc'[d] # "push"
    BY <1>1, <1>2, <1>4 DEF IInv, PlacesOK, InsidePlaces, CallerPlaces
  <2> QED  BY <1>1, <2>1, QueuedOnceKept DEF RInv
<1> QED  BY <1>10, <1>11 DEF Refines, RInv

LEMMA CallerPopsNothingRefines ==
  ASSUME IInv, IInv', RInv, NEW c \in Callers, CallerPopsNothing(c) PROVE Refines
<1>1. /\ UNCHANGED <<queue, job, poolMutex, exec, applied, call>>
      /\ pc[c] = "pop" /\ Goto(c, "wait")
  BY DEF CallerPopsNothing
<1>2. poolMutex = c
  BY <1>1, OneInside DEF IInv, InsidePlaces, CallerPlaces
<1>3. /\ pc'[c] = "wait" /\ \A s \in Threads : s # c => pc'[s] = pc[s]
  BY <1>1, GoesTo DEF IInv, Places, Threads
<1>4. \A w \in Workers : pc'[w] = pc[w]
  BY <1>3, ThreadsApart DEF Threads
<1>5. \A d \in Callers : poolMutex = d =>
        {pc[d], pc'[d]} \cap {"ids", "push", "submit", "notify"} = {}
  BY <1>1, <1>2, <1>3
<1> QED  BY <1>1, <1>4, <1>5, QuietStep

LEMMA WaitWorkerRefines ==
  ASSUME IInv, IInv', RInv, NEW c \in Callers, WaitWorker(c) PROVE Refines
<1>1. /\ UNCHANGED <<queue, job, poolMutex, exec, applied, call>>
      /\ pc[c] = "wait" /\ (UNCHANGED pc \/ Goto(c, "waiting"))
  BY DEF WaitWorker
<1>2. poolMutex = c
  BY <1>1, OneInside DEF IInv, InsidePlaces, CallerPlaces
<1>3. /\ pc'[c] \in {"wait", "waiting"}
      /\ \A s \in Threads : s # c => pc'[s] = pc[s]
  BY <1>1, GoesTo DEF IInv, Places, Threads
<1>4. \A w \in Workers : pc'[w] = pc[w]
  BY <1>3, ThreadsApart DEF Threads
<1>5. \A d \in Callers : poolMutex = d =>
        {pc[d], pc'[d]} \cap {"ids", "push", "submit", "notify"} = {}
  BY <1>1, <1>2, <1>3
<1> QED  BY <1>1, <1>4, <1>5, QuietStep

\* When the workers' jobs are over nothing is left: every element is in a chunk
\* that was taken and that nobody runs any more.
LEMMA ReturnRefines ==
  ASSUME IInv, IInv', RInv, NEW c \in Callers, Return(c) PROVE Refines
<1>1. /\ UNCHANGED <<queue, job, exec, applied, call>>
      /\ pc[c] = "wait" /\ k[c] >= ThreadCount(call[c]) - 1
      /\ poolMutex' = Free /\ Goto(c, "idle")
  BY DEF Return
<1>2. poolMutex = c
  BY <1>1, OneInside DEF IInv, InsidePlaces, CallerPlaces
<1>3. /\ pc'[c] = "idle" /\ \A s \in Threads : s # c => pc'[s] = pc[s]
  BY <1>1, GoesTo DEF IInv, Places, Threads
<1>4. /\ \A w \in Workers : job[w] = NoJob
      /\ \A t \in Threads : exec[t] = NoJob
      /\ \A i \in 1..Len(queue) : FALSE
  BY ReturnIsAlone
<1>5. QueuedOnce'
  <2>1. \A d \in Callers : pc'[d] # "push"
    BY <1>1, <1>2, <1>3, ThreadsApart DEF IInv, PlacesOK, InsidePlaces, CallerPlaces
  <2> QED  BY <1>1, <2>1, QueuedOnceKept DEF RInv
<1>6. RunOnce' /\ AppliedOK'
  BY <1>1, <1>4, ThreadsApart DEF RunOnce, AppliedOK
<1>7. Todo = {}
  <2> SUFFICES ASSUME NEW i \in Inside, applied[i] = 0 PROVE FALSE
    BY DEF Todo
  <2>1. /\ i \in Elements /\ i \in Int
        /\ call[c].begin <= i /\ i < call[c].end
    BY <1>2, ElementsAreInts, ThreadsApart DEF Inside
  <2>2. PICK j \in 0..JobCount(call[c])-1 : InChunk(call[c], j, i)
    BY <1>2, <2>1, CallInProgress, JobsDivide
  <2>3. Untaken(c, j)
    BY <1>2, <1>4, <2>1, <2>2 DEF RInv, AppliedOK, Runs
  <2> QED  BY <1>1, <1>4, <2>3 DEF Untaken
<1>8. Todo' = {}
  BY <1>1 DEF Todo, Inside
<1>9. Numbers(exec) = {} /\ UNCHANGED Active(exec)
  BY <1>1, <1>4 DEF Numbers, Active
<1>10. AStep
  BY <1>1, <1>2, <1>7, <1>8, <1>9, ThreadsApart, AbstractSteps
<1> QED  BY <1>5, <1>6, <1>10 DEF Refines, RInv

-----------------------------------------------------------------------------
(* Steps of a worker, and of func.                                         *)

\* A worker that only moves outside its jobs.
LEMMA WorkerMovesQuietly ==
  ASSUME IInv, IInv', RInv, NEW w \in Workers,
         NEW place \in WorkerPlaces \ {"exec", "pop"}, Goto(w, place),
         pc[w] \notin {"exec", "pop"},
         UNCHANGED <<poolMutex, exec, applied, job, queue, call, k>>
  PROVE  Refines
<1>1. /\ pc'[w] = place /\ \A s \in Threads : s # w => pc'[s] = pc[s]
  BY GoesTo DEF IInv, Places, WorkerPlaces, Threads
<1>2. \A v \in Workers : pc'[v] \in {"exec", "pop"} <=> pc[v] \in {"exec", "pop"}
  BY <1>1 DEF Threads
<1>3. \A c \in Callers : pc'[c] = pc[c]
  BY <1>1, ThreadsApart DEF Threads
<1> QED  BY <1>2, <1>3, QuietStep

LEMMA LockRefines ==
  ASSUME IInv, IInv', RInv, NEW w \in Workers, Lock(w) PROVE Refines
BY WorkerMovesQuietly DEF Lock, WorkerPlaces

LEMMA TestOccupiedRefines ==
  ASSUME IInv, IInv', RInv, NEW w \in Workers, TestOccupied(w) PROVE Refines
<1>1. PICK place \in {"woken", "sleep"} : Goto(w, place)
  BY DEF TestOccupied
<1> QED  BY <1>1, WorkerMovesQuietly DEF TestOccupied, WorkerPlaces

LEMMA SleepRefines ==
  ASSUME IInv, IInv', RInv, NEW w \in Workers, Sleep(w) PROVE Refines
BY WorkerMovesQuietly DEF Sleep, WorkerPlaces

LEMMA WorkerReturnsRefines ==
  ASSUME IInv, IInv', RInv, NEW w \in Workers, WorkerReturns(w) PROVE Refines
BY WorkerMovesQuietly DEF WorkerReturns, WorkerPlaces

LEMMA NotifyFinishedRefines ==
  ASSUME IInv, IInv', RInv, NEW w \in Workers, NotifyFinished(w) PROVE Refines
<1>1. /\ UNCHANGED <<job, queue, poolMutex, call, k, exec, applied>>
      /\ pc[w] = "finish"
      /\ pc' = [t \in Threads |->
                 IF t = w THEN "lock"
                 ELSE IF t \in Callers /\ pc[t] = "waiting" /\ k[t] = w THEN "wait" ELSE pc[t]]
  BY DEF NotifyFinished
<1>2. ASSUME NEW v \in Workers
      PROVE  pc'[v] \in {"exec", "pop"} <=> pc[v] \in {"exec", "pop"}
  <2>1. v \notin Callers /\ v \in Threads
    BY ThreadsApart DEF Threads
  <2>2. pc'[v] = IF v = w THEN "lock" ELSE pc[v]
    BY <1>1, <2>1
  <2> QED  BY <1>1, <2>2
<1>3. ASSUME NEW c \in Callers
      PROVE  pc'[c] = pc[c] \/ (pc[c] = "waiting" /\ pc'[c] = "wait")
  <2>1. c # w /\ c \in Threads
    BY ThreadsApart DEF Threads
  <2> QED  BY <1>1, <2>1
<1>4. \A c \in Callers :
        \/ pc'[c] = pc[c] /\ k'[c] = k[c]
        \/ {pc[c], pc'[c]} \cap {"ids", "push", "submit", "notify"} = {}
  BY <1>1, <1>3
<1> QED  BY <1>1, <1>2, <1>4, QuietStep

\* A worker's job ends when the queue is empty: it has been taken before.
LEMMA ClearJobRefines ==
  ASSUME IInv, IInv', RInv, NEW w \in Workers, ClearJob(w) PROVE Refines
<1>1. /\ UNCHANGED <<queue, poolMutex, exec, applied, call, k>>
      /\ pc[w] = "pop" /\ job' = [job EXCEPT ![w] = NoJob] /\ Goto(w, "finish")
  BY DEF ClearJob
<1>2. /\ pc'[w] = "finish" /\ \A s \in Threads : s # w => pc'[s] = pc[s]
  BY <1>1, GoesTo DEF IInv, Places, Threads
<1>3. \A c \in Callers : pc'[c] = pc[c]
  BY <1>2, ThreadsApart DEF Threads
<1>4. job'[w] = NoJob /\ \A v \in Workers : v # w => job'[v] = job[v] /\ pc'[v] = pc[v]
  BY <1>1, <1>2 DEF IInv, TypeOK, Threads
<1>5. ASSUME NEW c \in Callers, NEW j PROVE Untaken(c, j)' <=> Untaken(c, j)
  <2>1. j \in Workers =>
          (job'[j] # NoJob /\ pc'[j] \notin {"exec", "pop"} <=>
             job[j] # NoJob /\ pc[j] \notin {"exec", "pop"})
    BY <1>1, <1>4
  <2> QED  BY <1>1, <1>3, <2>1 DEF Untaken
<1>6. RunOnce' /\ AppliedOK'
  BY <1>1, <1>5, RunsKept
<1>7. QueuedOnce'
  BY <1>1, <1>3, QueuedOnceKept DEF RInv
<1> QED  BY <1>1, <1>6, <1>7, Unseen DEF Refines, RInv

LEMMA RunJobRefines ==
  ASSUME IInv, IInv', RInv, NEW w \in Workers, RunJob(w) PROVE Refines
<1>1. /\ UNCHANGED <<queue, job, poolMutex, call, k>>
      /\ pc[w] = "woken"
      /\ exec' = [exec EXCEPT ![w] = Running(job[w], threadId[w])]
      /\ applied' = Applied(JobBegin(call[job[w].caller], job[w].chunk))
      /\ Goto(w, "exec")
  BY DEF RunJob
<1>2. /\ w \in Threads /\ w \in Nat /\ w \in 0..NThreads-1
      /\ \A v \in Workers : v \in Threads
  BY ThreadsApart, PoolAssumption DEF Threads, Workers
<1>3. PICK c \in Callers : c = poolMutex
  BY WokenHasJob
<1>4. /\ job[w] \in Jobs /\ job[w] = Job(c, w) /\ job[w].caller = c /\ job[w].chunk = w
      /\ threadId[w] = w /\ w < ThreadCount(call[c]) - 1
  BY <1>3, WokenHasJob DEF Job
<1>5. /\ ThreadCount(call[c]) \in Nat /\ JobCount(call[c]) \in Nat
      /\ w \in 0..JobCount(call[c])-1
      /\ \A m \in 0..JobCount(call[c])-1 : m \in Nat
  <2>1. /\ ThreadCount(call[c]) \in Nat /\ JobCount(call[c]) \in Nat
        /\ ThreadCount(call[c]) <= JobCount(call[c])
    BY <1>3, CallInProgress
  <2> QED  BY <1>2, <1>4, <2>1
<1>6. /\ pc'[w] = "exec" /\ \A s \in Threads : s # w => pc'[s] = pc[s]
  BY <1>1, GoesTo DEF IInv, Places, Threads
<1>7. \A d \in Callers : pc'[d] = pc[d]
  BY <1>6, ThreadsApart DEF Threads
<1>8. /\ exec[w] = NoJob /\ exec'[w] # NoJob
      /\ exec'[w].job.chunk = w /\ exec'[w].id = w
      /\ exec'[w].at = JobBegin(call[c], w)
      /\ \A s \in Threads : s # w => exec'[s] = exec[s]
  <2>1. /\ Running(job[w], w) # NoJob /\ Running(job[w], w).job = job[w]
        /\ Running(job[w], w).id = w
    BY <1>2, <1>4, RunningType DEF IInv
  <2>2. Running(job[w], w).at = JobBegin(call[c], w)
    BY <1>4 DEF Running
  <2>3. exec[w] = NoJob
    BY <1>1, <1>2 DEF IInv, PlacesOK
  <2>4. /\ exec'[w] = Running(job[w], w)
        /\ \A s \in Threads : s # w => exec'[s] = exec[s]
    BY <1>1, <1>2, <1>4 DEF IInv, TypeOK
  <2> QED  BY <1>4, <2>1, <2>2, <2>3, <2>4
<1>9. Untaken(c, w)
  <2>1. job[w] # NoJob
    BY <1>4, ThreadsApart
  <2> QED  BY <1>1, <2>1 DEF Untaken
<1>10. ~Untaken(c, w)'
  <2>1. /\ job[w] # NoJob /\ pc[c] \notin {"ids", "push"}
        /\ pc[c] = "submit" => w < k[c]
        /\ pc[c] = "notify" => w <= k[c]
    BY <1>3, <1>4, ThreadsApart DEF IInv, JobsOK
  <2>2. k[c] \in Nat
    BY DEF IInv, TypeOK
  <2>3. \A i \in 1..Len(queue) : queue[i].chunk # w
    <3>1. \A i \in 1..Len(queue) : queue[i].chunk >= ThreadCount(call[c])
      BY <1>3 DEF IInv, QueueOK
    <3> QED  BY <1>2, <1>4, <1>5, <3>1
  <2>4. ~(pc[c] = "submit" /\ k[c] <= w) /\ ~(pc[c] = "notify" /\ k[c] < w)
    BY <1>2, <2>1, <2>2
  <2> QED  BY <1>1, <1>6, <1>7, <2>1, <2>3, <2>4 DEF Untaken
<1>11. ASSUME NEW m \in 0..JobCount(call[c])-1, m # w
       PROVE  Untaken(c, m)' <=> Untaken(c, m)
  <2>1. m \in Workers => pc'[m] = pc[m]
    BY <1>2, <1>6, <1>11
  <2> QED  BY <1>1, <1>7, <2>1 DEF Untaken
<1>12. RunOnce' /\ AppliedOK' /\ AStep
  <2>1. applied' = Applied(JobBegin(call[c], w))
    BY <1>1, <1>4
  <2> QED
    BY <1>1, <1>2, <1>3, <1>5, <1>8, <1>9, <1>10, <1>11, <2>1, JobStarts
<1>13. QueuedOnce'
  BY <1>1, <1>7, QueuedOnceKept DEF RInv
<1> QED  BY <1>12, <1>13 DEF Refines, RInv

\* A thread takes the first job of the queue, which is not in the rest of it.
LEMMA PopJobRefines ==
  ASSUME IInv, IInv', RInv, NEW t \in Threads, PopJob(t) PROVE Refines
<1>1. /\ UNCHANGED <<job, poolMutex, call, k>>
      /\ pc[t] = "pop" /\ queue # <<>> /\ queue' = Tail(queue)
      /\ exec' = [exec EXCEPT ![t] = Running(Head(queue), NumberOf(t))]
      /\ applied' = Applied(JobBegin(call[Head(queue).caller], Head(queue).chunk))
      /\ Goto(t, "exec")
  BY DEF PopJob
<1>2. PICK b : b = Head(queue)
  OBVIOUS
<1>3. PICK c \in Callers : c = poolMutex
  BY <1>1, PopsInside
<1>4. /\ Len(queue) \in Nat /\ 1 \in 1..Len(queue) /\ b = queue[1] /\ b \in Jobs
      /\ Len(queue') = Len(queue) - 1
      /\ \A i \in 1..Len(queue') : i + 1 \in 1..Len(queue) /\ queue'[i] = queue[i + 1]
  BY <1>1, <1>2 DEF IInv, TypeOK
<1>5. PICK j \in Nat : j = b.chunk
  BY <1>4 DEF Jobs
<1>6. /\ ThreadCount(call[c]) \in Nat /\ JobCount(call[c]) \in Nat
      /\ ThreadCount(call[c]) >= 1 /\ ThreadCount(call[c]) <= NThreads
      /\ ThreadCount(call[c]) <= JobCount(call[c])
      /\ \A m \in 0..JobCount(call[c])-1 : m \in Nat
  BY CountsOf DEF IInv
<1>7. /\ b.caller = c /\ pc[c] \notin {"ids", "wait", "waiting"}
      /\ j >= ThreadCount(call[c]) /\ j < JobCount(call[c])
  BY <1>3, <1>4, <1>5 DEF IInv, QueueOK
<1>8. /\ pc'[t] = "exec" /\ \A s \in Threads : s # t => pc'[s] = pc[s]
  BY <1>1, GoesTo DEF IInv, Places
<1>9. PICK id \in 0..NThreads-1 : id = NumberOf(t)
  <2>1. NumberOf(t) = (IF t \in Callers THEN ThreadCount(call[c]) - 1 ELSE t) /\ NumberOf(t) \in Nat
    BY <1>1, <1>3, PopsInside
  <2>2. t \in Workers => t \in 0..NThreads-1
    BY PoolAssumption DEF Workers
  <2>3. ThreadCount(call[c]) - 1 \in 0..NThreads-1
    BY <1>6, PoolAssumption
  <2> QED  BY <2>1, <2>2, <2>3 DEF Threads
<1>10. /\ exec[t] = NoJob /\ exec'[t] # NoJob
       /\ exec'[t].job.chunk = j /\ exec'[t].id = id
       /\ exec'[t].at = JobBegin(call[c], j)
       /\ \A s \in Threads : s # t => exec'[s] = exec[s]
  <2>1. /\ Running(b, id) # NoJob /\ Running(b, id).job = b /\ Running(b, id).id = id
    BY <1>4, RunningType DEF IInv
  <2>2. Running(b, id).at = JobBegin(call[c], j)
    BY <1>5, <1>7 DEF Running
  <2>3. exec[t] = NoJob
    BY <1>1 DEF IInv, PlacesOK
  <2>4. /\ exec'[t] = Running(b, id)
        /\ \A s \in Threads : s # t => exec'[s] = exec[s]
    BY <1>1, <1>2, <1>9 DEF IInv, TypeOK
  <2> QED  BY <1>5, <2>1, <2>2, <2>3, <2>4
<1>11. /\ \A w \in Workers : pc'[w] \in {"exec", "pop"} <=> pc[w] \in {"exec", "pop"}
       /\ \A d \in Callers : \/ pc'[d] = pc[d]
                             \/ {pc[d], pc'[d]} \cap {"ids", "push", "submit", "notify"} = {}
  BY <1>1, <1>8 DEF Threads
<1>12. pc[c] # "push"
  <2>1. CASE t \in Callers
    BY <1>1, <1>3, <2>1, PopsInside
  <2>2. CASE t \in Workers
    BY <1>1, <1>3, <2>2 DEF IInv, BusyOK, JobsOK
  <2> QED  BY <2>1, <2>2 DEF Threads
<1>13. pc'[c] \notin {"ids", "push"}
  BY <1>7, <1>8, <1>12 DEF Threads
<1>14. \A i, m \in 1..Len(queue) : i # m => queue[i].chunk # queue[m].chunk
  BY DEF RInv, QueuedOnce
<1>15. Untaken(c, j)
  BY <1>4, <1>5 DEF Untaken
<1>16. ~Untaken(c, j)'
  <2>1. \A i \in 1..Len(queue') : queue'[i].chunk # j
    <3> SUFFICES ASSUME NEW i \in 1..Len(queue') PROVE queue[i + 1].chunk # j
      BY <1>4
    <3>1. i + 1 \in 1..Len(queue) /\ i + 1 # 1
      BY <1>4
    <3> QED  BY <1>4, <1>5, <1>14, <3>1
  <2>2. j \in Workers => job[j] = NoJob
    <3>1. ASSUME j \in Workers, job[j] # NoJob PROVE FALSE
      <4>1. j < ThreadCount(call[c]) - 1
        BY <1>3, <3>1 DEF IInv, JobsOK
      <4> QED  BY <1>6, <1>7, <4>1
    <3> QED  BY <3>1
  <2>3. ~(j < ThreadCount(call[c]))
    BY <1>6, <1>7
  <2> QED  BY <1>1, <1>13, <2>1, <2>2, <2>3 DEF Untaken
<1>17. ASSUME NEW m \in 0..JobCount(call[c])-1, m # j
       PROVE  Untaken(c, m)' <=> Untaken(c, m)
  <2>1. (\E i \in 1..Len(queue') : queue'[i].chunk = m) <=>
          (\E i \in 1..Len(queue) : queue[i].chunk = m)
    <3>1. ASSUME NEW i \in 1..Len(queue), queue[i].chunk = m
          PROVE  \E l \in 1..Len(queue') : queue'[l].chunk = m
      <4>1. i # 1
        BY <1>4, <1>5, <1>17, <3>1
      <4>2. i - 1 \in 1..Len(queue') /\ queue'[i - 1] = queue[i]
        BY <1>4, <4>1
      <4> QED  BY <3>1, <4>2
    <3> QED  BY <1>4, <3>1
  <2>2. \/ pc'[c] = pc[c]
        \/ {pc[c], pc'[c]} \cap {"ids", "push", "submit", "notify"} = {}
    BY <1>11
  <2>3. m \in Workers => (pc'[m] \in {"exec", "pop"} <=> pc[m] \in {"exec", "pop"})
    BY <1>11
  <2> QED  BY <1>1, <2>1, <2>2, <2>3 DEF Untaken
<1>18. RunOnce' /\ AppliedOK' /\ AStep
  <2>1. applied' = Applied(JobBegin(call[c], j)) /\ j \in 0..JobCount(call[c])-1
    BY <1>1, <1>2, <1>5, <1>6, <1>7
  <2>2. poolMutex = c /\ exec'[t].id \in 0..NThreads-1 /\ UNCHANGED <<call, poolMutex>>
    BY <1>1, <1>3, <1>9, <1>10
  <2> QED
    BY <1>10, <1>15, <1>16, <1>17, <2>1, <2>2, JobStarts
<1>19. QueuedOnce'
  <2>1. \A i, m \in 1..Len(queue') : i # m => queue'[i].chunk # queue'[m].chunk
    <3> SUFFICES ASSUME NEW i \in 1..Len(queue'), NEW m \in 1..Len(queue'), i # m
                 PROVE  queue[i + 1].chunk # queue[m + 1].chunk
      BY <1>4
    <3>1. i + 1 \in 1..Len(queue) /\ m + 1 \in 1..Len(queue) /\ i + 1 # m + 1
      BY <1>4
    <3> QED  BY <1>14, <3>1
  <2>2. ASSUME NEW d \in Callers, pc'[d] = "push" PROVE FALSE
    <3>1. poolMutex' = d
      BY <2>2 DEF IInv, PlacesOK, InsidePlaces, CallerPlaces
    <3> QED  BY <1>1, <1>3, <1>13, <2>2, <3>1
  <2> QED  BY <2>1, <2>2 DEF QueuedOnce
<1> QED  BY <1>18, <1>19 DEF Refines, RInv

\* What ParallelCall allows of the elements of the call in progress.
LEMMA NextElementRefines ==
  ASSUME IInv, IInv', RInv, NEW t \in Threads, NextElement(t) PROVE Refines
<1>1. PICK x : x = exec[t].at + 1
  OBVIOUS
<1>2. RInv' /\ x \in Elements /\ applied[x] = 0
  BY <1>1, NextElementRuns
<1>3. /\ UNCHANGED <<poolMutex, call>> /\ exec[t] # NoJob
      /\ exec' = [exec EXCEPT ![t].at = @ + 1]
      /\ x < JobEnd(call[exec[t].job.caller], exec[t].job.chunk)
      /\ applied' = Applied(x)
  BY <1>1 DEF NextElement, IInv, PlacesOK
<1>4. /\ \A e \in Elements : e # x => applied'[e] = applied[e]
      /\ applied'[x] # 0
  BY <1>2, <1>3, AppliedTo
<1>5. PICK c \in Callers : c = poolMutex
  BY <1>3, RunsInCall
<1>6. x \in Inside /\ Inside' = Inside /\ Inside \subseteq Elements
  <2>1. PICK j \in Nat : j = exec[t].job.chunk /\ j \in 0..JobCount(call[c])-1
    BY <1>3, <1>5, RunsInCall
  <2>2. /\ exec[t].job.caller = c /\ exec[t].at \in Int /\ call[c] \in CallArgs
        /\ InChunk(call[c], j, exec[t].at)
    BY <1>3, <1>5, <2>1, RunsInCall, CallInProgress DEF RInv, RunOnce
  <2>3. x \in Int /\ InChunk(call[c], j, x)
    BY <1>1, <1>3, <2>1, <2>2, JobsGoOn DEF InChunk
  <2>4. call[c].begin <= x /\ x < call[c].end
    BY <2>1, <2>2, <2>3, JobsDivide
  <2> QED  BY <1>2, <1>3, <1>5, <2>4, ThreadsApart DEF Inside
<1>7. x \in Todo /\ Todo' = Todo \ {x}
  BY <1>2, <1>4, <1>6 DEF Todo
<1>8. /\ exec[t] \in Execs /\ exec[t].id \in Nat /\ exec[t].at \in Int
      /\ exec[t].id \in 0..NThreads-1
  <2>1. exec[t].id < NThreads
    BY <1>3, NumbersApart DEF NumbersDiffer
  <2> QED  BY <1>3, <2>1, RunsInCall, PoolAssumption
<1>9. /\ exec'[t] # NoJob /\ exec'[t].id = exec[t].id /\ exec'[t].at = x
      /\ \A s \in Threads : s # t => exec'[s] = exec[s]
  <2>1. exec'[t] = [exec[t] EXCEPT !.at = x] /\ \A s \in Threads : s # t => exec'[s] = exec[s]
    BY <1>1, <1>3 DEF IInv, TypeOK
  <2>2. x \in Int
    BY <1>1, <1>8
  <2>3. exec'[t] \in Execs /\ exec'[t].id = exec[t].id /\ exec'[t].at = x
    BY <1>8, <2>1, <2>2 DEF Execs
  <2> QED  BY <2>1, <2>3, ThreadsApart
<1>10. /\ exec[t].id \in Numbers(exec)
       /\ Active(exec') = [Active(exec) EXCEPT ![exec[t].id] = x]
  <2>1. /\ exec[t].id \in Numbers(exec)
        /\ Active(exec') = [Active(exec) EXCEPT ![exec[t].id] = exec'[t].at]
    <3>1. ApartIn(exec)
      BY InvariantKeepsApart
    <3>2. exec[t] # NoJob /\ exec'[t] # NoJob /\ exec'[t].id = exec[t].id
      BY <1>3, <1>9
    <3>3. \A s \in Threads : s # t => exec'[s] = exec[s]
      BY <1>9
    <3> QED  BY <3>1, <3>2, <3>3, ActiveGoesOn
  <2> QED  BY <1>9, <2>1
<1>11. Active(exec)' = Active(exec')
  BY DEF Active, Numbers
<1>12. AStep
  BY <1>3, <1>7, <1>8, <1>10, <1>11, AbstractSteps
<1> QED  BY <1>2, <1>12 DEF Refines

LEMMA EndJobRefines ==
  ASSUME IInv, IInv', RInv, NEW t \in Threads, EndJob(t) PROVE Refines
<1>1. RInv'
  BY EndJobRuns
<1>2. UNCHANGED <<poolMutex, call, applied>> /\ exec[t] # NoJob
  BY DEF EndJob, IInv, PlacesOK
<1>3. exec'[t] = NoJob /\ \A s \in Threads : s # t => exec'[s] = exec[s]
  BY EndJobGoes DEF IInv
<1>4. exec[t].id \in 0..NThreads-1
  <2>1. exec[t].id < NThreads /\ exec[t].id \in Nat
    BY <1>2, NumbersApart, RunsInCall DEF NumbersDiffer
  <2> QED  BY <2>1, PoolAssumption
<1>5. /\ exec[t].id \in Numbers(exec)
      /\ Active(exec') = [d \in Numbers(exec) \ {exec[t].id} |-> Active(exec)[d]]
  BY <1>2, <1>3, InvariantKeepsApart, ActiveEnds
<1>6. Active(exec)' = Active(exec') /\ Todo' = Todo
  BY <1>2 DEF Active, Numbers, Todo, Inside
<1>7. AStep
  BY <1>2, <1>4, <1>5, <1>6, AbstractSteps
<1> QED  BY <1>1, <1>7 DEF Refines

LEMMA WakeSpuriouslyRefines ==
  ASSUME IInv, IInv', RInv, NEW t \in Threads, WakeSpuriously(t) PROVE Refines
<1>1. UNCHANGED <<queue, job, poolMutex, exec, applied, call, k>>
  BY DEF WakeSpuriously
<1>2. PICK place \in {"lock", "wait"} : Goto(t, place) /\ pc[t] \in {"asleep", "waiting"}
  BY DEF WakeSpuriously
<1>3. /\ pc'[t] = place /\ \A s \in Threads : s # t => pc'[s] = pc[s]
  BY <1>2, GoesTo DEF IInv, Places
<1>4. \A w \in Workers : pc'[w] \in {"exec", "pop"} <=> pc[w] \in {"exec", "pop"}
  BY <1>2, <1>3 DEF Threads
<1>5. \A c \in Callers :
        \/ pc'[c] = pc[c] /\ k'[c] = k[c]
        \/ {pc[c], pc'[c]} \cap {"ids", "push", "submit", "notify"} = {}
  BY <1>1, <1>2, <1>3 DEF Threads
<1> QED  BY <1>1, <1>4, <1>5, QuietStep

LEMMA DtorRefines ==
  ASSUME IInv, IInv', RInv, DtorStart \/ Dtor PROVE Refines
<1>1. CASE DtorStart \/ DtorStop \/ DtorJoin \/ DtorEnd
  <2>1. UNCHANGED <<pc, queue, job, poolMutex, exec, applied, call, k>>
    BY <1>1 DEF DtorStart, DtorStop, DtorJoin, DtorEnd
  <2> QED  BY <2>1, QuietStep
<1>2. CASE DtorNotify
  <2>1. /\ UNCHANGED <<queue, job, poolMutex, exec, applied, call, k>>
        /\ pc' = [pc EXCEPT ![dtor.worker] = IF @ = "asleep" THEN "lock" ELSE @]
        /\ dtor.worker \in Workers
    BY <1>2 DEF DtorNotify, IInv, DtorOK
  <2>2. ASSUME NEW s \in Threads
        PROVE  pc'[s] = pc[s] \/ (pc[s] = "asleep" /\ pc'[s] = "lock")
    BY <2>1 DEF IInv, TypeOK
  <2>3. \A w \in Workers : pc'[w] \in {"exec", "pop"} <=> pc[w] \in {"exec", "pop"}
    BY <2>2 DEF Threads
  <2>4. \A c \in Callers :
          \/ pc'[c] = pc[c] /\ k'[c] = k[c]
          \/ {pc[c], pc'[c]} \cap {"ids", "push", "submit", "notify"} = {}
    BY <2>1, <2>2 DEF Threads
  <2> QED  BY <2>1, <2>3, <2>4, QuietStep
<1> QED  BY <1>1, <1>2 DEF Dtor

LEMMA NextRefines ==
  ASSUME IInv, IInv', RInv, [Next]_vars PROVE Refines
<1>1. ASSUME NEW c \in Callers, Call(c) \/ CallEmpty(c) \/ CallerStep(c)
      PROVE  Refines
  BY <1>1, CallRefines, CallEmptyRefines, LockPoolRefines, SetThreadIdRefines,
     IdsDoneRefines, UnsafePushRefines, PushDoneRefines, SubmitRefines,
     NotifyOccupiedRefines, RunOwnRefines, CallerPopsNothingRefines,
     WaitWorkerRefines, ReturnRefines
  DEF CallerStep
<1>2. ASSUME NEW w \in Workers, WorkerStep(w) PROVE Refines
  BY <1>2, LockRefines, TestOccupiedRefines, SleepRefines, RunJobRefines,
     WorkerReturnsRefines, ClearJobRefines, NotifyFinishedRefines
  DEF WorkerStep
<1>3. ASSUME NEW t \in Threads, RunStep(t) \/ WakeSpuriously(t) PROVE Refines
  BY <1>3, NextElementRefines, EndJobRefines, PopJobRefines,
     WakeSpuriouslyRefines
  DEF RunStep
<1>4. CASE UNCHANGED vars
  BY <1>4, QuietStep DEF vars
<1> QED  BY <1>1, <1>2, <1>3, <1>4, DtorRefines DEF Next

LEMMA InitRefines ==
  ASSUME Init PROVE RInv /\ Abstract!Init
<1>1. /\ queue = <<>> /\ poolMutex = Free
      /\ \A t \in Threads : exec[t] = NoJob
      /\ \A c \in Callers : pc[c] = "idle"
  BY DEF Init, Threads
<1>2. RInv
  BY <1>1, ThreadsApart DEF RInv, QueuedOnce, RunOnce, AppliedOK
<1>3. Todo = {}
  BY <1>1 DEF Todo, Inside
<1>4. Numbers(exec) = {}
  BY <1>1 DEF Numbers
<1>5. Active(exec) = [id \in {} |-> 0]
  BY <1>4 DEF Active
<1> QED  BY <1>1, <1>2, <1>3, <1>5, AbstractSteps

\* The invariant holds in every reachable state of every pool: a chunk is begun
\* once, and func has been applied to what the threads have come to.
THEOREM ChunksRunOnce == Spec => []RInv
<1>1. Init => RInv
  BY InitRefines
<1>2. IInv /\ IInv' /\ RInv /\ [Next]_vars => RInv'
  BY NextRefines DEF Refines
<1> QED  BY <1>1, <1>2, Invariant, PTL DEF Spec

\* The pool implements ParallelCall: func is applied once to every element of a
\* call's range, by threads with different numbers, and the call returns when
\* the last application has ended.
THEOREM PoolImplementsParallelCall == Spec => ImplementsParallelCall
<1>1. Init => Abstract!Init
  BY InitRefines
<1>2. IInv /\ IInv' /\ RInv /\ [Next]_vars => [Abstract!Next]_(Abstract!pvars)
  BY NextRefines, AbstractSteps DEF Refines
<1> QED
  BY <1>1, <1>2, Invariant, ChunksRunOnce, PTL
  DEF Spec, ImplementsParallelCall, Abstract!Spec

=============================================================================
