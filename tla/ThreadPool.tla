----------------------------- MODULE ThreadPool -----------------------------
(***************************************************************************)
(* The thread pool of the prover (rapidsnark/depends/ffiasm/c/misc.hpp):   *)
(* ThreadJobQueue, ThreadWorker and ThreadPool, one action per step        *)
(* between two points where another thread can be seen.  A critical        *)
(* section that only tests or sets the worker's job is one step guarded by *)
(* its mutex; the worker's own section, which it holds while it runs jobs, *)
(* is not.  Condition variables lose a notification nobody waits for, and  *)
(* a waiter may wake without one.                                          *)
(***************************************************************************)
EXTENDS Integers, Sequences, FiniteSets

CONSTANTS
  NThreads,          \* nThreads: the workers and the calling thread
  ChunksPerThread,   \* chunksPerThread
  Callers,           \* threads that call the pool
  NoJob,             \* a std::function that holds nothing
  Free,              \* a mutex nobody holds
  Ranges,            \* <<begin, end>> of the calls of parallelFor
  MaxCalls           \* bound: calls each caller makes

ASSUME PoolAssumption ==
  /\ NThreads \in Nat \ {0}
  /\ ChunksPerThread \in Nat \ {0}
  /\ Callers \cap Int = {}
  /\ Ranges \subseteq Int \X Int
  /\ MaxCalls \in Nat
  /\ NoJob \notin [caller : Callers, chunk : Nat]
  /\ NoJob \notin [job : [caller : Callers, chunk : Nat], at : Int, id : Nat]
  /\ Free \notin Callers \cup Int

Workers == 0..NThreads-2
Threads == Workers \cup Callers

VARIABLES
  pc,          \* where each thread is
  stop,        \* stop of each worker
  job,         \* job of each worker
  threadId,    \* threadId of each worker
  mutex,       \* holder of each worker's mutex
  queue,       \* the pool's job queue
  poolMutex,   \* holder of poolMutex
  call,        \* arguments of each caller's call
  k,           \* loop counter of each caller
  exec,        \* the call of func each thread is in
  calls,       \* number of calls each caller has made
  applied,     \* elements func was applied to in the current call, as a
               \* count of each
  dtor         \* the destructor: how far it is

vars == <<pc, stop, job, threadId, mutex, queue, poolMutex, call, k, exec,
          calls, applied, dtor>>

-----------------------------------------------------------------------------
(* divideWork, as the closed form of its loop.                             *)

MinOf(a, b) == IF a <= b THEN a ELSE b

ChunkCount(n) == MinOf(NThreads * ChunksPerThread, n)

\* Mutation of ChunkBegin: the rest of the division is left out.
ChunkBeginEven(n, i) == i * (n \div ChunkCount(n))

ChunkBegin(n, i) ==
  i * (n \div ChunkCount(n)) + MinOf(i, n % ChunkCount(n))

\* The jobs of a call: chunks of a range, or one job for each thread.
ForCall(begin, end) == [kind |-> "for", begin |-> begin, end |-> end]
BlockCall == [kind |-> "block", begin |-> 0, end |-> NThreads]

CountOf(a) == a.end - a.begin
JobCount(a) ==
  IF a.kind = "for" THEN ChunkCount(CountOf(a)) ELSE NThreads
ThreadCount(a) == MinOf(NThreads, JobCount(a))
JobBegin(a, j) ==
  IF a.kind = "for" THEN a.begin + ChunkBegin(CountOf(a), j) ELSE j
JobEnd(a, j) == JobBegin(a, j + 1)

\* What the caller has bound into the job: its own frame's func, and a chunk.
Job(c, j) == [caller |-> c, chunk |-> j]

\* func entered for a job: at its first element.
Running(b, id) ==
  [job |-> b, at |-> JobBegin(call[b.caller], b.chunk), id |-> id]

Applied(i) == [applied EXCEPT ![i] = @ + 1]
Elements == (UNION {r[1]..r[2]-1 : r \in Ranges}) \cup (0..NThreads-1)

-----------------------------------------------------------------------------
Init ==
  /\ pc = [t \in Threads |-> IF t \in Callers THEN "idle" ELSE "lock"]
  /\ stop = [w \in Workers |-> FALSE]
  /\ job = [w \in Workers |-> NoJob]
  /\ threadId = [w \in Workers |-> 0]
  /\ mutex = [w \in Workers |-> Free]
  /\ queue = <<>>
  /\ poolMutex = Free
  /\ call = [c \in Callers |-> BlockCall]
  /\ k = [c \in Callers |-> 0]
  /\ exec = [t \in Threads |-> NoJob]
  /\ calls = [c \in Callers |-> 0]
  /\ applied = [i \in Elements |-> 0]
  /\ dtor = [at |-> "none", worker |-> 0]

Goto(t, place) == pc' = [pc EXCEPT ![t] = place]
SetK(c, n) == k' = [k EXCEPT ![c] = n]

(* The calling thread.                                                     *)

\* parallelFor of an empty range returns before it touches the pool.
CallEmpty(c) ==
  /\ pc[c] = "idle" /\ calls[c] < MaxCalls /\ dtor.at = "none"
  /\ \E r \in Ranges : r[1] >= r[2]
  /\ calls' = [calls EXCEPT ![c] = @ + 1]
  /\ UNCHANGED <<pc, stop, job, threadId, mutex, queue, poolMutex, call, k,
                 exec, applied, dtor>>

Call(c) ==
  /\ pc[c] = "idle" /\ calls[c] < MaxCalls /\ dtor.at = "none"
  /\ calls' = [calls EXCEPT ![c] = @ + 1]
  /\ \/ \E r \in Ranges :
          /\ r[1] < r[2]
          /\ call' = [call EXCEPT ![c] = ForCall(r[1], r[2])]
     \/ call' = [call EXCEPT ![c] = BlockCall]
  /\ Goto(c, "pool")
  /\ UNCHANGED <<stop, job, threadId, mutex, queue, poolMutex, k, exec,
                 applied, dtor>>

\* Mutation of LockPool: calls are not kept apart.
LockPoolAnyhow(c) ==
  /\ pc[c] = "pool"
  /\ poolMutex' = c
  /\ applied' = [i \in Elements |-> 0]
  /\ SetK(c, 0)
  /\ Goto(c, "ids")
  /\ UNCHANGED <<stop, job, threadId, mutex, queue, call, exec, calls, dtor>>

LockPool(c) ==
  /\ pc[c] = "pool" /\ poolMutex = Free
  /\ poolMutex' = c
  /\ applied' = [i \in Elements |-> 0]
  /\ SetK(c, 0)
  /\ Goto(c, "ids")
  /\ UNCHANGED <<stop, job, threadId, mutex, queue, call, exec, calls, dtor>>

\* setThreadId writes the worker's number without its mutex.
SetThreadId(c) ==
  /\ pc[c] = "ids" /\ k[c] < ThreadCount(call[c]) - 1
  /\ threadId' = [threadId EXCEPT ![k[c]] = k[c]]
  /\ SetK(c, k[c] + 1)
  /\ UNCHANGED <<pc, stop, job, mutex, queue, poolMutex, call, exec, calls,
                 applied, dtor>>

IdsDone(c) ==
  /\ pc[c] = "ids" /\ k[c] >= ThreadCount(call[c]) - 1
  /\ SetK(c, ThreadCount(call[c]))
  /\ Goto(c, "push")
  /\ UNCHANGED <<stop, job, threadId, mutex, queue, poolMutex, call, exec,
                 calls, applied, dtor>>

\* unsafePush does not lock the queue.
UnsafePush(c) ==
  /\ pc[c] = "push" /\ k[c] < JobCount(call[c])
  /\ queue' = Append(queue, Job(c, k[c]))
  /\ SetK(c, k[c] + 1)
  /\ UNCHANGED <<pc, stop, job, threadId, mutex, poolMutex, call, exec, calls,
                 applied, dtor>>

PushDone(c) ==
  /\ pc[c] = "push" /\ k[c] >= JobCount(call[c])
  /\ SetK(c, 0)
  /\ Goto(c, "submit")
  /\ UNCHANGED <<stop, job, threadId, mutex, queue, poolMutex, call, exec,
                 calls, applied, dtor>>

Submit(c) ==
  /\ pc[c] = "submit" /\ k[c] < ThreadCount(call[c]) - 1
  /\ mutex[k[c]] = Free
  /\ job' = [job EXCEPT ![k[c]] = Job(c, k[c])]
  /\ Goto(c, "notify")
  /\ UNCHANGED <<stop, threadId, mutex, queue, poolMutex, call, k, exec,
                 calls, applied, dtor>>

\* Mutation of NotifyOccupied: nobody is notified.
NotifyNobody(c) ==
  /\ pc[c] = "notify"
  /\ SetK(c, k[c] + 1)
  /\ Goto(c, "submit")
  /\ UNCHANGED <<stop, job, threadId, mutex, queue, poolMutex, call, exec,
                 calls, applied, dtor>>

\* occupied.notify_one: the worker competes for its mutex again if it sleeps.
NotifyOccupied(c) ==
  /\ pc[c] = "notify"
  /\ SetK(c, k[c] + 1)
  /\ pc' = [pc EXCEPT ![c] = "submit",
                      ![k[c]] = IF @ = "asleep" THEN "lock" ELSE @]
  /\ UNCHANGED <<stop, job, threadId, mutex, queue, poolMutex, call, exec,
                 calls, applied, dtor>>

\* The caller runs the job no worker was given.
RunOwn(c) ==
  /\ pc[c] = "submit" /\ k[c] >= ThreadCount(call[c]) - 1
  /\ exec' = [exec EXCEPT ![c] =
                Running(Job(c, k[c]), ThreadCount(call[c]) - 1)]
  /\ applied' = Applied(JobBegin(call[c], k[c]))
  /\ Goto(c, "exec")
  /\ UNCHANGED <<stop, job, threadId, mutex, queue, poolMutex, call, k, calls,
                 dtor>>

\* Mutation of WaitWorker: the worker's job is not tested.
WaitWorkerNot(c) ==
  /\ pc[c] = "wait" /\ k[c] < ThreadCount(call[c]) - 1
  /\ mutex[k[c]] = Free
  /\ SetK(c, k[c] + 1)
  /\ UNCHANGED <<pc, stop, job, threadId, mutex, queue, poolMutex, call, exec,
                 calls, applied, dtor>>

\* wait(): the worker's job is tested under its mutex.
WaitWorker(c) ==
  /\ pc[c] = "wait" /\ k[c] < ThreadCount(call[c]) - 1
  /\ mutex[k[c]] = Free
  /\ IF job[k[c]] = NoJob
     THEN SetK(c, k[c] + 1) /\ UNCHANGED pc
     ELSE Goto(c, "waiting") /\ UNCHANGED k
  /\ UNCHANGED <<stop, job, threadId, mutex, queue, poolMutex, call, exec,
                 calls, applied, dtor>>

Return(c) ==
  /\ pc[c] = "wait" /\ k[c] >= ThreadCount(call[c]) - 1
  /\ poolMutex' = Free
  /\ Goto(c, "idle")
  /\ UNCHANGED <<stop, job, threadId, mutex, queue, call, k, exec, calls,
                 applied, dtor>>

-----------------------------------------------------------------------------
(* Running func, in a worker or in the caller.                             *)

NextElement(t) ==
  /\ pc[t] = "exec"
  /\ LET e == exec[t] IN
       /\ e.at + 1 < JobEnd(call[e.job.caller], e.job.chunk)
       /\ exec' = [exec EXCEPT ![t].at = @ + 1]
       /\ applied' = Applied(e.at + 1)
  /\ UNCHANGED <<pc, stop, job, threadId, mutex, queue, poolMutex, call, k,
                 calls, dtor>>

\* parallelBlock's caller does not look at the queue.
EndJob(t) ==
  /\ pc[t] = "exec"
  /\ LET e == exec[t] IN
       e.at + 1 >= JobEnd(call[e.job.caller], e.job.chunk)
  /\ exec' = [exec EXCEPT ![t] = NoJob]
  /\ IF t \in Callers /\ call[t].kind = "block"
     THEN Goto(t, "wait") /\ SetK(t, 0)
     ELSE Goto(t, "pop") /\ UNCHANGED k
  /\ UNCHANGED <<stop, job, threadId, mutex, queue, poolMutex, call, calls,
                 applied, dtor>>

\* Mutation of NumberOf: the caller has the number of the first worker.
NumberOfFirst(t) == IF t \in Callers THEN 0 ELSE threadId[t]

NumberOf(t) ==
  IF t \in Callers THEN ThreadCount(call[t]) - 1 ELSE threadId[t]

\* tryPop, under the queue's mutex, and the call of the job it returns.
PopJob(t) ==
  /\ pc[t] = "pop" /\ queue # <<>>
  /\ queue' = Tail(queue)
  /\ exec' = [exec EXCEPT ![t] = Running(Head(queue), NumberOf(t))]
  /\ applied' = Applied(JobBegin(call[Head(queue).caller], Head(queue).chunk))
  /\ Goto(t, "exec")
  /\ UNCHANGED <<stop, job, threadId, mutex, poolMutex, call, k, calls, dtor>>

\* The queue is empty: the caller goes to wait for the workers.
CallerPopsNothing(c) ==
  /\ pc[c] = "pop" /\ queue = <<>>
  /\ SetK(c, 0)
  /\ Goto(c, "wait")
  /\ UNCHANGED <<stop, job, threadId, mutex, queue, poolMutex, call, exec,
                 calls, applied, dtor>>

-----------------------------------------------------------------------------
(* A worker.                                                               *)

Lock(w) ==
  /\ pc[w] = "lock" /\ mutex[w] = Free
  /\ mutex' = [mutex EXCEPT ![w] = w]
  /\ Goto(w, "test")
  /\ UNCHANGED <<stop, job, threadId, queue, poolMutex, call, k, exec, calls,
                 applied, dtor>>

\* occupied.wait tests job || stop, and goes to sleep in a step of its own.
TestOccupied(w) ==
  /\ pc[w] = "test"
  /\ Goto(w, IF job[w] # NoJob \/ stop[w] THEN "woken" ELSE "sleep")
  /\ UNCHANGED <<stop, job, threadId, mutex, queue, poolMutex, call, k, exec,
                 calls, applied, dtor>>

Sleep(w) ==
  /\ pc[w] = "sleep"
  /\ mutex' = [mutex EXCEPT ![w] = Free]
  /\ Goto(w, "asleep")
  /\ UNCHANGED <<stop, job, threadId, queue, poolMutex, call, k, exec, calls,
                 applied, dtor>>

WakeSpuriously(t) ==
  \/ /\ pc[t] = "asleep" /\ Goto(t, "lock")
     /\ UNCHANGED <<stop, job, threadId, mutex, queue, poolMutex, call, k,
                    exec, calls, applied, dtor>>
  \/ /\ pc[t] = "waiting" /\ Goto(t, "wait")
     /\ UNCHANGED <<stop, job, threadId, mutex, queue, poolMutex, call, k,
                    exec, calls, applied, dtor>>

RunJob(w) ==
  /\ pc[w] = "woken" /\ ~stop[w]
  /\ exec' = [exec EXCEPT ![w] = Running(job[w], threadId[w])]
  /\ applied' = Applied(JobBegin(call[job[w].caller], job[w].chunk))
  /\ Goto(w, "exec")
  /\ UNCHANGED <<stop, job, threadId, mutex, queue, poolMutex, call, k, calls,
                 dtor>>

\* Mutation of WorkerReturns: the loop is not left.
WorkerGoesOn(w) ==
  /\ pc[w] = "woken" /\ stop[w]
  /\ mutex' = [mutex EXCEPT ![w] = Free]
  /\ Goto(w, "lock")
  /\ UNCHANGED <<stop, job, threadId, queue, poolMutex, call, k, exec, calls,
                 applied, dtor>>

WorkerReturns(w) ==
  /\ pc[w] = "woken" /\ stop[w]
  /\ mutex' = [mutex EXCEPT ![w] = Free]
  /\ Goto(w, "ended")
  /\ UNCHANGED <<stop, job, threadId, queue, poolMutex, call, k, exec, calls,
                 applied, dtor>>

\* The queue is empty: the worker's job ends and its mutex is released.
ClearJob(w) ==
  /\ pc[w] = "pop" /\ queue = <<>>
  /\ job' = [job EXCEPT ![w] = NoJob]
  /\ mutex' = [mutex EXCEPT ![w] = Free]
  /\ Goto(w, "finish")
  /\ UNCHANGED <<stop, threadId, queue, poolMutex, call, k, exec, calls,
                 applied, dtor>>

\* finished.notify_one, with the mutex released.
NotifyFinished(w) ==
  /\ pc[w] = "finish"
  /\ pc' = [t \in Threads |->
             IF t = w THEN "lock"
             ELSE IF t \in Callers /\ pc[t] = "waiting" /\ k[t] = w
                  THEN "wait" ELSE pc[t]]
  /\ UNCHANGED <<stop, job, threadId, mutex, queue, poolMutex, call, k, exec,
                 calls, applied, dtor>>

-----------------------------------------------------------------------------
(* The destructor of the pool, which destroys the workers one by one when  *)
(* no thread is inside a call: it sets stop without the worker's mutex.    *)

DtorGoto(place, w) == dtor' = [at |-> place, worker |-> w]

DtorStart ==
  /\ dtor.at = "none" /\ \A c \in Callers : pc[c] = "idle"
  /\ DtorGoto("stop", 0)
  /\ UNCHANGED <<pc, stop, job, threadId, mutex, queue, poolMutex, call, k,
                 exec, calls, applied>>

DtorStop ==
  /\ dtor.at = "stop" /\ dtor.worker \in Workers
  /\ stop' = [stop EXCEPT ![dtor.worker] = TRUE]
  /\ DtorGoto("notify", dtor.worker)
  /\ UNCHANGED <<pc, job, threadId, mutex, queue, poolMutex, call, k, exec,
                 calls, applied>>

DtorNotify ==
  /\ dtor.at = "notify"
  /\ pc' = [pc EXCEPT ![dtor.worker] = IF @ = "asleep" THEN "lock" ELSE @]
  /\ DtorGoto("join", dtor.worker)
  /\ UNCHANGED <<stop, job, threadId, mutex, queue, poolMutex, call, k, exec,
                 calls, applied>>

DtorJoin ==
  /\ dtor.at = "join" /\ pc[dtor.worker] = "ended"
  /\ DtorGoto("stop", dtor.worker + 1)
  /\ UNCHANGED <<pc, stop, job, threadId, mutex, queue, poolMutex, call, k,
                 exec, calls, applied>>

DtorEnd ==
  /\ dtor.at = "stop" /\ dtor.worker \notin Workers
  /\ DtorGoto("destroyed", dtor.worker)
  /\ UNCHANGED <<pc, stop, job, threadId, mutex, queue, poolMutex, call, k,
                 exec, calls, applied>>

Dtor == DtorStop \/ DtorNotify \/ DtorJoin \/ DtorEnd

-----------------------------------------------------------------------------
CallerStep(c) ==
  \/ LockPool(c) \/ SetThreadId(c) \/ IdsDone(c)
  \/ UnsafePush(c) \/ PushDone(c)
  \/ Submit(c) \/ NotifyOccupied(c) \/ RunOwn(c)
  \/ CallerPopsNothing(c) \/ WaitWorker(c) \/ Return(c)

RunStep(t) == NextElement(t) \/ EndJob(t) \/ PopJob(t)

WorkerStep(w) ==
  \/ Lock(w) \/ TestOccupied(w) \/ Sleep(w)
  \/ RunJob(w) \/ WorkerReturns(w) \/ ClearJob(w) \/ NotifyFinished(w)

Next ==
  \/ \E c \in Callers : Call(c) \/ CallEmpty(c) \/ CallerStep(c)
  \/ \E w \in Workers : WorkerStep(w)
  \/ \E t \in Threads : RunStep(t) \/ WakeSpuriously(t)
  \/ DtorStart \/ Dtor

Spec == Init /\ [][Next]_vars

\* Threads are scheduled: a thread that can take its next step does, and one
\* that finds a mutex free again and again gets it.  Nobody is made to call, to
\* destroy the pool or to wake without a notification.
Fairness ==
  /\ \A c \in Callers :
       WF_vars(CallerStep(c)) /\ SF_vars(Submit(c)) /\ SF_vars(WaitWorker(c))
  /\ \A w \in Workers : WF_vars(WorkerStep(w))
  /\ \A t \in Threads : WF_vars(RunStep(t))
  /\ WF_vars(Dtor)

FairSpec == Spec /\ Fairness

-----------------------------------------------------------------------------
(* Properties.                                                             *)

Places == {"idle", "pool", "ids", "push", "submit", "notify", "exec", "pop",
           "wait", "waiting", "lock", "test", "sleep", "asleep", "woken",
           "finish", "ended"}
Calls == [kind : {"for"}, begin : Int, end : Int] \cup {BlockCall}
Jobs == [caller : Callers, chunk : Nat]
Execs == [job : Jobs, at : Int, id : Nat]

\* Every variable keeps its type.
TypeOK ==
  /\ pc \in [Threads -> Places]
  /\ stop \in [Workers -> BOOLEAN]
  /\ job \in [Workers -> Jobs \cup {NoJob}]
  /\ threadId \in [Workers -> Nat]
  /\ mutex \in [Workers -> Workers \cup {Free}]
  /\ queue \in Seq(Jobs)
  /\ poolMutex \in Callers \cup {Free}
  /\ call \in [Callers -> Calls]
  /\ k \in [Callers -> Nat]
  /\ exec \in [Threads -> Execs \cup {NoJob}]
  /\ calls \in [Callers -> Nat]
  /\ applied \in [Elements -> Nat]
  /\ dtor \in [at : {"none", "stop", "notify", "join", "destroyed"},
               worker : Nat]

\* The threads inside func at one time were given different numbers, all below
\* the pool's size: parallelFor numbers the workers and then itself by
\* threadCount - 1, and the prover keeps a row of buckets for each number.
NumbersDiffer ==
  \A s, t \in Threads :
    exec[s] # NoJob /\ exec[t] # NoJob =>
      exec[s].id < NThreads /\ (s # t => exec[s].id # exec[t].id)

\* A job refers to func in the frame of the caller that made it (std::ref):
\* wherever a job is, that caller is inside its call.
JobsInsideCall ==
  LET made == {job[w] : w \in Workers} \cup {queue[i] : i \in 1..Len(queue)}
              \cup {exec[t].job : t \in {s \in Threads : exec[s] # NoJob}}
  IN  \A b \in made \ {NoJob} : b.caller = poolMutex

\* unsafePush takes no lock: while a caller pushes, no other thread is at the
\* queue.  setThreadId takes none either: no worker whose number is being
\* written is running a job.
UnlockedWritesAlone ==
  \A c \in Callers, t \in Threads :
    pc[c] \in {"ids", "push"} => pc[t] \notin {"pop", "exec", "woken"}

\* The pool implements ParallelCall: each call applies func once to every
\* element of its range, whatever thread takes which chunk, and returns when
\* the last application has ended.
Inside ==
  IF poolMutex = Free THEN {}
  ELSE {i \in Elements :
          call[poolMutex].begin <= i /\ i < call[poolMutex].end}

Abstract == INSTANCE ParallelCall WITH
  caller <- poolMutex,
  todo <- {i \in Inside : applied[i] = 0},
  active <- [id \in {exec[t].id : t \in {s \in Threads : exec[s] # NoJob}} |->
               exec[CHOOSE t \in Threads :
                      exec[t] # NoJob /\ exec[t].id = id].at],
  NoCall <- Free,
  Loops <- {r[1]..r[2]-1 : r \in {q \in Ranges : q[1] < q[2]}}
             \cup {0..NThreads-1}

ImplementsParallelCall == Abstract!Spec

\* Every call returns: no notification a caller or a worker waits for is lost
\* between the test of job and the wait, whoever wakes without one.
CallsReturn == \A c \in Callers : (pc[c] = "pool") ~> (pc[c] = "idle")

\* The destructor sets stop without the worker's mutex: a worker that had
\* found it false and not yet begun to wait misses the notification, and
\* join() waits for it.  Nothing else keeps the destructor from ending.
MissedStop == dtor.at = "join" /\ pc[dtor.worker] = "asleep"
DestructorEnds == (dtor.at = "stop") ~> (dtor.at = "destroyed" \/ MissedStop)

=============================================================================
