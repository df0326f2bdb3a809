----------------------------- MODULE ThreadPool -----------------------------
(***************************************************************************)
(* ThreadPool of C++/ThreadPool/main.cpp: a queue of tasks under           *)
(* mThisLocker, the semaphore mTaskCount that counts them, worker threads  *)
(* that wait for it for a second at a time, result objects that are joined,*)
(* and a destructor that helps to empty the queue before it tells the      *)
(* workers to leave.  The client is the main thread: it posts tasks alone  *)
(* or in batches, joins results and destroys the pool, in any order.       *)
(* The section under mThisLocker is one step; each semaphore operation,    *)
(* each atomic and each look at mPoolExit is one of its own.               *)
(***************************************************************************)
EXTENDS Naturals, Sequences, FiniteSets

CONSTANTS Threads,    \* the pool's workers
          Main,       \* the client's thread
          Sizes,      \* the batch sizes apply is called with
          MaxTasks,   \* bound on the tasks ever posted
          MaxBatches  \* bound on the results ever created

ASSUME PoolAssumption ==
  /\ IsFiniteSet(Threads) /\ Main \notin Threads
  /\ Sizes \subseteq Nat \ {0}   \* MultiTaskResult asserts taskCount > 0
  /\ MaxTasks \in Nat /\ MaxBatches \in Nat

VARIABLES
  pc,
  f,            \* the task a thread has popped, 0 for none
  mTaskQueue, mTaskCount, mPoolExit,
  batchOf,      \* the result captured by each task pushed so far, 0 for none
  inner,        \* the tasks that were posted by a task
  left,         \* MultiTaskResult::mTaskCount of each result
  mAllComplete, \* its condition variable, a semaphore
  toPush,       \* tasks postmulti has still to push
  joining,      \* the result main is joining
  joined,       \* the results that were joined
  done          \* the tasks that have run

taskVars   == <<batchOf, inner>>
queueVars  == <<mTaskQueue, mTaskCount, taskVars>>
resultVars == <<left, mAllComplete, joining, joined>>
vars == <<pc, f, queueVars, mPoolExit, resultVars, toPush, done>>

Callers == Threads \union {Main}
Init == /\ pc = [p \in Callers |-> IF p = Main THEN "idle" ELSE "check"]
        /\ f = [p \in Callers |-> 0]
        /\ mTaskQueue = <<>> /\ mTaskCount = 0 /\ mPoolExit = FALSE
        /\ batchOf = <<>> /\ inner = {} /\ left = <<>> /\ mAllComplete = <<>>
        /\ toPush = 0 /\ joining = 0 /\ joined = {} /\ done = {}

GoTo(p, from, to) == pc[p] = from /\ pc' = [pc EXCEPT ![p] = to]

(* Where the loops of threadRoutine and of the destructor begin again.     *)
Again(p) == IF p = Main THEN "hasTask" ELSE "check"
-----------------------------------------------------------------------------
(* pushTask: the queue under the lock, then, after it, the semaphore.      *)

PushTask(b) == /\ batchOf' = Append(batchOf, b)
               /\ mTaskQueue' = Append(mTaskQueue, Len(batchOf) + 1)

(* The caller of pushTask goes on: with its batch, or to its next call.    *)
Release(p) == /\ \/ GoTo(p, "release", IF toPush > 0 THEN "push" ELSE "idle")
                 \/ GoTo(p, "releaseIn", "run")
              /\ mTaskCount' = mTaskCount + 1
              /\ UNCHANGED <<f, mTaskQueue, taskVars, mPoolExit, resultVars, toPush, done>>

(* The bound on the tasks ever posted.                                     *)
Room(n) == Len(batchOf) + toPush + n <= MaxTasks

Post == /\ GoTo(Main, "idle", "release")
        /\ Room(1)
        /\ PushTask(0)
        /\ UNCHANGED <<f, mTaskCount, inner, mPoolExit, resultVars, toPush, done>>

(* apply and postmulti: a result that counts n tasks, then n pushes.       *)
PostMulti(n) == /\ GoTo(Main, "idle", "push")
                /\ Len(left) < MaxBatches /\ Room(n)
                /\ left' = Append(left, n)
                /\ mAllComplete' = Append(mAllComplete, 0)
                /\ toPush' = n
                /\ UNCHANGED <<f, queueVars, mPoolExit, joining, joined, done>>

PostNext == /\ GoTo(Main, "push", "release")
            /\ PushTask(Len(left))
            /\ toPush' = toPush - 1
            /\ UNCHANGED <<f, mTaskCount, inner, mPoolExit, resultVars, done>>

(* A running task that calls post.                                         *)
PostInTask(p) == /\ Room(1)
                 /\ GoTo(p, "run", "releaseIn")
                 /\ PushTask(0)
                 /\ inner' = inner \union {Len(batchOf) + 1}
                 /\ UNCHANGED <<f, mTaskCount, mPoolExit, resultVars, toPush, done>>

(* join, once per result as in main: mAllComplete is signalled once.       *)
Join(b) == /\ GoTo(Main, "idle", "join")
           /\ b \notin joined
           /\ joining' = b
           /\ UNCHANGED <<f, queueVars, mPoolExit, left, mAllComplete, joined, toPush, done>>

JoinWait == /\ GoTo(Main, "join", "idle")
            /\ mAllComplete[joining] > 0
            /\ mAllComplete' = [mAllComplete EXCEPT ![joining] = @ - 1]
            /\ joined' = joined \union {joining} /\ joining' = 0
            /\ UNCHANGED <<f, queueVars, mPoolExit, left, toPush, done>>
-----------------------------------------------------------------------------
(* popTask, called by a worker and by the destructor.                      *)

TryAcquire(p) == /\ GoTo(p, "tryAcquire", "pop")
                 /\ mTaskCount > 0
                 /\ mTaskCount' = mTaskCount - 1
                 /\ UNCHANGED <<f, mTaskQueue, taskVars, mPoolExit, resultVars, toPush, done>>

(* Mutant: popTask does not look at what tryAcquire returned.              *)
TimesOutUnseen(p) == /\ GoTo(p, "tryAcquire", "pop")
                     /\ mTaskCount = 0
                     /\ UNCHANGED <<f, queueVars, mPoolExit, resultVars, toPush, done>>

(* Nothing came for a second (a worker); nothing is there (the destructor).*)
TimesOut(p) == /\ GoTo(p, "tryAcquire", Again(p))
               /\ mTaskCount = 0
               /\ UNCHANGED <<f, queueVars, mPoolExit, resultVars, toPush, done>>

(* Mutant: front() without pop().                                          *)
PopFrontOnly(p) == /\ GoTo(p, "pop", "run")
                   /\ mTaskQueue # <<>>
                   /\ f' = [f EXCEPT ![p] = Head(mTaskQueue)]
                   /\ UNCHANGED <<queueVars, mPoolExit, resultVars, toPush, done>>

(* front() of an empty queue is undefined: see NoEmptyPop.                 *)
Pop(p) == /\ GoTo(p, "pop", "run")
          /\ mTaskQueue # <<>>
          /\ f' = [f EXCEPT ![p] = Head(mTaskQueue)]
          /\ mTaskQueue' = Tail(mTaskQueue)
          /\ UNCHANGED <<mTaskCount, taskVars, mPoolExit, resultVars, toPush, done>>

(* safeCall: the task returns or its exception is swallowed.  A task of a  *)
(* batch goes on to onTaskComplete, a task posted alone is over.           *)
Finish(p) == /\ GoTo(p, "run", IF batchOf[f[p]] = 0 THEN Again(p) ELSE "complete")
             /\ done' = done \union {f[p]}
             /\ f' = IF batchOf[f[p]] = 0 THEN [f EXCEPT ![p] = 0] ELSE f
             /\ UNCHANGED <<queueVars, mPoolExit, resultVars, toPush>>

(* Mutant: the new value is compared.                                      *)
CompleteNever(p) ==
  LET b == batchOf[f[p]] IN
  /\ GoTo(p, "complete", IF left[b] = 0 THEN "notify" ELSE Again(p))
  /\ left' = [left EXCEPT ![b] = @ - 1]
  /\ f' = IF left[b] = 0 THEN f ELSE [f EXCEPT ![p] = 0]
  /\ UNCHANGED <<queueVars, mPoolExit, mAllComplete, joining, joined, toPush, done>>

(* onTaskComplete: the old value is compared with one.                     *)
Complete(p) ==
  LET b == batchOf[f[p]] IN
  /\ GoTo(p, "complete", IF left[b] = 1 THEN "notify" ELSE Again(p))
  /\ left' = [left EXCEPT ![b] = @ - 1]
  /\ f' = IF left[b] = 1 THEN f ELSE [f EXCEPT ![p] = 0]
  /\ UNCHANGED <<queueVars, mPoolExit, mAllComplete, joining, joined, toPush, done>>

Notify(p) == /\ GoTo(p, "notify", Again(p))
             /\ mAllComplete' = [mAllComplete EXCEPT ![batchOf[f[p]]] = @ + 1]
             /\ f' = [f EXCEPT ![p] = 0]
             /\ UNCHANGED <<queueVars, mPoolExit, left, joining, joined, toPush, done>>
-----------------------------------------------------------------------------
(* threadRoutine's loop condition                                          *)
Check(t) == /\ GoTo(t, "check", IF mPoolExit THEN "exited" ELSE "tryAcquire")
            /\ UNCHANGED <<f, queueVars, mPoolExit, resultVars, toPush, done>>

(* ~ThreadPool                                                             *)
Destroy == /\ GoTo(Main, "idle", "hasTask")
           /\ UNCHANGED <<f, queueVars, mPoolExit, resultVars, toPush, done>>

(* Mutant: the destructor does not empty the queue.                        *)
HasTaskIgnored == /\ GoTo(Main, "hasTask", "exit")
                  /\ UNCHANGED <<f, queueVars, mPoolExit, resultVars, toPush, done>>

HasTask == /\ GoTo(Main, "hasTask", IF mTaskQueue # <<>> THEN "tryAcquire" ELSE "exit")
           /\ UNCHANGED <<f, queueVars, mPoolExit, resultVars, toPush, done>>

(* Mutant: the workers are not told.                                       *)
ExitUntold == /\ GoTo(Main, "exit", "joinThreads")
              /\ UNCHANGED <<f, queueVars, mPoolExit, resultVars, toPush, done>>

Exit == /\ GoTo(Main, "exit", "joinThreads")
        /\ mPoolExit' = TRUE
        /\ UNCHANGED <<f, queueVars, resultVars, toPush, done>>

JoinThreads == /\ GoTo(Main, "joinThreads", "returned")
               /\ \A t \in Threads : pc[t] = "exited"
               /\ UNCHANGED <<f, queueVars, mPoolExit, resultVars, toPush, done>>
-----------------------------------------------------------------------------
Task(p) == PostInTask(p) \/ Finish(p) \/ Complete(p) \/ Notify(p)
Step(p) == Release(p) \/ TryAcquire(p) \/ TimesOut(p) \/ Pop(p) \/ Task(p)
Worker(t) == Check(t) \/ Step(t)
Call == Post \/ Destroy \/ (\E n \in Sizes : PostMulti(n))
             \/ (\E b \in DOMAIN left : Join(b))
Inside == PostNext \/ JoinWait \/ HasTask \/ Exit \/ JoinThreads \/ Step(Main)

Next == Call \/ Inside \/ \E t \in Threads : Worker(t)

Spec == Init /\ [][Next]_vars

(* Threads that can run do, and tasks end; which call the client makes,    *)
(* and whether it makes one, is its own affair.                            *)
FairSpec == Spec /\ WF_vars(Inside) /\ \A t \in Threads : WF_vars(Worker(t))
-----------------------------------------------------------------------------
(* A thread that got past mTaskCount finds a task in the queue, however    *)
(* many others are between the semaphore and the lock: front() is defined. *)
Popping == {p \in Callers : pc[p] = "pop"}
NoEmptyPop == Cardinality(Popping) + mTaskCount <= Len(mTaskQueue)

Running == {f[p] : p \in {q \in Callers : pc[q] \in {"run", "releaseIn"}}}

(* Each task is started once and in order; a join returns after the last   *)
(* task of its result; nothing runs once the destructor has returned.      *)
Pool == INSTANCE PoolSpec WITH waiting <- mTaskQueue, running <- Running,
                               closed <- pc[Main] = "returned"
ImplementsPool == Pool!Spec

(* The destructor runs what is still in the queue, or sees to it that a    *)
(* worker does, for every task that the client posted.  (A task running on *)
(* a worker may post when the queue has been found empty; that task is     *)
(* lost with the queue.)                                                   *)
DrainedAtExit == pc[Main] = "returned" => DOMAIN batchOf \ inner \subseteq done

(* A client that joins a result is not left waiting.                       *)
JoinReturns == pc[Main] = "join" ~> pc[Main] = "idle"

(* The destructor ends although its loop spins while a worker that holds   *)
(* the last permit has not taken its task.                                 *)
DestructorReturns == pc[Main] = "hasTask" ~> pc[Main] = "returned"
=============================================================================
