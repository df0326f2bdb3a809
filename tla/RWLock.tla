------------------------------- MODULE RWLock -------------------------------
(***************************************************************************)
(* ReaderWriterLock of C++/ReaderWriterLock/main.cpp and the program that  *)
(* exercises it: READER_COUNT readers and WRITER_COUNT writers, a start    *)
(* barrier, a bounded number of critical sections each, and a main thread  *)
(* that waits for all of them.  One action per operation on a mutex, a     *)
(* semaphore or the condition variable; the statements between two of them *)
(* run in the same step.  Of what runs with a lock held and touches no     *)
(* other: doWrite is one of its 100 iterations, in two steps, doRead one   *)
(* of its ten, and g_gMutex, over one release at a thread's end, has none. *)
(***************************************************************************)
EXTENDS RWThreads

CONSTANT MaxWakeups    \* bound on wakeups without a signal

VARIABLES
  mReaderCount,
  g_res, g_res2,       \* the shared data
  g_mainWaiter,        \* value of the semaphore main waits on
  mMutex, mSignaled,   \* of g_threadsWaiter: it is locked, it was signalled
  wakeups,             \* wakeups without a signal so far
  mainPc, acquired     \* main's phase, and how often it has acquired in it

lockVars == <<mutex, mReaderCount, round>>
dataVars == <<g_res, g_res2>>
waiterVars == <<mMutex, mSignaled, wakeups>>
mainVars == <<g_mainWaiter, waiterVars, mainPc, acquired>>
vars == <<pc, lockVars, dataVars, mainVars>>

(* mReaderCountMutex, mWriterPriorMutex and mResMutex.                     *)
Mutexes == {"readerCount", "writerPrior", "res"}
ReaderLabels == {"gate", "ungate", "count", "enter", "res", "uncount", "read",
                 "exit", "uncount2"}
WriterLabels == {"sleep", "resW", "write1", "write2", "unresW", "ungateW"}
WaiterLabels == {"wait", "test", "asleep", "woken", "unwait"}
Labels == ReaderLabels \union WriterLabels \union WaiterLabels \union {"start", "finish", "done"}

Init ==
  /\ pc = [t \in Threads |-> "start"]
  /\ mutex = [m \in Mutexes |-> NoOne]
  /\ mReaderCount = 0
  /\ round = [t \in Threads |-> 0]
  /\ g_res = 0 /\ g_res2 = 0
  /\ g_mainWaiter = 0 /\ mMutex = FALSE /\ mSignaled = FALSE /\ wakeups = 0
  /\ mainPc = "gather" /\ acquired = 0

(* A thread that leaves its critical section loops or leaves the for loop. *)
NextRound(t, loop) == IF round[t] < Rounds THEN loop ELSE "finish"
-----------------------------------------------------------------------------
(* lockRead.  (MutexGuard<PosixMutex>(mWriterPriorMutex)) is a temporary:  *)
(* the mutex is released before the next statement.                        *)

PassGate(r) == /\ GoTo(r, "gate", "ungate")
               /\ Lock("writerPrior", r)
               /\ UNCHANGED <<mReaderCount, round, dataVars, mainVars>>

LeaveGate(r) == /\ GoTo(r, "ungate", "count")
                /\ Unlock("writerPrior")
                /\ UNCHANGED <<mReaderCount, round, dataVars, mainVars>>

(* In lockRead; or in unlockRead, after doRead.                            *)
LockCount(r) == /\ GoTo(r, "count", "enter") \/ GoTo(r, "read", "exit")
                /\ Lock("readerCount", r)
                /\ UNCHANGED <<mReaderCount, round, dataVars, mainVars>>

(* Mutant: if (mReaderCount++ == 1) mResMutex.lock();                      *)
CountInPostIncrement(r) ==
  /\ GoTo(r, "enter", IF mReaderCount = 1 THEN "res" ELSE "uncount")
  /\ mReaderCount' = mReaderCount + 1
  /\ UNCHANGED <<mutex, round, dataVars, mainVars>>

(* if (++mReaderCount == 1) mResMutex.lock();                              *)
CountIn(r) == /\ GoTo(r, "enter", IF mReaderCount = 0 THEN "res" ELSE "uncount")
              /\ mReaderCount' = mReaderCount + 1
              /\ UNCHANGED <<mutex, round, dataVars, mainVars>>

LockRes(r) == /\ GoTo(r, "res", "uncount")
              /\ Lock("res", r)
              /\ UNCHANGED <<mReaderCount, round, dataVars, mainVars>>

EnterRead(r) == /\ GoTo(r, "uncount", "read")
                /\ Unlock("readerCount")
                /\ EnterRound(r)
                /\ UNCHANGED <<mReaderCount, dataVars, mainVars>>

(* unlockRead.  The last reader out need not be the reader that locked     *)
(* mResMutex.                                                              *)

CountOut(r) == /\ GoTo(r, "exit", "uncount2")
               /\ mReaderCount' = mReaderCount - 1
               /\ IF mReaderCount = 1 THEN Unlock("res") ELSE UNCHANGED mutex
               /\ UNCHANGED <<round, dataVars, mainVars>>

(* Mutant: an early return that leaves mReaderCountMutex locked.           *)
LeaveReadLocked(r) == /\ GoTo(r, "uncount2", NextRound(r, "gate"))
                      /\ UNCHANGED <<lockVars, dataVars, mainVars>>

LeaveRead(r) == /\ GoTo(r, "uncount2", NextRound(r, "gate"))
                /\ Unlock("readerCount")
                /\ UNCHANGED <<mReaderCount, round, dataVars, mainVars>>
-----------------------------------------------------------------------------
(* lockWrite, doWrite, unlockWrite                                         *)

LockPrior(w) == /\ GoTo(w, "sleep", "resW")
                /\ Lock("writerPrior", w)
                /\ UNCHANGED <<mReaderCount, round, dataVars, mainVars>>

LockResW(w) == /\ GoTo(w, "resW", "write1")
               /\ Lock("res", w)
               /\ EnterRound(w)
               /\ UNCHANGED <<mReaderCount, dataVars, mainVars>>

(* One iteration of doWrite: g_res2 first, then g_res.                     *)
DoWrite1(w) == /\ GoTo(w, "write1", "write2")
               /\ g_res2' = g_res + 1
               /\ UNCHANGED <<lockVars, g_res, mainVars>>

DoWrite2(w) == /\ GoTo(w, "write2", "unresW")
               /\ g_res' = g_res2
               /\ UNCHANGED <<lockVars, g_res2, mainVars>>

UnlockResW(w) == /\ GoTo(w, "unresW", "ungateW")
                 /\ Unlock("res")
                 /\ UNCHANGED <<mReaderCount, round, dataVars, mainVars>>

UnlockPrior(w) == /\ GoTo(w, "ungateW", NextRound(w, "sleep"))
                  /\ Unlock("writerPrior")
                  /\ UNCHANGED <<mReaderCount, round, dataVars, mainVars>>
-----------------------------------------------------------------------------
(* The barrier and main.  Each thread releases g_mainWaiter twice: when it *)
(* has started, and when it has finished (under g_gMutex, whose critical   *)
(* section has no other effect of interest).                               *)

Announce(t) == /\ GoTo(t, "start", "wait") \/ GoTo(t, "finish", "done")
               /\ g_mainWaiter' = g_mainWaiter + 1
               /\ UNCHANGED <<lockVars, dataVars, waiterVars, mainPc, acquired>>

(* Mutant: if (!mSignaled) pthread_cond_wait(...), without a loop.         *)
LockWaiterNoLoop(t) ==
  /\ GoTo(t, "wait", "test") \/ GoTo(t, "woken", "unwait")
  /\ ~mMutex /\ mMutex' = TRUE
  /\ UNCHANGED <<lockVars, dataVars, g_mainWaiter, mSignaled, wakeups, mainPc, acquired>>

(* PosixWaiter::wait: its mutex, when it begins and when pthread_cond_wait *)
(* has been woken; ...                                                     *)
LockWaiter(t) == /\ GoTo(t, "wait", "test") \/ GoTo(t, "woken", "test")
                 /\ ~mMutex /\ mMutex' = TRUE
                 /\ UNCHANGED <<lockVars, dataVars, g_mainWaiter, mSignaled, wakeups, mainPc, acquired>>

(* ... the test of the loop, and the sleep, which releases the mutex; ...  *)
TestSignaled(t) == /\ GoTo(t, "test", IF mSignaled THEN "unwait" ELSE "asleep")
                   /\ mMutex' = mSignaled
                   /\ UNCHANGED <<lockVars, dataVars, g_mainWaiter, mSignaled, wakeups, mainPc, acquired>>

(* ... the guard's end.                                                    *)
Released(t) == /\ GoTo(t, "unwait", IF t \in Readers THEN "gate" ELSE "sleep")
               /\ mMutex' = FALSE
               /\ UNCHANGED <<lockVars, dataVars, g_mainWaiter, mSignaled, wakeups, mainPc, acquired>>

(* pthread_cond_wait may return without a signal.                          *)
WakesUp(t) == /\ wakeups < MaxWakeups /\ wakeups' = wakeups + 1
              /\ GoTo(t, "asleep", "woken")
              /\ UNCHANGED <<lockVars, dataVars, g_mainWaiter, mMutex, mSignaled, mainPc, acquired>>

(* Both loops of main acquire the same semaphore once per thread.          *)
MainAcquire == /\ mainPc \in {"gather", "join"}
               /\ acquired < Cardinality(Threads)
               /\ g_mainWaiter > 0
               /\ g_mainWaiter' = g_mainWaiter - 1
               /\ acquired' = acquired + 1
               /\ UNCHANGED <<pc, lockVars, dataVars, waiterVars, mainPc>>

(* PosixWaiter::signal: its mutex; the flag, the broadcast and the guard's *)
(* end.                                                                    *)
MainLock == /\ mainPc = "gather"
            /\ acquired = Cardinality(Threads)
            /\ ~mMutex /\ mMutex' = TRUE /\ mainPc' = "signal"
            /\ UNCHANGED <<pc, lockVars, dataVars, g_mainWaiter, mSignaled, wakeups, acquired>>

Broadcast == pc' = [t \in Threads |-> IF pc[t] = "asleep" THEN "woken" ELSE pc[t]]

(* Mutant: main's second loop goes on with the first loop's counter.       *)
MainSignalNoReset == /\ mainPc = "signal" /\ mainPc' = "join"
                     /\ mSignaled' = TRUE /\ Broadcast /\ mMutex' = FALSE
                     /\ UNCHANGED <<lockVars, dataVars, g_mainWaiter, wakeups, acquired>>

MainSignal == /\ mainPc = "signal" /\ mainPc' = "join" /\ acquired' = 0
              /\ mSignaled' = TRUE /\ Broadcast /\ mMutex' = FALSE
              /\ UNCHANGED <<lockVars, dataVars, g_mainWaiter, wakeups>>

MainPrint == /\ mainPc = "join"
             /\ acquired = Cardinality(Threads)
             /\ mainPc' = "printed"
             /\ UNCHANGED <<pc, lockVars, dataVars, g_mainWaiter, waiterVars, acquired>>

Reader(r) == \/ PassGate(r) \/ LeaveGate(r) \/ LockCount(r) \/ CountIn(r)
             \/ LockRes(r) \/ EnterRead(r) \/ CountOut(r) \/ LeaveRead(r)
Writer(w) == \/ LockPrior(w) \/ LockResW(w) \/ DoWrite1(w) \/ DoWrite2(w)
             \/ UnlockResW(w) \/ UnlockPrior(w)
Either(t) == Announce(t) \/ LockWaiter(t) \/ TestSignaled(t) \/ Released(t)
Main      == MainAcquire \/ MainLock \/ MainSignal \/ MainPrint

Next == \/ \E r \in Readers : Reader(r)
        \/ \E w \in Writers : Writer(w)
        \/ \E t \in Threads : Either(t) \/ WakesUp(t)
        \/ Main

(* The scheduler runs every runnable thread; nothing says that a mutex is  *)
(* handed out in order, so fairness is weak and per thread.                *)
Fairness == /\ \A r \in Readers : WF_vars(Reader(r))
            /\ \A w \in Writers : WF_vars(Writer(w))
            /\ \A t \in Threads : WF_vars(Either(t))
            /\ WF_vars(Main)

Spec     == Init /\ [][Next]_vars
FairSpec == Spec /\ Fairness
-----------------------------------------------------------------------------
(* Every variable stays in its type; in particular the count of readers    *)
(* does not go below zero and no thread exceeds its rounds.                *)
TypeOK ==
  /\ pc \in [Threads -> Labels]
  /\ mutex \in [Mutexes -> Threads \union {NoOne}]
  /\ mReaderCount \in Nat
  /\ round \in [Threads -> 0..Rounds]
  /\ g_res \in Nat /\ g_res2 \in Nat
  /\ g_mainWaiter \in Nat /\ mMutex \in BOOLEAN /\ mSignaled \in BOOLEAN /\ wakeups \in Nat
  /\ mainPc \in {"gather", "signal", "join", "printed"}
  /\ acquired \in 0..Cardinality(Threads)

(* The threads between lockRead's return and unlockRead's effect, and      *)
(* between lockWrite's and unlockWrite's.                                  *)
ReadingNow == {r \in Readers : pc[r] \in {"read", "exit"}}
WritingNow == {w \in Writers : pc[w] \in {"write1", "write2", "unresW"}}

(* A writer in doWrite shares the data with nobody: the promise of         *)
(* lockRead/lockWrite.                                                     *)
Exclusion == /\ \A v, w \in WritingNow : v = w
             /\ WritingNow # {} => ReadingNow = {}

(* doRead prints g_res2 - g_res; a reader never sees doWrite half done.    *)
ConsistentRead == \A r \in Readers : pc[r] = "read" => g_res2 = g_res

(* When main prints, every increment of every writer is in g_res and the   *)
(* destructor's assert(mReaderCount == 0) holds.                           *)
NothingLost == mainPc = "printed" => /\ g_res = Cardinality(Writers) * Rounds
                                     /\ g_res2 = g_res
                                     /\ mReaderCount = 0

(* g_mainWaiter is used for the start and for the end: main is never let   *)
(* through the second loop by a thread's first release; and no thread      *)
(* comes through PosixWaiter::wait before all have started, whenever it is *)
(* woken.                                                                  *)
BarrierSound == /\ \A s, t \in Threads : pc[s] \notin WaiterLabels \union {"start"} => pc[t] # "start"
                /\ mainPc = "printed" => \A t \in Threads : pc[t] = "done"

Abstract == INSTANCE RWSpec WITH reading <- ReadingNow, writing <- WritingNow

(* Every step of the mutex-based lock is a step of the abstract lock, or   *)
(* leaves the set of holders alone.                                        *)
ImplementsRWSpec == Abstract!Spec

(* Everything ends: no lost wakeup at the barrier, no deadlock between the *)
(* three mutexes, and, the loops being finite, no starvation for ever.     *)
Terminates == <>(mainPc = "printed")
=============================================================================
