---------------------------- MODULE RWLockProofs ----------------------------

(***************************************************************************)
(* Proofs about ReaderWriterLock and ReaderWriterLock2 for any finite sets *)
(* of readers and writers and any number of rounds.                        *)
(***************************************************************************)
EXTENDS RWLock, RWLock2, FiniteSetTheorems, TLAPS
-----------------------------------------------------------------------------
(* Why the lock works.  Each mutex is held exactly from its lock to its    *)
(* unlock; mReaderCount counts the readers between their increment and     *)
(* their decrement; the readers as a group hold mResMutex exactly while    *)
(* that count is positive and its first reader is past mResMutex.lock().   *)
Counted == {r \in Readers : pc[r] \in {"res", "uncount", "read", "exit"}}

MutexInv ==
  /\ \A r \in Readers :
       /\ mutex["readerCount"] = r <=> pc[r] \in {"enter", "res", "uncount", "exit", "uncount2"}
       /\ mutex["writerPrior"] = r <=> pc[r] = "ungate"
  /\ \A w \in Writers :
       /\ mutex["writerPrior"] = w <=> pc[w] \in WriterLabels \ {"sleep"}
       /\ mutex["res"] = w <=> w \in WritingNow

CountInv ==
  /\ mReaderCount = Cardinality(Counted)
  /\ mutex["res"] \in Readers <=> \E r \in Counted : pc[r] # "res"
  /\ \A r \in Readers : pc[r] = "res" => Counted = {r}

DataInv == (\A w \in Writers : pc[w] # "write2") => g_res2 = g_res

LabelInv == /\ \A r \in Readers : pc[r] \notin WriterLabels
            /\ \A w \in Writers : pc[w] \notin ReaderLabels

RoundInv == \A t \in Threads :
  pc[t] \in WaiterLabels \union {"start", "gate", "ungate", "count", "enter", "res", "uncount",
                                  "sleep", "resW"} => round[t] < Rounds

(* g_mainWaiter and acquired together count the threads that have passed   *)
(* their release of the current phase; until main signals none of them is  *)
(* past the loop of PosixWaiter::wait.                                     *)
BarrierInv ==
  /\ mainPc \in {"gather", "signal"} =>
       /\ ~mSignaled
       /\ \A t \in Threads : pc[t] \in {"start", "wait", "test", "asleep", "woken"}
       /\ g_mainWaiter + acquired = Cardinality({t \in Threads : pc[t] \in WaiterLabels})
  /\ mainPc = "signal" => acquired = Cardinality(Threads)
  /\ mainPc = "join" =>
       /\ mSignaled
       /\ \A t \in Threads : pc[t] # "start"
       /\ g_mainWaiter + acquired = Cardinality({t \in Threads : pc[t] = "done"})
  /\ mainPc = "printed" => \A t \in Threads : pc[t] = "done"

IInv == TypeOK /\ LabelInv /\ MutexInv /\ CountInv /\ DataInv /\ RoundInv /\ BarrierInv
-----------------------------------------------------------------------------

USE DEF GoTo, Lock, Unlock, EnterRound, Mutexes

(* The counted readers are finitely many, and none are counted at 0.        *)
LEMMA CountedFinite ==
  ASSUME TypeOK
  PROVE  /\ IsFiniteSet(Counted)
         /\ Cardinality(Counted) \in Nat
         /\ Cardinality(Counted) = 0 <=> Counted = {}
BY ThreadsAssumption, FS_Subset, FS_CardinalityType, FS_EmptySet DEF Counted

(* main creates finitely many threads.                                     *)
LEMMA ThreadsFinite ==
  /\ IsFiniteSet(Threads)
  /\ Cardinality(Threads) \in Nat
BY ThreadsAssumption, FS_Union, FS_CardinalityType DEF Threads

(* Before any thread runs, all mutexes are free and nothing is counted.    *)
LEMMA InitIInv == Init => IInv
<1> SUFFICES ASSUME Init PROVE IInv
  OBVIOUS
<1>1. TypeOK
  <2>1. /\ pc \in [Threads -> Labels]
        /\ round \in [Threads -> 0..Rounds]
    BY RoundsAssumption DEF Init, Labels
  <2>2. acquired \in 0..Cardinality(Threads)
    BY ThreadsFinite DEF Init
  <2>3. QED
    BY <2>1, <2>2 DEF Init, TypeOK
<1>2. LabelInv /\ MutexInv /\ DataInv /\ RoundInv
  BY ThreadsAssumption, RoundsAssumption
     DEF Init, LabelInv, MutexInv, DataInv, RoundInv, WritingNow, Threads, ReaderLabels, WriterLabels, WaiterLabels
<1>3. CountInv
  <2>1. Counted = {}
    BY DEF Init, Counted, Threads
  <2>2. QED
    BY <2>1, FS_EmptySet, ThreadsAssumption DEF Init, CountInv, Threads
<1>4. BarrierInv
  <2>1. {t \in Threads : pc[t] \in WaiterLabels} = {}
    BY DEF Init, WaiterLabels
  <2>2. QED
    BY <2>1, FS_EmptySet DEF Init, BarrierInv
<1>5. QED
  BY <1>1, <1>2, <1>3, <1>4 DEF IInv

(* Types are kept by every step: the count never goes below zero, a round   *)
(* never above Rounds.                                                      *)
LEMMA TypeStep ==
  ASSUME IInv, Next PROVE TypeOK'
<1> USE ThreadsAssumption, RoundsAssumption, ThreadsFinite, CountedFinite
    DEF IInv, TypeOK, Labels, ReaderLabels, WriterLabels, WaiterLabels, Threads
<1>1. ASSUME NEW r \in Readers, Reader(r) PROVE TypeOK'
  <2>1. CASE PassGate(r) \/ LeaveGate(r) \/ LockCount(r) \/ LockRes(r)
    BY <2>1 DEF PassGate, LeaveGate, LockCount, LockRes, lockVars, dataVars,
                mainVars, waiterVars
  <2>2. CASE CountIn(r)
    BY <2>2 DEF CountIn, dataVars, mainVars, waiterVars
  <2>3. CASE EnterRead(r)
    BY <2>3 DEF EnterRead, RoundInv, dataVars, mainVars, waiterVars
  <2>4. CASE CountOut(r)
    <3>1. r \in Counted
      BY <2>4 DEF CountOut, Counted
    <3>2. mReaderCount > 0
      BY <3>1 DEF CountInv
    <3>3. QED
      BY <2>4, <3>2 DEF CountOut, dataVars, mainVars, waiterVars
  <2>5. CASE LeaveRead(r)
    BY <2>5 DEF LeaveRead, NextRound, dataVars, mainVars, waiterVars
  <2>6. QED
    BY <1>1, <2>1, <2>2, <2>3, <2>4, <2>5 DEF Reader
<1>2. ASSUME NEW w \in Writers, Writer(w) PROVE TypeOK'
  <2>1. CASE LockPrior(w) \/ UnlockResW(w)
    BY <2>1 DEF LockPrior, UnlockResW, dataVars, mainVars, waiterVars
  <2>2. CASE LockResW(w)
    BY <2>2 DEF LockResW, RoundInv, dataVars, mainVars, waiterVars
  <2>3. CASE DoWrite1(w) \/ DoWrite2(w)
    BY <2>3 DEF DoWrite1, DoWrite2, lockVars, mainVars, waiterVars
  <2>4. CASE UnlockPrior(w)
    BY <2>4 DEF UnlockPrior, NextRound, dataVars, mainVars, waiterVars
  <2>5. QED
    BY <1>2, <2>1, <2>2, <2>3, <2>4 DEF Writer
<1>3. ASSUME NEW t \in Threads, Either(t) \/ WakesUp(t) PROVE TypeOK'
  <2>1. CASE Announce(t)
    BY <2>1 DEF Announce, lockVars, dataVars, waiterVars
  <2>2. CASE LockWaiter(t)
    BY <2>2 DEF LockWaiter, lockVars, dataVars
  <2>3. CASE TestSignaled(t)
    BY <2>3 DEF TestSignaled, lockVars, dataVars
  <2>4. CASE Released(t)
    BY <2>4 DEF Released, lockVars, dataVars
  <2>5. CASE WakesUp(t)
    BY <2>5 DEF WakesUp, lockVars, dataVars
  <2>6. QED
    BY <1>3, <2>1, <2>2, <2>3, <2>4, <2>5 DEF Either
<1>4. CASE Main
  <2>1. CASE MainAcquire
    <3>1. acquired' \in 0..Cardinality(Threads) /\ g_mainWaiter' \in Nat
      BY <2>1, Cardinality(Threads) \in Nat, acquired \in 0..Cardinality(Threads) DEF MainAcquire
    <3>2. QED
      BY <2>1, <3>1 DEF MainAcquire, lockVars, dataVars, waiterVars
  <2>2. CASE MainLock \/ MainPrint
    <3>1. acquired' \in 0..Cardinality(Threads)
      BY <2>2, Cardinality(Threads) \in Nat DEF MainLock, MainPrint
    <3>2. QED
      BY <2>2, <3>1 DEF MainLock, MainPrint, lockVars, dataVars, mainVars, waiterVars
  <2>3. CASE MainSignal
    <3>1. acquired' \in 0..Cardinality(Threads)
      BY <2>3, Cardinality(Threads) \in Nat DEF MainSignal
    <3>2. pc' \in [Threads -> Labels]
      BY <2>3 DEF MainSignal, Broadcast
    <3>3. QED
      BY <2>3, <3>1, <3>2 DEF MainSignal, lockVars, dataVars
  <2>4. QED
    BY <1>4, <2>1, <2>2, <2>3 DEF Main
<1>5. QED
  BY <1>1, <1>2, <1>3, <1>4 DEF Next

(* Mutual exclusion, readers' counting and the shared data, for one step.  *)
LEMMA MutexStep ==
  ASSUME IInv, Next
  PROVE  LabelInv' /\ MutexInv' /\ DataInv' /\ RoundInv'
<1> USE ThreadsAssumption DEF IInv, TypeOK, LabelInv, MutexInv, DataInv, RoundInv,
        WritingNow, ReaderLabels, WriterLabels, WaiterLabels, Threads
<1>1. ASSUME NEW r \in Readers, Reader(r) PROVE LabelInv' /\ MutexInv' /\ DataInv' /\ RoundInv'
  <2>1. CASE PassGate(r)
    BY <2>1 DEF PassGate, dataVars
  <2>2. CASE LeaveGate(r)
    BY <2>2 DEF LeaveGate, dataVars
  <2>3. CASE LockCount(r)
    BY <2>3 DEF LockCount, dataVars
  <2>4. CASE CountIn(r)
    BY <2>4 DEF CountIn, dataVars
  <2>5. CASE LockRes(r)
    BY <2>5 DEF LockRes, dataVars
  <2>6. CASE EnterRead(r)
    BY <2>6 DEF EnterRead, dataVars
  <2>7. CASE CountOut(r)
    <3>1. r \in Counted /\ pc[r] # "res"
      BY <2>7 DEF CountOut, Counted
    <3>2. mutex["res"] \in Readers
      BY <3>1 DEF CountInv
    <3>3. QED
      BY <2>7, <3>2 DEF CountOut, dataVars
  <2>8. CASE LeaveRead(r)
    BY <2>8 DEF LeaveRead, NextRound, dataVars
  <2>9. QED
    BY <1>1, <2>1, <2>2, <2>3, <2>4, <2>5, <2>6, <2>7, <2>8 DEF Reader
<1>2. ASSUME NEW w \in Writers, Writer(w) PROVE LabelInv' /\ MutexInv' /\ DataInv' /\ RoundInv'
  <2>1. CASE LockPrior(w)
    BY <2>1 DEF LockPrior, dataVars
  <2>2. CASE LockResW(w)
    BY <2>2 DEF LockResW, dataVars
  <2>3. CASE DoWrite1(w)
    BY <2>3 DEF DoWrite1, lockVars
  <2>4. CASE DoWrite2(w)
    BY <2>4 DEF DoWrite2, lockVars
  <2>5. CASE UnlockResW(w)
    BY <2>5 DEF UnlockResW, dataVars
  <2>6. CASE UnlockPrior(w)
    BY <2>6 DEF UnlockPrior, NextRound, dataVars
  <2>7. QED
    BY <1>2, <2>1, <2>2, <2>3, <2>4, <2>5, <2>6 DEF Writer
<1>3. ASSUME NEW t \in Threads, Either(t) \/ WakesUp(t)
      PROVE  LabelInv' /\ MutexInv' /\ DataInv' /\ RoundInv'
  <2>1. CASE Announce(t)
    BY <2>1 DEF Announce, lockVars, dataVars
  <2>2. CASE LockWaiter(t)
    BY <2>2 DEF LockWaiter, lockVars, dataVars
  <2>3. CASE TestSignaled(t)
    BY <2>3 DEF TestSignaled, lockVars, dataVars
  <2>4. CASE Released(t)
    BY <2>4 DEF Released, lockVars, dataVars
  <2>5. CASE WakesUp(t)
    BY <2>5 DEF WakesUp, lockVars, dataVars
  <2>6. QED
    BY <1>3, <2>1, <2>2, <2>3, <2>4, <2>5 DEF Either
<1>4. CASE Main
  <2>1. CASE MainSignal
    <3>1. mutex' = mutex /\ round' = round /\ g_res' = g_res /\ g_res2' = g_res2
      BY <2>1 DEF MainSignal, lockVars, dataVars
    <3>2. \A t \in Threads : pc'[t] = pc[t] \/ (pc[t] = "asleep" /\ pc'[t] = "woken")
      BY <2>1 DEF MainSignal, Broadcast
    <3>3. QED
      BY <3>1, <3>2
  <2>2. CASE ~MainSignal
    BY <1>4, <2>2 DEF Main, MainAcquire, MainLock, MainPrint, lockVars, dataVars
  <2>3. QED
    BY <2>1, <2>2
<1>5. QED
  BY <1>1, <1>2, <1>3, <1>4 DEF Next

(* mReaderCount counts, and decides who holds mutex["res"], for one step.      *)
LEMMA CountStep == ASSUME IInv, Next PROVE CountInv'
<1> USE ThreadsAssumption
    DEF IInv, TypeOK, LabelInv, CountInv, MutexInv, ReaderLabels, WriterLabels, WaiterLabels, Threads
<1>0. IsFiniteSet(Counted)
  BY CountedFinite
<1>1. ASSUME NEW r \in Readers, Reader(r) PROVE CountInv'
  <2>1. CASE PassGate(r) \/ LeaveGate(r) \/ LockCount(r) \/ LeaveRead(r)
    <3>1. Counted' = Counted /\ mutex'["res"] = mutex["res"] /\ mReaderCount' = mReaderCount
      BY <2>1 DEF PassGate, LeaveGate, LockCount, LeaveRead, NextRound, Counted
    <3>2. \A q \in Readers : pc'[q] = "res" <=> pc[q] = "res"
      BY <2>1 DEF PassGate, LeaveGate, LockCount, LeaveRead, NextRound
    <3>3. Counted \subseteq Readers
      BY DEF Counted
    <3>4. QED
      BY <3>1, <3>2, <3>3
  <2>2. CASE CountIn(r)
    <3>1. r \notin Counted /\ Counted' = Counted \union {r}
      BY <2>2 DEF CountIn, Counted
    <3>2. mReaderCount' = Cardinality(Counted')
      BY <1>0, <2>2, <3>1, FS_AddElement DEF CountIn
    <3>3. mutex'["res"] = mutex["res"]
      BY <2>2 DEF CountIn
    <3>4. CASE mReaderCount = 0
      <4>1. Counted = {}
        BY <3>4, CountedFinite
      <4>2. pc' = [pc EXCEPT ![r] = "res"]
        BY <2>2, <3>4 DEF CountIn
      <4>3. QED
        BY <3>1, <3>2, <3>3, <4>1, <4>2
    <3>5. CASE mReaderCount # 0
      <4>1. pc' = [pc EXCEPT ![r] = "uncount"] /\ pc[r] = "enter"
        BY <2>2, <3>5 DEF CountIn
      <4>2. Counted # {}
        BY <3>5, CountedFinite
      <4>3. \A q \in Readers : pc[q] # "res"
        BY <4>1
      <4>4. \A q \in Readers : pc'[q] # "res"
        BY <4>1, <4>3
      <4>5. QED
        BY <3>1, <3>2, <3>3, <4>1, <4>2, <4>3, <4>4 DEF Counted
    <3>6. QED
      BY <3>4, <3>5
  <2>3. CASE LockRes(r)
    <3>1. Counted' = Counted /\ r \in Counted
      BY <2>3 DEF LockRes, Counted
    <3>2. QED
      BY <2>3, <3>1 DEF LockRes
  <2>4. CASE EnterRead(r)
    <3>1. Counted' = Counted /\ mutex'["res"] = mutex["res"] /\ mReaderCount' = mReaderCount
      BY <2>4 DEF EnterRead, Counted, lockVars
    <3>2. \A q \in Readers : pc'[q] = "res" <=> pc[q] = "res"
      BY <2>4 DEF EnterRead
    <3>3. Counted \subseteq Readers
      BY DEF Counted
    <3>4. QED
      BY <3>1, <3>2, <3>3
  <2>5. CASE CountOut(r)
    <3>1. r \in Counted /\ Counted' = Counted \ {r}
      BY <2>5 DEF CountOut, Counted
    <3>2. mReaderCount' = Cardinality(Counted')
      BY <1>0, <2>5, <3>1, FS_RemoveElement DEF CountOut
    <3>3. \A q \in Readers : pc[q] # "res" /\ pc'[q] # "res"
      BY <2>5 DEF CountOut
    <3>4. mutex["res"] \in Readers
      BY <3>1, <3>3
    <3>5. IsFiniteSet(Counted')
      BY <1>0, <3>1, FS_RemoveElement
    <3>6. CASE mReaderCount = 1
      <4>1. Counted' = {}
        BY <2>5, <3>2, <3>5, <3>6, FS_EmptySet DEF CountOut
      <4>2. QED
        BY <2>5, <3>2, <3>3, <3>6, <4>1 DEF CountOut
    <3>7. CASE mReaderCount # 1
      <4>1. Counted' # {}
        BY <2>5, <3>2, <3>5, <3>7, FS_EmptySet DEF CountOut
      <4>2. mutex'["res"] = mutex["res"]
        BY <2>5, <3>7 DEF CountOut
      <4>3. Counted' \subseteq Readers
        BY DEF Counted
      <4>4. QED
        BY <3>2, <3>3, <3>4, <4>1, <4>2, <4>3
    <3>8. QED
      BY <3>6, <3>7
  <2>6. QED
    BY <1>1, <2>1, <2>2, <2>3, <2>4, <2>5 DEF Reader
<1>2. ASSUME NEW w \in Writers, Writer(w) PROVE CountInv'
  <2>1. /\ Counted' = Counted
        /\ mReaderCount' = mReaderCount
        /\ \A q \in Readers : pc'[q] = pc[q]
    BY <1>2 DEF Writer, LockPrior, LockResW, DoWrite1, DoWrite2, UnlockResW, UnlockPrior,
         NextRound, Counted, lockVars
  <2>2. Counted \subseteq Readers
    BY DEF Counted
  <2>3. (mutex'["res"] \in Readers) <=> (mutex["res"] \in Readers)
    <3>1. CASE UnlockResW(w)
      BY <3>1 DEF UnlockResW, WritingNow
    <3>2. CASE ~UnlockResW(w)
      BY <1>2, <3>2 DEF Writer, LockPrior, LockResW, DoWrite1, DoWrite2, UnlockPrior, lockVars
    <3>3. QED
      BY <3>1, <3>2
  <2>4. QED
    BY <2>1, <2>2, <2>3
<1>3. ASSUME NEW t \in Threads, Either(t) \/ WakesUp(t) PROVE CountInv'
  <2>1. /\ Counted' = Counted
        /\ mReaderCount' = mReaderCount
        /\ mutex'["res"] = mutex["res"]
        /\ \A q \in Readers : pc'[q] = "res" <=> pc[q] = "res"
    BY <1>3 DEF Either, Announce, LockWaiter, TestSignaled, Released, WakesUp, Counted, lockVars
  <2>2. Counted \subseteq Readers
    BY DEF Counted
  <2>3. QED
    BY <2>1, <2>2
<1>4. CASE Main
  <2>1. UNCHANGED <<mutex, mReaderCount>>
    BY <1>4 DEF Main, MainAcquire, MainLock, MainSignal, MainPrint, lockVars
  <2>2. \A t \in Threads : pc'[t] = pc[t] \/ (pc[t] = "asleep" /\ pc'[t] = "woken")
    BY <1>4 DEF Main, MainAcquire, MainLock, MainSignal, MainPrint, Broadcast
  <2>3. Counted' = Counted
    BY <2>2 DEF Counted
  <2>4. Counted \subseteq Readers /\ \A q \in Readers : pc'[q] = "res" <=> pc[q] = "res"
    BY <2>2 DEF Counted
  <2>5. QED
    BY <2>1, <2>3, <2>4
<1>5. QED
  BY <1>1, <1>2, <1>3, <1>4 DEF Next

(* The releases of g_mainWaiter and main's acquires add up, for one step.   *)
LEMMA BarrierStep == ASSUME IInv, Next PROVE BarrierInv'
<1> USE DEF WaiterLabels
<1> DEFINE Waiting == {t \in Threads : pc[t] \in WaiterLabels}
           Done    == {t \in Threads : pc[t] = "done"}
<1>0. IsFiniteSet(Waiting) /\ IsFiniteSet(Done)
  BY ThreadsFinite, FS_Subset
<1>1. pc \in [Threads -> Labels] /\ g_mainWaiter \in Nat /\ acquired \in 0..Cardinality(Threads)
      /\ mainPc \in {"gather", "signal", "join", "printed"} /\ Cardinality(Threads) \in Nat
  BY ThreadsFinite DEF IInv, TypeOK
<1>2. ASSUME NEW t \in Threads, NEW l \in Labels, pc' = [pc EXCEPT ![t] = l],
             pc[t] \notin WaiterLabels \union {"start", "done"}, l \notin WaiterLabels \union {"start", "done"},
             UNCHANGED <<mainVars>>
      PROVE  BarrierInv'
  <2>1. Waiting' = Waiting /\ Done' = Done
    BY <1>1, <1>2
  <2>2. mainPc = "join"
    BY <1>1, <1>2 DEF IInv, BarrierInv
  <2>3. QED
    BY <1>1, <1>2, <2>1, <2>2 DEF IInv, BarrierInv, mainVars, waiterVars
<1>3. ASSUME NEW r \in Readers, Reader(r) PROVE BarrierInv'
  <2>1. r \in Threads /\ UNCHANGED <<mainVars>>
    BY <1>3 DEF Threads, Reader, PassGate, LeaveGate, LockCount, CountIn, LockRes, EnterRead,
         CountOut, LeaveRead
  <2>2. pc[r] \notin WaiterLabels \union {"start", "done"}
    BY <1>3 DEF Reader, PassGate, LeaveGate, LockCount, CountIn, LockRes, EnterRead,
         CountOut, LeaveRead
  <2>3. \E l \in Labels \ (WaiterLabels \union {"start", "done"}) : pc' = [pc EXCEPT ![r] = l]
    BY <1>3 DEF Reader, PassGate, LeaveGate, LockCount, CountIn, LockRes, EnterRead,
         CountOut, LeaveRead, NextRound, Labels, ReaderLabels, WriterLabels
  <2>4. QED
    BY <1>2, <2>1, <2>2, <2>3
<1>4. ASSUME NEW w \in Writers, Writer(w) PROVE BarrierInv'
  <2>1. w \in Threads /\ UNCHANGED <<mainVars>>
    BY <1>4 DEF Threads, Writer, LockPrior, LockResW, DoWrite1, DoWrite2, UnlockResW, UnlockPrior
  <2>2. pc[w] \notin WaiterLabels \union {"start", "done"}
    BY <1>4 DEF Writer, LockPrior, LockResW, DoWrite1, DoWrite2, UnlockResW, UnlockPrior
  <2>3. \E l \in Labels \ (WaiterLabels \union {"start", "done"}) : pc' = [pc EXCEPT ![w] = l]
    BY <1>4 DEF Writer, LockPrior, LockResW, DoWrite1, DoWrite2, UnlockResW, UnlockPrior,
         NextRound, Labels, ReaderLabels, WriterLabels
  <2>4. QED
    BY <1>2, <2>1, <2>2, <2>3
<1>5. ASSUME NEW t \in Threads, Either(t) \/ WakesUp(t) PROVE BarrierInv'
  <2>1. CASE Announce(t) /\ pc[t] = "start"
    <3>1. t \notin Waiting /\ Waiting' = Waiting \union {t} /\ mainPc \in {"gather", "signal"}
      BY <1>1, <2>1 DEF Announce, IInv, BarrierInv
    <3>2. Cardinality(Waiting') = Cardinality(Waiting) + 1
      BY <1>0, <3>1, FS_AddElement
    <3>3. mainPc # "signal"
      <4>1. Cardinality(Waiting') <= Cardinality(Threads) /\ Cardinality(Waiting) \in Nat
        BY <1>0, ThreadsFinite, FS_Subset, FS_CardinalityType
      <4>2. mainPc = "signal" => Cardinality(Waiting) >= Cardinality(Threads)
        BY <1>1 DEF IInv, BarrierInv
      <4>3. QED
        BY <1>1, <3>2, <4>1, <4>2
    <3>4. mainPc' = mainPc /\ mSignaled' = mSignaled /\ acquired' = acquired
          /\ g_mainWaiter' = g_mainWaiter + 1 /\ pc'[t] = "wait"
          /\ \A u \in Threads : u # t => pc'[u] = pc[u]
      BY <1>1, <2>1 DEF Announce, waiterVars
    <3>5. QED
      BY <1>0, <1>1, <3>1, <3>2, <3>3, <3>4, FS_CardinalityType DEF IInv, BarrierInv
  <2>2. CASE Announce(t) /\ pc[t] = "finish"
    <3>1. t \notin Done /\ Done' = Done \union {t} /\ mainPc = "join"
      BY <1>1, <2>2 DEF Announce, IInv, BarrierInv
    <3>2. Cardinality(Done') = Cardinality(Done) + 1
      BY <1>0, <3>1, FS_AddElement
    <3>3. QED
      BY <1>0, <1>1, <2>2, <3>1, <3>2, FS_CardinalityType DEF Announce, waiterVars, IInv, BarrierInv
  <2>3. CASE Released(t)
    <3>1. mainPc = "join"
      BY <1>1, <2>3 DEF Released, IInv, BarrierInv
    <3>2. Done' = Done
      BY <1>1, <2>3 DEF Released
    <3>3. QED
      BY <1>1, <2>3, <3>1, <3>2 DEF Released, IInv, BarrierInv
  <2>4. CASE LockWaiter(t) \/ TestSignaled(t) \/ WakesUp(t)
    <3>1. UNCHANGED <<g_mainWaiter, mSignaled, mainPc, acquired>>
      BY <2>4 DEF LockWaiter, TestSignaled, WakesUp
    <3>2. /\ pc[t] \in {"wait", "test", "asleep", "woken"} /\ pc'[t] \in {"test", "asleep", "woken", "unwait"}
          /\ pc'[t] = "unwait" => mSignaled
          /\ \A u \in Threads : u # t => pc'[u] = pc[u]
      BY <1>1, <2>4 DEF LockWaiter, TestSignaled, WakesUp
    <3>3. Waiting' = Waiting /\ Done' = Done
      BY <3>2
    <3>4. QED
      BY <1>1, <3>1, <3>2, <3>3 DEF IInv, BarrierInv
  <2>5. QED
    BY <1>5, <2>1, <2>2, <2>3, <2>4 DEF Either, Announce
<1>6. CASE MainAcquire
  <2>1. Waiting' = Waiting /\ Done' = Done
    BY <1>6 DEF MainAcquire
  <2>2. QED
    BY <1>1, <1>6, <2>1 DEF MainAcquire, waiterVars, IInv, BarrierInv
<1>7. CASE MainSignal
  <2>1. Cardinality(Waiting) <= Cardinality(Threads) /\ Cardinality(Waiting) \in Nat
    BY <1>0, ThreadsFinite, FS_Subset, FS_CardinalityType
  <2>2. g_mainWaiter = 0 /\ Cardinality(Waiting) = Cardinality(Threads)
    BY <1>1, <1>7, <2>1 DEF MainSignal, IInv, BarrierInv
  <2>3. Waiting = Threads
    BY <2>2, ThreadsFinite, FS_Subset
  <2>4. \A t \in Threads : pc'[t] \in WaiterLabels
    BY <1>1, <1>7, <2>3 DEF MainSignal, Broadcast
  <2>5. Done' = {} /\ \A t \in Threads : pc'[t] # "start"
    BY <2>4
  <2>6. QED
    BY <1>7, <2>2, <2>5, FS_EmptySet DEF MainSignal, BarrierInv
<1>8. CASE MainPrint
  <2>1. Cardinality(Done) <= Cardinality(Threads) /\ Cardinality(Done) \in Nat
    BY <1>0, ThreadsFinite, FS_Subset, FS_CardinalityType
  <2>2. Cardinality(Done) = Cardinality(Threads)
    BY <1>1, <1>8, <2>1 DEF MainPrint, IInv, BarrierInv
  <2>3. Done = Threads
    BY <2>2, ThreadsFinite, FS_Subset
  <2>4. QED
    BY <1>8, <2>3 DEF MainPrint, BarrierInv
<1>9. CASE MainLock
  <2>1. Waiting' = Waiting
    BY <1>9 DEF MainLock
  <2>2. QED
    BY <1>1, <1>9, <2>1 DEF MainLock, IInv, BarrierInv
<1>10. QED
  BY <1>3, <1>4, <1>5, <1>6, <1>7, <1>8, <1>9 DEF Next, Main

(* A step that changes nothing keeps the invariant.                         *)
LEMMA StutterStep == ASSUME IInv, UNCHANGED vars PROVE IInv'
BY DEF IInv, TypeOK, LabelInv, MutexInv, CountInv, DataInv, RoundInv, BarrierInv, Counted,
       WritingNow, vars, lockVars, dataVars, mainVars, waiterVars

(* The inductive invariant: mutexes are held exactly over the code between *)
(* their lock and unlock, and the counts count.                            *)
THEOREM Inductive == Spec => []IInv
<1>1. IInv /\ [Next]_vars => IInv'
  BY TypeStep, MutexStep, CountStep, BarrierStep, StutterStep DEF IInv
<1>2. QED
  BY <1>1, InitIInv, PTL DEF Spec

(* What the invariant says of the threads inside their critical sections.   *)
LEMMA IInvExclusion == IInv => Exclusion /\ ConsistentRead /\ BarrierSound
<1> SUFFICES ASSUME IInv PROVE Exclusion /\ ConsistentRead /\ BarrierSound
  OBVIOUS
<1>1. Exclusion
  <2>1. \A v, w \in WritingNow : v = w
    BY DEF IInv, MutexInv, WritingNow
  <2>2. ASSUME NEW w \in WritingNow, NEW r \in ReadingNow PROVE FALSE
    <3>1. mutex["res"] = w /\ w \in Writers
      BY DEF IInv, MutexInv, WritingNow
    <3>2. mutex["res"] \in Readers
      BY DEF IInv, CountInv, ReadingNow, Counted
    <3>3. QED
      BY <3>1, <3>2, ThreadsAssumption
  <2>3. QED
    BY <2>1, <2>2 DEF Exclusion
<1>2. ConsistentRead
  BY <1>1 DEF IInv, DataInv, Exclusion, ConsistentRead, ReadingNow, WritingNow
<1>3. BarrierSound
  BY DEF IInv, TypeOK, BarrierInv, BarrierSound, WaiterLabels
<1>4. QED
  BY <1>1, <1>2, <1>3

(* Every variable keeps its type.                                           *)
THEOREM RWLockTypeCorrect == Spec => []TypeOK
BY Inductive, PTL DEF IInv

(* A writer in doWrite excludes every reader and every other writer, for   *)
(* any number of either.                                                   *)
THEOREM RWLockExclusion == Spec => []Exclusion
BY Inductive, IInvExclusion, PTL

(* No reader sees doWrite half done.                                        *)
THEOREM RWLockConsistentRead == Spec => []ConsistentRead
BY Inductive, IInvExclusion, PTL

(* main passes a barrier loop only after every thread's release for it.     *)
THEOREM RWLockBarrier == Spec => []BarrierSound
BY Inductive, IInvExclusion, PTL

(* Each step of the three-mutex protocol is a step of RWSpec on the sets   *)
(* of threads inside, or changes neither set.                              *)
LEMMA Simulation == IInv /\ IInv' /\ Next => [Abstract!Next]_<<ReadingNow, WritingNow>>
<1> SUFFICES ASSUME IInv, IInv', Next PROVE [Abstract!Next]_<<ReadingNow, WritingNow>>
  OBVIOUS
<1> USE ThreadsAssumption DEF IInv, TypeOK, LabelInv, Threads, ReaderLabels, WriterLabels
<1>1. ASSUME NEW r \in Readers, Reader(r) PROVE [Abstract!Next]_<<ReadingNow, WritingNow>>
  <2>0. WritingNow' = WritingNow
    BY <1>1 DEF Reader, PassGate, LeaveGate, LockCount, CountIn, LockRes, EnterRead,
         CountOut, LeaveRead, NextRound, WritingNow
  <2>1. CASE EnterRead(r)
    <3>1. r \in Counted /\ pc[r] # "res"
      BY <2>1 DEF EnterRead, Counted
    <3>2. mutex["res"] \in Readers
      BY <3>1 DEF CountInv
    <3>3. WritingNow = {}
      BY <3>2 DEF MutexInv, WritingNow
    <3>4. r \notin ReadingNow /\ ReadingNow' = ReadingNow \union {r}
      BY <2>1 DEF EnterRead, ReadingNow
    <3>5. QED
      BY <2>0, <3>3, <3>4 DEF Abstract!Next, Abstract!LockRead
  <2>2. CASE CountOut(r)
    <3>1. r \in ReadingNow /\ ReadingNow' = ReadingNow \ {r}
      BY <2>2 DEF CountOut, ReadingNow
    <3>2. QED
      BY <2>0, <3>1 DEF Abstract!Next, Abstract!UnlockRead
  <2>3. CASE ~EnterRead(r) /\ ~CountOut(r)
    <3>1. ReadingNow' = ReadingNow
      BY <1>1, <2>3 DEF Reader, PassGate, LeaveGate, LockCount, CountIn, LockRes,
           LeaveRead, NextRound, ReadingNow
    <3>2. QED
      BY <2>0, <3>1
  <2>4. QED
    BY <2>1, <2>2, <2>3
<1>2. ASSUME NEW w \in Writers, Writer(w) PROVE [Abstract!Next]_<<ReadingNow, WritingNow>>
  <2>0. ReadingNow' = ReadingNow
    BY <1>2 DEF Writer, LockPrior, LockResW, DoWrite1, DoWrite2, UnlockResW, UnlockPrior,
         NextRound, ReadingNow
  <2>1. CASE LockResW(w)
    <3>1. WritingNow = {}
      BY <2>1 DEF LockResW, MutexInv, WritingNow
    <3>2. ReadingNow = {}
      BY <2>1 DEF LockResW, CountInv, ReadingNow, Counted
    <3>3. WritingNow' = {w}
      BY <2>1, <3>1 DEF LockResW, WritingNow
    <3>4. QED
      BY <2>0, <3>1, <3>2, <3>3 DEF Abstract!Next, Abstract!LockWrite
  <2>2. CASE UnlockResW(w)
    <3>1. w \in WritingNow
      BY <2>2 DEF UnlockResW, WritingNow
    <3>2. WritingNow = {w}
      <4>1. \A v \in WritingNow : v \in Writers
        BY DEF WritingNow
      <4>2. QED
        BY <3>1, <4>1 DEF MutexInv
    <3>3. WritingNow' = {}
      BY <2>2, <3>2 DEF UnlockResW, WritingNow
    <3>4. QED
      BY <2>0, <3>1, <3>3 DEF Abstract!Next, Abstract!UnlockWrite
  <2>3. CASE ~LockResW(w) /\ ~UnlockResW(w)
    <3>1. WritingNow' = WritingNow
      BY <1>2, <2>3 DEF Writer, LockPrior, DoWrite1, DoWrite2, UnlockPrior,
           NextRound, WritingNow
    <3>2. QED
      BY <2>0, <3>1
  <2>4. QED
    BY <2>1, <2>2, <2>3
<1>3. ASSUME NEW t \in Threads, Either(t) \/ WakesUp(t)
      PROVE  [Abstract!Next]_<<ReadingNow, WritingNow>>
  BY <1>3 DEF Either, Announce, LockWaiter, TestSignaled, Released, WakesUp, ReadingNow, WritingNow
<1>4. CASE Main
  <2>1. \A t \in Threads : pc'[t] = pc[t] \/ (pc[t] = "asleep" /\ pc'[t] = "woken")
    BY <1>4 DEF Main, MainAcquire, MainLock, MainSignal, MainPrint, Broadcast
  <2>2. QED
    BY <2>1 DEF ReadingNow, WritingNow
<1>5. QED
  BY <1>1, <1>2, <1>3, <1>4 DEF Next

(* ReaderWriterLock implements the abstract readers-writer lock.           *)
THEOREM RWLockImplements == Spec => ImplementsRWSpec
<1>1. Init => Abstract!Init
  BY ThreadsAssumption DEF Init, Abstract!Init, ReadingNow, WritingNow, Threads
<1>2. UNCHANGED vars => UNCHANGED <<ReadingNow, WritingNow>>
  BY DEF vars, ReadingNow, WritingNow
<1>3. IInv /\ IInv' /\ [Next]_vars => [Abstract!Next]_<<ReadingNow, WritingNow>>
  BY <1>2, Simulation
<1>4. QED
  BY <1>1, <1>3, Inductive, PTL DEF Spec, ImplementsRWSpec, Abstract!Spec
-----------------------------------------------------------------------------
(* Nothing is lost.  A sum over the writers would need an induction; the   *)
(* number of pairs <<writer, round>> whose increment is in g_res does not. *)
InHand(w)  == IF pc[w] \in {"write1", "write2"} THEN 1 ELSE 0
Written    == {p \in Writers \X (1..Rounds) : p[2] <= round[p[1]] - InHand(p[1])}

WrittenInv ==
  /\ g_res = Cardinality(Written)
  /\ \A w \in Writers : pc[w] = "write2" => g_res2 = g_res + 1
  /\ \A w \in Writers : pc[w] \in {"write1", "write2"} => round[w] > 0
  /\ \A w \in Writers : pc[w] \in {"finish", "done"} => round[w] = Rounds

(* Finitely many increments are made at all.                               *)
LEMMA WrittenFinite ==
  /\ IsFiniteSet(Writers \X (1..Rounds))
  /\ Cardinality(Writers \X (1..Rounds)) = Cardinality(Writers) * Rounds
  /\ IsFiniteSet(Written)
<1>1. IsFiniteSet(1..Rounds) /\ Cardinality(1..Rounds) = Rounds
  BY RoundsAssumption, FS_Interval
<1>2. /\ IsFiniteSet(Writers \X (1..Rounds))
      /\ Cardinality(Writers \X (1..Rounds)) = Cardinality(Writers) * Rounds
  BY <1>1, ThreadsAssumption, FS_Product
<1>3. Written \in SUBSET (Writers \X (1..Rounds))
  BY DEF Written
<1>4. QED
  BY <1>2, <1>3, FS_Subset

(* A step that moves no writer into, within or out of doWrite.             *)
AlikeWriting(w) == /\ pc'[w] \in {"write1", "write2"} <=> pc[w] \in {"write1", "write2"}
                   /\ pc'[w] = "write2" => pc[w] = "write2"
                   /\ pc'[w] \in {"finish", "done"} => pc[w] \in {"finish", "done"}

(* Such a step, which leaves the data alone, adds no increment.            *)
LEMMA WrittenUnmoved ==
  ASSUME WrittenInv, round' = round, g_res' = g_res, g_res2' = g_res2,
         \A w \in Writers : AlikeWriting(w)
  PROVE  WrittenInv'
<1>1. \A v \in Writers : InHand(v)' = InHand(v)
  BY DEF InHand, AlikeWriting
<1>2. Written' = Written
  BY <1>1 DEF Written
<1>3. QED
  BY <1>2 DEF WrittenInv, AlikeWriting

(* Only DoWrite2 adds an increment, the one its writer has in hand.        *)
LEMMA WrittenStep == ASSUME IInv, WrittenInv, [Next]_vars PROVE WrittenInv'
<1> USE ThreadsAssumption, RoundsAssumption
    DEF IInv, TypeOK, LabelInv, ReaderLabels, WriterLabels, Threads
<1>1. ASSUME NEW w \in Writers, DoWrite2(w) PROVE WrittenInv'
  <2>1. /\ pc[w] = "write2" /\ pc' = [pc EXCEPT ![w] = "unresW"]
        /\ round' = round /\ g_res' = g_res2 /\ g_res2' = g_res2
    BY <1>1 DEF DoWrite2, lockVars
  <2>2. <<w, round[w]>> \notin Written /\ Written' = Written \union {<<w, round[w]>>}
    <3>1. round[w] \in 1..Rounds
      BY <2>1 DEF WrittenInv
    <3>2. \A v \in Writers : v # w => InHand(v)' = InHand(v)
      BY <2>1 DEF InHand
    <3>3. InHand(w) = 1 /\ InHand(w)' = 0
      BY <2>1 DEF InHand
    <3>4. \A p \in Writers \X (1..Rounds) :
             p \in Written' <=> p \in Written \/ p = <<w, round[w]>>
      BY <2>1, <3>1, <3>2, <3>3 DEF Written
    <3>5. QED
      BY <3>1, <3>3, <3>4 DEF Written
  <2>3. g_res' = Cardinality(Written')
    BY <2>1, <2>2, WrittenFinite, FS_AddElement, FS_CardinalityType DEF WrittenInv
  <2>4. \A v \in Writers : pc'[v] # "write2"
    BY <2>1 DEF MutexInv, WritingNow
  <2>5. QED
    BY <2>1, <2>3, <2>4 DEF WrittenInv
<1>2. ASSUME NEW w \in Writers, Writer(w), ~DoWrite2(w) PROVE WrittenInv'
  <2>1. \A v \in Writers : round'[v] - InHand(v)' = round[v] - InHand(v)
    BY <1>2 DEF Writer, LockPrior, LockResW, DoWrite1, UnlockResW, UnlockPrior, NextRound,
                InHand, lockVars
  <2>2. Written' = Written
    BY <2>1 DEF Written
  <2>3. g_res' = g_res
    BY <1>2 DEF Writer, LockPrior, LockResW, DoWrite1, UnlockResW, UnlockPrior, dataVars
  <2>4. \A v \in Writers : pc'[v] = "write2" => g_res2' = g_res' + 1
    <3>1. CASE DoWrite1(w)
      BY <2>3, <3>1 DEF DoWrite1
    <3>2. CASE ~DoWrite1(w)
      BY <1>2, <2>3, <3>2 DEF Writer, LockPrior, LockResW, UnlockResW, UnlockPrior, NextRound,
                              WrittenInv, dataVars
    <3>3. QED
      BY <3>1, <3>2
  <2>5. \A v \in Writers : pc'[v] \in {"write1", "write2"} => round'[v] > 0
    BY <1>2 DEF Writer, LockPrior, LockResW, DoWrite1, UnlockResW, UnlockPrior, NextRound,
                WrittenInv, lockVars
  <2>6. \A v \in Writers : pc'[v] \in {"finish", "done"} => round'[v] = Rounds
    BY <1>2 DEF Writer, LockPrior, LockResW, DoWrite1, UnlockResW, UnlockPrior, NextRound,
                WrittenInv, lockVars
  <2>7. QED
    BY <2>2, <2>3, <2>4, <2>5, <2>6 DEF WrittenInv
<1>3. ASSUME NEW r \in Readers, Reader(r) PROVE WrittenInv'
  <2>1. \A w \in Writers : pc'[w] = pc[w] /\ round'[w] = round[w]
    BY <1>3 DEF Reader, PassGate, LeaveGate, LockCount, CountIn, LockRes, EnterRead, CountOut,
                LeaveRead, NextRound, lockVars
  <2>2. UNCHANGED <<g_res, g_res2>>
    BY <1>3 DEF Reader, PassGate, LeaveGate, LockCount, CountIn, LockRes, EnterRead, CountOut,
                LeaveRead, dataVars
  <2>3. \A w \in Writers : InHand(w)' = InHand(w)
    BY <2>1 DEF InHand
  <2>4. Written' = Written
    BY <2>1, <2>3 DEF Written
  <2>5. QED
    BY <2>1, <2>2, <2>4 DEF WrittenInv
<1>4. ASSUME NEW t \in Threads, Either(t) \/ WakesUp(t) PROVE WrittenInv'
  <2>1. round' = round /\ g_res' = g_res /\ g_res2' = g_res2
    BY <1>4 DEF Either, Announce, LockWaiter, TestSignaled, Released, WakesUp, lockVars, dataVars
  <2>2. \A w \in Writers : AlikeWriting(w)
    BY <1>4 DEF Either, Announce, LockWaiter, TestSignaled, Released, WakesUp, AlikeWriting
  <2>3. QED
    BY <2>1, <2>2, WrittenUnmoved
<1>5. CASE Main \/ UNCHANGED vars
  <2>1. round' = round /\ g_res' = g_res /\ g_res2' = g_res2
    BY <1>5 DEF Main, MainAcquire, MainLock, MainSignal, MainPrint, vars, lockVars, dataVars
  <2>2. \A t \in Threads : pc'[t] = pc[t] \/ (pc[t] = "asleep" /\ pc'[t] = "woken")
    BY <1>5 DEF Main, MainAcquire, MainLock, MainSignal, MainPrint, Broadcast, vars
  <2>3. \A w \in Writers : AlikeWriting(w)
    BY <2>2 DEF AlikeWriting
  <2>4. QED
    BY <2>1, <2>3, WrittenUnmoved
<1>6. QED
  BY <1>1, <1>2, <1>3, <1>4, <1>5 DEF Next

(* No increment of a writer is lost, whatever the numbers of threads and   *)
(* rounds: when main prints, all of them are in g_res, and the destructor  *)
(* of the lock finds no reader.                                            *)
THEOREM RWLockNothingLost == Spec => []NothingLost
<1>1. Init => WrittenInv
  <2> SUFFICES ASSUME Init PROVE WrittenInv
    OBVIOUS
  <2>1. Written = {}
    BY DEF Init, Written, InHand, Threads
  <2>2. QED
    BY <2>1, FS_EmptySet DEF Init, WrittenInv, Threads
<1>2. IInv /\ WrittenInv => NothingLost
  <2> SUFFICES ASSUME IInv, WrittenInv, mainPc = "printed"
               PROVE  /\ g_res = Cardinality(Writers) * Rounds
                      /\ g_res2 = g_res
                      /\ mReaderCount = 0
    BY DEF NothingLost
  <2>1. \A t \in Threads : pc[t] = "done"
    BY DEF IInv, BarrierInv
  <2>2. \A w \in Writers : InHand(w) = 0 /\ round[w] = Rounds
    BY <2>1 DEF InHand, WrittenInv, Threads
  <2>3. Written = Writers \X (1..Rounds)
    BY <2>2, RoundsAssumption DEF Written
  <2>4. g_res = Cardinality(Writers) * Rounds
    BY <2>3, WrittenFinite DEF WrittenInv
  <2>5. g_res2 = g_res
    BY <2>1 DEF IInv, DataInv, Threads
  <2>6. Counted = {}
    BY <2>1 DEF Counted, Threads
  <2>7. QED
    BY <2>4, <2>5, <2>6, FS_EmptySet DEF IInv, CountInv
<1>3. QED
  BY <1>1, <1>2, WrittenStep, Inductive, PTL DEF Spec
-----------------------------------------------------------------------------
(***************************************************************************)
(* ReaderWriterLock2, used by the same readers and writers: it too is a    *)
(* readers-writer lock, and a writer that waits keeps the readers behind   *)
(* their gate.                                                             *)
(***************************************************************************)
Labels2 == {"gate", "gate2", "ungate", "count", "first", "enter", "resW", "inside",
           "uncount", "last", "leave", "done"}

TypeInv2 == /\ pc \in [Threads -> Labels2]
            /\ mutex \in [Mutexes2 -> Threads \union {NoOne}]
            /\ count \in [Kinds -> Int]
            /\ round \in [Threads -> Nat]

LabelInv2 == /\ \A r \in Readers : pc[r] \notin {"resW", "uncount"}
             /\ \A w \in Writers : pc[w] \notin {"gate", "gate2", "ungate"}

(* The mutexes that one thread locks and unlocks.                          *)
OwnerInv2 ==
  /\ \A r \in Readers : mutex["readerExcludeReader"] = r <=> pc[r] \in {"gate2", "ungate"}
  /\ \A r \in Readers : mutex["writerExcludeReader"] = r <=> pc[r] = "ungate"
  /\ \A w \in Writers : mutex["res"] = w <=> pc[w] = "inside"
  /\ \A t \in Threads : mutex[Kind(t)] = t <=> pc[t] \in {"first", "enter", "last", "leave"}

(* The threads of a kind between their increment and their decrement.      *)
Counted2(kind) == {t \in kind : pc[t] \in {"first", "enter", "resW", "inside", "uncount"}}

(* The mutex that a whole kind holds, from its first thread to its last.   *)
Switch2(kind, m) ==
  /\ mutex[m] \in kind <=>
       \E t \in kind : pc[t] \in {"enter", "resW", "inside", "uncount", "last"}
  /\ \A t \in kind : pc[t] = "first" => Counted2(kind) = {t}
  /\ \A t \in kind : pc[t] = "last" => Counted2(kind) = {}

SwitchInv2 == Switch2(Readers, "res") /\ Switch2(Writers, "writerExcludeReader")

CountInv2 == /\ count["reader"] = Cardinality(Counted2(Readers))
             /\ count["writer"] = Cardinality(Counted2(Writers))

IInv2 == TypeInv2 /\ LabelInv2 /\ OwnerInv2 /\ SwitchInv2 /\ CountInv2

USE DEF Mutexes2, Kinds
-----------------------------------------------------------------------------
(* The counted threads are finitely many, and none are counted at 0.       *)
LEMMA CountedFinite2 ==
  ASSUME NEW kind \in {Readers, Writers}
  PROVE  /\ IsFiniteSet(Counted2(kind))
         /\ Cardinality(Counted2(kind)) \in Nat
         /\ Cardinality(Counted2(kind)) = 0 <=> Counted2(kind) = {}
<1>1. Counted2(kind) \in SUBSET kind
  BY DEF Counted2
<1>2. QED
  BY <1>1, ThreadsAssumption, FS_Subset, FS_CardinalityType, FS_EmptySet

(* Before any thread runs, all mutexes are free and nothing is counted.    *)
LEMMA InitIInv2 == Init2 => IInv2
<1> SUFFICES ASSUME Init2 PROVE IInv2
  OBVIOUS
<1> USE ThreadsAssumption DEF Threads
<1>1. TypeInv2 /\ LabelInv2
  BY DEF Init2, TypeInv2, LabelInv2, Labels2, Start
<1>2. OwnerInv2
  BY DEF Init2, OwnerInv2, Start, Kind
<1>3. Counted2(Readers) = {} /\ Counted2(Writers) = {}
  BY DEF Init2, Counted2, Start
<1>4. SwitchInv2
  BY <1>3 DEF Init2, SwitchInv2, Switch2, Start
<1>5. CountInv2
  BY <1>3, FS_EmptySet DEF Init2, CountInv2
<1>6. QED
  BY <1>1, <1>2, <1>4, <1>5 DEF IInv2

(* Types, and who owns a mutex that is not shared by a kind, for one step. *)
LEMMA OwnerStep2 == ASSUME IInv2, Next2 PROVE TypeInv2' /\ LabelInv2' /\ OwnerInv2'
<1> USE ThreadsAssumption DEF IInv2, TypeInv2, LabelInv2, OwnerInv2, Labels2, Kind, Threads
<1>1. ASSUME NEW r \in Readers, Reader2(r) PROVE TypeInv2' /\ LabelInv2' /\ OwnerInv2'
  <2>1. CASE Queue(r)
    BY <2>1 DEF Queue
  <2>2. CASE PassGate2(r)
    BY <2>2 DEF PassGate2
  <2>3. CASE LeaveGate2(r)
    BY <2>3 DEF LeaveGate2
  <2>4. QED
    BY <1>1, <2>1, <2>2, <2>3 DEF Reader2
<1>2. ASSUME NEW w \in Writers, Writer2(w) PROVE TypeInv2' /\ LabelInv2' /\ OwnerInv2'
  <2>1. CASE LockRes2(w)
    BY <2>1 DEF LockRes2
  <2>2. CASE UnlockRes(w)
    BY <2>2 DEF UnlockRes
  <2>3. QED
    BY <1>2, <2>1, <2>2 DEF Writer2
<1>3. ASSUME NEW t \in Threads, Counting(t) PROVE TypeInv2' /\ LabelInv2' /\ OwnerInv2'
  <2>1. CASE CountIn2(t)
    BY <2>1 DEF CountIn2, CountBy
  <2>2. CASE LockFirst(t)
    BY <2>2 DEF LockFirst, Switched
  <2>3. CASE Enter(t)
    BY <2>3 DEF Enter
  <2>4. CASE CountOut2(t)
    BY <2>4 DEF CountOut2, CountBy
  <2>5. CASE UnlockLast(t)
    BY <2>5 DEF UnlockLast, Switched, SwitchInv2, Switch2
  <2>6. CASE Leave(t)
    BY <2>6 DEF Leave, Start
  <2>7. QED
    BY <1>3, <2>1, <2>2, <2>3, <2>4, <2>5, <2>6 DEF Counting
<1>4. QED
  BY <1>1, <1>2, <1>3 DEF Next2, Thread

(* A kind of thread with the names of its count and of the mutex it holds. *)
OfKind2(kind, k, m) == \/ kind = Readers /\ k = "reader" /\ m = "res"
                       \/ kind = Writers /\ k = "writer" /\ m = "writerExcludeReader"

Counts2(kind, k) == count[k] = Cardinality(Counted2(kind))

(* What a step of a thread that is counting does to its own kind.          *)
LEMMA SameKind2 ==
  ASSUME IInv2, NEW kind, NEW k, NEW m, OfKind2(kind, k, m), NEW t \in kind, Counting(t)
  PROVE  Switch2(kind, m)' /\ Counts2(kind, k)'
<1> USE ThreadsAssumption DEF IInv2, TypeInv2, LabelInv2, Threads, Labels2
<1>0. /\ Kind(t) = k /\ Switched(t) = m /\ t \in Threads
      /\ m \in Mutexes2 /\ k \in Mutexes2 /\ k \in Kinds /\ k # m
      /\ kind \in {Readers, Writers}
      /\ kind \subseteq Threads
  BY DEF OfKind2, Kind, Switched
<1>1. Switch2(kind, m) /\ Counts2(kind, k)
  BY DEF OfKind2, SwitchInv2, CountInv2, Counts2
<1>2. IsFiniteSet(Counted2(kind)) /\ Cardinality(Counted2(kind)) \in Nat
      /\ (Cardinality(Counted2(kind)) = 0 <=> Counted2(kind) = {})
  BY <1>0, CountedFinite2
<1>3. \A u \in kind : mutex[k] = u <=> pc[u] \in {"first", "enter", "last", "leave"}
  BY <1>0 DEF OfKind2, OwnerInv2, Kind
<1>4. CASE CountIn2(t)
  <2>1. /\ pc[t] = "count" /\ mutex' = [mutex EXCEPT ![k] = t]
        /\ pc' = [pc EXCEPT ![t] = IF count[k] + 1 = 1 THEN "first" ELSE "enter"]
        /\ count' = [count EXCEPT ![k] = @ + 1]
        /\ \A u \in kind : pc[u] \notin {"first", "enter", "last", "leave"}
    BY <1>0, <1>3, <1>4 DEF CountIn2, CountBy
  <2>2. t \notin Counted2(kind) /\ Counted2(kind)' = Counted2(kind) \union {t}
    BY <1>0, <2>1 DEF Counted2
  <2>3. Counts2(kind, k)'
    <3>1. Cardinality(Counted2(kind) \union {t}) = Cardinality(Counted2(kind)) + 1
      BY <1>2, <2>2, FS_AddElement
    <3>2. QED
      BY <1>0, <1>1, <2>1, <2>2, <3>1 DEF Counts2
  <2>4. CASE count[k] = 0
    <3>1. Counted2(kind) = {} /\ pc' = [pc EXCEPT ![t] = "first"]
      BY <1>0, <1>1, <1>2, <2>1, <2>4 DEF Counts2
    <3>2. QED
      BY <1>0, <1>1, <2>1, <2>2, <2>3, <3>1 DEF Switch2
  <2>5. CASE count[k] # 0
    <3>0. count[k] + 1 # 1
      BY <1>1, <1>2, <2>5 DEF Counts2
    <3>1. pc' = [pc EXCEPT ![t] = "enter"]
      BY <2>1, <3>0
    <3>2. PICK u \in kind : pc[u] \in {"resW", "inside", "uncount"}
      BY <1>1, <1>2, <2>1, <2>5 DEF Counts2, Counted2
    <3>3. u # t /\ mutex[m] \in kind
      BY <1>1, <2>1, <3>2 DEF Switch2
    <3>4. QED
      BY <1>0, <1>1, <2>1, <2>2, <2>3, <3>1, <3>2, <3>3 DEF Switch2
  <2>6. QED
    BY <2>4, <2>5
<1>5. CASE LockFirst(t) \/ Enter(t)
  <2>1. Counted2(kind)' = Counted2(kind) /\ count' = count
    BY <1>0, <1>5 DEF LockFirst, Enter, Counted2, OfKind2
  <2>2. CASE LockFirst(t)
    BY <1>0, <1>1, <2>1, <2>2 DEF LockFirst, Switch2, Counts2
  <2>3. CASE Enter(t)
    <3>1. pc' = [pc EXCEPT ![t] = IF t \in Readers THEN "inside" ELSE "resW"] /\ pc[t] = "enter"
      BY <2>3 DEF Enter
    <3>2. mutex'[m] = mutex[m]
      BY <1>0, <2>3 DEF Enter
    <3>3. QED
      BY <1>0, <1>1, <2>1, <3>1, <3>2 DEF Switch2, Counts2
  <2>4. QED
    BY <1>5, <2>2, <2>3
<1>6. CASE CountOut2(t)
  <2>1. /\ pc[t] \in {"inside", "uncount"} /\ mutex' = [mutex EXCEPT ![k] = t]
        /\ pc' = [pc EXCEPT ![t] = IF count[k] - 1 = 0 THEN "last" ELSE "leave"]
        /\ count' = [count EXCEPT ![k] = @ - 1]
        /\ \A u \in kind : pc[u] \notin {"first", "enter", "last", "leave"}
    BY <1>0, <1>3, <1>6 DEF CountOut2, CountBy
  <2>2. t \in Counted2(kind) /\ Counted2(kind)' = Counted2(kind) \ {t}
    BY <1>0, <2>1 DEF Counted2
  <2>3. Counts2(kind, k)' /\ IsFiniteSet(Counted2(kind)')
    BY <1>0, <1>1, <1>2, <2>1, <2>2, FS_RemoveElement DEF Counts2
  <2>4. mutex'[m] = mutex[m] /\ mutex[m] \in kind
    BY <1>0, <1>1, <2>1 DEF Switch2
  <2>5. CASE count[k] - 1 = 0
    <3>1. Counted2(kind)' = {}
      BY <1>0, <2>1, <2>3, <2>5, FS_EmptySet DEF Counts2
    <3>2. QED
      BY <1>0, <2>1, <2>3, <2>4, <2>5, <3>1 DEF Switch2
  <2>6. CASE count[k] - 1 # 0
    <3>1. PICK u \in kind : u # t /\ u \in Counted2(kind)
      BY <1>0, <2>1, <2>2, <2>3, <2>6, FS_EmptySet DEF Counts2, Counted2
    <3>2. pc'[u] \in {"resW", "inside", "uncount"}
      BY <1>0, <2>1, <3>1 DEF Counted2
    <3>3. QED
      BY <1>0, <2>1, <2>3, <2>4, <2>6, <3>2 DEF Switch2
  <2>7. QED
    BY <2>5, <2>6
<1>7. CASE UnlockLast(t)
  <2>1. /\ pc[t] = "last" /\ pc' = [pc EXCEPT ![t] = "leave"]
        /\ mutex' = [mutex EXCEPT ![m] = NoOne] /\ count' = count
    BY <1>0, <1>7 DEF UnlockLast
  <2>2. Counted2(kind)' = Counted2(kind) /\ Counted2(kind) = {}
    BY <1>0, <1>1, <2>1 DEF Counted2, Switch2
  <2>3. \A u \in kind : u # t => pc[u] # "last"
    BY <1>0, <1>3, <2>1
  <2>4. \A u \in kind : pc'[u] \notin {"first", "enter", "resW", "inside", "uncount", "last"}
    BY <1>0, <2>1, <2>2, <2>3 DEF Counted2
  <2>5. QED
    BY <1>0, <1>1, <2>1, <2>2, <2>4 DEF Switch2, Counts2
<1>8. CASE Leave(t)
  <2>1. /\ pc[t] = "leave" /\ mutex'[m] = mutex[m] /\ count' = count
        /\ pc'[t] \in {"gate", "count", "done"}
        /\ \A u \in kind : u # t => pc'[u] = pc[u]
    BY <1>0, <1>8 DEF Leave, Start
  <2>2. Counted2(kind)' = Counted2(kind)
    BY <1>0, <2>1 DEF Counted2
  <2>3. QED
    BY <1>0, <1>1, <2>1, <2>2 DEF Switch2, Counts2
<1>9. QED
  BY <1>4, <1>5, <1>6, <1>7, <1>8 DEF Counting

(* The threads of a kind are counted and hold their mutex as before when   *)
(* a thread of the other kind moves, or they only pass a gate or a mutex.  *)
LEMMA KindUnmoved2 ==
  ASSUME NEW kind, NEW k, NEW m, Switch2(kind, m), Counts2(kind, k),
         mutex'[m] \in kind <=> mutex[m] \in kind, count'[k] = count[k],
         \A t \in kind : \/ pc'[t] = pc[t]
                         \/ {pc[t], pc'[t]} \subseteq {"gate", "gate2", "ungate", "count"}
                         \/ {pc[t], pc'[t]} \subseteq {"resW", "inside", "uncount"}
  PROVE  Switch2(kind, m)' /\ Counts2(kind, k)'
<1>1. \A t \in kind : \A l \in {"first", "enter", "last"} : pc'[t] = l <=> pc[t] = l
  OBVIOUS
<1>2. \A t \in kind : pc'[t] \in {"resW", "inside", "uncount"}
                        <=> pc[t] \in {"resW", "inside", "uncount"}
  OBVIOUS
<1>3. Counted2(kind)' = Counted2(kind)
  BY <1>1, <1>2 DEF Counted2
<1>4. QED
  BY <1>1, <1>2, <1>3 DEF Switch2, Counts2

(* Both counts and both mutexes that go with them, for one step.           *)
LEMMA SwitchStep2 == ASSUME IInv2, Next2 PROVE SwitchInv2' /\ CountInv2'
<1> USE ThreadsAssumption DEF IInv2, TypeInv2, LabelInv2, Threads, Labels2
<1>0. /\ Switch2(Readers, "res") /\ Counts2(Readers, "reader")
      /\ Switch2(Writers, "writerExcludeReader") /\ Counts2(Writers, "writer")
  BY DEF SwitchInv2, CountInv2, Counts2
<1>1. SUFFICES /\ Switch2(Readers, "res")' /\ Counts2(Readers, "reader")'
               /\ Switch2(Writers, "writerExcludeReader")' /\ Counts2(Writers, "writer")'
  BY DEF SwitchInv2, CountInv2, Counts2
<1>2. ASSUME NEW r \in Readers, Reader2(r)
      PROVE  /\ Switch2(Readers, "res")' /\ Counts2(Readers, "reader")'
             /\ Switch2(Writers, "writerExcludeReader")' /\ Counts2(Writers, "writer")'
  <2>1. /\ count' = count /\ mutex'["res"] = mutex["res"]
        /\ {pc[r], pc'[r]} \subseteq {"gate", "gate2", "ungate", "count"}
        /\ \A t \in Threads : t # r => pc'[t] = pc[t]
    BY <1>2 DEF Reader2, Queue, PassGate2, LeaveGate2
  <2>2. mutex'["writerExcludeReader"] \in Writers <=> mutex["writerExcludeReader"] \in Writers
    BY <1>2 DEF Reader2, Queue, PassGate2, LeaveGate2, OwnerInv2
  <2>3. Switch2(Readers, "res")' /\ Counts2(Readers, "reader")'
    BY <1>0, <2>1, KindUnmoved2
  <2>4. Switch2(Writers, "writerExcludeReader")' /\ Counts2(Writers, "writer")'
    BY <1>0, <2>1, <2>2, KindUnmoved2
  <2>5. QED
    BY <2>3, <2>4
<1>3. ASSUME NEW w \in Writers, Writer2(w)
      PROVE  /\ Switch2(Readers, "res")' /\ Counts2(Readers, "reader")'
             /\ Switch2(Writers, "writerExcludeReader")' /\ Counts2(Writers, "writer")'
  <2>1. /\ count' = count /\ mutex'["writerExcludeReader"] = mutex["writerExcludeReader"]
        /\ {pc[w], pc'[w]} \subseteq {"resW", "inside", "uncount"}
        /\ \A t \in Threads : t # w => pc'[t] = pc[t]
    BY <1>3 DEF Writer2, LockRes2, UnlockRes
  <2>2. mutex'["res"] \in Readers <=> mutex["res"] \in Readers
    BY <1>3 DEF Writer2, LockRes2, UnlockRes, OwnerInv2
  <2>3. Switch2(Readers, "res")' /\ Counts2(Readers, "reader")'
    BY <1>0, <2>1, <2>2, KindUnmoved2
  <2>4. Switch2(Writers, "writerExcludeReader")' /\ Counts2(Writers, "writer")'
    BY <1>0, <2>1, KindUnmoved2
  <2>5. QED
    BY <2>3, <2>4
<1>4. ASSUME NEW t \in Readers, Counting(t)
      PROVE  /\ Switch2(Readers, "res")' /\ Counts2(Readers, "reader")'
             /\ Switch2(Writers, "writerExcludeReader")' /\ Counts2(Writers, "writer")'
  <2>1. Switch2(Readers, "res")' /\ Counts2(Readers, "reader")'
    BY <1>4, SameKind2 DEF OfKind2
  <2>2. /\ count'["writer"] = count["writer"]
        /\ mutex'["writerExcludeReader"] = mutex["writerExcludeReader"]
        /\ \A w \in Writers : pc'[w] = pc[w]
    BY <1>4 DEF Counting, CountIn2, LockFirst, Enter, CountOut2, UnlockLast, Leave, CountBy,
                Kind, Switched
  <2>3. QED
    BY <1>0, <2>1, <2>2, KindUnmoved2
<1>5. ASSUME NEW t \in Writers, Counting(t)
      PROVE  /\ Switch2(Readers, "res")' /\ Counts2(Readers, "reader")'
             /\ Switch2(Writers, "writerExcludeReader")' /\ Counts2(Writers, "writer")'
  <2>1. Switch2(Writers, "writerExcludeReader")' /\ Counts2(Writers, "writer")'
    BY <1>5, SameKind2 DEF OfKind2
  <2>2. /\ count'["reader"] = count["reader"]
        /\ mutex'["res"] = mutex["res"]
        /\ \A r \in Readers : pc'[r] = pc[r]
    BY <1>5 DEF Counting, CountIn2, LockFirst, Enter, CountOut2, UnlockLast, Leave, CountBy,
                Kind, Switched
  <2>3. QED
    BY <1>0, <2>1, <2>2, KindUnmoved2
<1>6. QED
  BY <1>2, <1>3, <1>4, <1>5 DEF Next2, Thread

(* The inductive invariant: a kind holds its mutex as long as one of its   *)
(* threads is counted, and its count says whether one is.                  *)
THEOREM Inductive2 == Spec2 => []IInv2
<1>1. IInv2 /\ UNCHANGED vars2 => IInv2'
  BY DEF IInv2, TypeInv2, LabelInv2, OwnerInv2, SwitchInv2, Switch2, CountInv2, Counted2, vars2
<1>2. IInv2 /\ [Next2]_vars2 => IInv2'
  BY <1>1, OwnerStep2, SwitchStep2 DEF IInv2
<1>3. QED
  BY <1>2, InitIInv2, PTL DEF Spec2
-----------------------------------------------------------------------------
(* Each step of the five-mutex protocol is a step of RWSpec on the sets of *)
(* threads inside, or changes neither set.                                 *)
LEMMA Simulation2 ==
  IInv2 /\ Next2 => [RW!Next]_<<Inside(Readers), Inside(Writers)>>
<1> SUFFICES ASSUME IInv2, Next2 PROVE [RW!Next]_<<Inside(Readers), Inside(Writers)>>
  OBVIOUS
<1> USE ThreadsAssumption DEF IInv2, TypeInv2, LabelInv2, Threads
<1>1. ASSUME NEW t \in Readers, Enter(t) PROVE RW!LockRead(t)
  <2>1. mutex["res"] \in Readers
    BY <1>1 DEF Enter, SwitchInv2, Switch2
  <2>2. Inside(Writers) = {}
    BY <2>1 DEF OwnerInv2, Inside
  <2>3. /\ t \notin Inside(Readers) /\ Inside(Readers)' = Inside(Readers) \union {t}
        /\ Inside(Writers)' = Inside(Writers)
    BY <1>1 DEF Enter, Inside
  <2>4. QED
    BY <2>2, <2>3 DEF RW!LockRead
<1>2. ASSUME NEW t \in Readers, CountOut2(t) PROVE RW!UnlockRead(t)
  <2>1. /\ t \in Inside(Readers) /\ Inside(Readers)' = Inside(Readers) \ {t}
        /\ Inside(Writers)' = Inside(Writers)
    BY <1>2 DEF CountOut2, Inside
  <2>2. QED
    BY <2>1 DEF RW!UnlockRead
<1>3. ASSUME NEW w \in Writers, LockRes2(w) PROVE RW!LockWrite(w)
  <2>1. Inside(Writers) = {}
    BY <1>3 DEF LockRes2, OwnerInv2, Inside
  <2>2. Inside(Readers) = {}
    BY <1>3 DEF LockRes2, SwitchInv2, Switch2, Inside
  <2>3. Inside(Writers)' = {w} /\ Inside(Readers)' = Inside(Readers)
    BY <1>3, <2>1 DEF LockRes2, Inside
  <2>4. QED
    BY <2>1, <2>2, <2>3 DEF RW!LockWrite
<1>4. ASSUME NEW w \in Writers, UnlockRes(w) PROVE RW!UnlockWrite(w)
  <2>1. w \in Inside(Writers)
    BY <1>4 DEF UnlockRes, Inside
  <2>2. \A v \in Writers : v \in Inside(Writers) => v = w
    BY <2>1 DEF OwnerInv2, Inside
  <2>3. Inside(Writers)' = {} /\ Inside(Readers)' = Inside(Readers)
    BY <1>4, <2>2 DEF UnlockRes, Inside
  <2>4. QED
    BY <2>1, <2>3 DEF RW!UnlockWrite
<1>5. ASSUME NEW t \in Threads, Thread(t),
             ~(t \in Readers /\ (Enter(t) \/ CountOut2(t))),
             ~(t \in Writers /\ (LockRes2(t) \/ UnlockRes(t)))
      PROVE  UNCHANGED <<Inside(Readers), Inside(Writers)>>
  <2>1. pc[t] # "inside" /\ pc'[t] # "inside" /\ \A u \in Threads : u # t => pc'[u] = pc[u]
    BY <1>5 DEF Thread, Reader2, Writer2, Counting, Queue, PassGate2, LeaveGate2, CountIn2, LockFirst,
                Enter, CountOut2, UnlockLast, Leave, Start
  <2>2. QED
    BY <2>1 DEF Inside
<1>6. QED
  BY <1>1, <1>2, <1>3, <1>4, <1>5 DEF Next2, Thread, RW!Next

(* ReaderWriterLock2 implements the abstract readers-writer lock.          *)
THEOREM RWLock2Implements == Spec2 => ImplementsRWSpec2
<1>1. Init2 => RW!Init
  BY DEF Init2, RW!Init, Inside, Start, Threads
<1>2. UNCHANGED vars2 => UNCHANGED <<Inside(Readers), Inside(Writers)>>
  BY DEF vars2, Inside
<1>3. IInv2 /\ [Next2]_vars2 => [RW!Next]_<<Inside(Readers), Inside(Writers)>>
  BY <1>2, Simulation2
<1>4. QED
  BY <1>1, <1>3, Inductive2, PTL DEF Spec2, ImplementsRWSpec2, RW!Spec

(* The gate stays closed for as long as one writer waits for mResMutex or  *)
(* holds it, however many writers come and go.                             *)
THEOREM RWLock2WriterPriority == Spec2 => WriterPriority
<1> DEFINE Waits == (\E w \in Writers : pc[w] \in {"resW", "inside"}) =>
                      \A r \in Readers : pc[r] = "gate2" => pc'[r] = "gate2"
<1>1. ASSUME IInv2, Next2 PROVE Waits
  <2> SUFFICES ASSUME NEW w \in Writers, pc[w] \in {"resW", "inside"},
                      NEW r \in Readers, pc[r] = "gate2"
               PROVE  pc'[r] = "gate2"
    OBVIOUS
  <2> USE ThreadsAssumption DEF IInv2, TypeInv2, Threads
  <2>1. mutex["writerExcludeReader"] \in Writers
    BY <1>1 DEF SwitchInv2, Switch2
  <2>2. ~PassGate2(r)
    BY <1>1, <2>1 DEF PassGate2
  <2>3. QED
    BY <1>1, <2>2 DEF Next2, Thread, Reader2, Writer2, Counting, Queue, PassGate2, LeaveGate2, LockRes2,
                      UnlockRes, CountIn2, LockFirst, Enter, CountOut2, UnlockLast, Leave
<1>2. IInv2 /\ [Next2]_vars2 => [Waits]_vars2
  BY <1>1
<1>3. QED
  BY <1>2, Inductive2, PTL DEF Spec2, WriterPriority
=============================================================================
