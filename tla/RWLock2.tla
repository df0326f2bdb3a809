------------------------------ MODULE RWLock2 -------------------------------
(***************************************************************************)
(* ReaderWriterLock2 of C++/ReaderWriterLock/main.cpp, used by readers and *)
(* writers that loop as in main with TYPE RW2.  Readers switch mResMutex   *)
(* on and off by counting themselves; writers switch the readers' gate,    *)
(* mWriterExcludeReaderMutex, in the same way and then take mResMutex one  *)
(* after the other.  One action per mutex operation, the counting in the   *)
(* step that takes the mutex over it.  A name that RWLock has too ends in  *)
(* 2, as that of the class does.                                           *)
(***************************************************************************)
EXTENDS RWThreads

VARIABLE count  \* mReaderCount and mWriterCount

vars2 == <<pc, mutex, count, round>>

Kinds == {"reader", "writer"}

(* "reader" and "writer" stand for mReaderCountMutex, mWriterCountMutex.   *)
Mutexes2 == {"readerExcludeReader", "writerExcludeReader", "res"} \union Kinds

Kind(t) == IF t \in Readers THEN "reader" ELSE "writer"

(* What the first thread of a kind takes, and the last gives back.         *)
Switched(t) == IF t \in Readers THEN "res" ELSE "writerExcludeReader"

Start(t) == IF t \in Readers THEN "gate" ELSE "count"

Init2 == /\ pc = [t \in Threads |-> Start(t)]
         /\ mutex = [m \in Mutexes2 |-> NoOne]
         /\ count = [k \in Kinds |-> 0]
         /\ round = [t \in Threads |-> 0]

CountBy(t, n) == count' = [count EXCEPT ![Kind(t)] = @ + n]
-----------------------------------------------------------------------------
(* lockRead queues the readers before the gate: one at a time waits for    *)
(* mWriterExcludeReaderMutex, a temporary guard that is released at once.  *)

Queue(r) == /\ GoTo(r, "gate", "gate2")
            /\ Lock("readerExcludeReader", r)
            /\ UNCHANGED <<count, round>>

PassGate2(r) == /\ GoTo(r, "gate2", "ungate")
                /\ Lock("writerExcludeReader", r)
                /\ UNCHANGED <<count, round>>

LeaveGate2(r) == /\ GoTo(r, "ungate", "count")
                 /\ mutex' = [mutex EXCEPT !["writerExcludeReader"] = NoOne,
                                           !["readerExcludeReader"] = NoOne]
                 /\ UNCHANGED <<count, round>>
-----------------------------------------------------------------------------
(* The counting that lockRead and lockWrite share.                         *)

(* Mutant: the count is taken before it is incremented.                    *)
CountInPostIncrement2(t) ==
  /\ GoTo(t, "count", IF count[Kind(t)] = 1 THEN "first" ELSE "enter")
  /\ Lock(Kind(t), t) /\ CountBy(t, 1)
  /\ EnterRound(t)

CountIn2(t) ==
  /\ GoTo(t, "count", IF count[Kind(t)] + 1 = 1 THEN "first" ELSE "enter")
  /\ Lock(Kind(t), t) /\ CountBy(t, 1)
  /\ EnterRound(t)

LockFirst(t) == /\ GoTo(t, "first", "enter")
                /\ Lock(Switched(t), t)
                /\ UNCHANGED <<count, round>>

Enter(t) == /\ GoTo(t, "enter", IF t \in Readers THEN "inside" ELSE "resW")
            /\ Unlock(Kind(t))
            /\ UNCHANGED <<count, round>>

LockRes2(w) == /\ GoTo(w, "resW", "inside")
               /\ Lock("res", w)
               /\ UNCHANGED <<count, round>>

UnlockRes(w) == /\ w \in Writers
                /\ GoTo(w, "inside", "uncount")
                /\ Unlock("res")
                /\ UNCHANGED <<count, round>>

(* Mutants: the count is tested before it is decremented; not at all.      *)
CountOutPostDecrement(t) ==
  /\ GoTo(t, IF t \in Readers THEN "inside" ELSE "uncount",
             IF count[Kind(t)] = 0 THEN "last" ELSE "leave")
  /\ Lock(Kind(t), t) /\ CountBy(t, -1)
  /\ UNCHANGED round
CountOutAlways(t) ==
  /\ GoTo(t, IF t \in Readers THEN "inside" ELSE "uncount", "last")
  /\ Lock(Kind(t), t) /\ CountBy(t, -1)
  /\ UNCHANGED round

CountOut2(t) ==
  /\ GoTo(t, IF t \in Readers THEN "inside" ELSE "uncount",
             IF count[Kind(t)] - 1 = 0 THEN "last" ELSE "leave")
  /\ Lock(Kind(t), t) /\ CountBy(t, -1)
  /\ UNCHANGED round

UnlockLast(t) == /\ GoTo(t, "last", "leave")
                 /\ Unlock(Switched(t))
                 /\ UNCHANGED <<count, round>>

Leave(t) == /\ GoTo(t, "leave", IF round[t] < Rounds THEN Start(t) ELSE "done")
            /\ Unlock(Kind(t))
            /\ UNCHANGED <<count, round>>
-----------------------------------------------------------------------------
Reader2(r) == Queue(r) \/ PassGate2(r) \/ LeaveGate2(r)
Writer2(w) == LockRes2(w) \/ UnlockRes(w)
Counting(t) == CountIn2(t) \/ LockFirst(t) \/ Enter(t) \/ CountOut2(t)
                 \/ UnlockLast(t) \/ Leave(t)

Thread(t) == \/ t \in Readers /\ Reader2(t)
             \/ t \in Writers /\ Writer2(t)
             \/ Counting(t)

Next2 == \E t \in Threads : Thread(t)

Spec2 == Init2 /\ [][Next2]_vars2

(* A thread that can run is run at some time; a mutex may be given to any  *)
(* of the threads that wait for it.                                        *)
FairSpec2 == Spec2 /\ \A t \in Threads : WF_vars2(Thread(t))
-----------------------------------------------------------------------------
Inside(kind) == {t \in kind : pc[t] = "inside"}

(* lockRead and lockWrite exclude as an abstract readers-writer lock.      *)
RW == INSTANCE RWSpec WITH reading <- Inside(Readers), writing <- Inside(Writers)
ImplementsRWSpec2 == RW!Spec

(* While a writer waits for mResMutex or holds it, no reader gets past the *)
(* gate: from one writer to the next the count hands the gate over closed. *)
WriterPriority ==
  [][(\E w \in Writers : pc[w] \in {"resW", "inside"}) =>
       \A r \in Readers : pc[r] = "gate2" => pc'[r] = "gate2"]_vars2

(* Five mutexes taken in different nestings never block one another for    *)
(* ever: every thread finishes its loop.                                   *)
Terminates2 == <>(\A t \in Threads : pc[t] = "done")
=============================================================================
