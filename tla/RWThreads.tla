----------------------------- MODULE RWThreads ------------------------------
(***************************************************************************)
(* What the programs around the locks of C++/ReaderWriterLock/main.cpp     *)
(* have in common: READER_COUNT readers and WRITER_COUNT writers, the      *)
(* bounded number of critical sections each of them enters, and the        *)
(* mutexes a lock is made of.  RWLock and RWLock2 extend this module.      *)
(***************************************************************************)
EXTENDS Integers, FiniteSets

CONSTANTS Readers, Writers,  \* the threads main creates
          Rounds,            \* READER_LOOP and WRITER_LOOP
          NoOne              \* owner of a free mutex

Threads == Readers \union Writers

ASSUME ThreadsAssumption ==
  /\ IsFiniteSet(Readers) /\ IsFiniteSet(Writers)
  /\ Readers \intersect Writers = {}
  /\ NoOne \notin Threads
ASSUME RoundsAssumption == Rounds \in Nat \ {0}

VARIABLES pc,    \* what each thread does next
          mutex, \* the owner of each mutex of the lock
          round  \* critical sections each thread has entered

GoTo(t, from, to) == pc[t] = from /\ pc' = [pc EXCEPT ![t] = to]

(* The default mutex of the C library this builds against keeps no owner:  *)
(* unlock releases it whichever thread calls it.                           *)
Lock(m, t) == mutex[m] = NoOne /\ mutex' = [mutex EXCEPT ![m] = t]
Unlock(m)  == mutex' = [mutex EXCEPT ![m] = NoOne]

EnterRound(t) == round' = [round EXCEPT ![t] = @ + 1]
=============================================================================
