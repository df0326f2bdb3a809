-------------------------- MODULE ThreadPoolProofs --------------------------
(***************************************************************************)
(* Proofs about the thread pool for any finite set of workers and any      *)
(* number of tasks and results: front() is never called on an empty queue, *)
(* the pool keeps the promise of PoolSpec, and its destructor leaves no    *)
(* task of the client behind.                                              *)
(***************************************************************************)
EXTENDS ThreadPool, FiniteSetTheorems, SequenceTheorems, TLAPS

TaskLabels   == {"tryAcquire", "pop", "run", "releaseIn", "complete", "notify"}
WorkerLabels == TaskLabels \union {"check", "exited"}
MainLabels   == TaskLabels \union {"idle", "push", "release", "join", "hasTask", "exit",
                                   "joinThreads", "returned"}

TypeInv == /\ pc \in [Callers -> WorkerLabels \union MainLabels]
           /\ pc[Main] \in MainLabels /\ \A t \in Threads : pc[t] \in WorkerLabels
           /\ f \in [Callers -> Nat]
           /\ mTaskQueue \in Seq(Nat) /\ mTaskCount \in Nat /\ mPoolExit \in BOOLEAN
           /\ batchOf \in Seq(Nat) /\ inner \subseteq Nat /\ done \subseteq Nat
           /\ left \in Seq(Nat) /\ mAllComplete \in Seq(Nat)
           /\ toPush \in Nat /\ joining \in Nat /\ joined \subseteq Nat

(* Each task in the queue has a permit: in the semaphore, in the hands of  *)
(* a thread that is about to take the task, or still to be released by the *)
(* thread that has pushed it.                                              *)
InTransit == {p \in Callers : pc[p] \in {"pop", "release", "releaseIn"}}
PermitInv == Len(mTaskQueue) = mTaskCount + Cardinality(InTransit)

(* The tasks in the queue are the last ones posted, in order; those that   *)
(* were taken are in the hands of one thread each, or done.                *)
Taken   == Len(batchOf) - Len(mTaskQueue)
Holders == {p \in Callers : pc[p] \in {"run", "releaseIn", "complete", "notify"}}
TaskInv ==
  /\ Len(mTaskQueue) <= Len(batchOf)
  /\ \A i \in 1 .. Len(mTaskQueue) : mTaskQueue[i] = Taken + i
  /\ \A p \in Holders : f[p] \in 1 .. Taken
  /\ \A p, q \in Holders : f[p] = f[q] => p = q
  /\ \A p \in Holders : f[p] \in done <=> pc[p] \in {"complete", "notify"}
  /\ done \subseteq 1 .. Taken
  /\ \A t \in 1 .. Taken : t \in done \/ \E p \in Holders : f[p] = t

(* A result counts the tasks of its batch that are not pushed yet, or have *)
(* not come to onTaskComplete; it is signalled when there are none.        *)
Pending(b) == {t \in 1 .. Len(batchOf) :
                 /\ batchOf[t] = b
                 /\ t \in done => \E p \in Callers : pc[p] = "complete" /\ f[p] = t}
Unpushed(b) == IF b = Len(left) THEN toPush ELSE 0
ResultInv ==
  /\ Len(mAllComplete) = Len(left)
  /\ \A t \in 1 .. Len(batchOf) : batchOf[t] <= Len(left)
  /\ \A p \in Callers : pc[p] \in {"complete", "notify"} => batchOf[f[p]] # 0
  /\ \A b \in 1 .. Len(left) : left[b] = Cardinality(Pending(b)) + Unpushed(b)
  /\ \A b \in 1 .. Len(left) : mAllComplete[b] > 0 => left[b] = 0
  /\ \A p \in Callers : pc[p] = "notify" => left[batchOf[f[p]]] = 0

(* What main is doing.                                                     *)
MainInv ==
  /\ toPush > 0 => pc[Main] \in {"push", "release"} /\ Len(left) \notin joined
  /\ pc[Main] = "push" => toPush > 0
  /\ Len(left) <= Len(batchOf) + (IF pc[Main] = "push" THEN 1 ELSE 0)
  /\ joined \subseteq 1 .. Len(left)
  /\ pc[Main] = "join" => joining \in (1 .. Len(left)) \ joined
  /\ pc[Main] = "returned" => \A t \in Threads : pc[t] = "exited"
  /\ pc[Main] \in {"exit", "joinThreads", "returned"} =>
       \A i \in 1 .. Len(mTaskQueue) : mTaskQueue[i] \in inner

IInv == TypeInv /\ PermitInv /\ TaskInv /\ ResultInv /\ MainInv

USE DEF GoTo
-----------------------------------------------------------------------------
(* pushTask: the queue and the numbering of the tasks grow at their ends.  *)
LEMMA PushGrows ==
  ASSUME TypeInv, NEW b \in Nat, PushTask(b)
  PROVE  /\ batchOf' \in Seq(Nat) /\ mTaskQueue' \in Seq(Nat)
         /\ Len(batchOf) \in Nat /\ Len(mTaskQueue) \in Nat
         /\ Len(batchOf') = Len(batchOf) + 1 /\ Len(mTaskQueue') = Len(mTaskQueue) + 1
         /\ Taken' = Taken
         /\ \A i \in 1 .. Len(mTaskQueue) : mTaskQueue'[i] = mTaskQueue[i]
         /\ mTaskQueue'[Len(mTaskQueue) + 1] = Len(batchOf) + 1
         /\ \A t \in 1 .. Len(batchOf) : batchOf'[t] = batchOf[t]
         /\ batchOf'[Len(batchOf) + 1] = b
<1>1. /\ batchOf \in Seq(Nat) /\ mTaskQueue \in Seq(Nat)
      /\ Len(batchOf) \in Nat /\ Len(mTaskQueue) \in Nat
      /\ batchOf' = Append(batchOf, b) /\ mTaskQueue' = Append(mTaskQueue, Len(batchOf) + 1)
  BY LenProperties DEF TypeInv, PushTask
<1>2. Len(batchOf) + 1 \in Nat
  BY <1>1
<1>3. /\ batchOf' \in Seq(Nat) /\ mTaskQueue' \in Seq(Nat)
      /\ Len(batchOf') = Len(batchOf) + 1 /\ Len(mTaskQueue') = Len(mTaskQueue) + 1
      /\ \A i \in 1 .. Len(mTaskQueue) : mTaskQueue'[i] = mTaskQueue[i]
      /\ mTaskQueue'[Len(mTaskQueue) + 1] = Len(batchOf) + 1
      /\ \A t \in 1 .. Len(batchOf) : batchOf'[t] = batchOf[t]
      /\ batchOf'[Len(batchOf) + 1] = b
  BY <1>1, <1>2, AppendProperties
<1>4. QED
  BY <1>1, <1>3 DEF Taken

(* popTask: the queue loses its first task, which becomes a taken one.     *)
LEMMA PopShrinks ==
  ASSUME TypeInv, mTaskQueue # <<>>, mTaskQueue' = Tail(mTaskQueue), batchOf' = batchOf
  PROVE  /\ mTaskQueue' \in Seq(Nat) /\ Head(mTaskQueue) = mTaskQueue[1]
         /\ Len(batchOf) \in Nat /\ Len(mTaskQueue) \in Nat \ {0}
         /\ Len(mTaskQueue') = Len(mTaskQueue) - 1
         /\ Taken' = Taken + 1
         /\ \A i \in 1 .. Len(mTaskQueue) - 1 : mTaskQueue'[i] = mTaskQueue[i + 1]
<1>1. /\ batchOf \in Seq(Nat) /\ mTaskQueue \in Seq(Nat) /\ Len(batchOf) \in Nat
      /\ Len(mTaskQueue) \in Nat \ {0}
  BY LenProperties, EmptySeq DEF TypeInv
<1>2. /\ mTaskQueue' \in Seq(Nat) /\ Len(mTaskQueue') = Len(mTaskQueue) - 1
      /\ \A i \in 1 .. Len(mTaskQueue') : mTaskQueue'[i] = mTaskQueue[i + 1]
  BY <1>1, HeadTailProperties
<1>3. Head(mTaskQueue) = mTaskQueue[1]
  BY <1>1
<1>4. QED
  BY <1>1, <1>2, <1>3 DEF Taken

(* A result's two counters keep their types.                               *)
LEMMA ResultTypes ==
  ASSUME NEW s \in Seq(Nat), NEW v \in Nat
  PROVE  /\ Append(s, v) \in Seq(Nat) /\ Len(Append(s, v)) = Len(s) + 1 /\ Len(s) \in Nat
         /\ \A i \in 1 .. Len(s) : Append(s, v)[i] = s[i]
         /\ Append(s, v)[Len(s) + 1] = v
         /\ \A i \in 1 .. Len(s) : /\ [s EXCEPT ![i] = v] \in Seq(Nat)
                                   /\ Len([s EXCEPT ![i] = v]) = Len(s)
                                   /\ s[i] \in Nat
BY AppendProperties, ExceptSeq, LenProperties, ElementOfSeq

LEMMA CallersFinite ==
  /\ IsFiniteSet(Callers)
  /\ \A S \in SUBSET Callers : IsFiniteSet(S) /\ Cardinality(S) \in Nat
<1>1. IsFiniteSet({Main})
  BY FS_Singleton
<1>2. IsFiniteSet(Callers)
  BY <1>1, PoolAssumption, FS_Union DEF Callers
<1>3. QED
  BY <1>2, FS_Subset, FS_CardinalityType

LEMMA InitIInv == Init => IInv
<1> SUFFICES ASSUME Init PROVE IInv
  OBVIOUS
<1> USE PoolAssumption DEF Init, Callers
<1>1. /\ \A p \in Callers : pc[p] \in {"idle", "check"}
      /\ pc[Main] = "idle" /\ \A t \in Threads : pc[t] = "check"
      /\ Len(mTaskQueue) = 0 /\ Len(batchOf) = 0 /\ Len(left) = 0 /\ Len(mAllComplete) = 0
  OBVIOUS
<1>2. TypeInv
  BY EmptySeq DEF TypeInv, WorkerLabels, MainLabels, TaskLabels
<1>3. PermitInv
  <2>1. InTransit = {}
    BY <1>1 DEF InTransit
  <2>2. QED
    BY <1>1, <2>1, FS_EmptySet DEF PermitInv
<1>4. TaskInv
  BY <1>1 DEF TaskInv, Holders, Taken
<1>5. ResultInv
  BY <1>1 DEF ResultInv
<1>6. MainInv
  BY <1>1 DEF MainInv
<1>7. QED
  BY <1>2, <1>3, <1>4, <1>5, <1>6 DEF IInv
-----------------------------------------------------------------------------
(* Type correctness.                                                       *)
LEMMA TypeStep == TypeInv /\ TaskInv /\ ResultInv /\ MainInv /\ Next => TypeInv'
<1> SUFFICES ASSUME TypeInv, TaskInv, ResultInv, MainInv, Next PROVE TypeInv'
  OBVIOUS
<1> USE PoolAssumption DEF Callers, WorkerLabels, MainLabels, TaskLabels, Again
<1>1. ASSUME NEW p \in Callers, Release(p) PROVE TypeInv'
  <2>1. /\ pc' \in [Callers -> WorkerLabels \union MainLabels]
        /\ pc'[Main] \in MainLabels /\ \A t \in Threads : pc'[t] \in WorkerLabels
    <3>1. CASE GoTo(p, "release", IF toPush > 0 THEN "push" ELSE "idle")
      BY <3>1 DEF TypeInv
    <3>2. CASE GoTo(p, "releaseIn", "run")
      BY <3>2 DEF TypeInv
    <3>3. QED
      BY <1>1, <3>1, <3>2 DEF Release
  <2>2. mTaskCount' \in Nat
    BY <1>1 DEF Release, TypeInv
  <2>3. QED
    BY <1>1, <2>1, <2>2 DEF Release, TypeInv, resultVars, taskVars
<1>2. ASSUME NEW p \in Callers, TryAcquire(p) PROVE TypeInv'
  BY <1>2 DEF TryAcquire, TypeInv, resultVars, taskVars
<1>3. ASSUME NEW p \in Callers, TimesOut(p) PROVE TypeInv'
  BY <1>3 DEF TimesOut, TypeInv, resultVars, taskVars, queueVars
<1>4. ASSUME NEW p \in Callers, Pop(p) PROVE TypeInv'
  <2>1. /\ mTaskQueue' \in Seq(Nat) /\ Head(mTaskQueue) \in Nat
        /\ Len(mTaskQueue) \in Nat \ {0}
    BY <1>4, PopShrinks, HeadTailProperties DEF Pop, taskVars, TypeInv
  <2>2. QED
    BY <1>4, <2>1 DEF Pop, TypeInv, resultVars, taskVars
<1>5. ASSUME NEW b \in Nat, PushTask(b) PROVE batchOf' \in Seq(Nat) /\ mTaskQueue' \in Seq(Nat)
  BY <1>5, PushGrows
<1>6. ASSUME NEW p \in Callers, PostInTask(p) PROVE TypeInv'
  <2>1. batchOf' \in Seq(Nat) /\ mTaskQueue' \in Seq(Nat)
    BY <1>5, <1>6 DEF PostInTask
  <2>2. inner' \subseteq Nat
    <3>1. Len(batchOf) \in Nat
      BY LenProperties DEF TypeInv
    <3>2. inner' = inner \union {Len(batchOf) + 1} /\ inner \subseteq Nat
      BY <1>6 DEF PostInTask, TypeInv
    <3>3. Len(batchOf) + 1 \in Nat
      BY <3>1
    <3>4. QED
      BY <3>2, <3>3
  <2>3. /\ pc' \in [Callers -> WorkerLabels \union MainLabels]
        /\ pc'[Main] \in MainLabels /\ \A t \in Threads : pc'[t] \in WorkerLabels
    BY <1>6 DEF PostInTask, TypeInv
  <2>4. QED
    BY <1>6, <2>1, <2>2, <2>3 DEF PostInTask, TypeInv, resultVars
<1>7. ASSUME NEW p \in Callers, Finish(p) PROVE TypeInv'
  BY <1>7 DEF Finish, TypeInv, resultVars, taskVars, queueVars
<1>8. ASSUME NEW p \in Callers, pc[p] \in {"complete", "notify"}
      PROVE  /\ batchOf[f[p]] \in 1 .. Len(left) /\ batchOf[f[p]] \in 1 .. Len(mAllComplete)
             /\ f[p] \in 1 .. Len(batchOf) /\ Len(batchOf) \in Nat /\ Len(left) \in Nat
  <2>1. /\ Len(batchOf) \in Nat /\ Len(mTaskQueue) \in Nat /\ Len(left) \in Nat
        /\ \A i \in 1 .. Len(batchOf) : batchOf[i] \in Nat
    BY LenProperties, ElementOfSeq DEF TypeInv
  <2>2. f[p] \in 1 .. Len(batchOf)
    BY <1>8, <2>1 DEF TaskInv, Holders, Taken
  <2>3. QED
    BY <1>8, <2>1, <2>2 DEF ResultInv
<1>9. ASSUME NEW p \in Callers, Complete(p) PROVE TypeInv'
  <2> DEFINE b == batchOf[f[p]]
  <2>1. pc[p] = "complete" /\ b \in 1 .. Len(left) /\ left[b] \in Nat
    BY <1>8, <1>9, ElementOfSeq DEF Complete, TypeInv
  <2>2. left[b] # 0
    <3>1. f[p] \in Pending(b)
      BY <1>8, <2>1 DEF Pending
    <3>2. Pending(b) \subseteq 1 .. Len(batchOf)
      BY DEF Pending
    <3>3. IsFiniteSet(Pending(b)) /\ Cardinality(Pending(b)) \in Nat
      <4>1. IsFiniteSet(1 .. Len(batchOf))
        <5>1. 1 \in Int /\ Len(batchOf) \in Int
          BY <1>8, <2>1
        <5>2. QED
          BY <5>1, FS_Interval
      <4>2. IsFiniteSet(Pending(b))
        BY <3>2, <4>1, FS_Subset
      <4>3. QED
        BY <4>2, FS_CardinalityType
    <3>4. Cardinality(Pending(b)) # 0
      BY <3>1, <3>3, FS_EmptySet
    <3>5. Unpushed(b) \in Nat
      BY DEF Unpushed, TypeInv
    <3>6. QED
      BY <2>1, <3>3, <3>4, <3>5 DEF ResultInv
  <2>3. left[b] - 1 \in Nat
    BY <2>1, <2>2
  <2>4. left' \in Seq(Nat)
    <3>1. [left EXCEPT ![b] = left[b] - 1] \in Seq(Nat)
      BY <2>1, <2>3, ResultTypes DEF TypeInv
    <3>2. QED
      BY <1>9, <3>1 DEF Complete
  <2>5. QED
    BY <1>9, <2>4 DEF Complete, TypeInv, taskVars, queueVars
<1>10. ASSUME NEW p \in Callers, Notify(p) PROVE TypeInv'
  <2> DEFINE b == batchOf[f[p]]
  <2>1. b \in 1 .. Len(mAllComplete) /\ mAllComplete[b] + 1 \in Nat
    BY <1>8, <1>10, ElementOfSeq DEF Notify, TypeInv
  <2>2. [mAllComplete EXCEPT ![b] = mAllComplete[b] + 1] \in Seq(Nat)
    BY <2>1, ResultTypes DEF TypeInv
  <2>3. mAllComplete' \in Seq(Nat)
    BY <1>10, <2>2 DEF Notify
  <2>4. QED
    BY <1>10, <2>3 DEF Notify, TypeInv, taskVars, queueVars
<1>11. ASSUME NEW t \in Threads, Check(t) PROVE TypeInv'
  BY <1>11 DEF Check, TypeInv, resultVars, taskVars, queueVars
<1>12. ASSUME Post PROVE TypeInv'
  BY <1>5, <1>12 DEF Post, TypeInv, resultVars, taskVars
<1>13. ASSUME PostNext PROVE TypeInv'
  <2>1. Len(left) \in Nat /\ toPush - 1 \in Nat
    BY <1>13, LenProperties DEF PostNext, TypeInv, MainInv
  <2>2. QED
    BY <1>5, <1>13, <2>1 DEF PostNext, TypeInv, resultVars, taskVars
<1>14. ASSUME NEW n \in Sizes, PostMulti(n) PROVE TypeInv'
  <2>1. Append(left, n) \in Seq(Nat) /\ Append(mAllComplete, 0) \in Seq(Nat) /\ n \in Nat
    BY ResultTypes DEF TypeInv
  <2>2. QED
    BY <1>14, <2>1 DEF PostMulti, TypeInv, taskVars, queueVars
<1>15. ASSUME NEW b \in DOMAIN left, Join(b) PROVE TypeInv'
  <2>1. b \in Nat
    BY LenProperties DEF TypeInv
  <2>2. QED
    BY <1>15, <2>1 DEF Join, TypeInv, taskVars, queueVars
<1>16. ASSUME JoinWait PROVE TypeInv'
  <2>1. joining \in 1 .. Len(mAllComplete)
    BY <1>16 DEF JoinWait, MainInv, ResultInv
  <2>2. mAllComplete[joining] - 1 \in Nat
    BY <1>16, <2>1, ElementOfSeq DEF JoinWait, TypeInv
  <2>3. [mAllComplete EXCEPT ![joining] = mAllComplete[joining] - 1] \in Seq(Nat)
    BY <2>1, <2>2, ResultTypes DEF TypeInv
  <2>4. QED
    BY <1>16, <2>3 DEF JoinWait, TypeInv, taskVars, queueVars
<1>17. ASSUME Destroy \/ HasTask \/ Exit \/ JoinThreads PROVE TypeInv'
  BY <1>17 DEF Destroy, HasTask, Exit, JoinThreads, TypeInv, resultVars, taskVars, queueVars
<1>18. QED
  BY <1>1, <1>2, <1>3, <1>4, <1>6, <1>7, <1>9, <1>10, <1>11, <1>12, <1>13, <1>14, <1>15,
     <1>16, <1>17 DEF Next, Call, Inside, Worker, Step, Task
-----------------------------------------------------------------------------
(* Permits.                                                                *)
LEMMA InTransitChanges ==
  ASSUME NEW p \in Callers
  PROVE  /\ Cardinality(InTransit) \in Nat
         /\ p \notin InTransit => Cardinality(InTransit \union {p}) = Cardinality(InTransit) + 1
         /\ p \in InTransit => Cardinality(InTransit \ {p}) = Cardinality(InTransit) - 1
<1>1. IsFiniteSet(InTransit) /\ Cardinality(InTransit) \in Nat
  BY CallersFinite DEF InTransit
<1>2. QED
  BY <1>1, FS_AddElement, FS_RemoveElement

LEMMA PermitStep == TypeInv /\ TypeInv' /\ PermitInv /\ Next => PermitInv'
<1> SUFFICES ASSUME TypeInv, TypeInv', PermitInv, Next PROVE PermitInv'
  OBVIOUS
<1> USE PoolAssumption DEF Callers
<1>0. /\ Len(mTaskQueue) \in Nat /\ mTaskCount \in Nat /\ Len(mTaskQueue') \in Nat
      /\ mTaskCount' \in Nat /\ pc \in [Callers -> WorkerLabels \union MainLabels]
  BY LenProperties DEF TypeInv
(* A step that pushes and owes the permit                                  *)
<1>1. ASSUME NEW p \in Callers, NEW b \in Nat, NEW from, NEW to, GoTo(p, from, to),
             from \notin {"pop", "release", "releaseIn"}, to \in {"release", "releaseIn"},
             PushTask(b), mTaskCount' = mTaskCount
      PROVE PermitInv'
  <2>1. p \notin InTransit /\ InTransit' = InTransit \union {p}
    BY <1>1, <1>0 DEF InTransit
  <2>2. Len(mTaskQueue') = Len(mTaskQueue) + 1
    BY <1>1, PushGrows
  <2>3. Cardinality(InTransit \union {p}) = Cardinality(InTransit) + 1 /\ Cardinality(InTransit) \in Nat
    BY <2>1, InTransitChanges
  <2>4. QED
    BY <1>0, <1>1, <2>1, <2>2, <2>3 DEF PermitInv
<1>2. ASSUME NEW p \in Callers, NEW from, NEW to, GoTo(p, from, to),
             from \notin {"pop", "release", "releaseIn"}, to \notin {"pop", "release", "releaseIn"},
             UNCHANGED <<mTaskQueue, mTaskCount>>
      PROVE PermitInv'
  <2>1. InTransit' = InTransit
    BY <1>2, <1>0 DEF InTransit
  <2>2. QED
    BY <1>2, <2>1 DEF PermitInv
<1>3. ASSUME NEW p \in Callers, Release(p) PROVE PermitInv'
  <2>1. p \in InTransit /\ InTransit' = InTransit \ {p}
    BY <1>0, <1>3 DEF InTransit, Release
  <2>2. Cardinality(InTransit \ {p}) = Cardinality(InTransit) - 1 /\ Cardinality(InTransit) \in Nat
    BY <2>1, InTransitChanges
  <2>3. mTaskCount' = mTaskCount + 1 /\ mTaskQueue' = mTaskQueue
    BY <1>3 DEF Release
  <2>4. QED
    BY <1>0, <2>1, <2>2, <2>3 DEF PermitInv
<1>4. ASSUME NEW p \in Callers, TryAcquire(p) PROVE PermitInv'
  <2>1. p \notin InTransit /\ InTransit' = InTransit \union {p}
    BY <1>0, <1>4 DEF InTransit, TryAcquire
  <2>2. Cardinality(InTransit \union {p}) = Cardinality(InTransit) + 1 /\ Cardinality(InTransit) \in Nat
    BY <2>1, InTransitChanges
  <2>3. mTaskCount' = mTaskCount - 1 /\ mTaskQueue' = mTaskQueue
    BY <1>4 DEF TryAcquire
  <2>4. QED
    BY <1>0, <2>1, <2>2, <2>3 DEF PermitInv
<1>5. ASSUME NEW p \in Callers, Pop(p) PROVE PermitInv'
  <2>1. p \in InTransit /\ InTransit' = InTransit \ {p}
    BY <1>0, <1>5 DEF InTransit, Pop
  <2>2. Cardinality(InTransit \ {p}) = Cardinality(InTransit) - 1 /\ Cardinality(InTransit) \in Nat
    BY <2>1, InTransitChanges
  <2>3. mTaskCount' = mTaskCount /\ Len(mTaskQueue') = Len(mTaskQueue) - 1
    BY <1>5, PopShrinks DEF Pop, taskVars
  <2>4. QED
    BY <1>0, <2>1, <2>2, <2>3 DEF PermitInv
<1>6. ASSUME NEW p \in Callers, PostInTask(p) PROVE PermitInv'
  BY <1>1, <1>6 DEF PostInTask
<1>7. ASSUME NEW p \in Callers, TimesOut(p) \/ Finish(p) \/ Complete(p) \/ Notify(p) PROVE PermitInv'
  <2>1. PICK from \in {"tryAcquire", "run", "complete", "notify"},
             to \in {"hasTask", "check", "complete", "notify"} : GoTo(p, from, to)
    BY <1>7 DEF TimesOut, Finish, Complete, Notify, Again
  <2>2. UNCHANGED <<mTaskQueue, mTaskCount>>
    BY <1>7 DEF TimesOut, Finish, Complete, Notify, queueVars
  <2>3. QED
    BY <1>2, <2>1, <2>2
<1>8. ASSUME NEW t \in Threads, Check(t) PROVE PermitInv'
  <2>1. PICK to \in {"exited", "tryAcquire"} : GoTo(t, "check", to)
    BY <1>8 DEF Check
  <2>2. QED
    BY <1>2, <1>8, <2>1 DEF Check, queueVars
<1>9. ASSUME Post PROVE PermitInv'
  BY <1>1, <1>9 DEF Post
<1>10. ASSUME PostNext PROVE PermitInv'
  <2>1. Len(left) \in Nat
    BY LenProperties DEF TypeInv
  <2>2. QED
    BY <1>1, <1>10, <2>1 DEF PostNext
<1>11. ASSUME Destroy \/ (\E n \in Sizes : PostMulti(n)) \/ (\E b \in DOMAIN left : Join(b))
                \/ JoinWait \/ HasTask \/ Exit \/ JoinThreads
       PROVE PermitInv'
  <2>1. PICK from \in {"idle", "join", "hasTask", "exit", "joinThreads"},
             to \in {"hasTask", "push", "join", "idle", "tryAcquire", "exit", "joinThreads",
                     "returned"} : GoTo(Main, from, to)
    BY <1>11 DEF Destroy, PostMulti, Join, JoinWait, HasTask, Exit, JoinThreads
  <2>2. UNCHANGED <<mTaskQueue, mTaskCount>>
    BY <1>11 DEF Destroy, PostMulti, Join, JoinWait, HasTask, Exit, JoinThreads, queueVars
  <2>3. QED
    BY <1>2, <2>1, <2>2
<1>12. QED
  BY <1>3, <1>4, <1>5, <1>6, <1>7, <1>8, <1>9, <1>10, <1>11
     DEF Next, Call, Inside, Worker, Step, Task
-----------------------------------------------------------------------------
(* Tasks: who holds them.                                                  *)

Late == {"complete", "notify"}
Held == {"run", "releaseIn", "complete", "notify"}

(* A step that moves no task.                                              *)
LEMMA TaskKept ==
  ASSUME TaskInv, UNCHANGED <<mTaskQueue, batchOf, done>>, Holders' = Holders,
         \A p \in Holders : f'[p] = f[p] /\ (pc'[p] \in Late <=> pc[p] \in Late)
  PROVE  TaskInv'
<1>1. Taken' = Taken
  BY DEF Taken
<1>2. QED
  BY <1>1 DEF TaskInv, Late

(* A step that posts a task.                                               *)
LEMMA TaskPushed ==
  ASSUME TypeInv, TaskInv, NEW b \in Nat, PushTask(b), UNCHANGED <<f, done>>, Holders' = Holders,
         \A p \in Holders : pc'[p] \in Late <=> pc[p] \in Late
  PROVE  TaskInv'
<1>1. /\ Taken' = Taken /\ Len(batchOf) \in Nat /\ Len(mTaskQueue) \in Nat
      /\ Len(batchOf') = Len(batchOf) + 1 /\ Len(mTaskQueue') = Len(mTaskQueue) + 1
      /\ \A i \in 1 .. Len(mTaskQueue) : mTaskQueue'[i] = mTaskQueue[i]
      /\ mTaskQueue'[Len(mTaskQueue) + 1] = Len(batchOf) + 1
  BY PushGrows
<1>2. Len(mTaskQueue') <= Len(batchOf')
  BY <1>1 DEF TaskInv
<1>3. ASSUME NEW i \in 1 .. Len(mTaskQueue') PROVE mTaskQueue'[i] = Taken' + i
  <2>1. CASE i \in 1 .. Len(mTaskQueue)
    BY <1>1, <2>1 DEF TaskInv
  <2>2. CASE i = Len(mTaskQueue) + 1
    BY <1>1, <2>2 DEF Taken
  <2>3. QED
    BY <1>1, <1>3, <2>1, <2>2
<1>4. QED
  BY <1>1, <1>2, <1>3 DEF TaskInv, Late

(* A thread that is through with its task.                                 *)
LEMMA TaskLeft ==
  ASSUME TaskInv, NEW p \in Holders, UNCHANGED <<mTaskQueue, batchOf>>,
         done' = done \union {f[p]}, Holders' = Holders \ {p},
         \A q \in Holders \ {p} : f'[q] = f[q] /\ pc'[q] = pc[q]
  PROVE  TaskInv'
<1>1. Taken' = Taken
  BY DEF Taken
<1>2. \A q \in Holders \ {p} : f[q] # f[p]
  BY DEF TaskInv
<1>3. /\ Len(mTaskQueue') <= Len(batchOf') /\ done' \subseteq 1 .. Taken'
      /\ \A i \in 1 .. Len(mTaskQueue') : mTaskQueue'[i] = Taken' + i
      /\ \A q \in Holders' : f'[q] \in 1 .. Taken'
  BY <1>1 DEF TaskInv
<1>4. \A q, r \in Holders' : f'[q] = f'[r] => q = r
  BY DEF TaskInv
<1>5. \A q \in Holders' : f'[q] \in done' <=> pc'[q] \in {"complete", "notify"}
  BY <1>2 DEF TaskInv
<1>6. ASSUME NEW t \in 1 .. Taken', t \notin done' PROVE \E q \in Holders' : f'[q] = t
  <2>1. PICK q \in Holders : f[q] = t
    BY <1>1, <1>6 DEF TaskInv
  <2>2. q # p
    BY <1>6, <2>1
  <2>3. QED
    BY <2>1, <2>2
<1>7. QED
  BY <1>3, <1>5, <1>6, <1>4 DEF TaskInv

LEMMA TaskStep == TypeInv /\ TaskInv /\ Next => TaskInv'
<1> SUFFICES ASSUME TypeInv, TaskInv, Next PROVE TaskInv'
  OBVIOUS
<1> USE PoolAssumption DEF Callers
<1>0. /\ pc \in [Callers -> WorkerLabels \union MainLabels] /\ f \in [Callers -> Nat]
      /\ Len(mTaskQueue) \in Nat /\ Len(batchOf) \in Nat
  BY LenProperties DEF TypeInv
(* A step of a thread that holds no task, before and after                 *)
<1>1. ASSUME NEW p \in Callers, NEW from, NEW to, GoTo(p, from, to),
             from \notin Held, to \notin Held, UNCHANGED <<f, mTaskQueue, batchOf, done>>
      PROVE TaskInv'
  <2>1. Holders' = Holders /\ \A q \in Holders : pc'[q] = pc[q]
    BY <1>0, <1>1 DEF Holders, Held
  <2>2. QED
    BY <1>1, <2>1, TaskKept
<1>2. ASSUME NEW p \in Callers, Release(p) PROVE TaskInv'
  <2>1. Holders' = Holders /\ \A q \in Holders : pc'[q] \in Late <=> pc[q] \in Late
    <3>1. CASE GoTo(p, "release", IF toPush > 0 THEN "push" ELSE "idle")
      BY <1>0, <3>1 DEF Holders, Late
    <3>2. CASE GoTo(p, "releaseIn", "run")
      BY <1>0, <3>2 DEF Holders, Late
    <3>3. QED
      BY <1>2, <3>1, <3>2 DEF Release
  <2>2. UNCHANGED <<f, mTaskQueue, batchOf, done>>
    BY <1>2 DEF Release, taskVars
  <2>3. QED
    BY <2>1, <2>2, TaskKept
<1>3. ASSUME NEW p \in Callers, TryAcquire(p) PROVE TaskInv'
  <2>1. GoTo(p, "tryAcquire", "pop") /\ UNCHANGED <<f, mTaskQueue, batchOf, done>>
    BY <1>3 DEF TryAcquire, taskVars
  <2>2. QED
    BY <1>1, <2>1 DEF Held
<1>4. ASSUME NEW p \in Callers, TimesOut(p) PROVE TaskInv'
  <2>1. PICK to \in {"hasTask", "check"} : GoTo(p, "tryAcquire", to)
    BY <1>4 DEF TimesOut, Again
  <2>2. UNCHANGED <<f, mTaskQueue, batchOf, done>>
    BY <1>4 DEF TimesOut, queueVars, taskVars
  <2>3. QED
    BY <1>1, <2>1, <2>2 DEF Held
<1>5. ASSUME NEW p \in Callers, Pop(p) PROVE TaskInv'
  <2>1. /\ Head(mTaskQueue) = mTaskQueue[1] /\ Len(mTaskQueue) \in Nat \ {0}
        /\ Len(mTaskQueue') = Len(mTaskQueue) - 1 /\ Taken' = Taken + 1
        /\ \A i \in 1 .. Len(mTaskQueue) - 1 : mTaskQueue'[i] = mTaskQueue[i + 1]
    BY <1>5, PopShrinks DEF Pop, taskVars
  <2>2. /\ p \notin Holders /\ Holders' = Holders \union {p} /\ pc'[p] = "run"
        /\ \A q \in Holders : f'[q] = f[q] /\ pc'[q] = pc[q]
    BY <1>0, <1>5 DEF Pop, Holders
  <2>3. f'[p] = mTaskQueue[1]
    BY <1>0, <1>5, <2>1 DEF Pop
  <2>4. f'[p] = Taken + 1 /\ Taken \in Nat
    BY <1>0, <2>1, <2>3 DEF TaskInv, Taken
  <2>5. batchOf' = batchOf /\ done' = done
    BY <1>5 DEF Pop, taskVars
  <2>6. Len(mTaskQueue') <= Len(batchOf')
    BY <1>0, <2>1, <2>5 DEF TaskInv
  <2>7. \A i \in 1 .. Len(mTaskQueue') : mTaskQueue'[i] = Taken' + i
    BY <1>0, <2>1, <2>4 DEF TaskInv
  <2>8. \A q \in Holders' : f'[q] \in 1 .. Taken'
    BY <2>1, <2>2, <2>4 DEF TaskInv
  <2>9. \A q, r \in Holders' : f'[q] = f'[r] => q = r
    BY <2>2, <2>4 DEF TaskInv
  <2>10. \A q \in Holders' : f'[q] \in done' <=> pc'[q] \in {"complete", "notify"}
    BY <2>2, <2>4, <2>5 DEF TaskInv
  <2>11. done' \subseteq 1 .. Taken'
    BY <2>1, <2>4, <2>5 DEF TaskInv
  <2>12. ASSUME NEW t \in 1 .. Taken', t \notin done' PROVE \E q \in Holders' : f'[q] = t
    <3>1. CASE t = Taken + 1
      BY <2>2, <2>4, <3>1
    <3>2. CASE t \in 1 .. Taken
      <4>1. PICK q \in Holders : f[q] = t
        BY <2>5, <2>12, <3>2 DEF TaskInv
      <4>2. QED
        BY <2>2, <4>1
    <3>3. QED
      BY <2>1, <2>4, <2>12, <3>1, <3>2
  <2>13. QED
    BY <2>6, <2>7, <2>8, <2>9, <2>10, <2>11, <2>12 DEF TaskInv
<1>6. ASSUME NEW p \in Callers, PostInTask(p) PROVE TaskInv'
  <2>1. /\ Holders' = Holders /\ UNCHANGED <<f, done>> /\ PushTask(0)
        /\ \A q \in Holders : pc'[q] \in Late <=> pc[q] \in Late
    BY <1>0, <1>6 DEF PostInTask, Holders, Late
  <2>2. QED
    BY <2>1, TaskPushed
<1>7. ASSUME NEW p \in Callers, Finish(p) PROVE TaskInv'
  <2>1. /\ p \in Holders /\ done' = done \union {f[p]} /\ UNCHANGED <<mTaskQueue, batchOf>>
        /\ pc[p] = "run"
    BY <1>7 DEF Finish, queueVars, taskVars, Holders
  <2>2. CASE batchOf[f[p]] = 0
    <3>1. PICK to \in {"hasTask", "check"} : GoTo(p, "run", to)
      BY <1>7, <2>2 DEF Finish, Again
    <3>2. f' = [f EXCEPT ![p] = 0]
      BY <1>7, <2>2 DEF Finish
    <3>3. /\ Holders' = Holders \ {p}
          /\ \A q \in Holders \ {p} : f'[q] = f[q] /\ pc'[q] = pc[q]
      BY <1>0, <3>1, <3>2 DEF Holders
    <3>4. QED
      BY <2>1, <3>3, TaskLeft
  <2>3. CASE batchOf[f[p]] # 0
    <3>1. GoTo(p, "run", "complete") /\ f' = f
      BY <1>7, <2>3 DEF Finish
    <3>2. /\ Holders' = Holders /\ pc'[p] = "complete"
          /\ \A q \in Holders \ {p} : pc'[q] = pc[q]
      BY <1>0, <3>1 DEF Holders
    <3>3. Taken' = Taken /\ \A q \in Holders \ {p} : f[q] # f[p]
      BY <2>1 DEF Taken, TaskInv
    <3>4. QED
      BY <2>1, <3>1, <3>2, <3>3 DEF TaskInv
  <2>4. QED
    BY <2>2, <2>3
(* A thread that leaves with a task already done                           *)
<1>8. ASSUME NEW p \in Callers, NEW from \in Late, NEW to \in {"hasTask", "check"}, GoTo(p, from, to),
             f' = [f EXCEPT ![p] = 0], UNCHANGED <<mTaskQueue, batchOf, done>>
      PROVE TaskInv'
  <2>1. p \in Holders /\ pc[p] \in Late
    BY <1>8 DEF Holders, Late
  <2>2. done = done \union {f[p]}
    BY <2>1 DEF TaskInv, Late
  <2>3. /\ Holders' = Holders \ {p}
        /\ \A q \in Holders \ {p} : f'[q] = f[q] /\ pc'[q] = pc[q]
    BY <1>0, <1>8 DEF Holders
  <2>4. QED
    BY <1>8, <2>1, <2>2, <2>3, TaskLeft
<1>9. ASSUME NEW p \in Callers, Complete(p) PROVE TaskInv'
  <2>1. UNCHANGED <<mTaskQueue, batchOf, done>>
    BY <1>9 DEF Complete, queueVars, taskVars
  <2>2. CASE left[batchOf[f[p]]] = 1
    <3>1. GoTo(p, "complete", "notify") /\ f' = f
      BY <1>9, <2>2 DEF Complete
    <3>2. Holders' = Holders /\ \A q \in Holders : pc'[q] \in Late <=> pc[q] \in Late
      BY <1>0, <3>1 DEF Holders, Late
    <3>3. QED
      BY <2>1, <3>1, <3>2, TaskKept
  <2>3. CASE left[batchOf[f[p]]] # 1
    <3>1. PICK to \in {"hasTask", "check"} : GoTo(p, "complete", to)
      BY <1>9, <2>3 DEF Complete, Again
    <3>2. f' = [f EXCEPT ![p] = 0]
      BY <1>9, <2>3 DEF Complete
    <3>3. QED
      BY <1>8, <2>1, <3>1, <3>2 DEF Late
  <2>4. QED
    BY <2>2, <2>3
<1>10. ASSUME NEW p \in Callers, Notify(p) PROVE TaskInv'
  <2>1. PICK to \in {"hasTask", "check"} : GoTo(p, "notify", to)
    BY <1>10 DEF Notify, Again
  <2>2. UNCHANGED <<mTaskQueue, batchOf, done>> /\ f' = [f EXCEPT ![p] = 0]
    BY <1>10 DEF Notify, queueVars, taskVars
  <2>3. QED
    BY <1>8, <2>1, <2>2 DEF Late
<1>11. ASSUME NEW t \in Threads, Check(t) PROVE TaskInv'
  <2>1. PICK to \in {"exited", "tryAcquire"} : GoTo(t, "check", to)
    BY <1>11 DEF Check
  <2>2. UNCHANGED <<f, mTaskQueue, batchOf, done>>
    BY <1>11 DEF Check, queueVars, taskVars
  <2>3. QED
    BY <1>1, <2>1, <2>2 DEF Held
<1>12. ASSUME NEW b \in Nat, PushTask(b), NEW from \in {"idle", "push"},
              GoTo(Main, from, "release"), UNCHANGED <<f, done>>
       PROVE TaskInv'
  <2>1. Holders' = Holders /\ \A q \in Holders : pc'[q] \in Late <=> pc[q] \in Late
    BY <1>0, <1>12 DEF Holders, Late
  <2>2. QED
    BY <1>12, <2>1, TaskPushed
<1>13. ASSUME Post \/ PostNext PROVE TaskInv'
  <2>1. Len(left) \in Nat
    BY LenProperties DEF TypeInv
  <2>2. QED
    BY <1>12, <1>13, <2>1 DEF Post, PostNext
<1>14. ASSUME Destroy \/ (\E n \in Sizes : PostMulti(n)) \/ (\E b \in DOMAIN left : Join(b))
                \/ JoinWait \/ HasTask \/ Exit \/ JoinThreads
       PROVE TaskInv'
  <2>1. PICK from \in {"idle", "join", "hasTask", "exit", "joinThreads"},
             to \in {"hasTask", "push", "join", "idle", "tryAcquire", "exit", "joinThreads",
                     "returned"} : GoTo(Main, from, to)
    BY <1>14 DEF Destroy, PostMulti, Join, JoinWait, HasTask, Exit, JoinThreads
  <2>2. UNCHANGED <<f, mTaskQueue, batchOf, done>>
    BY <1>14 DEF Destroy, PostMulti, Join, JoinWait, HasTask, Exit, JoinThreads, queueVars, taskVars
  <2>3. QED
    BY <1>1, <2>1, <2>2 DEF Held
<1>15. QED
  BY <1>2, <1>3, <1>4, <1>5, <1>6, <1>7, <1>9, <1>10, <1>11, <1>13, <1>14
     DEF Next, Call, Inside, Worker, Step, Task
-----------------------------------------------------------------------------
(* What main is doing.                                                     *)
LEMMA MainStep == TypeInv /\ TypeInv' /\ ResultInv /\ MainInv /\ Next => MainInv'
<1> SUFFICES ASSUME TypeInv, TypeInv', ResultInv, MainInv, Next PROVE MainInv'
  OBVIOUS
<1> USE PoolAssumption DEF Callers
<1>0. /\ pc \in [Callers -> WorkerLabels \union MainLabels] /\ toPush \in Nat
      /\ Len(mTaskQueue) \in Nat /\ Len(batchOf) \in Nat /\ Len(left) \in Nat
      /\ \A t \in Threads : pc[t] \in WorkerLabels
  BY LenProperties DEF TypeInv
(* A step of a worker, which has not left, or of main in the destructor's  *)
(* loop.                                                                   *)
<1> DEFINE Moves(p, to) == /\ pc[p] \in TaskLabels \union {"check"} /\ pc' = [pc EXCEPT ![p] = to]
                           /\ p = Main => pc[p] # "check" /\ to \in TaskLabels \union {"hasTask"}
           Same == UNCHANGED <<toPush, joining, joined>> /\ Len(left') = Len(left)
           Pops == /\ mTaskQueue # <<>> /\ mTaskQueue' = Tail(mTaskQueue)
                   /\ UNCHANGED <<batchOf, inner>>
           Pushes == PushTask(0) /\ inner' = inner \union {Len(batchOf) + 1}
<1>1. ASSUME NEW p \in Callers, NEW to, Moves(p, to), Same,
             UNCHANGED <<batchOf, mTaskQueue, inner>> \/ Pops \/ Pushes
      PROVE MainInv'
  <2>0. Len(batchOf') \in Nat /\ Len(batchOf') >= Len(batchOf)
    BY <1>0, <1>1, PushGrows
  <2>1. CASE p = Main
    <3>1. /\ pc[Main] \in TaskLabels /\ pc'[Main] \in TaskLabels \union {"hasTask"}
      BY <1>0, <1>1, <2>1
    <3>2. QED
      BY <1>0, <1>1, <2>0, <3>1 DEF MainInv, TaskLabels
  <2>2. CASE p # Main
    <3>1. pc'[Main] = pc[Main] /\ pc[Main] # "returned"
      BY <1>0, <1>1, <2>2 DEF MainInv, TaskLabels
    <3>2. ASSUME \A i \in 1 .. Len(mTaskQueue) : mTaskQueue[i] \in inner,
                 NEW i \in 1 .. Len(mTaskQueue')
          PROVE mTaskQueue'[i] \in inner'
      <4>1. CASE UNCHANGED <<batchOf, mTaskQueue, inner>>
        BY <3>2, <4>1
      <4>2. CASE Pops
        <5>1. /\ Len(mTaskQueue') = Len(mTaskQueue) - 1
              /\ \A j \in 1 .. Len(mTaskQueue) - 1 : mTaskQueue'[j] = mTaskQueue[j + 1]
          BY <4>2, PopShrinks
        <5>2. i + 1 \in 1 .. Len(mTaskQueue) /\ mTaskQueue'[i] = mTaskQueue[i + 1]
          BY <1>0, <3>2, <5>1
        <5>3. QED
          BY <3>2, <4>2, <5>2
      <4>3. CASE Pushes
        <5>1. /\ Len(mTaskQueue') = Len(mTaskQueue) + 1
              /\ \A j \in 1 .. Len(mTaskQueue) : mTaskQueue'[j] = mTaskQueue[j]
              /\ mTaskQueue'[Len(mTaskQueue) + 1] = Len(batchOf) + 1
          BY <4>3, PushGrows
        <5>2. CASE i \in 1 .. Len(mTaskQueue)
          BY <3>2, <4>3, <5>1, <5>2
        <5>3. CASE i = Len(mTaskQueue) + 1
          BY <4>3, <5>1, <5>3
        <5>4. QED
          BY <1>0, <3>2, <5>1, <5>2, <5>3
      <4>4. QED
        BY <1>1, <4>1, <4>2, <4>3
    <3>3. QED
      BY <1>0, <1>1, <2>0, <3>1, <3>2 DEF MainInv
  <2>3. QED
    BY <2>1, <2>2
<1>2. ASSUME NEW p \in Callers, Release(p) PROVE MainInv'
  <2>1. UNCHANGED <<toPush, joining, joined, left, batchOf, mTaskQueue, inner>>
    BY <1>2 DEF Release, resultVars, taskVars
  <2>2. CASE GoTo(p, "release", IF toPush > 0 THEN "push" ELSE "idle")
    <3>1. p = Main
      BY <1>0, <2>2 DEF WorkerLabels, TaskLabels
    <3>2. pc[Main] = "release" /\ pc'[Main] = (IF toPush > 0 THEN "push" ELSE "idle")
      BY <1>0, <2>2, <3>1
    <3>3. QED
      BY <1>0, <2>1, <3>2 DEF MainInv
  <2>3. CASE GoTo(p, "releaseIn", "run")
    <3>1. Moves(p, "run") /\ Same
      BY <2>1, <2>3 DEF TaskLabels
    <3>2. QED
      BY <1>1, <2>1, <3>1
  <2>4. QED
    BY <1>2, <2>2, <2>3 DEF Release
<1>3. ASSUME NEW p \in Callers, TryAcquire(p) \/ TimesOut(p) \/ Finish(p) \/ Notify(p) PROVE MainInv'
  <2>1. PICK to : Moves(p, to)
    BY <1>3 DEF TryAcquire, TimesOut, Finish, Notify, TaskLabels, Again
  <2>2. Same /\ UNCHANGED <<batchOf, mTaskQueue, inner>>
    BY <1>3 DEF TryAcquire, TimesOut, Finish, Notify, queueVars, resultVars, taskVars
  <2>3. QED
    BY <1>1, <2>1, <2>2
<1>4. ASSUME NEW p \in Callers, Pop(p) PROVE MainInv'
  <2>1. Moves(p, "run") /\ Same /\ Pops
    BY <1>4 DEF Pop, resultVars, taskVars, TaskLabels
  <2>2. QED
    BY <1>1, <2>1
<1>5. ASSUME NEW p \in Callers, PostInTask(p) PROVE MainInv'
  <2>1. Moves(p, "releaseIn") /\ Same /\ Pushes
    BY <1>5 DEF PostInTask, resultVars, TaskLabels
  <2>2. QED
    BY <1>1, <2>1
<1>6. ASSUME NEW p \in Callers, Complete(p) PROVE MainInv'
  <2>1. PICK to : Moves(p, to)
    BY <1>6 DEF Complete, Again, TaskLabels
  <2>2. Same /\ UNCHANGED <<batchOf, mTaskQueue, inner>>
    <3>1. Len(left') = Len(left)
      BY <1>6 DEF Complete, TypeInv
    <3>2. QED
      BY <1>6, <3>1 DEF Complete, queueVars, taskVars
  <2>3. QED
    BY <1>1, <2>1, <2>2
<1>7. ASSUME NEW t \in Threads, Check(t) PROVE MainInv'
  <2>1. PICK to : Moves(t, to)
    BY <1>7 DEF Check
  <2>2. Same /\ UNCHANGED <<batchOf, mTaskQueue, inner>>
    BY <1>7 DEF Check, queueVars, resultVars, taskVars
  <2>3. QED
    BY <1>1, <2>1, <2>2
<1>8. ASSUME Post PROVE MainInv'
  <2>1. pc[Main] = "idle" /\ pc'[Main] = "release" /\ UNCHANGED <<toPush, joining, joined, left>>
    BY <1>0, <1>8 DEF Post, resultVars
  <2>2. Len(batchOf') = Len(batchOf) + 1
    BY <1>8, PushGrows DEF Post
  <2>3. QED
    BY <1>0, <2>1, <2>2 DEF MainInv
<1>9. ASSUME PostNext PROVE MainInv'
  <2>1. /\ pc[Main] = "push" /\ pc'[Main] = "release" /\ UNCHANGED <<joining, joined, left>>
        /\ toPush' = toPush - 1
    BY <1>0, <1>9 DEF PostNext, resultVars
  <2>2. Len(batchOf') = Len(batchOf) + 1
    BY <1>0, <1>9, PushGrows DEF PostNext
  <2>3. QED
    BY <1>0, <2>1, <2>2 DEF MainInv
<1>10. ASSUME NEW n \in Sizes, PostMulti(n) PROVE MainInv'
  <2>1. /\ pc[Main] = "idle" /\ pc'[Main] = "push" /\ UNCHANGED <<joining, joined, batchOf>>
        /\ toPush' = n /\ n \in Nat \ {0}
    BY <1>0, <1>10 DEF PostMulti, queueVars, taskVars
  <2>2. Len(left') = Len(left) + 1
    BY <1>10, ResultTypes DEF PostMulti, TypeInv
  <2>3. QED
    BY <1>0, <2>1, <2>2 DEF MainInv
<1>11. ASSUME NEW b \in DOMAIN left, Join(b) PROVE MainInv'
  <2>1. /\ pc[Main] = "idle" /\ pc'[Main] = "join" /\ joining' = b /\ b \in 1 .. Len(left)
        /\ b \notin joined /\ UNCHANGED <<joined, batchOf, left, toPush>>
    BY <1>0, <1>11, LenProperties DEF Join, queueVars, taskVars, TypeInv
  <2>2. QED
    BY <1>0, <2>1 DEF MainInv
<1>12. ASSUME JoinWait PROVE MainInv'
  <2>1. /\ pc[Main] = "join" /\ pc'[Main] = "idle" /\ joined' = joined \union {joining}
        /\ UNCHANGED <<batchOf, left, toPush>>
    BY <1>0, <1>12 DEF JoinWait, queueVars, taskVars
  <2>2. QED
    BY <1>0, <2>1 DEF MainInv
<1>13. ASSUME Destroy PROVE MainInv'
  <2>1. pc[Main] = "idle" /\ pc'[Main] = "hasTask"
        /\ UNCHANGED <<toPush, joining, joined, left, batchOf>>
    BY <1>0, <1>13 DEF Destroy, queueVars, taskVars, resultVars
  <2>2. QED
    BY <1>0, <2>1 DEF MainInv
<1>14. ASSUME HasTask PROVE MainInv'
  <2>1. /\ pc[Main] = "hasTask" /\ pc'[Main] \in {"tryAcquire", "exit"}
        /\ pc'[Main] = "exit" => mTaskQueue = <<>>
        /\ UNCHANGED <<toPush, joining, joined, left, batchOf, mTaskQueue>>
    BY <1>0, <1>14 DEF HasTask, queueVars, taskVars, resultVars
  <2>2. pc'[Main] = "exit" => Len(mTaskQueue') = 0
    BY <2>1
  <2>3. QED
    BY <1>0, <2>1, <2>2 DEF MainInv
<1>15. ASSUME Exit PROVE MainInv'
  <2>1. /\ pc[Main] = "exit" /\ pc'[Main] = "joinThreads"
        /\ UNCHANGED <<toPush, joining, joined, left, batchOf, mTaskQueue, inner>>
    BY <1>0, <1>15 DEF Exit, queueVars, taskVars, resultVars
  <2>2. QED
    BY <1>0, <2>1 DEF MainInv
<1>16. ASSUME JoinThreads PROVE MainInv'
  <2>1. /\ pc[Main] = "joinThreads" /\ pc'[Main] = "returned"
        /\ \A t \in Threads : pc'[t] = "exited"
        /\ UNCHANGED <<toPush, joining, joined, left, batchOf, mTaskQueue, inner>>
    BY <1>0, <1>16 DEF JoinThreads, queueVars, taskVars, resultVars
  <2>2. QED
    BY <1>0, <2>1 DEF MainInv
<1>17. QED
  BY <1>2, <1>3, <1>4, <1>5, <1>6, <1>7, <1>8, <1>9, <1>10, <1>11, <1>12, <1>13, <1>14,
     <1>15, <1>16 DEF Next, Call, Inside, Worker, Step, Task
-----------------------------------------------------------------------------
(* Results.                                                                *)
LEMMA PendingFinite ==
  ASSUME TypeInv, NEW b
  PROVE  IsFiniteSet(Pending(b)) /\ Cardinality(Pending(b)) \in Nat
<1>1. 1 \in Int /\ Len(batchOf) \in Int
  BY LenProperties DEF TypeInv
<1>2. IsFiniteSet(1 .. Len(batchOf))
  BY <1>1, FS_Interval
<1>3. IsFiniteSet(Pending(b))
  BY <1>2, FS_Subset DEF Pending
<1>4. QED
  BY <1>3, FS_CardinalityType

(* A thread at onTaskComplete or at the signal: its task and its result.   *)
LEMMA AtResult ==
  ASSUME TypeInv, TaskInv, ResultInv, NEW p \in Callers, pc[p] \in {"complete", "notify"}
  PROVE  /\ f[p] \in 1 .. Len(batchOf) /\ f[p] \in done
         /\ batchOf[f[p]] \in 1 .. Len(left) /\ Len(left) \in Nat /\ Len(batchOf) \in Nat
<1>1. /\ Len(batchOf) \in Nat /\ Len(mTaskQueue) \in Nat /\ Len(left) \in Nat
      /\ \A i \in 1 .. Len(batchOf) : batchOf[i] \in Nat
  BY LenProperties, ElementOfSeq DEF TypeInv
<1>2. p \in Holders
  BY DEF Holders
<1>3. f[p] \in 1 .. Len(batchOf) /\ f[p] \in done
  BY <1>1, <1>2 DEF TaskInv, Taken
<1>4. QED
  BY <1>1, <1>3 DEF ResultInv

(* A step that concerns no result.                                         *)
LEMMA ResultKept ==
  ASSUME ResultInv, UNCHANGED <<batchOf, left, mAllComplete, toPush, done>>,
         \A p \in Callers : /\ pc[p] \in Late => f'[p] = f[p] /\ pc'[p] = pc[p]
                            /\ pc'[p] \in Late => pc[p] \in Late
  PROVE  ResultInv'
<1>1. \A p \in Callers : /\ pc'[p] \in Late <=> pc[p] \in Late
                         /\ pc[p] \in Late => f'[p] = f[p] /\ pc'[p] = pc[p]
  OBVIOUS
<1>2. \A t : (\E p \in Callers : pc'[p] = "complete" /\ f'[p] = t)
             <=> \E p \in Callers : pc[p] = "complete" /\ f[p] = t
  BY <1>1 DEF Late
<1>3. \A b : Pending(b)' = Pending(b) /\ Unpushed(b)' = Unpushed(b)
  BY <1>2 DEF Pending, Unpushed
<1>4. /\ \A p \in Callers : pc'[p] \in {"complete", "notify"} => batchOf'[f'[p]] # 0
      /\ \A p \in Callers : pc'[p] = "notify" => left'[batchOf'[f'[p]]] = 0
  BY <1>1 DEF ResultInv, Late
<1>5. QED
  BY <1>3, <1>4 DEF ResultInv

(* A step that posts a task, of the newest batch or of none.               *)
LEMMA ResultPushed ==
  ASSUME TypeInv, TypeInv', TaskInv, ResultInv, NEW b \in Nat, PushTask(b),
         UNCHANGED <<f, left, mAllComplete, done>>,
         \/ b = 0 /\ toPush' = toPush
         \/ b = Len(left) /\ toPush' = toPush - 1,
         \A p \in Callers : pc[p] \in Late \/ pc'[p] \in Late => pc'[p] = pc[p]
  PROVE  ResultInv'
<1> DEFINE n == Len(batchOf) + 1
<1>1. /\ Len(batchOf) \in Nat /\ Len(left) \in Nat /\ Len(mTaskQueue) \in Nat
      /\ Len(batchOf') = n /\ batchOf'[n] = b
      /\ \A t \in 1 .. Len(batchOf) : batchOf'[t] = batchOf[t]
  BY PushGrows, LenProperties DEF TypeInv
<1>2. n \notin done
  BY <1>1 DEF TaskInv, Taken
<1>3. \A t : (\E p \in Callers : pc'[p] = "complete" /\ f'[p] = t)
             <=> \E p \in Callers : pc[p] = "complete" /\ f[p] = t
  BY DEF Late
<1>4. ASSUME NEW c PROVE Pending(c)' = Pending(c) \union (IF c = b THEN {n} ELSE {})
  <2>1. ASSUME NEW t \in 1 .. Len(batchOf) PROVE t \in Pending(c)' <=> t \in Pending(c)
    <3>1. /\ t \in 1 .. Len(batchOf') /\ batchOf'[t] = batchOf[t]
      BY <1>1
    <3>2. /\ t \in Pending(c)' <=>
               (batchOf'[t] = c /\ (t \in done' => \E p \in Callers : pc'[p] = "complete" /\ f'[p] = t))
          /\ t \in Pending(c) <=>
               (batchOf[t] = c /\ (t \in done => \E p \in Callers : pc[p] = "complete" /\ f[p] = t))
      BY <3>1 DEF Pending
    <3>3. QED
      BY <1>3, <3>1, <3>2
  <2>2. n \in Pending(c)' <=> c = b
    BY <1>1, <1>2 DEF Pending
  <2>3. \A t \in Pending(c)' : t \in 1 .. Len(batchOf) \/ t = n
    BY <1>1 DEF Pending
  <2>4. \A t \in Pending(c) : t \in 1 .. Len(batchOf)
    BY DEF Pending
  <2>5. QED
    BY <2>1, <2>2, <2>3, <2>4
<1>5. ASSUME NEW c \in 1 .. Len(left)
      PROVE left[c] = Cardinality(Pending(c)') + Unpushed(c)'
  <2>1. left[c] = Cardinality(Pending(c)) + Unpushed(c)
    BY DEF ResultInv
  <2>2. CASE c = b
    <3>1. n \notin Pending(c)
      BY <1>1 DEF Pending
    <3>2. Cardinality(Pending(c)') = Cardinality(Pending(c)) + 1 /\ Cardinality(Pending(c)) \in Nat
      BY <1>4, <2>2, <3>1, PendingFinite, FS_AddElement
    <3>3. Unpushed(c) = toPush /\ Unpushed(c)' = toPush - 1 /\ toPush \in Nat
      BY <1>1, <2>2 DEF Unpushed, TypeInv
    <3>4. QED
      BY <2>1, <3>2, <3>3
  <2>3. CASE c # b
    BY <1>1, <1>4, <2>1, <2>3 DEF Unpushed
  <2>4. QED
    BY <2>2, <2>3
<1>6. ASSUME NEW p \in Callers, pc'[p] \in {"complete", "notify"}
      PROVE  /\ batchOf'[f'[p]] = batchOf[f[p]] /\ pc[p] = pc'[p]
  <2>1. pc[p] = pc'[p]
    BY <1>6 DEF Late
  <2>2. f[p] \in 1 .. Len(batchOf)
    BY <1>6, <2>1, AtResult
  <2>3. QED
    BY <1>1, <2>1, <2>2
<1>7. \A t \in 1 .. Len(batchOf') : batchOf'[t] <= Len(left')
  BY <1>1 DEF ResultInv
<1>8. QED
  BY <1>5, <1>6, <1>7 DEF ResultInv

LEMMA ResultStep == IInv /\ TypeInv' /\ Next => ResultInv'
<1> SUFFICES ASSUME TypeInv, TypeInv', TaskInv, ResultInv, MainInv, Next PROVE ResultInv'
  BY DEF IInv
<1> USE PoolAssumption DEF Callers
<1>0. /\ pc \in [Callers -> WorkerLabels \union MainLabels] /\ f \in [Callers -> Nat]
      /\ Len(mTaskQueue) \in Nat /\ Len(batchOf) \in Nat /\ Len(left) \in Nat /\ toPush \in Nat
  BY LenProperties DEF TypeInv
<1>1. ASSUME NEW p \in Callers, NEW from, NEW to, GoTo(p, from, to), from \notin Late, to \notin Late,
             UNCHANGED <<batchOf, left, mAllComplete, toPush, done>>,
             \A q \in Callers : q # p => f'[q] = f[q]
      PROVE ResultInv'
  <2>1. \A q \in Callers : /\ pc[q] \in Late => f'[q] = f[q] /\ pc'[q] = pc[q]
                           /\ pc'[q] \in Late => pc[q] \in Late
    BY <1>0, <1>1
  <2>2. QED
    BY <1>1, <2>1, ResultKept
<1>2. ASSUME NEW p \in Callers, Release(p) PROVE ResultInv'
  <2>1. UNCHANGED <<batchOf, left, mAllComplete, toPush, done, f>>
    BY <1>2 DEF Release, taskVars, resultVars
  <2>2. PICK from \in {"release", "releaseIn"}, to \in {"push", "idle", "run"} : GoTo(p, from, to)
    BY <1>2 DEF Release
  <2>3. QED
    BY <1>1, <2>1, <2>2 DEF Late
<1>3. ASSUME NEW p \in Callers, TryAcquire(p) \/ TimesOut(p) \/ Pop(p) PROVE ResultInv'
  <2>1. UNCHANGED <<batchOf, left, mAllComplete, toPush, done>>
    BY <1>3 DEF TryAcquire, TimesOut, Pop, taskVars, resultVars, queueVars
  <2>2. PICK from \in {"tryAcquire", "pop"}, to \in {"pop", "hasTask", "check", "run"} :
          GoTo(p, from, to)
    BY <1>3 DEF TryAcquire, TimesOut, Pop, Again
  <2>3. \A q \in Callers : q # p => f'[q] = f[q]
    BY <1>0, <1>3 DEF TryAcquire, TimesOut, Pop
  <2>4. QED
    BY <1>1, <2>1, <2>2, <2>3 DEF Late
<1>4. ASSUME NEW t \in Threads, Check(t) PROVE ResultInv'
  <2>1. UNCHANGED <<batchOf, left, mAllComplete, toPush, done, f>>
    BY <1>4 DEF Check, taskVars, resultVars, queueVars
  <2>2. PICK to \in {"exited", "tryAcquire"} : GoTo(t, "check", to)
    BY <1>4 DEF Check
  <2>3. QED
    BY <1>1, <2>1, <2>2 DEF Late
<1>5. ASSUME Destroy \/ (\E b \in DOMAIN left : Join(b)) \/ HasTask \/ Exit \/ JoinThreads
      PROVE ResultInv'
  <2>1. PICK from \in {"idle", "hasTask", "exit", "joinThreads"},
             to \in {"hasTask", "join", "tryAcquire", "exit", "joinThreads", "returned"} :
          GoTo(Main, from, to)
    BY <1>5 DEF Destroy, Join, HasTask, Exit, JoinThreads
  <2>2. UNCHANGED <<batchOf, left, mAllComplete, toPush, done, f>>
    BY <1>5 DEF Destroy, Join, HasTask, Exit, JoinThreads, taskVars, resultVars, queueVars
  <2>3. QED
    BY <1>1, <2>1, <2>2 DEF Late
<1>6. ASSUME NEW p \in Callers, PostInTask(p) PROVE ResultInv'
  <2>1. /\ PushTask(0) /\ UNCHANGED <<f, left, mAllComplete, done, toPush>>
        /\ GoTo(p, "run", "releaseIn")
    BY <1>6 DEF PostInTask, resultVars
  <2>2. \A q \in Callers : pc[q] \in Late \/ pc'[q] \in Late => pc'[q] = pc[q]
    BY <1>0, <2>1 DEF Late
  <2>3. QED
    BY <2>1, <2>2, ResultPushed
<1>7. ASSUME Post PROVE ResultInv'
  <2>1. /\ PushTask(0) /\ UNCHANGED <<f, left, mAllComplete, done, toPush>>
        /\ GoTo(Main, "idle", "release")
    BY <1>7 DEF Post, resultVars
  <2>2. \A q \in Callers : pc[q] \in Late \/ pc'[q] \in Late => pc'[q] = pc[q]
    BY <1>0, <2>1 DEF Late
  <2>3. QED
    BY <2>1, <2>2, ResultPushed
<1>8. ASSUME PostNext PROVE ResultInv'
  <2>1. /\ PushTask(Len(left)) /\ UNCHANGED <<f, left, mAllComplete, done>>
        /\ toPush' = toPush - 1 /\ GoTo(Main, "push", "release")
    BY <1>8 DEF PostNext, resultVars
  <2>2. \A q \in Callers : pc[q] \in Late \/ pc'[q] \in Late => pc'[q] = pc[q]
    BY <1>0, <2>1 DEF Late
  <2>3. QED
    BY <1>0, <2>1, <2>2, ResultPushed
<1>9. ASSUME NEW n \in Sizes, PostMulti(n) PROVE ResultInv'
  <2>1. /\ toPush = 0 /\ toPush' = n /\ left' = Append(left, n)
        /\ mAllComplete' = Append(mAllComplete, 0)
        /\ GoTo(Main, "idle", "push") /\ UNCHANGED <<f, batchOf, done>>
    BY <1>0, <1>9 DEF PostMulti, MainInv, queueVars, taskVars
  <2>2. /\ Len(mAllComplete) = Len(left) /\ n \in Nat
        /\ Len(left') = Len(left) + 1 /\ Len(mAllComplete') = Len(left) + 1
        /\ \A b \in 1 .. Len(left) : left'[b] = left[b] /\ mAllComplete'[b] = mAllComplete[b]
        /\ left'[Len(left) + 1] = n /\ mAllComplete'[Len(left) + 1] = 0
    <3>1. Len(mAllComplete) = Len(left) /\ n \in Nat
      BY DEF ResultInv
    <3>2. QED
      BY <2>1, <3>1, ResultTypes DEF TypeInv
  <2>3. /\ \A q \in Callers : pc[q] \in Late \/ pc'[q] \in Late => pc'[q] = pc[q]
        /\ \A q \in Callers : pc'[q] = "complete" <=> pc[q] = "complete"
    BY <1>0, <2>1 DEF Late
  <2>4. \A b : Pending(b)' = Pending(b)
    BY <2>1, <2>3 DEF Pending
  <2>5. Pending(Len(left) + 1) = {}
    BY <1>0 DEF Pending, ResultInv
  <2>6. \A b \in 1 .. Len(left) : Unpushed(b) = 0 /\ Unpushed(b)' = 0
    BY <1>0, <2>1, <2>2 DEF Unpushed
  <2>7. \A b : b = Len(left) + 1 => Unpushed(b)' = n
    BY <2>1, <2>2 DEF Unpushed
  <2>8. ASSUME NEW b \in 1 .. Len(left')
        PROVE  /\ left'[b] = Cardinality(Pending(b)') + Unpushed(b)'
               /\ mAllComplete'[b] > 0 => left'[b] = 0
    <3>1. CASE b \in 1 .. Len(left)
      BY <2>2, <2>4, <2>6, <3>1 DEF ResultInv
    <3>2. CASE b = Len(left) + 1
      <4>1. Cardinality(Pending(b)') = 0
        BY <2>4, <2>5, <3>2, FS_EmptySet
      <4>2. QED
        BY <2>2, <2>7, <3>2, <4>1
    <3>3. QED
      BY <1>0, <2>2, <2>8, <3>1, <3>2
  <2>9. ASSUME NEW p \in Callers, pc'[p] \in {"complete", "notify"}
        PROVE  /\ pc[p] = pc'[p] /\ batchOf'[f'[p]] = batchOf[f[p]]
               /\ batchOf[f[p]] \in 1 .. Len(left)
    <3>1. pc[p] = pc'[p]
      BY <2>3, <2>9 DEF Late
    <3>2. QED
      BY <2>1, <2>9, <3>1, AtResult
  <2>10. \A t \in 1 .. Len(batchOf') : batchOf'[t] <= Len(left')
    <3>1. \A t \in 1 .. Len(batchOf) : batchOf[t] \in Nat
      BY ElementOfSeq DEF TypeInv
    <3>2. QED
      BY <1>0, <2>1, <2>2, <3>1 DEF ResultInv
  <2>11. /\ \A p \in Callers : pc'[p] \in {"complete", "notify"} => batchOf'[f'[p]] # 0
         /\ \A p \in Callers : pc'[p] = "notify" => left'[batchOf'[f'[p]]] = 0
    BY <2>2, <2>9 DEF ResultInv
  <2>12. QED
    BY <2>2, <2>8, <2>10, <2>11 DEF ResultInv
<1>10. ASSUME JoinWait PROVE ResultInv'
  <2>1. /\ mAllComplete' = [mAllComplete EXCEPT ![joining] = @ - 1] /\ joining \in 1 .. Len(left)
        /\ Len(mAllComplete) = Len(left)
        /\ GoTo(Main, "join", "idle") /\ UNCHANGED <<f, batchOf, done, left, toPush>>
    BY <1>0, <1>10 DEF JoinWait, MainInv, queueVars, taskVars, ResultInv
  <2>2. /\ Len(mAllComplete') = Len(left)
        /\ \A b \in 1 .. Len(left) : mAllComplete'[b] > 0 => mAllComplete[b] > 0
    <3>1. \A b \in 1 .. Len(left) : mAllComplete[b] \in Nat
      BY <2>1, ElementOfSeq DEF TypeInv
    <3>2. DOMAIN mAllComplete = 1 .. Len(left)
      BY <2>1, LenProperties DEF TypeInv
    <3>3. \A b \in 1 .. Len(left) :
            mAllComplete'[b] = IF b = joining THEN mAllComplete[b] - 1 ELSE mAllComplete[b]
      BY <2>1, <3>2
    <3>4. Len(mAllComplete') = Len(left)
      <4>1. DOMAIN mAllComplete' = 1 .. Len(left)
        BY <2>1, <3>2
      <4>2. QED
        BY <1>0, <4>1, LenProperties DEF TypeInv
    <3>5. QED
      BY <3>1, <3>3, <3>4
  <2>3. /\ \A q \in Callers : pc[q] \in Late \/ pc'[q] \in Late => pc'[q] = pc[q]
        /\ \A q \in Callers : pc'[q] = "complete" <=> pc[q] = "complete"
    BY <1>0, <2>1 DEF Late
  <2>4. \A b : Pending(b)' = Pending(b) /\ Unpushed(b)' = Unpushed(b)
    BY <2>1, <2>3 DEF Pending, Unpushed
  <2>5. QED
    BY <2>1, <2>2, <2>3, <2>4 DEF ResultInv, Late
<1>11. ASSUME NEW p \in Callers, Finish(p) PROVE ResultInv'
  <2>1. /\ pc[p] = "run" /\ done' = done \union {f[p]} /\ p \in Holders
        /\ UNCHANGED <<batchOf, left, mAllComplete, toPush>>
    BY <1>11 DEF Finish, queueVars, taskVars, resultVars, Holders
  <2>2. f[p] \notin done
    BY <2>1 DEF TaskInv
  <2>3. /\ pc'[p] = "complete" <=> batchOf[f[p]] # 0
        /\ pc'[p] # "notify"
        /\ pc'[p] = "complete" => f'[p] = f[p]
        /\ \A q \in Callers \ {p} : pc'[q] = pc[q] /\ f'[q] = f[q]
    BY <1>0, <1>11 DEF Finish, Again
  <2>4. ASSUME NEW b \in 1 .. Len(left), NEW t \in 1 .. Len(batchOf)
        PROVE t \in Pending(b)' <=> t \in Pending(b)
    <3>1. /\ t \in Pending(b)' <=>
               (batchOf[t] = b /\ (t \in done' => \E q \in Callers : pc'[q] = "complete" /\ f'[q] = t))
          /\ t \in Pending(b) <=>
               (batchOf[t] = b /\ (t \in done => \E q \in Callers : pc[q] = "complete" /\ f[q] = t))
      BY <2>1 DEF Pending
    <3>2. CASE t = f[p]
      <4>1. t \in Pending(b) <=> batchOf[t] = b
        BY <2>2, <3>1, <3>2
      <4>2. batchOf[t] = b => pc'[p] = "complete" /\ f'[p] = t
        BY <2>3, <3>2, <1>0
      <4>3. QED
        BY <3>1, <4>1, <4>2
    <3>3. CASE t # f[p]
      <4>1. t \in done' <=> t \in done
        BY <2>1, <3>3
      <4>2. \A q \in Callers : (pc'[q] = "complete" /\ f'[q] = t) <=> (pc[q] = "complete" /\ f[q] = t)
        BY <2>1, <2>3, <3>3
      <4>3. QED
        BY <3>1, <4>1, <4>2
    <3>4. QED
      BY <3>2, <3>3
  <2>5. \A b \in 1 .. Len(left) : Pending(b)' = Pending(b) /\ Unpushed(b)' = Unpushed(b)
    <3>1. \A b : Pending(b) \subseteq 1 .. Len(batchOf) /\ Pending(b)' \subseteq 1 .. Len(batchOf)
      BY <2>1 DEF Pending
    <3>2. \A b : Unpushed(b)' = Unpushed(b)
      BY <2>1 DEF Unpushed
    <3>3. QED
      BY <2>4, <3>1, <3>2
  <2>6. \A b \in 1 .. Len(left') : left'[b] = Cardinality(Pending(b)') + Unpushed(b)'
    BY <2>1, <2>5 DEF ResultInv
  <2>7. /\ \A q \in Callers : pc'[q] \in {"complete", "notify"} => batchOf'[f'[q]] # 0
        /\ \A q \in Callers : pc'[q] = "notify" => left'[batchOf'[f'[q]]] = 0
    BY <2>1, <2>3 DEF ResultInv
  <2>8. QED
    BY <2>1, <2>6, <2>7 DEF ResultInv
<1>12. ASSUME NEW p \in Callers, Complete(p) PROVE ResultInv'
  <2>0. PICK d \in 1 .. Len(left) : d = batchOf[f[p]]
    BY <1>12, AtResult DEF Complete
  <2>1. /\ pc[p] = "complete" /\ f[p] \in 1 .. Len(batchOf) /\ f[p] \in done
        /\ left' = [left EXCEPT ![d] = @ - 1]
        /\ UNCHANGED <<batchOf, mAllComplete, toPush, done>>
    BY <1>12, <2>0, AtResult DEF Complete, queueVars, taskVars
  <2>2. /\ pc'[p] \in Late => pc'[p] = "notify" /\ left[d] = 1 /\ f'[p] = f[p]
        /\ pc'[p] # "complete"
        /\ \A q \in Callers \ {p} : pc'[q] = pc[q] /\ f'[q] = f[q]
    BY <1>0, <1>12, <2>0 DEF Complete, Again, Late
  <2>3. \A q \in Callers \ {p} : pc[q] = "complete" => f[q] # f[p]
    <3>1. p \in Holders /\ \A q \in Callers : pc[q] = "complete" => q \in Holders
      BY <2>1 DEF Holders
    <3>2. QED
      BY <3>1 DEF TaskInv
  <2>4. ASSUME NEW b \in 1 .. Len(left), NEW t \in 1 .. Len(batchOf)
        PROVE t \in Pending(b)' <=> t \in Pending(b) /\ t # f[p]
    <3>1. /\ t \in Pending(b)' <=>
               (batchOf[t] = b /\ (t \in done => \E q \in Callers : pc'[q] = "complete" /\ f'[q] = t))
          /\ t \in Pending(b) <=>
               (batchOf[t] = b /\ (t \in done => \E q \in Callers : pc[q] = "complete" /\ f[q] = t))
      BY <2>1 DEF Pending
    <3>2. CASE t = f[p]
      <4>1. ~ \E q \in Callers : pc'[q] = "complete" /\ f'[q] = t
        BY <2>2, <2>3, <3>2
      <4>2. QED
        BY <2>1, <3>1, <3>2, <4>1
    <3>3. CASE t # f[p]
      <4>1. \A q \in Callers : (pc'[q] = "complete" /\ f'[q] = t) <=> (pc[q] = "complete" /\ f[q] = t)
        BY <2>2, <3>3
      <4>2. QED
        BY <3>1, <3>3, <4>1
    <3>4. QED
      BY <3>2, <3>3
  <2>5. \A b \in 1 .. Len(left) : Pending(b)' = Pending(b) \ {f[p]} /\ Unpushed(b)' = Unpushed(b)
    <3>1. \A b : Pending(b) \subseteq 1 .. Len(batchOf) /\ Pending(b)' \subseteq 1 .. Len(batchOf)
      BY <2>1 DEF Pending
    <3>2. \A b : Unpushed(b)' = Unpushed(b)
      BY <2>1 DEF Unpushed
    <3>3. QED
      BY <2>4, <3>1, <3>2
  <2>6. \A b \in 1 .. Len(left) : f[p] \in Pending(b) <=> b = d
    BY <2>0, <2>1 DEF Pending
  <2>7. /\ Cardinality(Pending(d)') = Cardinality(Pending(d)) - 1 /\ Cardinality(Pending(d)) \in Nat
        /\ Cardinality(Pending(d)) # 0
    <3>1. IsFiniteSet(Pending(d)) /\ Cardinality(Pending(d)) \in Nat /\ f[p] \in Pending(d)
      BY <2>1, <2>6, PendingFinite
    <3>2. Cardinality(Pending(d) \ {f[p]}) = Cardinality(Pending(d)) - 1
      BY <3>1, FS_RemoveElement
    <3>3. Cardinality(Pending(d)) # 0
      BY <3>1, FS_EmptySet
    <3>4. QED
      BY <2>1, <2>5, <3>1, <3>2, <3>3
  <2>8. /\ Len(left') = Len(left) /\ left'[d] = left[d] - 1
        /\ \A b \in (1 .. Len(left)) \ {d} : left'[b] = left[b]
    BY <1>0, <2>1, LenProperties DEF TypeInv
  <2>9. left[d] = Cardinality(Pending(d)) + Unpushed(d) /\ Unpushed(d) \in Nat
    BY <1>0, <2>1 DEF ResultInv, Unpushed
  <2>10. left[d] # 0 /\ left[d] \in Nat
    BY <2>7, <2>9
  <2>11. ASSUME NEW b \in 1 .. Len(left)
         PROVE left'[b] = Cardinality(Pending(b)') + Unpushed(b)'
    <3>1. CASE b = d
      BY <2>5, <2>7, <2>8, <2>9, <3>1
    <3>2. CASE b # d
      <4>1. Pending(b)' = Pending(b)
        BY <2>5, <2>6, <3>2
      <4>2. QED
        BY <2>5, <2>8, <3>2, <4>1 DEF ResultInv
    <3>3. QED
      BY <3>1, <3>2
  <2>12. \A b \in 1 .. Len(left) : mAllComplete[b] > 0 => left'[b] = 0
    BY <2>8, <2>10 DEF ResultInv
  <2>13. \A q \in Callers : pc'[q] \in {"complete", "notify"} => batchOf'[f'[q]] # 0
    BY <2>0, <2>1, <2>2 DEF ResultInv, Late
  <2>14. ASSUME NEW q \in Callers, pc'[q] = "notify" PROVE left'[batchOf'[f'[q]]] = 0
    <3>1. CASE q = p
      BY <2>0, <2>1, <2>2, <2>8, <2>14, <3>1 DEF Late
    <3>2. CASE q # p
      <4>1. pc[q] = "notify" /\ f'[q] = f[q] /\ left[batchOf[f[q]]] = 0
        BY <2>2, <2>14, <3>2 DEF ResultInv
      <4>2. batchOf[f[q]] \in (1 .. Len(left)) \ {d}
        BY <2>0, <2>10, <4>1, AtResult
      <4>3. QED
        BY <2>1, <2>8, <4>1, <4>2
    <3>3. QED
      BY <3>1, <3>2
  <2>15. /\ Len(mAllComplete') = Len(left')
         /\ \A t \in 1 .. Len(batchOf') : batchOf'[t] <= Len(left')
    BY <2>1, <2>8 DEF ResultInv
  <2>16. QED
    BY <2>1, <2>8, <2>11, <2>12, <2>13, <2>14, <2>15 DEF ResultInv
<1>13. ASSUME NEW p \in Callers, Notify(p) PROVE ResultInv'
  <2>0. PICK d \in 1 .. Len(left) : d = batchOf[f[p]]
    BY <1>13, AtResult DEF Notify
  <2>1. /\ pc[p] = "notify" /\ left[d] = 0
        /\ mAllComplete' = [mAllComplete EXCEPT ![d] = @ + 1]
        /\ UNCHANGED <<batchOf, left, toPush, done>>
    BY <1>13, <2>0 DEF Notify, queueVars, taskVars, ResultInv
  <2>2. /\ pc'[p] \notin Late
        /\ \A q \in Callers \ {p} : pc'[q] = pc[q] /\ f'[q] = f[q]
    BY <1>0, <1>13 DEF Notify, Again, Late
  <2>3. /\ Len(mAllComplete') = Len(left)
        /\ \A b \in (1 .. Len(left)) \ {d} : mAllComplete'[b] = mAllComplete[b]
    BY <2>1 DEF ResultInv, TypeInv
  <2>4. \A q \in Callers : pc'[q] \in Late => q # p
    BY <2>2
  <2>5. \A t : (\E q \in Callers : pc'[q] = "complete" /\ f'[q] = t)
               <=> \E q \in Callers : pc[q] = "complete" /\ f[q] = t
    BY <2>1, <2>2 DEF Late
  <2>6. \A b : Pending(b)' = Pending(b) /\ Unpushed(b)' = Unpushed(b)
    <3>1. UNCHANGED <<batchOf, left, toPush, done>>
      BY <2>1
    <3>2. QED
      BY <2>5, <3>1 DEF Pending, Unpushed
  <2>7. \A b \in 1 .. Len(left) : mAllComplete'[b] > 0 => left[b] = 0
    BY <2>1, <2>3 DEF ResultInv
  <2>8. /\ \A q \in Callers : pc'[q] \in {"complete", "notify"} => batchOf'[f'[q]] # 0
        /\ \A q \in Callers : pc'[q] = "notify" => left'[batchOf'[f'[q]]] = 0
    BY <2>1, <2>2, <2>4 DEF ResultInv, Late
  <2>9. QED
    BY <2>1, <2>3, <2>6, <2>7, <2>8 DEF ResultInv
<1>14. QED
  BY <1>2, <1>3, <1>4, <1>5, <1>6, <1>7, <1>8, <1>9, <1>10, <1>11, <1>12, <1>13
     DEF Next, Call, Inside, Worker, Step, Task
-----------------------------------------------------------------------------
(* The invariant is inductive.                                             *)
LEMMA Stutter == IInv /\ UNCHANGED vars => IInv'
<1> SUFFICES ASSUME IInv, UNCHANGED vars PROVE IInv'
  OBVIOUS
<1> USE DEF vars, queueVars, taskVars, resultVars
<1>1. TypeInv'
  BY DEF IInv, TypeInv
<1>2. PermitInv'
  BY DEF IInv, PermitInv, InTransit
<1>3. TaskInv'
  BY DEF IInv, TaskInv, Holders, Taken
<1>4. ResultInv'
  BY ResultKept DEF IInv
<1>5. MainInv'
  BY DEF IInv, MainInv
<1>6. QED
  BY <1>1, <1>2, <1>3, <1>4, <1>5 DEF IInv

THEOREM Inductive == Spec => []IInv
<1>1. IInv /\ Next => IInv'
  BY TypeStep, PermitStep, TaskStep, MainStep, ResultStep DEF IInv
<1>2. IInv /\ [Next]_vars => IInv'
  BY <1>1, Stutter
<1>3. QED
  BY InitIInv, <1>2, PTL DEF Spec
-----------------------------------------------------------------------------
(* popTask never looks at the front of an empty queue: the threads that    *)
(* have come past the semaphore are fewer than the permits and the queue   *)
(* is no shorter than both together.                                       *)
THEOREM ThreadPoolNoEmptyPop == Spec => []NoEmptyPop
<1>1. IInv => NoEmptyPop
  <2> SUFFICES ASSUME IInv PROVE NoEmptyPop
    OBVIOUS
  <2>1. Popping \subseteq InTransit /\ InTransit \subseteq Callers
    BY DEF Popping, InTransit
  <2>2. IsFiniteSet(InTransit) /\ Cardinality(InTransit) \in Nat /\ Cardinality(Popping) \in Nat
    BY <2>1, CallersFinite
  <2>3. Cardinality(Popping) <= Cardinality(InTransit)
    BY <2>1, <2>2, FS_Subset
  <2>4. mTaskCount \in Nat
    BY DEF IInv, TypeInv
  <2>5. QED
    BY <2>2, <2>3, <2>4 DEF IInv, PermitInv, NoEmptyPop
<1>2. QED
  BY <1>1, Inductive, PTL

(* The destructor returns when every task the client has posted has run:   *)
(* a task that is still in the queue was posted by a task, and no worker   *)
(* holds one.                                                              *)
THEOREM ThreadPoolDrainedAtExit == Spec => []DrainedAtExit
<1>1. IInv => DrainedAtExit
  <2> SUFFICES ASSUME IInv, pc[Main] = "returned", NEW t \in DOMAIN batchOf, t \notin inner
               PROVE  t \in done
    BY DEF DrainedAtExit
  <2>1. /\ Len(batchOf) \in Nat /\ Len(mTaskQueue) \in Nat /\ t \in 1 .. Len(batchOf)
    BY LenProperties DEF IInv, TypeInv
  <2>2. Holders = {}
    BY DEF Holders, Callers, IInv, MainInv
  <2>3. t \notin Taken + 1 .. Len(batchOf)
    <3>1. SUFFICES ASSUME t \in Taken + 1 .. Len(batchOf) PROVE t \in inner
      OBVIOUS
    <3>2. t - Taken \in 1 .. Len(mTaskQueue)
      BY <2>1, <3>1 DEF Taken, IInv, TaskInv
    <3>3. mTaskQueue[t - Taken] = t
      BY <2>1, <3>2 DEF Taken, IInv, TaskInv
    <3>4. QED
      BY <3>2, <3>3 DEF IInv, MainInv
  <2>4. t \in 1 .. Taken
    BY <2>1, <2>3 DEF Taken, IInv, TaskInv
  <2>5. QED
    BY <2>2, <2>4 DEF IInv, TaskInv
<1>2. QED
  BY <1>1, Inductive, PTL
-----------------------------------------------------------------------------
(* ThreadPool implements PoolSpec: PushTask is a Post, popTask a Start,    *)
(* the end of safeCall a Finish, the return of join a Join and that of the *)
(* destructor a Close; every other step changes nothing the client sees.   *)

Closed == pc[Main] = "returned"
poolVars == <<batchOf, mTaskQueue, Running, done, joined, Closed>>

LEMMA Quiet ==
  ASSUME TypeInv, NEW p \in Callers, NEW from, NEW to, GoTo(p, from, to),
         from \notin {"run", "releaseIn", "joinThreads"}, to \notin {"run", "releaseIn", "returned"},
         p = Main => from # "returned",
         \A q \in Callers : q # p => f'[q] = f[q]
  PROVE  Running' = Running /\ Closed' = Closed
<1>1. pc \in [Callers -> WorkerLabels \union MainLabels] /\ Main \in Callers
  BY DEF TypeInv, Callers
<1>2. \A q \in Callers : /\ pc'[q] \in {"run", "releaseIn"} <=> pc[q] \in {"run", "releaseIn"}
                         /\ pc[q] \in {"run", "releaseIn"} => f'[q] = f[q]
  BY <1>1
<1>3. QED
  BY <1>1, <1>2 DEF Running, Closed

LEMMA Simulation == IInv /\ IInv' /\ Next => Pool!Next \/ UNCHANGED poolVars
<1> SUFFICES ASSUME IInv, IInv', Next PROVE Pool!Next \/ UNCHANGED poolVars
  OBVIOUS
<1> USE PoolAssumption DEF Callers
<1>0. /\ TypeInv /\ pc \in [Callers -> WorkerLabels \union MainLabels] /\ f \in [Callers -> Nat]
      /\ Len(mTaskQueue) \in Nat /\ Len(batchOf) \in Nat /\ Len(left) \in Nat
  BY LenProperties DEF IInv, TypeInv
<1>1. ASSUME NEW p \in Callers, pc[p] # "exited", p = Main => pc[p] # "returned" PROVE ~Closed
  BY <1>1 DEF Closed, IInv, MainInv
(* A step that moves no task                                               *)
<1>2. ASSUME NEW p \in Callers, TryAcquire(p) \/ TimesOut(p) \/ Complete(p) \/ Notify(p)
      PROVE UNCHANGED poolVars
  <2>1. PICK from \in {"tryAcquire", "complete", "notify"}, to \in {"pop", "notify", "hasTask", "check"} :
          GoTo(p, from, to)
    BY <1>2 DEF TryAcquire, TimesOut, Complete, Notify, Again
  <2>2. /\ UNCHANGED <<batchOf, mTaskQueue, done, joined>>
        /\ \A q \in Callers : q # p => f'[q] = f[q]
    BY <1>0, <1>2 DEF TryAcquire, TimesOut, Complete, Notify, queueVars, taskVars, resultVars
  <2>3. Running' = Running /\ Closed' = Closed
    BY <1>0, <2>1, <2>2, Quiet
  <2>4. QED
    BY <2>2, <2>3 DEF poolVars
<1>3. ASSUME NEW t \in Threads, Check(t) PROVE UNCHANGED poolVars
  <2>1. PICK to \in {"exited", "tryAcquire"} : GoTo(t, "check", to)
    BY <1>3 DEF Check
  <2>2. UNCHANGED <<batchOf, mTaskQueue, done, joined, f>>
    BY <1>3 DEF Check, queueVars, taskVars, resultVars
  <2>3. Running' = Running /\ Closed' = Closed
    BY <1>0, <2>1, <2>2, Quiet
  <2>4. QED
    BY <2>2, <2>3 DEF poolVars
<1>4. ASSUME Destroy \/ (\E n \in Sizes : PostMulti(n)) \/ (\E b \in DOMAIN left : Join(b))
               \/ HasTask \/ Exit
      PROVE UNCHANGED poolVars
  <2>1. PICK from \in {"idle", "hasTask", "exit"},
             to \in {"hasTask", "push", "join", "tryAcquire", "exit", "joinThreads"} :
          GoTo(Main, from, to)
    BY <1>4 DEF Destroy, PostMulti, Join, HasTask, Exit
  <2>2. UNCHANGED <<batchOf, mTaskQueue, done, joined, f>>
    BY <1>4 DEF Destroy, PostMulti, Join, HasTask, Exit, queueVars, taskVars, resultVars
  <2>3. Running' = Running /\ Closed' = Closed
    BY <1>0, <2>1, <2>2, Quiet
  <2>4. QED
    BY <2>2, <2>3 DEF poolVars
<1>5. ASSUME NEW p \in Callers, Release(p) PROVE UNCHANGED poolVars
  <2>1. UNCHANGED <<batchOf, mTaskQueue, done, joined, f>>
    BY <1>5 DEF Release, taskVars, resultVars
  <2>2. Running' = Running /\ Closed' = Closed
    <3>1. CASE GoTo(p, "release", IF toPush > 0 THEN "push" ELSE "idle")
      <4>1. PICK to \in {"push", "idle"} : GoTo(p, "release", to)
        BY <3>1
      <4>2. QED
        BY <1>0, <2>1, <4>1, Quiet
    <3>2. CASE GoTo(p, "releaseIn", "run")
      <4>1. \A q \in Callers : pc'[q] \in {"run", "releaseIn"} <=> pc[q] \in {"run", "releaseIn"}
        BY <1>0, <3>2
      <4>2. pc'[Main] = "returned" <=> pc[Main] = "returned"
        BY <1>0, <3>2
      <4>3. QED
        BY <2>1, <4>1, <4>2 DEF Running, Closed
    <3>3. QED
      BY <1>5, <3>1, <3>2 DEF Release
  <2>3. QED
    BY <2>1, <2>2 DEF poolVars
(* PushTask                                                                *)
<1>6. ASSUME NEW p \in Callers, PostInTask(p) PROVE Pool!Next
  <2>1. /\ GoTo(p, "run", "releaseIn") /\ PushTask(0) /\ UNCHANGED <<f, done, joined>>
    BY <1>6 DEF PostInTask, resultVars
  <2>2. Running' = Running /\ ~Closed /\ ~Closed'
    <3>1. \A q \in Callers : pc'[q] \in {"run", "releaseIn"} <=> pc[q] \in {"run", "releaseIn"}
      BY <1>0, <2>1
    <3>2. pc'[Main] = "returned" <=> pc[Main] = "returned"
      BY <1>0, <2>1
    <3>3. ~Closed
      BY <1>1, <2>1
    <3>4. QED
      BY <2>1, <3>1, <3>2, <3>3 DEF Running, Closed
  <2>3. 0 \notin joined
    BY <1>0 DEF IInv, MainInv
  <2>4. Pool!Post(0)
    BY <2>1, <2>2, <2>3 DEF Pool!Post, PushTask, Closed
  <2>5. QED
    BY <1>0, <2>4 DEF Pool!Next
<1>7. ASSUME Post \/ PostNext PROVE Pool!Next
  <2>1. PICK b \in {0, Len(left)}, from \in {"idle", "push"} :
          /\ GoTo(Main, from, "release") /\ PushTask(b) /\ UNCHANGED <<f, done, joined>>
          /\ b \notin joined /\ b <= Len(batchOf) + 1
    BY <1>0, <1>7 DEF Post, PostNext, resultVars, IInv, MainInv
  <2>2. Running' = Running /\ ~Closed /\ ~Closed'
    <3>1. Running' = Running /\ Closed' = Closed
      BY <1>0, <2>1, Quiet
    <3>2. QED
      BY <2>1, <3>1 DEF Closed
  <2>3. Pool!Post(b)
    BY <2>1, <2>2 DEF Pool!Post, PushTask, Closed
  <2>4. b \in 0 .. Len(batchOf) + 1
    BY <1>0, <2>1
  <2>5. QED
    BY <2>3, <2>4 DEF Pool!Next
<1>8. ASSUME NEW p \in Callers, Pop(p) PROVE Pool!Next
  <2>1. /\ GoTo(p, "pop", "run") /\ mTaskQueue # <<>> /\ mTaskQueue' = Tail(mTaskQueue)
        /\ f' = [f EXCEPT ![p] = Head(mTaskQueue)] /\ UNCHANGED <<batchOf, done, joined>>
    BY <1>8 DEF Pop, taskVars, resultVars
  <2>2. Head(mTaskQueue) = Taken + 1 /\ Taken \in Nat
    <3>1. Head(mTaskQueue) = mTaskQueue[1] /\ Len(mTaskQueue) \in Nat \ {0}
      BY <1>0, <2>1, PopShrinks
    <3>2. QED
      BY <1>0, <3>1 DEF IInv, TaskInv, Taken
  <2>3. Head(mTaskQueue) \notin Running \union done
    <3>1. \A q \in Callers : pc[q] \in {"run", "releaseIn"} => q \in Holders
      BY DEF Holders
    <3>2. QED
      BY <2>2, <3>1 DEF Running, IInv, TaskInv
  <2>4. Running' = Running \union {Head(mTaskQueue)}
    <3>1. /\ pc'[p] = "run" /\ pc[p] \notin {"run", "releaseIn"} /\ f'[p] = Head(mTaskQueue)
          /\ \A q \in Callers \ {p} : pc'[q] = pc[q] /\ f'[q] = f[q]
      BY <1>0, <2>1
    <3>2. QED
      BY <3>1 DEF Running
  <2>5. ~Closed /\ ~Closed'
    <3>1. ~Closed
      BY <1>1, <2>1
    <3>2. QED
      BY <1>0, <2>1, <3>1 DEF Closed
  <2>6. Pool!Start
    BY <2>1, <2>3, <2>4, <2>5 DEF Pool!Start, Closed
  <2>7. QED
    BY <2>6 DEF Pool!Next
(* The end of safeCall                                                     *)
<1>9. ASSUME NEW p \in Callers, Finish(p) PROVE Pool!Next
  <2>1. /\ pc[p] = "run" /\ done' = done \union {f[p]} /\ UNCHANGED <<batchOf, mTaskQueue, joined>>
    BY <1>9 DEF Finish, queueVars, taskVars, resultVars
  <2>2. /\ pc'[p] \notin {"run", "releaseIn", "returned"}
        /\ \A q \in Callers \ {p} : pc'[q] = pc[q] /\ f'[q] = f[q]
    BY <1>0, <1>9 DEF Finish, Again
  <2>3. \A q \in Callers \ {p} : pc[q] \in {"run", "releaseIn"} => f[q] # f[p]
    <3>1. p \in Holders /\ \A q \in Callers : pc[q] \in {"run", "releaseIn"} => q \in Holders
      BY <2>1 DEF Holders
    <3>2. QED
      BY <3>1 DEF IInv, TaskInv
  <2>4. f[p] \in Running /\ Running' = Running \ {f[p]}
    BY <2>1, <2>2, <2>3 DEF Running
  <2>5. Closed' = Closed
    BY <2>1, <2>2 DEF Closed
  <2>6. Pool!Finish(f[p])
    BY <2>1, <2>4, <2>5 DEF Pool!Finish, Closed
  <2>7. QED
    BY <2>4, <2>6 DEF Pool!Next
<1>10. ASSUME JoinWait PROVE Pool!Next
  <2>1. /\ joining \in (1 .. Len(left)) \ joined /\ mAllComplete[joining] > 0
        /\ GoTo(Main, "join", "idle")
        /\ joined' = joined \union {joining} /\ UNCHANGED <<f, batchOf, mTaskQueue, done>>
    BY <1>10 DEF JoinWait, IInv, MainInv, queueVars, taskVars
  <2>2. \A t \in DOMAIN batchOf : batchOf[t] = joining => t \in done
    <3>1. left[joining] = 0 /\ left[joining] = Cardinality(Pending(joining)) + Unpushed(joining)
      BY <2>1 DEF IInv, ResultInv
    <3>2. /\ IsFiniteSet(Pending(joining)) /\ Cardinality(Pending(joining)) \in Nat
          /\ Unpushed(joining) \in Nat
      BY <1>0, PendingFinite DEF Unpushed, TypeInv
    <3>3. Cardinality(Pending(joining)) = 0
      BY <3>1, <3>2
    <3>4. Pending(joining) = {}
      BY <3>2, <3>3, FS_EmptySet
    <3>5. DOMAIN batchOf = 1 .. Len(batchOf)
      BY <1>0, LenProperties DEF TypeInv
    <3>6. QED
      BY <3>4, <3>5 DEF Pending
  <2>3. Running' = Running /\ Closed' = Closed
    BY <1>0, <2>1, Quiet
  <2>4. Pool!Join(joining)
    BY <1>0, <2>1, <2>2, <2>3 DEF Pool!Join, Closed
  <2>5. joining \in 0 .. Len(batchOf) + 1
    BY <1>0, <2>1 DEF IInv, MainInv
  <2>6. QED
    BY <2>4, <2>5 DEF Pool!Next
<1>11. ASSUME JoinThreads PROVE Pool!Next
  <2>1. /\ GoTo(Main, "joinThreads", "returned") /\ \A t \in Threads : pc[t] = "exited"
        /\ UNCHANGED <<f, batchOf, mTaskQueue, done, joined>>
    BY <1>11 DEF JoinThreads, queueVars, taskVars, resultVars
  <2>2. Running = {} /\ Running' = {} /\ Closed'
    BY <1>0, <2>1 DEF Running, Closed
  <2>3. QED
    BY <2>1, <2>2 DEF Pool!Close, Pool!Next, Closed
<1>12. QED
  BY <1>2, <1>3, <1>4, <1>5, <1>6, <1>7, <1>8, <1>9, <1>10, <1>11
     DEF Next, Call, Inside, Worker, Step, Task

(* Every task is started once and in the order of the posts, a join        *)
(* returns after the last task of its result, and nothing runs once the    *)
(* destructor has returned, for any number of workers.                     *)
THEOREM ThreadPoolImplementsPool == Spec => ImplementsPool
<1>1. ASSUME Init PROVE Pool!Init
  <2>1. Main \in Callers /\ \A p \in Callers : pc[p] \in {"idle", "check"}
    BY <1>1 DEF Init, Callers
  <2>2. Running = {} /\ pc[Main] # "returned"
    BY <2>1 DEF Running
  <2>3. QED
    BY <1>1, <2>2 DEF Init, Pool!Init
<1>2. UNCHANGED vars => UNCHANGED poolVars
  BY DEF vars, poolVars, queueVars, taskVars, resultVars, Running, Closed
<1>3. IInv /\ IInv' /\ [Next]_vars => [Pool!Next]_(Pool!vars)
  BY <1>2, Simulation DEF Pool!vars, poolVars, Closed
<1>4. QED
  BY <1>1, <1>3, Inductive, PTL DEF Spec, ImplementsPool, Pool!Spec
=============================================================================
