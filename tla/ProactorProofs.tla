--------------------------- MODULE ProactorProofs ---------------------------
(***************************************************************************)
(* The life of a ProactorFile, proved for every number of files and        *)
(* descriptors.                                                            *)
(*                                                                         *)
(* The argument is bookkeeping: a file has a descriptor exactly when it is *)
(* neither free nor fresh, the poller's map is the inverse of mFd, and     *)
(* what an event or the application can name has a descriptor.  That holds *)
(* with both pollers, although with EPollPoller a file may be destroyed    *)
(* twice.  With SelectPoller it is destroyed once, but for a destructor    *)
(* whose destroy callbacks destroy other files.                            *)
(***************************************************************************)
EXTENDS Proactor, FiniteSetTheorems, SequenceTheorems, TLAPS

Supported == PollerType = "select" /\ (OrderlyExit \/ ~Cascades)

InUninit(f) == pc = "uninit" /\ f = cur
Owned(f)    == f \in active \union Deferred \/ InUninit(f)

(* As long as this holds files are destroyed once.                         *)
Single == PollerType = "select" /\ (Closing => OrderlyExit \/ ~Cascades)

Opened    == \A f \in Files : Initialised(f) <=> f \notin Freed \union fresh
Unarmed   == \A f \in Files : ~Initialised(f) => armed[f] = {}
Mapped    == \A f \in Files, d \in Fds : ud[d] = f <=> fd[f] = d
FreeOnce  == PollerType = "epoll" \/ Single => IsInjectiveSeq(free)
NeverUsed == \A f \in fresh : f \notin Freed /\ ~Owned(f)
Accounted == /\ \A f \in Files : Initialised(f) => Owned(f)
             /\ (pc \in {"exit", "gone"} \/ after = "exit") => active = {}
             /\ pc = "gone" => defer = <<>>
Handles   == \A f \in held : Initialised(f) /\ ~InUninit(f) /\ "connect" \notin armed[f]
Pending   == /\ \A f \in Files : batch[f] # {} => Initialised(f)
             /\ pc \in {"dispatch", "callback"} /\ cur # None => Initialised(cur)
             /\ pc = "callback" => "connect" \notin armed[cur]

(* What holds besides as long as files are destroyed once.                 *)
Once == /\ DestroyedOnce
        /\ \A f \in Files : "E" \notin batch[f]
        /\ ~Closing => /\ held \subseteq active
                       /\ \A f \in Files : "connect" \in armed[f] => f \in active
        /\ Closing /\ OrderlyExit => held = {}

IInv == /\ TypeOK
        /\ Opened /\ Mapped /\ FreeOnce /\ NeverUsed /\ Accounted
        /\ Unarmed /\ WriteInterest /\ Handles /\ Pending
        /\ Single => Once
-----------------------------------------------------------------------------
(* push_back adds the element on top, once if it was not there.            *)
LEMMA AppendElements ==
  ASSUME NEW S, NEW s \in Seq(S), NEW e \in S
  PROVE  /\ Append(s, e) \in Seq(S)
         /\ Elements(Append(s, e)) = Elements(s) \union {e}
         /\ IsInjectiveSeq(s) /\ e \notin Elements(s) => IsInjectiveSeq(Append(s, e))
  BY DEF Elements, IsInjectiveSeq

(* back and pop_back take one occurrence off the top.                      *)
LEMMA PopElements ==
  ASSUME NEW S, NEW s \in Seq(S), s # <<>>
  PROVE  /\ Top(s) \in S /\ Top(s) \in Elements(s)
         /\ Pop(s) \in Seq(S)
         /\ Elements(s) = Elements(Pop(s)) \union {Top(s)}
         /\ IsInjectiveSeq(s) => IsInjectiveSeq(Pop(s)) /\ Top(s) \notin Elements(Pop(s))
<1> DEFINE n == Len(s)
<1>1. n \in Nat \ {0} /\ \A i \in 1..n : s[i] \in S
  OBVIOUS
<1>2. /\ Pop(s) \in Seq(S)
      /\ Len(Pop(s)) = IF 1 <= n-1 THEN n-1 - 1 + 1 ELSE 0
      /\ \A i \in 1..n-1 - 1 + 1 : Pop(s)[i] = s[1 + i - 1]
  BY <1>1, SubSeqProperties DEF Pop
<1>3. Top(s) = s[n] /\ Elements(s) = {s[i] : i \in 1..n}
  BY DEF Top, Elements
<1> HIDE DEF n
<1>4. Len(Pop(s)) = n-1 /\ \A i \in 1..n-1 : Pop(s)[i] = s[i]
  <2>1. \A i \in 1..n-1 : i \in 1..n-1 - 1 + 1 /\ 1 + i - 1 = i
    BY <1>1
  <2> QED BY <1>1, <1>2, <2>1
<1>5. Elements(Pop(s)) = {s[i] : i \in 1..n-1}
  BY <1>4 DEF Elements
<1>6. Elements(s) = Elements(Pop(s)) \union {Top(s)}
  <2>1. 1..n = (1..n-1) \union {n}
    BY <1>1
  <2> QED BY <2>1, <1>3, <1>5
<1>7. Top(s) \in S /\ Top(s) \in Elements(s)
  BY <1>1, <1>3
<1>8. IsInjectiveSeq(s) => IsInjectiveSeq(Pop(s)) /\ Top(s) \notin Elements(Pop(s))
  BY <1>1, <1>3, <1>4, <1>5 DEF IsInjectiveSeq, n
<1> QED BY <1>2, <1>6, <1>7, <1>8

(* An empty list has no elements and no duplicates.                        *)
LEMMA EmptyElements == Elements(<<>>) = {} /\ IsInjectiveSeq(<<>>)
  BY DEF Elements, IsInjectiveSeq
-----------------------------------------------------------------------------
(* Before the first call nothing is open.                                  *)
LEMMA InitIInv == Init => IInv
<1> SUFFICES ASSUME Init PROVE IInv
  OBVIOUS
<1>1. TypeOK
  <2>1. /\ fd \in [Files -> Fds \union {None}] /\ armed \in [Files -> SUBSET Callbacks]
        /\ ud \in [Fds -> Files \union {None}] /\ interest \in [Fds -> SUBSET {"R", "W"}]
        /\ batch \in [Files -> SUBSET {"R", "W", "E"}] /\ batch = NoEvents
    BY DEF Init, NoEvents
  <2>2. defer \in Seq(Files) /\ free \in Seq(Files) BY DEF Init
  <2> QED BY <2>1, <2>2, ConstantsAssumption DEF Init, TypeOK, Callbacks
<1>2. Deferred = {} /\ Freed = {} /\ IsInjectiveSeq(free) /\ IsInjectiveSeq(defer)
  BY EmptyElements DEF Init, Deferred, Freed
<1>3. FreeOnce /\ NeverUsed /\ Accounted /\ Opened /\ Unarmed /\ Mapped
  BY <1>2, ConstantsAssumption
     DEF Init, FreeOnce, NeverUsed, Accounted, Opened, Unarmed, Mapped, Owned, InUninit, Initialised
<1>4. WriteInterest /\ Handles /\ Pending
  BY ConstantsAssumption DEF Init, WriteInterest, Handles, Pending, NoEvents, Registered, Initialised
<1>5. Once
  BY <1>2 DEF Init, Once, DestroyedOnce, NoEvents, Closing
<1> QED BY <1>1, <1>3, <1>4, <1>5 DEF IInv

(* Where the loop is when a callback or the application runs.              *)
LEMMA Running ==
  ASSUME IInv, pc \in {"app", "dispatch", "callback", "poll"}
  PROVE  /\ ~Closing /\ (PollerType = "select" => Single) /\ IsInjectiveSeq(free)
         /\ after \in Callbacks \union {None}
BY ConstantsAssumption DEF IInv, TypeOK, Closing, Single, FreeOnce, Callbacks

(* The files on the lists are files.                                       *)
LEMMA Lists == ASSUME TypeOK PROVE Deferred \subseteq Files /\ Freed \subseteq Files
BY DEF TypeOK, Deferred, Freed, Elements

(* destroyFile moves a file from the active to the deferred ones.          *)
LEMMA Destroying ==
  ASSUME TypeOK, NEW f \in Files, DestroyFile(f)
  PROVE  /\ defer' \in Seq(Files) /\ active' = active \ {f}
         /\ Deferred' = Deferred \union {f}
         /\ IsInjectiveSeq(defer) /\ f \notin Deferred => IsInjectiveSeq(defer')
  BY AppendElements DEF TypeOK, DestroyFile, Deferred

(* freeFile of a file that is free already changes no set of files.        *)
LEMMA FreeingAgain ==
  ASSUME TypeOK, NEW f \in Freed, f \in Files, free' = Append(free, f)
  PROVE  free' \in Seq(Files) /\ Freed' = Freed
<1>1. free \in Seq(Files)
  BY DEF TypeOK
<1>2. free' \in Seq(Files) /\ Elements(free') = Elements(free) \union {f}
  BY <1>1, AppendElements
<1> QED BY <1>2 DEF Freed

(* An event only loses the flags that were handled.                        *)
LEMMA HandledBatch ==
  ASSUME TypeOK, cur \in Files, NEW flag, Handled(flag) \/ UNCHANGED batch
  PROVE  batch' \in [Files -> SUBSET {"R", "W", "E"}] /\ \A g \in Files : batch'[g] \subseteq batch[g]
BY DEF TypeOK, Handled

(* A new file keeps the types of what it is written into.                  *)
LEMMA NewFileTypes ==
  ASSUME TypeOK, NEW f \in Files, NEW d \in Fds, NEW callbacks \in SUBSET Callbacks, NEW ef \in SUBSET {"R", "W"},
         NewFile(f, d, callbacks, ef)
  PROVE  /\ active' \subseteq Files /\ defer' \in Seq(Files) /\ fd' \in [Files -> Fds \union {None}]
         /\ armed' \in [Files -> SUBSET Callbacks] /\ ud' \in [Fds -> Files \union {None}]
         /\ interest' \in [Fds -> SUBSET {"R", "W"}] /\ mSize' \in Int /\ leaked' \subseteq Fds
BY DEF TypeOK, NewFile, PollerAdd, CountBy

(* allocFile takes a file nobody else has.                                 *)
LEMMA Allocating ==
  ASSUME IInv, pc \in {"app", "dispatch", "callback"}, NEW f \in Files, AllocFile(f)
  PROVE  /\ free' \in Seq(Files) /\ IsInjectiveSeq(free')
         /\ f \in Freed \union fresh /\ f \notin Freed' \union fresh'
         /\ Freed' \union fresh' \union {f} = Freed \union fresh
         /\ Freed' \subseteq Freed /\ fresh' \subseteq fresh
<1> USE Running DEF IInv, TypeOK, Freed, NeverUsed
<1>1. CASE free # <<>>
  BY <1>1, PopElements DEF AllocFile
<1>2. CASE free = <<>>
  BY <1>2, EmptyElements DEF AllocFile
<1> QED BY <1>1, <1>2

Books == Opened /\ Mapped /\ FreeOnce /\ NeverUsed /\ Accounted

(* destroyFile keeps the books: every open descriptor still belongs to one *)
(* file, and, if the file was active, no file is on two lists.             *)
LEMMA DestroyBooks ==
  ASSUME IInv, NEW f \in Files, Initialised(f) \/ f \in active, DestroyFile(f),
         UNCHANGED <<free, fresh, fd, ud, cur, pc, after>>
  PROVE  /\ Books'
         /\ Single /\ f \in active => DestroyedOnce'
         /\ Single' = Single /\ Closing' = Closing
<1> USE Destroying DEF IInv
<1>1. Single' = Single /\ Closing' = Closing
  BY DEF Single, Closing
<1>2. f \notin fresh /\ TypeOK
  BY DEF NeverUsed, Opened, Owned
<1>3. pc # "gone"
  BY EmptyElements DEF Accounted, Owned, InUninit, Deferred
<1>4. Opened' /\ Mapped' /\ FreeOnce'
  BY <1>1 DEF Opened, Mapped, FreeOnce, Initialised, Freed
<1>5. NeverUsed'
  BY <1>2 DEF NeverUsed, Owned, InUninit, Freed
<1>6. Accounted'
  BY <1>2, <1>3 DEF Accounted, Owned, InUninit, Initialised
<1>7. Single /\ f \in active => DestroyedOnce'
  BY <1>1, <1>2 DEF Once, DestroyedOnce, Freed
<1> QED BY <1>1, <1>4, <1>5, <1>6, <1>7 DEF Books

(* So does opening a descriptor for a file that allocFile handed out,      *)
(* wherever that is called: by the application or from a callback.         *)
LEMMA AllocateBooks ==
  ASSUME IInv, NEW f \in Files, NEW d \in Fds, pc \in {"app", "dispatch", "callback"},
         Unused(d), AllocFile(f), fd' = [fd EXCEPT ![f] = d], ud' = [ud EXCEPT ![d] = f],
         active' = active \union {f}, UNCHANGED defer,
         pc' \in {"app", "dispatch", "callback"}, after' \in Callbacks \union {None}
  PROVE  /\ Books' /\ ~Initialised(f) /\ armed[f] = {} /\ f \notin held /\ batch[f] = {} /\ f # cur
         /\ Single => DestroyedOnce'
         /\ Single' = Single /\ ~Closing /\ ~Closing'
<1> USE Allocating, Running DEF IInv
<1>1. ~Initialised(f) /\ f \notin held /\ armed[f] = {} /\ batch[f] = {}
  BY DEF Opened, Handles, Unarmed, Pending, Initialised
<1>2. f # cur
  <2>1. CASE pc = "app"
    BY <2>1, ConstantsAssumption DEF TypeOK
  <2>2. CASE pc \in {"dispatch", "callback"}
    BY <2>2, <1>1, ConstantsAssumption DEF Pending
  <2> QED BY <2>1, <2>2
<1>3. ~Closing /\ ~Closing' /\ Single' = Single /\ TypeOK
  BY ConstantsAssumption DEF Closing, Single, Callbacks
<1>4. fd'[f] = d /\ d # None /\ \A g \in Files : g # f => fd'[g] = fd[g] /\ fd[g] # d
  BY <1>3, ConstantsAssumption DEF TypeOK, Unused
<1>5. Opened'
  BY <1>4 DEF Opened, Initialised
<1>6. Mapped'
  <2>1. ud'[d] = f /\ \A e \in Fds : e # d => ud'[e] = ud[e]
    BY <1>3 DEF TypeOK
  <2>2. \A e \in Fds : e # None
    BY ConstantsAssumption
  <2> QED BY <1>1, <1>4, <2>1, <2>2 DEF Mapped, Initialised
<1>7. FreeOnce'
  BY DEF FreeOnce, Freed
<1>8. NeverUsed'
  BY DEF NeverUsed, Owned, InUninit, Deferred
<1>9. Accounted'
  BY <1>4, ConstantsAssumption DEF Accounted, Owned, InUninit, Deferred, Initialised, Callbacks
<1>10. Single => DestroyedOnce'
  BY <1>1 DEF Once, DestroyedOnce, Deferred
<1> QED BY <1>1, <1>2, <1>3, <1>5, <1>6, <1>7, <1>8, <1>9, <1>10 DEF Books

(* Every call, every step of the loop and of the destructor preserves the  *)
(* invariant.                                                              *)
LEMMA NextIInv == ASSUME IInv, Next PROVE IInv'
<1> USE ConstantsAssumption
    DEF IInv, TypeOK, Opened, Mapped, FreeOnce, NeverUsed, Accounted, Unarmed, WriteInterest, Handles, Pending,
        Once, DestroyedOnce, Single, Owned, InUninit, Initialised, Registered, Deferred, Freed, Closing, NoEvents,
        InApp, IsListener, Callbacks, fileVars, pollVars, loopVars
<1>1. ASSUME NEW f \in Files, Read(f) PROVE IInv'
  BY <1>1 DEF Read
<1>2. ASSUME NEW f \in Files, Rearm(f) PROVE IInv'
  BY <1>2 DEF Rearm
<1>3. ASSUME NEW f \in Files, Write(f) PROVE IInv'
  BY <1>3 DEF Write, PollerUpdate
<1>4. CASE ClearDone
  BY <1>4 DEF ClearDone
<1>5. CASE Poll
  BY <1>5 DEF Poll, Reportable
<1>6. CASE Return
  <2>1. cur \in Files /\ fd[cur] \in Fds /\ ud[fd[cur]] = cur
    BY <1>6 DEF Return
  <2>2. /\ UNCHANGED fileVars /\ UNCHANGED <<leaked, held, batch, cur, mSize>>
        /\ pc = "callback" /\ pc' = "dispatch" /\ after' = None /\ ud' = ud
        /\ interest' \in [Fds -> SUBSET {"R", "W"}]
    BY <1>6, <2>1 DEF Return, PollerUpdate
  <2>3. Closing' = Closing /\ Single' = Single
    BY <2>2
  <2>4. TypeOK'
    BY <2>2
  <2>5. WriteInterest'
    BY <1>6, <2>1, <2>2 DEF Return, PollerUpdate
  <2>6. Books' /\ Unarmed' /\ Handles' /\ Pending'
    BY <2>2, <2>3 DEF Books
  <2>7. Single' => Once'
    BY <2>2, <2>3
  <2> QED BY <2>4, <2>5, <2>6, <2>7 DEF Books
<1>7. CASE HandlerThrows
  BY <1>7 DEF HandlerThrows
<1>32. CASE OnWriteThrows
  BY <1>32 DEF OnWriteThrows, Handling
<1>8. CASE Delete
  BY <1>8 DEF Delete
<1>9. CASE OnConnected
  BY <1>9 DEF OnConnected, Call, Handled, Handling, PollerUpdate
<1>10. CASE UninitBegin
  BY <1>10, PopElements DEF UninitBegin
<1>11. CASE UninitEnd
  BY <1>11, AppendElements DEF UninitEnd, PollerDel, CountBy
<1>12. CASE UninitAgain
  <2>1. cur \in Files /\ cur \in Freed /\ ~Single /\ pc = "uninit" /\ fd[cur] = None
    BY <1>12 DEF UninitAgain, CountBy
  <2>2. CASE PollerType = "epoll"
    BY <1>12, <2>1, <2>2 DEF UninitAgain, CountBy
  <2>3. CASE PollerType # "epoll"
    <3>1. free' \in Seq(Files) /\ Freed' = Freed
      <4>1. free' = Append(free, cur)
        BY <1>12, <2>3 DEF UninitAgain
      <4> QED BY <2>1, <4>1, FreeingAgain
    <3>2. after = "exit" /\ pc' = "exit" /\ ~Single'
      BY <1>12, <2>1, <2>3 DEF UninitAgain, CountBy
    <3> QED BY <1>12, <2>1, <2>3, <3>1, <3>2 DEF UninitAgain, CountBy
  <2> QED BY <2>2, <2>3
<1>13. CASE PollAssertFails
  BY <1>13 DEF PollAssertFails
<1>14. CASE NextEvent
  BY <1>14 DEF NextEvent
<1>15. CASE EventDone
  BY <1>15 DEF EventDone
<1>16. ASSUME NEW f \in Files, NEW d \in Fds, OnAccept(f, d) PROVE IInv'
  <2>1. /\ pc = "dispatch" /\ pc' = "callback" /\ after' = "accept" /\ cur' = cur /\ cur \in Files
        /\ batch' \in [Files -> SUBSET {"R", "W", "E"}] /\ \A g \in Files : batch'[g] \subseteq batch[g]
        /\ "accept" \in armed[cur] /\ armed' = [armed EXCEPT ![cur] = @ \ {"accept"}]
    <3>1. /\ pc = "dispatch" /\ cur \in Files
          /\ "accept" \in armed[cur] /\ armed' = [armed EXCEPT ![cur] = @ \ {"accept"}]
          /\ pc' = "callback" /\ after' = "accept" /\ cur' = cur
      BY <1>16 DEF OnAccept, Handling, Call
    <3>2. Handled("R") \/ UNCHANGED batch
      BY <1>16 DEF OnAccept
    <3> QED BY <3>1, <3>2, HandledBatch
  <2>2. /\ Books' /\ ~Initialised(f) /\ armed[f] = {} /\ f \notin held /\ batch[f] = {} /\ f # cur
        /\ Single => DestroyedOnce'
        /\ Single' = Single /\ ~Closing /\ ~Closing'
    BY <1>16, <2>1, AllocateBooks DEF OnAccept, PollerAdd
  <2>3. TypeOK'
    BY <1>16, <2>1, Allocating DEF OnAccept, PollerAdd, CountBy
  <2>4. Unarmed' /\ Handles' /\ Pending'
    BY <1>16, <2>1, <2>2 DEF OnAccept
  <2>5. WriteInterest'
    BY <1>16, <2>1, <2>2 DEF OnAccept, PollerAdd, Unused
  <2>6. Single' => Once'
    BY <1>16, <2>1, <2>2 DEF OnAccept
  <2> QED BY <2>2, <2>3, <2>4, <2>5, <2>6 DEF Books
<1>17. CASE NoMoreConnections
  BY <1>17 DEF NoMoreConnections, Handling, Handled
<1>18. CASE OnRead
  BY <1>18 DEF OnRead, Handling, Handled, Call
<1>19. CASE OnReadDone
  BY <1>19 DEF OnReadDone, Handling, Handled
<1>20. CASE OnConnectFailed
  <2>1. /\ cur \in Files /\ Initialised(cur) /\ DestroyFile(cur) /\ "connect" \in armed[cur]
        /\ Single => cur \in active
        /\ UNCHANGED <<free, fresh, fd, ud, cur, pc, after>>
    BY <1>20 DEF OnConnectFailed, Handling
  <2>2. /\ Books' /\ (Single => DestroyedOnce') /\ Single' = Single /\ Closing' = Closing
    BY <2>1, DestroyBooks
  <2>3. TypeOK'
    BY <1>20, <2>1, Destroying DEF OnConnectFailed, Handling, Handled
  <2>4. Unarmed' /\ WriteInterest' /\ Handles' /\ Pending'
    BY <1>20, <2>1, Destroying DEF OnConnectFailed, Handling, Handled
  <2>5. Single' => Once'
    BY <1>20, <2>1, <2>2, Destroying DEF OnConnectFailed, Handling, Handled
  <2> QED BY <2>2, <2>3, <2>4, <2>5 DEF Books
<1>21. CASE OnWrite
  BY <1>21 DEF OnWrite, Handling, Handled, Call
<1>22. CASE OnWritePartial
  BY <1>22 DEF OnWritePartial, Handling, Handled
<1>23. CASE OnWriteNothing
  BY <1>23 DEF OnWriteNothing, Handling, Handled, PollerUpdate
<1>24. CASE OnError
  <2>1. /\ cur \in Files /\ Initialised(cur) /\ DestroyFile(cur) /\ ~Single
        /\ UNCHANGED <<free, fresh, fd, ud, cur, pc, after>>
    BY <1>24, Running DEF OnError, Handling
  <2>2. Books' /\ Single' = Single /\ Closing' = Closing
    BY <2>1, DestroyBooks
  <2>3. TypeOK'
    BY <1>24, <2>1, Destroying DEF OnError, Handling, Handled
  <2>4. Unarmed' /\ WriteInterest' /\ Handles' /\ Pending'
    BY <1>24, <2>1, Destroying DEF OnError, Handling, Handled
  <2> QED BY <2>1, <2>2, <2>3, <2>4 DEF Books
<1>25. CASE CloseActive
  <2>1. PICK f \in active : DestroyFile(f)
    BY <1>25 DEF CloseActive
  <2>2. /\ f \in Files /\ Closing
        /\ UNCHANGED <<free, fresh, fd, ud, cur, pc, after>>
    BY <1>25 DEF CloseActive
  <2>3. Books' /\ (Single => DestroyedOnce') /\ Single' = Single /\ Closing' = Closing
    BY <2>1, <2>2, DestroyBooks
  <2>4. TypeOK'
    BY <1>25, <2>1, <2>2, Destroying DEF CloseActive
  <2>5. Unarmed' /\ WriteInterest' /\ Handles' /\ Pending'
    BY <1>25, <2>1, <2>2, Destroying DEF CloseActive
  <2>6. Single' => Once'
    BY <1>25, <2>1, <2>2, <2>3 DEF CloseActive
  <2> QED BY <2>3, <2>4, <2>5, <2>6 DEF Books
<1>26. CASE CloseDone
  BY <1>26 DEF CloseDone
<1>27. CASE Deleted
  BY <1>27 DEF Deleted
<1>28. CASE Wait
  BY <1>28 DEF Wait
<1>29. ASSUME NEW f \in Files, Destroy(f) PROVE IInv'
  <2>1. /\ f \in held /\ Initialised(f) /\ DestroyFile(f)
        /\ Single => f \in active
        /\ UNCHANGED <<free, fresh, fd, ud, cur, pc, after>>
    BY <1>29 DEF Destroy
  <2>2. Books' /\ (Single => DestroyedOnce') /\ Single' = Single /\ Closing' = Closing
    BY <2>1, DestroyBooks
  <2>3. TypeOK'
    BY <1>29, <2>1, Destroying DEF Destroy
  <2>4. Unarmed' /\ WriteInterest' /\ Handles' /\ Pending'
    BY <1>29, <2>1, Destroying DEF Destroy
  <2>5. Single' => Once'
    BY <1>29, <2>1, <2>2, Destroying DEF Destroy
  <2> QED BY <2>2, <2>3, <2>4, <2>5 DEF Books
<1>30. ASSUME NEW d \in Fds, CreateFails(d) PROVE IInv'
  BY <1>30 DEF CreateFails
<1>31. ASSUME NEW f \in Files, NEW d \in Fds, CreateConnected(f, d) \/ CreateConnecting(f, d) \/ CreateListening(f, d)
       PROVE IInv'
  <2>1. /\ pc \in {"app", "dispatch", "callback"} /\ UNCHANGED loopVars /\ after \in Callbacks \union {None}
        /\ Unused(d) /\ AllocFile(f) /\ fd' = [fd EXCEPT ![f] = d] /\ ud' = [ud EXCEPT ![d] = f]
        /\ active' = active \union {f} /\ UNCHANGED defer
    BY <1>31, Running DEF CreateConnected, CreateConnecting, CreateListening, NewFile, PollerAdd
  <2>2. /\ Books' /\ ~Initialised(f) /\ armed[f] = {} /\ f \notin held /\ batch[f] = {} /\ f # cur
        /\ Single => DestroyedOnce'
        /\ Single' = Single /\ ~Closing /\ ~Closing'
    BY <2>1, AllocateBooks
  <2>3. TypeOK'
    <3>1. free' \in Seq(Files) /\ fresh' \subseteq fresh
      BY <2>1, Allocating
    <3>2. \E callbacks \in SUBSET Callbacks, ef \in SUBSET {"R", "W"} : NewFile(f, d, callbacks, ef)
      BY <1>31 DEF CreateConnected, CreateConnecting, CreateListening
    <3>3. /\ active' \subseteq Files /\ defer' \in Seq(Files) /\ fd' \in [Files -> Fds \union {None}]
          /\ armed' \in [Files -> SUBSET Callbacks] /\ ud' \in [Fds -> Files \union {None}]
          /\ interest' \in [Fds -> SUBSET {"R", "W"}] /\ mSize' \in Int /\ leaked' \subseteq Fds
      BY <3>2, NewFileTypes
    <3>4. held' \subseteq Files /\ fresh' \subseteq Files
      BY <1>31, <3>1 DEF CreateConnected, CreateConnecting, CreateListening
    <3> QED BY <2>1, <3>1, <3>3, <3>4
  <2>4. Unarmed' /\ Pending' /\ Handles'
    BY <1>31, <2>1, <2>2 DEF CreateConnected, CreateConnecting, CreateListening, NewFile
  <2>5. WriteInterest'
    BY <1>31, <2>1, <2>2 DEF CreateConnected, CreateConnecting, CreateListening, NewFile, PollerAdd, Unused
  <2>6. Single' => Once'
    BY <1>31, <2>1, <2>2 DEF CreateConnected, CreateConnecting, CreateListening, NewFile
  <2> QED BY <2>2, <2>3, <2>4, <2>5, <2>6 DEF Books
<1> QED
  BY <1>1, <1>2, <1>3, <1>4, <1>5, <1>6, <1>7, <1>8, <1>9, <1>10, <1>11, <1>12, <1>13, <1>14, <1>15, <1>16,
     <1>17, <1>18, <1>19, <1>20, <1>21, <1>22, <1>23, <1>24, <1>25, <1>26, <1>27, <1>28, <1>29, <1>30, <1>31, <1>32
     DEF Next, Application, Clear, Dispatch, Exit

(* A step that changes no variable changes none of the bookkeeping.        *)
LEMMA StutterIInv == ASSUME IInv, UNCHANGED vars PROVE IInv'
  BY DEF vars, fileVars, pollVars, loopVars, IInv, TypeOK, Opened, Mapped, FreeOnce, NeverUsed, Accounted, Unarmed,
         WriteInterest, Handles, Pending, Once, DestroyedOnce, Single, Owned, InUninit, Initialised, Registered,
         Deferred, Freed, Closing, NoEvents

(* The bookkeeping holds in every reachable state, with both pollers.      *)
LEMMA Inductive == Spec => []IInv
<1>1. Init => IInv
  BY InitIInv
<1>2. IInv /\ [Next]_vars => IInv'
  BY NextIInv, StutterIInv
<1> QED BY <1>1, <1>2, PTL DEF Spec

(* What follows from the bookkeeping in a single state.                    *)
LEMMA Consequences ==
  ASSUME IInv
  PROVE  /\ NoStaleDispatch /\ FreeIsClean
         /\ PollerType = "select" => HeldAreLive
         /\ PollerType = "epoll" \/ OrderlyExit \/ ~Cascades => NoLeakAtExit
         /\ Supported => DestroyedOnce
         /\ \A f, g \in Files : fd[f] = fd[g] /\ Initialised(f) => f = g
<1> USE DEF IInv
<1>1. NoStaleDispatch
  BY Lists, ConstantsAssumption DEF NoStaleDispatch, Pending, Opened, Mapped, Registered, Initialised, TypeOK
<1>2. FreeIsClean
  BY Lists DEF FreeIsClean, Opened, Unarmed
<1>3. PollerType = "select" => HeldAreLive
  BY DEF HeldAreLive, Single, Once, Handles, Mapped, Registered, Initialised, TypeOK
<1>4. PollerType = "epoll" \/ OrderlyExit \/ ~Cascades => NoLeakAtExit
  <2>1. SUFFICES ASSUME pc = "gone", PollerType = "epoll" \/ OrderlyExit \/ ~Cascades
                 PROVE  Freed \union fresh = Files /\ IsInjectiveSeq(free) /\ \A d \in Fds : ud[d] = None
    BY DEF NoLeakAtExit
  <2>2. \A f \in Files : ~Initialised(f)
    BY <2>1, EmptyElements DEF Accounted, Owned, InUninit, Deferred
  <2>3. Freed \union fresh = Files
    BY <2>2, Lists DEF Opened, TypeOK
  <2>4. IsInjectiveSeq(free)
    BY <2>1, ConstantsAssumption DEF FreeOnce, Single
  <2>5. \A d \in Fds : ud[d] = None
    BY <2>2, ConstantsAssumption DEF Mapped, Initialised, TypeOK
  <2> QED BY <2>3, <2>4, <2>5
<1>5. Supported => DestroyedOnce
  BY DEF Supported, Single, Once
<1>6. \A f, g \in Files : fd[f] = fd[g] /\ Initialised(f) => f = g
  BY DEF Mapped, Initialised, TypeOK
<1> QED BY <1>1, <1>2, <1>3, <1>4, <1>5, <1>6
-----------------------------------------------------------------------------
(* The state keeps its types, for any number of files and descriptors.     *)
THEOREM ProactorTypeCorrect == Spec => []TypeOK
<1>1. IInv => TypeOK
  BY DEF IInv
<1> QED BY <1>1, Inductive, PTL

(* destroyFile reaches a file at most once per connection (Proactor.cpp    *)
(* 68-80): no file is uninitialised twice or handed out twice.             *)
THEOREM ProactorDestroyedOnce == ASSUME Supported PROVE Spec => []DestroyedOnce
<1>1. IInv => DestroyedOnce
  BY Consequences
<1> QED BY <1>1, Inductive, PTL

(* Deferring the destruction to the next wait is what makes a batch safe:  *)
(* no event is handled by a file that was closed since it was collected.   *)
THEOREM ProactorNoStaleDispatch == Spec => []NoStaleDispatch
<1>1. IInv => NoStaleDispatch
  BY Consequences
<1> QED BY <1>1, Inductive, PTL

(* An application that does not use a file after destroying it never calls *)
(* a closed or recycled file.                                              *)
THEOREM ProactorHeldAreLive == ASSUME PollerType = "select" PROVE Spec => []HeldAreLive
<1>1. IInv => HeldAreLive
  BY Consequences
<1> QED BY <1>1, Inductive, PTL

(* A pending write or connect is always polled for.                        *)
THEOREM ProactorWriteInterest == Spec => []WriteInterest
<1>1. IInv => WriteInterest
  BY DEF IInv
<1> QED BY <1>1, Inductive, PTL

(* uninit leaves nothing of a connection on the free list.                 *)
THEOREM ProactorFreeIsClean == Spec => []FreeIsClean
<1>1. IInv => FreeIsClean
  BY Consequences
<1> QED BY <1>1, Inductive, PTL

(* ~ProactorService deletes every file, once, and leaves the poller empty. *)
THEOREM ProactorNoLeakAtExit ==
  ASSUME PollerType = "epoll" \/ OrderlyExit \/ ~Cascades PROVE Spec => []NoLeakAtExit
<1>1. IInv => NoLeakAtExit
  BY Consequences
<1> QED BY <1>1, Inductive, PTL
-----------------------------------------------------------------------------
(* A recycled file starts with neither events nor callbacks of the         *)
(* connection it served before.                                            *)
LEMMA NewFilesAreClean ==
  ASSUME IInv, [Next]_vars, NEW f \in Files, fd'[f] # fd[f], fd'[f] # None
  PROVE  StartsClean(f)
<1> USE DEF StartsClean, IInv, TypeOK, Unarmed, Opened, Pending, Initialised
<1>1. CASE \E g \in Files, d \in Fds : CreateConnected(g, d) \/ CreateConnecting(g, d) \/ CreateListening(g, d)
  <2>1. PICK g \in Files, d \in Fds : CreateConnected(g, d) \/ CreateConnecting(g, d) \/ CreateListening(g, d)
    BY <1>1
  <2>2. /\ AllocFile(g) /\ fd' = [fd EXCEPT ![g] = d] /\ batch' = batch
        /\ armed'[g] \in {armed[g], armed[g] \union {"connect"}, armed[g] \union {"accept"}}
        /\ pc \in {"app", "callback"}
    BY <2>1 DEF CreateConnected, CreateConnecting, CreateListening, NewFile, InApp, loopVars
  <2>3. g = f /\ g \in Freed \union fresh
    BY <2>2, Allocating
  <2> QED BY <2>2, <2>3
<1>2. CASE \E g \in Files, d \in Fds : OnAccept(g, d)
  <2>1. PICK g \in Files, d \in Fds : OnAccept(g, d)
    BY <1>2
  <2>2. /\ AllocFile(g) /\ fd' = [fd EXCEPT ![g] = d] /\ pc = "dispatch"
        /\ batch'[g] \subseteq batch[g] /\ armed'[g] \subseteq armed[g]
    BY <2>1 DEF OnAccept, Handling, Handled, Call
  <2>3. g = f /\ g \in Freed \union fresh
    BY <2>2, Allocating
  <2> QED BY <2>2, <2>3
<1>3. CASE UninitEnd
  BY <1>3 DEF UninitEnd
<1>4. CASE UNCHANGED fd
  BY <1>4
<1> QED
  <2>1. CASE Application
    BY <2>1, <1>1, <1>4 DEF Application, CreateFails, Rearm, Read, Write, Destroy, Wait, Delete, fileVars
  <2>2. CASE Clear
    BY <2>2, <1>3, <1>4 DEF Clear, UninitBegin, UninitAgain, ClearDone, fileVars
  <2>3. CASE Dispatch
    BY <2>3, <1>2, <1>4
       DEF Dispatch, Poll, PollAssertFails, NextEvent, EventDone, NoMoreConnections, OnRead, OnReadDone,
           OnConnected, OnConnectFailed, OnWrite, OnWritePartial, OnWriteNothing, OnError, Return,
           HandlerThrows, OnWriteThrows, fileVars
  <2>4. CASE Exit
    BY <2>4, <1>4 DEF Exit, CloseActive, CloseDone, Deleted, fileVars
  <2> QED BY <2>1, <2>2, <2>3, <2>4, <1>4 DEF Next, vars, fileVars

(* No step ever gives a file a second descriptor, an old event or an old   *)
(* callback.                                                               *)
THEOREM ProactorNewConnectionStartsClean == Spec => NewConnectionStartsClean
<1>1. IInv /\ [Next]_vars => [NewFilesStartClean]_vars
  BY NewFilesAreClean DEF NewFilesStartClean
<1> QED BY <1>1, Inductive, PTL DEF Spec, NewConnectionStartsClean
-----------------------------------------------------------------------------
Opens   == {f \in Files : Initialised(f)}
Counted == PollerType = "epoll" => mSize <= Cardinality(Opens)

(* EPollPoller's way of counting, ++ in add and -- in del, never counts    *)
(* more than the files that are open; a second del counts one fewer.       *)
LEMMA CountStep ==
  ASSUME IsFiniteSet(Files), IInv, [Next]_vars, Counted
  PROVE  Counted'
<1>1. SUFFICES ASSUME PollerType = "epoll" PROVE mSize' <= Cardinality(Opens')
  BY DEF Counted
<1>2. /\ IsFiniteSet(Opens) /\ Cardinality(Opens) \in Nat
      /\ mSize \in Int /\ mSize <= Cardinality(Opens)
  BY <1>1, FS_Subset, FS_CardinalityType DEF Opens, Counted, IInv, TypeOK
<1>3. ASSUME NEW f \in Files, NEW d \in Fds, AllocFile(f), fd' = [fd EXCEPT ![f] = d],
             mSize' = mSize + 1, pc \in {"app", "dispatch", "callback"}
      PROVE  mSize' <= Cardinality(Opens')
  <2>1. f \notin Opens
    BY <1>3, Allocating DEF IInv, Opened, Opens
  <2>2. Opens' = Opens \union {f}
    BY <1>3, ConstantsAssumption DEF Opens, Initialised, IInv, TypeOK
  <2>3. Cardinality(Opens') = Cardinality(Opens) + 1
    BY <1>2, <2>1, <2>2, FS_AddElement
  <2> QED BY <1>2, <1>3, <2>3
<1>4. CASE UninitEnd
  <2>1. cur \in Opens /\ mSize' = mSize - 1
    BY <1>1, <1>4 DEF UninitEnd, PollerDel, CountBy, Opens, Initialised, IInv, TypeOK
  <2>2. Opens' = Opens \ {cur}
    BY <1>4 DEF UninitEnd, Opens, Initialised, IInv, TypeOK
  <2>3. Cardinality(Opens') = Cardinality(Opens) - 1
    BY <1>2, <2>1, <2>2, FS_RemoveElement
  <2> QED BY <1>2, <2>1, <2>3
<1>5. CASE UninitAgain
  <2>1. Opens' = Opens /\ mSize' = mSize - 1
    BY <1>1, <1>5 DEF UninitAgain, CountBy, Opens, Initialised
  <2> QED BY <1>2, <2>1
<1>6. CASE UNCHANGED <<fd, mSize>>
  <2>1. Opens' = Opens /\ mSize' = mSize
    BY <1>6 DEF Opens, Initialised
  <2> QED BY <1>2, <2>1
<1>7. CASE Application
  BY <1>1, <1>3, <1>6, <1>7
     DEF Application, CreateConnected, CreateConnecting, CreateListening, NewFile, InApp, PollerAdd, CountBy,
         CreateFails, Rearm, Read, Write, PollerUpdate, Destroy, Wait, Delete, fileVars, pollVars
<1>8. CASE Clear
  BY <1>4, <1>5, <1>6, <1>8 DEF Clear, UninitBegin, ClearDone, fileVars, pollVars
<1>9. CASE Dispatch
  <2>1. CASE \E f \in Files, d \in Fds : OnAccept(f, d)
    BY <1>1, <1>3, <2>1 DEF OnAccept, PollerAdd, CountBy, Handling
  <2> QED
    BY <1>6, <1>9, <2>1
       DEF Dispatch, Poll, PollAssertFails, NextEvent, EventDone, NoMoreConnections, OnRead, OnReadDone,
           OnConnected, OnConnectFailed, OnWrite, OnWritePartial, OnWriteNothing, OnError, Return,
           HandlerThrows, OnWriteThrows, PollerUpdate, fileVars, pollVars
<1>10. CASE Exit
  BY <1>6, <1>10 DEF Exit, CloseActive, CloseDone, Deleted, fileVars, pollVars
<1> QED BY <1>6, <1>7, <1>8, <1>9, <1>10 DEF Next, vars, fileVars, pollVars

(* mFd2Ud has an entry for the descriptors of the open files and no other. *)
LEMMA SelectSize ==
  ASSUME IsFiniteSet(Files), IInv, PollerType = "select"
  PROVE  Size <= Cardinality(Opens)
<1> DEFINE R == {d \in Fds : ud[d] # None}
           m == [f \in Opens |-> fd[f]]
<1>1. IsFiniteSet(Opens)
  BY FS_Subset DEF Opens
<1>2. \A f \in Opens : fd[f] \in R
  BY ConstantsAssumption DEF Opens, Initialised, IInv, TypeOK, Mapped
<1>3. \A d \in R : ud[d] \in Opens /\ fd[ud[d]] = d
  BY ConstantsAssumption DEF Opens, Initialised, IInv, TypeOK, Mapped
<1>4. m \in Surjection(Opens, R)
  BY <1>2, <1>3 DEF Surjection
<1>5. Cardinality(R) <= Cardinality(Opens)
  BY <1>1, <1>4, FS_Surjection
<1> QED BY <1>5, ConstantsAssumption DEF Size

(* One file per descriptor, the poller's map is the inverse of mFd, and    *)
(* size() counts no file that is not open, for both pollers.               *)
THEOREM ProactorPollerMatchesFiles ==
  ASSUME IsFiniteSet(Files) PROVE Spec => []PollerMatchesFiles
<1>1. Init => Counted
  <2> SUFFICES ASSUME Init PROVE Counted
    OBVIOUS
  <2>1. Opens = {} /\ mSize = 0
    BY DEF Init, Opens, Initialised
  <2> QED BY <2>1, FS_EmptySet DEF Counted
<1>2. IInv /\ Counted /\ [Next]_vars => Counted'
  BY CountStep
<1>3. IInv /\ Counted => PollerMatchesFiles
  <2> SUFFICES ASSUME IInv, Counted PROVE PollerMatchesFiles
    OBVIOUS
  <2>1. Size <= Cardinality(Opens)
    BY SelectSize, ConstantsAssumption DEF Counted, Size
  <2> QED BY <2>1, Consequences DEF PollerMatchesFiles, Opens, IInv, Mapped
<1> QED BY <1>1, <1>2, <1>3, Inductive, PTL DEF Spec
-----------------------------------------------------------------------------
(* Between the application's check that size() > 0 and the poller's, only  *)
(* files that were already destroyed are closed.                           *)
Waiting == /\ (pc \in {"clear", "poll"} \/ after = "clear") => active # {}
           /\ pc # "failed"

LEMMA WaitingStep ==
  ASSUME IsFiniteSet(Fds), ~Cascades, Supported, IInv, Waiting, [Next]_vars
  PROVE  Waiting'
<1> USE DEF Waiting
<1>1. pc = "poll" => Size \in Nat \ {0}
  <2>1. SUFFICES ASSUME pc = "poll" PROVE Size \in Nat \ {0}
    OBVIOUS
  <2> DEFINE R == {d \in Fds : ud[d] # None}
  <2>2. PICK f \in active : f \in Files
    BY <2>1 DEF IInv, TypeOK
  <2>3. f \notin Freed \union fresh
    BY DEF IInv, Supported, Single, Once, DestroyedOnce
  <2>4. fd[f] \in R
    BY <2>2, <2>3, ConstantsAssumption DEF IInv, TypeOK, Opened, Initialised, Mapped
  <2>5. IsFiniteSet(R)
    BY FS_Subset
  <2>6. Cardinality(R) \in Nat /\ Cardinality(R) # 0
    BY <2>4, <2>5, FS_CardinalityType, FS_EmptySet
  <2> QED BY <2>6 DEF Size, Supported
<1>2. CASE Application
  <2>1. CASE Wait
    BY <2>1 DEF Wait, fileVars, IInv, TypeOK
  <2>2. CASE ~Wait
    <3>1. pc \in {"app", "callback"} /\ pc' \in {"app", "callback", "closing"} /\ after' \in {after, None}
      BY <1>2, <2>2
         DEF Application, CreateConnected, CreateConnecting, CreateListening, InApp, CreateFails, Rearm, Read,
             Write, Destroy, Delete, loopVars
    <3> QED BY <3>1, ConstantsAssumption DEF IInv, TypeOK
  <2> QED BY <2>1, <2>2
<1>3. CASE Clear
  BY <1>3, ConstantsAssumption
     DEF Clear, UninitBegin, UninitEnd, UninitAgain, ClearDone, fileVars, IInv, TypeOK, Callbacks, Supported
<1>4. CASE Dispatch
  <2>1. pc \in {"poll", "dispatch", "callback"} /\ pc' \in {"app", "dispatch", "callback"}
    BY <1>1, <1>4
       DEF Dispatch, Poll, PollAssertFails, NextEvent, EventDone, OnAccept, NoMoreConnections, OnRead,
           OnReadDone, OnConnected, OnConnectFailed, OnWrite, OnWritePartial, OnWriteNothing, OnError, Return,
           HandlerThrows, OnWriteThrows, Handling, Call, IInv, TypeOK
  <2>2. after' \in {after, None} \union Callbacks
    BY <1>4
       DEF Dispatch, Poll, PollAssertFails, NextEvent, EventDone, OnAccept, NoMoreConnections, OnRead,
           OnReadDone, OnConnected, OnConnectFailed, OnWrite, OnWritePartial, OnWriteNothing, OnError, Return,
           HandlerThrows, OnWriteThrows, Call, Callbacks
  <2> QED BY <2>1, <2>2, ConstantsAssumption DEF IInv, TypeOK, Callbacks
<1>5. CASE Exit
  BY <1>5 DEF Exit, CloseActive, CloseDone, Deleted, loopVars, IInv, TypeOK
<1> QED BY <1>2, <1>3, <1>4, <1>5 DEF Next, vars, fileVars, loopVars

(* Without cascading destroy callbacks ASSERT(size() > 0) of the poller    *)
(* (Poller.cpp 108) never fails.                                           *)
THEOREM ProactorPollAssert == ASSUME IsFiniteSet(Fds), ~Cascades, Supported PROVE Spec => []PollAssert
<1>1. Init => Waiting
  BY ConstantsAssumption DEF Init, Waiting
<1>2. IInv /\ Waiting /\ [Next]_vars => Waiting'
  BY WaitingStep
<1>3. Waiting => PollAssert
  BY DEF Waiting, PollAssert
<1> QED BY <1>1, <1>2, <1>3, Inductive, PTL DEF Spec
=============================================================================
