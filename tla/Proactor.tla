------------------------------ MODULE Proactor ------------------------------
(***************************************************************************)
(* The event loop of C++/TCPSocket: ProactorService and the life of its    *)
(* ProactorFiles (Proactor.cpp), the poller they register with             *)
(* (Poller.cpp), and an application that uses them.  Everything runs on    *)
(* one thread; what interleaves is the application's calls, made between   *)
(* two waits or from inside any callback, with the batch of events being   *)
(* dispatched and the deferred destruction of files.                       *)
(*                                                                         *)
(* A callback that is not null is an element of armed[f].  What the read   *)
(* and write buffers do with bytes is left to ReadBuffer and WriteBuffers; *)
(* here a handler completes an armed callback or does not.                 *)
(***************************************************************************)
EXTENDS Integers, Sequences, FiniteSets

CONSTANTS
  Files,        \* the ProactorFile objects that can be allocated
  Fds,          \* the descriptors the kernel can hand out
  None,         \* no file, no descriptor (-1)
  PollerType,   \* "select" or "epoll": what IPoller::create was asked for
  Blocking,     \* mBlocking
  Cascades,     \* destroy callbacks destroy other files (WebProxy does)
  OrderlyExit   \* the service is deleted only when size() = 0

ASSUME ConstantsAssumption ==
  /\ None \notin Files \union Fds
  /\ None \notin {"connect", "accept", "read", "write", "clear", "exit"}
  /\ PollerType \in {"select", "epoll"}
  /\ Blocking \in BOOLEAN /\ Cascades \in BOOLEAN /\ OrderlyExit \in BOOLEAN

VARIABLES
  active,       \* mActiveFiles
  defer,        \* mDeferDestoryFiles, a stack
  free,         \* mFreeFiles, a stack
  fresh,        \* files that were never allocated
  fd,           \* mFd
  armed,        \* the callbacks of each file that are set
  ud, interest, \* the poller: each descriptor's file (None: absent) and flags
  mSize,        \* EPollPoller::mSize
  leaked,       \* open descriptors no file owns
  held,         \* files the application has a pointer to and may use
  batch,        \* the events of this wait still to be handled, by file
  cur,          \* the file whose event, callback or uninit is running
  pc, after     \* where the loop is, and which kind of callback is running

fileVars == <<active, defer, free, fresh, fd, armed>>
pollVars == <<ud, interest, mSize, leaked>>
loopVars == <<batch, cur, pc, after>>
vars == <<fileVars, pollVars, held, loopVars>>

Callbacks == {"connect", "accept", "read", "write"}
NoEvents == [f \in Files |-> {}]

Init ==
  /\ active = {} /\ defer = <<>> /\ free = <<>> /\ fresh = Files
  /\ fd = [f \in Files |-> None]
  /\ armed = [f \in Files |-> {}]
  /\ ud = [d \in Fds |-> None]
  /\ interest = [d \in Fds |-> {}]
  /\ mSize = 0
  /\ leaked = {}
  /\ held = {}
  /\ batch = NoEvents /\ cur = None /\ pc = "app" /\ after = None

Elements(s) == {s[i] : i \in 1..Len(s)}
Top(s) == s[Len(s)]
Pop(s) == SubSeq(s, 1, Len(s) - 1)

Size == IF PollerType = "epoll" THEN mSize ELSE Cardinality({d \in Fds : ud[d] # None})

(* Only EPollPoller counts; SelectPoller asks mFd2Ud for its size.         *)
CountBy(n) == mSize' = IF PollerType = "epoll" THEN mSize + n ELSE mSize
-----------------------------------------------------------------------------
(* IPoller                                                                 *)

PollerAdd(d, f, ef) == /\ ud' = [ud EXCEPT ![d] = f]
                       /\ interest' = [interest EXCEPT ![d] = ef]
                       /\ CountBy(1)

PollerUpdate(d, f, ef) == /\ ud' = [ud EXCEPT ![d] = f]
                          /\ interest' = [interest EXCEPT ![d] = ef]
                          /\ UNCHANGED mSize

(* Mutant: del relies on close to drop the registration.                   *)
PollerDelForgets(d) == UNCHANGED <<ud, interest, mSize>>

PollerDel(d) == /\ ud' = [ud EXCEPT ![d] = None]
                /\ interest' = [interest EXCEPT ![d] = {}]
                /\ CountBy(-1)
-----------------------------------------------------------------------------
(* Files of the service                                                    *)

(* allocFile: the last file freed, or a new one.                           *)
AllocFile(f) == IF free # <<>> THEN f = Top(free) /\ free' = Pop(free) /\ UNCHANGED fresh
                ELSE f \in fresh /\ fresh' = fresh \ {f} /\ UNCHANGED free

(* A descriptor the kernel is not using.                                   *)
Unused(d) == d \notin leaked /\ \A f \in Files : fd[f] # d

(* allocFile, init or initWithConnectedCallbak, mActiveFiles.insert.       *)
NewFile(f, d, callbacks, ef) ==
  /\ Unused(d)
  /\ AllocFile(f)
  /\ fd' = [fd EXCEPT ![f] = d]
  /\ armed' = [armed EXCEPT ![f] = @ \union callbacks]
  /\ PollerAdd(d, f, ef)
  /\ active' = active \union {f}
  /\ UNCHANGED <<defer, leaked>>

DestroyFile(f) == /\ active' = active \ {f}
                  /\ defer' = Append(defer, f)
-----------------------------------------------------------------------------
(* The application, between two waits or in a callback.  It uses a file    *)
(* only through a pointer it was given, does not use it after destroying   *)
(* it, and is told of a file's end by its destroy callback.                *)

InApp == pc \in {"app", "callback"}

(* createClientSocket.  connect succeeds at once: the connected callback   *)
(* gets a file that is already registered ...                              *)
CreateConnected(f, d) == /\ InApp
                         /\ NewFile(f, d, {}, {"R"})
                         /\ held' = held \union {f}
                         /\ UNCHANGED loopVars

(* ... or is in progress ...                                               *)
CreateConnecting(f, d) == /\ InApp
                          /\ NewFile(f, d, {"connect"}, {"W"})
                          /\ UNCHANGED <<held, loopVars>>

(* ... or fails: P_ENSURE throws with the new socket open.                 *)
CreateFails(d) == /\ InApp
                  /\ Unused(d)
                  /\ leaked' = leaked \union {d}
                  /\ pc' = "app" /\ batch' = NoEvents /\ cur' = None /\ after' = None
                  /\ UNCHANGED <<fileVars, ud, interest, mSize, held>>

(* createListenSocket and the first accept on it.                          *)
CreateListening(f, d) == /\ pc = "app"
                         /\ NewFile(f, d, {"accept"}, {"R"})
                         /\ held' = held \union {f}
                         /\ UNCHANGED loopVars

(* accept, from the accept callback; every application re-arms there.      *)
Rearm(f) == /\ pc = "callback" /\ after = "accept" /\ f = cur
            /\ "accept" \notin armed[f]
            /\ armed' = [armed EXCEPT ![f] = @ \union {"accept"}]
            /\ UNCHANGED <<active, defer, free, fresh, fd, pollVars, held, loopVars>>

IsListener(f) == "accept" \in armed[f] \/ (after = "accept" /\ f = cur)

(* readLine, readN, readSome, when the buffer cannot serve them at once;   *)
(* when it can, the callback runs inside the call and arms nothing.        *)
Read(f) == /\ InApp /\ f \in held
           /\ ~IsListener(f) /\ "read" \notin armed[f]
           /\ armed' = [armed EXCEPT ![f] = @ \union {"read"}]
           /\ UNCHANGED <<active, defer, free, fresh, fd, pollVars, held, loopVars>>

(* writeN.                                                                 *)
Write(f) == /\ InApp /\ f \in held
            /\ ~IsListener(f) /\ "write" \notin armed[f]
            /\ PollerUpdate(fd[f], f, {"R", "W"})
            /\ armed' = [armed EXCEPT ![f] = @ \union {"write"}]
            /\ UNCHANGED <<active, defer, free, fresh, fd, leaked, held, loopVars>>

(* ProactorFile::destroy.  Listening files are only destroyed outside the  *)
(* callbacks; from a destroy callback, only other files are.               *)
Destroy(f) == /\ f \in held
              /\ \/ pc = "app"
                 \/ pc = "callback" /\ ~IsListener(f)
                 \/ pc = "uninit" /\ Cascades /\ f # cur
              /\ DestroyFile(f)
              /\ held' = held \ {f}
              /\ UNCHANGED <<free, fresh, fd, armed, pollVars, loopVars>>
-----------------------------------------------------------------------------
(* ProactorService::wait                                                   *)

(* while (... service.size() > 0) service.wait(...)                        *)
Wait == /\ pc = "app" /\ active # {}
        /\ pc' = "clear"
        /\ UNCHANGED <<fileVars, pollVars, held, batch, cur, after>>

(* Mutant: the file is popped only after it was freed.                     *)
UninitBeginKeepsLast == /\ pc \in {"clear", "exit"} /\ defer # <<>>
                        /\ cur' = Top(defer)
                        /\ held' = held \ {Top(defer)}
                        /\ after' = pc
                        /\ pc' = "uninit"
                        /\ UNCHANGED <<active, defer, free, fresh, fd, armed, pollVars, batch>>

(* clearDeferDestroyFiles takes the last file and calls uninit, which runs *)
(* the destroy callback first.                                             *)
UninitBegin == /\ pc \in {"clear", "exit"} /\ defer # <<>>
               /\ cur' = Top(defer)
               /\ defer' = Pop(defer)
               /\ held' = held \ {Top(defer)}
               /\ after' = pc
               /\ pc' = "uninit"
               /\ UNCHANGED <<active, free, fresh, fd, armed, pollVars, batch>>

(* Mutant: uninit forgets to clear mConnectedCallback.                     *)
UninitEndKeepsConnect ==
  /\ pc = "uninit" /\ fd[cur] # None
  /\ armed' = [armed EXCEPT ![cur] = @ \intersect {"connect"}]
  /\ PollerDel(fd[cur])
  /\ fd' = [fd EXCEPT ![cur] = None]
  /\ free' = Append(free, cur)
  /\ pc' = after /\ cur' = None /\ after' = None
  /\ UNCHANGED <<active, defer, fresh, leaked, held, batch>>

(* The rest of uninit (callbacks cleared, poller del, close), freeFile.    *)
UninitEnd == /\ pc = "uninit" /\ fd[cur] # None
             /\ armed' = [armed EXCEPT ![cur] = {}]
             /\ PollerDel(fd[cur])
             /\ fd' = [fd EXCEPT ![cur] = None]
             /\ free' = Append(free, cur)
             /\ pc' = after /\ cur' = None /\ after' = None
             /\ UNCHANGED <<active, defer, fresh, leaked, held, batch>>

(* uninit of a file that was uninitialised before: mFd is -1.  SelectPoller*)
(* erases nothing and the file is freed again; EPollPoller has decremented *)
(* mSize when epoll_ctl fails, and the exception leaves wait, or, thrown   *)
(* by the destructor, ends the program.                                    *)
UninitAgain == /\ pc = "uninit" /\ fd[cur] = None
               /\ armed' = [armed EXCEPT ![cur] = {}]
               /\ cur' = None /\ after' = None
               /\ CountBy(-1)
               /\ IF PollerType = "epoll"
                  THEN /\ pc' = IF after = "exit" THEN "terminated" ELSE "app"
                       /\ UNCHANGED free
                  ELSE /\ free' = Append(free, cur)
                       /\ pc' = after
               /\ UNCHANGED <<active, defer, fresh, fd, ud, interest, leaked, held, batch>>

(* Mutant: the loop may stop before the stack is empty.                    *)
ClearDoneEarly == /\ pc = "clear"
                  /\ pc' = "poll"
                  /\ UNCHANGED <<fileVars, pollVars, held, batch, cur, after>>

ClearDone == /\ pc = "clear" /\ defer = <<>>
             /\ pc' = "poll"
             /\ UNCHANGED <<fileVars, pollVars, held, batch, cur, after>>

(* What the poller may report of a registered file: the flags it asked     *)
(* for, and from epoll also an error; a connection attempt that failed is  *)
(* writeable, for epoll with an error.                                     *)
Reportable(f) ==
  IF fd[f] = None \/ ud[fd[f]] # f THEN {}
  ELSE interest[fd[f]] \union (IF PollerType = "epoll" THEN {"E"} ELSE {})

(* IPoller::wait.  ASSERT(size() > 0) throws a LogicError, which nothing   *)
(* catches.  No event at all is a timeout.                                 *)
Poll == /\ pc = "poll" /\ Size > 0
        /\ batch' \in {b \in [Files -> SUBSET {"R", "W", "E"}] :
                         \A f \in Files : b[f] \subseteq Reportable(f)}
        /\ pc' = IF batch' = NoEvents THEN "app" ELSE "dispatch"
        /\ UNCHANGED <<fileVars, pollVars, held, cur, after>>

PollAssertFails == /\ pc = "poll" /\ Size <= 0
                   /\ pc' = "failed"
                   /\ UNCHANGED <<fileVars, pollVars, held, batch, cur, after>>

(* for (auto &event : events), in the order the poller chose               *)
NextEvent == /\ pc = "dispatch" /\ cur = None /\ batch # NoEvents
             /\ \E f \in Files : batch[f] # {} /\ cur' = f
             /\ UNCHANGED <<fileVars, pollVars, held, batch, pc, after>>

(* Mutant: destroyed files are cleared after every event.                  *)
EventDoneClears == /\ pc = "dispatch" /\ cur # None /\ batch[cur] = {}
                   /\ cur' = None
                   /\ pc' = IF batch = NoEvents THEN "app" ELSE "clear"
                   /\ UNCHANGED <<fileVars, pollVars, held, batch, after>>

EventDone == /\ pc = "dispatch" /\ cur # None /\ batch[cur] = {}
             /\ cur' = None
             /\ pc' = IF batch = NoEvents THEN "app" ELSE "dispatch"
             /\ UNCHANGED <<fileVars, pollVars, held, batch, after>>

(* The flags of an event are handled in the order R, W, E.                 *)
Handling(flag) ==
  /\ pc = "dispatch" /\ cur # None /\ flag \in batch[cur]
  /\ flag = "W" => "R" \notin batch[cur]
  /\ flag = "E" => batch[cur] = {"E"}
Handled(flag) == batch' = [batch EXCEPT ![cur] = @ \ {flag}]

(* Take the callback out of the file before calling it.                    *)
Call(name) == /\ armed' = [armed EXCEPT ![cur] = @ \ {name}]
              /\ pc' = "callback" /\ after' = name
              /\ UNCHANGED cur

(* Mutant: an accepted file is not inserted into mActiveFiles.             *)
OnAcceptNotActive(f, d) ==
  /\ Handling("R") /\ "accept" \in armed[cur]
  /\ Unused(d) /\ AllocFile(f)
  /\ fd' = [fd EXCEPT ![f] = d]
  /\ PollerAdd(d, f, {"R"})
  /\ held' = held \union {f}
  /\ IF Blocking THEN Handled("R") ELSE UNCHANGED batch
  /\ Call("accept")
  /\ UNCHANGED <<active, defer, leaked>>

(* onRead of a listening file: one connection, and in a non-blocking       *)
(* service the next ones until there are no more.                          *)
OnAccept(f, d) == /\ Handling("R") /\ "accept" \in armed[cur]
                  /\ Unused(d) /\ AllocFile(f)
                  /\ fd' = [fd EXCEPT ![f] = d]
                  /\ PollerAdd(d, f, {"R"})
                  /\ active' = active \union {f}
                  /\ held' = held \union {f}
                  /\ IF Blocking THEN Handled("R") ELSE UNCHANGED batch
                  /\ Call("accept")
                  /\ UNCHANGED <<defer, leaked>>

NoMoreConnections == /\ Handling("R") /\ "accept" \in armed[cur] /\ ~Blocking
                     /\ Handled("R")
                     /\ UNCHANGED <<fileVars, pollVars, held, cur, pc, after>>

(* onRead of a connection: the tryComplete... calls run the callback of    *)
(* the armed read, and again if it arms another that can be served.        *)
OnRead == /\ Handling("R") /\ "read" \in armed[cur] /\ "accept" \notin armed[cur]
          /\ Call("read")
          /\ UNCHANGED <<active, defer, free, fresh, fd, pollVars, held, batch>>

OnReadDone == /\ Handling("R") /\ "accept" \notin armed[cur]
              /\ Handled("R")
              /\ UNCHANGED <<fileVars, pollVars, held, cur, pc, after>>

(* onWrite of a file whose connect is in progress.                         *)
OnConnected == /\ Handling("W") /\ "connect" \in armed[cur]
               /\ Handled("W")
               /\ PollerUpdate(fd[cur], cur, {"R"})
               /\ Call("connect")
               /\ held' = held \union {cur}
               /\ UNCHANGED <<active, defer, free, fresh, fd, leaked>>

OnConnectFailed == /\ Handling("W") /\ "connect" \in armed[cur]
                   /\ PollerType = "epoll" => "E" \in batch[cur]
                   /\ Handled("W")
                   /\ armed' = [armed EXCEPT ![cur] = @ \ {"connect"}]
                   /\ DestroyFile(cur)
                   /\ UNCHANGED <<free, fresh, fd, pollVars, held, cur, pc, after>>

(* onWrite of a connection: the write completes, or more is to be sent.    *)
OnWrite == /\ Handling("W") /\ "write" \in armed[cur] /\ "connect" \notin armed[cur]
           /\ Handled("W")
           /\ Call("write")
           /\ UNCHANGED <<active, defer, free, fresh, fd, pollVars, held>>

OnWritePartial == /\ Handling("W") /\ "write" \in armed[cur] /\ "connect" \notin armed[cur]
                  /\ Handled("W")
                  /\ UNCHANGED <<fileVars, pollVars, held, cur, pc, after>>

OnWriteNothing == /\ Handling("W") /\ armed[cur] \intersect {"write", "connect"} = {}
                  /\ Handled("W")
                  /\ PollerUpdate(fd[cur], cur, {"R"})
                  /\ UNCHANGED <<fileVars, leaked, held, cur, pc, after>>

OnError == /\ Handling("E")
           /\ Handled("E")
           /\ DestroyFile(cur)
           /\ UNCHANGED <<free, fresh, fd, armed, pollVars, held, cur, pc, after>>

(* Mutant: onWrite resets the interest whether or not the callback wrote.  *)
ReturnAlwaysUpdates ==
  /\ pc = "callback" /\ (after = "accept" => "accept" \in armed[cur])
  /\ IF after = "write" THEN PollerUpdate(fd[cur], cur, {"R"})
     ELSE UNCHANGED <<ud, interest, mSize>>
  /\ pc' = "dispatch" /\ after' = None
  /\ UNCHANGED <<fileVars, leaked, held, batch, cur>>

(* The callback returns; onWrite drops the write interest if the callback  *)
(* has not called writeN again.                                            *)
Return == /\ pc = "callback" /\ (after = "accept" => "accept" \in armed[cur])
          /\ IF after = "write" /\ "write" \notin armed[cur]
             THEN PollerUpdate(fd[cur], cur, {"R"})
             ELSE UNCHANGED <<ud, interest, mSize>>
          /\ pc' = "dispatch" /\ after' = None
          /\ UNCHANGED <<fileVars, leaked, held, batch, cur>>

(* A system call of a callback, or of onRead, fails.  The exception leaves *)
(* wait with the rest of the batch; the application logs it and goes on.   *)
HandlerThrows == /\ \/ pc = "dispatch" /\ cur # None /\ "R" \in batch[cur]
                    \/ pc = "callback" /\ (after = "accept" => "accept" \in armed[cur])
                 /\ pc' = "app" /\ batch' = NoEvents /\ cur' = None /\ after' = None
                 /\ UNCHANGED <<fileVars, pollVars, held>>

(* So it does in onWrite, which has taken mConnectedCallback by the time   *)
(* it asks for the outcome of the connect: nobody is told of the file.     *)
OnWriteThrows == /\ Handling("W")
                 /\ armed' = [armed EXCEPT ![cur] = @ \ {"connect"}]
                 /\ pc' = "app" /\ batch' = NoEvents /\ cur' = None /\ after' = None
                 /\ UNCHANGED <<active, defer, free, fresh, fd, pollVars, held>>
-----------------------------------------------------------------------------
(* ~ProactorService                                                        *)

Delete == /\ pc = "app" /\ (OrderlyExit => active = {})
          /\ pc' = "closing"
          /\ UNCHANGED <<fileVars, pollVars, held, batch, cur, after>>

(* Every file still active is destroyed, in the order of an unordered_set. *)
CloseActive == /\ pc = "closing" /\ active # {}
               /\ \E f \in active : DestroyFile(f)
               /\ UNCHANGED <<free, fresh, fd, armed, pollVars, held, loopVars>>

CloseDone == /\ pc = "closing" /\ active = {}
             /\ pc' = "exit"
             /\ UNCHANGED <<fileVars, pollVars, held, batch, cur, after>>

(* Mutant: the destructor does not wait for the deferred files.            *)
DeletedEarly == /\ pc = "exit"
                /\ pc' = "gone"
                /\ UNCHANGED <<fileVars, pollVars, held, batch, cur, after>>

(* The free files and the poller are deleted.                              *)
Deleted == /\ pc = "exit" /\ defer = <<>>
           /\ pc' = "gone"
           /\ UNCHANGED <<fileVars, pollVars, held, batch, cur, after>>

Application == \/ \E f \in Files, d \in Fds :
                    CreateConnected(f, d) \/ CreateConnecting(f, d) \/ CreateListening(f, d)
               \/ \E d \in Fds : CreateFails(d)
               \/ \E f \in Files : Rearm(f) \/ Read(f) \/ Write(f) \/ Destroy(f)
               \/ Wait \/ Delete
Clear    == UninitBegin \/ UninitEnd \/ UninitAgain \/ ClearDone
Dispatch == \/ Poll \/ PollAssertFails \/ NextEvent \/ EventDone
            \/ \E f \in Files, d \in Fds : OnAccept(f, d)
            \/ NoMoreConnections \/ OnRead \/ OnReadDone
            \/ OnConnected \/ OnConnectFailed \/ OnWrite \/ OnWritePartial \/ OnWriteNothing
            \/ OnError \/ Return \/ HandlerThrows \/ OnWriteThrows
Exit     == CloseActive \/ CloseDone \/ Deleted

Next == Application \/ Clear \/ Dispatch \/ Exit

(* The loop itself never stops by itself: wait is called again and again,  *)
(* and clearDeferDestroyFiles runs to its end.                             *)
(* The program ends when nothing is left to wait for, the accept callback  *)
(* re-arms before it returns, and a file has finitely many bytes to read,  *)
(* so that onRead comes to its end.                                        *)
Fairness == /\ WF_vars(Wait) /\ WF_vars(Clear) /\ WF_vars(Dispatch) /\ WF_vars(Exit)
            /\ WF_vars(active = {} /\ Delete)
            /\ WF_vars(\E f \in Files : Rearm(f))
            /\ SF_vars(OnReadDone)

Spec     == Init /\ [][Next]_vars
FairSpec == Spec /\ Fairness
-----------------------------------------------------------------------------
(* Properties                                                              *)

IsInjectiveSeq(s) == \A i, j \in 1..Len(s) : s[i] = s[j] => i = j

Initialised(f) == fd[f] # None
Registered(f)  == Initialised(f) /\ ud[fd[f]] = f
Deferred       == Elements(defer)
Freed          == Elements(free)

(* The types of all the state, with the rules on which file is current.    *)
TypeOK ==
  /\ active \subseteq Files /\ fresh \subseteq Files /\ held \subseteq Files
  /\ defer \in Seq(Files) /\ free \in Seq(Files)
  /\ fd \in [Files -> Fds \union {None}]
  /\ armed \in [Files -> SUBSET Callbacks]
  /\ ud \in [Fds -> Files \union {None}]
  /\ interest \in [Fds -> SUBSET {"R", "W"}]
  /\ mSize \in Int
  /\ leaked \subseteq Fds
  /\ batch \in [Files -> SUBSET {"R", "W", "E"}]
  /\ cur \in Files \union {None}
  /\ pc \in {"app", "callback", "clear", "uninit", "poll", "dispatch",
            "closing", "exit", "gone", "failed", "terminated"}
  /\ after \in Callbacks \union {"clear", "exit", None}
  /\ pc \in {"callback", "uninit"} => cur \in Files
  /\ pc = "callback" <=> after \in Callbacks
  /\ pc = "uninit" <=> after \in {"clear", "exit"}
  /\ pc \notin {"callback", "dispatch", "uninit"} => cur = None
  /\ pc \notin {"callback", "dispatch"} => batch = NoEvents

(* A file an event is waiting for, or whose event is being handled, is     *)
(* still initialised, registered under its own descriptor and not free: no *)
(* handler runs on a file that was recycled since wait collected the       *)
(* events, whatever the earlier handlers of the batch have destroyed.      *)
NoStaleDispatch ==
  \A f \in Files :
    (batch[f] # {} \/ (f = cur /\ pc \in {"dispatch", "callback"}))
      => Registered(f) /\ f \notin Freed

(* No file is destroyed twice: it is in one of mActiveFiles,               *)
(* mDeferDestoryFiles and mFreeFiles, and once, so that it is uninitialised*)
(* once and never handed to two connections.                               *)
DestroyedOnce ==
  /\ IsInjectiveSeq(defer) /\ IsInjectiveSeq(free)
  /\ Deferred \intersect (active \union Freed \union fresh) = {}
  /\ Freed \intersect (active \union fresh) = {}
  /\ active \intersect fresh = {}
  /\ pc = "uninit" => cur \notin active \union Deferred \union Freed \union fresh

(* A descriptor belongs to one file and the poller maps it to that file,   *)
(* whatever was destroyed, recycled or destroyed twice: closing a file     *)
(* never closes another file's connection.  And size() never counts more   *)
(* files than are open, so that the assertion of wait lets no poll without *)
(* a registration pass.  (That EPollPoller may count fewer is PollAssert's *)
(* violation.)                                                             *)
PollerMatchesFiles ==
  /\ \A f, g \in Files : fd[f] = fd[g] /\ Initialised(f) => f = g
  /\ \A f \in Files, d \in Fds : ud[d] = f <=> fd[f] = d
  /\ Size <= Cardinality({f \in Files : Initialised(f)})

Closing == pc \in {"closing", "exit", "gone", "terminated"} \/ after = "exit"

(* Until the service is deleted, the pointers the application may use are  *)
(* to live files: a call through one of them never reaches a file that was *)
(* closed or recycled.                                                     *)
HeldAreLive == ~Closing => held \subseteq active /\ \A f \in held : Registered(f)

(* A write that was accepted is polled for, and so is a pending connect,   *)
(* although the callback of an earlier write on the file, or the connected *)
(* callback, resets the interest of the same descriptor.                   *)
WriteInterest ==
  \A f \in Files : Registered(f) =>
    /\ "write" \in armed[f] => "W" \in interest[fd[f]]
    /\ "connect" \in armed[f] => interest[fd[f]] = {"W"} /\ armed[f] = {"connect"}

(* A file waiting to be reused has no descriptor and none of the callbacks *)
(* of the connection it served.                                            *)
FreeIsClean == \A f \in Freed : ~Initialised(f) /\ armed[f] = {}

(* Once the service is deleted every file that was allocated has been      *)
(* deleted with mFreeFiles, once, and the poller is empty, which its       *)
(* destructor asserts.                                                     *)
NoLeakAtExit ==
  pc = "gone" => /\ Freed \union fresh = Files /\ IsInjectiveSeq(free)
                 /\ \A d \in Fds : ud[d] = None

(* The assertion of the pollers, size() > 0, never fails in wait.          *)
PollAssert == pc # "failed"

(* At most the callback that the call opening the file brings with it.     *)
StartsClean(f) == /\ fd[f] = None /\ armed[f] = {}
                  /\ batch'[f] = {}
                  /\ armed'[f] \in {{}, {"connect"}, {"accept"}}
NewFilesStartClean == \A f \in Files : fd'[f] # fd[f] /\ fd'[f] # None => StartsClean(f)

(* A connection that takes a recycled file receives no event that was      *)
(* collected for the connection before, and finds none of its callbacks:   *)
(* whatever way the file went, in an orderly close, after an error or out  *)
(* of a handler that threw, nothing was left armed on it.                  *)
NewConnectionStartsClean == [][NewFilesStartClean]_vars

(* A file that was destroyed is eventually closed.                         *)
DestroyedAreClosed == \A f \in Files : f \in Deferred ~> ~Initialised(f)
=============================================================================
