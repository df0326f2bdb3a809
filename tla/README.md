# Verification of DailyProjects

DailyProjects is a collection of small programs in C++, C, C#, Go, Python and
other languages that share nothing but a repository.  This directory holds TLA+
models of the programs whose difficulty is in the ORDER of things: threads, an
event loop whose callbacks change the set it is iterating over, signal handlers
that interrupt one another, two machines whose users may both cancel, a log that
a crash may cut anywhere.  `PROJECT.json` lists the components, the TLC runs,
the lines of the source every definition stands for, a mutation of the code for
every property that is checked, the hazards of the code and the theorems.

    tlc -config ProactorSelect.cfg MCProactor     model-check one instance
    tlapm ProactorProofs.tla                      check the proofs

Paths below are relative to `src/`.

## 1. The system's parts

### Modelled

| Component | Source | State | Operations | What is hard |
|---|---|---|---|---|
| Readers-writer locks | `C++/ReaderWriterLock/main.cpp` | mutexes, `mReaderCount`, `mWriterCount`, start barrier, the shared `g_res`, `g_res2` | lock/unlockRead, lock/unlockWrite, PosixWaiter, the loops of main | interleaving of threads, mutexes handed from thread to thread |
| ProactorService, ProactorFile, IPoller | `C++/TCPSocket/Proactor.cpp`, `Poller.cpp` | active, deferred and free files, their callbacks and descriptors, the poller's registrations, the batch of events in progress | create, accept, read, write, destroy, wait, the handlers, the destructor | callbacks that destroy, create and re-arm files in the middle of a batch; exceptions; recycled objects and descriptors |
| EventDrivenReadBuffer2 | `C++/TCPSocket/IO.cpp` | buffer, begin and end, end mark, the pending callback | onRead (blocking, non-blocking), readLine, readN, readSome, init/uninit | reads asked for inside callbacks, the end of the stream, reuse |
| ThreadPool | `C++/ThreadPool/main.cpp` | queue, semaphore, results, exit flag | post, postmulti/apply, join, popTask with a timeout, destructor | tasks that post, a destructor that helps, a permit taken before the task |
| tsh | `CSAPP/8_Shell_Lab/tsh.c` | job list, next job ID; in the kernel: children, pending signals | eval, fg, bg, waitfg, quit, three signal handlers | handlers interrupt main and one another, SIGCHLDs coalesce, slots are reused |
| PersistentDictionary | `C#/PersistentDictionary/Main.cs` | dictionary in memory, write buffer, log file, temporary file | Add, Remove, indexer, Flush, ShrinkWriteAheadLog, Dispose, the constructor's replay | a crash between any two file operations or within one; what is logged and what is done may differ |
| Channel, Channel2, prime pipeline | `C++/Channel/main.cpp` | `mPtr`, `mSize`, the condition variables or semaphores of each channel; the filters | send, receive, filter, primeGen, delete | a sender waits inside the receiver's memory; shutdown and deletion pass through a chain of threads |
| LANFileTransfer | `C#/局域网数据传输/LANFileTransfer/*.cs` | per machine: state, current transfer, UI thread, workers; between them datagrams and a connection | SendFiles, UDPProtocol_0_1, both WorkImpl_Async, CancelWork, OnTransformEnd, closing the program | two users, four threads, timeouts, lost datagrams, reports that come late |
| IOCP file copy | `C++/IOCP拷贝文件/Test05/Test05.cpp` | three counters and an offset, requests, completions, open files | the start loop, wait, onReaded, onWrited, File, threadProc | the end is detected by polling counters that do not count everything |

How they interact.  The poller reports events to `ProactorService::wait`, which
calls `onRead` and `onWrite` of a file; a file hands bytes to its read buffer,
which calls the application's callback; the callback may call any operation of
any file or of the service.  `Proactor` keeps the files and the loop and
abstracts a buffer to "the callback that is set is completed, or is not";
`ReadBuffer` keeps the bytes and abstracts the loop to "onRead is called while
the socket is readable".  Both treat a callback as a point where every call that
the real callback could make may happen.  The other programs do not interact.
Within them: a filter of the pipeline is the receiver of one channel and the
sender of the next, and `Pipeline` composes as many channels as there are filters; in `FileTransfer` the two machines share only the
network, and on each of them the workers call the UI thread and wait for it.

### Correctness, in words

* Locks: a writer is alone; nothing written is lost; the program ends; in
  `ReaderWriterLock2` a reader that stands at the gate is not let through while a
  writer waits for `mResMutex` or is inside, though writers come and go.
* Event loop: no handler runs on a file that was destroyed and recycled since
  the events were collected; a file is destroyed once; a new connection inherits
  nothing; whatever may be written is polled for; everything is closed.
* Read buffer: it is invisible.  The callbacks see the stream, in order,
  without loss, and the end exactly at the end.
* Thread pool: each task runs once and in the queue's order; join returns
  exactly when its tasks are done; the destructor ends and leaves no task of the
  client behind.
* Persistent dictionary: the log tells the story of the memory, but for a record
  that a shrinking dropped; a client that adds only what is absent can open it again
  after any crash, unless the record was a removal; the next start reads what was
  there, but for what was in progress, not flushed or dropped, and for two ways of
  losing everything that section 3 names.
* Channels: a rendezvous; the filters are the primes; nothing is used after its
  deletion; the program ends.
* File transfer: success is reported only for whole files; outside two races the two
  users are not told opposite things; while the network works no thread waits for
  ever, as long as no report begins a second receive (section 3).
* Shell: the job list is the list of children; one is in the foreground; zombies
  are reaped; the prompt comes back.

### Not modelled

`PROJECT.json` names each with its reason.  Candidates for later: the write buffers
and older buffers of `IO.cpp`, WebProxy as a client of the event loop, Go's
ChatServer, SimpleTimingWheel, BuddyAllocator.  Left out for good: thin wrappers
of system calls, servers with one thread per connection and no shared state,
web pages and crawlers, the interpreters and compilers (pure functions of
unbounded syntax trees), the collections of exercises, graphics, games and
numeric experiments.

## 2. The modules

| Module | What it is |
|---|---|
| `RWSpec` | abstract readers-writer lock: the set of readers inside and of writers inside |
| `RWThreads` | the threads and mutexes that the two locks have in common |
| `RWLock`, `MCRWLock` | `ReaderWriterLock` with its program; TLC instance |
| `RWLock2`, `MCRWLock2` | `ReaderWriterLock2` with the same loops; TLC instance |
| `RWLockProofs` | theorems about both locks |
| `Proactor`, `MCProactor`, `ProactorProofs` | event loop and pollers; TLC instance; theorems |
| `ByteStream` | abstract connection: bytes arrive in order, a read is answered from where the last one stopped |
| `ReadBuffer`, `MCReadBuffer`, `ReadBufferProofs` | `EventDrivenReadBuffer2`; TLC instance; theorems |
| `PoolSpec` | abstract pool: waiting, running, finished tasks, joined results, closed |
| `ThreadPool`, `MCThreadPool`, `ThreadPoolProofs` | the pool with its workers and its client; TLC instance; theorems |
| `Tsh`, `MCTsh`, `TshProofs` | the shell and its kernel; TLC instance; theorems |
| `PersistentDictionary`, `MCPersistentDictionary`, `PersistentDictionaryProofs` | the dictionary, its two files and the crashes; TLC instance; theorems |
| `Rendezvous` | abstract channels: a value is offered, taken, and its sender goes on |
| `Pipeline`, `MCPipeline`, `PipelineProofs` | both channels and the chain of filters composed of them; TLC instance; theorems |
| `FileTransfer`, `MCFileTransfer`, `FileTransferProofs` | the two machines, their threads and the network; TLC instance; theorems |
| `IocpCopy`, `MCIocpCopy` | the copying program, its port and its threads; TLC instance |

An operator preceded by a comment that starts with "Mutant" is not part of the
model: it is the mutated form, used to see that a property can fail.

### State and steps

*RWLock, RWLock2.*  `pc[t]` is what thread t does next: an operation on a mutex of the
lock, on the semaphore or on the condition variable; the statements between two of
them belong to the step of the first.  That is where interference is possible, since
everything shared is touched under a mutex.  `doWrite` has steps of its own, as
`g_res2` and `g_res` are written one after the other (`DoWrite1`, `DoWrite2`), but
only one of its 100 iterations; `doRead` is one look at the data, and `g_gMutex`,
which a thread holds over its second release and nothing else that is modelled, has
no steps.  A mutex is its owner; `unlock` does not ask who calls it, because the last
reader unlocks what the first one locked (a default POSIX mutex permits it in
practice).  `PosixWaiter::wait` is its mutex (`LockWaiter`), the test of its loop and the
sleep, which gives the mutex back (`TestSignaled`), the mutex again after a broadcast or
a wakeup without a signal (`WakesUp`), and the guard's end (`Released`); `signal` is
`MainLock` and `MainSignal`.  `mReaderCountMutex` and
`mWriterCountMutex` of `ReaderWriterLock2` are mutexes "reader" and "writer"; the
program around it is its loops only.  The rounds are the loop counters of main.

*Proactor.*  `active`, `defer`, `free` are `mActiveFiles`, `mDeferDestoryFiles`,
`mFreeFiles`; the last two are stacks and modelled as such, because the order
decides which object a new connection gets.  `fresh` are the objects not yet
allocated.  `armed[f]` holds the callbacks of f that are not null.  `ud` and
`interest` are what the poller knows of a descriptor.  `batch`, `cur`, `pc` and
`after` are the program counter of the single thread: where in
`ProactorService::wait` it is, and in which callback.  Application calls (`Read`,
`Write`, `Destroy`, `CreateConnected`, ...) are possible in state "app", between
two waits, and in state "callback".  `HandlerThrows` leaves `wait` from a
callback or from `onRead` as an exception does, the rest of the batch being dropped;
`OnWriteThrows` does so from `onWrite`, which has by then taken `mConnectedCallback`
out of the file.  `mSize` exists for epoll only; `Size` is what `size()` returns.  `held` are
the pointers the application may use: what the callbacks gave it and it has not
destroyed.  The callbacks that report a refused connection are the code's.

*ReadBuffer.*  `buf` is `mBuf` up to `mDataEnd`, `begin` is `mDataBegin`, `size`
is `mBuf.size()`.  `stages` is the list of tryComplete calls still to be made:
three after `onRead`, one after a read method.  A callback running is
`calling`; a read method may be called then, which is how the real programs chain
their reads.  `Reopen` is uninit and init of a recycled file.  A connection may be
reset once (`reset`): the next read of the socket throws (`OnReadThrows`), in
`onReadNonblocking` after earlier rounds of its loop have put bytes into the buffer,
and the three attempts are skipped (`threw`).  The error having been told, the read
after it finds an orderly end.

*ThreadPool.*  Each semaphore operation, each section under `mThisLocker`, each
atomic decrement and each look at `mPoolExit` is a step.  Tasks are numbered in
the order they were pushed; `batchOf[t]` is the result object a task belongs to.
A running task may post another one (`PostInTask`), on a worker or inside the
destructor.

*Tsh.*  `stack` holds the handlers that have interrupted main, the innermost
last; each frame has the handler's place and the pid it holds.  `Deliver` pushes
one whenever a signal is pending, not blocked by `sigprocmask` in `eval`, and its
handler is not already running; `sa_mask` is empty, so that handlers nest.
`proc` and `event` are the kernel's: a child's state, and the stop or continue
that `waitpid` has not yet reported.  `world` says which keys are typed and
whether others signal the children, and never changes.

*PersistentDictionary.*  `log` and `temp` are the two files as sequences of records,
`mBuffer` what the writer of the log holds back.  The steps are the file operations:
`Call` fills the writer, `AppendWriteAheadLog` flushes and perhaps starts to shrink,
`DeleteTemp` to `OpenLog` are `ShrinkWriteAheadLog` line by line, `Apply` is the
operation on `mDictionary` that follows.  `Crash` ends the process at any of them: of a
buffer being written any part may be on disk, and its last record may be cut before
its value (`Cut`: the reader notices) or inside it (`Short`: it does not).  A replay
that throws is `Broken`.  `Recovered` is what the constructor makes of the files: it
deletes the temporary file unread, and without a log there is nothing.  `unrenamed` remembers
that the process was killed when the temporary file was the only one.  The client is the benchmark, which asks `Contains` before it
adds or removes, or the console, which does what is typed.

*Pipeline.*  `kind` says which of the two channels the program uses.  A critical section
of `Channel` is one step, a semaphore operation of `Channel2` one; `mSent` and
`mReceived` are the flag of a `CondVar` or the count of a semaphore.  Thread t reads
channel t and writes channel t + 1; thread 0 is the generator.  What `filter` does
with a number is part of the step that copies it.  The refinement mapping `SlotOf`
reads the abstract channel off the place of its sender and `mReceived`.

*FileTransfer.*  `ui[x]` is where machine x's UI thread is: in the message loop, in one
of the waits of the handshake, or in one of the windows it opens (the question, the
failure's message box, the folder).  `w[x][k]` is the worker for transfer k; `pc`, `state`
and `readInt` are the code's.  The accesses to `m_transState` are separate steps (`Test`,
`Assign`, `Check`), because `CancelWork` runs on the other thread.  A report of a
worker (`Aborted`, `Completed`, `Failed`, `Progress`) is `Control.Invoke`: it happens
when the UI thread is in its message loop or in a window, which runs a message loop
too (`Pumps`); while the folder is chosen there is no receiver for it to end (`NullReference`).
Data are put on the wire where they are
written; the last write before a `Flush` is that `Flush`.  A sender whose stream still
holds data dies in `Dispose`, which flushes it: the exception is nobody's.

The listener: `field` is `m_udpFileReceiverResult`, a receive that is pending, the
datagram that has completed it, or "done" once `EndReceive` was called for it; `calls`
are the callbacks that wait for the UI thread.  `Completes` is the receive, `Rearm` each
`BeginReceive`; `EndReceive` takes what `field` holds when the callback runs, which need not be
the receive it was called for (`EndReceiveWaits`, `EndReceiveThrows`), and a pending
receive takes the datagrams that `Receive` waits for.  `astray` remembers that
`OnTransformEnd` has begun a receive although the one before had not been handled yet.
With the default ports (`AppLogic.cs:329-330`) the sender's broadcast
arrives at its own listener too and is dropped by the Release build's test (180); it is
taken to come back before the answer of another machine, or the end of the five
seconds, does.  `late` and `victim` remember the two races in which the code
does not keep its promises; see below.  One simplification: a callback that runs inside a window of
`UDPProtocol_0_1` itself, and would ask the user or wait there, comes after it; it takes three
transfers to get there.

*IocpCopy.*  One step per interlocked operation, per look at a counter, and per request.

## 3. What the runs check

| Run | Instance | States | Shows |
|---|---|---|---|
| `rwlock` | 2 readers, 2 writers, 2 rounds, 1 wakeup without a signal | 199 174 | refinement of `RWSpec`, nothing lost, sound barrier, termination |
| `rwlock2` | 2 readers, 2 writers, 2 rounds | 57 713 | the same abstract lock; readers stay behind a waiting writer; termination |
| `proactor_select` | 3 files, 2 descriptors, select, non-blocking, cascading destroy callbacks | 80 080 | bookkeeping of files and callbacks; no leak at exit; every destroyed file is closed |
| `proactor_epoll` | 2 files, 2 descriptors, epoll, blocking, deletion at any time | 67 448 | what survives a file destroyed twice: files and descriptors stay matched, no stale event, writes polled for, clean new connections |
| `proactor_epoll_assert` | the same | violation | `ASSERT(size() > 0)` fails |
| `readbuffer` | all streams of up to 3 bytes over {a, b, newline}, chunks of 2, readN of 0 and 2, a connection that may be reset | 170 795 | refinement of `ByteStream`; exact end; nothing servable is left waiting, but for one case; reads are answered |
| `thread_pool` | 2 workers, 4 tasks, 2 batches of 1 or 2 | 214 192 | refinement of `PoolSpec`; no pop of an empty queue; the client's tasks are drained; join and destructor return |
| `tsh` | 2 children, 2 slots, a quiet and a rough world | 231 155 | list and children agree; one in the foreground; reaping; prompt |
| `persistent_dict` | 2 keys, 2 values (symmetric), 4 operations, 2 crashes, interval 2 | 2 709 319 | the log explains the dictionary; it can be opened again; what a crash may cost |
| `pipeline` | both channels, max from 2 to 12, 1 to 6 filters | 68 249 | refinement of `Rendezvous`; the primes; deletion; shutdown |
| `file_transfer` | 2 transfers of an empty and a non-empty file in calm weather, of one file in storms, or 3 of one file with a listener that goes astray | 811 603 | whole files; agreeing reports; no crash; everything settles |
| `iocp_assert` | 4 blocks, 2 buffers, 2 threads | violation | `myAssert(callback != NULL)` fails |

### Bounds, and why they are enough

*rwlock, rwlock2.*  Two readers make a first and a last reader who differ; two
writers contend for the gate; the second round lets a thread meet itself and the
others at every stage.  One wakeup without a signal is enough to come out of
`pthread_cond_wait` too early, at any time before main signals.  *proactor_select.*  Two open files let one destroy the
other, from a handler and from a destroy callback; the third object and the free
stack let a descriptor come back under another file, and a file under another
descriptor.  *proactor_epoll* needs only one file destroyed twice and another one
that is registered meanwhile.  *readbuffer.*  With chunks of two, three bytes cross
one growth of `mBuf`, an event may bring any part of them, and a line, a count
and the rest may each be asked for inside the callback of another; streams with
zero, one, two and three delimiters are all there.  *thread_pool.*  Two
workers and the destructor make three threads between semaphore and lock; four
tasks fill two batches, or one batch beside tasks posted alone, or tasks
that post tasks.  *tsh.*  Two children suffice for one SIGCHLD to stand for two,
for a foreground job beside a background one, and for a reused slot.
*persistent_dict.*  Four operations with a shrinking after every third give a shrinking
in the middle of an operation and records after it; the second crash may come in the
recovery from the first.  Two keys tell an operation from its neighbour.  *pipeline.*
The chain of filters is as long as the primes up to `max` require, so that `Depth`
cuts nothing off.  *file_transfer.*  An empty file needs no body and a file of one block
may be cut; a second transfer is what a late report of the first can hit.  In bad weather
(`calm` = FALSE) datagrams are lost and late, and programs are closed.  For the listener to
go astray two transfers are needed, and a third to meet what it has done.  The constraint
`Histories` combines these: two files sent twice in calm weather, one file sent twice in
storms, and three transfers of one file in calm weather, of which the first may be cancelled
and the third begins when the listener has gone astray.  It cuts off only steps of
users (a further `SendFiles`, a `Cancel`), which no fairness obliges them to take: a
history that ends there is one in which they do nothing more.
*iocp_assert.*  More blocks than buffers, so that onWrited reads.

`CHECK_DEADLOCK FALSE` is used where the program may stop: main has
printed, the service was deleted, the pool's destructor has returned, the shell
has exited, the operations, crashes or transfers are used up.  Symmetry permutes
files and descriptors (`proactor_epoll`) and keys and values (`persistent_dict`), which the code does not tell apart, and only where no liveness
is checked.

### Fairness

* Locks and pool: weak fairness for each thread.  The operating system runs what
  can run.  A mutex is not handed over in order, so nothing stronger is assumed
  of any operation; termination follows because the loops are finite.  The pool's
  client is under no obligation to call anything (`Call` is not fair).
* Event loop: `wait` is called for ever (`while (...) service->wait(...)` in every
  program that uses it), a handler that was entered comes to its end, an accept
  callback re-arms, and a file has finitely many bytes to read (strong fairness
  of `OnReadDone`).
* Read buffer: the poller is level-triggered, so that `onRead` is called as long
  as the socket is readable; the peer sends what it has and closes.
* Pipeline: weak fairness for each thread.
* File transfer: of the threads, dialogs and deliveries that can go on, one does
  (`WF_vars(Runs)`): each of them comes to an end after finitely many steps, so this
  is all that is needed.  Users need not send, cancel or quit, and `EverythingSettles`
  is claimed for calm weather and a listener that has not gone astray: with a datagram
  lost, or a second receive begun, the code does hang.
* Shell: main and handlers run, children that run end.  What others and the
  keyboard do is not fair, and the liveness properties are stated for the quiet
  world only: ctrl-c at the wrong time makes the shell signal itself for ever,
  and a job stopped by others while `fg` is running is waited for for ever.

### Disagreements between code and text

Each is a run that TLC must refute, and is quoted in `PROJECT.json` "findings".

1. `proactor_epoll_assert`: `destroyFile` may defer a file twice (a refused connect
   under epoll is destroyed by `onWrite` and again for the error flag);
   `EPollPoller::del` then counts down twice and the assertion at `Poller.cpp:214`
   fails with files registered.  `SelectPoller` has no error flag: there the file
   is destroyed once (theorem `ProactorDestroyedOnce`).
2. `iocp_assert`: `onWrited` starts reads that `pendingReadReq` does not count while
   `onReaded` counts every read down, so that `wait` returns with a read under way;
   main destroys the files, and `myAssert(callback != NULL)` (`Test05.cpp:165`) fails.

Noticed while modelling and left without a run; what the model does in each case is
what the code does, and the properties are stated beside it:

* `tsh`: `fg` writes FG into a slot that the job's end has cleared meanwhile
  (`tsh.c:297`), so that the list may have two entries in state FG, against the comment
  at `tsh.c:35`; `OneForeground` is about entries that have a process.  Ctrl-c at the
  prompt makes `tsh` signal its own group (`tsh.c:359`, `kill(-0, SIGINT)`); `ESRCH` in a
  handler ends the shell; a job ID can be given twice after the counter wraps
  (`tsh.c:422`); a full job list makes the handler dereference NULL (`tsh.c:342`).
* Read buffer: `tryCompleteReadSome` (`IO.cpp:456`) ignores the end of the stream: a
  readSome that is pending when the peer closes is never answered, though its callback
  has a parameter `eof` and WebProxy waits for it.  `ReadsAreAnswered` is about readLine
  and readN.  When a connection is reset in the middle of `onReadNonblocking`'s loop, the
  exception (`IO.cpp:47`, called at 378) skips the attempts at 384-386: a pending read stays
  unanswered though the buffer could serve it.  `NothingServable` names the case and says that the end is
  then still to be read, so that a level-triggered poller calls `onRead` again and the
  read is answered; it would not be with an edge-triggered one.
* Persistent dictionary: an `Add` of a present key is logged before it throws
  (lines 56-57), after which the replay throws `ArgumentException` at every start, and
  only `EndOfStreamException` is caught (114); hence the benchmark client in `Openable`.
  The shrinking inside `AppendWriteAheadLog` (133-137) comes before its caller has
  changed the dictionary, so that the operation that triggers it is not on disk
  (`missed`); if it was a removal, a later `Add` makes the log unreadable.  After a
  crash between lines 169 and 171 the constructor finds no log and deletes the temporary
  file, the only copy.  `Survives` is about what the next start reads, and excepts these two
  losses by name (`Unreadable`, `unrenamed`): it shows that there is no third.  A value that a
  crash has cut short is accepted (97); its key is one of those in doubt.
* Pipeline: `Channel` (not `Channel2`) has no mutex for senders; with two of them the
  second overwrites `mPtr` and `mSize`.  No program does that.
* File transfer: an `Abort` between `m_transState`'s test and its assignment is lost
  (`FileTransCharacter.cs:100-102`, `244-246`).  A receiver that cancels just after it
  has answered Continue ends alone, and the sender may have reported success or die
  in `Dispose` (`late`).  A worker that was aborted reports twice, and
  the second report ends whatever transfer has begun meanwhile (`victim`).
  `OnTransformEnd` begins to receive when the receive before has completed
  (`AppLogic.cs:295-299`), handled or not.  If its callback is still to come, that one
  then calls `EndReceive` (178) for the new, pending receive and blocks the UI thread, or
  for one that is done, which throws; if its handler is waiting for step 2 or for the
  port, the new receive takes them.  So in calm weather, and without a race at
  the transfer itself, B may hang, or A in `AcceptTcpClient` (132): `astray`, which
  `EverythingSettles` and the last part of `OutcomesAgree` except.  A report that comes
  while B chooses a folder meets `m_fileTransReceiver` null (287) and ends the program.  The
  receiver's loop at line 283 goes round for ever when the sender is gone.  The waits
  for the port and for the connection have no limit (`AppLogic.cs:132`, `213`).  A file
  that changes its size between lines 122 and 141 puts the two out of step; the model's
  files do not change.

## 4. What is proved

TLC covers the instances above; the theorems hold for every value of the
constants, under the named assumptions of the modules (finite sets of threads,
owners and descriptors distinct from "none").

In each Proofs module the inductive invariant is called `IInv` (in `PipelineProofs`
`LinkInv` and `SieveInv`, in `FileTransferProofs` `BookInv` and `AgreeInv`), a theorem
(`Inductive`, for `AgreeInv` `Agreement`) says that it always holds, and the other
theorems follow from it.

### RWLockProofs

`RWLockTypeCorrect`, `RWLockExclusion`, `RWLockConsistentRead`, `RWLockBarrier`,
`RWLockNothingLost` and `RWLockImplements` (`Spec => RWSpec`), for any finite sets of
readers and writers and any number of rounds.  Exclusion is not inductive: nothing in
it says why the last reader may unlock `mResMutex`.  The invariant `IInv` adds

* `MutexInv`: who holds which mutex follows from the thread's place;
* `CountInv`: `mReaderCount` is the number of readers between their increment and
  their decrement, `mResMutex` is held on their behalf exactly when one of them is
  past it, and while the first is still waiting for it there is no other;
* `DataInv`, `RoundInv`, `LabelInv`: the data agree unless a writer is in between;
  rounds and labels are in range;
* `BarrierInv`: main's acquires and the value of `g_mainWaiter` add up to the number
  of threads that have announced themselves, or have finished; until main signals, no
  thread is past the loop of `PosixWaiter::wait`, whatever woke it.

There is one lemma per group (`TypeStep`, `MutexStep`, `CountStep`, `BarrierStep`), each
with one case per action; the counting uses the cardinality theorems of the
library.  The refinement is the lemma `Simulation`: a step changes the set of
readers or writers inside as the abstract lock does, or not at all.  For
`RWLockNothingLost`, `WrittenInv` says that `g_res` is the cardinality of `Written`, the
set of pairs of a writer and a round whose increment was made (`WrittenUnmoved` is about
the steps that make none); when all are done
that set is `Writers \X (1..Rounds)`.

The same module proves `RWLock2Implements` and `RWLock2WriterPriority` (an action
property) about `RWLock2`, from the invariant `IInv2`.  Readers and writers count themselves in the same way
and hold a mutex as a kind, the readers `mResMutex`, the writers
`mWriterExcludeReaderMutex`; `Switch(kind, m)` says so once for both: the mutex is held
from the first thread's lock to the last thread's unlock, and a thread that is
about to lock or unlock it is alone, respectively leaves nobody behind.

### ThreadPoolProofs

`ThreadPoolNoEmptyPop`, `ThreadPoolDrainedAtExit` and `ThreadPoolImplementsPool`, for any
finite set of workers and any number of tasks and results.

* `PermitInv`: the queue is as long as the permits are many that are in `mTaskCount`,
  with a thread about to pop, or owed by a thread that has pushed.
* `TaskInv`: the queue holds the last tasks posted, in order; each one before is in
  one thread's hands or done.
* `ResultInv`: a result's `left` is the number of the tasks of its batch that are still
  to be pushed or to be counted; it is signalled only at 0.
* `MainInv`: what main's place says; in particular, since the destructor saw the queue
  empty, only tasks posted by tasks have come in.

### ReadBufferProofs

`ReadBufferTypeOK`, `ReadBufferEofExact`, `ReadBufferNothingServable` and
`ReadBufferImplementsByteStream`, for every set of inputs, every chunk size and
every way the bytes arrive.  `BufInv`: the buffer is the last part of what was received,
and an emptied one is rewound, which is why `mDataEnd == 0` is the right question at
the end of the stream.  `CallInv`: every read is hopeless (`Incomplete`) or its attempt is
still in `stages`; a callback's new request is covered by the attempts that its
read method or the rest of `onRead` makes.  The exception is an `onReadNonblocking` that
threw (`threw`): then the connection has ended and the end has not been read.

### PipelineProofs

`PipelineNoUseAfterDelete`, `PipelineImplementsRendezvous` and `PipelinePrimesExact`, for
every `max` and every number of filters.  `LinkInv` is what the two ends of a channel
know of each other: the threads are started in order (`ShapeInv`), a value that is being
sent is offered, being copied or handed over, and which of them is told by the two
signals (`ChanInv`), and a receiver is through exactly when its sender has been told or
is about to be (`EndInv`).  `SieveInv` is the arithmetic: thread t has been sent every
number that passes the filters before it, up to `Low(t)` (`GapInv`), has skipped no
prime (`SeekInv`), and the primes up to the t-th are those of the threads up to t
(`PrimeInv`).  That a number with no prime divisor below it is prime (`NextPrime`,
`PrimeDivisor`) needs a least divisor (`LeastNat`), which comes from the library's
minimality of finite sets: its induction theorems take operators and cannot be used.

### TshProofs

`TshListMatchesChildren`, `TshStatesAgree` and `TshOneForeground`, for any number of children,
any size of the job list and any keys.  Handlers nest, but none is interrupted by
itself (`StackInv`), so that what they have been told is a set of frames (`Told`, `Kills`).

* `KernelInv`: what a handler was told of a child is true of it, and what nobody was told
  yet has a SIGCHLD pending or a handler still asking.
* `ListInv`: the list has each pid once, and exactly those that are `Present`: forked and
  added, not reaped or reaped by a handler that is about to delete the job.
* `StopInv`, `AgreeInv`, if only the shell signals: only the foreground job is stopped, and
  main waits for it meanwhile; a state and a child disagree only while there is
  something to be told.

Each of them has a lemma per group of actions (`Steps`); what an action does to
frames, slots and children is stated first (`Delivered` to `SignalSent`).

### FileTransferProofs

`FileTransferReceivedWhole` and `FileTransferOutcomesAgree`, for any lists of files, any
number of transfers, any weather and whatever the listener does.  `BookInv` is what each machine knows of a transfer: nothing is written for
one that A has not started (`StartInv`, `FreshInv`), the count is the first message and is
the length of the list (`CountInv`), the sender's counters are in range (`SenderInv`), and
what the receiver has and what it still expects add up to the list (`ReceiverInv`); only a
worker that expects nothing more reports "ok" (`OutcomeInv`).  The operators that end in
`Does` say what a step does to the worker and to its connection; a transfer that a step
leaves alone is `Kept`.

`OutcomesAgree` needs to know where the two workers are with respect to each other.
`AgreeInv` adds to `BookInv`, for each transfer and in any weather (`TalkInv`):

* `TurnInv`: a question or an answer is under way only while the sender waits for it, or
  has given up waiting;
* `DecideInv`: while the sender decides on an answer, and after it has aborted, nothing
  that could complete the receiver's files is on the way, and the receiver has not
  completed;
* `AbortInv`: a receiver that has answered Abort (not one that cancelled after
  answering Continue, `late`) makes the sender abort or fail.

The first two conjuncts of `OutcomesAgree` follow.  The third, about calm weather, needs
`AskedInv` (B is asked about a transfer once, and what it heard in its listener is of
a transfer that A has begun: `HeardInv`) and, as long as neither race has happened and
the listener is not astray (`Undisturbed`, `CalmInv`): each machine has one transfer at
work, its current one, and has closed those that are not (`PlaceInv`); its receive is
pending, or has completed with a callback still to come, or is in the hands of the
handler or of the transfer (`PlaceListen`), so that `EndReceive` never waits or throws
and `Receive` gets step 2 and the port; and for each place of the receiver the places where the
sender may be, with the messages on the way and the blocks still to be written adding
up to the blocks that the receiver still expects (`StepInv`, `Rest`).  So a write never
meets a closed connection (`SenderOpen`), a read fails only after the sender has aborted,
and no program crashes (`NoClosing`, `PlaceStep`).  In calm weather a report comes in the message
loop (`CalmLoop`): while B talks to its user it has no worker.

### PersistentDictionaryProofs

`PersistentDictionaryLogExplains`, `PersistentDictionaryOpenable`,
`PersistentDictionarySurvives` and `PersistentDictionaryTypeOK`, for any non-empty finite set of
keys (those a client uses), any values, any interval, any number of operations and of
crashes.

What a log means is a fold, `Replay`, over a sequence of any length.  The library's
induction theorems take operators and cannot be used, so the induction is over sets:
a set of numbers that has 0 and n + 1 with n has all (`NatIsInductive`, from `LeastNat`),
and a set of sequences that has `<<>>` and `Append(s, e)` with s has all
(`SeqIsInductive`).  The community module's `FoldLeft` is a CHOSEN function on sets of
positions: `Unrolling` shows that there is one for every log, `RoundByRound` what it
does, and `OneMore` that the fold of a longer log is one more round of the fold of the
shorter.  The rest uses only `OneMore`:

* a replay that throws nothing is `Outcome`, the fold without exceptions (`Outcomes`), a part
  of a log that can be replayed can be replayed (`ReplayOfPrefix`), and a key that
  no record names keeps its value (`Untouched`);
* a snapshot replays to the dictionary it is of, in whatever order it lists the keys
  (`SnapshotReplays`);
* what a crash leaves of the records handed to the writer, a torn one included, can
  be replayed if all of them can (`WrittenReplays`), and differs only in their keys
  (`CrashedLog`).

None of the three invariants is inductive.  `ExplainInv` is `LogExplains` while it is
asked for; the steps of a shrinking and a crash do not keep the place of the missing
record, so `AgreeInv` says, whenever the dictionary is in memory and there is a log,
that log and buffer give the dictionary for each key but the missing record's.
`ReadInv` says that, for the benchmark, log and buffer together can be replayed and
claim no key that the dictionary lacks, which is what the next Add relies on.
`FileInv` says which of the files there are at each step of a shrinking, and that the
one which is complete is a snapshot; `ControlInv` which operation is in progress.
There is one lemma per action (`OpenIInv` to `CrashIInv`).

### ProactorProofs

With both pollers, for any number of files and descriptors, and wherever the
service is deleted: `ProactorTypeCorrect`, `ProactorNoStaleDispatch`,
`ProactorWriteInterest`, `ProactorFreeIsClean` and
`ProactorNewConnectionStartsClean` (an action property).  The others need more:

| theorem | assumes | because |
|---|---|---|
| `ProactorHeldAreLive` | select | with epoll, `wait` destroys a file for its error flag without telling the application |
| `ProactorDestroyedOnce` | `Supported` | with epoll a file may be destroyed twice (run `proactor_epoll_assert`); a destructor that has deferred all active files lets a cascading callback defer one again |
| `ProactorNoLeakAtExit` | epoll, or `Supported`'s second half | with select such a file is freed twice; with epoll the second `del` throws, and the destructor does not return |
| `ProactorPollerMatchesFiles` | finitely many files | the files are counted; with epoll a second `del` makes `size()` smaller than their number, never larger |
| `ProactorPollAssert` | `Supported`, no cascades, finitely many descriptors | the last file may be destroyed by a callback while the deferred ones are being cleared, after which `wait` polls with nothing registered |

`Supported` says that the poller is select, and that the service is deleted only
when no file is active or else destroy callbacks do not destroy other files.

The invariant `IInv` is bookkeeping, and does without "destroyed once".  A file
has a descriptor exactly when it is neither free nor fresh (`Opened`), and the
poller's map is the inverse of `mFd` (`Mapped`).  Every file with a descriptor is
active, deferred or being uninitialised (`Accounted`); the converse fails when a
file is deferred twice.  Fresh files are on no list (`NeverUsed`), so that
`allocFile` returns a file without a descriptor (`Allocating`).  What a pending
event, the running callback or the application can name has a descriptor
(`Pending`, `Handles`): only `uninit` closes one, `uninit` runs when no event is
pending, and it first tells the application (`UninitBegin` takes the file from
`held`).  A second `uninit` finds the file free already and changes nothing but
the count and the free list (`FreeingAgain`).  While `Single` holds (select, and
not in a destructor with cascades) the invariant adds `Once`: no file is on two
lists or twice on one, no error flag is reported, and the application's files and
the connecting ones are active.  `NextIInv` has one step per action;
`Destroying`, `Allocating`, `DestroyBooks` and `AllocateBooks` are the two
movements that many actions share.

### Only model-checked

* Liveness (termination, answered reads, returned joins, reaping, the prompt, closed
  files, settled transfers): fairness and ENABLED are out of the prover's reach.
  `Proactor`'s `DestroyedAreClosed` is of this kind.

## 5. Plan

1. Done: `RWSpec`, `RWLock`, `RWLock2`; `Proactor`; `ByteStream`, `ReadBuffer`; `PoolSpec`,
   `ThreadPool`; `Tsh`; `PersistentDictionary`; `Rendezvous`, `Pipeline`; `FileTransfer`;
   `IocpCopy`; proofs for `RWLock`, `RWLock2`, `Proactor`, `ThreadPool`, `ReadBuffer`, `Pipeline`,
   `Tsh`, `FileTransfer` and `PersistentDictionary`.
2. Every safety property that a passing run checks and the prover can reach is proved.
3. If time allows: `WriteBuffers`, `WebProxy` composed of `Proactor`'s files in pairs,
   `TimingWheel` against a set of deadlines, `Buddy` against a set of disjoint blocks,
   Go's ChatServer.

Recursive definitions are written as functions or with the folds of the community
modules, so that no module declares a RECURSIVE operator.
