---------------------------- MODULE FileTransfer ----------------------------
(***************************************************************************)
(* LANFileTransfer (C#): AppLogic, FileTransSender and FileTransReceiver   *)
(* of two machines, A which sends and B which receives.  A transfer is     *)
(* agreed on by UDP datagrams; its files go over a TCP connection.  Before *)
(* each file the sender writes Continue or Abort, the receiver answers in  *)
(* the same way, and either user may abort meanwhile.  On each machine the *)
(* UI thread runs AppLogic and one worker thread per transfer moves the    *)
(* files; a worker that reports something waits for the UI thread.         *)
(* Datagrams reach a machine in its listener, m_udpFileReceiver, on which  *)
(* one receive is begun at a time, and begun again by whoever finds it     *)
(* completed when the machine is idle.                                     *)
(* A step of a worker ends where the other threads can interfere: at each  *)
(* access to the connection and between the accesses to m_transState.      *)
(***************************************************************************)
EXTENDS Naturals, Sequences

CONSTANTS FileLists,    \* what is sent: for each file its number of blocks
          Weathers,     \* calm weather, TRUE, storms, FALSE, or both
          MaxTransfers  \* bound on the transfers

A == "A"
B == "B"
Peers == {A, B}
Transfers == 1 .. MaxTransfers

ASSUME FTAssumption == MaxTransfers \in Nat /\ FileLists \subseteq Seq(Nat) /\ Weathers \subseteq BOOLEAN

VARIABLES
  calm,      \* no datagram is lost or late, nobody quits
  files,
  n,         \* the transfers that A has begun
  ui,        \* where each UI thread is; "loop" is the message loop
  busy,      \* State is SendingFile or ReceivingFile
  cur,       \* the transfer of m_tcpClient, m_fileTransSender or -Receiver, 0: null
  asking,    \* the transfer B was asked to accept
  field,     \* m_udpFileReceiverResult: "pending", "done" after EndReceive,
             \*   or the datagram that has completed the receive
  calls,     \* completed receives whose callback waits for the UI thread
  echoes,    \* broadcasts of A in A's own listener
  dgrams,    \* datagrams on their way to B's listener, and the answers to A
  link,      \* "none", "listening", "connected" of each connection
  closed,    \* the machines that have closed it
  wire,      \* what is on its way to each machine
  w,         \* the workers
  outcome,   \* what each worker has reported
  (* What the properties remember.                                         *)
  received,  \* the files that B has written and closed
  late,      \* the transfers B cancelled after it had answered Continue
  victim,    \* the transfers that the worker of another one has closed
  astray     \* a report has begun a receive while the handler of the one
             \*   before was still to come, or was at work

net    == <<dgrams, link, closed, wire>>
app    == <<ui, busy, cur, asking>>
listen == <<field, calls, echoes, astray>>
book   == <<outcome, received, late, victim>>
vars   == <<calm, files, n, app, listen, net, w, book>>

NoWorker == [pc |-> "none", state |-> "Continue", readInt |-> "Continue", left |-> 0, blocks |-> 0]
Gone     == [NoWorker EXCEPT !.pc = "gone"]

Datagram(kind, k) == [kind |-> kind, of |-> k]
Pending == Datagram("pending", 0)
Done    == Datagram("done", 0)

Init == /\ calm \in Weathers /\ files \in FileLists /\ n = 0
        /\ ui = [x \in Peers |-> "loop"] /\ busy = [x \in Peers |-> FALSE]
        /\ cur = [x \in Peers |-> 0] /\ asking = 0
        /\ field = [x \in Peers |-> Pending] /\ calls = [x \in Peers |-> 0]
        /\ echoes = 0 /\ astray = FALSE
        /\ dgrams = [x \in Peers |-> <<>>]
        /\ link = [k \in Transfers |-> "none"] /\ closed = [k \in Transfers |-> {}]
        /\ wire = [k \in Transfers |-> [x \in Peers |-> <<>>]]
        /\ w = [x \in Peers |-> [k \in Transfers |-> NoWorker]]
        /\ outcome = [x \in Peers |-> [k \in Transfers |-> "none"]]
        /\ received = [k \in Transfers |-> <<>>] /\ late = {} /\ victim = {}
-----------------------------------------------------------------------------
(* The handshake.                                                          *)

Other(x) == IF x = A THEN B ELSE A
UiGoes(x, from, to) == ui[x] = from /\ ui' = [ui EXCEPT ![x] = to]

(* SendFiles, up to its wait of five seconds for an answer.  The broadcast *)
(* reaches every listener on its port, that of A included.                 *)
SendFiles == /\ UiGoes(A, "loop", "reply")
             /\ ~busy[A] /\ n < MaxTransfers
             /\ n' = n + 1
             /\ dgrams' = [dgrams EXCEPT ![B] = Append(@, Datagram("step0", n'))]
             /\ echoes' = echoes + 1
             /\ UNCHANGED <<calm, files, busy, cur, asking, field, calls, astray, link, closed, wire, w, book>>

(* The broadcast comes back before an answer can, and in five seconds.     *)
Echoed == echoes = 0 \/ field[A] # Pending

(* Nobody has answered; the socket is closed.                              *)
ReplyTimesOut == /\ UiGoes(A, "reply", "loop") /\ Echoed
                 /\ calm => dgrams[A] = <<>>
                 /\ dgrams' = [dgrams EXCEPT ![A] = <<>>]
                 /\ UNCHANGED <<calm, files, n, busy, cur, asking, listen, link, closed, wire, w, book>>

(* An answer: SendFiles goes on to AcceptTcpClient.                        *)
Answered == /\ UiGoes(A, "reply", "accept") /\ Echoed
            /\ dgrams[A] # <<>>
            /\ busy' = [busy EXCEPT ![A] = TRUE]
            /\ link' = [link EXCEPT ![n] = "listening"]
            /\ dgrams' = [dgrams EXCEPT ![A] = Tail(@),
                            ![B] = @ \o <<Datagram("step2", n), Datagram("port", n)>>]
            /\ UNCHANGED <<calm, files, n, cur, asking, listen, closed, wire, w, book>>

(* AcceptTcpClient returns; the sender writes FileCount and is started.    *)
Accept == /\ UiGoes(A, "accept", "loop")
          /\ link[n] = "connected"
          /\ cur' = [cur EXCEPT ![A] = n]
          /\ wire' = [wire EXCEPT ![n][B] = Append(@, <<"count", Len(files)>>)]
          /\ w' = [w EXCEPT ![A][n] = [NoWorker EXCEPT !.pc = "ask", !.left = Len(files)]]
          /\ UNCHANGED <<calm, files, n, busy, asking, listen, dgrams, link, closed, book>>

(* x closes these connections; what nobody can read any more is forgotten. *)
HangUp(x, S) == /\ closed' = [k \in Transfers |-> IF k \in S THEN closed[k] \cup {x} ELSE closed[k]]
                /\ wire' = [k \in Transfers |-> IF k \in S /\ Other(x) \in closed[k]
                                                THEN [y \in Peers |-> <<>>] ELSE wire[k]]
Dies(x) == /\ ui' = [ui EXCEPT ![x] = "dead"]
           /\ HangUp(x, {k \in Transfers : link[k] = "connected"})
-----------------------------------------------------------------------------
(* The listener.                                                           *)

Take(x) == dgrams[x] # <<>> /\ dgrams' = [dgrams EXCEPT ![x] = Tail(@)]

(* The receive that was begun completes with what is there.                *)
Completes(x) ==
  /\ ui[x] # "dead" /\ field[x] = Pending
  /\ calls' = [calls EXCEPT ![x] = @ + 1]
  /\ \/ /\ x = B /\ Take(B) /\ UNCHANGED echoes
        /\ field' = [field EXCEPT ![B] = Head(dgrams[B])]
     \/ /\ x = A /\ echoes > 0 /\ echoes' = echoes - 1 /\ UNCHANGED dgrams
        /\ field' = [field EXCEPT ![A] = Datagram("echo", 0)]
  /\ UNCHANGED <<calm, files, n, app, astray, link, closed, wire, w, book>>

(* BeginReceive, for which the receive before must have completed: the     *)
(* test is made at the end of UDPProtocol_0_1 and of OnTransformEnd.       *)
Rearm(x) == field' = [field EXCEPT ![x] = Pending]

(* The UI thread runs what other threads give it in its message loop and   *)
(* while one of these windows is open.                                     *)
Pumps(x) == ui[x] \in {"loop", "dialog", "box", "folder"}

(* UDPProtocol_0_1 is called.                                              *)
Called(x) == /\ Pumps(x) /\ calls[x] > 0
             /\ calls' = [calls EXCEPT ![x] = @ - 1]

(* It returns at once while a transfer is going on.                        *)
Ignored(x) == /\ Called(x) /\ busy[x]
              /\ UNCHANGED <<calm, files, n, app, field, echoes, astray, net, w, book>>

(* EndReceive waits if the receive of m_udpFileReceiverResult is pending,  *)
(* and throws, which ends the program, if it has been called for it.       *)
EndReceiveWaits(x) ==
  /\ Called(x) /\ ~busy[x] /\ field[x] = Pending
  /\ UiGoes(x, "loop", "receive")
  /\ UNCHANGED <<calm, files, n, busy, cur, asking, field, echoes, astray, net, w, book>>

EndReceiveThrows(x) ==
  /\ Called(x) /\ ~busy[x] /\ field[x] = Done
  /\ Dies(x)
  /\ UNCHANGED <<calm, files, n, busy, cur, asking, field, echoes, astray, dgrams, link, w, book>>

(* Somebody wants to send.  (Where three transfers have led to a call in a *)
(* window of this handler, one that would wait or ask there comes later.)  *)
Found == /\ field[B].kind = "step0"
         /\ \/ Called(B) /\ ~busy[B] /\ UiGoes(B, "loop", "dialog")
            \/ UiGoes(B, "receive", "dialog") /\ UNCHANGED calls
         /\ asking' = field[B].of
         /\ field' = [field EXCEPT ![B] = Done]
         /\ UNCHANGED <<calm, files, n, busy, cur, echoes, astray, net, w, book>>

(* What has come is A's own, or no step 0.                                 *)
Dropped(x) == /\ field[x].kind \in {"echo", "step2", "port"}
              /\ \/ Called(x) /\ ~busy[x] /\ UNCHANGED ui
                 \/ UiGoes(x, "receive", "loop") /\ UNCHANGED calls
              /\ Rearm(x)
              /\ UNCHANGED <<calm, files, n, busy, cur, asking, echoes, astray, net, w, book>>

(* The user of B says no; or yes: an answer to a socket that was closed is *)
(* lost.                                                                   *)
HandlerEnds(from) == /\ UiGoes(B, from, "loop")
                     /\ IF field[B] # Pending THEN Rearm(B) ELSE UNCHANGED field
                     /\ UNCHANGED <<calm, files, n, busy, cur, asking, calls, echoes, astray, net, w, book>>

Refuse == HandlerEnds("dialog")

Agree == /\ UiGoes(B, "dialog", "step2")
         /\ dgrams' = IF ui[A] = "reply" /\ n = asking
                      THEN [dgrams EXCEPT ![A] = Append(@, Datagram("step1", asking))] ELSE dgrams
         /\ UNCHANGED <<calm, files, n, busy, cur, asking, listen, link, closed, wire, w, book>>

(* Receive gets what no pending receive takes before it.                   *)
Receive == field[B] # Pending /\ Take(B)

(* Mutant: what arrives second is taken for step 2.                        *)
Step2Unchecked == /\ Receive
                  /\ UiGoes(B, "step2", "port") /\ busy' = [busy EXCEPT ![B] = TRUE]
                  /\ UNCHANGED <<calm, files, n, cur, asking, listen, link, closed, wire, w, book>>

(* It waits for step 2 of the same sender, for five seconds.               *)
Step2 == /\ Receive
         /\ IF Head(dgrams[B]) = Datagram("step2", asking)
            THEN UiGoes(B, "step2", "port") /\ busy' = [busy EXCEPT ![B] = TRUE]
            ELSE UiGoes(B, "step2", "box") /\ UNCHANGED busy
         /\ UNCHANGED <<calm, files, n, cur, asking, listen, link, closed, wire, w, book>>

Step2TimesOut == /\ UiGoes(B, "step2", "box")
                 /\ calm => dgrams = [x \in Peers |-> <<>>]
                 /\ UNCHANGED <<calm, files, n, busy, cur, asking, listen, net, w, book>>

(* The message that the connection has failed is closed.                   *)
Failure == HandlerEnds("box")

(* It waits, without a limit, for the port, and connects.                  *)
Port == /\ Receive /\ ui[B] = "port"
        /\ IF Head(dgrams[B]) = Datagram("port", asking)
           THEN /\ UiGoes(B, "port", "folder")
                /\ link' = [link EXCEPT ![asking] = "connected"]
           ELSE UNCHANGED <<ui, link>>
        /\ UNCHANGED <<calm, files, n, busy, cur, asking, listen, closed, wire, w, book>>

(* The user chooses a folder.                                              *)
Folder == /\ UiGoes(B, "folder", "count")
          /\ UNCHANGED <<calm, files, n, busy, cur, asking, listen, net, w, book>>
-----------------------------------------------------------------------------
(* The connection.                                                         *)

Arrived(x, k, kind) == /\ x \notin closed[k] /\ wire[k][x] # <<>>
                       /\ Head(wire[k][x])[1] = kind
Consume(x, k) == wire' = [wire EXCEPT ![k][x] = Tail(@)]

(* A read fails on one's own closed connection, or at its end; a write on  *)
(* a closed connection, where the other machine's closing may be noticed   *)
(* late.                                                                   *)
ReadFails(x, k)  == x \in closed[k] \/ (wire[k][x] = <<>> /\ Other(x) \in closed[k])
WriteFails(x, k) == closed[k] # {}
Write(x, k, m)   == /\ x \notin closed[k]
                    /\ wire' = IF closed[k] = {}
                               THEN [wire EXCEPT ![k][Other(x)] = Append(@, m)] ELSE wire

(* The constructor of the receiver, which reads the count on the UI        *)
(* thread, and Work; if the sender has gone, or a report has closed the    *)
(* connection while the folder was chosen, the exception ends the program. *)
Count == /\ UiGoes(B, "count", "loop")
         /\ Arrived(B, asking, "count") /\ Consume(B, asking)
         /\ cur' = [cur EXCEPT ![B] = asking] /\ asking' = 0
         /\ w' = [w EXCEPT ![B][asking] =
                    [NoWorker EXCEPT !.pc = "ask", !.left = Head(wire[asking][B])[2]]]
         /\ UNCHANGED <<calm, files, n, busy, listen, dgrams, link, closed, book>>

CountFails == /\ ui[B] = "count" /\ ReadFails(B, asking)
              /\ Dies(B)
              /\ UNCHANGED <<calm, files, n, busy, cur, asking, listen, dgrams, link, w, book>>
-----------------------------------------------------------------------------
(* The workers.  At(x, k, p): the worker of x for transfer k is at p.      *)

At(x, k, p) == ui[x] # "dead" /\ w[x][k].pc = p
Goes(x, k, to) == w' = [w EXCEPT ![x][k].pc = to]
Quiet == UNCHANGED <<calm, files, n, app, listen, dgrams, link, closed, book>>

(* The sender writes its state ...                                         *)
Ask(k) == /\ At(A, k, "ask") /\ w[A][k].left > 0
          /\ Write(A, k, <<"state", w[A][k].state>>)
          /\ Goes(A, k, "answer")
          /\ Quiet

(* ... which the receiver, or whose answer the sender, reads ...           *)
ReadState(x, k) ==
  /\ At(x, k, IF x = A THEN "answer" ELSE "ask")
  /\ x = B => w[x][k].left > 0
  /\ Arrived(x, k, "state") /\ Consume(x, k)
  /\ w' = [w EXCEPT ![x][k].pc = "test", ![x][k].readInt = Head(wire[k][x])[2]]
  /\ Quiet

Tested(x) == IF x = A THEN "check" ELSE "answer"

(* ... and takes over unless its user has aborted.                         *)
Test(x, k) == /\ At(x, k, "test")
              /\ Goes(x, k, IF w[x][k].state = "Continue" THEN "assign" ELSE Tested(x))
              /\ UNCHANGED wire /\ Quiet

(* Mutant: the sender does not take over the answer.                       *)
AssignNothing(x, k) == /\ At(x, k, "assign")
                       /\ Goes(x, k, Tested(x))
                       /\ UNCHANGED wire /\ Quiet

Assign(x, k) == /\ At(x, k, "assign")
                /\ w' = [w EXCEPT ![x][k].pc = Tested(x), ![x][k].state = w[x][k].readInt,
                                  ![x][k].readInt = "Continue"]
                /\ UNCHANGED wire /\ Quiet

Answer(k) == /\ At(B, k, "answer")
             /\ Write(B, k, <<"state", w[B][k].state>>)
             /\ Goes(B, k, "check")
             /\ Quiet

Check(x, k) == /\ At(x, k, "check")
               /\ w[x][k].state = "Abort" \/ x = B
               /\ Goes(x, k, IF w[x][k].state = "Abort" THEN "aborted" ELSE "header")
               /\ UNCHANGED wire /\ Quiet

(* The sender goes on: size and name of the next file, from the end of the *)
(* list.                                                                   *)
WriteHeader(k) == LET left == w[A][k].left
                  IN /\ At(A, k, "check") /\ w[A][k].state = "Continue"
                     /\ Write(A, k, <<"file", files[left]>>)
                     /\ w' = [w EXCEPT ![A][k].pc = "progress", ![A][k].left = left - 1,
                                       ![A][k].blocks = files[left]]
                     /\ Quiet

ReadHeader(k) == /\ At(B, k, "header")
                 /\ Arrived(B, k, "file") /\ Consume(B, k)
                 /\ w' = [w EXCEPT ![B][k].pc = "progress", ![B][k].left = @ - 1,
                                   ![B][k].blocks = Head(wire[k][B])[2]]
                 /\ UNCHANGED <<calm, files, n, app, listen, dgrams, link, closed, book>>

WriteBlock(k) == /\ At(A, k, "body")
                 /\ Write(A, k, <<"block">>)
                 /\ w' = [w EXCEPT ![A][k].blocks = @ - 1,
                                   ![A][k].pc = IF w[A][k].blocks = 1 THEN "ask" ELSE "body"]
                 /\ Quiet

(* Mutant: a file ends where the connection does.                          *)
ClosesEarly(k) == w[B][k].blocks = 0 \/ ReadFails(B, k)

(* The receiver reads what it expects; at the end of the connection its    *)
(* loop goes round without a way out.                                      *)
ReadBlock(k) == /\ At(B, k, "body") /\ w[B][k].blocks > 0
                /\ Arrived(B, k, "block") /\ Consume(B, k)
                /\ w' = [w EXCEPT ![B][k].blocks = @ - 1]
                /\ Quiet
Whole(k) == w[B][k].blocks = 0
CloseFile(k) == /\ At(B, k, "body") /\ Whole(k)
                /\ received' = [received EXCEPT ![k] =
                                  Append(@, IF w[B][k].blocks = 0 THEN "whole" ELSE "cut")]
                /\ Goes(B, k, "ask")
                /\ UNCHANGED <<calm, files, n, app, listen, net, outcome, late, victim>>

(* An exception: a failed read, or a failed write, whose data the stream   *)
(* of the sender keeps.                                                    *)
Breaks(x, k) ==
  LET p == w[x][k].pc
      reads  == IF x = A THEN {"answer"} ELSE {"ask", "header"}
      writes == IF x = A THEN {"ask", "check", "body"} ELSE {"answer"}
  IN /\ ui[x] # "dead"
     /\ p = "ask" => w[x][k].left > 0
     /\ p = "check" => w[x][k].state = "Continue"
     /\ \/ p \in reads /\ ReadFails(x, k) /\ Goes(x, k, "failed")
        \/ p = "body" /\ x = B /\ B \in closed[k] /\ Goes(x, k, "failed")
        \/ p \in writes /\ WriteFails(x, k) /\ Goes(x, k, IF x = A THEN "broken" ELSE "failed")
     /\ UNCHANGED wire /\ Quiet
-----------------------------------------------------------------------------
(* What a worker reports, run by the UI thread.                            *)

(* FileTransing: the progress of the current transfer is shown; without    *)
(* one the exception comes back to the worker.                             *)
Progress(x, k) == /\ At(x, k, "progress") /\ Pumps(x)
                  /\ Goes(x, k, IF cur[x] = 0 THEN "failed"
                                ELSE IF x = A /\ w[A][k].blocks = 0 THEN "ask" ELSE "body")
                  /\ UNCHANGED wire /\ Quiet

(* OnTransformEnd ends the current transfer, whoever has reported.  The    *)
(* sender's Dispose flushes what the stream has kept; an exception there   *)
(* ends the program.  At its end it begins to receive if the receive       *)
(* before has completed, whether it has been handled or not.               *)
OnTransformEnd(x, k) ==
  LET c == cur[x]
      p == w[x][c].pc
      Ended == IF field[x] = Pending THEN UNCHANGED <<field, astray>>
               ELSE Rearm(x) /\ astray' = (astray \/ calls[x] > 0 \/ ui[x] # "loop")
  IN IF ~busy[x] THEN Ended /\ UNCHANGED <<ui, busy, cur, closed, wire, victim>>
     ELSE /\ victim' = IF c = k THEN victim ELSE victim \cup {c}
          /\ \/ /\ x = A => p # "broken"
                /\ HangUp(x, {c})
                /\ cur' = [cur EXCEPT ![x] = 0] /\ busy' = [busy EXCEPT ![x] = FALSE]
                /\ Ended /\ UNCHANGED ui
             \/ /\ x = A /\ p \in {"broken", "progress", "body"}
                /\ Dies(x)
                /\ UNCHANGED <<cur, busy, field, astray>>

(* While B chooses a folder there is a connection and no receiver yet: the *)
(* connection is closed, and the exception ends the program, but for that  *)
(* of Aborted, with which the worker goes on to TransCompleted.            *)
NullReference(to) ==
  /\ victim' = victim \cup {asking}
  /\ IF to = "gone" THEN Dies(B) ELSE HangUp(B, {asking}) /\ UNCHANGED ui
  /\ UNCHANGED <<busy, cur, field, astray>>

Report(x, k, to, what) ==
  /\ Pumps(x)
  /\ w' = [w EXCEPT ![x][k] = IF to = "gone" THEN Gone ELSE [@ EXCEPT !.pc = to]]
  /\ outcome' = [outcome EXCEPT ![x][k] = IF @ = "none" THEN what ELSE @]
  /\ IF ui[x] = "folder" THEN NullReference(to) ELSE OnTransformEnd(x, k)
  /\ UNCHANGED <<calm, files, n, asking, calls, echoes, dgrams, link, received, late>>

(* Aborted, and then TransCompleted like every worker                      *)
Aborted(x, k)   == At(x, k, "aborted") /\ Report(x, k, "complete", "aborted")
Completed(x, k) == /\ At(x, k, "complete") \/ (At(x, k, "ask") /\ w[x][k].left = 0)
                   /\ Report(x, k, "gone", "ok")
Failed(x, k)    == /\ At(x, k, "failed") \/ At(x, k, "broken")
                   /\ Report(x, k, "gone", "failed")
-----------------------------------------------------------------------------
(* The user, and the weather.                                              *)

(* CancelWork                                                              *)
Cancel(x) == /\ ui[x] = "loop" /\ busy[x]
             /\ w' = [w EXCEPT ![x][cur[x]].state = "Abort"]
             /\ late' = IF /\ x = B /\ w[B][cur[B]].pc = "check"
                           /\ w[B][cur[B]].state = "Continue"
                        THEN late \cup {cur[B]} ELSE late
             /\ UNCHANGED <<calm, files, n, app, listen, net, outcome, received, victim>>

Quit(x) == /\ ~calm /\ ui[x] = "loop"
           /\ Dies(x)
           /\ UNCHANGED <<calm, files, n, busy, cur, asking, listen, dgrams, link, w, book>>

Lose(x) == /\ ~calm /\ Take(x)
           /\ UNCHANGED <<calm, files, n, app, listen, link, closed, wire, w, book>>
-----------------------------------------------------------------------------
Listener(x) == \/ Completes(x) \/ Ignored(x) \/ Dropped(x)
               \/ EndReceiveWaits(x) \/ EndReceiveThrows(x)

UiStep(x) == IF x = A THEN Answered \/ ReplyTimesOut \/ Accept
                      ELSE \/ Found \/ Refuse \/ Agree \/ Step2 \/ Step2TimesOut \/ Failure
                           \/ Port \/ Folder \/ Count \/ CountFails

Worker(x, k) == \/ ReadState(x, k) \/ Test(x, k) \/ Assign(x, k)
                \/ Check(x, k) \/ Breaks(x, k) \/ Progress(x, k)
                \/ Aborted(x, k) \/ Completed(x, k) \/ Failed(x, k)
                \/ x = A /\ (Ask(k) \/ WriteHeader(k) \/ WriteBlock(k))
                \/ x = B /\ (Answer(k) \/ ReadHeader(k) \/ ReadBlock(k) \/ CloseFile(k))

Runs == \E x \in Peers : Listener(x) \/ UiStep(x) \/ \E k \in Transfers : Worker(x, k)

Next == \/ SendFiles \/ Runs
        \/ \E x \in Peers : Cancel(x) \/ Quit(x) \/ Lose(x)

(* Message loops and pool threads run, and a dialog is answered: of those  *)
(* that can go on one does, which is enough as none goes on for ever.      *)
(* That somebody sends, cancels or quits, and that a datagram is lost, is  *)
(* up to them.                                                             *)
Spec == Init /\ [][Next]_vars /\ WF_vars(Runs)
-----------------------------------------------------------------------------
(* A receiver that says that a transfer is complete has every file of the  *)
(* sender, and every file whole, whatever was cancelled, closed or lost in *)
(* between.                                                                *)
ReceivedWhole == \A k \in Transfers :
  outcome[B][k] = "ok" => received[k] = [i \in 1 .. Len(files) |-> "whole"]

(* The two users are told the same, as far as that is possible: if the     *)
(* receiver completes, the sender has not aborted, and no program crashes; *)
(* if the sender completes, so does the receiver.  The exceptions: a       *)
(* receiver that cancels just after it has answered Continue, and the      *)
(* transfers which the late report of an earlier one closes.               *)
OutcomesAgree == \A k \in Transfers \ (late \cup victim) :
  /\ outcome[B][k] = "ok" => outcome[A][k] # "aborted"
  /\ outcome[A][k] = "ok" => outcome[B][k] # "aborted"
  /\ calm /\ ~astray /\ late \cup victim = {} =>
       /\ \A x \in Peers : ui[x] # "dead"
       /\ outcome[B][k] = "ok" => outcome[A][k] \in {"none", "ok"}
       /\ outcome[A][k] = "ok" => outcome[B][k] \in {"none", "ok"}

(* When nobody quits and no datagram is lost, the transfers that users     *)
(* begin come to an end: every UI thread is back in its message loop, none *)
(* waits in a handshake for ever, and the user of the receiver has had a   *)
(* report of every transfer, unless the late report of an earlier one has  *)
(* closed it.                                                              *)
EverythingSettles == <>[](calm /\ ~astray =>
  /\ \A x \in Peers : ui[x] \in {"loop", "dead"}
  /\ \A k \in Transfers : w[B][k].pc = "none" \/ outcome[B][k] # "none" \/ k \in victim)
=============================================================================
