------------------------- MODULE FileTransferProofs -------------------------
(***************************************************************************)
(* Proofs about the file transfer, for any lists of files, any number of   *)
(* transfers and any weather: what the receiver calls complete is whole,   *)
(* and the two users are told the same.                                    *)
(***************************************************************************)
EXTENDS FileTransfer, SequenceTheorems, TLAPS

Pcs   == {"none", "gone", "ask", "answer", "test", "assign", "check", "header", "progress", "body",
          "aborted", "complete", "failed", "broken"}
Modes == {"Continue", "Abort"}
Ends  == {"none", "ok", "failed", "aborted"}
WorkerType == [pc : Pcs, state : Modes, readInt : Modes, left : Nat, blocks : Nat]
Messages   == ({"count", "file"} \X Nat) \union ({"state"} \X Modes) \union {<<"block">>}
Datagrams  == [kind : {"step0", "step1", "step2", "port"}, of : Transfers]
Receives   == Datagrams \union {Pending, Done, Datagram("echo", 0)}

UiStates == {"loop", "reply", "accept", "receive", "dialog", "box", "step2", "port", "folder", "count", "dead"}
(* B has been asked, and has not yet taken the transfer or given it up.    *)
Asking   == ui[B] \in {"dialog", "step2", "port", "folder", "count"}

UiType == /\ files \in Seq(Nat) /\ n \in 0 .. MaxTransfers
          /\ ui \in [Peers -> UiStates] /\ ui[A] \in {"loop", "reply", "accept", "receive", "dead"}
          /\ busy \in [Peers -> BOOLEAN] /\ cur \in [Peers -> Transfers \union {0}]
          /\ asking \in Transfers \union {0}
          /\ ui[A] \in {"reply", "accept"} => n \in Transfers
          /\ Asking => asking \in Transfers
          /\ dgrams \in [Peers -> Seq(Datagrams)]
WorkType == w \in [Peers -> [Transfers -> WorkerType]]
NetType  == /\ closed \in [Transfers -> SUBSET Peers]
            /\ wire \in [Transfers -> [Peers -> Seq(Messages)]]
BookType == /\ outcome \in [Peers -> [Transfers -> Ends]]
            /\ received \in [Transfers -> Seq({"whole"})]
ListenType == field \in [Peers -> Receives] /\ calls \in [Peers -> Nat] /\ astray \in BOOLEAN
TypeInv == UiType /\ WorkType /\ NetType /\ BookType /\ ListenType

(* A transfer that A has not started: nothing has been written.            *)
FreshInv == \A k \in Transfers :
  k > n \/ (k = n /\ ui[A] \in {"reply", "accept"}) => w[A][k].pc = "none"
StartInv(k) == w[A][k].pc = "none" => w[B][k].pc = "none" /\ \A x \in Peers : wire[k][x] = <<>>

(* The count comes first; what the receiver has and what it still expects. *)
CountInv(k) == \A i \in 1 .. Len(wire[k][B]) :
  wire[k][B][i][1] = "count" => i = 1 /\ w[B][k].pc = "none" /\ wire[k][B][i][2] = Len(files)

SenderInv(k) ==
  /\ w[A][k].left =< Len(files)
  /\ w[A][k].pc \in {"answer", "test", "assign", "check", "aborted"} => w[A][k].left > 0
  /\ w[A][k].pc = "body" => w[A][k].blocks > 0
  /\ w[A][k].blocks > 0 => w[A][k].pc \in {"progress", "body", "failed", "broken"}

ReceiverInv(k) == LET b == w[B][k] IN
  /\ b.pc = "none" => Len(received[k]) = 0
  /\ b.pc \in {"test", "assign", "answer", "check", "header"} => b.left > 0
  /\ b.pc \in {"ask", "test", "assign", "answer", "check", "header"} => b.left + Len(received[k]) = Len(files)
  /\ b.pc \in {"progress", "body"} => b.left + 1 + Len(received[k]) = Len(files)

OutcomeInv(k) ==
  /\ \A x \in Peers : /\ outcome[x][k] # "none" <=> w[x][k].pc \in {"complete", "gone"}
                      /\ w[x][k].pc = "complete" => outcome[x][k] = "aborted"
  /\ outcome[B][k] = "ok" => Len(received[k]) = Len(files)

WholeInv(k) == StartInv(k) /\ CountInv(k) /\ SenderInv(k) /\ ReceiverInv(k) /\ OutcomeInv(k)
BookInv == TypeInv /\ FreshInv /\ \A k \in Transfers : WholeInv(k)
-----------------------------------------------------------------------------
(* What the steps do to the workers.                                       *)
Others(x, k) == \A y \in Peers, j \in Transfers : y # x \/ j # k => w'[y][j] = w[y][j]
Becomes(x, k, p, state, readInt, left, blocks) ==
  /\ WorkType' /\ Others(x, k)
  /\ LET r == w'[x][k] IN /\ r.pc = p /\ r.state = state /\ r.readInt = readInt
                          /\ r.left = left /\ r.blocks = blocks
StepsTo(x, k, p) == Becomes(x, k, p, w[x][k].state, w[x][k].readInt, w[x][k].left, w[x][k].blocks)

LEMMA Peer == A \in Peers /\ B \in Peers /\ A # B /\ \A x \in Peers : x = A \/ x = B
BY DEF Peers, A, B

(* What the assignments to a worker's fields leave.                         *)
Fields(r, p, state, readInt, left, blocks) ==
  /\ r \in WorkerType
  /\ r.pc = p /\ r.state = state /\ r.readInt = readInt /\ r.left = left /\ r.blocks = blocks

LEMMA SetPc ==
  \A s \in WorkerType, p \in Pcs :
    Fields([s EXCEPT !.pc = p], p, s.state, s.readInt, s.left, s.blocks)
BY DEF WorkerType, Fields
LEMMA SetState ==
  \A s \in WorkerType, t \in Modes :
    Fields([s EXCEPT !.state = t], s.pc, t, s.readInt, s.left, s.blocks)
BY DEF WorkerType, Fields
LEMMA SetReadInt ==
  \A s \in WorkerType, p \in Pcs, q \in Modes :
    Fields([s EXCEPT !.pc = p, !.readInt = q], p, s.state, q, s.left, s.blocks)
BY DEF WorkerType, Fields
LEMMA SetBoth ==
  \A s \in WorkerType, p \in Pcs, t \in Modes, q \in Modes :
    Fields([s EXCEPT !.pc = p, !.state = t, !.readInt = q], p, t, q, s.left, s.blocks)
<1> SUFFICES ASSUME NEW s \in WorkerType, NEW p \in Pcs, NEW t \in Modes, NEW q \in Modes
             PROVE  Fields([s EXCEPT !.pc = p, !.state = t, !.readInt = q], p, t, q, s.left, s.blocks)
  OBVIOUS
<1> DEFINE r == [s EXCEPT !.pc = p, !.state = t, !.readInt = q]
<1>1. r \in WorkerType
  BY DEF WorkerType
<1>2. r.pc = p /\ r.state = t /\ r.readInt = q
  BY DEF WorkerType
<1>3. r.left = s.left /\ r.blocks = s.blocks
  BY DEF WorkerType
<1>4. QED
  BY <1>1, <1>2, <1>3 DEF Fields
LEMMA SetCounts ==
  \A s \in WorkerType, p \in Pcs, l \in Nat, b \in Nat :
    Fields([s EXCEPT !.pc = p, !.left = l, !.blocks = b], p, s.state, s.readInt, l, b)
<1> SUFFICES ASSUME NEW s \in WorkerType, NEW p \in Pcs, NEW l \in Nat, NEW b \in Nat
             PROVE  Fields([s EXCEPT !.pc = p, !.left = l, !.blocks = b], p, s.state, s.readInt, l, b)
  OBVIOUS
<1> DEFINE r == [s EXCEPT !.pc = p, !.left = l, !.blocks = b]
<1>1. r \in WorkerType
  BY DEF WorkerType
<1>2. r.pc = p /\ r.left = l /\ r.blocks = b
  BY DEF WorkerType
<1>3. r.state = s.state /\ r.readInt = s.readInt
  BY DEF WorkerType
<1>4. QED
  BY <1>1, <1>2, <1>3 DEF Fields
LEMMA SetBlocks ==
  \A s \in WorkerType, p \in Pcs, b \in Nat :
    /\ Fields([s EXCEPT !.blocks = b, !.pc = p], p, s.state, s.readInt, s.left, b)
    /\ Fields([s EXCEPT !.blocks = b], s.pc, s.state, s.readInt, s.left, b)
<1> SUFFICES ASSUME NEW s \in WorkerType, NEW p \in Pcs, NEW b \in Nat
             PROVE  /\ Fields([s EXCEPT !.blocks = b, !.pc = p], p, s.state, s.readInt, s.left, b)
                    /\ Fields([s EXCEPT !.blocks = b], s.pc, s.state, s.readInt, s.left, b)
  OBVIOUS
<1> DEFINE r == [s EXCEPT !.blocks = b, !.pc = p]
           t == [s EXCEPT !.blocks = b]
<1>1. r \in WorkerType
  BY DEF WorkerType
<1>2. r.pc = p /\ r.state = s.state /\ r.readInt = s.readInt
  BY DEF WorkerType
<1>3. r.left = s.left /\ r.blocks = b
  BY DEF WorkerType
<1>4. t \in WorkerType
  BY DEF WorkerType
<1>5. t.pc = s.pc /\ t.state = s.state /\ t.readInt = s.readInt
  BY DEF WorkerType
<1>6. t.left = s.left /\ t.blocks = b
  BY DEF WorkerType
<1>7. QED
  BY <1>1, <1>2, <1>3, <1>4, <1>5, <1>6 DEF Fields
LEMMA SetNew ==
  \A l \in Nat :
    /\ Fields([NoWorker EXCEPT !.pc = "ask", !.left = l], "ask", "Continue", "Continue", l, 0)
    /\ Fields(Gone, "gone", "Continue", "Continue", 0, 0)
BY DEF WorkerType, Fields, NoWorker, Gone, Pcs, Modes

LEMMA Put ==
  ASSUME WorkType, NEW x \in Peers, NEW k \in Transfers, NEW r,
         NEW p, NEW state, NEW readInt, NEW left, NEW blocks,
         Fields(r, p, state, readInt, left, blocks), w' = [w EXCEPT ![x][k] = r]
  PROVE  Becomes(x, k, p, state, readInt, left, blocks)
<1> DEFINE R == WorkerType
<1>1. w \in [Peers -> [Transfers -> R]] /\ r \in R
  BY DEF WorkType, Fields
<1> HIDE DEF R
<1>2. w' \in [Peers -> [Transfers -> R]]
  BY <1>1
<1>3. w'[x][k] = r /\ Others(x, k)
  BY <1>1 DEF Others
<1>4. QED
  BY <1>2, <1>3 DEF Becomes, Fields, WorkType, R

LEMMA Went ==
  ASSUME WorkType, NEW x \in Peers, NEW k \in Transfers, NEW to \in Pcs, Goes(x, k, to)
  PROVE  StepsTo(x, k, to)
<1>1. w[x][k] \in WorkerType
  BY DEF WorkType
<1>2. w' = [w EXCEPT ![x][k] = [w[x][k] EXCEPT !.pc = to]]
  BY DEF Goes, WorkType
<1>3. QED
  BY <1>1, <1>2, SetPc, Put DEF StepsTo
-----------------------------------------------------------------------------
(* What the steps do to the connections.                                   *)
Elsewhere(k) == \A j \in Transfers : j # k => wire'[j] = wire[j]
Sent(x, k, m) ==
  /\ NetType' /\ closed' = closed /\ x \notin closed[k] /\ Elsewhere(k)
  /\ wire'[k][x] = wire[k][x]
  /\ wire'[k][Other(x)] = IF closed[k] = {} THEN Append(wire[k][Other(x)], m)
                                            ELSE wire[k][Other(x)]
Got(x, k) ==
  /\ NetType' /\ closed' = closed /\ x \notin closed[k] /\ Elsewhere(k)
  /\ wire[k][x] # <<>>
  /\ wire'[k][x] = Tail(wire[k][x]) /\ wire'[k][Other(x)] = wire[k][Other(x)]

(* A connection that is closed loses what nobody can read.                 *)
NetKept(k) == /\ closed[k] \subseteq closed'[k]
              /\ \/ \A x \in Peers : wire'[k][x] = wire[k][x]
                 \/ closed'[k] = Peers /\ \A x \in Peers : wire'[k][x] = <<>>
BookKept(k) == /\ \A x \in Peers : outcome'[x][k] = outcome[x][k]
               /\ received'[k] = received[k]
Kept(k) == NetKept(k) /\ BookKept(k) /\ \A x \in Peers : w'[x][k] = w[x][k]

LEMMA OtherPeer ==
  /\ Other(A) = B /\ Other(B) = A
  /\ \A x \in Peers : /\ Other(x) \in Peers /\ Other(x) # x
                      /\ \A y \in Peers : y = x \/ y = Other(x)
BY Peer DEF Other

LEMMA MessageKinds ==
  ASSUME NEW m \in Messages
  PROVE  /\ m[1] \in {"count", "file", "state", "block"}
         /\ m[1] \in {"count", "file"} => m[2] \in Nat
         /\ m[1] = "state" => m[2] \in Modes /\ m = <<"state", m[2]>>
BY DEF Messages, Modes

LEMMA Wrote ==
  ASSUME NetType, NEW x \in Peers, NEW k \in Transfers, NEW m \in Messages,
         Write(x, k, m), closed' = closed
  PROVE  Sent(x, k, m)
<1>1. Other(x) \in Peers /\ Other(x) # x
  BY OtherPeer
<1>2. CASE closed[k] = {}
  <2>1. wire' = [wire EXCEPT ![k][Other(x)] = Append(wire[k][Other(x)], m)]
    BY <1>2 DEF Write
  <2>2. Append(wire[k][Other(x)], m) \in Seq(Messages)
    BY <1>1, AppendProperties DEF NetType
  <2> DEFINE S == Seq(Messages)
             s == Append(wire[k][Other(x)], m)
  <2>3. s \in S /\ wire \in [Transfers -> [Peers -> S]] /\ wire' = [wire EXCEPT ![k][Other(x)] = s]
    BY <2>1, <2>2 DEF NetType
  <2> HIDE DEF S, s
  <2>4. /\ wire' \in [Transfers -> [Peers -> S]] /\ wire'[k][Other(x)] = s
        /\ wire'[k][x] = wire[k][x] /\ Elsewhere(k)
    BY <1>1, <2>3 DEF Elsewhere
  <2>5. QED
    BY <1>2, <2>4 DEF Sent, NetType, Write, S, s
<1>3. CASE closed[k] # {}
  BY <1>3, <1>1 DEF Sent, NetType, Write, Elsewhere
<1>4. QED
  BY <1>2, <1>3

LEMMA Consumed ==
  ASSUME NetType, NEW x \in Peers, NEW k \in Transfers, NEW kind,
         Arrived(x, k, kind), Consume(x, k), closed' = closed
  PROVE  /\ Got(x, k)
         /\ Head(wire[k][x]) = wire[k][x][1] /\ wire[k][x][1] \in Messages /\ wire[k][x][1][1] = kind
<1>1. Other(x) \in Peers /\ Other(x) # x
  BY OtherPeer
<1>2. wire[k][x] \in Seq(Messages) /\ wire[k][x] # <<>>
  BY DEF NetType, Arrived
<1>3. Tail(wire[k][x]) \in Seq(Messages)
  BY <1>2, HeadTailProperties
<1> DEFINE S == Seq(Messages)
           s == Tail(wire[k][x])
<1>4. s \in S /\ wire \in [Transfers -> [Peers -> S]] /\ wire' = [wire EXCEPT ![k][x] = s]
  BY <1>3 DEF NetType, Consume
<1>5. Head(wire[k][x]) = wire[k][x][1] /\ wire[k][x][1] \in Messages /\ wire[k][x][1][1] = kind
  BY <1>2, LenProperties, EmptySeq, ElementOfSeq DEF Arrived
<1> HIDE DEF S, s
<1>6. /\ wire' \in [Transfers -> [Peers -> S]] /\ wire'[k][x] = s
      /\ wire'[k][Other(x)] = wire[k][Other(x)] /\ Elsewhere(k)
  BY <1>1, <1>4 DEF Elsewhere
<1>7. QED
  BY <1>2, <1>5, <1>6 DEF Got, NetType, Arrived, S, s

LEMMA Hung ==
  ASSUME NetType, NEW x \in Peers, NEW S, HangUp(x, S)
  PROVE  /\ NetType' /\ \A k \in Transfers : NetKept(k)
         /\ \A k \in Transfers : closed'[k] = IF k \in S THEN closed[k] \union {x} ELSE closed[k]
<1>1. \A k \in Transfers : closed'[k] = IF k \in S THEN closed[k] \union {x} ELSE closed[k]
  BY DEF HangUp
<1>2. closed' \in [Transfers -> SUBSET Peers]
  BY DEF HangUp, NetType
<1>3. <<>> \in Seq(Messages)
  BY EmptySeq
<1>4. [y \in Peers |-> <<>>] \in [Peers -> Seq(Messages)]
  BY <1>3
<1>5. wire' \in [Transfers -> [Peers -> Seq(Messages)]]
  <2> DEFINE N == [Peers -> Seq(Messages)]
  <2>1. [y \in Peers |-> <<>>] \in N /\ wire \in [Transfers -> N]
    BY <1>4 DEF NetType
  <2> HIDE DEF N
  <2>2. wire' \in [Transfers -> N]
    BY <2>1 DEF HangUp
  <2>3. QED
    BY <2>2 DEF N
<1>6. ASSUME NEW k \in Transfers PROVE NetKept(k)
  <2>1. CASE k \in S /\ Other(x) \in closed[k]
    <3>1. closed'[k] = Peers
      <4>1. closed[k] \subseteq Peers /\ closed'[k] = closed[k] \union {x}
        BY <2>1, <1>1 DEF NetType
      <4>2. \A y \in Peers : y = x \/ y = Other(x)
        BY OtherPeer
      <4>3. QED
        BY <2>1, <4>1, <4>2
    <3>2. wire'[k] = [y \in Peers |-> <<>>]
      BY <2>1 DEF HangUp
    <3>3. QED
      BY <1>1, <3>1, <3>2 DEF NetKept
  <2>2. CASE ~(k \in S /\ Other(x) \in closed[k])
    <3>1. wire'[k] = wire[k]
      BY <2>2 DEF HangUp
    <3>2. QED
      BY <1>1, <3>1 DEF NetKept
  <2>3. QED
    BY <2>1, <2>2
<1>7. QED
  BY <1>1, <1>2, <1>5, <1>6 DEF NetType
-----------------------------------------------------------------------------
(* The steps of the workers.                                               *)
NetSame  == closed' = closed /\ wire' = wire
BookSame == outcome' = outcome /\ received' = received /\ late' = late /\ victim' = victim
AppSame  == UNCHANGED <<calm, files, n, app, listen, dgrams, link>>

LEMMA QuietSame == Quiet => AppSame /\ BookSame /\ closed' = closed
BY DEF Quiet, AppSame, BookSame, book

AskDoes(k) ==
  /\ StepsTo(A, k, "answer") /\ Sent(A, k, <<"state", w[A][k].state>>)
  /\ w[A][k].pc = "ask" /\ w[A][k].left > 0 /\ AppSame /\ BookSame

LEMMA AskStep ==
  ASSUME TypeInv, NEW k \in Transfers, Ask(k)
  PROVE  AskDoes(k)
<1>1. AppSame /\ BookSame /\ closed' = closed
  BY QuietSame DEF Ask
<1>2. <<"state", w[A][k].state>> \in Messages
  BY Peer DEF TypeInv, WorkType, WorkerType, Messages
<1>3. QED
  BY <1>1, <1>2, Peer, Went, Wrote DEF Ask, At, TypeInv, Pcs, AskDoes

AnswerDoes(k) ==
  /\ StepsTo(B, k, "check") /\ Sent(B, k, <<"state", w[B][k].state>>)
  /\ w[B][k].pc = "answer" /\ AppSame /\ BookSame

LEMMA AnswerStep ==
  ASSUME TypeInv, NEW k \in Transfers, Answer(k)
  PROVE  AnswerDoes(k)
<1>1. AppSame /\ BookSame /\ closed' = closed
  BY QuietSame DEF Answer
<1>2. <<"state", w[B][k].state>> \in Messages
  BY Peer DEF TypeInv, WorkType, WorkerType, Messages
<1>3. QED
  BY <1>1, <1>2, Peer, Went, Wrote DEF Answer, At, TypeInv, Pcs, AnswerDoes

ReadStateDoes(x, k) ==
  /\ Becomes(x, k, "test", w[x][k].state, wire[k][x][1][2], w[x][k].left, w[x][k].blocks)
  /\ Got(x, k) /\ wire[k][x][1] = <<"state", wire[k][x][1][2]>> /\ wire[k][x][1][2] \in Modes
  /\ w[x][k].pc = IF x = A THEN "answer" ELSE "ask"
  /\ x = B => w[x][k].left > 0
  /\ AppSame /\ BookSame

LEMMA StateRead ==
  ASSUME TypeInv, NEW x \in Peers, NEW k \in Transfers, ReadState(x, k)
  PROVE  ReadStateDoes(x, k)
<1>1. AppSame /\ BookSame /\ closed' = closed
  BY QuietSame DEF ReadState
<1>2. /\ Got(x, k) /\ Head(wire[k][x]) = wire[k][x][1] /\ wire[k][x][1] \in Messages
      /\ wire[k][x][1][1] = "state"
  BY <1>1, Consumed DEF ReadState, TypeInv
<1>3. wire[k][x][1] = <<"state", wire[k][x][1][2]>> /\ wire[k][x][1][2] \in Modes
  BY <1>2, MessageKinds
<1> DEFINE q == wire[k][x][1][2]
           r == [w[x][k] EXCEPT !.pc = "test", !.readInt = q]
<1>4. w[x][k] \in WorkerType /\ "test" \in Pcs
  BY DEF TypeInv, WorkType, Pcs
<1>5. Fields(r, "test", w[x][k].state, q, w[x][k].left, w[x][k].blocks)
  BY <1>3, <1>4, SetReadInt
<1>6. w' = [w EXCEPT ![x][k] = r]
  BY <1>2 DEF ReadState, TypeInv, WorkType
<1>7. Becomes(x, k, "test", w[x][k].state, q, w[x][k].left, w[x][k].blocks)
  BY <1>5, <1>6, Put DEF TypeInv
<1>8. w[x][k].pc = (IF x = A THEN "answer" ELSE "ask") /\ (x = B => w[x][k].left > 0)
  BY DEF ReadState, At
<1>9. QED
  BY <1>1, <1>2, <1>3, <1>7, <1>8 DEF ReadStateDoes

TestDoes(x, k) ==
  /\ StepsTo(x, k, IF w[x][k].state = "Continue" THEN "assign" ELSE Tested(x))
  /\ w[x][k].pc = "test" /\ NetSame /\ AppSame /\ BookSame

LEMMA TestStep ==
  ASSUME TypeInv, NEW x \in Peers, NEW k \in Transfers, Test(x, k)
  PROVE  TestDoes(x, k)
<1>1. AppSame /\ BookSame /\ NetSame
  BY QuietSame DEF Test, NetSame
<1>2. (IF w[x][k].state = "Continue" THEN "assign" ELSE Tested(x)) \in Pcs
  BY DEF Tested, Pcs
<1>3. QED
  BY <1>1, <1>2, Went DEF Test, At, TypeInv, TestDoes

AssignDoes(x, k) ==
  /\ Becomes(x, k, Tested(x), w[x][k].readInt, "Continue", w[x][k].left, w[x][k].blocks)
  /\ w[x][k].pc = "assign" /\ NetSame /\ AppSame /\ BookSame

LEMMA Assigned ==
  ASSUME TypeInv, NEW x \in Peers, NEW k \in Transfers, Assign(x, k)
  PROVE  AssignDoes(x, k)
<1>1. AppSame /\ BookSame /\ NetSame
  BY QuietSame DEF Assign, NetSame
<1> DEFINE p == Tested(x)
           q == w[x][k].readInt
           r == [w[x][k] EXCEPT !.pc = p, !.state = q, !.readInt = "Continue"]
<1>2. p \in Pcs /\ q \in Modes /\ "Continue" \in Modes
  BY DEF Tested, Pcs, Modes, TypeInv, WorkType, WorkerType
<1>3. w[x][k] \in WorkerType
  BY DEF TypeInv, WorkType
<1> HIDE DEF p, q
<1>4. Fields(r, p, q, "Continue", w[x][k].left, w[x][k].blocks)
  BY <1>2, <1>3, SetBoth
<1>5. w' = [w EXCEPT ![x][k] = r]
  BY DEF Assign, TypeInv, WorkType, p, q
<1>6. Becomes(x, k, p, q, "Continue", w[x][k].left, w[x][k].blocks)
  BY <1>4, <1>5, Put DEF TypeInv
<1>7. QED
  BY <1>1, <1>6 DEF Assign, At, p, q, AssignDoes

CheckDoes(x, k) ==
  /\ StepsTo(x, k, IF w[x][k].state = "Abort" THEN "aborted" ELSE "header")
  /\ w[x][k].pc = "check" /\ (w[x][k].state = "Abort" \/ x = B)
  /\ NetSame /\ AppSame /\ BookSame

LEMMA Checked ==
  ASSUME TypeInv, NEW x \in Peers, NEW k \in Transfers, Check(x, k)
  PROVE  CheckDoes(x, k)
<1>1. AppSame /\ BookSame /\ NetSame
  BY QuietSame DEF Check, NetSame
<1>2. (IF w[x][k].state = "Abort" THEN "aborted" ELSE "header") \in Pcs
  BY DEF Pcs
<1>3. QED
  BY <1>1, <1>2, Went DEF Check, At, TypeInv, CheckDoes

WriteHeaderDoes(k) ==
  LET left == w[A][k].left IN
  /\ left > 0 /\ left =< Len(files) /\ files[left] \in Nat
  /\ Becomes(A, k, "progress", w[A][k].state, w[A][k].readInt, left - 1, files[left])
  /\ Sent(A, k, <<"file", files[left]>>)
  /\ w[A][k].pc = "check" /\ w[A][k].state = "Continue" /\ AppSame /\ BookSame

LEMMA HeaderWritten ==
  ASSUME TypeInv, NEW k \in Transfers, SenderInv(k), WriteHeader(k)
  PROVE  WriteHeaderDoes(k)
<1> DEFINE l == w[A][k].left
           f == files[l]
<1>1. AppSame /\ BookSame /\ closed' = closed
  BY QuietSame DEF WriteHeader
<1>2. l \in Nat /\ l > 0 /\ l =< Len(files)
  BY Peer DEF SenderInv, WriteHeader, At, TypeInv, WorkType, WorkerType
<1>3. f \in Nat
  BY <1>2, ElementOfSeq, LenProperties DEF TypeInv, UiType
<1>4. <<"file", f>> \in Messages
  BY <1>3 DEF Messages
<1>5. Sent(A, k, <<"file", f>>)
  BY <1>1, <1>4, Peer, Wrote DEF WriteHeader, TypeInv
<1> DEFINE m == l - 1
           r == [w[A][k] EXCEPT !.pc = "progress", !.left = m, !.blocks = f]
<1>6. m \in Nat
  BY <1>2
<1>7. w' = [w EXCEPT ![A][k] = r]
  BY Peer DEF WriteHeader, TypeInv, WorkType
<1>8. w[A][k] \in WorkerType
  BY Peer DEF TypeInv, WorkType
<1> HIDE DEF m, f
<1>9. "progress" \in Pcs
  BY DEF Pcs
<1>10. Fields(r, "progress", w[A][k].state, w[A][k].readInt, m, f)
  BY <1>3, <1>6, <1>8, <1>9, SetCounts
<1>11. Becomes(A, k, "progress", w[A][k].state, w[A][k].readInt, m, f)
  BY <1>7, <1>10, Peer, Put DEF TypeInv
<1>12. QED
  BY <1>1, <1>2, <1>3, <1>5, <1>11 DEF WriteHeader, At, m, f, WriteHeaderDoes

ReadHeaderDoes(k) ==
  LET left == w[B][k].left
      m    == wire[k][B][1][2]
  IN /\ left > 0 /\ m \in Nat /\ wire[k][B][1][1] = "file"
     /\ Becomes(B, k, "progress", w[B][k].state, w[B][k].readInt, left - 1, m)
     /\ Got(B, k) /\ w[B][k].pc = "header" /\ AppSame /\ BookSame

LEMMA HeaderRead ==
  ASSUME TypeInv, NEW k \in Transfers, ReceiverInv(k), ReadHeader(k)
  PROVE  ReadHeaderDoes(k)
<1> DEFINE f == wire[k][B][1][2]
           m == w[B][k].left - 1
           r == [w[B][k] EXCEPT !.pc = "progress", !.left = m, !.blocks = f]
<1>1. AppSame /\ BookSame /\ closed' = closed
  BY DEF ReadHeader, AppSame, BookSame, book
<1>2. /\ Got(B, k) /\ Head(wire[k][B]) = wire[k][B][1] /\ wire[k][B][1] \in Messages
      /\ wire[k][B][1][1] = "file"
  BY <1>1, Peer, Consumed DEF ReadHeader, TypeInv
<1>3. f \in Nat
  BY <1>2, MessageKinds
<1>4. w[B][k].left \in Nat /\ w[B][k].left > 0
  BY Peer DEF ReceiverInv, ReadHeader, At, TypeInv, WorkType, WorkerType
<1>5. m \in Nat
  BY <1>4
<1>6. w' = [w EXCEPT ![B][k] = r]
  BY <1>2, Peer DEF ReadHeader, TypeInv, WorkType
<1>7. w[B][k] \in WorkerType
  BY Peer DEF TypeInv, WorkType
<1> HIDE DEF m, f
<1>8. "progress" \in Pcs
  BY DEF Pcs
<1>9. Fields(r, "progress", w[B][k].state, w[B][k].readInt, m, f)
  BY <1>3, <1>5, <1>7, <1>8, SetCounts
<1>10. Becomes(B, k, "progress", w[B][k].state, w[B][k].readInt, m, f)
  BY <1>6, <1>9, Peer, Put DEF TypeInv
<1>11. QED
  BY <1>1, <1>2, <1>3, <1>4, <1>10 DEF ReadHeader, At, m, f, ReadHeaderDoes

WriteBlockDoes(k) ==
  LET s == w[A][k] IN
  /\ s.pc = "body" /\ s.blocks > 0 /\ Sent(A, k, <<"block">>) /\ AppSame /\ BookSame
  /\ Becomes(A, k, IF s.blocks = 1 THEN "ask" ELSE "body", s.state, s.readInt, s.left, s.blocks - 1)

LEMMA BlockWritten ==
  ASSUME TypeInv, NEW k \in Transfers, SenderInv(k), WriteBlock(k)
  PROVE  WriteBlockDoes(k)
<1>1. AppSame /\ BookSame /\ closed' = closed
  BY QuietSame DEF WriteBlock
<1>2. Sent(A, k, <<"block">>)
  BY <1>1, Peer, Wrote DEF WriteBlock, Messages, TypeInv
<1> DEFINE b == w[A][k].blocks - 1
           p == IF w[A][k].blocks = 1 THEN "ask" ELSE "body"
<1>3. w[A][k] \in WorkerType /\ w[A][k].blocks \in Nat /\ w[A][k].blocks > 0
  BY Peer DEF SenderInv, WriteBlock, At, TypeInv, WorkType, WorkerType
<1>4. b \in Nat
  BY <1>3
<1>5. p \in Pcs
  BY DEF Pcs
<1>6. w' = [w EXCEPT ![A][k] = [w[A][k] EXCEPT !.blocks = b, !.pc = p]]
  BY Peer DEF WriteBlock, TypeInv, WorkType
<1> HIDE DEF b, p
<1>7. Becomes(A, k, p, w[A][k].state, w[A][k].readInt, w[A][k].left, b)
  BY <1>3, <1>4, <1>5, <1>6, Peer, SetBlocks, Put DEF TypeInv
<1>8. QED
  BY <1>1, <1>2, <1>3, <1>7 DEF WriteBlock, At, b, p, WriteBlockDoes

ReadBlockDoes(k) ==
  LET s == w[B][k] IN
  /\ s.pc = "body" /\ s.blocks > 0 /\ Got(B, k) /\ wire[k][B][1][1] = "block" /\ AppSame /\ BookSame
  /\ Becomes(B, k, "body", s.state, s.readInt, s.left, s.blocks - 1)

LEMMA BlockRead ==
  ASSUME TypeInv, NEW k \in Transfers, ReadBlock(k)
  PROVE  ReadBlockDoes(k)
<1>1. AppSame /\ BookSame /\ closed' = closed
  BY QuietSame DEF ReadBlock
<1>2. Got(B, k) /\ wire[k][B][1][1] = "block"
  BY <1>1, Peer, Consumed DEF ReadBlock, TypeInv
<1> DEFINE b == w[B][k].blocks - 1
<1>3. w[B][k] \in WorkerType /\ w[B][k].blocks \in Nat /\ w[B][k].blocks > 0 /\ w[B][k].pc = "body"
  BY Peer DEF ReadBlock, At, TypeInv, WorkType, WorkerType
<1>4. b \in Nat
  BY <1>3
<1>5. w' = [w EXCEPT ![B][k] = [w[B][k] EXCEPT !.blocks = b]]
  BY Peer DEF ReadBlock, TypeInv, WorkType
<1> HIDE DEF b
<1>6. "body" \in Pcs
  BY DEF Pcs
<1>7. Fields([w[B][k] EXCEPT !.blocks = b], "body", w[B][k].state, w[B][k].readInt, w[B][k].left, b)
  BY <1>3, <1>4, <1>6, SetBlocks
<1>8. Becomes(B, k, "body", w[B][k].state, w[B][k].readInt, w[B][k].left, b)
  BY <1>5, <1>7, Peer, Put DEF TypeInv
<1>9. QED
  BY <1>1, <1>2, <1>3, <1>8 DEF b, ReadBlockDoes

CloseFileDoes(k) ==
  /\ w[B][k].pc = "body" /\ w[B][k].blocks = 0 /\ StepsTo(B, k, "ask") /\ NetSame /\ AppSame
  /\ BookType' /\ outcome' = outcome /\ late' = late /\ victim' = victim
  /\ Len(received'[k]) = Len(received[k]) + 1
  /\ \A j \in Transfers : j # k => received'[j] = received[j]

LEMMA Closed ==
  ASSUME TypeInv, NEW k \in Transfers, CloseFile(k)
  PROVE  CloseFileDoes(k)
<1>1. NetSame /\ AppSame /\ outcome' = outcome /\ late' = late /\ victim' = victim
  BY DEF CloseFile, NetSame, AppSame, net
<1>2. StepsTo(B, k, "ask") /\ w[B][k].pc = "body" /\ w[B][k].blocks = 0
  BY Peer, Went DEF CloseFile, Whole, At, TypeInv, Pcs
<1>3. received' = [received EXCEPT ![k] = Append(received[k], "whole")]
  BY DEF CloseFile, Whole
<1> DEFINE S == Seq({"whole"})
           r == Append(received[k], "whole")
<1>4. received \in [Transfers -> S] /\ r \in S /\ Len(r) = Len(received[k]) + 1
  BY AppendProperties DEF TypeInv, BookType
<1> HIDE DEF S
<1>5. /\ received' \in [Transfers -> S] /\ received'[k] = r
      /\ \A j \in Transfers : j # k => received'[j] = received[j]
  <2> HIDE DEF r
  <2> QED
    BY <1>3, <1>4 DEF r
<1>6. QED
  BY <1>1, <1>2, <1>4, <1>5 DEF TypeInv, BookType, S, CloseFileDoes

BreaksDoes(x, k) ==
  /\ NetSame /\ AppSame /\ BookSame
  /\ closed[k] # {}
  /\ \/ x = A /\ StepsTo(x, k, "failed") /\ w[x][k].pc = "answer"
     \/ x = B /\ StepsTo(x, k, "failed") /\ w[x][k].pc \in {"ask", "header", "body", "answer"}
     \/ x = A /\ StepsTo(x, k, "broken") /\ w[x][k].pc \in {"ask", "check", "body"}
  /\ w[x][k].pc = "ask" => w[x][k].left > 0
  /\ w[x][k].pc = "check" => w[x][k].state = "Continue"
  /\ w[x][k].pc = "answer" /\ x = A => ReadFails(x, k)
  /\ w[x][k].pc \in {"ask", "header"} /\ x = B => ReadFails(x, k)
  /\ w[x][k].pc = "body" /\ x = B => B \in closed[k]

LEMMA Broke ==
  ASSUME TypeInv, NEW x \in Peers, NEW k \in Transfers, Breaks(x, k)
  PROVE  BreaksDoes(x, k)
<1>1. AppSame /\ BookSame /\ NetSame
  BY QuietSame DEF Breaks, NetSame
<1>2. "failed" \in Pcs /\ "broken" \in Pcs
  BY DEF Pcs
<1>3. StepsTo(x, k, "failed") \/ ~Goes(x, k, "failed")
  BY <1>2, Went DEF TypeInv
<1>4. StepsTo(x, k, "broken") \/ ~Goes(x, k, "broken")
  BY <1>2, Went DEF TypeInv
<1>5. closed[k] # {}
  BY DEF Breaks, ReadFails, WriteFails
<1>6. /\ w[x][k].pc = "ask" => w[x][k].left > 0
      /\ w[x][k].pc = "check" => w[x][k].state = "Continue"
      /\ w[x][k].pc = "answer" /\ x = A => ReadFails(x, k)
      /\ w[x][k].pc \in {"ask", "header"} /\ x = B => ReadFails(x, k)
      /\ w[x][k].pc = "body" /\ x = B => B \in closed[k]
  BY Peer DEF Breaks
<1>7. CASE x = A
  <2>1. \/ w[A][k].pc = "answer" /\ Goes(x, k, "failed")
        \/ w[A][k].pc \in {"ask", "check", "body"} /\ Goes(x, k, "broken")
    BY <1>7, Peer DEF Breaks
  <2>2. QED
    BY <1>1, <1>3, <1>4, <1>5, <1>6, <1>7, <2>1 DEF BreaksDoes
<1>8. CASE x = B
  <2>1. w[B][k].pc \in {"ask", "header", "body", "answer"} /\ Goes(x, k, "failed")
    BY <1>8, Peer DEF Breaks
  <2>2. QED
    BY <1>1, <1>3, <1>5, <1>6, <1>8, <2>1 DEF BreaksDoes
<1>9. QED
  BY <1>7, <1>8, Peer

ProgressDoes(x, k) ==
  /\ NetSame /\ AppSame /\ BookSame /\ w[x][k].pc = "progress"
  /\ StepsTo(x, k, IF cur[x] = 0 THEN "failed"
               ELSE IF x = A /\ w[A][k].blocks = 0 THEN "ask" ELSE "body")

LEMMA Progressed ==
  ASSUME TypeInv, NEW x \in Peers, NEW k \in Transfers, Progress(x, k)
  PROVE  ProgressDoes(x, k)
<1>1. AppSame /\ BookSame /\ NetSame
  BY QuietSame DEF Progress, NetSame
<1> DEFINE to == IF cur[x] = 0 THEN "failed" ELSE IF x = A /\ w[A][k].blocks = 0 THEN "ask" ELSE "body"
<1>2. to \in Pcs
  BY DEF Pcs
<1>3. Goes(x, k, to)
  BY DEF Progress
<1> HIDE DEF to
<1>4. StepsTo(x, k, to)
  BY <1>2, <1>3, Went DEF TypeInv
<1>5. QED
  BY <1>1, <1>4 DEF Progress, At, to, ProgressDoes

(* A report: the worker and its outcome.                                   *)
OutcomeSet(x, k, what) ==
  /\ BookType'
  /\ outcome'[x][k] = IF outcome[x][k] = "none" THEN what ELSE outcome[x][k]
  /\ \A y \in Peers, j \in Transfers : y # x \/ j # k => outcome'[y][j] = outcome[y][j]
  /\ received' = received

ReportDoes(x, k, to, what) ==
  /\ IF to = "gone" THEN Becomes(x, k, "gone", "Continue", "Continue", 0, 0)
                    ELSE StepsTo(x, k, "complete")
  /\ OutcomeSet(x, k, what)
  /\ NetType' /\ \A j \in Transfers : NetKept(j)
  /\ Pumps(x) /\ UNCHANGED <<calm, files, n, asking, calls, dgrams, link, late>>
  /\ ui' = ui \/ ui' = [ui EXCEPT ![x] = "dead"]
  /\ IF ui[x] = "folder" THEN NullReference(to) ELSE OnTransformEnd(x, k)

LEMMA Reported ==
  ASSUME TypeInv, NEW x \in Peers, NEW k \in Transfers, NEW to \in {"complete", "gone"},
         NEW what \in Ends, Report(x, k, to, what)
  PROVE  ReportDoes(x, k, to, what)
<1>1. ASSUME to = "gone" PROVE Becomes(x, k, "gone", "Continue", "Continue", 0, 0)
  <2>1. w' = [w EXCEPT ![x][k] = Gone]
    BY <1>1 DEF Report
  <2>2. Fields(Gone, "gone", "Continue", "Continue", 0, 0)
    BY SetNew
  <2>3. Becomes(x, k, "gone", "Continue", "Continue", 0, 0)
    BY <2>1, <2>2, Put DEF TypeInv
  <2>4. QED
    BY <1>1, <2>3
<1>2. ASSUME to = "complete" PROVE StepsTo(x, k, "complete")
  <2>1. w' = [w EXCEPT ![x][k] = [w[x][k] EXCEPT !.pc = "complete"]]
    BY <1>2 DEF Report, TypeInv, WorkType
  <2>2. StepsTo(x, k, "complete")
    BY <2>1, Went DEF Goes, TypeInv, WorkType, Pcs
  <2>3. QED
    BY <1>2, <2>2
<1>3. OutcomeSet(x, k, what)
  <2> DEFINE v == IF outcome[x][k] = "none" THEN what ELSE outcome[x][k]
  <2>1. outcome' = [outcome EXCEPT ![x][k] = v] /\ v \in Ends
    BY DEF Report, TypeInv, BookType
  <2> HIDE DEF v
  <2>2. /\ outcome' \in [Peers -> [Transfers -> Ends]] /\ outcome'[x][k] = v
        /\ \A y \in Peers, j \in Transfers : y # x \/ j # k => outcome'[y][j] = outcome[y][j]
    BY <2>1 DEF TypeInv, BookType
  <2>3. received' = received
    BY DEF Report
  <2>4. QED
    BY <2>2, <2>3 DEF OutcomeSet, BookType, TypeInv, v
<1>4. NetType' /\ \A j \in Transfers : NetKept(j)
  <2>1. CASE closed' = closed /\ wire' = wire
    BY <2>1 DEF NetKept, TypeInv, NetType
  <2>2. CASE \E S : HangUp(x, S)
    BY <2>2, Hung DEF TypeInv
  <2>3. QED
    <3>1. NullReference(to) => \E S : HangUp(B, S)
      BY DEF NullReference, Dies
    <3>2. NullReference(to) => NetType' /\ \A j \in Transfers : NetKept(j)
      BY <3>1, Peer, Hung DEF TypeInv
    <3>3. OnTransformEnd(x, k) => (closed' = closed /\ wire' = wire) \/ \E S : HangUp(x, S)
      BY DEF OnTransformEnd, Dies
    <3>4. QED
      BY <2>1, <2>2, <3>2, <3>3 DEF Report
<1>5. /\ Pumps(x) /\ UNCHANGED <<calm, files, n, asking, calls, dgrams, link, late>>
      /\ IF ui[x] = "folder" THEN NullReference(to) ELSE OnTransformEnd(x, k)
  BY DEF Report
<1>6. ui' = ui \/ ui' = [ui EXCEPT ![x] = "dead"]
  <2>1. CASE ui[x] = "folder"
    <3>1. x = B
      BY <2>1, Peer DEF TypeInv, UiType
    <3>2. QED
      BY <1>5, <2>1, <3>1 DEF NullReference, Dies
  <2>2. CASE ui[x] # "folder"
    BY <1>5, <2>2 DEF OnTransformEnd, Dies
  <2>3. QED
    BY <2>1, <2>2
<1>7. QED
  BY <1>1, <1>2, <1>3, <1>4, <1>5, <1>6 DEF ReportDoes

CancelDoes(x) ==
  LET k == cur[x] IN
  /\ NetSame /\ AppSame /\ outcome' = outcome /\ received' = received /\ victim' = victim
  /\ ui[x] = "loop" /\ busy[x]
  /\ late' = IF /\ x = B /\ w[B][k].pc = "check" /\ w[B][k].state = "Continue"
             THEN late \union {k} ELSE late
  /\ \/ k = 0 /\ w' = w
     \/ /\ k \in Transfers
        /\ Becomes(x, k, w[x][k].pc, "Abort", w[x][k].readInt, w[x][k].left, w[x][k].blocks)

LEMMA Cancelled ==
  ASSUME TypeInv, NEW x \in Peers, Cancel(x)
  PROVE  CancelDoes(x)
<1> DEFINE k == cur[x]
<1>1. /\ NetSame /\ AppSame /\ outcome' = outcome /\ received' = received /\ victim' = victim
      /\ ui[x] = "loop" /\ busy[x]
      /\ late' = IF /\ x = B /\ w[B][k].pc = "check" /\ w[B][k].state = "Continue"
                 THEN late \union {k} ELSE late
  BY DEF Cancel, NetSame, AppSame, net
<1>2. k \in Transfers \/ k = 0
  BY DEF TypeInv, UiType
<1>3. ASSUME k \in Transfers
      PROVE  Becomes(x, k, w[x][k].pc, "Abort", w[x][k].readInt, w[x][k].left, w[x][k].blocks)
  <2>1. w[x][k] \in WorkerType /\ "Abort" \in Modes
    BY <1>3 DEF TypeInv, WorkType, Modes
  <2>2. w' = [w EXCEPT ![x][k] = [w[x][k] EXCEPT !.state = "Abort"]]
    BY <1>3 DEF Cancel, TypeInv, WorkType
  <2>3. Fields([w[x][k] EXCEPT !.state = "Abort"], w[x][k].pc, "Abort", w[x][k].readInt,
               w[x][k].left, w[x][k].blocks)
    BY <2>1, SetState
  <2>4. QED
    BY <1>3, <2>2, <2>3, Put DEF TypeInv
<1>4. ASSUME k = 0 PROVE w' = w
  <2>1. 0 \notin Transfers
    BY DEF Transfers
  <2>2. w[x] \in [Transfers -> WorkerType]
    BY DEF TypeInv, WorkType
  <2>3. DOMAIN w[x] = Transfers
    BY <2>2
  <2>4. w' = [w EXCEPT ![x] = [w[x] EXCEPT ![k] = [w[x][k] EXCEPT !.state = "Abort"]]]
    BY DEF Cancel, TypeInv, WorkType
  <2>5. [w[x] EXCEPT ![k] = [w[x][k] EXCEPT !.state = "Abort"]] = w[x]
    BY <1>4, <2>1, <2>2
  <2>6. QED
    BY <2>4, <2>5 DEF TypeInv, WorkType
<1>5. QED
  BY <1>1, <1>2, <1>3, <1>4 DEF CancelDoes

(* Closing the program.                                                    *)
LEMMA Died ==
  ASSUME TypeInv, NEW x \in Peers, Dies(x)
  PROVE  /\ NetType' /\ \A j \in Transfers : NetKept(j)
         /\ ui' = [ui EXCEPT ![x] = "dead"]
BY Hung DEF Dies, TypeInv

AcceptDoes ==
  /\ n \in Transfers /\ ui[A] = "accept" /\ link[n] = "connected"
  /\ ui' = [ui EXCEPT ![A] = "loop"] /\ cur' = [cur EXCEPT ![A] = n]
  /\ UNCHANGED <<calm, files, n, busy, asking, field, calls, astray, dgrams, link>>
  /\ Becomes(A, n, "ask", "Continue", "Continue", Len(files), 0)
  /\ NetType' /\ closed' = closed /\ Elsewhere(n) /\ wire'[n][A] = wire[n][A]
  /\ wire'[n][B] = Append(wire[n][B], <<"count", Len(files)>>) /\ BookSame

LEMMA AcceptStep ==
  ASSUME TypeInv, Accept
  PROVE  AcceptDoes
<1>1. /\ ui[A] = "accept" /\ ui' = [ui EXCEPT ![A] = "loop"] /\ cur' = [cur EXCEPT ![A] = n]
      /\ UNCHANGED <<calm, files, n, busy, asking, field, calls, astray, dgrams, link>>
      /\ closed' = closed /\ BookSame /\ link[n] = "connected"
  BY DEF Accept, UiGoes, BookSame, book, listen
<1>2. n \in Transfers /\ Len(files) \in Nat
  BY <1>1, LenProperties DEF TypeInv, UiType
<1>3. Becomes(A, n, "ask", "Continue", "Continue", Len(files), 0)
  BY <1>2, Peer, SetNew, Put DEF Accept, TypeInv
<1> DEFINE S == Seq(Messages)
           m == <<"count", Len(files)>>
           s == Append(wire[n][B], m)
<1>4. m \in Messages
  BY <1>2 DEF Messages
<1>5. s \in S /\ wire \in [Transfers -> [Peers -> S]] /\ wire' = [wire EXCEPT ![n][B] = s]
  BY <1>2, <1>4, Peer, AppendProperties DEF TypeInv, NetType, Accept
<1> HIDE DEF S, s
<1>6. /\ wire' \in [Transfers -> [Peers -> S]] /\ wire'[n][B] = s
      /\ wire'[n][A] = wire[n][A] /\ Elsewhere(n)
  BY <1>2, <1>5, Peer DEF Elsewhere
<1>7. QED
  BY <1>1, <1>2, <1>3, <1>6 DEF TypeInv, NetType, S, s, AcceptDoes

CountDoes ==
  LET k == asking IN
  /\ k \in Transfers /\ ui[B] = "count" /\ asking' = 0
  /\ ui' = [ui EXCEPT ![B] = "loop"] /\ cur' = [cur EXCEPT ![B] = k]
  /\ UNCHANGED <<calm, files, n, busy, field, calls, astray, dgrams, link>> /\ BookSame
  /\ Got(B, k) /\ wire[k][B][1][1] = "count" /\ wire[k][B][1][2] \in Nat
  /\ Becomes(B, k, "ask", "Continue", "Continue", wire[k][B][1][2], 0)

LEMMA CountRead ==
  ASSUME TypeInv, Count
  PROVE  CountDoes
<1> DEFINE k == asking
<1>1. /\ ui[B] = "count" /\ ui' = [ui EXCEPT ![B] = "loop"] /\ cur' = [cur EXCEPT ![B] = k]
      /\ asking' = 0 /\ UNCHANGED <<calm, files, n, busy, field, calls, astray, dgrams, link>>
      /\ closed' = closed /\ BookSame
  BY DEF Count, UiGoes, BookSame, book, listen
<1>2. k \in Transfers
  BY <1>1 DEF TypeInv, UiType, Asking
<1>3. Got(B, k) /\ Head(wire[k][B]) = wire[k][B][1] /\ wire[k][B][1] \in Messages /\ wire[k][B][1][1] = "count"
  BY <1>1, <1>2, Peer, Consumed DEF Count, TypeInv
<1>4. wire[k][B][1][2] \in Nat
  BY <1>3, MessageKinds
<1>5. w' = [w EXCEPT ![B][k] = [NoWorker EXCEPT !.pc = "ask", !.left = wire[k][B][1][2]]]
  BY <1>3 DEF Count
<1>6. Becomes(B, k, "ask", "Continue", "Continue", wire[k][B][1][2], 0)
  BY <1>2, <1>4, <1>5, Peer, SetNew, Put DEF TypeInv
<1>7. QED
  BY <1>1, <1>2, <1>3, <1>4, <1>6 DEF CountDoes
-----------------------------------------------------------------------------
(* The steps, by what they do.                                             *)
AbortedDoes(x, k)   == w[x][k].pc = "aborted" /\ ReportDoes(x, k, "complete", "aborted")
CompletedDoes(x, k) == /\ w[x][k].pc = "complete" \/ (w[x][k].pc = "ask" /\ w[x][k].left = 0)
                       /\ ReportDoes(x, k, "gone", "ok")
FailedDoes(x, k)    == w[x][k].pc \in {"failed", "broken"} /\ ReportDoes(x, k, "gone", "failed")
Reports(x, k) == AbortedDoes(x, k) \/ CompletedDoes(x, k) \/ FailedDoes(x, k)

WorkerDoes(x, k) ==
  \/ ReadStateDoes(x, k) \/ TestDoes(x, k) \/ AssignDoes(x, k) \/ CheckDoes(x, k)
  \/ BreaksDoes(x, k) \/ ProgressDoes(x, k) \/ Reports(x, k)
  \/ x = A /\ (AskDoes(k) \/ WriteHeaderDoes(k) \/ WriteBlockDoes(k))
  \/ x = B /\ (AnswerDoes(k) \/ ReadHeaderDoes(k) \/ ReadBlockDoes(k) \/ CloseFileDoes(k))

Hears(x)  == Completes(x) \/ Ignored(x) \/ Dropped(x) \/ EndReceiveWaits(x)
Handshake == \/ SendFiles \/ ReplyTimesOut \/ Answered \/ Found \/ Refuse \/ Agree
             \/ Step2 \/ Step2TimesOut \/ Failure \/ Port \/ Folder
             \/ \E x \in Peers : Lose(x) \/ Hears(x)
Closing   == CountFails \/ \E x \in Peers : Quit(x) \/ EndReceiveThrows(x)
Cases == \/ Handshake \/ Closing \/ AcceptDoes \/ CountDoes
         \/ \E x \in Peers : CancelDoes(x)
         \/ \E x \in Peers, k \in Transfers : WorkerDoes(x, k)

LEMMA StepCases ==
  ASSUME TypeInv, \A k \in Transfers : WholeInv(k), Next
  PROVE  Cases
<1>1. ASSUME NEW x \in Peers, NEW k \in Transfers, Worker(x, k)
      PROVE  WorkerDoes(x, k)
  <2>1. ReadState(x, k) => WorkerDoes(x, k)
    BY StateRead DEF WorkerDoes
  <2>2. Test(x, k) => WorkerDoes(x, k)
    BY TestStep DEF WorkerDoes
  <2>3. Assign(x, k) => WorkerDoes(x, k)
    BY Assigned DEF WorkerDoes
  <2>4. Check(x, k) => WorkerDoes(x, k)
    BY Checked DEF WorkerDoes
  <2>5. Breaks(x, k) => WorkerDoes(x, k)
    BY Broke DEF WorkerDoes
  <2>6. Progress(x, k) => WorkerDoes(x, k)
    BY Progressed DEF WorkerDoes
  <2>7. Aborted(x, k) => WorkerDoes(x, k)
    BY Reported DEF WorkerDoes, Reports, AbortedDoes, Aborted, At, Ends
  <2>8. Completed(x, k) => WorkerDoes(x, k)
    BY Reported DEF WorkerDoes, Reports, CompletedDoes, Completed, At, Ends
  <2>9. Failed(x, k) => WorkerDoes(x, k)
    BY Reported DEF WorkerDoes, Reports, FailedDoes, Failed, At, Ends
  <2>10. SenderInv(k) /\ ReceiverInv(k)
    BY DEF WholeInv
  <2>11. x = A /\ (Ask(k) \/ WriteHeader(k) \/ WriteBlock(k)) => WorkerDoes(x, k)
    BY <2>10, AskStep, HeaderWritten, BlockWritten DEF WorkerDoes
  <2>12. x = B /\ (Answer(k) \/ ReadHeader(k) \/ ReadBlock(k) \/ CloseFile(k)) => WorkerDoes(x, k)
    BY <2>10, AnswerStep, HeaderRead, BlockRead, Closed DEF WorkerDoes
  <2>13. QED
    BY <1>1, <2>1, <2>2, <2>3, <2>4, <2>5, <2>6, <2>7, <2>8, <2>9, <2>11, <2>12 DEF Worker
<1>2. Accept => AcceptDoes
  BY AcceptStep
<1>3. Count => CountDoes
  BY CountRead
<1>4. \A x \in Peers : Cancel(x) => CancelDoes(x)
  BY Cancelled
<1>5. ASSUME NEW x \in Peers, UiStep(x) PROVE Cases
  BY <1>5, <1>2, <1>3 DEF UiStep, Cases, Handshake, Closing
<1>6. ASSUME NEW x \in Peers, Cancel(x) \/ Quit(x) \/ Lose(x) PROVE Cases
  BY <1>6, <1>4 DEF Cases, Handshake, Closing
<1>7. SendFiles \/ (\E x \in Peers : Listener(x)) => Cases
  BY DEF Cases, Handshake, Closing, Listener, Hears
<1>8. ASSUME NEW x \in Peers, NEW k \in Transfers, Worker(x, k) PROVE Cases
  BY <1>8, <1>1 DEF Cases
<1>9. QED
  BY <1>5, <1>6, <1>7, <1>8 DEF Next, Runs

(* The handshake and the closing of a program leave the workers alone.     *)
LEMMA HandshakeKeeps ==
  ASSUME Handshake
  PROVE  /\ UNCHANGED <<calm, files, closed, wire, w, outcome, received, late, victim, astray>>
         /\ \A k \in Transfers : Kept(k)
<1>1. UNCHANGED <<calm, files, closed, wire, w, outcome, received, late, victim, astray>>
  BY DEF Handshake, SendFiles, ReplyTimesOut, Answered, Found, Refuse, Failure, HandlerEnds, Agree, Step2,
         Step2TimesOut, Port, Folder, Lose, Hears, Completes, Ignored, Dropped, EndReceiveWaits, book, net, listen
<1>2. QED
  BY <1>1 DEF Kept, NetKept, BookKept

LEMMA ClosingKeeps ==
  ASSUME TypeInv, Closing
  PROVE  /\ UNCHANGED <<calm, files, n, busy, cur, asking, dgrams, link, w, outcome, received, late, victim>>
         /\ UNCHANGED <<field, astray>>
         /\ \A k \in Transfers : Kept(k)
         /\ NetType' /\ \E x \in Peers : ui' = [ui EXCEPT ![x] = "dead"]
<1>1. PICK x \in Peers : Dies(x)
  BY Peer DEF Closing, CountFails, Quit, EndReceiveThrows
<1>2. /\ UNCHANGED <<calm, files, n, busy, cur, asking, dgrams, link, w, outcome, received, late, victim>>
      /\ UNCHANGED <<field, astray>>
  BY DEF Closing, CountFails, Quit, EndReceiveThrows, book, listen
<1>3. QED
  BY <1>1, <1>2, Died DEF Kept, BookKept

(* A worker's step leaves the other transfers alone, but for a report that *)
(* closes the connection of one of them.                                   *)
LEMMA NetStays == closed' = closed /\ wire' = wire => \A j \in Transfers : NetKept(j)
BY DEF NetKept
LEMMA NetElsewhere ==
  ASSUME NEW k \in Transfers, closed' = closed, Elsewhere(k)
  PROVE  \A j \in Transfers : j # k => NetKept(j)
BY DEF NetKept, Elsewhere
LEMMA BookStays == BookSame => \A j \in Transfers : BookKept(j)
BY DEF BookSame, BookKept

LEMMA Alone ==
  ASSUME NEW x \in Peers, NEW k \in Transfers, WorkerDoes(x, k)
  PROVE  Others(x, k)
<1>1. CASE x = A /\ (AskDoes(k) \/ WriteHeaderDoes(k) \/ WriteBlockDoes(k))
  BY <1>1 DEF AskDoes, WriteHeaderDoes, WriteBlockDoes, StepsTo, Becomes
<1>2. CASE x = B /\ (AnswerDoes(k) \/ ReadHeaderDoes(k) \/ ReadBlockDoes(k) \/ CloseFileDoes(k))
  BY <1>2 DEF AnswerDoes, ReadHeaderDoes, ReadBlockDoes, CloseFileDoes, StepsTo, Becomes
<1>3. CASE Reports(x, k)
  BY <1>3 DEF Reports, AbortedDoes, CompletedDoes, FailedDoes, ReportDoes, StepsTo, Becomes
<1>4. CASE ReadStateDoes(x, k) \/ TestDoes(x, k) \/ AssignDoes(x, k) \/ CheckDoes(x, k)
  BY <1>4 DEF ReadStateDoes, TestDoes, AssignDoes, CheckDoes, StepsTo, Becomes
<1>5. CASE BreaksDoes(x, k)
  BY <1>5 DEF BreaksDoes, StepsTo, Becomes
<1>6. CASE ProgressDoes(x, k)
  BY <1>6 DEF ProgressDoes, StepsTo, Becomes
<1>7. QED
  BY <1>1, <1>2, <1>3, <1>4, <1>5, <1>6 DEF WorkerDoes

LEMMA Apart ==
  ASSUME NEW x \in Peers, NEW k \in Transfers, WorkerDoes(x, k)
  PROVE  \A j \in Transfers : j # k => Kept(j)
<1>1. Others(x, k)
  BY Alone
<1>2. \A j \in Transfers : j # k => NetKept(j)
  <2>1. CASE AskDoes(k) \/ WriteHeaderDoes(k) \/ WriteBlockDoes(k) \/ AnswerDoes(k)
    BY <2>1, NetElsewhere DEF AskDoes, WriteHeaderDoes, WriteBlockDoes, AnswerDoes, Sent
  <2>2. CASE ReadHeaderDoes(k) \/ ReadBlockDoes(k) \/ ReadStateDoes(x, k)
    BY <2>2, NetElsewhere DEF ReadHeaderDoes, ReadBlockDoes, ReadStateDoes, Got
  <2>3. CASE Reports(x, k)
    BY <2>3 DEF Reports, AbortedDoes, CompletedDoes, FailedDoes, ReportDoes
  <2>4. CASE \/ TestDoes(x, k) \/ AssignDoes(x, k) \/ CheckDoes(x, k) \/ BreaksDoes(x, k)
             \/ ProgressDoes(x, k) \/ CloseFileDoes(k)
    BY <2>4, NetStays DEF TestDoes, AssignDoes, CheckDoes, BreaksDoes, ProgressDoes, CloseFileDoes, NetSame
  <2>5. QED
    BY <2>1, <2>2, <2>3, <2>4 DEF WorkerDoes
<1>3. \A j \in Transfers : j # k => BookKept(j)
  <2>1. CASE CloseFileDoes(k)
    BY <2>1 DEF CloseFileDoes, BookKept
  <2>2. CASE Reports(x, k)
    BY <2>2 DEF Reports, AbortedDoes, CompletedDoes, FailedDoes, ReportDoes, OutcomeSet, BookKept
  <2>3. CASE BookSame
    BY <2>3, BookStays
  <2>4. QED
    BY <2>1, <2>2, <2>3 DEF WorkerDoes, AskDoes, WriteHeaderDoes, WriteBlockDoes, AnswerDoes, ReadHeaderDoes,
          ReadBlockDoes, ReadStateDoes, TestDoes, AssignDoes, CheckDoes, BreaksDoes, ProgressDoes
<1>4. QED
  BY <1>1, <1>2, <1>3 DEF Others, Kept

LEMMA CancelKeeps ==
  ASSUME NEW x \in Peers, CancelDoes(x)
  PROVE  \A j \in Transfers : j # cur[x] => Kept(j)
BY NetStays DEF CancelDoes, Kept, BookKept, NetSame, Becomes, Others
LEMMA AcceptKeeps == AcceptDoes => \A j \in Transfers : j # n => Kept(j)
BY NetElsewhere, BookStays, Peer DEF AcceptDoes, Kept, Becomes, Others
LEMMA CountKeeps == CountDoes => \A j \in Transfers : j # asking => Kept(j)
BY NetElsewhere, BookStays, Peer DEF CountDoes, Kept, Becomes, Others, Got
-----------------------------------------------------------------------------
(* Types.                                                                  *)
LEMMA DatagramTaken ==
  ASSUME UiType, NEW x \in Peers, Take(x)
  PROVE  /\ dgrams' \in [Peers -> Seq(Datagrams)]
         /\ Head(dgrams[x]) \in Datagrams /\ Head(dgrams[x]).of \in Transfers
<1>1. dgrams[x] \in Seq(Datagrams) /\ dgrams[x] # <<>>
  BY DEF UiType, Take
<1>2. Head(dgrams[x]) \in Datagrams /\ Tail(dgrams[x]) \in Seq(Datagrams)
  BY <1>1, HeadTailProperties
<1>3. dgrams' = [dgrams EXCEPT ![x] = Tail(dgrams[x])]
  BY DEF Take
<1>4. dgrams' \in [Peers -> Seq(Datagrams)]
  BY <1>2, <1>3 DEF UiType
<1>5. QED
  BY <1>2, <1>4 DEF Datagrams

LEMMA DatagramSent ==
  ASSUME UiType, NEW k \in Transfers, NEW kind \in {"step0", "step1", "step2", "port"}
  PROVE  /\ Datagram(kind, k) \in Datagrams
         /\ \A x \in Peers : Append(dgrams[x], Datagram(kind, k)) \in Seq(Datagrams)
<1>1. Datagram(kind, k) \in Datagrams
  BY DEF Datagram, Datagrams
<1>2. QED
  BY <1>1, AppendProperties DEF UiType

(* A UI thread goes from one place to another; the other does not move.    *)
LEMMA UiMoves ==
  ASSUME UiType, NEW x \in Peers, NEW to \in UiStates, ui' = [ui EXCEPT ![x] = to]
  PROVE  /\ ui' \in [Peers -> UiStates] /\ ui'[x] = to
         /\ \A y \in Peers : y # x => ui'[y] = ui[y]
BY DEF UiType, UiStates

LEMMA UiSends ==
  ASSUME UiType, SendFiles \/ ReplyTimesOut \/ Answered
  PROVE  UiType'
<1>1. CASE SendFiles
  <2>1. n' = n + 1 /\ n' \in Transfers /\ n' \in 0 .. MaxTransfers
    BY <1>1, FTAssumption DEF SendFiles, UiType, Transfers
  <2>2. ui' = [ui EXCEPT ![A] = "reply"] /\ UNCHANGED <<files, busy, cur, asking>>
    BY <1>1 DEF SendFiles, UiGoes
  <2>3. ui' \in [Peers -> UiStates] /\ ui'[B] = ui[B]
    BY <2>2, Peer, UiMoves DEF UiStates
  <2>4. dgrams' = [dgrams EXCEPT ![B] = Append(dgrams[B], Datagram("step0", n'))]
    BY <1>1 DEF SendFiles
  <2>5. dgrams' \in [Peers -> Seq(Datagrams)]
    BY <2>1, <2>4, Peer, DatagramSent DEF UiType, Asking
  <2>6. QED
    BY <2>1, <2>2, <2>3, <2>5 DEF UiType, UiStates, Asking
<1>2. CASE ReplyTimesOut
  <2>1. ui' = [ui EXCEPT ![A] = "loop"] /\ UNCHANGED <<files, n, busy, cur, asking>>
    BY <1>2 DEF ReplyTimesOut, UiGoes
  <2>2. ui' \in [Peers -> UiStates] /\ ui'[B] = ui[B] /\ ui'[A] = "loop"
    BY <2>1, Peer, UiMoves DEF UiStates
  <2>3. <<>> \in Seq(Datagrams)
    BY EmptySeq
  <2>4. dgrams' \in [Peers -> Seq(Datagrams)]
    BY <1>2, <2>3 DEF ReplyTimesOut, UiType
  <2>5. QED
    BY <2>1, <2>2, <2>4 DEF UiType, UiStates, Asking
<1>3. CASE Answered
  <2>1. /\ ui' = [ui EXCEPT ![A] = "accept"] /\ UNCHANGED <<files, n, cur, asking>>
        /\ busy' = [busy EXCEPT ![A] = TRUE] /\ n \in Transfers
    BY <1>3 DEF Answered, UiGoes, UiType
  <2>2. ui' \in [Peers -> UiStates] /\ ui'[B] = ui[B] /\ ui'[A] = "accept"
    BY <2>1, Peer, UiMoves DEF UiStates
  <2>3. busy' \in [Peers -> BOOLEAN]
    BY <2>1 DEF UiType, Asking
  <2> DEFINE d1 == Datagram("step2", n)
             d2 == Datagram("port", n)
             S == Seq(Datagrams)
             t == Tail(dgrams[A])
             s == dgrams[B] \o <<d1, d2>>
  <2>4. d1 \in Datagrams /\ d2 \in Datagrams
    BY <2>1, DatagramSent
  <2>5. t \in S
    BY <1>3, Peer, HeadTailProperties DEF Answered, UiType
  <2>6. s \in S
    <3>1. <<d1, d2>> \in S
      <4> HIDE DEF d1, d2
      <4> QED BY <2>4
    <3>2. QED
      BY <3>1, Peer, ConcatProperties DEF UiType, Asking
  <2>7. dgrams \in [Peers -> S] /\ dgrams' = [dgrams EXCEPT ![A] = t, ![B] = s]
    BY <1>3 DEF Answered, UiType
  <2>8. dgrams' \in [Peers -> S]
    <3> HIDE DEF S, t, s
    <3> QED BY <2>5, <2>6, <2>7
  <2>9. QED
    BY <2>1, <2>2, <2>3, <2>8 DEF UiType, UiStates, Asking
<1>4. QED
  BY <1>1, <1>2, <1>3

LEMMA UiAnswers ==
  ASSUME UiType, ListenType, \/ Found \/ Refuse \/ Agree \/ Step2 \/ Step2TimesOut \/ Failure \/ Port
                             \/ Folder \/ \E x \in Peers : Lose(x) \/ Hears(x)
  PROVE  UiType'
<1>1. CASE Found
  <2>1. ui' = [ui EXCEPT ![B] = "dialog"] /\ UNCHANGED <<files, n, busy, cur, dgrams>>
    BY <1>1 DEF Found, UiGoes, net
  <2>2. ui' \in [Peers -> UiStates] /\ ui'[A] = ui[A] /\ ui'[B] = "dialog"
    BY <2>1, Peer, UiMoves DEF UiStates
  <2>3. asking' = field[B].of /\ field[B] \in Receives /\ field[B].kind = "step0"
    BY <1>1, Peer DEF Found, ListenType
  <2>4. asking' \in Transfers
    BY <2>3 DEF Receives, Datagrams, Datagram, Pending, Done
  <2>5. QED
    BY <2>1, <2>2, <2>4 DEF UiType, UiStates, Asking
<1>2. CASE \E x \in Peers : Ignored(x) \/ Lose(x) \/ Completes(x)
  <2>1. PICK x \in Peers : dgrams' = dgrams \/ Take(x)
    BY <1>2, Peer DEF Ignored, Lose, Completes, net
  <2>2. UNCHANGED <<files, n, ui, busy, cur, asking>>
    BY <1>2 DEF Ignored, Lose, Completes, app
  <2>3. dgrams' \in [Peers -> Seq(Datagrams)]
    BY <2>1, DatagramTaken DEF UiType, Asking
  <2>4. QED
    BY <2>2, <2>3 DEF UiType, Asking
<1>3. CASE Refuse \/ Failure \/ Step2TimesOut
  <2>1. PICK to \in {"loop", "box"} :
          ui' = [ui EXCEPT ![B] = to] /\ UNCHANGED <<files, n, busy, cur, asking, dgrams>>
    BY <1>3 DEF Refuse, Failure, HandlerEnds, Step2TimesOut, UiGoes, net
  <2>2. ui' \in [Peers -> UiStates] /\ ui'[A] = ui[A] /\ ui'[B] = to
    BY <2>1, Peer, UiMoves DEF UiStates
  <2>3. QED
    BY <2>1, <2>2 DEF UiType, UiStates, Asking
<1>4. CASE Agree
  <2>1. ui[B] = "dialog" /\ ui' = [ui EXCEPT ![B] = "step2"] /\ UNCHANGED <<files, n, busy, cur, asking>>
    BY <1>4 DEF Agree, UiGoes
  <2>2. ui' \in [Peers -> UiStates] /\ ui'[A] = ui[A] /\ ui'[B] = "step2"
    BY <2>1, Peer, UiMoves DEF UiStates
  <2>3. asking \in Transfers
    BY <2>1 DEF UiType, Asking
  <2>4. Append(dgrams[A], Datagram("step1", asking)) \in Seq(Datagrams)
    BY <2>3, Peer, DatagramSent
  <2>5. dgrams' = dgrams \/ dgrams' = [dgrams EXCEPT ![A] = Append(dgrams[A], Datagram("step1", asking))]
    BY <1>4 DEF Agree
  <2>6. dgrams' \in [Peers -> Seq(Datagrams)]
    BY <2>4, <2>5 DEF UiType, Asking
  <2>7. QED
    BY <2>1, <2>2, <2>3, <2>6 DEF UiType, UiStates, Asking
<1>5. CASE Step2
  <2>1. Take(B) /\ UNCHANGED <<files, n, cur, asking>> /\ ui[B] = "step2"
    BY <1>5 DEF Step2, Receive, UiGoes
  <2>2. dgrams' \in [Peers -> Seq(Datagrams)] /\ asking \in Transfers
    BY <2>1, Peer, DatagramTaken DEF UiType, Asking
  <2>3. PICK to \in {"port", "box"} : ui' = [ui EXCEPT ![B] = to]
    BY <1>5 DEF Step2, UiGoes
  <2>4. busy' \in [Peers -> BOOLEAN]
    BY <1>5 DEF Step2, UiType
  <2>5. ui' \in [Peers -> UiStates] /\ ui'[A] = ui[A] /\ ui'[B] = to
    BY <2>3, Peer, UiMoves DEF UiStates
  <2>6. QED
    BY <2>1, <2>2, <2>4, <2>5 DEF UiType, UiStates, Asking
<1>6. CASE Port \/ Folder
  <2>1. UNCHANGED <<files, n, busy, cur, asking>> /\ ui[B] \in {"port", "folder"} /\ (Take(B) \/ dgrams' = dgrams)
    BY <1>6 DEF Port, Folder, Receive, UiGoes, net
  <2>2. dgrams' \in [Peers -> Seq(Datagrams)] /\ asking \in Transfers
    BY <2>1, Peer, DatagramTaken DEF UiType, Asking
  <2>3. ui' = ui \/ \E to \in {"folder", "count"} : ui' = [ui EXCEPT ![B] = to]
    BY <1>6 DEF Port, Folder, UiGoes
  <2>4. ui' \in [Peers -> UiStates] /\ ui'[A] = ui[A]
    BY <2>3, Peer, UiMoves DEF UiStates, UiType
  <2>5. QED
    BY <2>1, <2>2, <2>4 DEF UiType, UiStates, Asking
<1>7. CASE \E x \in Peers : Dropped(x) \/ EndReceiveWaits(x)
  <2>1. UNCHANGED <<files, n, busy, cur, asking, dgrams>>
    BY <1>7 DEF Dropped, EndReceiveWaits, net
  <2>2. PICK x \in Peers, to \in {"loop", "receive"} : ui' = ui \/ ui' = [ui EXCEPT ![x] = to]
    BY <1>7 DEF Dropped, EndReceiveWaits, UiGoes
  <2>3. CASE ui' = ui
    BY <2>1, <2>3 DEF UiType, Asking
  <2>4. CASE ui' = [ui EXCEPT ![x] = to]
    <3>1. ui' \in [Peers -> UiStates] /\ ui'[x] = to /\ \A y \in Peers : y # x => ui'[y] = ui[y]
      BY <2>4, UiMoves DEF UiStates
    <3>2. QED
      BY <2>1, <3>1, Peer DEF UiType, UiStates, Asking
  <2>5. QED
    BY <2>2, <2>3, <2>4
<1>8. QED
  BY <1>1, <1>2, <1>3, <1>4, <1>5, <1>6, <1>7 DEF Hears

LEMMA UiEnds ==
  ASSUME TypeInv, NEW x \in Peers, NEW k \in Transfers,
         Aborted(x, k) \/ Completed(x, k) \/ Failed(x, k)
  PROVE  UiType'
<1>1. /\ UNCHANGED <<files, n, asking, dgrams>>
      /\ \/ OnTransformEnd(x, k)
         \/ ui[x] = "folder" /\ busy' = busy /\ cur' = cur /\ (ui' = ui \/ ui' = [ui EXCEPT ![B] = "dead"])
  BY DEF Aborted, Completed, Failed, Report, NullReference, Dies
<1>2. UiType
  BY DEF TypeInv
<1>3. CASE ui' = ui /\ busy' = busy /\ cur' = cur
  BY <1>1, <1>2, <1>3 DEF UiType, Asking
<1>4. CASE ui' = ui /\ busy' = [busy EXCEPT ![x] = FALSE] /\ cur' = [cur EXCEPT ![x] = 0]
  BY <1>1, <1>2, <1>4 DEF UiType, Asking
<1>5. CASE ui' = [ui EXCEPT ![x] = "dead"] /\ busy' = busy /\ cur' = cur
  <2>1. /\ ui' \in [Peers -> UiStates] /\ ui'[x] = "dead"
        /\ \A y \in Peers : y # x => ui'[y] = ui[y]
    BY <1>2, <1>5, UiMoves DEF UiStates
  <2>2. QED
    BY <1>1, <1>2, <1>5, <2>1, Peer DEF UiType, UiStates, Asking
<1>6. ui[x] = "folder" => x = B
  BY <1>2, Peer DEF UiType
<1>7. QED
  BY <1>1, <1>3, <1>4, <1>5, <1>6 DEF OnTransformEnd, Dies

LEMMA UiTypeStep ==
  ASSUME TypeInv, Next
  PROVE  UiType'
<1>1. UiType
  BY DEF TypeInv
<1>2. CASE Handshake
  BY <1>1, <1>2, UiSends, UiAnswers DEF Handshake, TypeInv
<1>3. CASE Closing
  <2>1. PICK x \in Peers : ui' = [ui EXCEPT ![x] = "dead"]
    BY <1>3, ClosingKeeps
  <2>2. UNCHANGED <<files, n, busy, cur, asking, dgrams>>
    BY <1>3, ClosingKeeps
  <2>3. /\ ui' \in [Peers -> UiStates] /\ ui'[x] = "dead"
        /\ \A y \in Peers : y # x => ui'[y] = ui[y]
    BY <1>1, <2>1, UiMoves DEF UiStates
  <2>4. QED
    BY <1>1, <2>2, <2>3, Peer DEF UiType, UiStates, Asking
<1>4. CASE AcceptDoes
  <2>1. /\ ui' = [ui EXCEPT ![A] = "loop"] /\ cur' = [cur EXCEPT ![A] = n] /\ n \in Transfers
        /\ UNCHANGED <<files, n, busy, asking, dgrams>>
    BY <1>4 DEF AcceptDoes
  <2>2. ui' \in [Peers -> UiStates] /\ ui'[A] = "loop" /\ ui'[B] = ui[B]
    BY <1>1, <2>1, Peer, UiMoves DEF UiStates
  <2>3. QED
    BY <1>1, <2>1, <2>2 DEF UiType, UiStates, Asking
<1>5. CASE CountDoes
  <2>1. /\ ui' = [ui EXCEPT ![B] = "loop"] /\ cur' = [cur EXCEPT ![B] = asking] /\ asking \in Transfers
        /\ UNCHANGED <<files, n, busy, dgrams>> /\ asking' = 0
    BY <1>5 DEF CountDoes
  <2>2. ui' \in [Peers -> UiStates] /\ ui'[B] = "loop" /\ ui'[A] = ui[A]
    BY <1>1, <2>1, Peer, UiMoves DEF UiStates
  <2>3. QED
    BY <1>1, <2>1, <2>2 DEF UiType, UiStates, Asking
<1>6. CASE AppSame
  BY <1>1, <1>6 DEF AppSame, app, UiType, Asking
<1>7. CASE \E x \in Peers, k \in Transfers : Aborted(x, k) \/ Completed(x, k) \/ Failed(x, k)
  BY <1>7, UiEnds
<1>8. ASSUME NEW x \in Peers, NEW k \in Transfers, Worker(x, k)
      PROVE  AppSame \/ Aborted(x, k) \/ Completed(x, k) \/ Failed(x, k)
  <2>1. Quiet => AppSame
    BY QuietSame
  <2>2. ReadHeader(k) \/ CloseFile(k) => AppSame
    BY DEF ReadHeader, CloseFile, AppSame, net
  <2>3. QED
    BY <1>8, <2>1, <2>2 DEF Worker, ReadState, Test, Assign, Check, Breaks, Progress, Ask, WriteHeader,
       WriteBlock, Answer, ReadBlock
<1>9. CASE \E x \in Peers : CancelDoes(x)
  BY <1>9, <1>6 DEF CancelDoes
<1>10. CASE \E x \in Peers, k \in Transfers : Worker(x, k)
  BY <1>10, <1>6, <1>7, <1>8
<1>11. (\E x \in Peers : Cancel(x)) => (\E x \in Peers : CancelDoes(x))
  BY Cancelled
<1>12. Accept => AcceptDoes
  BY AcceptStep
<1>13. Count => CountDoes
  BY CountRead
<1>14. CASE SendFiles \/ \E x \in Peers : Listener(x) \/ UiStep(x) \/ Quit(x) \/ Lose(x)
  BY <1>2, <1>3, <1>4, <1>5, <1>12, <1>13, <1>14 DEF Listener, Hears, UiStep, Handshake, Closing
<1>15. QED
  BY <1>9, <1>10, <1>11, <1>14 DEF Next, Runs

LEMMA WorkTypeStep ==
  ASSUME TypeInv, Cases
  PROVE  WorkType'
<1>1. CASE Handshake \/ Closing
  BY <1>1, HandshakeKeeps, ClosingKeeps DEF TypeInv, WorkType
<1>2. CASE AcceptDoes \/ CountDoes
  BY <1>2 DEF AcceptDoes, CountDoes, Becomes
<1>3. ASSUME NEW x \in Peers, CancelDoes(x) PROVE WorkType'
  BY <1>3 DEF CancelDoes, Becomes, TypeInv, WorkType
<1>4. ASSUME NEW x \in Peers, NEW k \in Transfers, WorkerDoes(x, k) PROVE WorkType'
  <2>1. CASE x = A /\ (AskDoes(k) \/ WriteHeaderDoes(k) \/ WriteBlockDoes(k))
    BY <2>1 DEF AskDoes, WriteHeaderDoes, WriteBlockDoes, StepsTo, Becomes
  <2>2. CASE x = B /\ (AnswerDoes(k) \/ ReadHeaderDoes(k) \/ ReadBlockDoes(k) \/ CloseFileDoes(k))
    BY <2>2 DEF AnswerDoes, ReadHeaderDoes, ReadBlockDoes, CloseFileDoes, StepsTo, Becomes
  <2>3. CASE Reports(x, k)
    BY <2>3 DEF Reports, AbortedDoes, CompletedDoes, FailedDoes, ReportDoes, StepsTo, Becomes
  <2>4. CASE ReadStateDoes(x, k) \/ TestDoes(x, k) \/ AssignDoes(x, k) \/ CheckDoes(x, k)
    BY <2>4 DEF ReadStateDoes, TestDoes, AssignDoes, CheckDoes, StepsTo, Becomes
  <2>5. CASE BreaksDoes(x, k)
    BY <2>5 DEF BreaksDoes, StepsTo, Becomes
  <2>6. CASE ProgressDoes(x, k)
    BY <2>6 DEF ProgressDoes, StepsTo, Becomes
  <2>7. QED
    BY <1>4, <2>1, <2>2, <2>3, <2>4, <2>5, <2>6 DEF WorkerDoes
<1>5. QED
  BY <1>1, <1>2, <1>3, <1>4 DEF Cases

LEMMA NetBookTypeStep ==
  ASSUME TypeInv, Cases
  PROVE  NetType' /\ BookType'
<1>1. NetType /\ BookType
  BY DEF TypeInv
<1>2. NetSame => NetType'
  BY <1>1 DEF NetSame, NetType
<1>3. outcome' = outcome /\ received' = received => BookType'
  BY <1>1 DEF BookType
<1>4. CASE Handshake
  BY <1>2, <1>3, <1>4, HandshakeKeeps DEF NetSame
<1>5. CASE Closing
  BY <1>3, <1>5, ClosingKeeps
<1>6. CASE AcceptDoes \/ CountDoes
  BY <1>3, <1>6 DEF AcceptDoes, CountDoes, Got, BookSame
<1>7. ASSUME NEW x \in Peers, CancelDoes(x) PROVE NetType' /\ BookType'
  BY <1>2, <1>3, <1>7 DEF CancelDoes
<1>8. ASSUME NEW x \in Peers, NEW k \in Transfers, WorkerDoes(x, k) PROVE NetType' /\ BookType'
  <2>1. CASE AskDoes(k) \/ WriteHeaderDoes(k) \/ WriteBlockDoes(k) \/ AnswerDoes(k)
    BY <1>3, <2>1 DEF AskDoes, WriteHeaderDoes, WriteBlockDoes, AnswerDoes, Sent, BookSame
  <2>2. CASE ReadHeaderDoes(k) \/ ReadBlockDoes(k) \/ ReadStateDoes(x, k)
    BY <1>3, <2>2 DEF ReadHeaderDoes, ReadBlockDoes, ReadStateDoes, Got, BookSame
  <2>3. CASE Reports(x, k)
    BY <2>3 DEF Reports, AbortedDoes, CompletedDoes, FailedDoes, ReportDoes, OutcomeSet
  <2>4. CASE CloseFileDoes(k)
    BY <1>2, <2>4 DEF CloseFileDoes
  <2>5. CASE \/ TestDoes(x, k) \/ AssignDoes(x, k) \/ CheckDoes(x, k) \/ BreaksDoes(x, k)
             \/ ProgressDoes(x, k)
    BY <1>2, <1>3, <2>5 DEF TestDoes, AssignDoes, CheckDoes, BreaksDoes, ProgressDoes, BookSame
  <2>6. QED
    BY <1>8, <2>1, <2>2, <2>3, <2>4, <2>5 DEF WorkerDoes
<1>9. QED
  BY <1>4, <1>5, <1>6, <1>7, <1>8 DEF Cases

(* What is in the listener.                                                *)
LEMMA ListenTypeStep ==
  ASSUME TypeInv, Cases
  PROVE  ListenType'
<1> USE Peer
<1>1. ListenType /\ UiType
  BY DEF TypeInv
<1>2. Pending \in Receives /\ Done \in Receives /\ Datagram("echo", 0) \in Receives
  BY DEF Receives
<1>3. ASSUME NEW x \in Peers, field' = field \/ (\E r \in Receives : field' = [field EXCEPT ![x] = r]),
             \/ calls' = calls \/ calls' = [calls EXCEPT ![x] = calls[x] + 1]
             \/ calls[x] > 0 /\ calls' = [calls EXCEPT ![x] = calls[x] - 1],
             astray' \in BOOLEAN
      PROVE  ListenType'
  BY <1>1, <1>3 DEF ListenType
<1>4. astray' = astray => astray' \in BOOLEAN
  BY <1>1 DEF ListenType
<1>5. ASSUME NEW x \in Peers, Hears(x) PROVE ListenType'
  <2>1. CASE Completes(x)
    <3>1. astray' = astray /\ calls' = [calls EXCEPT ![x] = calls[x] + 1]
      BY <2>1 DEF Completes
    <3>2. \/ x = B /\ Take(B) /\ field' = [field EXCEPT ![B] = Head(dgrams[B])]
          \/ x = A /\ field' = [field EXCEPT ![A] = Datagram("echo", 0)]
      BY <2>1 DEF Completes
    <3>3. Take(B) => Head(dgrams[B]) \in Receives
      BY <1>1, DatagramTaken DEF Receives
    <3>4. QED
      BY <1>2, <1>3, <1>4, <3>1, <3>2, <3>3
  <2>2. CASE Ignored(x) \/ EndReceiveWaits(x) \/ Dropped(x)
    BY <1>2, <1>3, <1>4, <2>2 DEF Ignored, EndReceiveWaits, Dropped, Called, Rearm
  <2>3. QED
    BY <1>5, <2>1, <2>2 DEF Hears
<1>6. CASE Handshake
  <2>1. CASE Found
    BY <1>2, <1>3, <1>4, <2>1 DEF Found, Called
  <2>2. CASE Refuse \/ Failure
    BY <1>2, <1>3, <1>4, <2>2 DEF Refuse, Failure, HandlerEnds, Rearm
  <2>3. CASE \/ SendFiles \/ ReplyTimesOut \/ Answered \/ Agree \/ Step2 \/ Step2TimesOut \/ Port \/ Folder
             \/ \E x \in Peers : Lose(x)
    <3>1. UNCHANGED <<field, calls, astray>>
      BY <2>3 DEF SendFiles, ReplyTimesOut, Answered, Agree, Step2, Step2TimesOut, Port, Folder, Lose, listen
    <3>2. QED
      BY <1>1, <3>1 DEF ListenType
  <2>4. QED
    BY <1>5, <1>6, <2>1, <2>2, <2>3 DEF Handshake
<1>7. CASE Closing
  <2>1. UNCHANGED <<field, astray>>
    BY <1>7, ClosingKeeps
  <2>2. PICK x \in Peers : calls' = calls \/ (calls[x] > 0 /\ calls' = [calls EXCEPT ![x] = calls[x] - 1])
    BY <1>7 DEF Closing, CountFails, Quit, EndReceiveThrows, Called, listen
  <2>3. QED
    BY <1>3, <1>4, <2>1, <2>2
<1>8. UNCHANGED <<field, calls, astray>> => ListenType'
  BY <1>1 DEF ListenType
<1>9. CASE AcceptDoes \/ CountDoes \/ \E x \in Peers : CancelDoes(x)
  BY <1>8, <1>9 DEF AcceptDoes, CountDoes, CancelDoes, AppSame, listen
<1>10. ASSUME NEW x \in Peers, NEW k \in Transfers, WorkerDoes(x, k) PROVE ListenType'
  <2>1. CASE AppSame
    BY <1>8, <2>1 DEF AppSame, listen
  <2>2. CASE Reports(x, k)
    <3>1. calls' = calls /\ astray' \in BOOLEAN /\ (field' = field \/ field' = [field EXCEPT ![x] = Pending])
      <4>1. PICK to \in {"complete", "gone"} :
              calls' = calls /\ IF ui[x] = "folder" THEN NullReference(to) ELSE OnTransformEnd(x, k)
        BY <2>2 DEF Reports, AbortedDoes, CompletedDoes, FailedDoes, ReportDoes
      <4>2. OnTransformEnd(x, k) =>
              \/ field' = field /\ astray' = astray
              \/ /\ field' = [field EXCEPT ![x] = Pending]
                 /\ astray' = (astray \/ calls[x] > 0 \/ ui[x] # "loop")
        BY DEF OnTransformEnd, Rearm
      <4>3. NullReference(to) => field' = field /\ astray' = astray
        BY DEF NullReference
      <4>4. QED
        BY <1>4, <4>1, <4>2, <4>3
    <3>2. QED
      BY <1>2, <1>3, <3>1
  <2>3. QED
    BY <1>10, <2>1, <2>2 DEF WorkerDoes, AskDoes, WriteHeaderDoes, WriteBlockDoes, AnswerDoes, ReadHeaderDoes,
       ReadBlockDoes, CloseFileDoes, ReadStateDoes, TestDoes, AssignDoes, CheckDoes, BreaksDoes, ProgressDoes
<1>11. QED
  BY <1>5, <1>6, <1>7, <1>9, <1>10 DEF Cases

LEMMA TypeStep ==
  ASSUME TypeInv, \A k \in Transfers : WholeInv(k), Next
  PROVE  TypeInv'
BY StepCases, UiTypeStep, WorkTypeStep, NetBookTypeStep, ListenTypeStep DEF TypeInv

LEMMA FilesStay == Next => files' = files /\ calm' = calm
<1>1. Quiet => files' = files /\ calm' = calm
  BY DEF Quiet
<1>2. \A x, k, to, what : Report(x, k, to, what) => files' = files /\ calm' = calm
  BY DEF Report
<1>3. ASSUME NEW x \in Peers, NEW k \in Transfers, Worker(x, k) PROVE files' = files /\ calm' = calm
  BY <1>1, <1>2, <1>3 DEF Worker, ReadState, Test, Assign, Check, Breaks, Progress, Ask, WriteHeader,
     WriteBlock, Answer, ReadBlock, ReadHeader, CloseFile, Aborted, Completed, Failed
<1>4. QED
  <2>1. ASSUME NEW x \in Peers, Listener(x) \/ UiStep(x) PROVE files' = files /\ calm' = calm
    BY <2>1 DEF UiStep, Answered, ReplyTimesOut, Accept, Found, Refuse, Failure, HandlerEnds, Agree, Step2,
       Step2TimesOut, Port, Folder, Count, CountFails, Listener, Completes, Ignored, Dropped, EndReceiveWaits,
       EndReceiveThrows
  <2>2. QED
    BY <1>3, <2>1 DEF Next, Runs, SendFiles, Cancel, Quit, Lose
-----------------------------------------------------------------------------
(* What the receiver has.  A transfer that is left alone:                  *)
LEMMA WholeKept ==
  ASSUME TypeInv, TypeInv', files' = files, NEW k \in Transfers, WholeInv(k), Kept(k)
  PROVE  WholeInv(k)'
<1>1. w'[A][k] = w[A][k] /\ w'[B][k] = w[B][k] /\ received'[k] = received[k]
      /\ \A x \in Peers : outcome'[x][k] = outcome[x][k] /\ w'[x][k] = w[x][k]
  BY Peer DEF Kept, BookKept
<1>2. (\A x \in Peers : wire'[k][x] = wire[k][x]) \/ (\A x \in Peers : wire'[k][x] = <<>>)
  BY DEF Kept, NetKept
<1>3. StartInv(k)' /\ SenderInv(k)' /\ ReceiverInv(k)' /\ OutcomeInv(k)'
  <2>1. StartInv(k)'
    BY <1>1, <1>2 DEF WholeInv, StartInv
  <2>2. SenderInv(k)'
    BY <1>1 DEF WholeInv, SenderInv
  <2>3. ReceiverInv(k)'
    BY <1>1 DEF WholeInv, ReceiverInv
  <2>4. OutcomeInv(k)'
    <3>1. OutcomeInv(k)
      BY DEF WholeInv
    <3>2. ASSUME NEW x \in Peers PROVE outcome'[x][k] = outcome[x][k] /\ w'[x][k] = w[x][k]
      BY <1>1
    <3>3. outcome'[B][k] = outcome[B][k] /\ received'[k] = received[k]
      BY <1>1, Peer
    <3>4. QED
      BY <3>1, <3>2, <3>3 DEF OutcomeInv
  <2>5. QED
    BY <2>1, <2>2, <2>3, <2>4
<1>4. CountInv(k)'
  <2>1. CASE wire'[k][B] = wire[k][B]
    BY <1>1, <2>1 DEF WholeInv, CountInv
  <2>2. CASE wire'[k][B] = <<>>
    <3>1. Len(wire'[k][B]) = 0
      BY <2>2
    <3>2. QED
      BY <3>1 DEF CountInv
  <2>3. QED
    BY <1>2, <2>1, <2>2, Peer
<1>5. QED
  BY <1>3, <1>4 DEF WholeInv

(* What is on the way to a machine after a write and after a read.         *)
LEMMA Longer ==
  ASSUME TypeInv, NEW x \in Peers, NEW k \in Transfers, NEW m \in Messages, Sent(x, k, m),
         NEW y \in Peers, y = Other(x)
  PROVE  \/ closed[k] # {} /\ wire'[k][y] = wire[k][y]
         \/ /\ closed[k] = {} /\ Len(wire[k][y]) \in Nat /\ Len(wire'[k][y]) = Len(wire[k][y]) + 1
            /\ wire'[k][y][Len(wire[k][y]) + 1] = m
            /\ \A i \in 1 .. Len(wire[k][y]) : wire'[k][y][i] = wire[k][y][i]
<1>1. wire[k][y] \in Seq(Messages)
  BY DEF TypeInv, NetType
<1>2. CASE closed[k] # {}
  BY <1>2 DEF Sent
<1>3. CASE closed[k] = {}
  <2>1. wire'[k][y] = Append(wire[k][y], m)
    BY <1>3 DEF Sent
  <2>2. QED
    BY <1>1, <1>3, <2>1, AppendProperties, LenProperties
<1>4. QED
  BY <1>2, <1>3

LEMMA Shorter ==
  ASSUME TypeInv, NEW x \in Peers, NEW k \in Transfers, Got(x, k)
  PROVE  /\ Len(wire[k][x]) \in Nat \ {0} /\ Len(wire'[k][x]) = Len(wire[k][x]) - 1
         /\ \A i \in 1 .. Len(wire[k][x]) - 1 : wire'[k][x][i] = wire[k][x][i + 1]
<1>1. wire[k][x] \in Seq(Messages) /\ wire[k][x] # <<>> /\ wire'[k][x] = Tail(wire[k][x])
  BY DEF TypeInv, NetType, Got
<1>2. QED
  BY <1>1, HeadTailProperties, LenProperties, EmptySeq

LEMMA CountAppend ==
  ASSUME TypeInv, NEW k \in Transfers, CountInv(k), NEW m \in Messages, Sent(A, k, m), m[1] # "count",
         files' = files, w'[B][k].pc = w[B][k].pc
  PROVE  CountInv(k)'
<1> SUFFICES ASSUME NEW i \in 1 .. Len(wire'[k][B]), wire'[k][B][i][1] = "count"
             PROVE  i = 1 /\ w'[B][k].pc = "none" /\ wire'[k][B][i][2] = Len(files)
  BY DEF CountInv
<1>1. \/ wire'[k][B] = wire[k][B]
      \/ /\ Len(wire[k][B]) \in Nat /\ Len(wire'[k][B]) = Len(wire[k][B]) + 1
         /\ wire'[k][B][Len(wire[k][B]) + 1] = m
         /\ \A j \in 1 .. Len(wire[k][B]) : wire'[k][B][j] = wire[k][B][j]
  <2>1. A \in Peers /\ B \in Peers /\ B = Other(A)
    BY OtherPeer, Peer
  <2>2. QED
    BY <2>1, Longer, SMTT(30)
<1>2. i \in 1 .. Len(wire[k][B]) /\ wire[k][B][i] = wire'[k][B][i]
  <2>1. CASE wire'[k][B] = wire[k][B]
    BY <2>1
  <2>2. CASE wire'[k][B] # wire[k][B]
    <3> DEFINE L == Len(wire[k][B])
               M == Len(wire'[k][B])
    <3>1. L \in Nat /\ M = L + 1 /\ wire'[k][B][L + 1] = m /\ \A j \in 1 .. L : wire'[k][B][j] = wire[k][B][j]
      BY <1>1, <2>2
    <3>2. i # L + 1 /\ i \in 1 .. M
      BY <3>1
    <3>3. i \in 1 .. L
      <4> HIDE DEF L, M
      <4>1. QED
        BY <3>1, <3>2
    <3>4. QED
      BY <3>1, <3>3
  <2>3. QED
    BY <2>1, <2>2
<1>3. QED
  BY <1>2 DEF CountInv

LEMMA CountTail ==
  ASSUME TypeInv, NEW k \in Transfers, CountInv(k), Got(B, k)
  PROVE  CountInv(k)'
<1> SUFFICES ASSUME NEW i \in 1 .. Len(wire'[k][B]), wire'[k][B][i][1] = "count"
             PROVE  FALSE
  BY DEF CountInv
<1>1. /\ Len(wire[k][B]) \in Nat \ {0} /\ Len(wire'[k][B]) = Len(wire[k][B]) - 1
      /\ \A j \in 1 .. Len(wire[k][B]) - 1 : wire'[k][B][j] = wire[k][B][j + 1]
  BY Shorter, Peer
<1>2. i + 1 \in 1 .. Len(wire[k][B]) /\ i + 1 # 1 /\ wire[k][B][i + 1][1] = "count"
  BY <1>1
<1>3. QED
  BY <1>2 DEF CountInv

LEMMA CountSame ==
  ASSUME TypeInv, NEW k \in Transfers, CountInv(k), wire'[k][B] = wire[k][B], files' = files,
         w'[B][k].pc = w[B][k].pc \/ w[B][k].pc # "none"
  PROVE  CountInv(k)'
BY DEF CountInv

(* A step of the sender, up to what its own counters must satisfy.         *)
LEMMA SenderMoves ==
  ASSUME TypeInv, NEW k \in Transfers, WholeInv(k), files' = files,
         w[A][k].pc # "none", w'[A][k].pc # "none", w'[B][k] = w[B][k], SenderInv(k)', CountInv(k)',
         outcome'[B][k] = outcome[B][k], received'[k] = received[k],
         /\ outcome'[A][k] # "none" <=> w'[A][k].pc \in {"complete", "gone"}
         /\ w'[A][k].pc = "complete" => outcome'[A][k] = "aborted"
  PROVE  WholeInv(k)'
<1>1. StartInv(k)'
  BY DEF StartInv
<1>2. ReceiverInv(k)'
  BY DEF WholeInv, ReceiverInv
<1>3. OutcomeInv(k)'
  BY Peer DEF WholeInv, OutcomeInv
<1>4. QED
  BY <1>1, <1>2, <1>3 DEF WholeInv

(* A step of the receiver.                                                 *)
LEMMA ReceiverMoves ==
  ASSUME TypeInv, NEW k \in Transfers, WholeInv(k), files' = files,
         w[B][k].pc # "none" \/ wire[k][B] # <<>>, w'[A][k] = w[A][k], ReceiverInv(k)', CountInv(k)',
         outcome'[A][k] = outcome[A][k],
         /\ outcome'[B][k] # "none" <=> w'[B][k].pc \in {"complete", "gone"}
         /\ w'[B][k].pc = "complete" => outcome'[B][k] = "aborted"
         /\ outcome'[B][k] = "ok" => Len(received'[k]) = Len(files)
  PROVE  WholeInv(k)'
<1>1. StartInv(k)'
  BY Peer DEF WholeInv, StartInv
<1>2. SenderInv(k)'
  BY DEF WholeInv, SenderInv
<1>3. OutcomeInv(k)'
  BY Peer DEF WholeInv, OutcomeInv
<1>4. QED
  BY <1>1, <1>2, <1>3 DEF WholeInv

(* The same for the steps that report nothing.                             *)
LEMMA SenderWorks ==
  ASSUME TypeInv, NEW k \in Transfers, WholeInv(k), files' = files, BookSame, Others(A, k),
         w[A][k].pc \notin {"none", "complete", "gone"}, w'[A][k].pc \notin {"none", "complete", "gone"},
         SenderInv(k)', CountInv(k)'
  PROVE  WholeInv(k)'
<1>1. w'[B][k] = w[B][k]
  BY Peer DEF Others
<1>2. outcome' = outcome /\ received' = received
  BY DEF BookSame
<1>3. outcome[A][k] = "none"
  BY Peer DEF WholeInv, OutcomeInv
<1>4. QED
  BY <1>1, <1>2, <1>3, SenderMoves

LEMMA ReceiverWorks ==
  ASSUME TypeInv, NEW k \in Transfers, WholeInv(k), files' = files, outcome' = outcome, Others(B, k),
         w[B][k].pc # "none" \/ wire[k][B] # <<>>,
         w[B][k].pc \notin {"complete", "gone"}, w'[B][k].pc \notin {"complete", "gone"},
         ReceiverInv(k)', CountInv(k)'
  PROVE  WholeInv(k)'
<1>1. w'[A][k] = w[A][k]
  BY Peer DEF Others
<1>2. outcome[B][k] = "none"
  BY Peer DEF WholeInv, OutcomeInv
<1>3. QED
  BY <1>1, <1>2, ReceiverMoves

LEMMA SenderWrites ==
  ASSUME TypeInv, NEW k \in Transfers, WholeInv(k), files' = files,
         AskDoes(k) \/ WriteHeaderDoes(k) \/ WriteBlockDoes(k)
  PROVE  WholeInv(k)'
<1> USE Peer
<1>1. SenderInv(k) /\ CountInv(k) /\ w[A][k].left \in Nat /\ w[A][k].blocks \in Nat
  BY DEF WholeInv, TypeInv, WorkType, WorkerType
<1>2. CASE AskDoes(k)
  <2>1. Becomes(A, k, "answer", w[A][k].state, w[A][k].readInt, w[A][k].left, w[A][k].blocks)
    BY <1>2 DEF AskDoes, StepsTo
  <2>2. w[A][k].pc = "ask" /\ w[A][k].left > 0 /\ BookSame
    BY <1>2 DEF AskDoes
  <2>3. SenderInv(k)'
    BY <1>1, <2>1, <2>2 DEF SenderInv, Becomes
  <2>4. <<"state", w[A][k].state>> \in Messages /\ <<"state", w[A][k].state>>[1] # "count"
    BY DEF TypeInv, WorkType, WorkerType, Messages
  <2>5. CountInv(k)'
    BY <1>1, <1>2, <2>1, <2>4, CountAppend DEF AskDoes, Becomes, Others
  <2>6. QED
    BY <2>1, <2>2, <2>3, <2>5, SenderWorks DEF Becomes
<1>3. CASE WriteHeaderDoes(k)
  <2> DEFINE l == w[A][k].left
             m == <<"file", files[l]>>
  <2>1. /\ l > 0 /\ l =< Len(files) /\ files[l] \in Nat
        /\ Becomes(A, k, "progress", w[A][k].state, w[A][k].readInt, l - 1, files[l])
        /\ Sent(A, k, m) /\ w[A][k].pc = "check" /\ BookSame
    BY <1>3 DEF WriteHeaderDoes
  <2>2. Len(files) \in Nat
    BY LenProperties DEF TypeInv, UiType
  <2>3. SenderInv(k)'
    BY <1>1, <2>1, <2>2 DEF SenderInv, Becomes
  <2>4. m \in Messages /\ m[1] # "count"
    BY <2>1 DEF Messages
  <2>5. CountInv(k)'
    BY <1>1, <2>1, <2>4, CountAppend DEF Becomes, Others
  <2>6. QED
    BY <2>1, <2>3, <2>5, SenderWorks DEF Becomes
<1>4. CASE WriteBlockDoes(k)
  <2> DEFINE p == IF w[A][k].blocks = 1 THEN "ask" ELSE "body"
             m == <<"block">>
  <2>1. /\ w[A][k].pc = "body" /\ w[A][k].blocks > 0 /\ Sent(A, k, m) /\ BookSame
        /\ Becomes(A, k, p, w[A][k].state, w[A][k].readInt, w[A][k].left, w[A][k].blocks - 1)
    BY <1>4 DEF WriteBlockDoes
  <2>2. SenderInv(k)'
    BY <1>1, <2>1 DEF SenderInv, Becomes
  <2>3. m \in Messages /\ m[1] # "count"
    BY DEF Messages
  <2>4. CountInv(k)'
    BY <1>1, <2>1, <2>3, CountAppend DEF Becomes, Others
  <2>5. QED
    BY <2>1, <2>2, <2>4, SenderWorks DEF Becomes
<1>5. QED
  BY <1>2, <1>3, <1>4

LEMMA SenderThinks ==
  ASSUME TypeInv, NEW k \in Transfers, WholeInv(k), files' = files,
         \/ ReadStateDoes(A, k) \/ TestDoes(A, k) \/ AssignDoes(A, k) \/ CheckDoes(A, k)
         \/ BreaksDoes(A, k) \/ ProgressDoes(A, k)
  PROVE  WholeInv(k)'
<1> USE Peer
<1>1. SenderInv(k) /\ CountInv(k) /\ w[A][k].left \in Nat /\ w[A][k].blocks \in Nat
  BY DEF WholeInv, TypeInv, WorkType, WorkerType
<1>2. BookSame
  BY DEF ReadStateDoes, TestDoes, AssignDoes, CheckDoes, BreaksDoes, ProgressDoes
<1>3. /\ Others(A, k) /\ w'[A][k].left = w[A][k].left /\ w'[A][k].blocks = w[A][k].blocks
      /\ \/ w[A][k].pc = "answer" /\ w'[A][k].pc = "test"
         \/ w[A][k].pc = "test" /\ w'[A][k].pc \in {"assign", "check"}
         \/ w[A][k].pc = "assign" /\ w'[A][k].pc = "check"
         \/ w[A][k].pc = "check" /\ w'[A][k].pc = "aborted"
         \/ w[A][k].pc = "answer" /\ w'[A][k].pc = "failed"
         \/ w[A][k].pc \in {"ask", "check", "body"} /\ w'[A][k].pc = "broken"
         \/ w[A][k].pc = "progress" /\ w'[A][k].pc = "failed"
         \/ w[A][k].pc = "progress" /\ w'[A][k].pc = "ask" /\ w[A][k].blocks = 0
         \/ w[A][k].pc = "progress" /\ w'[A][k].pc = "body" /\ w[A][k].blocks # 0
  <2>1. CASE ReadStateDoes(A, k)
    BY <2>1 DEF ReadStateDoes, Becomes
  <2>2. CASE TestDoes(A, k)
    BY <2>2 DEF TestDoes, StepsTo, Becomes, Tested
  <2>3. CASE AssignDoes(A, k)
    BY <2>3 DEF AssignDoes, Becomes, Tested
  <2>4. CASE CheckDoes(A, k)
    BY <2>4 DEF CheckDoes, StepsTo, Becomes
  <2>5. CASE BreaksDoes(A, k)
    BY <2>5 DEF BreaksDoes, StepsTo, Becomes
  <2>6. CASE ProgressDoes(A, k)
    BY <2>6 DEF ProgressDoes, StepsTo, Becomes
  <2>7. QED
    BY <2>1, <2>2, <2>3, <2>4, <2>5, <2>6
<1>4. wire'[k][B] = wire[k][B] /\ w'[B][k] = w[B][k]
  <2>1. wire'[k][B] = wire[k][B]
    BY OtherPeer DEF ReadStateDoes, TestDoes, AssignDoes, CheckDoes, BreaksDoes, ProgressDoes, Got, NetSame
  <2>2. QED
    BY <1>3, <2>1 DEF Others
<1>5. CountInv(k)'
  BY <1>1, <1>4, CountSame
<1>6. SenderInv(k)'
  BY <1>1, <1>3 DEF SenderInv
<1>7. w[A][k].pc \notin {"none", "complete", "gone"} /\ w'[A][k].pc \notin {"none", "complete", "gone"}
  BY <1>3
<1>8. QED
  BY <1>2, <1>3, <1>5, <1>6, <1>7, SenderWorks

LEMMA ReceiverReads ==
  ASSUME TypeInv, NEW k \in Transfers, WholeInv(k), files' = files,
         ReadStateDoes(B, k) \/ ReadHeaderDoes(k) \/ ReadBlockDoes(k)
  PROVE  WholeInv(k)'
<1> USE Peer
<1>1. /\ ReceiverInv(k) /\ CountInv(k) /\ w[B][k].left \in Nat /\ Len(received[k]) \in Nat
      /\ Len(files) \in Nat
  BY LenProperties DEF WholeInv, TypeInv, WorkType, WorkerType, BookType, UiType
<1>2. Got(B, k) /\ outcome' = outcome /\ received' = received
  BY DEF ReadStateDoes, ReadHeaderDoes, ReadBlockDoes, BookSame
<1>3. CountInv(k)'
  BY <1>1, <1>2, CountTail
<1>4. CASE ReadStateDoes(B, k)
  <2>1. /\ Others(B, k) /\ w[B][k].pc = "ask" /\ w'[B][k].pc = "test" /\ w[B][k].left > 0
        /\ w'[B][k].left = w[B][k].left
    BY <1>4 DEF ReadStateDoes, Becomes
  <2>2. ReceiverInv(k)'
    BY <1>1, <1>2, <2>1 DEF ReceiverInv
  <2>3. QED
    BY <1>2, <1>3, <2>1, <2>2, ReceiverWorks
<1>5. CASE ReadHeaderDoes(k)
  <2>1. /\ Others(B, k) /\ w[B][k].pc = "header" /\ w'[B][k].pc = "progress" /\ w[B][k].left > 0
        /\ w'[B][k].left = w[B][k].left - 1
    BY <1>5 DEF ReadHeaderDoes, Becomes
  <2>2. ReceiverInv(k)'
    BY <1>1, <1>2, <2>1 DEF ReceiverInv
  <2>3. QED
    BY <1>2, <1>3, <2>1, <2>2, ReceiverWorks
<1>6. CASE ReadBlockDoes(k)
  <2>1. /\ Others(B, k) /\ w[B][k].pc = "body" /\ w'[B][k].pc = "body"
        /\ w'[B][k].left = w[B][k].left
    BY <1>6 DEF ReadBlockDoes, Becomes
  <2>2. ReceiverInv(k)'
    BY <1>1, <1>2, <2>1 DEF ReceiverInv
  <2>3. QED
    BY <1>2, <1>3, <2>1, <2>2, ReceiverWorks
<1>7. QED
  BY <1>4, <1>5, <1>6

LEMMA ReceiverThinks ==
  ASSUME TypeInv, NEW k \in Transfers, WholeInv(k), files' = files,
         \/ AnswerDoes(k) \/ TestDoes(B, k) \/ AssignDoes(B, k) \/ CheckDoes(B, k)
         \/ BreaksDoes(B, k) \/ ProgressDoes(B, k) \/ CloseFileDoes(k)
  PROVE  WholeInv(k)'
<1> USE Peer
<1>1. /\ ReceiverInv(k) /\ CountInv(k) /\ w[B][k].left \in Nat /\ Len(received[k]) \in Nat
      /\ Len(files) \in Nat
  BY LenProperties DEF WholeInv, TypeInv, WorkType, WorkerType, BookType, UiType
<1>2. outcome' = outcome
  BY DEF AnswerDoes, TestDoes, AssignDoes, CheckDoes, BreaksDoes, ProgressDoes, CloseFileDoes, BookSame
<1>3. wire'[k][B] = wire[k][B]
  BY OtherPeer DEF AnswerDoes, TestDoes, AssignDoes, CheckDoes, BreaksDoes, ProgressDoes, CloseFileDoes,
     Sent, NetSame
<1>4. /\ Others(B, k) /\ w'[B][k].left = w[B][k].left
      /\ \/ /\ received' = received
            /\ \/ w[B][k].pc = "answer" /\ w'[B][k].pc = "check"
               \/ w[B][k].pc = "test" /\ w'[B][k].pc \in {"assign", "answer"}
               \/ w[B][k].pc = "assign" /\ w'[B][k].pc = "answer"
               \/ w[B][k].pc = "check" /\ w'[B][k].pc \in {"aborted", "header"}
               \/ w[B][k].pc \in {"ask", "header", "body", "answer"} /\ w'[B][k].pc = "failed"
               \/ w[B][k].pc = "progress" /\ w'[B][k].pc \in {"failed", "body"}
         \/ /\ w[B][k].pc = "body" /\ w'[B][k].pc = "ask"
            /\ Len(received'[k]) = Len(received[k]) + 1
  <2>1. CASE AnswerDoes(k)
    BY <2>1 DEF AnswerDoes, StepsTo, Becomes, BookSame
  <2>2. CASE TestDoes(B, k)
    BY <2>2 DEF TestDoes, StepsTo, Becomes, Tested, BookSame
  <2>3. CASE AssignDoes(B, k)
    BY <2>3 DEF AssignDoes, Becomes, Tested, BookSame
  <2>4. CASE CheckDoes(B, k)
    BY <2>4 DEF CheckDoes, StepsTo, Becomes, BookSame
  <2>5. CASE BreaksDoes(B, k)
    BY <2>5 DEF BreaksDoes, StepsTo, Becomes, BookSame
  <2>6. CASE ProgressDoes(B, k)
    BY <2>6 DEF ProgressDoes, StepsTo, Becomes, BookSame
  <2>7. CASE CloseFileDoes(k)
    BY <2>7 DEF CloseFileDoes, StepsTo, Becomes
  <2>8. QED
    BY <2>1, <2>2, <2>3, <2>4, <2>5, <2>6, <2>7
<1>5. CountInv(k)'
  BY <1>1, <1>3, <1>4, CountSame
<1>6. ReceiverInv(k)'
  <2>1. CASE received' = received /\ w'[B][k].pc # "failed"
    BY <1>1, <1>4, <2>1 DEF ReceiverInv
  <2>2. CASE w'[B][k].pc = "failed"
    BY <2>2 DEF ReceiverInv
  <2>3. CASE w[B][k].pc = "body" /\ w'[B][k].pc = "ask" /\ Len(received'[k]) = Len(received[k]) + 1
    BY <1>1, <1>4, <2>3 DEF ReceiverInv
  <2>4. QED
    BY <1>4, <2>1, <2>2, <2>3
<1>7. w[B][k].pc \notin {"none", "complete", "gone"} /\ w'[B][k].pc \notin {"complete", "gone"}
  BY <1>4
<1>8. QED
  BY <1>2, <1>4, <1>5, <1>6, <1>7, ReceiverWorks

(* A report: what is reported is what the worker has come to.              *)
LEMMA WorkerReports ==
  ASSUME TypeInv, NEW x \in Peers, NEW k \in Transfers, WholeInv(k), files' = files, Reports(x, k)
  PROVE  WholeInv(k)'
<1>1. PICK to \in {"complete", "gone"}, what \in {"aborted", "ok", "failed"} :
        /\ ReportDoes(x, k, to, what)
        /\ \/ to = "complete" /\ what = "aborted" /\ w[x][k].pc = "aborted"
           \/ /\ to = "gone" /\ what = "ok"
              /\ w[x][k].pc = "complete" \/ (w[x][k].pc = "ask" /\ w[x][k].left = 0)
           \/ to = "gone" /\ what = "failed" /\ w[x][k].pc \in {"failed", "broken"}
  BY DEF Reports, AbortedDoes, CompletedDoes, FailedDoes
<1>2. /\ Others(x, k) /\ w'[x][k].pc = to
      /\ to = "gone" => w'[x][k].left = 0 /\ w'[x][k].blocks = 0
      /\ to = "complete" => w'[x][k].left = w[x][k].left /\ w'[x][k].blocks = w[x][k].blocks
  BY <1>1 DEF ReportDoes, StepsTo, Becomes
<1>3. /\ outcome'[x][k] = IF outcome[x][k] = "none" THEN what ELSE outcome[x][k]
      /\ \A y \in Peers : y # x => outcome'[y][k] = outcome[y][k]
      /\ received' = received
  BY <1>1 DEF ReportDoes, OutcomeSet
<1>4. (\A y \in Peers : wire'[k][y] = wire[k][y]) \/ (\A y \in Peers : wire'[k][y] = <<>>)
  BY <1>1 DEF ReportDoes, NetKept
<1>5. \A y \in Peers : y # x => w'[y][k] = w[y][k]
  BY <1>2 DEF Others
<1>6. CountInv(k) /\ SenderInv(k) /\ ReceiverInv(k) /\ OutcomeInv(k)
  BY DEF WholeInv
<1>7. CountInv(k)'
  <2>1. CASE wire'[k][B] = wire[k][B]
    <3>1. w'[B][k].pc = w[B][k].pc \/ w[B][k].pc # "none"
      BY <1>1, <1>5, Peer
    <3>2. QED
      BY <1>6, <2>1, <3>1, CountSame
  <2>2. CASE wire'[k][B] = <<>>
    <3>1. Len(wire'[k][B]) = 0
      BY <2>2
    <3>2. QED
      BY <3>1 DEF CountInv
  <2>3. QED
    BY <1>4, <2>1, <2>2, Peer
<1>8. /\ outcome'[x][k] # "none" /\ (to = "complete" => outcome'[x][k] = "aborted")
      /\ outcome'[x][k] = "ok" => w[x][k].pc = "ask" /\ w[x][k].left = 0
  BY <1>1, <1>3, <1>6 DEF OutcomeInv
<1>9. /\ Len(files) \in Nat /\ Len(received[k]) \in Nat
      /\ w[x][k].left \in Nat /\ w[x][k].blocks \in Nat
  BY LenProperties DEF TypeInv, WorkType, WorkerType, BookType, UiType
<1>10. CASE x = A
  <2>1. w[A][k].blocks = 0 \/ to = "gone"
    BY <1>1, <1>6, <1>9, <1>10 DEF SenderInv
  <2>2. SenderInv(k)'
    BY <1>1, <1>2, <1>6, <1>9, <1>10, <2>1 DEF SenderInv
  <2>3. w'[B][k] = w[B][k] /\ outcome'[B][k] = outcome[B][k] /\ received'[k] = received[k]
    BY <1>3, <1>5, <1>10, Peer
  <2>4. w[A][k].pc # "none" /\ w'[A][k].pc \in {"complete", "gone"}
    BY <1>1, <1>2, <1>10
  <2>5. outcome'[A][k] # "none" /\ (w'[A][k].pc = "complete" => outcome'[A][k] = "aborted")
    BY <1>2, <1>8, <1>10
  <2>6. QED
    BY <1>7, <2>2, <2>3, <2>4, <2>5, SenderMoves
<1>11. CASE x = B
  <2>1. w[B][k].pc # "none" /\ w'[B][k].pc \in {"complete", "gone"}
    BY <1>1, <1>2, <1>11
  <2>2. ReceiverInv(k)'
    BY <2>1 DEF ReceiverInv
  <2>3. w'[A][k] = w[A][k] /\ outcome'[A][k] = outcome[A][k]
    BY <1>3, <1>5, <1>11, Peer
  <2>4. outcome'[B][k] # "none" /\ (w'[B][k].pc = "complete" => outcome'[B][k] = "aborted")
    BY <1>2, <1>8, <1>11
  <2>5. outcome'[B][k] = "ok" => Len(received'[k]) = Len(files)
    BY <1>3, <1>6, <1>8, <1>9, <1>11 DEF ReceiverInv
  <2>6. QED
    BY <1>7, <2>1, <2>2, <2>3, <2>4, <2>5, ReceiverMoves
<1>12. QED
  BY <1>10, <1>11, Peer

LEMMA WorkerWhole ==
  ASSUME TypeInv, NEW x \in Peers, NEW k \in Transfers, WholeInv(k), files' = files, WorkerDoes(x, k)
  PROVE  WholeInv(k)'
<1>1. CASE x = A
  BY <1>1, Peer, SenderWrites, SenderThinks, WorkerReports DEF WorkerDoes
<1>2. CASE x = B
  BY <1>2, Peer, ReceiverReads, ReceiverThinks, WorkerReports DEF WorkerDoes
<1>3. QED
  BY <1>1, <1>2, Peer

(* The count goes out on a connection nobody has written to ...            *)
LEMMA AcceptWhole ==
  ASSUME TypeInv, FreshInv, WholeInv(n), AcceptDoes
  PROVE  WholeInv(n)'
<1> USE Peer
<1>1. n \in Transfers /\ ui[A] = "accept"
  BY DEF AcceptDoes
<1>2. w[A][n].pc = "none" /\ w[B][n].pc = "none" /\ wire[n][B] = <<>>
  BY <1>1 DEF FreshInv, WholeInv, StartInv
<1>3. Becomes(A, n, "ask", "Continue", "Continue", Len(files), 0) /\ BookSame /\ files' = files
  BY DEF AcceptDoes
<1>4. Len(files) \in Nat
  BY LenProperties DEF TypeInv, UiType
<1> DEFINE m == <<"count", Len(files)>>
<1>5. Len(wire'[n][B]) = 1 /\ wire'[n][B][1] = m
  BY <1>2 DEF AcceptDoes
<1>6. w'[B][n] = w[B][n] /\ w'[A][n].pc = "ask" /\ w'[A][n].left = Len(files) /\ w'[A][n].blocks = 0
  BY <1>1, <1>3 DEF Becomes, Others
<1>7. CountInv(n)'
  BY <1>2, <1>3, <1>5, <1>6 DEF CountInv, AcceptDoes
<1>8. SenderInv(n)' /\ StartInv(n)'
  <2>1. n' = n
    BY DEF AcceptDoes
  <2>2. SenderInv(n)'
    BY <1>3, <1>4, <1>6, <2>1 DEF SenderInv
  <2>3. StartInv(n)'
    BY <1>6, <2>1 DEF StartInv
  <2>4. QED
    BY <2>2, <2>3
<1>9. ReceiverInv(n)'
  BY <1>3, <1>6 DEF ReceiverInv, WholeInv, BookSame, AcceptDoes
<1>10. OutcomeInv(n)'
  BY <1>2, <1>3, <1>6 DEF OutcomeInv, WholeInv, BookSame, AcceptDoes
<1>11. QED
  BY <1>7, <1>8, <1>9, <1>10 DEF WholeInv, AcceptDoes

(* ... and the receiver takes it for what it is.                           *)
LEMMA CountWhole ==
  ASSUME TypeInv, NEW k \in Transfers, k = asking, WholeInv(k), CountDoes
  PROVE  WholeInv(k)'
<1> USE Peer
<1>1. /\ Got(B, k) /\ wire[k][B][1][1] = "count" /\ BookSame /\ files' = files
      /\ Becomes(B, k, "ask", "Continue", "Continue", wire[k][B][1][2], 0)
  BY DEF CountDoes
<1>2. Len(wire[k][B]) \in Nat \ {0}
  BY <1>1, Shorter
<1>3. w[B][k].pc = "none" /\ wire[k][B][1][2] = Len(files)
  BY <1>1, <1>2 DEF WholeInv, CountInv
<1>4. w'[B][k].pc = "ask" /\ w'[B][k].left = Len(files) /\ Others(B, k)
  BY <1>1, <1>3 DEF Becomes
<1>5. Len(received'[k]) = 0 /\ Len(files) \in Nat
  BY <1>1, <1>3, LenProperties DEF WholeInv, ReceiverInv, BookSame, TypeInv, UiType
<1>6. ReceiverInv(k)'
  BY <1>1, <1>4, <1>5 DEF ReceiverInv
<1>7. CountInv(k)'
  BY <1>1, CountTail DEF WholeInv
<1>8. wire[k][B] # <<>> /\ outcome' = outcome /\ w[B][k].pc \notin {"complete", "gone"}
      /\ w'[B][k].pc \notin {"complete", "gone"} /\ WholeInv(k)
  BY <1>1, <1>3, <1>4 DEF Got, BookSame
<1>9. QED
  BY <1>1, <1>4, <1>6, <1>7, <1>8, ReceiverWorks

LEMMA CancelWhole ==
  ASSUME TypeInv, NEW x \in Peers, NEW k \in Transfers, k = cur[x], WholeInv(k), CancelDoes(x)
  PROVE  WholeInv(k)'
<1>1. /\ Others(x, k) /\ w'[x][k].pc = w[x][k].pc
      /\ w'[x][k].left = w[x][k].left /\ w'[x][k].blocks = w[x][k].blocks
  <2>1. k # 0
    BY DEF Transfers
  <2>2. QED
    BY <2>1 DEF CancelDoes, Becomes
<1>2. NetSame /\ outcome' = outcome /\ received' = received /\ files' = files
  BY DEF CancelDoes, AppSame
<1>3. \A y \in Peers : /\ w'[y][k].pc = w[y][k].pc /\ w'[y][k].left = w[y][k].left
                       /\ w'[y][k].blocks = w[y][k].blocks
  <2>1. \A y \in Peers : y # x => w'[y][k] = w[y][k]
    BY <1>1 DEF Others
  <2>2. QED
    BY <1>1, <2>1
<1>4. wire'[k] = wire[k]
  BY <1>2 DEF NetSame
<1>5. StartInv(k)' /\ CountInv(k)'
  BY <1>2, <1>3, <1>4, Peer DEF WholeInv, StartInv, CountInv
<1>6. SenderInv(k)' /\ ReceiverInv(k)'
  BY <1>2, <1>3, Peer DEF WholeInv, SenderInv, ReceiverInv
<1>7. OutcomeInv(k)'
  BY <1>2, <1>3, Peer DEF WholeInv, OutcomeInv
<1>8. QED
  BY <1>5, <1>6, <1>7 DEF WholeInv

LEMMA WholeStep ==
  ASSUME BookInv, Next, NEW k \in Transfers
  PROVE  WholeInv(k)'
<1>1. TypeInv /\ FreshInv /\ \A j \in Transfers : WholeInv(j)
  BY DEF BookInv
<1>2. TypeInv' /\ files' = files
  BY <1>1, TypeStep, FilesStay
<1>3. CASE Kept(k)
  BY <1>1, <1>2, <1>3, WholeKept
<1>4. CASE Handshake \/ Closing
  BY <1>1, <1>3, <1>4, HandshakeKeeps, ClosingKeeps
<1>5. CASE AcceptDoes
  <2>1. CASE k = n
    <3>1. WholeInv(n)' /\ n' = n
      BY <1>1, <1>5, <2>1, AcceptWhole DEF AcceptDoes
    <3>2. QED
      BY <2>1, <3>1
  <2>2. QED
    BY <1>3, <1>5, <2>1, AcceptKeeps
<1>6. CASE CountDoes
  BY <1>1, <1>3, <1>6, CountWhole, CountKeeps
<1>7. ASSUME NEW x \in Peers, CancelDoes(x) PROVE WholeInv(k)'
  BY <1>1, <1>3, <1>7, CancelWhole, CancelKeeps
<1>8. ASSUME NEW x \in Peers, NEW j \in Transfers, WorkerDoes(x, j) PROVE WholeInv(k)'
  <2>1. CASE j = k
    BY <1>1, <1>2, <1>8, <2>1, WorkerWhole
  <2>2. CASE j # k
    BY <1>3, <1>8, <2>2, Apart
  <2>3. QED
    BY <2>1, <2>2
<1>9. QED
  BY <1>1, <1>4, <1>5, <1>6, <1>7, <1>8, StepCases DEF Cases

(* A transfer that A is still agreeing on was in that state before.        *)
LEMMA FreshStep ==
  ASSUME BookInv, Next
  PROVE  FreshInv'
<1> USE Peer
<1> DEFINE Waits == ui[A] \in {"reply", "accept"}
<1>1. TypeInv /\ FreshInv /\ \A j \in Transfers : WholeInv(j)
  BY DEF BookInv
<1>2. n \in Nat /\ n \in 0 .. MaxTransfers /\ MaxTransfers \in Nat /\ ui \in [Peers -> UiStates]
  BY <1>1, FTAssumption DEF TypeInv, UiType, UiStates
<1> SUFFICES ASSUME NEW k \in Transfers, k > n' \/ (k = n' /\ Waits')
             PROVE  w'[A][k].pc = "none"
  BY DEF FreshInv
<1>3. k \in Nat
  BY DEF Transfers
<1>4. ASSUME k > n \/ (k = n /\ Waits), w'[A][k].pc = w[A][k].pc
      PROVE  w'[A][k].pc = "none"
  BY <1>1, <1>4 DEF FreshInv
<1>5. CASE SendFiles
  <2>1. n' = n + 1 /\ w' = w
    BY <1>5 DEF SendFiles
  <2>2. k > n
    BY <1>2, <1>3, <2>1
  <2>3. QED
    BY <1>4, <2>1, <2>2
<1>6. ASSUME n' = n, ui'[A] = ui[A] \/ ui'[A] \notin {"reply", "accept"} \/ Waits
      PROVE  k > n \/ (k = n /\ Waits)
  BY <1>6
<1>7. CASE Handshake /\ ~SendFiles
  <2>1. n' = n /\ w' = w
    BY <1>7 DEF Handshake, ReplyTimesOut, Answered, Found, Refuse, Failure, HandlerEnds, Agree, Step2, Step2TimesOut,
       Port, Folder, Lose, Hears, Completes, Ignored, Dropped, EndReceiveWaits
  <2>2. CASE ReplyTimesOut \/ Answered
    BY <1>4, <1>6, <2>1, <2>2 DEF ReplyTimesOut, Answered, UiGoes
  <2>3. CASE ui' = ui
    BY <1>4, <1>6, <2>1, <2>3
  <2>4. CASE \E s : ui' = [ui EXCEPT ![B] = s]
    BY <1>2, <1>4, <1>6, <2>1, <2>4
  <2>5. ASSUME NEW x \in Peers, Hears(x) PROVE w'[A][k].pc = "none"
    <3>1. ui' = ui \/ \E to \in {"loop", "receive"} : ui' = [ui EXCEPT ![x] = to]
      BY <2>5 DEF Hears, Completes, Ignored, Dropped, EndReceiveWaits, UiGoes, app
    <3>2. ui'[A] = ui[A] \/ ui'[A] \in {"loop", "receive"}
      BY <1>2, <3>1
    <3>3. QED
      BY <1>4, <1>6, <2>1, <3>2
  <2>6. QED
    BY <1>7, <2>2, <2>3, <2>4, <2>5 DEF Handshake, Found, Refuse, Failure, HandlerEnds, Agree, Step2, Step2TimesOut,
       Port, Folder, Lose, UiGoes, app
<1>8. CASE Closing
  <2>1. n' = n /\ w' = w
    BY <1>1, <1>8, ClosingKeeps
  <2>2. PICK x \in Peers : ui' = [ui EXCEPT ![x] = "dead"]
    BY <1>1, <1>8, ClosingKeeps
  <2>3. ui'[A] = ui[A] \/ ui'[A] = "dead"
    BY <1>2, <2>2
  <2>4. QED
    BY <1>4, <1>6, <2>1, <2>3
<1>9. CASE AcceptDoes
  <2>1. n' = n /\ ui' = [ui EXCEPT ![A] = "loop"] /\ n \in Transfers
    BY <1>9 DEF AcceptDoes
  <2>2. k > n
    BY <1>2, <2>1
  <2>3. w'[A][k] = w[A][k]
    <3>1. Others(A, n) /\ k # n /\ A \in Peers
      <4>1. Others(A, n)
        BY <1>9 DEF AcceptDoes, Becomes
      <4>2. n \in Nat /\ k \in Nat
        BY <2>1 DEF Transfers
      <4>3. QED
        BY <2>2, <4>1, <4>2, Peer
    <3>2. QED
      BY <3>1 DEF Others
  <2>4. QED
    BY <1>4, <2>2, <2>3
<1>10. CASE CountDoes
  <2>1. n' = n /\ ui'[A] = ui[A]
    BY <1>2, <1>10 DEF CountDoes
  <2>2. w'[A][k] = w[A][k]
    BY <1>10 DEF CountDoes, Becomes, Others
  <2>3. QED
    BY <1>4, <1>6, <2>1, <2>2
<1>11. ASSUME NEW x \in Peers, CancelDoes(x) PROVE w'[A][k].pc = "none"
  <2>1. n' = n /\ ui' = ui
    BY <1>11 DEF CancelDoes, AppSame, app
  <2>2. w'[A][k].pc = w[A][k].pc
    BY <1>11 DEF CancelDoes, Becomes, Others
  <2>3. QED
    BY <1>4, <1>6, <2>1, <2>2
<1>12. ASSUME NEW x \in Peers, NEW j \in Transfers, WorkerDoes(x, j) PROVE w'[A][k].pc = "none"
  <2>1. CASE Reports(x, j)
    <3>1. n' = n /\ (ui' = ui \/ ui' = [ui EXCEPT ![x] = "dead"])
      BY <2>1 DEF Reports, AbortedDoes, CompletedDoes, FailedDoes, ReportDoes
    <3>2. ui'[A] = ui[A] \/ ui'[A] = "dead"
      BY <1>2, <3>1
    <3>3. k > n \/ (k = n /\ Waits)
      BY <1>6, <3>1, <3>2
    <3>4. w[A][k].pc = "none"
      BY <1>1, <3>3 DEF FreshInv
    <3>5. x # A \/ j # k
      BY <2>1, <3>4 DEF Reports, AbortedDoes, CompletedDoes, FailedDoes
    <3>6. w'[A][k] = w[A][k]
      BY <1>12, <3>5, Alone DEF Others
    <3>7. QED
      BY <3>4, <3>6
  <2>2. CASE AppSame
    <3>1. k > n \/ (k = n /\ Waits)
      BY <1>6, <2>2 DEF AppSame, app
    <3>2. w[A][k].pc = "none"
      BY <1>1, <3>1 DEF FreshInv
    <3>3. Reports(A, k) \/ x # A \/ j # k
      BY <1>12, <3>2 DEF WorkerDoes, AskDoes, WriteHeaderDoes, WriteBlockDoes, ReadStateDoes, TestDoes,
         AssignDoes, CheckDoes, BreaksDoes, ProgressDoes
    <3>4. x # A \/ j # k
      BY <3>2, <3>3 DEF Reports, AbortedDoes, CompletedDoes, FailedDoes
    <3>5. w'[A][k] = w[A][k]
      BY <1>12, <3>4, Alone DEF Others
    <3>6. QED
      BY <3>2, <3>5
  <2>3. QED
    BY <1>12, <2>1, <2>2 DEF WorkerDoes, AskDoes, WriteHeaderDoes, WriteBlockDoes, AnswerDoes, ReadHeaderDoes,
       ReadBlockDoes, CloseFileDoes, ReadStateDoes, TestDoes, AssignDoes, CheckDoes, BreaksDoes, ProgressDoes
<1>13. QED
  BY <1>1, <1>5, <1>7, <1>8, <1>9, <1>10, <1>11, <1>12, StepCases DEF Cases
-----------------------------------------------------------------------------
LEMMA BookInit == Init => BookInv
<1> SUFFICES ASSUME Init PROVE BookInv
  OBVIOUS
<1>1. <<>> \in Seq(Nat) /\ <<>> \in Seq(Messages) /\ <<>> \in Seq(Datagrams) /\ <<>> \in Seq({"whole"})
  BY EmptySeq
<1>2. UiType
  BY <1>1, FTAssumption, Peer DEF Init, UiType, UiStates, Asking, Transfers
<1>3. NoWorker \in WorkerType
  BY DEF NoWorker, WorkerType, Pcs, Modes
<1>4. WorkType
  BY <1>3 DEF Init, WorkType
<1>5. NetType
  <2> DEFINE S == Seq(Messages)
  <2>1. <<>> \in S
    BY <1>1
  <2> HIDE DEF S
  <2>2. wire \in [Transfers -> [Peers -> S]]
    BY <2>1 DEF Init
  <2>3. QED
    BY <2>2 DEF Init, NetType, S
<1>6. BookType
  BY <1>1 DEF Init, BookType, Ends
<1>7. \A x \in Peers, k \in Transfers : w[x][k] = NoWorker /\ wire[k][x] = <<>> /\ outcome[x][k] = "none"
  BY DEF Init
<1>8. ASSUME NEW k \in Transfers PROVE WholeInv(k)
  <2>1. /\ \A x \in Peers : /\ w[x][k].pc = "none" /\ w[x][k].left = 0 /\ w[x][k].blocks = 0
                             /\ wire[k][x] = <<>> /\ outcome[x][k] = "none"
        /\ Len(received[k]) = 0
    BY <1>7 DEF NoWorker, Init
  <2>2. Len(wire[k][B]) = 0 /\ Len(files) \in Nat
    BY <1>2, <2>1, Peer, LenProperties DEF UiType
  <2>3. StartInv(k) /\ CountInv(k)
    BY <2>1, <2>2, Peer DEF StartInv, CountInv
  <2>4. SenderInv(k) /\ ReceiverInv(k) /\ OutcomeInv(k)
    BY <2>1, <2>2, Peer DEF SenderInv, ReceiverInv, OutcomeInv
  <2>5. QED
    BY <2>3, <2>4 DEF WholeInv
<1>9. FreshInv
  BY <1>7, Peer DEF FreshInv, NoWorker
<1>10. ListenType
  BY DEF Init, ListenType, Receives
<1>11. QED
  BY <1>2, <1>4, <1>5, <1>6, <1>8, <1>9, <1>10 DEF BookInv, TypeInv

LEMMA BookStutters == BookInv /\ UNCHANGED vars => BookInv'
BY DEF vars, app, listen, net, book, BookInv, TypeInv, UiType, Asking, WorkType, NetType, BookType, ListenType,
   FreshInv, WholeInv, StartInv, CountInv, SenderInv, ReceiverInv, OutcomeInv

(* What is known of the counts and of the books, always.                   *)
THEOREM Inductive == Spec => []BookInv
<1>1. Init => BookInv
  BY BookInit
<1>2. BookInv /\ [Next]_vars => BookInv'
  <2>1. BookInv /\ Next => TypeInv'
    BY TypeStep DEF BookInv
  <2>2. BookInv /\ Next => FreshInv'
    BY FreshStep
  <2>3. BookInv /\ Next => \A k \in Transfers : WholeInv(k)'
    BY WholeStep
  <2>4. BookInv /\ Next => BookInv'
    BY <2>1, <2>2, <2>3 DEF BookInv
  <2>5. QED
    BY <2>4, BookStutters
<1>3. QED
  BY <1>1, <1>2, PTL DEF Spec

(* A receiver that reports a complete transfer has as many whole files as  *)
(* the sender's list has entries, whatever is cancelled, lost or closed.   *)
THEOREM FileTransferReceivedWhole == Spec => []ReceivedWhole
<1>1. BookInv => ReceivedWhole
  <2> SUFFICES ASSUME BookInv, NEW k \in Transfers, outcome[B][k] = "ok"
               PROVE  received[k] = [i \in 1 .. Len(files) |-> "whole"]
    BY DEF ReceivedWhole
  <2>1. received[k] \in Seq({"whole"}) /\ Len(received[k]) = Len(files)
    BY DEF BookInv, TypeInv, BookType, WholeInv, OutcomeInv
  <2>2. DOMAIN received[k] = 1 .. Len(files) /\ \A i \in 1 .. Len(files) : received[k][i] = "whole"
    BY <2>1, LenProperties, ElementOfSeq
  <2>3. received[k] = [i \in 1 .. Len(received[k]) |-> received[k][i]]
    BY <2>1, SeqDef
  <2>4. QED
    BY <2>1, <2>2, <2>3
<1>2. QED
  BY <1>1, Inductive, PTL
-----------------------------------------------------------------------------
(* What the users are told.  Whose turn it is: the sender has asked and    *)
(* waits for the answer, or has given up waiting.                          *)
StateSent(k) == \E i \in 1 .. Len(wire[k][B]) : wire[k][B][i][1] = "state"
Answers(k)   == w[B][k].pc \in {"test", "assign", "answer"}
Asked(k)     == StateSent(k) \/ Answers(k) \/ wire[k][A] # <<>>
Waits(k)     == \/ w[A][k].pc \in {"answer", "failed"}
                \/ w[A][k].pc = "gone" /\ outcome[A][k] = "failed"
TurnInv(k) ==
  /\ \A i \in 1 .. Len(wire[k][B]) : wire[k][B][i][1] = "state" => i = Len(wire[k][B])
  /\ wire[k][A] # <<>> => \E s \in Modes : wire[k][A] = << <<"state", s>> >>
  /\ Asked(k) => Waits(k)
  /\ Answers(k) => wire[k][A] = <<>> /\ wire[k][B] = <<>>
  /\ StateSent(k) => wire[k][A] = <<>>

(* While the sender decides on an answer, and when it has aborted, there   *)
(* is nothing that could complete the receiver's files.                    *)
Decides(k) == \/ wire[k][A] # <<>> \/ w[A][k].pc \in {"test", "assign", "check", "aborted"}
              \/ outcome[A][k] = "aborted"
Stuck(k) == \/ w[B][k].pc \in {"check", "header", "aborted", "complete", "failed"}
            \/ w[B][k].pc = "gone" /\ outcome[B][k] # "ok"
DecideInv(k) == Decides(k) => wire[k][B] = <<>> /\ Stuck(k)

(* A receiver that has answered Abort makes the sender abort, or fail.     *)
AbortSent(k) == k \notin late /\ \/ w[B][k].pc = "check" /\ w[B][k].state = "Abort"
                                 \/ w[B][k].pc = "aborted" \/ outcome[B][k] = "aborted"
WillAbort(k) == LET a == w[A][k] IN
  \/ a.pc = "answer" /\ (A \in closed[k] \/ wire[k][A] = << <<"state", "Abort">> >>)
  \/ a.pc = "test" /\ "Abort" \in {a.state, a.readInt}
  \/ a.pc = "assign" /\ a.readInt = "Abort"
  \/ a.pc = "check" /\ a.state = "Abort"
  \/ a.pc \in {"aborted", "complete", "failed"}
  \/ a.pc = "gone" /\ outcome[A][k] # "ok"
AbortInv(k) == AbortSent(k) => WillAbort(k)

TalkInv(k) == TurnInv(k) /\ DecideInv(k) /\ AbortInv(k)
-----------------------------------------------------------------------------
(* The messages to the receiver after a write and after a read.            *)
LEMMA StateAppend ==
  ASSUME TypeInv, NEW k \in Transfers, NEW m \in Messages, Sent(A, k, m), ~StateSent(k)
  PROVE  /\ StateSent(k)' => m[1] = "state"
         /\ \A i \in 1 .. Len(wire'[k][B]) : wire'[k][B][i][1] = "state" => i = Len(wire'[k][B])
<1>1. \/ wire'[k][B] = wire[k][B]
      \/ /\ Len(wire[k][B]) \in Nat /\ Len(wire'[k][B]) = Len(wire[k][B]) + 1
         /\ wire'[k][B][Len(wire[k][B]) + 1] = m
         /\ \A j \in 1 .. Len(wire[k][B]) : wire'[k][B][j] = wire[k][B][j]
  BY Longer, OtherPeer, Peer
<1>2. ASSUME NEW i \in 1 .. Len(wire'[k][B]), wire'[k][B][i][1] = "state"
      PROVE  i = Len(wire'[k][B]) /\ m[1] = "state"
  <2>1. i \notin 1 .. Len(wire[k][B]) \/ wire'[k][B][i] # wire[k][B][i]
    BY <1>2 DEF StateSent
  <2>2. wire'[k][B] # wire[k][B]
    BY <1>2, <2>1
  <2> DEFINE L == Len(wire[k][B])
             M == Len(wire'[k][B])
  <2>3. L \in Nat /\ M = L + 1 /\ wire'[k][B][L + 1] = m /\ \A j \in 1 .. L : wire'[k][B][j] = wire[k][B][j]
    BY <1>1, <2>2
  <2>4. i \notin 1 .. L
    BY <2>1, <2>3
  <2>5. i \in 1 .. M
    OBVIOUS
  <2>6. i = L + 1
    <3> HIDE DEF L, M
    <3>1. QED
      BY <2>3, <2>4, <2>5
  <2>7. wire'[k][B][i] = m /\ i = M
    BY <2>3, <2>6
  <2>8. QED
    BY <1>2, <2>7
<1>3. QED
  BY <1>2 DEF StateSent

LEMMA StateTail ==
  ASSUME TypeInv, NEW k \in Transfers, Got(B, k), TurnInv(k)
  PROVE  /\ StateSent(k)' => StateSent(k)
         /\ \A i \in 1 .. Len(wire'[k][B]) : wire'[k][B][i][1] = "state" => i = Len(wire'[k][B])
         /\ wire[k][B][1][1] = "state" => StateSent(k) /\ wire'[k][B] = <<>>
<1>1. /\ Len(wire[k][B]) \in Nat \ {0} /\ Len(wire'[k][B]) = Len(wire[k][B]) - 1
      /\ \A i \in 1 .. Len(wire[k][B]) - 1 : wire'[k][B][i] = wire[k][B][i + 1]
  BY Shorter, Peer
<1>2. ASSUME NEW i \in 1 .. Len(wire'[k][B]), wire'[k][B][i][1] = "state"
      PROVE  StateSent(k) /\ i = Len(wire'[k][B])
  <2>1. i + 1 \in 1 .. Len(wire[k][B]) /\ wire[k][B][i + 1][1] = "state"
    <3>1. i \in 1 .. Len(wire[k][B]) - 1 /\ i + 1 \in 1 .. Len(wire[k][B])
      BY <1>1
    <3>2. wire'[k][B][i] = wire[k][B][i + 1]
      BY <1>1, <3>1
    <3>3. QED
      BY <1>2, <3>1, <3>2
  <2>2. StateSent(k)
    BY <2>1 DEF StateSent
  <2>3. i + 1 = Len(wire[k][B])
    BY <2>1 DEF TurnInv
  <2>4. QED
    BY <1>1, <2>2, <2>3
<1>3. ASSUME wire[k][B][1][1] = "state"
      PROVE  StateSent(k) /\ wire'[k][B] = <<>>
  <2>1. 1 \in 1 .. Len(wire[k][B])
    BY <1>1
  <2>2. StateSent(k)
    BY <1>3, <2>1 DEF StateSent
  <2>3. Len(wire[k][B]) = 1
    BY <1>3, <2>1 DEF TurnInv
  <2>4. wire'[k][B] \in Seq(Messages)
    BY Peer DEF Got, NetType
  <2>5. Len(wire'[k][B]) = 0
    BY <1>1, <2>3
  <2>6. QED
    BY <2>2, <2>4, <2>5, EmptySeq
<1>4. QED
  BY <1>2, <1>3 DEF StateSent

(* Steps that neither write nor read.                                      *)
LEMMA NetKeptCases ==
  ASSUME NEW k \in Transfers, NetKept(k)
  PROVE  \/ wire'[k][A] = wire[k][A] /\ wire'[k][B] = wire[k][B]
         \/ wire'[k][A] = <<>> /\ wire'[k][B] = <<>> /\ A \in closed'[k] /\ B \in closed'[k]
BY Peer DEF NetKept

LEMMA NothingSent ==
  ASSUME NEW k \in Transfers, wire'[k][B] = <<>>
  PROVE  /\ ~StateSent(k)'
         /\ \A i \in 1 .. Len(wire'[k][B]) : wire'[k][B][i][1] = "state" => i = Len(wire'[k][B])
<1>1. Len(wire'[k][B]) = 0
  OBVIOUS
<1>2. QED
  BY <1>1 DEF StateSent

LEMMA TurnQuiet ==
  ASSUME NEW k \in Transfers, TurnInv(k), NetKept(k),
         Answers(k)' => Answers(k), Asked(k) /\ Waits(k) => Waits(k)'
  PROVE  TurnInv(k)'
<1>1. CASE wire'[k][A] = wire[k][A] /\ wire'[k][B] = wire[k][B]
  <2>1. StateSent(k)' <=> StateSent(k)
    BY <1>1 DEF StateSent
  <2>2. QED
    BY <1>1, <2>1 DEF TurnInv, Asked
<1>2. CASE wire'[k][A] = <<>> /\ wire'[k][B] = <<>>
  BY <1>2, NothingSent DEF TurnInv, Asked
<1>3. QED
  BY <1>1, <1>2, NetKeptCases

LEMMA DecideQuiet ==
  ASSUME NEW k \in Transfers, DecideInv(k), NetKept(k), Decides(k)' => Decides(k), Stuck(k) => Stuck(k)'
  PROVE  DecideInv(k)'
<1>1. wire[k][B] = <<>> => wire'[k][B] = <<>>
  BY NetKeptCases
<1>2. QED
  BY <1>1 DEF DecideInv

LEMMA WillStill ==
  ASSUME NEW k \in Transfers, WillAbort(k), w'[A][k] = w[A][k], outcome'[A][k] = outcome[A][k],
         closed[k] \subseteq closed'[k], A \in closed'[k] \/ wire'[k][A] = wire[k][A]
  PROVE  WillAbort(k)'
BY DEF WillAbort

(* A transfer that is left alone.                                          *)
LEMMA TalkKept ==
  ASSUME NEW k \in Transfers, TalkInv(k), Kept(k), late \subseteq late'
  PROVE  TalkInv(k)'
<1>1. /\ NetKept(k) /\ w'[A][k] = w[A][k] /\ w'[B][k] = w[B][k]
      /\ outcome'[A][k] = outcome[A][k] /\ outcome'[B][k] = outcome[B][k]
  BY Peer DEF Kept, BookKept
<1>2. TurnInv(k)'
  BY <1>1, TurnQuiet DEF TalkInv, Answers, Waits
<1>3. wire'[k][A] = wire[k][A] \/ (wire'[k][A] = <<>> /\ A \in closed'[k])
  BY <1>1, NetKeptCases
<1>4. DecideInv(k)'
  BY <1>1, <1>3, DecideQuiet DEF TalkInv, Decides, Stuck
<1>5. AbortSent(k)' => AbortSent(k)
  BY <1>1 DEF AbortSent
<1>6. AbortInv(k)'
  BY <1>1, <1>3, <1>5, WillStill DEF TalkInv, AbortInv, NetKept
<1>7. QED
  BY <1>2, <1>4, <1>6 DEF TalkInv
-----------------------------------------------------------------------------
(* The conversation goes on.  What a worker that is still at work has not  *)
(* reported:                                                               *)
LEMMA NotReported ==
  ASSUME NEW k \in Transfers, OutcomeInv(k), NEW x \in Peers
  PROVE  /\ w[x][k].pc \notin {"complete", "gone"} => outcome[x][k] = "none"
         /\ w[x][k].pc = "complete" => outcome[x][k] = "aborted"
BY DEF OutcomeInv

LEMMA NetSameKept == \A k \in Transfers : NetSame => NetKept(k)
BY DEF NetSame, NetKept

LEMMA SenderWritesTalk ==
  ASSUME TypeInv, NEW k \in Transfers, OutcomeInv(k), TalkInv(k),
         AskDoes(k) \/ WriteHeaderDoes(k) \/ WriteBlockDoes(k)
  PROVE  TalkInv(k)'
<1> USE Peer
<1>1. PICK m \in Messages : /\ Sent(A, k, m)
                            /\ \/ AskDoes(k) /\ m[1] = "state"
                               \/ (WriteHeaderDoes(k) \/ WriteBlockDoes(k)) /\ m[1] # "state"
  <2>1. <<"state", w[A][k].state>> \in Messages /\ <<"state", w[A][k].state>>[1] = "state"
    BY DEF TypeInv, WorkType, WorkerType, Messages
  <2>2. <<"block">> \in Messages /\ <<"block">>[1] # "state"
    BY DEF Messages
  <2>3. CASE WriteHeaderDoes(k)
    <3> DEFINE f == files[w[A][k].left]
    <3>1. f \in Nat /\ Sent(A, k, <<"file", f>>)
      BY <2>3 DEF WriteHeaderDoes
    <3>2. <<"file", f>> \in Messages /\ <<"file", f>>[1] # "state"
      BY <3>1 DEF Messages
    <3>3. QED
      BY <2>3, <3>1, <3>2
  <2>4. QED
    BY <2>1, <2>2, <2>3 DEF AskDoes, WriteBlockDoes
<1>2. /\ w[A][k].pc \in {"ask", "check", "body"}
      /\ w'[A][k].pc \in {"answer", "progress", "ask", "body"}
      /\ AskDoes(k) => w'[A][k].pc = "answer" /\ w[A][k].pc = "ask"
      /\ w[A][k].pc = "check" => w[A][k].state = "Continue"
      /\ Others(A, k) /\ BookSame
  BY DEF AskDoes, WriteHeaderDoes, WriteBlockDoes, StepsTo, Becomes
<1>3. outcome[A][k] = "none" /\ outcome'[A][k] = "none" /\ outcome'[B][k] = outcome[B][k]
      /\ w'[B][k] = w[B][k] /\ late' = late
  BY <1>2, NotReported DEF BookSame, Others
<1>4. ~Asked(k)
  BY <1>2 DEF TalkInv, TurnInv, Waits
<1>5. wire[k][A] = <<>> /\ wire'[k][A] = <<>> /\ ~StateSent(k) /\ ~Answers(k) /\ ~Answers(k)'
  BY <1>1, <1>3, <1>4 DEF Asked, Answers, Sent
<1>6. /\ StateSent(k)' => m[1] = "state"
      /\ \A i \in 1 .. Len(wire'[k][B]) : wire'[k][B][i][1] = "state" => i = Len(wire'[k][B])
  BY <1>1, <1>5, StateAppend
<1>7. TurnInv(k)'
  BY <1>1, <1>2, <1>5, <1>6 DEF TurnInv, Asked, Waits
<1>8. ~Decides(k)'
  BY <1>2, <1>3, <1>5 DEF Decides
<1>9. ~WillAbort(k)
  BY <1>2, <1>3 DEF WillAbort
<1>10. ~AbortSent(k)'
  BY <1>3, <1>9 DEF TalkInv, AbortInv, AbortSent
<1>11. QED
  BY <1>7, <1>8, <1>10 DEF TalkInv, DecideInv, AbortInv

LEMMA SenderReadsTalk ==
  ASSUME TypeInv, NEW k \in Transfers, OutcomeInv(k), TalkInv(k), ReadStateDoes(A, k)
  PROVE  TalkInv(k)'
<1> USE Peer
<1> DEFINE q == wire[k][A][1][2]
<1>1. /\ w[A][k].pc = "answer" /\ w'[A][k].pc = "test" /\ w'[A][k].readInt = q
      /\ q \in Modes /\ wire[k][A][1] = <<"state", q>>
      /\ Others(A, k) /\ Got(A, k) /\ BookSame
  BY DEF ReadStateDoes, Becomes
<1>2. PICK s \in Modes : wire[k][A] = << <<"state", s>> >>
  BY <1>1 DEF TalkInv, TurnInv, Got
<1>3. wire[k][A] # <<>> /\ q = s /\ wire'[k][A] = <<>> /\ wire'[k][B] = wire[k][B] /\ closed' = closed
  BY <1>1, <1>2, OtherPeer DEF Got
<1>4. outcome' = outcome /\ w'[B][k] = w[B][k] /\ late' = late
  BY <1>1 DEF BookSame, Others
<1>5. ~StateSent(k) /\ ~Answers(k)
  BY <1>3 DEF TalkInv, TurnInv
<1>6. ~StateSent(k)' /\ ~Answers(k)'
  BY <1>3, <1>4, <1>5 DEF StateSent, Answers
<1>7. TurnInv(k)'
  BY <1>3, <1>6 DEF TurnInv, Asked, StateSent
<1>8. DecideInv(k)'
  BY <1>3, <1>4 DEF TalkInv, DecideInv, Decides, Stuck
<1>9. AbortSent(k)' => AbortSent(k)
  BY <1>4 DEF AbortSent
<1>10. WillAbort(k) => s = "Abort"
  <2>1. A \notin closed[k]
    BY <1>1 DEF Got
  <2>2. WillAbort(k) => wire[k][A] = << <<"state", "Abort">> >>
    BY <1>1, <2>1 DEF WillAbort
  <2>3. QED
    BY <1>2, <2>2
<1>11. s = "Abort" => WillAbort(k)'
  BY <1>1, <1>3 DEF WillAbort
<1>12. QED
  BY <1>7, <1>8, <1>9, <1>10, <1>11 DEF TalkInv, AbortInv

(* The sender's other steps, and what it reports.                          *)
LEMMA SenderThinksTalk ==
  ASSUME TypeInv, NEW k \in Transfers, OutcomeInv(k), TalkInv(k),
         \/ TestDoes(A, k) \/ AssignDoes(A, k) \/ CheckDoes(A, k) \/ BreaksDoes(A, k) \/ ProgressDoes(A, k)
         \/ Reports(A, k)
  PROVE  TalkInv(k)'
<1> USE Peer
<1>1. /\ Others(A, k) /\ NetKept(k) /\ late' = late /\ outcome'[B][k] = outcome[B][k]
      /\ \/ w[A][k].pc = "progress" /\ w'[A][k].pc \in {"ask", "body", "failed"} /\ outcome' = outcome
         \/ /\ w[A][k].pc = "answer" /\ w'[A][k].pc = "failed" /\ outcome' = outcome
         \/ /\ w[A][k].pc \in {"ask", "body", "check"} /\ w'[A][k].pc = "broken" /\ outcome' = outcome
         \/ /\ w[A][k].pc \in {"ask", "complete"} /\ w'[A][k].pc = "gone"
            /\ outcome'[A][k] = IF outcome[A][k] = "none" THEN "ok" ELSE outcome[A][k]
         \/ /\ w[A][k].pc \in {"failed", "broken"} /\ w'[A][k].pc = "gone"
            /\ outcome'[A][k] = IF outcome[A][k] = "none" THEN "failed" ELSE outcome[A][k]
         \/ /\ w[A][k].pc = "aborted" /\ w'[A][k].pc = "complete"
            /\ outcome'[A][k] = IF outcome[A][k] = "none" THEN "aborted" ELSE outcome[A][k]
         \/ w[A][k].pc \in {"test", "assign", "check"} /\ w'[A][k].pc \in {"assign", "check", "aborted"}
            /\ outcome' = outcome
  <2>1. CASE TestDoes(A, k)
    BY <2>1, NetSameKept DEF TestDoes, StepsTo, Becomes, Tested, BookSame
  <2>2. CASE AssignDoes(A, k)
    BY <2>2, NetSameKept DEF AssignDoes, Becomes, Tested, BookSame
  <2>3. CASE CheckDoes(A, k)
    BY <2>3, NetSameKept DEF CheckDoes, StepsTo, Becomes, BookSame
  <2>4. CASE BreaksDoes(A, k)
    BY <2>4, NetSameKept DEF BreaksDoes, StepsTo, Becomes, BookSame
  <2>5. CASE ProgressDoes(A, k)
    BY <2>5, NetSameKept DEF ProgressDoes, StepsTo, Becomes, BookSame
  <2>6. CASE AbortedDoes(A, k)
    BY <2>6 DEF AbortedDoes, ReportDoes, OutcomeSet, StepsTo, Becomes
  <2>7. CASE CompletedDoes(A, k)
    BY <2>7 DEF CompletedDoes, ReportDoes, OutcomeSet, Becomes
  <2>8. CASE FailedDoes(A, k)
    BY <2>8 DEF FailedDoes, ReportDoes, OutcomeSet, Becomes
  <2>9. QED
    BY <2>1, <2>2, <2>3, <2>4, <2>5, <2>6, <2>7, <2>8 DEF Reports
<1>2. w'[B][k] = w[B][k]
  BY <1>1 DEF Others
<1>3. /\ w[A][k].pc \notin {"complete", "gone"} => outcome[A][k] = "none"
      /\ w[A][k].pc = "complete" => outcome[A][k] = "aborted"
  BY NotReported
<1>4. TurnInv(k)'
  BY <1>1, <1>2, <1>3, TurnQuiet DEF TalkInv, Answers, Waits
<1>5. wire'[k][A] # <<>> => wire[k][A] # <<>>
  BY <1>1, NetKeptCases
<1>6. DecideInv(k)'
  BY <1>1, <1>2, <1>3, <1>5, DecideQuiet DEF TalkInv, Decides, Stuck
<1>7. AbortSent(k)' => AbortSent(k)
  BY <1>1, <1>2 DEF AbortSent
<1>8. WillAbort(k) => WillAbort(k)'
  <2>1. CASE TestDoes(A, k)
    <3>1. w[A][k].state \in Modes
      BY DEF TypeInv, WorkType, WorkerType
    <3>2. /\ w[A][k].pc = "test" /\ w'[A][k].state = w[A][k].state /\ w'[A][k].readInt = w[A][k].readInt
          /\ w'[A][k].pc = IF w[A][k].state = "Continue" THEN "assign" ELSE "check"
      BY <2>1 DEF TestDoes, StepsTo, Becomes, Tested
    <3>3. QED
      BY <3>1, <3>2 DEF WillAbort, Modes
  <2>2. CASE AssignDoes(A, k)
    BY <2>2 DEF AssignDoes, Becomes, Tested, WillAbort
  <2>3. CASE CheckDoes(A, k)
    BY <2>3 DEF CheckDoes, StepsTo, Becomes, WillAbort
  <2>4. CASE BreaksDoes(A, k)
    BY <2>4 DEF BreaksDoes, StepsTo, Becomes, WillAbort
  <2>5. CASE ProgressDoes(A, k)
    BY <2>5 DEF ProgressDoes, WillAbort
  <2>6. CASE Reports(A, k)
    BY <1>1, <1>3, <2>6 DEF WillAbort, Reports, AbortedDoes, CompletedDoes, FailedDoes
  <2>7. QED
    BY <2>1, <2>2, <2>3, <2>4, <2>5, <2>6
<1>9. QED
  BY <1>4, <1>6, <1>7, <1>8 DEF TalkInv, AbortInv

(* The receiver.                                                           *)
LEMMA ReceiverReadsTalk ==
  ASSUME TypeInv, NEW k \in Transfers, TalkInv(k), Got(B, k), Others(B, k), BookSame,
         w'[B][k].pc \in {"ask", "test", "progress", "body"},
         w'[B][k].pc = "test" => wire[k][B][1][1] = "state"
  PROVE  TalkInv(k)'
<1> USE Peer
<1>1. /\ wire[k][B] # <<>> /\ wire'[k][A] = wire[k][A] /\ closed' = closed /\ w'[A][k] = w[A][k]
      /\ outcome' = outcome /\ late' = late
  BY OtherPeer DEF Got, Others, BookSame
<1>2. /\ StateSent(k)' => StateSent(k)
      /\ \A i \in 1 .. Len(wire'[k][B]) : wire'[k][B][i][1] = "state" => i = Len(wire'[k][B])
      /\ wire[k][B][1][1] = "state" => StateSent(k) /\ wire'[k][B] = <<>>
  BY StateTail DEF TalkInv
<1>3. Answers(k)' => StateSent(k) /\ wire[k][A] = <<>> /\ wire'[k][B] = <<>>
  BY <1>2 DEF Answers, TalkInv, TurnInv
<1>4. Asked(k)' => Asked(k)
  BY <1>1, <1>2, <1>3 DEF Asked
<1>5. TurnInv(k)'
  BY <1>1, <1>2, <1>3, <1>4 DEF TalkInv, TurnInv, Waits
<1>6. ~Decides(k)
  BY <1>1 DEF TalkInv, DecideInv
<1>7. ~Decides(k)'
  BY <1>1, <1>6 DEF Decides
<1>8. AbortSent(k)' => AbortSent(k)
  BY <1>1 DEF AbortSent
<1>9. WillAbort(k) => WillAbort(k)'
  BY <1>1, WillStill
<1>10. QED
  BY <1>5, <1>7, <1>8, <1>9 DEF TalkInv, DecideInv, AbortInv

LEMMA ReceiverAnswersTalk ==
  ASSUME TypeInv, NEW k \in Transfers, OutcomeInv(k), TalkInv(k), AnswerDoes(k)
  PROVE  TalkInv(k)'
<1> USE Peer
<1> DEFINE s == w[B][k].state
<1>1. /\ w[B][k].pc = "answer" /\ w'[B][k].pc = "check" /\ w'[B][k].state = s
      /\ Others(B, k) /\ Sent(B, k, <<"state", s>>) /\ BookSame
  BY DEF AnswerDoes, StepsTo, Becomes
<1>2. s \in Modes /\ w'[A][k] = w[A][k] /\ outcome' = outcome /\ late' = late
  BY <1>1 DEF TypeInv, WorkType, WorkerType, Others, BookSame
<1>3. /\ wire[k][A] = <<>> /\ wire[k][B] = <<>> /\ wire'[k][B] = <<>> /\ closed' = closed
      /\ wire'[k][A] = IF closed[k] = {} THEN << <<"state", s>> >> ELSE <<>>
      /\ B \notin closed[k] /\ closed[k] \subseteq Peers
  <2>1. wire[k][A] = <<>> /\ wire[k][B] = <<>>
    BY <1>1 DEF TalkInv, TurnInv, Answers
  <2>2. wire'[k][A] = IF closed[k] = {} THEN Append(wire[k][A], <<"state", s>>) ELSE wire[k][A]
    BY <1>1, OtherPeer DEF Sent
  <2>3. closed[k] \subseteq Peers
    BY DEF TypeInv, NetType
  <2>4. QED
    BY <1>1, <2>1, <2>2, <2>3 DEF Sent
<1>4. Waits(k) /\ Waits(k)'
  BY <1>1, <1>2 DEF TalkInv, TurnInv, Asked, Answers, Waits
<1>5. ~StateSent(k)' /\ ~Answers(k)'
  BY <1>1, <1>3, NothingSent DEF Answers
<1>6. TurnInv(k)'
  <2>1. wire'[k][A] # <<>> => \E q \in Modes : wire'[k][A] = << <<"state", q>> >>
    BY <1>2, <1>3
  <2>2. QED
    BY <1>3, <1>4, <1>5, <2>1, NothingSent DEF TurnInv
<1>7. DecideInv(k)'
  BY <1>1, <1>3 DEF DecideInv, Stuck
<1>8. AbortSent(k)' => s = "Abort"
  BY <1>1, <1>2, NotReported DEF AbortSent
<1>9. s = "Abort" => WillAbort(k)'
  <2>1. A \in closed'[k] \/ wire'[k][A] = << <<"state", s>> >>
    BY <1>3
  <2>2. w'[A][k].pc \in {"answer", "failed"} \/ (w'[A][k].pc = "gone" /\ outcome'[A][k] = "failed")
    BY <1>4 DEF Waits
  <2>3. QED
    BY <2>1, <2>2 DEF WillAbort
<1>10. QED
  BY <1>6, <1>7, <1>8, <1>9 DEF TalkInv, AbortInv

LEMMA ReceiverThinksTalk ==
  ASSUME TypeInv, NEW k \in Transfers, OutcomeInv(k), TalkInv(k),
         \/ TestDoes(B, k) \/ AssignDoes(B, k) \/ CheckDoes(B, k) \/ BreaksDoes(B, k) \/ ProgressDoes(B, k)
         \/ CloseFileDoes(k) \/ Reports(B, k)
  PROVE  TalkInv(k)'
<1> USE Peer
<1>1. /\ Others(B, k) /\ NetKept(k) /\ late' = late /\ outcome'[A][k] = outcome[A][k]
      /\ \/ w[B][k].pc = "progress" /\ w'[B][k].pc \in {"body", "failed"} /\ outcome' = outcome
         \/ w[B][k].pc \in {"ask", "header", "body", "answer"} /\ w'[B][k].pc = "failed" /\ outcome' = outcome
         \/ w[B][k].pc = "body" /\ w'[B][k].pc = "ask" /\ outcome' = outcome
         \/ /\ w[B][k].pc \in {"ask", "complete"} /\ w'[B][k].pc = "gone"
            /\ outcome'[B][k] = IF outcome[B][k] = "none" THEN "ok" ELSE outcome[B][k]
         \/ /\ w[B][k].pc \in {"failed", "broken"} /\ w'[B][k].pc = "gone"
            /\ outcome'[B][k] = IF outcome[B][k] = "none" THEN "failed" ELSE outcome[B][k]
         \/ /\ w[B][k].pc = "aborted" /\ w'[B][k].pc = "complete"
            /\ outcome'[B][k] = IF outcome[B][k] = "none" THEN "aborted" ELSE outcome[B][k]
         \/ /\ w[B][k].pc = "check" /\ outcome' = outcome
            /\ w'[B][k].pc = IF w[B][k].state = "Abort" THEN "aborted" ELSE "header"
         \/ w[B][k].pc \in {"test", "assign"} /\ w'[B][k].pc \in {"assign", "answer"} /\ outcome' = outcome
  <2>1. CASE TestDoes(B, k)
    BY <2>1, NetSameKept DEF TestDoes, StepsTo, Becomes, Tested, BookSame
  <2>2. CASE AssignDoes(B, k)
    BY <2>2, NetSameKept DEF AssignDoes, Becomes, Tested, BookSame
  <2>3. CASE CheckDoes(B, k)
    BY <2>3, NetSameKept DEF CheckDoes, StepsTo, Becomes, BookSame
  <2>4. CASE BreaksDoes(B, k)
    BY <2>4, NetSameKept DEF BreaksDoes, StepsTo, Becomes, BookSame
  <2>5. CASE ProgressDoes(B, k)
    BY <2>5, NetSameKept DEF ProgressDoes, StepsTo, Becomes, BookSame
  <2>6. CASE AbortedDoes(B, k)
    BY <2>6 DEF AbortedDoes, ReportDoes, OutcomeSet, StepsTo, Becomes
  <2>7. CASE CompletedDoes(B, k)
    BY <2>7 DEF CompletedDoes, ReportDoes, OutcomeSet, Becomes
  <2>8. CASE FailedDoes(B, k)
    BY <2>8 DEF FailedDoes, ReportDoes, OutcomeSet, Becomes
  <2>9. CASE CloseFileDoes(k)
    BY <2>9, NetSameKept DEF CloseFileDoes, StepsTo, Becomes
  <2>10. QED
    BY <2>1, <2>2, <2>3, <2>4, <2>5, <2>6, <2>7, <2>8, <2>9 DEF Reports
<1>2. w'[A][k] = w[A][k]
  BY <1>1 DEF Others
<1>3. /\ w[B][k].pc \notin {"complete", "gone"} => outcome[B][k] = "none"
      /\ w[B][k].pc = "complete" => outcome[B][k] = "aborted"
  BY NotReported
<1>4. TurnInv(k)'
  BY <1>1, <1>2, <1>3, TurnQuiet DEF TalkInv, Answers, Waits
<1>5. wire'[k][A] # <<>> => wire[k][A] # <<>>
  BY <1>1, NetKeptCases
<1>6. DecideInv(k)'
  BY <1>1, <1>2, <1>3, <1>5, DecideQuiet DEF TalkInv, Decides, Stuck
<1>7. AbortSent(k)' => AbortSent(k)
  BY <1>1, <1>2, <1>3 DEF AbortSent
<1>8. WillAbort(k) => WillAbort(k)'
  BY <1>1, <1>2, NetKeptCases, WillStill DEF NetKept
<1>9. QED
  BY <1>4, <1>6, <1>7, <1>8 DEF TalkInv, AbortInv

LEMMA WorkerTalk ==
  ASSUME TypeInv, NEW x \in Peers, NEW k \in Transfers, OutcomeInv(k), TalkInv(k), WorkerDoes(x, k)
  PROVE  TalkInv(k)'
<1>1. CASE x = A
  BY <1>1, Peer, SenderWritesTalk, SenderReadsTalk, SenderThinksTalk DEF WorkerDoes
<1>2. CASE x = B
  <2>1. CASE ReadStateDoes(B, k) \/ ReadHeaderDoes(k) \/ ReadBlockDoes(k)
    <3>1. /\ Got(B, k) /\ Others(B, k) /\ BookSame /\ w'[B][k].pc \in {"ask", "test", "progress", "body"}
          /\ w'[B][k].pc = "test" => wire[k][B][1][1] = "state"
      BY <2>1, Peer DEF ReadStateDoes, ReadHeaderDoes, ReadBlockDoes, Becomes
    <3>2. QED
      BY <3>1, ReceiverReadsTalk
  <2>2. QED
    BY <1>2, <2>1, Peer, ReceiverAnswersTalk, ReceiverThinksTalk DEF WorkerDoes
<1>3. QED
  BY <1>1, <1>2, Peer

LEMMA AcceptTalk ==
  ASSUME TypeInv, FreshInv, NEW k \in Transfers, k = n, WholeInv(k), TalkInv(k), AcceptDoes
  PROVE  TalkInv(k)'
<1> USE Peer
<1>1. /\ w[A][k].pc = "none" /\ w[B][k].pc = "none" /\ wire[k][B] = <<>> /\ wire[k][A] = <<>>
      /\ outcome[A][k] = "none" /\ outcome[B][k] = "none"
  BY DEF AcceptDoes, FreshInv, WholeInv, StartInv, OutcomeInv
<1>2. /\ w'[A][k].pc = "ask" /\ w'[B][k] = w[B][k] /\ BookSame /\ wire'[k][A] = wire[k][A]
      /\ wire'[k][B] = Append(wire[k][B], <<"count", Len(files)>>)
  BY DEF AcceptDoes, Becomes, Others
<1>3. Len(wire'[k][B]) = 1 /\ wire'[k][B][1] = <<"count", Len(files)>>
  BY <1>1, <1>2
<1>4. ~StateSent(k)' /\ ~Answers(k)' /\ ~Asked(k)'
  BY <1>1, <1>2, <1>3 DEF StateSent, Answers, Asked
<1>5. TurnInv(k)'
  BY <1>1, <1>2, <1>3, <1>4 DEF TurnInv
<1>6. ~Decides(k)' /\ ~AbortSent(k)'
  BY <1>1, <1>2 DEF Decides, AbortSent, BookSame
<1>7. QED
  BY <1>5, <1>6 DEF TalkInv, DecideInv, AbortInv

LEMMA CancelTalk ==
  ASSUME TypeInv, NEW x \in Peers, NEW k \in Transfers, k = cur[x], OutcomeInv(k), TalkInv(k), CancelDoes(x)
  PROVE  TalkInv(k)'
<1> USE Peer
<1>1. /\ Others(x, k) /\ w'[x][k].pc = w[x][k].pc /\ w'[x][k].state = "Abort"
      /\ w'[x][k].readInt = w[x][k].readInt
  <2>1. k # 0
    BY DEF Transfers
  <2>2. QED
    BY <2>1 DEF CancelDoes, Becomes
<1>2. NetSame /\ NetKept(k) /\ outcome' = outcome /\ closed' = closed /\ wire' = wire
  BY NetSameKept DEF CancelDoes, NetSame
<1>3. \A y \in Peers : w'[y][k].pc = w[y][k].pc
  BY <1>1 DEF Others
<1>4. TurnInv(k)'
  BY <1>2, <1>3, TurnQuiet DEF TalkInv, Answers, Waits
<1>5. DecideInv(k)'
  BY <1>2, <1>3, DecideQuiet DEF TalkInv, Decides, Stuck
<1>6. AbortSent(k)' => AbortSent(k)
  <2>1. CASE x = A
    <3>1. w'[B][k] = w[B][k] /\ late' = late
      BY <1>1, <2>1 DEF CancelDoes, Others
    <3>2. QED
      BY <1>2, <3>1 DEF AbortSent
  <2>2. CASE x = B
    <3>1. late' = IF w[B][k].pc = "check" /\ w[B][k].state = "Continue" THEN late \union {k} ELSE late
      BY <2>2 DEF CancelDoes
    <3>2. w[B][k].state \in Modes
      BY DEF TypeInv, WorkType, WorkerType
    <3>3. QED
      BY <1>2, <1>3, <3>1, <3>2 DEF AbortSent, Modes
  <2>3. QED
    BY <2>1, <2>2
<1>7. WillAbort(k) => WillAbort(k)'
  <2>1. CASE x = A
    BY <1>1, <1>2, <2>1 DEF WillAbort
  <2>2. CASE x = B
    <3>1. w'[A][k] = w[A][k]
      BY <1>1, <2>2 DEF Others
    <3>2. QED
      BY <1>2, <3>1 DEF WillAbort
  <2>3. QED
    BY <2>1, <2>2
<1>8. QED
  BY <1>4, <1>5, <1>6, <1>7 DEF TalkInv, AbortInv

LEMMA RacesStay ==
  ASSUME TypeInv, Cases
  PROVE  late \subseteq late' /\ victim \subseteq victim' /\ (astray => astray')
<1>1. CASE Handshake \/ Closing
  BY <1>1, HandshakeKeeps, ClosingKeeps
<1>2. CASE AcceptDoes \/ CountDoes
  BY <1>2 DEF AcceptDoes, CountDoes, BookSame
<1>3. ASSUME NEW x \in Peers, CancelDoes(x) PROVE late \subseteq late' /\ victim \subseteq victim' /\ (astray => astray')
  BY <1>3 DEF CancelDoes, AppSame, listen
<1>4. ASSUME NEW x \in Peers, NEW k \in Transfers, WorkerDoes(x, k) PROVE late \subseteq late' /\ victim \subseteq victim' /\ (astray => astray')
  <2>1. CASE Reports(x, k)
    <3>1. PICK to \in {"complete", "gone"} :
            late' = late /\ IF ui[x] = "folder" THEN NullReference(to) ELSE OnTransformEnd(x, k)
      BY <2>1 DEF Reports, AbortedDoes, CompletedDoes, FailedDoes, ReportDoes
    <3>2. OnTransformEnd(x, k) => victim \subseteq victim' /\ (astray => astray')
      BY DEF OnTransformEnd
    <3>3. NullReference(to) => victim \subseteq victim' /\ (astray => astray')
      BY DEF NullReference
    <3>4. QED
      BY <3>1, <3>2, <3>3
  <2>2. CASE CloseFileDoes(k)
    BY <2>2 DEF CloseFileDoes, AppSame, listen
  <2>3. CASE BookSame /\ AppSame
    BY <2>3 DEF BookSame, AppSame, listen
  <2>4. QED
    BY <1>4, <2>1, <2>2, <2>3 DEF WorkerDoes, AskDoes, WriteHeaderDoes, WriteBlockDoes, AnswerDoes,
       ReadHeaderDoes, ReadBlockDoes, ReadStateDoes, TestDoes, AssignDoes, CheckDoes, BreaksDoes, ProgressDoes
<1>5. QED
  BY <1>1, <1>2, <1>3, <1>4 DEF Cases

LEMMA TalkStep ==
  ASSUME BookInv, NEW k \in Transfers, TalkInv(k), Next
  PROVE  TalkInv(k)'
<1>1. TypeInv /\ FreshInv /\ \A j \in Transfers : WholeInv(j)
  BY DEF BookInv
<1>2. Cases /\ late \subseteq late' /\ OutcomeInv(k)
  BY <1>1, StepCases, RacesStay DEF WholeInv
<1>3. CASE Kept(k)
  BY <1>2, <1>3, TalkKept
<1>4. CASE Handshake \/ Closing
  BY <1>1, <1>3, <1>4, HandshakeKeeps, ClosingKeeps
<1>5. CASE AcceptDoes
  BY <1>1, <1>3, <1>5, AcceptTalk, AcceptKeeps
<1>6. CASE CountDoes
  <2>1. CASE k = asking
    <3>1. Got(B, k) /\ Others(B, k) /\ BookSame /\ w'[B][k].pc = "ask"
      BY <1>6, <2>1 DEF CountDoes, Becomes
    <3>2. QED
      BY <1>1, <3>1, ReceiverReadsTalk
  <2>2. QED
    BY <1>3, <1>6, <2>1, CountKeeps
<1>7. ASSUME NEW x \in Peers, CancelDoes(x) PROVE TalkInv(k)'
  BY <1>1, <1>2, <1>3, <1>7, CancelTalk, CancelKeeps
<1>8. ASSUME NEW x \in Peers, NEW j \in Transfers, WorkerDoes(x, j) PROVE TalkInv(k)'
  <2>1. CASE j = k
    BY <1>1, <1>2, <1>8, <2>1, WorkerTalk
  <2>2. CASE j # k
    BY <1>3, <1>8, <2>2, Apart
  <2>3. QED
    BY <2>1, <2>2
<1>9. QED
  BY <1>2, <1>4, <1>5, <1>6, <1>7, <1>8 DEF Cases
-----------------------------------------------------------------------------
(* In calm weather, and without the two races.  B is asked about a         *)
(* transfer once.                                                          *)
AskedInv ==
  /\ \A i \in 1 .. Len(dgrams[B]) : dgrams[B][i].kind = "step0" =>
       /\ dgrams[B][i].of =< n /\ w[B][dgrams[B][i].of].pc = "none"
       /\ Asking => dgrams[B][i].of # asking
       /\ \A j \in 1 .. Len(dgrams[B]) : dgrams[B][j] = dgrams[B][i] => j = i
  /\ Asking => asking =< n /\ w[B][asking].pc = "none"
HeardInv == field[B].kind = "step0" =>
  /\ field[B].of =< n /\ w[B][field[B].of].pc = "none"
  /\ Asking => field[B].of # asking
  /\ \A i \in 1 .. Len(dgrams[B]) : dgrams[B][i].kind = "step0" => dgrams[B][i].of # field[B].of

(* Each machine has one transfer that is at work, its current one, and has *)
(* closed those that are not.  The receive is completed and handled from   *)
(* the moment B is asked until its transfer has ended; the echo that A has *)
(* received waits to be handled, but for one that A has ignored.           *)
Undisturbed == calm /\ ~astray /\ late = {} /\ victim = {}
Active(x, k) == w[x][k].pc \notin {"none", "complete", "gone"}
PlaceListen ==
  /\ \A x \in Peers : ui[x] # "receive"
  /\ field[B] = Done <=> ui[B] # "loop" \/ busy[B]
  /\ calls[B] = IF field[B] \in {Pending, Done} THEN 0 ELSE 1
  /\ ui[B] \in {"dialog", "box", "step2"} => ~busy[B]
  /\ \/ field[A] = Pending /\ calls[A] = 0
     \/ field[A] = Datagram("echo", 0) /\ (calls[A] = 1 \/ (calls[A] = 0 /\ busy[A]))
PlaceInv ==
  /\ \A x \in Peers, k \in Transfers : /\ x \in closed[k] <=> w[x][k].pc \in {"complete", "gone"}
                                       /\ Active(x, k) => cur[x] = k /\ busy[x]
  /\ \A x \in Peers : ui[x] # "dead"
  /\ ui[A] \in {"reply", "accept"} => \A k \in Transfers : ~Active(A, k)
  /\ ui[A] = "accept" => busy[A]
  /\ Asking => \A k \in Transfers : ~Active(B, k)
  /\ ui[B] \in {"port", "folder", "count"} => busy[B]
  /\ PlaceListen

(* From message i on: blocks, and at the end the question of a sender that *)
(* waits for its answer; m is the number of the blocks, and of those the   *)
(* sender has still to write.                                              *)
Question(k) == IF w[A][k].pc = "answer" THEN 1 ELSE 0
Rest(k, i, m) ==
  /\ \A j \in i .. Len(wire[k][B]) :
       wire[k][B][j][1] = IF j = Len(wire[k][B]) /\ w[A][k].pc = "answer" THEN "state" ELSE "block"
  /\ Len(wire[k][B]) + w[A][k].blocks = i - 1 + m + Question(k)
Ahead(k) == \/ w[A][k].pc \in {"progress", "body", "ask", "answer"}
            \/ w[A][k].pc = "gone" /\ outcome[A][k] = "ok" /\ w[A][k].left = 0
Deciding(k) == \/ w[A][k].pc = "answer" /\ wire[k][A] # <<>>
               \/ w[A][k].pc \in {"test", "assign", "check", "aborted", "complete"}
               \/ w[A][k].pc = "gone" /\ outcome[A][k] = "aborted"

(* Where the sender may be, for each place of the receiver.                *)
Sized(k)    == w[A][k].left = w[B][k].left /\ w[A][k].blocks = 0
InStepNone(k) == w[B][k].pc = "none" =>
  /\ w[A][k].left = Len(files) /\ Ahead(k) /\ w[A][k].pc \notin {"progress", "body"}
  /\ wire[k][B] # <<>> /\ wire[k][B][1] = <<"count", Len(files)>> /\ Rest(k, 2, 0)
InStepAsk(k) == w[B][k].pc = "ask" => Ahead(k) /\ w[A][k].left = w[B][k].left /\ Rest(k, 1, 0)
InStepAnswer(k) == w[B][k].pc \in {"test", "assign", "answer"} => w[A][k].pc = "answer" /\ Sized(k)
InStepHeader(k) == w[B][k].pc \in {"check", "header"} =>
  \/ Deciding(k) /\ (Active(A, k) => Sized(k))
  \/ /\ Ahead(k) /\ w[A][k].left + 1 = w[B][k].left
     /\ w[B][k].pc = "check" => w[B][k].state = "Continue"
     /\ wire[k][B] # <<>> /\ wire[k][B][1][1] = "file" /\ Rest(k, 2, wire[k][B][1][2])
InStepFile(k) == w[B][k].pc \in {"progress", "body"} =>
  Ahead(k) /\ w[A][k].left = w[B][k].left /\ Rest(k, 1, w[B][k].blocks)
InStepEnd(k) ==
  /\ w[B][k].pc = "failed" \/ (w[B][k].pc = "gone" /\ outcome[B][k] = "failed") =>
       w[A][k].pc \in {"complete", "gone"} /\ outcome[A][k] = "aborted"
  /\ w[B][k].pc = "gone" /\ outcome[B][k] = "ok" =>
       Ahead(k) /\ w[A][k].pc # "answer" /\ w[A][k].left = 0 /\ w[A][k].blocks = 0
  /\ w[B][k].pc \in {"aborted", "complete"} \/ (w[B][k].pc = "gone" /\ outcome[B][k] = "aborted") =>
       Deciding(k)
InStep(k) == /\ InStepNone(k) /\ InStepAsk(k) /\ InStepAnswer(k) /\ InStepHeader(k)
             /\ InStepFile(k) /\ InStepEnd(k)
StepInv(k) == w[A][k].pc # "none" =>
  w[A][k].pc \notin {"failed", "broken"} /\ w[B][k].pc # "broken" /\ InStep(k)

CalmInv == Undisturbed => PlaceInv /\ \A k \in Transfers : StepInv(k)
AgreeInv == BookInv /\ AskedInv /\ HeardInv /\ CalmInv /\ \A k \in Transfers : TalkInv(k)
-----------------------------------------------------------------------------
(* The other steps of a worker.                                            *)
LEMMA WorkerAtWork ==
  ASSUME NEW x \in Peers, NEW k \in Transfers, WorkerDoes(x, k)
  PROVE  \/ Reports(x, k)
         \/ /\ AppSame /\ closed' = closed /\ Active(x, k) /\ Active(x, k)'
<1>1. CASE x = A /\ (AskDoes(k) \/ WriteHeaderDoes(k) \/ WriteBlockDoes(k))
  BY <1>1 DEF AskDoes, WriteHeaderDoes, WriteBlockDoes, StepsTo, Becomes, Sent, Active
<1>2. CASE x = B /\ (AnswerDoes(k) \/ CloseFileDoes(k))
  BY <1>2 DEF AnswerDoes, CloseFileDoes, StepsTo, Becomes, Sent, NetSame, Active
<1>3. CASE x = B /\ (ReadHeaderDoes(k) \/ ReadBlockDoes(k))
  BY <1>3 DEF ReadHeaderDoes, ReadBlockDoes, StepsTo, Becomes, Got, Active
<1>4. CASE ReadStateDoes(x, k)
  BY <1>4 DEF ReadStateDoes, Becomes, Got, Active
<1>5. CASE TestDoes(x, k) \/ CheckDoes(x, k)
  BY <1>5 DEF TestDoes, CheckDoes, StepsTo, Becomes, NetSame, Tested, Active
<1>6. CASE AssignDoes(x, k)
  BY <1>6 DEF AssignDoes, Becomes, NetSame, Tested, Active
<1>7. CASE BreaksDoes(x, k)
  BY <1>7 DEF BreaksDoes, StepsTo, Becomes, NetSame, Active
<1>8. CASE ProgressDoes(x, k)
  BY <1>8 DEF ProgressDoes, StepsTo, Becomes, NetSame, Active
<1>9. QED
  BY <1>1, <1>2, <1>3, <1>4, <1>5, <1>6, <1>7, <1>8 DEF WorkerDoes
-----------------------------------------------------------------------------
(* B is asked once.                                                        *)
LEMMA AskedQuiet ==
  ASSUME AskedInv, n \in Nat, n' \in Nat, n =< n', asking \in Nat, dgrams[B] \in Seq(Datagrams),
         dgrams'[B] = dgrams[B], \A k \in Transfers : w[B][k].pc = "none" => w'[B][k].pc = "none",
         Asking' => Asking /\ asking' = asking /\ asking \in Transfers
  PROVE  AskedInv'
<1>1. ASSUME NEW i \in 1 .. Len(dgrams'[B]), dgrams'[B][i].kind = "step0"
      PROVE  /\ dgrams'[B][i].of =< n' /\ w'[B][dgrams'[B][i].of].pc = "none"
             /\ Asking' => dgrams'[B][i].of # asking'
             /\ \A j \in 1 .. Len(dgrams'[B]) : dgrams'[B][j] = dgrams'[B][i] => j = i
  <2>1. dgrams[B][i].of \in Transfers /\ dgrams[B][i].of \in Nat
    <3>1. dgrams[B][i] \in Datagrams
      BY ElementOfSeq
    <3>2. QED
      BY <3>1 DEF Datagrams, Transfers
  <2>2. /\ dgrams[B][i].of =< n /\ w[B][dgrams[B][i].of].pc = "none"
        /\ Asking => dgrams[B][i].of # asking
        /\ \A j \in 1 .. Len(dgrams[B]) : dgrams[B][j] = dgrams[B][i] => j = i
    BY <1>1 DEF AskedInv
  <2>3. dgrams'[B][i].of =< n'
    BY <2>1, <2>2
  <2>4. QED
    BY <2>1, <2>2, <2>3
<1>2. ASSUME Asking' PROVE asking' =< n' /\ w'[B][asking'].pc = "none"
  BY <1>2 DEF AskedInv
<1>3. QED
  BY <1>1, <1>2 DEF AskedInv

LEMMA AskedTail ==
  ASSUME AskedInv, Take(B), dgrams[B] \in Seq(Datagrams), n' = n, w' = w,
         B \in DOMAIN dgrams,
         Asking' => \/ Asking /\ asking' = asking
                    \/ Head(dgrams[B]).kind = "step0" /\ asking' = Head(dgrams[B]).of
  PROVE  AskedInv'
<1>1. dgrams[B] # <<>> /\ dgrams'[B] = Tail(dgrams[B])
  BY DEF Take
<1>2. /\ Len(dgrams[B]) \in Nat \ {0} /\ Len(dgrams'[B]) = Len(dgrams[B]) - 1
      /\ \A i \in 1 .. Len(dgrams'[B]) : dgrams'[B][i] = dgrams[B][i + 1]
      /\ Head(dgrams[B]) = dgrams[B][1]
  BY <1>1, HeadTailProperties, LenProperties, EmptySeq
<1>3. ASSUME NEW i \in 1 .. Len(dgrams'[B]), dgrams'[B][i].kind = "step0"
      PROVE  /\ dgrams'[B][i].of =< n' /\ w'[B][dgrams'[B][i].of].pc = "none"
             /\ Asking' => dgrams'[B][i].of # asking'
             /\ \A j \in 1 .. Len(dgrams'[B]) : dgrams'[B][j] = dgrams'[B][i] => j = i
  <2>1. i + 1 \in 1 .. Len(dgrams[B]) /\ dgrams[B][i + 1] = dgrams'[B][i] /\ 1 \in 1 .. Len(dgrams[B])
    BY <1>2
  <2>2. /\ dgrams[B][i + 1].of =< n /\ w[B][dgrams[B][i + 1].of].pc = "none"
        /\ Asking => dgrams[B][i + 1].of # asking
        /\ \A j \in 1 .. Len(dgrams[B]) : dgrams[B][j] = dgrams[B][i + 1] => j = i + 1
    BY <1>3, <2>1 DEF AskedInv
  <2>3. dgrams[B][1] # dgrams[B][i + 1]
    BY <2>1, <2>2
  <2>4. ASSUME dgrams[B][1].kind = "step0" PROVE dgrams[B][1].of # dgrams[B][i + 1].of
    <3>1. dgrams[B][1] \in Datagrams /\ dgrams[B][i + 1] \in Datagrams
      BY <2>1, ElementOfSeq
    <3>2. QED
      BY <1>3, <2>1, <2>3, <2>4, <3>1 DEF Datagrams
  <2>5. ASSUME NEW j \in 1 .. Len(dgrams'[B]), dgrams'[B][j] = dgrams'[B][i] PROVE j = i
    <3>1. j + 1 \in 1 .. Len(dgrams[B]) /\ dgrams[B][j + 1] = dgrams[B][i + 1]
      BY <1>2, <2>1, <2>5
    <3>2. j + 1 = i + 1
      BY <2>2, <3>1
    <3>3. QED
      BY <3>2
  <2>6. QED
    BY <1>2, <2>1, <2>2, <2>4, <2>5
<1>4. ASSUME Asking' PROVE asking' =< n' /\ w'[B][asking'].pc = "none"
  <2>1. 1 \in 1 .. Len(dgrams[B])
    BY <1>2
  <2>2. QED
    BY <1>2, <1>4, <2>1 DEF AskedInv
<1>5. QED
  BY <1>3, <1>4 DEF AskedInv

(* What SendFiles adds is about a transfer that nobody has heard of; what  *)
(* follows an answer asks nothing.                                         *)
LEMMA AskedMore ==
  ASSUME AskedInv, n \in Nat, n' \in Nat, n =< n', asking \in Nat, dgrams[B] \in Seq(Datagrams),
         NEW m \in Nat, NEW s \in Seq(Datagrams), Len(s) = m, dgrams'[B] = dgrams[B] \o s, w' = w,
         ui'[B] = ui[B], asking' = asking,
         \A i \in 1 .. m : s[i].kind = "step0" =>
           s[i].of > n /\ s[i].of =< n' /\ w[B][s[i].of].pc = "none" /\ m = 1
  PROVE  AskedInv'
<1> DEFINE d == dgrams[B]
           e == dgrams'[B]
<1>1. /\ Len(d) \in Nat /\ Len(e) = Len(d) + m
      /\ \A i \in 1 .. Len(d) : e[i] = d[i]
      /\ \A i \in 1 .. m : e[Len(d) + i] = s[i]
  <2>1. d \in Seq(Datagrams) /\ e = d \o s
    OBVIOUS
  <2> HIDE DEF d, e
  <2>2. e \in Seq(Datagrams) /\ Len(e) = Len(d) + Len(s) /\ Len(d) \in Nat
    BY <2>1, ConcatProperties, LenProperties
  <2>3. ASSUME NEW i \in 1 .. Len(e) PROVE e[i] = IF i =< Len(d) THEN d[i] ELSE s[i - Len(d)]
    BY <2>1, <2>2, ConcatProperties
  <2>4. ASSUME NEW i \in 1 .. m PROVE e[Len(d) + i] = s[i]
    <3>1. Len(d) + i \in 1 .. Len(e) /\ ~(Len(d) + i =< Len(d)) /\ (Len(d) + i) - Len(d) = i
      BY <2>2
    <3>2. QED
      BY <2>3, <3>1
  <2>5. ASSUME NEW i \in 1 .. Len(d) PROVE e[i] = d[i]
    <3>1. i \in 1 .. Len(e) /\ i =< Len(d)
      BY <2>2
    <3>2. QED
      BY <2>3, <3>1
  <2>6. QED
    BY <2>2, <2>4, <2>5
<1>2. Asking' <=> Asking
  BY DEF Asking
<1>3. ASSUME NEW i \in 1 .. Len(e)
      PROVE  \/ i \in 1 .. Len(d) /\ e[i] = d[i]
             \/ i - Len(d) \in 1 .. m /\ e[i] = s[i - Len(d)] /\ i \notin 1 .. Len(d)
  <2>1. i \in 1 .. Len(d) \/ (i - Len(d) \in 1 .. m /\ i \notin 1 .. Len(d))
    BY <1>1
  <2>2. i = Len(d) + (i - Len(d))
    BY <1>1
  <2>3. QED
    BY <1>1, <2>1, <2>2
<1> HIDE DEF d, e
<1>4. \A i \in 1 .. Len(d) : d[i].kind = "step0" =>
        /\ d[i].of =< n /\ w[B][d[i].of].pc = "none"
        /\ Asking => d[i].of # asking
        /\ \A j \in 1 .. Len(d) : d[j] = d[i] => j = i
  BY DEF AskedInv, d
<1>5. \A i \in 1 .. Len(d) : d[i].of \in Nat
  <2>1. d \in Seq(Datagrams)
    BY DEF d
  <2>2. \A i \in 1 .. Len(d) : d[i] \in Datagrams
    BY <2>1, ElementOfSeq
  <2>3. \A i \in 1 .. Len(d) : d[i].of \in Transfers
    BY <2>2 DEF Datagrams
  <2>4. QED
    BY <2>3 DEF Transfers
<1>6. \A i \in 1 .. m : s[i].of \in Nat
  <2>1. \A i \in 1 .. m : s[i] \in Datagrams
    BY ElementOfSeq
  <2>2. QED
    BY <2>1 DEF Datagrams, Transfers
<1>7. ASSUME NEW i \in 1 .. Len(e), e[i].kind = "step0"
      PROVE  /\ e[i].of =< n' /\ w[B][e[i].of].pc = "none"
             /\ Asking => e[i].of # asking
             /\ \A j \in 1 .. Len(e) : e[j] = e[i] => j = i
  <2>1. CASE i \in 1 .. Len(d) /\ e[i] = d[i]
    <3>1. /\ d[i].of =< n /\ w[B][d[i].of].pc = "none" /\ d[i].of \in Nat
          /\ Asking => d[i].of # asking
          /\ \A j \in 1 .. Len(d) : d[j] = d[i] => j = i
      BY <1>4, <1>5, <1>7, <2>1
    <3>2. ASSUME NEW j \in 1 .. Len(e), e[j] = e[i] PROVE j = i
      <4>1. ASSUME j - Len(d) \in 1 .. m, e[j] = s[j - Len(d)] PROVE FALSE
        <5>1. s[j - Len(d)].kind = "step0" /\ s[j - Len(d)].of = d[i].of
          BY <2>1, <1>7, <3>2, <4>1
        <5>2. s[j - Len(d)].of > n
          BY <4>1, <5>1
        <5>3. QED
          BY <3>1, <5>1, <5>2
      <4>2. QED
        BY <1>3, <2>1, <3>1, <3>2, <4>1
    <3>3. d[i].of =< n'
      BY <3>1
    <3>4. QED
      BY <2>1, <3>1, <3>2, <3>3
  <2>2. CASE i - Len(d) \in 1 .. m /\ e[i] = s[i - Len(d)] /\ i \notin 1 .. Len(d)
    <3> DEFINE h == i - Len(d)
    <3>1. s[h].of > n /\ s[h].of =< n' /\ w[B][s[h].of].pc = "none" /\ m = 1 /\ s[h].of \in Nat
      BY <1>6, <1>7, <2>2
    <3>2. ASSUME NEW j \in 1 .. Len(e), e[j] = e[i] PROVE j = i
      <4>1. ASSUME j \in 1 .. Len(d), e[j] = d[j] PROVE FALSE
        <5>1. d[j].kind = "step0" /\ d[j].of = s[h].of
          BY <1>7, <2>2, <3>2, <4>1
        <5>2. d[j].of =< n /\ d[j].of \in Nat
          BY <1>4, <1>5, <4>1, <5>1
        <5>3. QED
          BY <3>1, <5>1, <5>2
      <4>2. j - Len(d) \in 1 .. m
        BY <1>3, <4>1
      <4>3. QED
        BY <1>1, <2>2, <3>1, <4>2 DEF d, e
    <3>3. Asking => asking =< n
      BY DEF AskedInv
    <3>4. Asking => s[h].of # asking
      BY <3>1, <3>3
    <3>5. QED
      BY <2>2, <3>1, <3>2, <3>4
  <2>3. QED
    BY <1>3, <2>1, <2>2
<1>8. Asking => asking =< n' /\ w[B][asking].pc = "none"
  BY DEF AskedInv
<1>9. QED
  BY <1>2, <1>7, <1>8 DEF AskedInv, e

LEMMA AskedStep ==
  ASSUME BookInv, AskedInv, HeardInv, Next
  PROVE  AskedInv'
<1> USE Peer
<1>1. TypeInv /\ TypeInv' /\ FreshInv /\ \A k \in Transfers : WholeInv(k)
  BY TypeStep DEF BookInv
<1>2. /\ n \in Nat /\ n' \in Nat /\ asking \in Nat /\ dgrams[B] \in Seq(Datagrams) /\ B \in DOMAIN dgrams
      /\ Asking => asking \in Transfers
  BY <1>1 DEF TypeInv, UiType, Transfers, Asking
<1>3. ui \in [Peers -> UiStates]
  BY <1>1 DEF TypeInv, UiType, UiStates
<1>4. ASSUME dgrams'[B] = dgrams[B], n =< n', \A k \in Transfers : w[B][k].pc = "none" => w'[B][k].pc = "none",
             Asking' => Asking /\ asking' = asking
      PROVE  AskedInv'
  BY <1>2, <1>4, AskedQuiet
<1>5. Cases
  BY <1>1, StepCases
<1>6. CASE SendFiles
  <2> DEFINE d == Datagram("step0", n')
             s == <<d>>
  <2>1. /\ n' = n + 1 /\ n' \in Transfers /\ w' = w /\ asking' = asking /\ ui' = [ui EXCEPT ![A] = "reply"]
        /\ dgrams' = [dgrams EXCEPT ![B] = Append(dgrams[B], d)]
    BY <1>2, <1>6, FTAssumption DEF SendFiles, UiGoes, Transfers
  <2>2. dgrams'[B] = Append(dgrams[B], d) /\ ui'[B] = ui[B]
    BY <1>2, <1>3, <2>1
  <2>3. d \in Datagrams /\ d.kind = "step0" /\ d.of = n'
    BY <2>1 DEF Datagram, Datagrams
  <2>4. w[B][n'].pc = "none"
    BY <1>1, <1>2, <2>1 DEF FreshInv, WholeInv, StartInv
  <2> HIDE DEF d
  <2>5. s \in Seq(Datagrams) /\ Len(s) = 1 /\ s[1] = d
    BY <2>3
  <2>6. dgrams'[B] = dgrams[B] \o s
    BY <1>2, <2>2, <2>3, AppendIsConcat
  <2>7. \A i \in 1 .. 1 : s[i].kind = "step0" =>
          s[i].of > n /\ s[i].of =< n' /\ w[B][s[i].of].pc = "none" /\ 1 = 1
    BY <1>2, <2>1, <2>3, <2>4, <2>5
  <2>8. n =< n'
    BY <1>2, <2>1
  <2> HIDE DEF s
  <2>9. QED
    BY <1>2, <2>1, <2>2, <2>5, <2>6, <2>7, <2>8, AskedMore
<1>7. CASE Answered
  <2> DEFINE d1 == Datagram("step2", n)
             d2 == Datagram("port", n)
             s == <<d1, d2>>
  <2>1. /\ n' = n /\ n \in Transfers /\ w' = w /\ asking' = asking /\ ui' = [ui EXCEPT ![A] = "accept"]
        /\ dgrams' = [dgrams EXCEPT ![A] = Tail(dgrams[A]), ![B] = dgrams[B] \o s]
    BY <1>1, <1>7 DEF Answered, UiGoes, TypeInv, UiType
  <2>2. dgrams'[B] = dgrams[B] \o s /\ ui'[B] = ui[B]
    BY <1>1, <1>3, <2>1 DEF TypeInv, UiType
  <2>3. d1 \in Datagrams /\ d2 \in Datagrams /\ d1.kind = "step2" /\ d2.kind = "port"
    BY <2>1 DEF Datagram, Datagrams
  <2> HIDE DEF d1, d2
  <2>4. s \in Seq(Datagrams) /\ Len(s) = 2 /\ s[1] = d1 /\ s[2] = d2
    BY <2>3
  <2>5. \A i \in 1 .. 2 : s[i].kind # "step0"
    BY <2>3, <2>4
  <2> HIDE DEF s
  <2>6. n =< n'
    BY <1>2, <2>1
  <2>7. QED
    BY <1>2, <2>1, <2>2, <2>4, <2>5, <2>6, AskedMore
<1>8. CASE Handshake /\ ~SendFiles /\ ~Answered
  <2>1. n' = n /\ w' = w
    BY <1>8 DEF Handshake, ReplyTimesOut, Found, Refuse, Failure, HandlerEnds, Agree, Step2, Step2TimesOut, Port,
       Folder, Lose, Hears, Completes, Ignored, Dropped, EndReceiveWaits
  <2>2. CASE ReplyTimesOut \/ Refuse \/ Failure \/ Agree \/ Step2TimesOut \/ Folder \/ Lose(A)
    <3>1. dgrams'[B] = dgrams[B] /\ asking' = asking
      BY <1>1, <2>2 DEF ReplyTimesOut, Refuse, Failure, HandlerEnds, Agree, Step2TimesOut, Folder, Lose, Take, TypeInv,
         UiType, net, app
    <3>2. Asking' => Asking
      BY <1>3, <2>2 DEF ReplyTimesOut, Refuse, Failure, HandlerEnds, Agree, Step2TimesOut, Folder, Lose, UiGoes, app,
         Asking
    <3>3. QED
      BY <1>2, <1>4, <2>1, <3>1, <3>2
  <2>3. CASE Step2 \/ Port \/ Lose(B) \/ (Completes(B) /\ Take(B))
    <3>1. Take(B)
      BY <2>3 DEF Step2, Port, Receive, Lose
    <3>2. asking' = asking /\ (Asking' => Asking)
      BY <1>3, <2>3 DEF Step2, Port, Lose, Completes, UiGoes, app, Asking
    <3>3. QED
      BY <1>2, <2>1, <3>1, <3>2, AskedTail
  <2>4. CASE Found
    <3>1. /\ dgrams' = dgrams /\ ui'[B] = "dialog" /\ asking' = field[B].of /\ field[B].kind = "step0"
      BY <1>3, <2>4 DEF Found, UiGoes, net
    <3>2. QED
      BY <2>1, <3>1 DEF AskedInv, HeardInv, Asking
  <2>5. ASSUME NEW x \in Peers, Hears(x), dgrams' = dgrams PROVE AskedInv'
    <3>1. asking' = asking /\ (ui' = ui \/ \E to \in {"loop", "receive"} : ui' = [ui EXCEPT ![x] = to])
      BY <2>5 DEF Hears, Completes, Ignored, Dropped, EndReceiveWaits, UiGoes, app
    <3>2. Asking' => Asking
      BY <1>3, <3>1 DEF Asking
    <3>3. QED
      BY <1>2, <1>4, <2>1, <2>5, <3>1, <3>2
  <2>6. ASSUME NEW x \in Peers, Hears(x), dgrams' # dgrams PROVE Completes(B) /\ Take(B)
    BY <2>6 DEF Hears, Completes, Ignored, Dropped, EndReceiveWaits, net
  <2>7. QED
    BY <1>8, <2>2, <2>3, <2>4, <2>5, <2>6 DEF Handshake
<1>9. CASE Closing
  <2>1. /\ UNCHANGED <<n, asking, dgrams, w>> /\ \E x \in Peers : ui' = [ui EXCEPT ![x] = "dead"]
    BY <1>1, <1>9, ClosingKeeps
  <2>2. Asking' => Asking
    BY <1>3, <2>1 DEF Asking
  <2>3. QED
    BY <1>2, <1>4, <2>1, <2>2
<1>10. CASE AcceptDoes
  <2>1. /\ UNCHANGED <<n, asking, dgrams>> /\ ui'[B] = ui[B]
        /\ \A k \in Transfers : w'[B][k] = w[B][k]
    BY <1>3, <1>10 DEF AcceptDoes, Becomes, Others
  <2>2. QED
    BY <1>2, <1>4, <2>1 DEF Asking
<1>11. CASE CountDoes
  <2>1. /\ Asking /\ asking \in Transfers /\ n' = n /\ dgrams' = dgrams /\ ~Asking'
        /\ Others(B, asking)
    BY <1>3, <1>11 DEF CountDoes, Asking, Becomes
  <2>2. ASSUME NEW i \in 1 .. Len(dgrams[B]), dgrams[B][i].kind = "step0"
        PROVE  w'[B][dgrams[B][i].of].pc = "none"
    <3>1. dgrams[B][i].of # asking /\ w[B][dgrams[B][i].of].pc = "none"
      BY <2>1, <2>2 DEF AskedInv
    <3>2. dgrams[B][i] \in Datagrams
      BY <1>2, ElementOfSeq
    <3>3. QED
      BY <2>1, <3>1, <3>2 DEF Others, Datagrams
  <2>3. QED
    BY <2>1, <2>2 DEF AskedInv
<1>12. ASSUME NEW x \in Peers, CancelDoes(x) PROVE AskedInv'
  <2>1. AppSame /\ \A k \in Transfers : w'[B][k].pc = w[B][k].pc
    BY <1>12 DEF CancelDoes, Becomes, Others
  <2>2. QED
    BY <1>2, <1>4, <2>1 DEF AppSame, app, Asking
<1>13. ASSUME NEW x \in Peers, NEW k \in Transfers, WorkerDoes(x, k) PROVE AskedInv'
  <2>1. \A j \in Transfers : x # B \/ j # k => w'[B][j] = w[B][j]
    BY <1>13, Alone DEF Others
  <2>2. w[x][k].pc # "none"
    <3>1. CASE Reports(x, k)
      BY <3>1 DEF Reports, AbortedDoes, CompletedDoes, FailedDoes
    <3>2. QED
      BY <1>13, <3>1 DEF WorkerDoes, AskDoes, WriteHeaderDoes, WriteBlockDoes, AnswerDoes, ReadHeaderDoes,
         ReadBlockDoes, CloseFileDoes, ReadStateDoes, TestDoes, AssignDoes, CheckDoes, BreaksDoes, ProgressDoes
  <2>3. \A j \in Transfers : w[B][j].pc = "none" => w'[B][j].pc = "none"
    BY <2>1, <2>2
  <2>4. n' = n /\ asking' = asking /\ dgrams' = dgrams /\ (ui' = ui \/ ui' = [ui EXCEPT ![x] = "dead"])
    <3>1. CASE Reports(x, k)
      BY <3>1 DEF Reports, AbortedDoes, CompletedDoes, FailedDoes, ReportDoes
    <3>2. CASE AppSame
      BY <3>2 DEF AppSame, app
    <3>3. QED
      BY <1>13, <3>1, <3>2 DEF WorkerDoes, AskDoes, WriteHeaderDoes, WriteBlockDoes, AnswerDoes, ReadHeaderDoes,
         ReadBlockDoes, CloseFileDoes, ReadStateDoes, TestDoes, AssignDoes, CheckDoes, BreaksDoes, ProgressDoes
  <2>5. Asking' => Asking
    BY <1>3, <2>4 DEF Asking
  <2>6. QED
    BY <1>2, <1>4, <2>3, <2>4, <2>5
<1>14. QED
  BY <1>5, <1>6, <1>7, <1>8, <1>9, <1>10, <1>11, <1>12, <1>13 DEF Cases

(* What the receive has got is about a transfer that B has not heard of.   *)
LEMMA HeardKept ==
  ASSUME TypeInv, HeardInv, n =< n', n' \in Nat, \A k \in Transfers : w[B][k].pc = "none" => w'[B][k].pc = "none",
         field'[B].kind = "step0" => field'[B] = field[B],
         Asking' => Asking /\ asking' = asking,
         \A i \in 1 .. Len(dgrams'[B]) : dgrams'[B][i].kind = "step0" =>
           \/ \E j \in 1 .. Len(dgrams[B]) : dgrams[B][j] = dgrams'[B][i]
           \/ dgrams'[B][i].of > n
  PROVE  HeardInv'
<1> SUFFICES ASSUME field'[B].kind = "step0" PROVE HeardInv'
  BY DEF HeardInv
<1>1. field[B] \in Receives /\ field[B].kind = "step0" /\ field'[B] = field[B]
  BY Peer DEF TypeInv, ListenType
<1>2. field[B].of \in Transfers /\ field[B].of \in Nat /\ n \in Nat
  BY <1>1, FTAssumption DEF Receives, Datagrams, Datagram, Pending, Done, Transfers, TypeInv, UiType
<1>3. /\ field[B].of =< n /\ w[B][field[B].of].pc = "none" /\ (Asking => field[B].of # asking)
      /\ \A i \in 1 .. Len(dgrams[B]) : dgrams[B][i].kind = "step0" => dgrams[B][i].of # field[B].of
  BY <1>1 DEF HeardInv
<1>4. field'[B].of =< n'
  BY <1>1, <1>2, <1>3
<1>5. ASSUME NEW i \in 1 .. Len(dgrams'[B]), dgrams'[B][i].kind = "step0" PROVE dgrams'[B][i].of # field[B].of
  BY <1>2, <1>3, <1>5
<1>6. QED
  BY <1>1, <1>2, <1>3, <1>4, <1>5 DEF HeardInv

LEMMA HeardTail ==
  ASSUME TypeInv, Take(B)
  PROVE  /\ 1 \in 1 .. Len(dgrams[B]) /\ Head(dgrams[B]) = dgrams[B][1] /\ dgrams[B][1] \in Datagrams
         /\ \A i \in 1 .. Len(dgrams'[B]) :
              i + 1 \in 1 .. Len(dgrams[B]) /\ dgrams[B][i + 1] = dgrams'[B][i] /\ dgrams[B][i + 1] \in Datagrams
<1>1. dgrams[B] # <<>> /\ dgrams'[B] = Tail(dgrams[B]) /\ dgrams[B] \in Seq(Datagrams)
  BY Peer DEF Take, TypeInv, UiType
<1>2. /\ Len(dgrams[B]) \in Nat \ {0} /\ Len(dgrams'[B]) = Len(dgrams[B]) - 1
      /\ \A i \in 1 .. Len(dgrams'[B]) : dgrams'[B][i] = dgrams[B][i + 1]
      /\ Head(dgrams[B]) = dgrams[B][1]
  BY <1>1, HeadTailProperties, LenProperties, EmptySeq
<1>3. \A i \in 1 .. Len(dgrams[B]) : dgrams[B][i] \in Datagrams
  BY <1>1, ElementOfSeq
<1>4. QED
  BY <1>2, <1>3

LEMMA HeardMore ==
  ASSUME TypeInv, NEW s \in Seq(Datagrams), dgrams'[B] = dgrams[B] \o s,
         \A i \in 1 .. Len(s) : s[i].kind = "step0" => s[i].of > n
  PROVE  \A i \in 1 .. Len(dgrams'[B]) : dgrams'[B][i].kind = "step0" =>
           \/ \E j \in 1 .. Len(dgrams[B]) : dgrams[B][j] = dgrams'[B][i]
           \/ dgrams'[B][i].of > n
<1>1. dgrams[B] \in Seq(Datagrams)
  BY Peer DEF TypeInv, UiType
<1>2. Len(dgrams[B]) \in Nat /\ Len(s) \in Nat /\ Len(dgrams'[B]) = Len(dgrams[B]) + Len(s)
  BY <1>1, ConcatProperties, LenProperties
<1>3. ASSUME NEW i \in 1 .. Len(dgrams'[B])
      PROVE  dgrams'[B][i] = IF i =< Len(dgrams[B]) THEN dgrams[B][i] ELSE s[i - Len(dgrams[B])]
  BY <1>1, <1>2, ConcatProperties
<1>4. ASSUME NEW i \in 1 .. Len(dgrams'[B]), dgrams'[B][i].kind = "step0"
      PROVE  \/ \E j \in 1 .. Len(dgrams[B]) : dgrams[B][j] = dgrams'[B][i]
             \/ dgrams'[B][i].of > n
  <2>1. CASE i =< Len(dgrams[B])
    <3>1. i \in 1 .. Len(dgrams[B]) /\ dgrams'[B][i] = dgrams[B][i]
      BY <1>2, <1>3, <2>1
    <3>2. QED
      BY <3>1
  <2>2. CASE ~(i =< Len(dgrams[B]))
    <3>1. i - Len(dgrams[B]) \in 1 .. Len(s) /\ dgrams'[B][i] = s[i - Len(dgrams[B])]
      BY <1>2, <1>3, <2>2
    <3>2. QED
      BY <1>4, <3>1
  <2>3. QED
    BY <2>1, <2>2
<1>5. QED
  BY <1>4

LEMMA HeardStep ==
  ASSUME BookInv, AskedInv, HeardInv, Next
  PROVE  HeardInv'
<1> USE Peer
<1>1. TypeInv /\ TypeInv' /\ FreshInv /\ \A k \in Transfers : WholeInv(k)
  BY TypeStep DEF BookInv
<1>2. /\ n \in Nat /\ n' \in Nat /\ field \in [Peers -> Receives] /\ ui \in [Peers -> UiStates]
      /\ Pending.kind # "step0" /\ Done.kind # "step0"
  BY <1>1 DEF TypeInv, UiType, ListenType, Pending, Done, Datagram
<1>3. Cases
  BY <1>1, StepCases
<1> DEFINE Same == /\ n =< n' /\ \A k \in Transfers : w[B][k].pc = "none" => w'[B][k].pc = "none"
                   /\ field'[B] = field[B] \/ field'[B].kind # "step0"
                   /\ Asking' => Asking /\ asking' = asking
           More == \A i \in 1 .. Len(dgrams'[B]) : dgrams'[B][i].kind = "step0" =>
                     \/ \E j \in 1 .. Len(dgrams[B]) : dgrams[B][j] = dgrams'[B][i]
                     \/ dgrams'[B][i].of > n
<1>4. Same /\ More => HeardInv'
  BY <1>1, <1>2, HeardKept
<1>5. dgrams'[B] = dgrams[B] => More
  OBVIOUS
<1>6. Take(B) => More
  BY <1>1, HeardTail
<1> HIDE DEF More
<1>7. CASE SendFiles
  <2> DEFINE d == Datagram("step0", n')
             s == <<d>>
  <2>1. /\ n' = n + 1 /\ n' \in Transfers /\ w' = w /\ asking' = asking /\ field' = field
        /\ ui' = [ui EXCEPT ![A] = "reply"] /\ dgrams' = [dgrams EXCEPT ![B] = Append(dgrams[B], d)]
    BY <1>2, <1>7, FTAssumption DEF SendFiles, UiGoes, Transfers
  <2>2. d \in Datagrams /\ d.of = n'
    BY <2>1 DEF Datagram, Datagrams
  <2>3. dgrams[B] \in Seq(Datagrams) /\ dgrams'[B] = Append(dgrams[B], d)
    BY <1>1, <2>1 DEF TypeInv, UiType
  <2> HIDE DEF d
  <2>4. s \in Seq(Datagrams) /\ Len(s) = 1 /\ s[1] = d
    BY <2>2
  <2>5. dgrams'[B] = dgrams[B] \o s
    BY <2>2, <2>3, AppendIsConcat
  <2>6. \A i \in 1 .. Len(s) : s[i].kind = "step0" => s[i].of > n
    BY <1>2, <2>1, <2>2, <2>4
  <2> HIDE DEF s
  <2>7. More
    BY <1>1, <2>4, <2>5, <2>6, HeardMore DEF More
  <2>8. Same
    BY <1>2, <2>1 DEF Asking
  <2>9. QED
    BY <1>4, <2>7, <2>8
<1>8. CASE Answered
  <2> DEFINE d1 == Datagram("step2", n)
             d2 == Datagram("port", n)
             s == <<d1, d2>>
  <2>1. /\ n' = n /\ n \in Transfers /\ w' = w /\ asking' = asking /\ field' = field
        /\ ui' = [ui EXCEPT ![A] = "accept"]
        /\ dgrams' = [dgrams EXCEPT ![A] = Tail(dgrams[A]), ![B] = dgrams[B] \o s]
    BY <1>1, <1>8 DEF Answered, UiGoes, listen, TypeInv, UiType
  <2>2. dgrams'[B] = dgrams[B] \o s
    BY <1>1, <2>1 DEF TypeInv, UiType
  <2>3. d1 \in Datagrams /\ d2 \in Datagrams /\ d1.kind = "step2" /\ d2.kind = "port"
    BY <2>1 DEF Datagram, Datagrams
  <2> HIDE DEF d1, d2
  <2>4. s \in Seq(Datagrams) /\ Len(s) = 2 /\ s[1] = d1 /\ s[2] = d2
    BY <2>3
  <2>5. \A i \in 1 .. Len(s) : s[i].kind = "step0" => s[i].of > n
    BY <2>3, <2>4
  <2> HIDE DEF s
  <2>6. More
    BY <1>1, <2>2, <2>4, <2>5, HeardMore DEF More
  <2>7. Same
    BY <1>2, <2>1 DEF Asking
  <2>8. QED
    BY <1>4, <2>6, <2>7
<1>9. ASSUME NEW x \in Peers, Hears(x) PROVE HeardInv'
  <2>1. CASE x = B /\ Completes(B)
    <3>0. Take(B)
      BY <2>1 DEF Completes
    <3>1. /\ n' = n /\ w' = w /\ ui' = ui /\ asking' = asking /\ field' = [field EXCEPT ![B] = Head(dgrams[B])]
      BY <2>1 DEF Completes, app
    <3>2. field'[B] = dgrams[B][1] /\ 1 \in 1 .. Len(dgrams[B])
      BY <1>1, <1>2, <3>0, <3>1, HeardTail
    <3>3. SUFFICES ASSUME dgrams[B][1].kind = "step0" PROVE HeardInv'
      BY <3>2 DEF HeardInv
    <3>4. /\ dgrams[B][1].of =< n /\ w[B][dgrams[B][1].of].pc = "none" /\ (Asking => dgrams[B][1].of # asking)
      BY <3>2, <3>3 DEF AskedInv
    <3>5. ASSUME NEW i \in 1 .. Len(dgrams'[B]), dgrams'[B][i].kind = "step0"
          PROVE  dgrams'[B][i].of # dgrams[B][1].of
      <4>1. /\ i + 1 \in 1 .. Len(dgrams[B]) /\ dgrams[B][i + 1] = dgrams'[B][i]
            /\ dgrams[B][i + 1] \in Datagrams /\ dgrams[B][1] \in Datagrams
        BY <1>1, <3>0, HeardTail
      <4>2. dgrams[B][i + 1] # dgrams[B][1]
        BY <3>2, <3>3, <4>1 DEF AskedInv
      <4>3. QED
        BY <3>3, <3>5, <4>1, <4>2 DEF Datagrams
    <3>6. QED
      BY <3>1, <3>2, <3>4, <3>5 DEF HeardInv, Asking
  <2>2. CASE ~(x = B /\ Completes(B))
    <3>1. /\ n' = n /\ w' = w /\ dgrams' = dgrams /\ asking' = asking
          /\ ui' = ui \/ \E to \in {"loop", "receive"} : ui' = [ui EXCEPT ![x] = to]
      BY <1>9, <2>2 DEF Hears, Completes, Ignored, Dropped, EndReceiveWaits, UiGoes, app, net
    <3>2. field' = field \/ field' = [field EXCEPT ![A] = Datagram("echo", 0)] \/ field' = [field EXCEPT ![x] = Pending]
      BY <1>9, <2>2 DEF Hears, Completes, Ignored, Dropped, EndReceiveWaits, Rearm
    <3>3. Same
      BY <1>2, <3>1, <3>2 DEF Asking
    <3>4. QED
      BY <1>4, <1>5, <3>1, <3>3
  <2>3. QED
    BY <2>1, <2>2
<1>10. CASE Handshake /\ ~SendFiles /\ ~Answered
  <2>1. CASE Found
    <3>1. field'[B] = Done
      BY <1>2, <2>1 DEF Found
    <3>2. QED
      BY <1>2, <3>1 DEF HeardInv
  <2>2. CASE ReplyTimesOut \/ Refuse \/ Failure \/ Agree \/ Step2 \/ Step2TimesOut \/ Port \/ Folder \/ \E x \in Peers : Lose(x)
    <3>1. n' = n /\ w' = w /\ asking' = asking /\ (field' = field \/ field' = [field EXCEPT ![B] = Pending])
      BY <2>2 DEF ReplyTimesOut, Refuse, Failure, HandlerEnds, Rearm, Agree, Step2, Step2TimesOut, Port, Folder, Lose,
         app, listen
    <3>2. Asking' => Asking
      BY <1>2, <2>2 DEF ReplyTimesOut, Refuse, Failure, HandlerEnds, Agree, Step2, Step2TimesOut, Port, Folder, Lose,
         UiGoes, app, Asking
    <3>3. dgrams'[B] = dgrams[B] \/ Take(B)
      BY <1>1, <2>2 DEF ReplyTimesOut, Refuse, Failure, HandlerEnds, Agree, Step2, Step2TimesOut, Port, Folder, Lose,
         Receive, Take, net, TypeInv, UiType
    <3>4. Same
      BY <1>2, <3>1, <3>2
    <3>5. QED
      BY <1>4, <1>5, <1>6, <3>3, <3>4
  <2>3. QED
    BY <1>9, <1>10, <2>1, <2>2 DEF Handshake
<1>11. CASE Closing
  <2>1. /\ UNCHANGED <<n, asking, dgrams, w, field>> /\ \E x \in Peers : ui' = [ui EXCEPT ![x] = "dead"]
    BY <1>1, <1>11, ClosingKeeps
  <2>2. Same
    BY <1>2, <2>1 DEF Asking
  <2>3. QED
    BY <1>4, <1>5, <2>1, <2>2
<1>12. CASE AcceptDoes
  <2>1. /\ UNCHANGED <<n, asking, dgrams, field>> /\ ui'[B] = ui[B]
        /\ \A k \in Transfers : w'[B][k] = w[B][k]
    BY <1>2, <1>12 DEF AcceptDoes, Becomes, Others
  <2>2. Same
    BY <1>2, <2>1 DEF Asking
  <2>3. QED
    BY <1>4, <1>5, <2>1, <2>2
<1>13. CASE CountDoes
  <2>1. /\ Asking /\ asking \in Transfers /\ n' = n /\ dgrams' = dgrams /\ field' = field /\ ~Asking'
        /\ Others(B, asking)
    BY <1>2, <1>13 DEF CountDoes, Asking, Becomes
  <2>2. ASSUME field[B].kind = "step0" PROVE w'[B][field[B].of].pc = "none"
    <3>1. field[B].of # asking /\ w[B][field[B].of].pc = "none"
      BY <2>1, <2>2 DEF HeardInv
    <3>2. field[B].of \in Transfers
      BY <1>2, <2>2 DEF Receives, Datagrams, Datagram, Pending, Done
    <3>3. QED
      BY <2>1, <3>1, <3>2 DEF Others
  <2>3. QED
    BY <2>1, <2>2 DEF HeardInv
<1>14. ASSUME NEW x \in Peers, CancelDoes(x) PROVE HeardInv'
  <2>1. AppSame /\ \A k \in Transfers : w'[B][k].pc = w[B][k].pc
    BY <1>14 DEF CancelDoes, Becomes, Others
  <2>2. Same /\ dgrams' = dgrams
    BY <1>2, <2>1 DEF AppSame, app, listen, Asking
  <2>3. QED
    BY <1>4, <1>5, <2>2
<1>15. ASSUME NEW x \in Peers, NEW k \in Transfers, WorkerDoes(x, k) PROVE HeardInv'
  <2>1. \A j \in Transfers : x # B \/ j # k => w'[B][j] = w[B][j]
    BY <1>15, Alone DEF Others
  <2>2. w[x][k].pc # "none" /\ (Reports(x, k) \/ AppSame)
    BY <1>15, WorkerAtWork DEF Reports, AbortedDoes, CompletedDoes, FailedDoes, Active
  <2>3. \A j \in Transfers : w[B][j].pc = "none" => w'[B][j].pc = "none"
    BY <2>1, <2>2
  <2>4. CASE AppSame
    <3>1. Same /\ dgrams' = dgrams
      BY <1>2, <2>3, <2>4 DEF AppSame, app, listen, Asking
    <3>2. QED
      BY <1>4, <1>5, <3>1
  <2>5. CASE Reports(x, k)
    <3>1. PICK to \in {"complete", "gone"} :
            /\ UNCHANGED <<n, asking, dgrams>> /\ (ui' = ui \/ ui' = [ui EXCEPT ![x] = "dead"])
            /\ IF ui[x] = "folder" THEN NullReference(to) ELSE OnTransformEnd(x, k)
      BY <2>5 DEF Reports, AbortedDoes, CompletedDoes, FailedDoes, ReportDoes
    <3>2. field' = field \/ field' = [field EXCEPT ![x] = Pending]
      BY <3>1 DEF NullReference, OnTransformEnd, Rearm
    <3>3. Same
      BY <1>2, <2>3, <3>1, <3>2 DEF Asking
    <3>4. QED
      BY <1>4, <1>5, <3>1, <3>3
  <2>6. QED
    BY <2>2, <2>4, <2>5
<1>16. QED
  BY <1>3, <1>7, <1>8, <1>9, <1>10, <1>11, <1>12, <1>13, <1>14, <1>15 DEF Cases
-----------------------------------------------------------------------------
(* Places.                                                                 *)
LEMMA CalmBefore ==
  ASSUME TypeInv, \A k \in Transfers : WholeInv(k), Next, Undisturbed'
  PROVE  Undisturbed
<1>1. late \subseteq late' /\ victim \subseteq victim' /\ (astray => astray') /\ calm' = calm
  BY StepCases, RacesStay, FilesStay
<1>2. QED
  BY <1>1 DEF Undisturbed

(* A report that closes no other transfer closes its own, if it is at work.*)
EndsOwn(x, k) ==
  /\ ui' = ui /\ closed'[k] = closed[k] \union {x}
  /\ \A j \in Transfers : j # k => closed'[j] = closed[j] /\ wire'[j] = wire[j]
  /\ wire'[k] = wire[k] \/ (Other(x) \in closed[k] /\ wire'[k] = [y \in Peers |-> <<>>])
  /\ \/ cur' = cur /\ busy' = busy /\ ~Active(x, k)
     \/ cur[x] = k /\ cur' = [cur EXCEPT ![x] = 0] /\ busy' = [busy EXCEPT ![x] = FALSE]

(* A report finds the UI thread in its message loop: in another window it  *)
(* would lead the listener astray, or close a connection too early.        *)
CalmEnd(x, k) == ui[x] = "loop" /\ OnTransformEnd(x, k)

LEMMA CalmLoop ==
  ASSUME TypeInv, PlaceInv, Undisturbed', NEW x \in Peers, NEW k \in Transfers, Reports(x, k)
  PROVE  CalmEnd(x, k)
<1> USE Peer
<1>1. PICK to \in {"complete", "gone"} :
        Pumps(x) /\ IF ui[x] = "folder" THEN NullReference(to) ELSE OnTransformEnd(x, k)
  BY DEF Reports, AbortedDoes, CompletedDoes, FailedDoes, ReportDoes
<1>2. ui[x] # "folder"
  <2>1. NullReference(to) => victim' # {}
    BY DEF NullReference
  <2>2. QED
    BY <1>1, <2>1 DEF Undisturbed
<1>3. ASSUME ui[x] \in {"dialog", "box"} PROVE FALSE
  <2>1. x = B
    BY <1>3 DEF TypeInv, UiType
  <2>2. ~busy[B] /\ field[B] = Done
    BY <1>3, <2>1 DEF PlaceInv, PlaceListen
  <2>3. field[B] # Pending
    BY <2>2 DEF Pending, Done, Datagram
  <2>4. OnTransformEnd(x, k)
    BY <1>1, <1>2
  <2>5. astray'
    BY <1>3, <2>1, <2>2, <2>3, <2>4 DEF OnTransformEnd
  <2>6. QED
    BY <2>5 DEF Undisturbed
<1>4. QED
  BY <1>1, <1>2, <1>3 DEF Pumps, CalmEnd

LEMMA CalmReport ==
  ASSUME TypeInv, PlaceInv, Undisturbed', NEW x \in Peers, NEW k \in Transfers, Reports(x, k),
         w[x][k].pc \in {"ask", "aborted", "complete", "failed"}
  PROVE  EndsOwn(x, k)
<1>0. OnTransformEnd(x, k)
  BY CalmLoop DEF CalmEnd
<1>1. CASE ~busy[x]
  <2>1. ui' = ui /\ busy' = busy /\ cur' = cur /\ closed' = closed /\ wire' = wire
    BY <1>0, <1>1 DEF OnTransformEnd
  <2>2. ~Active(x, k) /\ x \in closed[k]
    BY <1>1 DEF PlaceInv, Active
  <2>3. closed[k] = closed[k] \union {x}
    BY <2>2
  <2>4. QED
    BY <2>1, <2>2, <2>3 DEF EndsOwn
<1>2. CASE busy[x]
  <2>1. cur[x] = k
    <3>1. victim' = IF cur[x] = k THEN victim ELSE victim \union {cur[x]}
      BY <1>0, <1>2 DEF OnTransformEnd
    <3>2. QED
      BY <3>1 DEF Undisturbed
  <2>2. /\ HangUp(x, {k}) /\ cur' = [cur EXCEPT ![x] = 0] /\ busy' = [busy EXCEPT ![x] = FALSE] /\ ui' = ui
    BY <1>0, <1>2, <2>1 DEF OnTransformEnd
  <2>3. \A j \in Transfers : /\ closed'[j] = IF j \in {k} THEN closed[j] \union {x} ELSE closed[j]
                             /\ wire'[j] = IF j \in {k} /\ Other(x) \in closed[j]
                                           THEN [y \in Peers |-> <<>>] ELSE wire[j]
    BY <2>2 DEF HangUp
  <2>4. QED
    BY <2>1, <2>2, <2>3 DEF EndsOwn
<1>3. QED
  BY <1>1, <1>2

(* Where the UI threads are.                                               *)
PlaceClosed == \A x \in Peers, k \in Transfers :
  /\ x \in closed[k] <=> w[x][k].pc \in {"complete", "gone"}
  /\ Active(x, k) => cur[x] = k /\ busy[x]
PlaceUi ==
  /\ \A x \in Peers : ui[x] # "dead"
  /\ ui[A] \in {"reply", "accept"} => \A k \in Transfers : ~Active(A, k)
  /\ ui[A] = "accept" => busy[A]
  /\ Asking => \A k \in Transfers : ~Active(B, k)
  /\ ui[B] \in {"port", "folder", "count"} => busy[B]

LEMMA PlaceHandshake ==
  ASSUME TypeInv, PlaceInv, Handshake
  PROVE  PlaceClosed' /\ PlaceUi'
<1> USE Peer
<1>1. w' = w /\ closed' = closed
  BY HandshakeKeeps
<1>2. ui \in [Peers -> UiStates] /\ busy \in [Peers -> BOOLEAN]
  BY DEF TypeInv, UiType, UiStates
<1>3. PlaceClosed /\ PlaceUi
  BY DEF PlaceInv, PlaceClosed, PlaceUi
<1>4. cur' = cur
  BY DEF Handshake, SendFiles, ReplyTimesOut, Answered, Found, Refuse, Failure, HandlerEnds, Agree, Step2,
     Step2TimesOut, Port, Folder, Lose, Hears, Completes, Ignored, Dropped, EndReceiveWaits, app
<1>5. \A x \in Peers : busy[x] => busy'[x]
  BY <1>2 DEF Handshake, SendFiles, ReplyTimesOut, Answered, Found, Refuse, Failure, HandlerEnds, Agree, Step2,
     Step2TimesOut, Port, Folder, Lose, Hears, Completes, Ignored, Dropped, EndReceiveWaits, app
<1>6. PlaceClosed'
  BY <1>1, <1>3, <1>4, <1>5 DEF PlaceClosed, Active
<1>7. \A k \in Transfers, x \in Peers : Active(x, k)' <=> Active(x, k)
  BY <1>1 DEF Active
<1>8. PlaceUi'
  <2>1. CASE SendFiles
    <3>1. ui' = [ui EXCEPT ![A] = "reply"] /\ busy' = busy /\ ~busy[A]
      BY <2>1 DEF SendFiles, UiGoes
    <3>2. \A k \in Transfers : ~Active(A, k)
      BY <1>3, <3>1 DEF PlaceClosed
    <3>3. QED
      BY <1>2, <1>3, <1>7, <3>1, <3>2 DEF PlaceUi, Asking
  <2>2. CASE ReplyTimesOut
    <3>1. ui' = [ui EXCEPT ![A] = "loop"] /\ busy' = busy
      BY <2>2 DEF ReplyTimesOut, UiGoes
    <3>2. QED
      BY <1>2, <1>3, <1>7, <3>1 DEF PlaceUi, Asking
  <2>3. CASE Answered
    <3>1. ui[A] = "reply" /\ ui' = [ui EXCEPT ![A] = "accept"] /\ busy' = [busy EXCEPT ![A] = TRUE]
      BY <2>3 DEF Answered, UiGoes
    <3>2. QED
      BY <1>2, <1>3, <1>7, <3>1 DEF PlaceUi, Asking
  <2>4. CASE Found
    <3>1. ui' = [ui EXCEPT ![B] = "dialog"] /\ busy' = busy /\ ~busy[B]
      BY <2>4 DEF Found, UiGoes, PlaceInv, PlaceListen
    <3>2. \A k \in Transfers : ~Active(B, k)
      BY <1>3, <3>1 DEF PlaceClosed
    <3>3. QED
      BY <1>2, <1>3, <1>7, <3>1, <3>2 DEF PlaceUi, Asking
  <2>5. CASE Refuse \/ Failure \/ Step2TimesOut
    <3>1. (ui' = [ui EXCEPT ![B] = "loop"] \/ ui' = [ui EXCEPT ![B] = "box"]) /\ busy' = busy
      BY <2>5 DEF Refuse, Failure, HandlerEnds, Step2TimesOut, UiGoes
    <3>2. QED
      BY <1>2, <1>3, <1>7, <3>1 DEF PlaceUi, Asking
  <2>6. CASE Agree
    <3>1. ui[B] = "dialog" /\ ui' = [ui EXCEPT ![B] = "step2"] /\ busy' = busy
      BY <2>6 DEF Agree, UiGoes
    <3>2. QED
      BY <1>2, <1>3, <1>7, <3>1 DEF PlaceUi, Asking
  <2>7. CASE Step2
    <3>1. /\ ui[B] = "step2"
          /\ \/ ui' = [ui EXCEPT ![B] = "port"] /\ busy' = [busy EXCEPT ![B] = TRUE]
             \/ ui' = [ui EXCEPT ![B] = "box"] /\ busy' = busy
      BY <2>7 DEF Step2, UiGoes
    <3>2. QED
      BY <1>2, <1>3, <1>7, <3>1 DEF PlaceUi, Asking
  <2>8. CASE Port \/ Folder
    <3>1. /\ ui[B] \in {"port", "folder"} /\ busy' = busy
          /\ ui' = [ui EXCEPT ![B] = "count"] \/ ui' = [ui EXCEPT ![B] = "folder"] \/ ui' = ui
      BY <2>8 DEF Port, Folder, UiGoes
    <3>2. QED
      BY <1>2, <1>3, <1>7, <3>1 DEF PlaceUi, Asking
  <2>9. ASSUME NEW x \in Peers, Lose(x) \/ Hears(x) PROVE PlaceUi'
    <3>1. busy' = busy /\ (ui' = ui \/ \E to \in {"loop", "receive"} : ui' = [ui EXCEPT ![x] = to])
      BY <2>9 DEF Lose, Hears, Completes, Ignored, Dropped, EndReceiveWaits, UiGoes, app
    <3>2. \A y \in Peers : ui'[y] = ui[y] \/ ui'[y] \in {"loop", "receive"}
      BY <1>2, <3>1
    <3>3. Asking' => Asking
      BY <3>2 DEF Asking
    <3>4. QED
      BY <1>3, <1>7, <3>1, <3>2, <3>3 DEF PlaceUi
  <2>10. QED
    BY <2>1, <2>2, <2>3, <2>4, <2>5, <2>6, <2>7, <2>8, <2>9 DEF Handshake
<1>9. QED
  BY <1>6, <1>8

LEMMA PlaceBegins ==
  ASSUME TypeInv, FreshInv, PlaceInv, AcceptDoes
  PROVE  PlaceClosed' /\ PlaceUi'
<1> USE Peer
<1>1. /\ n \in Transfers /\ ui[A] = "accept" /\ ui' = [ui EXCEPT ![A] = "loop"]
      /\ cur' = [cur EXCEPT ![A] = n] /\ busy' = busy /\ closed' = closed
      /\ Others(A, n) /\ w'[A][n].pc = "ask" /\ n' = n
  BY DEF AcceptDoes, Becomes
<1>2. ui \in [Peers -> UiStates] /\ cur \in [Peers -> Transfers \union {0}]
  BY DEF TypeInv, UiType, UiStates
<1>3. w[A][n].pc = "none" /\ busy[A] /\ \A k \in Transfers : ~Active(A, k)
  BY <1>1 DEF FreshInv, PlaceInv
<1>4. \A x \in Peers, k \in Transfers : x # A \/ k # n => w'[x][k] = w[x][k]
  BY <1>1 DEF Others
<1>5. PlaceClosed'
  <2> SUFFICES ASSUME NEW x \in Peers, NEW k \in Transfers
               PROVE  /\ x \in closed'[k] <=> w'[x][k].pc \in {"complete", "gone"}
                      /\ Active(x, k)' => cur'[x] = k /\ busy'[x]
    BY DEF PlaceClosed
  <2>1. CASE x = A /\ k = n
    BY <1>1, <1>2, <1>3, <2>1 DEF PlaceInv
  <2>2. CASE x # A \/ k # n
    <3>1. w'[x][k] = w[x][k]
      BY <1>4, <2>2
    <3>2. x = A => ~Active(x, k)
      BY <1>3
    <3>3. x # A => cur'[x] = cur[x]
      BY <1>1, <1>2
    <3>4. QED
      BY <1>1, <3>1, <3>2, <3>3 DEF PlaceInv, Active
  <2>3. QED
    BY <2>1, <2>2
<1>6. \A k \in Transfers : Active(B, k)' <=> Active(B, k)
  BY <1>4 DEF Active
<1>7. PlaceUi'
  BY <1>1, <1>2, <1>6 DEF PlaceInv, PlaceUi, Asking
<1>8. QED
  BY <1>5, <1>7

LEMMA PlaceCounts ==
  ASSUME TypeInv, AskedInv, PlaceInv, CountDoes
  PROVE  PlaceClosed' /\ PlaceUi'
<1> USE Peer
<1>1. PICK k \in Transfers : k = asking
  BY DEF CountDoes
<1>2. /\ ui[B] = "count" /\ ui' = [ui EXCEPT ![B] = "loop"] /\ cur' = [cur EXCEPT ![B] = k]
      /\ busy' = busy /\ closed' = closed /\ Others(B, k) /\ w'[B][k].pc = "ask"
  BY <1>1 DEF CountDoes, Becomes, Got
<1>3. ui \in [Peers -> UiStates] /\ cur \in [Peers -> Transfers \union {0}]
  BY DEF TypeInv, UiType, UiStates
<1>4. w[B][k].pc = "none" /\ busy[B] /\ \A j \in Transfers : ~Active(B, j)
  BY <1>1, <1>2 DEF AskedInv, PlaceInv, Asking
<1>5. \A x \in Peers, j \in Transfers : x # B \/ j # k => w'[x][j] = w[x][j]
  BY <1>2 DEF Others
<1>6. PlaceClosed'
  <2> SUFFICES ASSUME NEW x \in Peers, NEW j \in Transfers
               PROVE  /\ x \in closed'[j] <=> w'[x][j].pc \in {"complete", "gone"}
                      /\ Active(x, j)' => cur'[x] = j /\ busy'[x]
    BY DEF PlaceClosed
  <2>1. CASE x = B /\ j = k
    BY <1>2, <1>3, <1>4, <2>1 DEF PlaceInv
  <2>2. CASE x # B \/ j # k
    <3>1. w'[x][j] = w[x][j]
      BY <1>5, <2>2
    <3>2. x = B => ~Active(x, j)
      BY <1>4
    <3>3. x # B => cur'[x] = cur[x]
      BY <1>2, <1>3
    <3>4. QED
      BY <1>2, <3>1, <3>2, <3>3 DEF PlaceInv, Active
  <2>3. QED
    BY <2>1, <2>2
<1>7. \A j \in Transfers : Active(A, j)' <=> Active(A, j)
  BY <1>5 DEF Active
<1>8. PlaceUi'
  BY <1>2, <1>3, <1>7 DEF PlaceInv, PlaceUi, Asking
<1>9. QED
  BY <1>6, <1>8

LEMMA PlaceCancels ==
  ASSUME TypeInv, PlaceInv, NEW x \in Peers, CancelDoes(x)
  PROVE  PlaceClosed' /\ PlaceUi'
<1>1. AppSame /\ closed' = closed
  BY DEF CancelDoes, NetSame
<1>2. \A y \in Peers, k \in Transfers : w'[y][k].pc = w[y][k].pc
  BY DEF CancelDoes, Becomes, Others
<1>3. \A y \in Peers, k \in Transfers : Active(y, k)' <=> Active(y, k)
  BY <1>2 DEF Active
<1>4. QED
  BY <1>1, <1>2, <1>3, Peer DEF PlaceInv, PlaceClosed, PlaceUi, AppSame, app, Asking

LEMMA PlaceWorks ==
  ASSUME TypeInv, PlaceInv, Undisturbed', NEW x \in Peers, NEW k \in Transfers, WorkerDoes(x, k),
         w[x][k].pc \notin {"none", "broken"}
  PROVE  PlaceClosed' /\ PlaceUi'
<1> USE Peer
<1>1. \A y \in Peers, j \in Transfers : y # x \/ j # k => w'[y][j] = w[y][j]
  BY Alone DEF Others
<1>2. ASSUME AppSame, closed' = closed, Active(x, k), Active(x, k)'
      PROVE  PlaceClosed' /\ PlaceUi'
  <2>1. \A y \in Peers, j \in Transfers : /\ Active(y, j)' <=> Active(y, j)
                                          /\ w'[y][j].pc \in {"complete", "gone"} <=> w[y][j].pc \in {"complete", "gone"}
    BY <1>1, <1>2 DEF Active
  <2>2. QED
    BY <1>2, <2>1 DEF PlaceInv, PlaceClosed, PlaceUi, AppSame, app, Asking
<1>3. ASSUME Reports(x, k)
      PROVE  PlaceClosed' /\ PlaceUi'
  <2>1. /\ w[x][k].pc \in {"ask", "aborted", "complete", "failed"} /\ w'[x][k].pc \in {"complete", "gone"}
        /\ ui[x] = "loop" /\ asking' = asking
    BY <1>3, CalmLoop DEF CalmEnd, Reports, AbortedDoes, CompletedDoes, FailedDoes, ReportDoes, StepsTo, Becomes
  <2>2. EndsOwn(x, k)
    BY <1>3, <2>1, CalmReport
  <2>3. cur \in [Peers -> Transfers \union {0}] /\ busy \in [Peers -> BOOLEAN]
    BY DEF TypeInv, UiType
  <2>4. ASSUME NEW y \in Peers, NEW j \in Transfers
        PROVE  /\ y \in closed'[j] <=> w'[y][j].pc \in {"complete", "gone"}
               /\ Active(y, j)' => Active(y, j) /\ cur'[y] = j /\ busy'[y]
    <3>1. CASE y = x /\ j = k
      BY <2>1, <2>2, <3>1 DEF Active, EndsOwn
    <3>2. CASE y # x \/ j # k
      <4>1. w'[y][j] = w[y][j] /\ (y \in closed'[j] <=> y \in closed[j])
        BY <1>1, <2>2, <3>2 DEF EndsOwn
      <4>2. ASSUME Active(y, j)' PROVE Active(y, j) /\ cur'[y] = j /\ busy'[y]
        <5>1. Active(y, j) /\ cur[y] = j /\ busy[y]
          BY <4>1, <4>2 DEF Active, PlaceInv
        <5>2. CASE y = x
          <6>1. cur[x] # k
            BY <3>2, <5>1, <5>2
          <6>2. QED
            BY <2>2, <5>1, <6>1 DEF EndsOwn
        <5>3. CASE y # x
          BY <2>2, <2>3, <5>1, <5>3 DEF EndsOwn
        <5>4. QED
          BY <5>2, <5>3
      <4>3. QED
        BY <4>1, <4>2 DEF PlaceInv
    <3>3. QED
      BY <3>1, <3>2
  <2>5. PlaceClosed'
    BY <2>4 DEF PlaceClosed
  <2>6. \A y \in Peers : ui[y] # "loop" => busy'[y] = busy[y]
    BY <2>1, <2>2, <2>3 DEF EndsOwn
  <2>7. PlaceUi'
    BY <2>1, <2>2, <2>4, <2>6 DEF PlaceInv, PlaceUi, Asking, EndsOwn
  <2>8. QED
    BY <2>5, <2>7
<1>4. QED
  BY <1>2, <1>3, WorkerAtWork

(* What is in the listeners.                                               *)
LEMMA ListenHandshake ==
  ASSUME TypeInv, PlaceInv, Handshake
  PROVE  PlaceListen'
<1> USE Peer
<1>1. /\ ui \in [Peers -> UiStates] /\ busy \in [Peers -> BOOLEAN]
      /\ field \in [Peers -> Receives] /\ calls \in [Peers -> Nat] /\ field[B] \in Receives
      /\ ui[A] \in {"loop", "reply", "accept", "receive", "dead"} /\ ui[B] # "dead" /\ PlaceListen
  BY DEF TypeInv, UiType, ListenType, PlaceInv
<1>2. Pending # Done /\ Pending # Datagram("echo", 0) /\ Done # Datagram("echo", 0)
  BY DEF Pending, Done, Datagram
<1>3. CASE SendFiles \/ ReplyTimesOut \/ Answered
  <2>1. PICK to \in {"loop", "reply", "accept"} : ui' = [ui EXCEPT ![A] = to]
    BY <1>3 DEF SendFiles, ReplyTimesOut, Answered, UiGoes
  <2>2. field' = field /\ calls' = calls /\ (busy' = busy \/ busy' = [busy EXCEPT ![A] = TRUE])
    BY <1>3 DEF SendFiles, ReplyTimesOut, Answered, listen
  <2>3. ui'[A] # "receive" /\ ui'[B] = ui[B] /\ busy'[B] = busy[B] /\ (busy[A] => busy'[A])
    BY <1>1, <2>1, <2>2
  <2>4. QED
    BY <1>1, <2>2, <2>3 DEF PlaceListen
<1>4. CASE Found
  <2>1. /\ field[B].kind = "step0" /\ ui' = [ui EXCEPT ![B] = "dialog"] /\ busy' = busy
        /\ field' = [field EXCEPT ![B] = Done]
        /\ (calls[B] > 0 /\ ~busy[B] /\ calls' = [calls EXCEPT ![B] = calls[B] - 1]) \/ ui[B] = "receive"
    BY <1>4 DEF Found, Called, UiGoes
  <2>2. calls[B] = 1 /\ ~busy[B] /\ calls' = [calls EXCEPT ![B] = calls[B] - 1]
    BY <2>1 DEF PlaceInv, PlaceListen, Pending, Done, Datagram
  <2>3. /\ calls'[B] = 0 /\ calls'[A] = calls[A] /\ field'[B] = Done /\ field'[A] = field[A]
        /\ ui'[B] = "dialog" /\ ui'[A] = ui[A]
    BY <1>1, <2>1, <2>2
  <2>4. QED
    BY <1>1, <1>2, <2>1, <2>2, <2>3 DEF PlaceListen
<1>5. CASE Refuse \/ Failure
  <2>1. /\ ui[B] \in {"dialog", "box"} /\ ui' = [ui EXCEPT ![B] = "loop"] /\ busy' = busy /\ calls' = calls
        /\ field' = IF field[B] # Pending THEN [field EXCEPT ![B] = Pending] ELSE field
    BY <1>5 DEF Refuse, Failure, HandlerEnds, Rearm, UiGoes
  <2>2. field[B] = Done /\ ~busy[B] /\ calls[B] = 0
    BY <1>1, <2>1 DEF PlaceListen
  <2>3. field'[B] = Pending /\ field'[A] = field[A] /\ ui'[B] = "loop" /\ ui'[A] = ui[A]
    BY <1>1, <1>2, <2>1, <2>2
  <2>4. QED
    BY <1>1, <1>2, <2>1, <2>2, <2>3 DEF PlaceListen
<1>6. CASE Agree \/ Step2 \/ Step2TimesOut \/ Port \/ Folder
  <2>1. /\ field' = field /\ calls' = calls /\ ui[B] \in {"dialog", "step2", "port", "folder"}
        /\ \/ ui' = ui \/ \E to \in {"step2", "box"} : ui' = [ui EXCEPT ![B] = to] /\ busy' = busy
           \/ \E to \in {"port", "folder", "count"} : ui' = [ui EXCEPT ![B] = to]
        /\ \/ busy' = busy
           \/ ui' = [ui EXCEPT ![B] = "port"] /\ busy' = [busy EXCEPT ![B] = TRUE]
        /\ ui[B] \in {"port", "folder"} =>
             busy' = busy /\ (ui' = ui \/ \E to \in {"folder", "count"} : ui' = [ui EXCEPT ![B] = to])
    BY <1>6 DEF Agree, Step2, Step2TimesOut, Port, Folder, UiGoes, listen
  <2>2. field[B] = Done
    BY <1>1, <2>1 DEF PlaceListen
  <2>3. ui'[A] = ui[A] /\ busy'[A] = busy[A] /\ ui'[B] \in {"dialog", "step2", "box", "port", "folder", "count"}
    BY <1>1, <2>1
  <2>4. ui'[B] \in {"dialog", "box", "step2"} => ~busy'[B]
    BY <1>1, <2>1 DEF PlaceListen
  <2>5. QED
    BY <1>1, <1>2, <2>1, <2>2, <2>3, <2>4 DEF PlaceListen
<1>7. ASSUME NEW x \in Peers, Completes(x) PROVE PlaceListen'
  <2>1. /\ field[x] = Pending /\ calls' = [calls EXCEPT ![x] = calls[x] + 1] /\ ui' = ui /\ busy' = busy
        /\ \/ x = B /\ Take(B) /\ field' = [field EXCEPT ![B] = Head(dgrams[B])]
           \/ x = A /\ field' = [field EXCEPT ![A] = Datagram("echo", 0)]
    BY <1>7 DEF Completes, app
  <2>2. CASE x = A
    <3>1. field' = [field EXCEPT ![A] = Datagram("echo", 0)]
      BY <2>1, <2>2
    <3>2. field'[A] = Datagram("echo", 0) /\ field'[B] = field[B] /\ calls'[A] = calls[A] + 1 /\ calls'[B] = calls[B]
      BY <1>1, <2>1, <2>2, <3>1
    <3>3. calls'[A] = 1
      BY <1>1, <1>2, <2>1, <2>2, <3>2 DEF PlaceListen
    <3>4. QED
      BY <1>1, <2>1, <3>2, <3>3 DEF PlaceListen
  <2>3. CASE x = B
    <3>1. Take(B) /\ field' = [field EXCEPT ![B] = Head(dgrams[B])]
      BY <2>1, <2>3
    <3>2. Head(dgrams[B]) \in Datagrams
      BY <3>1, DatagramTaken DEF TypeInv
    <3>3. Head(dgrams[B]) # Pending /\ Head(dgrams[B]) # Done
      BY <3>2 DEF Datagrams, Pending, Done, Datagram
    <3>4. field'[B] = Head(dgrams[B]) /\ field'[A] = field[A] /\ calls'[B] = calls[B] + 1 /\ calls'[A] = calls[A]
      BY <1>1, <2>1, <2>3, <3>1
    <3>5. calls[B] = 0
      BY <1>1, <2>1, <2>3 DEF PlaceListen
    <3>6. ~(ui[B] # "loop" \/ busy[B])
      BY <1>1, <1>2, <2>1, <2>3 DEF PlaceListen
    <3>7. QED
      BY <1>1, <2>1, <3>3, <3>4, <3>5, <3>6 DEF PlaceListen
  <2>4. QED
    BY <2>2, <2>3
<1>8. ASSUME NEW x \in Peers, Ignored(x) \/ EndReceiveWaits(x) \/ Dropped(x) PROVE PlaceListen'
  <2>1. /\ \/ calls[x] > 0 /\ calls' = [calls EXCEPT ![x] = calls[x] - 1]
           \/ ui[x] = "receive"
        /\ busy' = busy
        /\ \/ Ignored(x) /\ busy[x] /\ ui' = ui /\ field' = field
           \/ EndReceiveWaits(x) /\ field[x] = Pending
           \/ Dropped(x) /\ field' = [field EXCEPT ![x] = Pending] /\ ~busy[x] /\ ui' = ui
           \/ Dropped(x) /\ ui[x] = "receive"
    BY <1>8 DEF Ignored, EndReceiveWaits, Dropped, Called, Rearm, UiGoes, app
  <2>0. ui[x] # "receive" /\ calls[x] > 0
    BY <1>1, <2>1 DEF PlaceListen
  <2>2. ui[x] # "receive" /\ calls[x] = 1 /\ field[x] # Pending /\ (x = B => field[B] # Done)
    <3>1. CASE x = B
      <4>1. calls[B] = IF field[B] \in {Pending, Done} THEN 0 ELSE 1
        BY <1>1 DEF PlaceListen
      <4>2. field[B] \notin {Pending, Done}
        BY <2>0, <3>1, <4>1
      <4>3. QED
        BY <2>0, <3>1, <4>1, <4>2
    <3>2. CASE x = A
      <4>1. \/ field[A] = Pending /\ calls[A] = 0
            \/ field[A] = Datagram("echo", 0) /\ (calls[A] = 1 \/ (calls[A] = 0 /\ busy[A]))
        BY <1>1 DEF PlaceListen
      <4>2. QED
        BY <1>2, <2>0, <3>2, <4>1
    <3>3. QED
      BY <3>1, <3>2
  <2>3. /\ calls'[x] = 0 /\ \A y \in Peers : y # x => calls'[y] = calls[y]
    BY <1>1, <2>1, <2>2
  <2>4. CASE x = B
    <3>1. ~busy[B]
      BY <1>1, <2>2, <2>4 DEF PlaceListen
    <3>2. field' = [field EXCEPT ![B] = Pending] /\ ui' = ui
      BY <2>1, <2>2, <2>4, <3>1
    <3>3. field'[B] = Pending /\ field'[A] = field[A]
      BY <1>1, <3>2
    <3>4. QED
      BY <1>1, <1>2, <2>1, <2>2, <2>3, <2>4, <3>1, <3>2, <3>3 DEF PlaceListen
  <2>5. CASE x = A
    <3>1. \/ busy[x] /\ ui' = ui /\ field' = field
          \/ field' = [field EXCEPT ![x] = Pending] /\ ui' = ui
      BY <2>1, <2>2
    <3>2. busy' = busy /\ (busy[x] \/ field' = [field EXCEPT ![x] = Pending])
      BY <2>1, <3>1
    <3>3. ui' = ui
      BY <3>1
    <3>4. field[A] = Datagram("echo", 0) /\ calls[A] = 1
      BY <1>1, <2>2, <2>5 DEF PlaceListen
    <3>5. calls'[A] = 0 /\ calls'[B] = calls[B]
      BY <2>3, <2>5
    <3>6. CASE busy[x] /\ field' = field
      BY <1>1, <1>2, <2>5, <3>2, <3>3, <3>4, <3>5, <3>6 DEF PlaceListen
    <3>7. CASE field' = [field EXCEPT ![x] = Pending]
      <4>1. field'[A] = Pending /\ field'[B] = field[B]
        BY <1>1, <2>5, <3>7
      <4>2. QED
        BY <1>1, <1>2, <3>2, <3>3, <3>5, <4>1 DEF PlaceListen
    <3>8. QED
      BY <3>1, <3>6, <3>7
  <2>6. QED
    BY <2>4, <2>5
<1>9. CASE \E x \in Peers : Lose(x)
  BY <1>1, <1>9 DEF Lose, app, listen, PlaceListen
<1>10. QED
  BY <1>3, <1>4, <1>5, <1>6, <1>7, <1>8, <1>9 DEF Handshake, Hears

LEMMA ListenReports ==
  ASSUME TypeInv, PlaceInv, Undisturbed', NEW x \in Peers, NEW k \in Transfers, Reports(x, k), EndsOwn(x, k)
  PROVE  PlaceListen'
<1> USE Peer
<1>1. /\ busy \in [Peers -> BOOLEAN] /\ field \in [Peers -> Receives] /\ calls \in [Peers -> Nat] /\ PlaceListen
  BY DEF TypeInv, UiType, ListenType, PlaceInv
<1>2. ui[x] = "loop" /\ OnTransformEnd(x, k)
  BY CalmLoop DEF CalmEnd
<1>3. ui' = ui /\ calls' = calls
  BY DEF EndsOwn, Reports, AbortedDoes, CompletedDoes, FailedDoes, ReportDoes
<1>4. Pending # Done /\ Pending # Datagram("echo", 0) /\ Done # Datagram("echo", 0)
  BY DEF Pending, Done, Datagram
<1>5. CASE ~busy[x]
  <2>1. /\ busy' = busy
        /\ field[x] = Pending => field' = field
        /\ field[x] # Pending => astray' = (astray \/ calls[x] > 0 \/ ui[x] # "loop")
    <3>1. busy' = busy
      BY <1>2, <1>5 DEF OnTransformEnd
    <3>2. CASE field[x] = Pending
      BY <1>2, <1>5, <3>1, <3>2 DEF OnTransformEnd
    <3>3. CASE field[x] # Pending
      BY <1>2, <1>5, <3>1, <3>3 DEF OnTransformEnd
    <3>4. QED
      BY <3>2, <3>3
  <2>2. field[x] # Pending => calls[x] = 1
    BY <1>1, <1>2, <1>4, <1>5 DEF PlaceListen
  <2>3. field' = field
    <3>1. field[x] # Pending => astray'
      <4>1. calls[x] = 1 => calls[x] > 0
        OBVIOUS
      <4>2. QED
        BY <2>1, <2>2, <4>1
    <3>2. QED
      BY <2>1, <3>1 DEF Undisturbed
  <2>4. QED
    BY <1>1, <1>3, <2>1, <2>3 DEF PlaceListen
<1>6. CASE busy[x]
  <2>1. busy' = [busy EXCEPT ![x] = FALSE]
    <3>1. OnTransformEnd(x, k) => busy' = [busy EXCEPT ![x] = FALSE] \/ ui' = [ui EXCEPT ![x] = "dead"]
      BY <1>6 DEF OnTransformEnd, Dies
    <3>2. ui' # [ui EXCEPT ![x] = "dead"]
      BY <1>2, <1>3 DEF TypeInv, UiType
    <3>3. QED
      BY <1>2, <3>1, <3>2
  <2>2. \/ field[x] = Pending /\ field' = field
        \/ field' = [field EXCEPT ![x] = Pending] /\ astray' = (astray \/ calls[x] > 0 \/ ui[x] # "loop")
        \/ ui' = [ui EXCEPT ![x] = "dead"]
    BY <1>2, <1>6 DEF OnTransformEnd, Rearm, Dies
  <2>3. ui' # [ui EXCEPT ![x] = "dead"]
    BY <1>2, <1>3 DEF TypeInv, UiType
  <2>4. field'[x] = Pending /\ \A y \in Peers : y # x => field'[y] = field[y] /\ busy'[y] = busy[y]
    BY <1>1, <2>1, <2>2, <2>3
  <2>5. ~busy'[x] /\ ui'[x] = "loop"
    BY <1>1, <1>2, <1>3, <2>1
  <2>6. calls[x] = 0
    <3>1. field[x] # Pending => ~(calls[x] > 0)
      BY <2>2, <2>3 DEF Undisturbed
    <3>2. field[x] = Pending => calls[x] = 0
      BY <1>1, <1>4 DEF PlaceListen
    <3>3. calls[x] \in Nat
      BY <1>1
    <3>4. QED
      BY <3>1, <3>2, <3>3
  <2>7. CASE x = B
    BY <1>1, <1>3, <1>4, <2>4, <2>5, <2>6, <2>7 DEF PlaceListen
  <2>8. CASE x = A
    BY <1>1, <1>3, <1>4, <2>4, <2>5, <2>6, <2>8 DEF PlaceListen
  <2>9. QED
    BY <2>7, <2>8
<1>7. QED
  BY <1>5, <1>6

LEMMA ListenElse ==
  ASSUME TypeInv, PlaceInv, AcceptDoes \/ CountDoes \/ AppSame
  PROVE  PlaceListen'
<1> USE Peer
<1>1. PlaceListen /\ ui \in [Peers -> UiStates]
  BY DEF PlaceInv, TypeInv, UiType
<1>2. UNCHANGED <<field, calls, busy>>
  BY DEF AcceptDoes, CountDoes, AppSame, app, listen
<1>3. CASE ui' = ui
  BY <1>1, <1>2, <1>3 DEF PlaceListen
<1>4. CASE AcceptDoes
  BY <1>1, <1>2, <1>4 DEF AcceptDoes, PlaceListen
<1>5. CASE CountDoes
  <2>1. ui[B] = "count" /\ ui'[B] = "loop" /\ ui'[A] = ui[A] /\ busy[B]
    BY <1>1, <1>5 DEF CountDoes, PlaceInv
  <2>2. QED
    BY <1>1, <1>2, <2>1 DEF PlaceListen
<1>6. QED
  BY <1>3, <1>4, <1>5 DEF AppSame, app

(* Nobody quits, and B hears of the transfer that it was asked to take.    *)
LEMMA NoClosing ==
  ASSUME TypeInv, AskedInv, PlaceInv, Undisturbed, \A k \in Transfers : WholeInv(k) /\ StepInv(k)
  PROVE  ~Closing
<1> USE Peer
<1>1. \A x \in Peers : ~Quit(x)
  BY DEF Quit, Undisturbed
<1>0. \A x \in Peers : ~EndReceiveThrows(x)
  <2>1. Done # Pending /\ Done # Datagram("echo", 0)
    BY DEF Pending, Done, Datagram
  <2>2. QED
    BY <2>1 DEF EndReceiveThrows, Called, PlaceInv, PlaceListen
<1>2. SUFFICES ASSUME CountFails PROVE FALSE
  BY <1>0, <1>1 DEF Closing
<1>3. ui[B] = "count" /\ asking \in Transfers /\ ReadFails(B, asking)
  BY <1>2 DEF CountFails, TypeInv, UiType, Asking
<1>4. w[B][asking].pc = "none"
  BY <1>3 DEF AskedInv, Asking
<1>5. B \notin closed[asking]
  BY <1>3, <1>4 DEF PlaceInv
<1>6. wire[asking][B] = <<>> /\ A \in closed[asking]
  BY <1>3, <1>5, OtherPeer DEF ReadFails
<1>7. w[A][asking].pc # "none"
  BY <1>3, <1>6 DEF PlaceInv
<1>8. QED
  BY <1>3, <1>4, <1>6, <1>7 DEF StepInv, InStep, InStepNone

LEMMA PlaceStep ==
  ASSUME BookInv, AskedInv, PlaceInv, \A k \in Transfers : StepInv(k), Undisturbed, Undisturbed', Next
  PROVE  PlaceInv'
<1>1. TypeInv /\ FreshInv /\ \A k \in Transfers : WholeInv(k)
  BY DEF BookInv
<1>2. Cases /\ ~Closing
  BY <1>1, StepCases, NoClosing
<1>3. ASSUME NEW x \in Peers, NEW k \in Transfers, WorkerDoes(x, k) PROVE PlaceClosed' /\ PlaceUi' /\ PlaceListen'
  <2>1. w[x][k].pc # "none"
    BY <1>3, WorkerAtWork DEF Reports, AbortedDoes, CompletedDoes, FailedDoes, Active
  <2>2. w[A][k].pc # "none"
    BY <1>1, <2>1, Peer DEF WholeInv, StartInv
  <2>3. w[x][k].pc # "broken"
    BY <2>2, Peer DEF StepInv
  <2>4. CASE Reports(x, k)
    <3>1. w[x][k].pc \in {"ask", "aborted", "complete", "failed"}
      BY <2>3, <2>4 DEF Reports, AbortedDoes, CompletedDoes, FailedDoes
    <3>2. QED
      BY <1>1, <1>3, <2>1, <2>3, <2>4, <3>1, CalmReport, ListenReports, PlaceWorks
  <2>5. CASE AppSame
    BY <1>1, <1>3, <2>1, <2>3, <2>5, ListenElse, PlaceWorks
  <2>6. QED
    BY <1>3, <2>4, <2>5, WorkerAtWork
<1>4. ASSUME NEW x \in Peers, CancelDoes(x) PROVE PlaceClosed' /\ PlaceUi' /\ PlaceListen'
  BY <1>1, <1>4, PlaceCancels, ListenElse DEF CancelDoes
<1>5. PlaceClosed' /\ PlaceUi' /\ PlaceListen'
  BY <1>1, <1>2, <1>3, <1>4, PlaceHandshake, ListenHandshake, PlaceBegins, PlaceCounts, ListenElse DEF Cases
<1>6. QED
  BY <1>5 DEF PlaceInv, PlaceClosed, PlaceUi
-----------------------------------------------------------------------------
(* Step by step.  A transfer that nobody touches:                          *)
LEMMA StepStill ==
  ASSUME NEW k \in Transfers, StepInv(k), files' = files, wire'[k] = wire[k],
         \A x \in Peers : w'[x][k] = w[x][k] /\ outcome'[x][k] = outcome[x][k]
  PROVE  StepInv(k)'
<1>1. w'[A][k] = w[A][k] /\ w'[B][k] = w[B][k] /\ outcome'[A][k] = outcome[A][k] /\ outcome'[B][k] = outcome[B][k]
  BY Peer
<1>2. Ahead(k)' <=> Ahead(k)
  BY <1>1 DEF Ahead
<1>3. Deciding(k)' <=> Deciding(k)
  BY <1>1 DEF Deciding
<1>4. \A i, m : Rest(k, i, m)' <=> Rest(k, i, m)
  BY <1>1 DEF Rest, Question
<1>5. Rest(k, 2, 0)' = Rest(k, 2, 0) /\ Rest(k, 1, 0)' = Rest(k, 1, 0)
  BY <1>1 DEF Rest, Question
<1>6. Rest(k, 1, w[B][k].blocks)' <=> Rest(k, 1, w[B][k].blocks)
  BY <1>1 DEF Rest, Question
<1>7. Rest(k, 2, wire[k][B][1][2])' <=> Rest(k, 2, wire[k][B][1][2])
  BY <1>1 DEF Rest, Question
<1>8. (Sized(k)' <=> Sized(k)) /\ (Active(A, k)' <=> Active(A, k))
  BY <1>1 DEF Sized, Active
<1>9. QED
  BY <1>1, <1>2, <1>3, <1>5, <1>6, <1>7, <1>8
     DEF StepInv, InStep, InStepNone, InStepAsk, InStepAnswer, InStepHeader, InStepFile, InStepEnd

(* What the receiver may still expect, after what the sender writes ...    *)
LEMMA Lengths ==
  ASSUME TypeInv, NEW k \in Transfers
  PROVE  /\ Len(wire[k][B]) \in Nat /\ w[A][k].blocks \in Nat /\ w[A][k].left \in Nat
         /\ w[B][k].blocks \in Nat /\ w[B][k].left \in Nat
         /\ wire[k][B] # <<>> <=> Len(wire[k][B]) > 0
<1>1. wire[k][B] \in Seq(Messages) /\ w[A][k] \in WorkerType /\ w[B][k] \in WorkerType
  BY Peer DEF TypeInv, NetType, WorkType
<1>2. Len(wire[k][B]) \in Nat /\ (wire[k][B] # <<>> <=> Len(wire[k][B]) > 0)
  BY <1>1, LenProperties, EmptySeq
<1>3. QED
  BY <1>1, <1>2 DEF WorkerType

RestGoes(k) ==
  /\ wire[k][B] # <<>> => wire'[k][B] # <<>> /\ wire'[k][B][1] = wire[k][B][1]
  /\ \A i \in {1, 2}, m \in Nat : Rest(k, i, m) => Rest(k, i, m)'

LEMMA RestWritten ==
  ASSUME TypeInv, NEW k \in Transfers, closed[k] = {}, SenderInv(k), AskDoes(k) \/ WriteBlockDoes(k)
  PROVE  RestGoes(k)
<1> USE Peer
<1> DEFINE L == Len(wire[k][B])
           a == w[A][k]
<1>1. L \in Nat /\ a.blocks \in Nat /\ (wire[k][B] # <<>> <=> L > 0)
  BY Lengths
<1>2. PICK m \in Messages :
        /\ Sent(A, k, m)
        /\ \/ AskDoes(k) /\ m[1] = "state" /\ w'[A][k].pc = "answer" /\ w'[A][k].blocks = a.blocks /\ a.pc = "ask"
           \/ WriteBlockDoes(k) /\ m[1] = "block" /\ w'[A][k].pc # "answer" /\ w'[A][k].blocks = a.blocks - 1 /\ a.pc = "body"
  <2>1. <<"state", a.state>> \in Messages /\ <<"state", a.state>>[1] = "state"
    BY DEF TypeInv, WorkType, WorkerType, Messages
  <2>2. <<"block">> \in Messages /\ <<"block">>[1] = "block"
    BY DEF Messages
  <2>3. CASE AskDoes(k)
    BY <2>1, <2>3 DEF AskDoes, StepsTo, Becomes
  <2>4. CASE WriteBlockDoes(k)
    BY <2>2, <2>4 DEF WriteBlockDoes, Becomes
  <2>5. QED
    BY <2>3, <2>4
<1>3. /\ Len(wire'[k][B]) = L + 1 /\ wire'[k][B][L + 1] = m
      /\ \A i \in 1 .. L : wire'[k][B][i] = wire[k][B][i]
  BY <1>2, Longer, OtherPeer
<1>4. NetType' /\ Len(wire'[k][B]) > 0
  BY <1>1, <1>2, <1>3 DEF Sent
<1>5. wire'[k][B] # <<>>
  <2>1. wire'[k][B] \in Seq(Messages)
    BY <1>4 DEF NetType
  <2>2. QED
    BY <1>4, <2>1, LenProperties, EmptySeq
<1>6. wire[k][B] # <<>> => wire'[k][B][1] = wire[k][B][1]
  BY <1>1, <1>3
<1>7. ASSUME NEW i \in {1, 2}, NEW q \in Nat, Rest(k, i, q)
      PROVE  Rest(k, i, q)'
  <2>1. /\ \A j \in i .. L : wire[k][B][j][1] = "block"
        /\ L + a.blocks = i - 1 + q
    BY <1>1, <1>2, <1>7 DEF Rest, Question
  <2>2. ASSUME NEW j \in i .. Len(wire'[k][B])
        PROVE  wire'[k][B][j][1] = IF j = Len(wire'[k][B]) /\ w'[A][k].pc = "answer" THEN "state" ELSE "block"
    <3>1. CASE j = L + 1
      BY <1>2, <1>3, <3>1
    <3>2. CASE j # L + 1
      <4>1. j \in i .. L /\ j \in 1 .. L /\ j # Len(wire'[k][B])
        BY <1>1, <1>3, <3>2
      <4>2. QED
        BY <1>3, <2>1, <4>1
    <3>3. QED
      BY <3>1, <3>2
  <2>3. Question(k)' = IF w'[A][k].pc = "answer" THEN 1 ELSE 0
    BY DEF Question
  <2>4. Len(wire'[k][B]) + w'[A][k].blocks = i - 1 + q + Question(k)'
    <3>1. \/ w'[A][k].blocks = a.blocks /\ w'[A][k].pc = "answer"
          \/ w'[A][k].blocks = a.blocks - 1 /\ w'[A][k].pc # "answer"
      BY <1>2
    <3>4. \/ w'[A][k].blocks = a.blocks /\ Question(k)' = 1
          \/ w'[A][k].blocks = a.blocks - 1 /\ Question(k)' = 0
      BY <2>3, <3>1
    <3>2. Len(wire'[k][B]) = L + 1 /\ L + a.blocks = i - 1 + q /\ L \in Nat /\ a.blocks \in Nat
      BY <1>1, <1>3, <2>1
    <3> DEFINE M == Len(wire'[k][B])
               b == a.blocks
               c == w'[A][k].blocks
               d == Question(k)'
    <3>3. \/ c = b /\ d = 1
          \/ c = b - 1 /\ d = 0
      BY <3>4
    <3>5. M = L + 1 /\ L + b = i - 1 + q /\ L \in Nat /\ b \in Nat
      BY <3>2
    <3>8. i \in Nat /\ q \in Nat
      OBVIOUS
    <3> HIDE DEF M, L, a, b, c, d
    <3>9. ASSUME c = b, d = 1 PROVE M + c = i - 1 + q + d
      <4>1. M + c = (L + b) + 1 /\ i - 1 + q + d = (i - 1 + q) + 1
        BY <3>5, <3>8, <3>9
      <4>2. QED
        BY <3>5, <4>1
    <3>10. ASSUME c = b - 1, d = 0 PROVE M + c = i - 1 + q + d
      <4>1. M + c = L + b /\ i - 1 + q + d = i - 1 + q
        BY <3>5, <3>8, <3>10
      <4>2. QED
        BY <3>5, <4>1
    <3>6. M + c = i - 1 + q + d
      BY <3>3, <3>9, <3>10
    <3>7. QED
      BY <3>6 DEF M, c, d
  <2>5. QED
    BY <2>2, <2>4 DEF Rest
<1>8. QED
  BY <1>5, <1>6, <1>7 DEF RestGoes

(* ... and after what it reads itself.                                     *)
LEMMA RestRead ==
  ASSUME TypeInv, NEW k \in Transfers, Got(B, k), w'[A][k] = w[A][k]
  PROVE  /\ \A m \in Nat : Rest(k, 2, m) => Rest(k, 1, m)'
         /\ \A m \in Nat : Rest(k, 1, m) /\ wire[k][B][1][1] = "block" => Rest(k, 1, m - 1)'
         /\ \A m \in Nat : Rest(k, 1, m) /\ wire[k][B][1][1] = "state" => w[A][k].pc = "answer" /\ w[A][k].blocks = m
<1> USE Peer
<1> DEFINE L == Len(wire[k][B])
<1>1. /\ L \in Nat \ {0} /\ Len(wire'[k][B]) = L - 1
      /\ \A i \in 1 .. L - 1 : wire'[k][B][i] = wire[k][B][i + 1]
  BY Shorter
<1>2. w[A][k].blocks \in Nat
  BY Lengths
<1>3. Question(k)' = Question(k) /\ Question(k) \in {0, 1}
  BY DEF Question
<1>4. ASSUME NEW m \in Nat, Rest(k, 2, m) PROVE Rest(k, 1, m)'
  <2>1. ASSUME NEW j \in 1 .. L - 1
        PROVE  wire'[k][B][j][1] = IF j = L - 1 /\ w'[A][k].pc = "answer" THEN "state" ELSE "block"
    <3>1. j + 1 \in 2 .. L /\ wire'[k][B][j] = wire[k][B][j + 1]
      <4>1. wire'[k][B][j] = wire[k][B][j + 1]
        BY <1>1
      <4>2. L \in Nat
        BY <1>1
      <4> HIDE DEF L
      <4>3. j + 1 \in 2 .. L
        BY <4>2
      <4>4. QED
        BY <4>1, <4>3
    <3>2. wire[k][B][j + 1][1] = IF j + 1 = L /\ w[A][k].pc = "answer" THEN "state" ELSE "block"
      BY <1>4, <3>1 DEF Rest
    <3>3. (j + 1 = L) <=> (j = L - 1)
      BY <1>1
    <3>4. QED
      BY <3>1, <3>2, <3>3
  <2>2. L - 1 + w[A][k].blocks = 1 - 1 + m + Question(k)
    <3>1. L + w[A][k].blocks = 2 - 1 + m + Question(k)
      BY <1>4 DEF Rest
    <3>2. L \in Nat /\ w[A][k].blocks \in Nat /\ Question(k) \in Nat
      BY <1>1, <1>2, <1>3
    <3> HIDE DEF L
    <3>3. QED
      BY <3>1, <3>2
  <2>3. QED
    BY <1>1, <1>3, <2>1, <2>2 DEF Rest
<1>5. ASSUME NEW m \in Nat, Rest(k, 1, m), wire[k][B][1][1] = "block" PROVE Rest(k, 1, m - 1)'
  <2>1. ASSUME NEW j \in 1 .. L - 1
        PROVE  wire'[k][B][j][1] = IF j = L - 1 /\ w'[A][k].pc = "answer" THEN "state" ELSE "block"
    <3>1. j + 1 \in 1 .. L /\ wire'[k][B][j] = wire[k][B][j + 1]
      <4>1. wire'[k][B][j] = wire[k][B][j + 1]
        BY <1>1
      <4>2. L \in Nat
        BY <1>1
      <4> HIDE DEF L
      <4>3. j + 1 \in 1 .. L
        BY <4>2
      <4>4. QED
        BY <4>1, <4>3
    <3>2. wire[k][B][j + 1][1] = IF j + 1 = L /\ w[A][k].pc = "answer" THEN "state" ELSE "block"
      BY <1>5, <3>1 DEF Rest
    <3>3. (j + 1 = L) <=> (j = L - 1)
      BY <1>1
    <3>4. QED
      BY <3>1, <3>2, <3>3
  <2>2. L - 1 + w[A][k].blocks = 1 - 1 + (m - 1) + Question(k)
    <3>1. L + w[A][k].blocks = 1 - 1 + m + Question(k)
      BY <1>5 DEF Rest
    <3>2. L \in Nat /\ w[A][k].blocks \in Nat /\ Question(k) \in Nat
      BY <1>1, <1>2, <1>3
    <3> HIDE DEF L
    <3>3. QED
      BY <3>1, <3>2
  <2>3. QED
    BY <1>1, <1>3, <2>1, <2>2 DEF Rest
<1>6. ASSUME NEW m \in Nat, Rest(k, 1, m), wire[k][B][1][1] = "state"
      PROVE  w[A][k].pc = "answer" /\ w[A][k].blocks = m
  <2>1. 1 \in 1 .. L
    BY <1>1
  <2>2. L = 1 /\ w[A][k].pc = "answer"
    BY <1>6, <2>1 DEF Rest
  <2>3. Question(k) = 1
    BY <2>2 DEF Question
  <2>4. L + w[A][k].blocks = 1 - 1 + m + Question(k)
    BY <1>6 DEF Rest
  <2>5. QED
    BY <1>2, <2>2, <2>3, <2>4
<1>7. QED
  BY <1>4, <1>5, <1>6
-----------------------------------------------------------------------------
(* The sender's steps, as long as nobody has interfered.                   *)
Steady(k) == TypeInv /\ WholeInv(k) /\ TalkInv(k) /\ PlaceInv /\ StepInv(k) /\ late = {}

(* The receiver has not closed the connection when the sender writes, and  *)
(* a sender that still says Continue has not been told to abort.           *)
LEMMA NotTold ==
  ASSUME NEW k \in Transfers, Steady(k), w[A][k].pc = "check", w[A][k].state = "Continue"
  PROVE  /\ w[B][k].pc \notin {"aborted", "complete"} /\ outcome[B][k] # "aborted"
         /\ w[B][k].pc = "check" => w[B][k].state = "Continue"
<1> USE Peer
<1>1. ~WillAbort(k)
  BY DEF WillAbort
<1>2. ~AbortSent(k) /\ late = {}
  BY <1>1 DEF Steady, TalkInv, AbortInv
<1>3. w[B][k].state \in Modes
  BY DEF Steady, TypeInv, WorkType, WorkerType
<1>4. w[B][k].pc = "complete" => outcome[B][k] = "aborted"
  BY DEF Steady, WholeInv, OutcomeInv
<1>5. QED
  BY <1>2, <1>3, <1>4 DEF AbortSent, Modes

LEMMA EndKinds ==
  ASSUME TypeInv, NEW k \in Transfers, WholeInv(k), NEW x \in Peers, w[x][k].pc = "gone"
  PROVE  outcome[x][k] \in {"ok", "failed", "aborted"}
BY DEF WholeInv, OutcomeInv, TypeInv, BookType, Ends

LEMMA SenderOpen ==
  ASSUME NEW k \in Transfers, Steady(k),
         \/ w[A][k].pc = "ask" /\ w[A][k].left > 0
         \/ w[A][k].pc = "body"
         \/ w[A][k].pc = "check" /\ w[A][k].state = "Continue"
  PROVE  closed[k] = {}
<1> USE Peer
<1>1. TypeInv /\ WholeInv(k) /\ PlaceInv /\ StepInv(k)
  BY DEF Steady
<1>2. A \notin closed[k] /\ closed[k] \subseteq Peers
  BY <1>1 DEF PlaceInv, TypeInv, NetType
<1>3. w[A][k].left \in Nat /\ w[A][k].blocks \in Nat
  BY <1>1, Lengths
<1>4. w[A][k].pc = "body" => w[A][k].blocks > 0
  BY <1>1 DEF WholeInv, SenderInv
<1>5. InStepEnd(k)
  BY <1>1 DEF StepInv, InStep
<1>6. ~Deciding(k) \/ w[A][k].pc = "check"
  BY DEF Deciding
<1>7. w[A][k].pc = "check" => w[B][k].pc # "complete" /\ outcome[B][k] # "aborted"
  BY NotTold
<1>8. w[B][k].pc # "complete"
  BY <1>5, <1>6, <1>7 DEF InStepEnd
<1>9. ASSUME w[B][k].pc = "gone" PROVE FALSE
  <2>1. outcome[B][k] \in {"ok", "failed", "aborted"}
    BY <1>1, <1>9, EndKinds
  <2>2. outcome[B][k] # "failed"
    BY <1>5, <1>9 DEF InStepEnd
  <2>3. outcome[B][k] # "aborted"
    BY <1>5, <1>6, <1>7, <1>9 DEF InStepEnd
  <2>4. outcome[B][k] = "ok"
    BY <2>1, <2>2, <2>3
  <2>5. Ahead(k) /\ w[A][k].left = 0 /\ w[A][k].blocks = 0
    BY <1>5, <1>9, <2>4 DEF InStepEnd
  <2>6. w[A][k].pc # "check"
    BY <2>5 DEF Ahead
  <2>7. QED
    BY <1>3, <1>4, <2>5, <2>6
<1>10. B \notin closed[k]
  BY <1>1, <1>8, <1>9 DEF PlaceInv
<1>11. QED
  BY <1>2, <1>10

LEMMA FirstNumber ==
  ASSUME TypeInv, NEW k \in Transfers, wire[k][B] # <<>>, wire[k][B][1][1] \in {"count", "file"}
  PROVE  wire[k][B][1][2] \in Nat
<1>1. wire[k][B] \in Seq(Messages)
  BY Peer DEF TypeInv, NetType
<1>2. wire[k][B][1] \in Messages
  BY <1>1, LenProperties, EmptySeq, ElementOfSeq
<1>3. QED
  BY <1>2, MessageKinds

(* A sender that is ahead of the receiver stays ahead.                     *)
LEMMA AheadMoves ==
  ASSUME TypeInv, NEW k \in Transfers, StepInv(k), files' = files, Others(A, k),
         w[A][k].pc \in {"ask", "progress", "body"}, w'[A][k].pc \in {"ask", "body", "answer", "gone"},
         w'[A][k].left = w[A][k].left, w[A][k].pc = "ask" => w'[A][k].pc # "body",
         w'[A][k].pc = "gone" => outcome'[A][k] = "ok" /\ w[A][k].left = 0,
         outcome'[B][k] = outcome[B][k],
         w[B][k].pc \notin {"complete", "gone"} => RestGoes(k),
         w[B][k].pc = "gone" /\ w[A][k].left = 0 /\ w[A][k].blocks = 0 =>
           w'[A][k].pc # "answer" /\ w'[A][k].blocks = 0
  PROVE  StepInv(k)'
<1> USE Peer
<1>1. w'[B][k] = w[B][k] /\ ~Deciding(k) /\ Ahead(k)'
  BY DEF Others, Deciding, Ahead
<1>2. InStep(k)
  BY DEF StepInv
<1>3. InStepNone(k)'
  BY <1>1, <1>2 DEF InStep, InStepNone, RestGoes
<1>4. InStepAsk(k)'
  BY <1>1, <1>2 DEF InStep, InStepAsk, RestGoes
<1>5. InStepAnswer(k)'
  BY <1>1, <1>2 DEF InStep, InStepAnswer
<1>6. InStepHeader(k)'
  <2> DEFINE f == wire[k][B][1][2]
  <2>1. SUFFICES ASSUME w[B][k].pc \in {"check", "header"} PROVE InStepHeader(k)'
    BY <1>1 DEF InStepHeader
  <2>2. /\ Ahead(k) /\ w[A][k].left + 1 = w[B][k].left
        /\ w[B][k].pc = "check" => w[B][k].state = "Continue"
        /\ wire[k][B] # <<>> /\ wire[k][B][1][1] = "file" /\ Rest(k, 2, f)
    BY <1>1, <1>2, <2>1 DEF InStep, InStepHeader
  <2>3. f \in Nat
    BY <2>2, FirstNumber
  <2>4. wire'[k][B] # <<>> /\ wire'[k][B][1] = wire[k][B][1]
    BY <2>1, <2>2 DEF RestGoes
  <2>5. ASSUME NEW m \in Nat, Rest(k, 2, m) PROVE Rest(k, 2, m)'
    BY <2>1, <2>5 DEF RestGoes
  <2>6. Rest(k, 2, wire[k][B][1][2])'
    <3>1. PICK m \in Nat : m = f
      BY <2>3
    <3>2. Rest(k, 2, m)'
      BY <2>2, <2>5, <3>1
    <3>3. QED
      BY <2>4, <3>1, <3>2 DEF Rest
  <2>7. QED
    BY <1>1, <2>2, <2>4, <2>6 DEF InStepHeader
<1>7. InStepFile(k)'
  <2>1. SUFFICES ASSUME w[B][k].pc \in {"progress", "body"} PROVE InStepFile(k)'
    BY <1>1 DEF InStepFile
  <2>2. PICK m \in Nat : m = w[B][k].blocks
    BY Lengths
  <2>3. Ahead(k) /\ w[A][k].left = w[B][k].left /\ Rest(k, 1, m)
    BY <1>2, <2>1, <2>2 DEF InStep, InStepFile
  <2>4. Rest(k, 1, m)'
    BY <2>1, <2>3 DEF RestGoes
  <2>5. QED
    BY <1>1, <2>2, <2>3, <2>4 DEF InStepFile, Rest
<1>8. InStepEnd(k)'
  BY <1>1, <1>2 DEF InStep, InStepEnd
<1>9. QED
  BY <1>1, <1>3, <1>4, <1>5, <1>6, <1>7, <1>8 DEF StepInv, InStep
(* A sender that decides to go on or to abort: the receiver waits.         *)
LEMMA DecidingMoves ==
  ASSUME NEW k \in Transfers, Steady(k), w[A][k].pc # "none", Others(A, k), Deciding(k), Deciding(k)',
         w'[A][k].pc \notin {"failed", "broken", "none"},
         Active(A, k)' => Active(A, k) /\ w'[A][k].left = w[A][k].left /\ w'[A][k].blocks = w[A][k].blocks,
         outcome[A][k] # "none" => outcome'[A][k] = outcome[A][k],
         w[A][k].pc = "complete" => w'[A][k].pc \in {"complete", "gone"},
         w[A][k].pc # "gone", outcome'[B][k] = outcome[B][k]
  PROVE  StepInv(k)'
<1> USE Peer
<1>1. w'[B][k] = w[B][k]
  BY DEF Others
<1>2. OutcomeInv(k) /\ DecideInv(k) /\ InStep(k)
  BY DEF Steady, WholeInv, TalkInv, StepInv
<1>3. w[A][k].pc = "complete" => outcome[A][k] = "aborted"
  BY <1>2 DEF OutcomeInv
<1>4. Decides(k)
  BY <1>3 DEF Deciding, Decides
<1>5. wire[k][B] = <<>> /\ Stuck(k)
  BY <1>2, <1>4 DEF DecideInv
<1>6. InStepNone(k)' /\ InStepAsk(k)' /\ InStepAnswer(k)' /\ InStepFile(k)'
  BY <1>1, <1>5 DEF Stuck, InStepNone, InStepAsk, InStepAnswer, InStepFile
<1>7. InStepHeader(k)'
  <2>1. SUFFICES ASSUME w[B][k].pc \in {"check", "header"} PROVE InStepHeader(k)'
    BY <1>1 DEF InStepHeader
  <2>2. Active(A, k) => Sized(k)
    BY <1>2, <1>5, <2>1 DEF InStep, InStepHeader
  <2>3. Active(A, k)' => Sized(k)'
    BY <1>1, <2>2 DEF Sized
  <2>4. QED
    BY <2>3 DEF InStepHeader
<1>8. InStepEnd(k)'
  <2>1. w[B][k].pc = "failed" \/ (w[B][k].pc = "gone" /\ outcome[B][k] = "failed") =>
          w'[A][k].pc \in {"complete", "gone"} /\ outcome'[A][k] = "aborted"
    BY <1>2, <1>3 DEF InStep, InStepEnd
  <2>2. ~(w[B][k].pc = "gone" /\ outcome[B][k] = "ok")
    BY <1>5 DEF Stuck
  <2>3. QED
    BY <1>1, <2>1, <2>2 DEF InStepEnd
<1>9. QED
  BY <1>1, <1>2, <1>6, <1>7, <1>8 DEF StepInv, InStep, Steady

LEMMA NoBreak ==
  ASSUME NEW k \in Transfers, Steady(k), w[A][k].pc # "none"
  PROVE  ~BreaksDoes(A, k)
<1> USE Peer
<1>1. SUFFICES ASSUME BreaksDoes(A, k) PROVE FALSE
  OBVIOUS
<1>2. /\ closed[k] # {} /\ w[A][k].pc \in {"answer", "ask", "check", "body"}
      /\ w[A][k].pc = "ask" => w[A][k].left > 0
      /\ w[A][k].pc = "check" => w[A][k].state = "Continue"
      /\ w[A][k].pc = "answer" => ReadFails(A, k)
  BY <1>1 DEF BreaksDoes
<1>3. w[A][k].pc = "answer"
  BY <1>2, SenderOpen
<1>4. TypeInv /\ WholeInv(k) /\ PlaceInv /\ InStepEnd(k)
  BY DEF Steady, StepInv, InStep
<1>5. A \notin closed[k]
  BY <1>3, <1>4 DEF PlaceInv
<1>6. wire[k][A] = <<>> /\ B \in closed[k]
  BY <1>2, <1>3, <1>5, OtherPeer DEF ReadFails
<1>7. w[B][k].pc \in {"complete", "gone"}
  BY <1>4, <1>6 DEF PlaceInv
<1>8. ~Deciding(k)
  BY <1>3, <1>6 DEF Deciding
<1>9. w[B][k].pc = "gone" => outcome[B][k] \in {"ok", "failed", "aborted"}
  BY <1>4, EndKinds
<1>10. QED
  BY <1>3, <1>4, <1>7, <1>8, <1>9 DEF InStepEnd

LEMMA SenderSteps ==
  ASSUME NEW k \in Transfers, Steady(k), Undisturbed', w[A][k].pc # "none", WorkerDoes(A, k)
  PROVE  StepInv(k)'
<1> USE Peer
<1>1. TypeInv /\ WholeInv(k) /\ PlaceInv /\ StepInv(k) /\ InStepEnd(k)
  BY DEF Steady, StepInv, InStep
<1>2. w[A][k].pc \notin {"failed", "broken"} /\ SenderInv(k) /\ OutcomeInv(k)
  BY <1>1 DEF StepInv, WholeInv
<1>3. Others(A, k)
  BY Alone
<1>4. CASE AskDoes(k) \/ WriteBlockDoes(k)
  <2>1. closed[k] = {}
    BY <1>4, SenderOpen DEF AskDoes, WriteBlockDoes
  <2>2. RestGoes(k)
    BY <1>1, <1>2, <1>4, <2>1, RestWritten
  <2>3. w[B][k].pc # "gone"
    BY <1>1, <2>1 DEF PlaceInv
  <2>4. /\ w[A][k].pc \in {"ask", "body"} /\ w'[A][k].pc \in {"ask", "body", "answer"}
        /\ w'[A][k].left = w[A][k].left /\ (w[A][k].pc = "ask" => w'[A][k].pc # "body")
        /\ outcome'[B][k] = outcome[B][k] /\ files' = files
    BY <1>4 DEF AskDoes, WriteBlockDoes, StepsTo, Becomes, BookSame, AppSame
  <2>5. QED
    BY <1>1, <1>3, <2>2, <2>3, <2>4, AheadMoves
<1>5. CASE ProgressDoes(A, k)
  <2>1. w[A][k].pc = "progress" /\ NetSame /\ outcome' = outcome /\ files' = files
    BY <1>5 DEF ProgressDoes, BookSame, AppSame
  <2>2. cur[A] # 0
    BY <1>1, <2>1 DEF PlaceInv, Active, Transfers
  <2>3. StepsTo(A, k, IF w[A][k].blocks = 0 THEN "ask" ELSE "body")
    BY <1>5, <2>2 DEF ProgressDoes
  <2>4. w'[A][k].pc \in {"ask", "body"} /\ w'[A][k].left = w[A][k].left /\ w'[A][k].blocks = w[A][k].blocks
    BY <2>3 DEF StepsTo, Becomes
  <2>5. RestGoes(k)
    BY <2>1, <2>4 DEF RestGoes, Rest, Question, NetSame
  <2>6. QED
    BY <1>1, <1>3, <2>1, <2>4, <2>5, AheadMoves
<1>6. CASE w[A][k].pc = "ask" /\ CompletedDoes(A, k)
  <2>1. /\ OutcomeSet(A, k, "ok") /\ Becomes(A, k, "gone", "Continue", "Continue", 0, 0)
        /\ files' = files /\ w[A][k].left = 0
    BY <1>6 DEF CompletedDoes, ReportDoes
  <2>2. /\ w'[A][k].pc = "gone" /\ w'[A][k].left = 0 /\ w'[A][k].blocks = 0
        /\ outcome'[A][k] = "ok" /\ outcome'[B][k] = outcome[B][k]
    BY <1>2, <1>6, <2>1 DEF Becomes, OutcomeSet, OutcomeInv
  <2>3. EndsOwn(A, k)
    BY <1>1, <1>6, CalmReport DEF Reports
  <2>4. w[B][k].pc \notin {"complete", "gone"} => RestGoes(k)
    <3>1. SUFFICES ASSUME w[B][k].pc \notin {"complete", "gone"} PROVE RestGoes(k)
      OBVIOUS
    <3>2. wire'[k] = wire[k]
      BY <1>1, <2>3, <3>1, OtherPeer DEF EndsOwn, PlaceInv
    <3>3. w[A][k].blocks = 0
      BY <1>1, <1>2, <1>6, Lengths DEF SenderInv
    <3>4. QED
      BY <1>6, <2>2, <3>2, <3>3 DEF RestGoes, Rest, Question
  <2>5. QED
    BY <1>1, <1>3, <1>6, <2>1, <2>2, <2>4, AheadMoves
<1>7. CASE WriteHeaderDoes(k)
  <2> DEFINE f == files[w[A][k].left]
  <2>1. /\ w[A][k].pc = "check" /\ w[A][k].state = "Continue" /\ Sent(A, k, <<"file", f>>) /\ f \in Nat
        /\ w'[A][k].pc = "progress" /\ w'[A][k].left = w[A][k].left - 1 /\ w'[A][k].blocks = f
        /\ outcome' = outcome /\ w'[B][k] = w[B][k]
    BY <1>3, <1>7 DEF WriteHeaderDoes, Becomes, BookSame, Others
  <2>2. closed[k] = {} /\ w[B][k].pc \notin {"aborted", "complete", "gone"} /\ outcome[B][k] # "aborted"
        /\ (w[B][k].pc = "check" => w[B][k].state = "Continue")
    BY <1>1, <2>1, SenderOpen, NotTold DEF PlaceInv
  <2>3. wire[k][B] = <<>> /\ Stuck(k)
    BY <2>1 DEF Steady, TalkInv, DecideInv, Decides
  <2>4. w[B][k].pc # "failed"
    BY <1>1, <2>1 DEF InStepEnd
  <2>5. w[B][k].pc \in {"check", "header"}
    BY <2>2, <2>3, <2>4 DEF Stuck
  <2>6. Sized(k)
    BY <1>1, <2>1, <2>3, <2>5 DEF StepInv, InStep, InStepHeader, Active
  <2>7. /\ wire'[k][B] = Append(<<>>, <<"file", f>>)
    BY <2>1, <2>2, <2>3, OtherPeer DEF Sent
  <2>8. Len(wire'[k][B]) = 1 /\ wire'[k][B][1] = <<"file", f>> /\ wire'[k][B] # <<>>
    BY <2>7
  <2>9. /\ wire'[k][B][1][1] = "file" /\ wire'[k][B][1][2] = f
    BY <2>8
  <2>10. Rest(k, 2, wire[k][B][1][2])'
    <3> HIDE DEF f
    <3>1. Question(k)' = 0
      BY <2>1 DEF Question
    <3>2. Len(wire'[k][B]) + w'[A][k].blocks = 2 - 1 + f + Question(k)'
      BY <2>1, <2>8, <3>1
    <3>3. 2 .. Len(wire'[k][B]) = {}
      BY <2>8
    <3>4. QED
      BY <2>9, <3>2, <3>3 DEF Rest
  <2>11. w'[A][k].left + 1 = w'[B][k].left
    BY <1>1, <2>1, <2>6, Lengths DEF Sized
  <2>12. Ahead(k)' /\ w'[A][k].pc # "none"
    BY <2>1 DEF Ahead
  <2>13. InStepHeader(k)'
    BY <2>1, <2>2, <2>8, <2>9, <2>10, <2>11, <2>12 DEF InStepHeader
  <2>14. QED
    BY <1>1, <2>1, <2>2, <2>5, <2>13 DEF StepInv, InStep, InStepNone, InStepAsk, InStepAnswer, InStepFile, InStepEnd
<1>8. CASE ReadStateDoes(A, k) \/ TestDoes(A, k) \/ AssignDoes(A, k) \/ CheckDoes(A, k)
  <2>1. /\ outcome' = outcome /\ Deciding(k)
        /\ w[A][k].pc \in {"answer", "test", "assign", "check"} /\ w'[A][k].pc \in {"test", "assign", "check", "aborted"}
        /\ w'[A][k].left = w[A][k].left /\ w'[A][k].blocks = w[A][k].blocks
    <3>1. CASE ReadStateDoes(A, k)
      BY <3>1 DEF ReadStateDoes, Becomes, Got, BookSame, Deciding
    <3>2. CASE TestDoes(A, k)
      BY <3>2 DEF TestDoes, StepsTo, Becomes, Tested, BookSame, Deciding
    <3>3. CASE AssignDoes(A, k)
      BY <3>3 DEF AssignDoes, Becomes, Tested, BookSame, Deciding
    <3>4. CASE CheckDoes(A, k)
      BY <3>4 DEF CheckDoes, StepsTo, Becomes, BookSame, Deciding
    <3>5. QED
      BY <1>8, <3>1, <3>2, <3>3, <3>4
  <2>2. Deciding(k)'
    BY <2>1 DEF Deciding
  <2>3. QED
    BY <1>3, <2>1, <2>2, DecidingMoves DEF Active
<1>9. CASE w[A][k].pc # "ask" /\ Reports(A, k)
  <2>1. /\ outcome'[B][k] = outcome[B][k]
        /\ \/ w[A][k].pc = "aborted" /\ w'[A][k].pc = "complete"
           \/ w[A][k].pc = "complete" /\ w'[A][k].pc = "gone"
        /\ outcome'[A][k] = "aborted" /\ outcome[A][k] \in {"none", "aborted"}
    <3>1. CASE AbortedDoes(A, k)
      BY <1>2, <3>1 DEF AbortedDoes, ReportDoes, OutcomeSet, StepsTo, Becomes, OutcomeInv
    <3>2. CASE CompletedDoes(A, k)
      BY <1>2, <1>9, <3>2 DEF CompletedDoes, ReportDoes, OutcomeSet, Becomes, OutcomeInv
    <3>3. QED
      BY <1>2, <1>9, <3>1, <3>2 DEF Reports, FailedDoes
  <2>2. Deciding(k) /\ Deciding(k)'
    BY <2>1 DEF Deciding
  <2>3. QED
    BY <1>3, <2>1, <2>2, DecidingMoves DEF Active
<1>10. QED
  BY <1>2, <1>4, <1>5, <1>6, <1>7, <1>8, <1>9, NoBreak DEF WorkerDoes, Reports, AbortedDoes, FailedDoes
-----------------------------------------------------------------------------
(* The receiver's steps.                                                   *)
LEMMA OnlyReceiver ==
  ASSUME NEW k \in Transfers, Others(B, k), outcome'[A][k] = outcome[A][k]
  PROVE  /\ w'[A][k] = w[A][k] /\ Active(A, k)' = Active(A, k)
         /\ Ahead(k)' = Ahead(k)
         /\ wire'[k][A] = wire[k][A] => Deciding(k)' = Deciding(k)
BY Peer DEF Others, Active, Ahead, Deciding

LEMMA ReceiverTakes ==
  ASSUME NEW k \in Transfers, Steady(k), w[A][k].pc # "none",
         ReadHeaderDoes(k) \/ ReadBlockDoes(k) \/ ReadStateDoes(B, k)
  PROVE  StepInv(k)'
<1> USE Peer
<1>1. TypeInv /\ InStep(k) /\ w[A][k].pc \notin {"failed", "broken"}
  BY DEF Steady, StepInv
<1>2. Got(B, k) /\ Others(B, k) /\ outcome'[A][k] = outcome[A][k]
  BY DEF ReadHeaderDoes, ReadBlockDoes, ReadStateDoes, Becomes, BookSame
<1>3. w'[A][k] = w[A][k] /\ Ahead(k)' = Ahead(k) /\ wire[k][B] # <<>>
  BY <1>2, OnlyReceiver DEF Got
<1>4. /\ \A m \in Nat : Rest(k, 2, m) => Rest(k, 1, m)'
      /\ \A m \in Nat : Rest(k, 1, m) /\ wire[k][B][1][1] = "block" => Rest(k, 1, m - 1)'
      /\ \A m \in Nat : Rest(k, 1, m) /\ wire[k][B][1][1] = "state" => w[A][k].pc = "answer" /\ w[A][k].blocks = m
  BY <1>1, <1>2, <1>3, RestRead
<1>5. CASE ReadHeaderDoes(k)
  <2>1. PICK m \in Nat : m = wire[k][B][1][2]
    BY <1>5 DEF ReadHeaderDoes
  <2>2. /\ w[B][k].pc = "header" /\ w'[B][k].pc = "progress" /\ w'[B][k].blocks = m
        /\ w'[B][k].left = w[B][k].left - 1
    BY <1>5, <2>1 DEF ReadHeaderDoes, Becomes
  <2>3. ~Decides(k)
    BY <1>3 DEF Steady, TalkInv, DecideInv
  <2>4. ~Deciding(k)
    BY <2>3 DEF Steady, WholeInv, OutcomeInv, Deciding, Decides
  <2>5. Ahead(k) /\ w[A][k].left + 1 = w[B][k].left /\ Rest(k, 2, m)
    BY <1>1, <2>1, <2>2, <2>4 DEF InStep, InStepHeader
  <2>6. Rest(k, 1, m)'
    BY <1>4, <2>5
  <2>7. w'[A][k].left = w'[B][k].left
    BY <1>1, <1>3, <2>2, <2>5, Lengths
  <2>8. InStepFile(k)'
    BY <1>3, <2>2, <2>5, <2>6, <2>7 DEF InStepFile, Rest
  <2>9. QED
    BY <1>1, <1>3, <2>2, <2>8 DEF StepInv, InStep, InStepNone, InStepAsk, InStepAnswer, InStepHeader, InStepEnd
<1>6. CASE ReadBlockDoes(k)
  <2>1. PICK m \in Nat : m = w[B][k].blocks
    BY <1>1, Lengths
  <2>2. /\ w[B][k].pc = "body" /\ w'[B][k].pc = "body" /\ w'[B][k].blocks = m - 1
        /\ w'[B][k].left = w[B][k].left /\ wire[k][B][1][1] = "block"
    BY <1>6, <2>1 DEF ReadBlockDoes, Becomes
  <2>3. Ahead(k) /\ w[A][k].left = w[B][k].left /\ Rest(k, 1, m)
    BY <1>1, <2>1, <2>2 DEF InStep, InStepFile
  <2>4. Rest(k, 1, m - 1)'
    BY <1>4, <2>2, <2>3
  <2>5. InStepFile(k)'
    BY <1>3, <2>2, <2>3, <2>4 DEF InStepFile, Rest
  <2>6. QED
    BY <1>1, <1>3, <2>2, <2>5 DEF StepInv, InStep, InStepNone, InStepAsk, InStepAnswer, InStepHeader, InStepEnd
<1>7. CASE ReadStateDoes(B, k)
  <2>1. w[B][k].pc = "ask" /\ w'[B][k].pc = "test" /\ w'[B][k].left = w[B][k].left /\ wire[k][B][1][1] = "state"
    <3>1. wire[k][B][1] = <<"state", wire[k][B][1][2]>>
      BY <1>7 DEF ReadStateDoes
    <3>2. wire[k][B][1][1] = "state"
      BY <3>1
    <3>3. QED
      BY <1>7, <3>2 DEF ReadStateDoes, Becomes
  <2>2. w[A][k].left = w[B][k].left /\ Rest(k, 1, 0)
    BY <1>1, <2>1 DEF InStep, InStepAsk
  <2>3. w[A][k].pc = "answer" /\ w[A][k].blocks = 0
    BY <1>4, <2>1, <2>2
  <2>4. InStepAnswer(k)'
    BY <1>3, <2>1, <2>2, <2>3 DEF InStepAnswer, Sized
  <2>5. QED
    BY <1>1, <1>3, <2>1, <2>4 DEF StepInv, InStep, InStepNone, InStepAsk, InStepFile, InStepHeader, InStepEnd
<1>8. QED
  BY <1>5, <1>6, <1>7

LEMMA ReceiverGoesOn ==
  ASSUME NEW k \in Transfers, Steady(k), w[A][k].pc # "none",
         \/ TestDoes(B, k) \/ AssignDoes(B, k) \/ CheckDoes(B, k) \/ ProgressDoes(B, k)
         \/ AnswerDoes(k) \/ CloseFileDoes(k) \/ BreaksDoes(B, k)
  PROVE  StepInv(k)'
<1> USE Peer
<1>1. TypeInv /\ PlaceInv /\ InStep(k) /\ w[A][k].pc \notin {"failed", "broken"} /\ OutcomeInv(k)
  BY DEF Steady, StepInv, WholeInv
<1>2. Others(B, k) /\ outcome'[A][k] = outcome[A][k]
  BY DEF TestDoes, AssignDoes, CheckDoes, ProgressDoes, AnswerDoes, CloseFileDoes, BreaksDoes, StepsTo, Becomes, BookSame
<1>3. w'[A][k] = w[A][k] /\ Ahead(k)' = Ahead(k) /\ Active(A, k)' = Active(A, k)
  BY <1>2, OnlyReceiver
<1>4. CASE TestDoes(B, k) \/ AssignDoes(B, k)
  <2>1. w[B][k].pc \in {"test", "assign"} /\ w'[B][k].pc \in {"assign", "answer"} /\ w'[B][k].left = w[B][k].left
    BY <1>4 DEF TestDoes, AssignDoes, StepsTo, Becomes, Tested
  <2>2. InStepAnswer(k)'
    BY <1>1, <1>3, <2>1 DEF InStep, InStepAnswer, Sized
  <2>3. QED
    BY <1>1, <1>3, <2>1, <2>2 DEF StepInv, InStep, InStepNone, InStepAsk, InStepFile, InStepHeader, InStepEnd
<1>5. CASE CheckDoes(B, k)
  <2>1. /\ w[B][k].pc = "check" /\ w'[B][k].pc = (IF w[B][k].state = "Abort" THEN "aborted" ELSE "header")
        /\ w'[B][k].left = w[B][k].left /\ wire' = wire
    BY <1>5 DEF CheckDoes, StepsTo, Becomes, NetSame
  <2>2. Deciding(k)' = Deciding(k)
    BY <1>2, <2>1, OnlyReceiver
  <2>3. CASE w[B][k].state = "Abort"
    <3>1. w'[B][k].pc = "aborted" /\ Deciding(k)
      BY <1>1, <2>1, <2>3 DEF InStep, InStepHeader
    <3>2. InStepEnd(k)'
      BY <2>2, <3>1 DEF InStepEnd
    <3>3. QED
      BY <1>1, <1>3, <3>1, <3>2 DEF StepInv, InStep, InStepNone, InStepAsk, InStepAnswer, InStepFile, InStepHeader
  <2>4. CASE w[B][k].state # "Abort"
    <3>1. w'[B][k].pc = "header"
      BY <2>1, <2>4
    <3>2. InStepHeader(k)'
      <4>1. CASE Deciding(k) /\ (Active(A, k) => Sized(k))
        BY <1>3, <2>1, <2>2, <4>1 DEF InStepHeader, Sized
      <4>2. CASE /\ Ahead(k) /\ w[A][k].left + 1 = w[B][k].left
                 /\ wire[k][B] # <<>> /\ wire[k][B][1][1] = "file" /\ Rest(k, 2, wire[k][B][1][2])
        BY <1>3, <2>1, <3>1, <4>2 DEF InStepHeader, Rest, Question
      <4>3. QED
        BY <1>1, <2>1, <4>1, <4>2 DEF InStep, InStepHeader
    <3>3. QED
      BY <1>1, <1>3, <3>1, <3>2 DEF StepInv, InStep, InStepNone, InStepAsk, InStepAnswer, InStepFile, InStepEnd
  <2>5. QED
    BY <2>3, <2>4
<1>6. CASE ProgressDoes(B, k)
  <2>1. w[B][k].pc = "progress" /\ wire' = wire
    BY <1>6 DEF ProgressDoes, NetSame
  <2>2. cur[B] # 0
    BY <1>1, <2>1 DEF PlaceInv, Active, Transfers
  <2>3. w'[B][k].pc = "body" /\ w'[B][k].left = w[B][k].left /\ w'[B][k].blocks = w[B][k].blocks
    BY <1>6, <2>2 DEF ProgressDoes, StepsTo, Becomes
  <2>4. InStepFile(k)'
    BY <1>1, <1>3, <2>1, <2>3 DEF InStep, InStepFile, Rest, Question
  <2>5. QED
    BY <1>1, <1>3, <2>3, <2>4 DEF StepInv, InStep, InStepNone, InStepAsk, InStepAnswer, InStepHeader, InStepEnd
<1>7. CASE AnswerDoes(k)
  <2>1. /\ w[B][k].pc = "answer" /\ w'[B][k].pc = "check" /\ w'[B][k].left = w[B][k].left
        /\ Sent(B, k, <<"state", w[B][k].state>>)
    BY <1>7 DEF AnswerDoes, StepsTo, Becomes
  <2>2. w[A][k].pc = "answer" /\ Sized(k)
    BY <1>1, <2>1 DEF InStep, InStepAnswer
  <2>3. closed[k] = {}
    <3>1. A \notin closed[k] /\ B \notin closed[k] /\ closed[k] \subseteq Peers
      BY <1>1, <2>1, <2>2 DEF PlaceInv, TypeInv, NetType
    <3>2. QED
      BY <3>1
  <2>4. wire'[k][A] # <<>>
    <3>1. wire'[k][A] = Append(wire[k][A], <<"state", w[B][k].state>>)
      BY <2>1, <2>3, OtherPeer DEF Sent
    <3>2. wire[k][A] \in Seq(Messages)
      BY <1>1 DEF TypeInv, NetType
    <3>3. QED
      BY <3>1, <3>2, AppendProperties
  <2>5. Deciding(k)' /\ Sized(k)'
    BY <1>3, <2>1, <2>2, <2>4 DEF Deciding, Sized
  <2>6. InStepHeader(k)'
    BY <2>5 DEF InStepHeader
  <2>7. QED
    BY <1>1, <1>3, <2>1, <2>6 DEF StepInv, InStep, InStepNone, InStepAsk, InStepAnswer, InStepFile, InStepEnd
<1>8. CASE CloseFileDoes(k)
  <2>1. /\ w[B][k].pc = "body" /\ w[B][k].blocks = 0 /\ w'[B][k].pc = "ask"
        /\ w'[B][k].left = w[B][k].left /\ wire' = wire
    BY <1>8 DEF CloseFileDoes, StepsTo, Becomes, NetSame
  <2>2. Ahead(k) /\ w[A][k].left = w[B][k].left /\ Rest(k, 1, 0)
    BY <1>1, <2>1 DEF InStep, InStepFile
  <2>3. InStepAsk(k)'
    BY <1>3, <2>1, <2>2 DEF InStepAsk, Rest, Question
  <2>4. QED
    BY <1>1, <1>3, <2>1, <2>3 DEF StepInv, InStep, InStepNone, InStepAnswer, InStepFile, InStepHeader, InStepEnd
<1>9. CASE BreaksDoes(B, k)
  <2>1. /\ closed[k] # {} /\ w[B][k].pc \in {"ask", "header", "body", "answer"} /\ w'[B][k].pc = "failed"
        /\ w[B][k].pc = "ask" => w[B][k].left > 0
        /\ w[B][k].pc \in {"ask", "header"} => ReadFails(B, k)
        /\ w[B][k].pc = "body" => B \in closed[k]
    BY <1>9 DEF BreaksDoes, StepsTo, Becomes
  <2>2. B \notin closed[k] /\ A \in closed[k]
    <3>1. B \notin closed[k] /\ closed[k] \subseteq Peers
      BY <1>1, <2>1 DEF PlaceInv, TypeInv, NetType
    <3>2. QED
      BY <2>1, <3>1
  <2>3. w[A][k].pc \in {"complete", "gone"} /\ w[B][k].pc # "body"
    BY <1>1, <2>1, <2>2 DEF PlaceInv
  <2>4. w[B][k].pc # "answer"
    BY <1>1, <2>3 DEF InStep, InStepAnswer
  <2>5. wire[k][B] = <<>>
    BY <2>1, <2>2, <2>3, <2>4 DEF ReadFails
  <2>6. w[B][k].left \in Nat
    BY <1>1, Lengths
  <2>7. w[B][k].pc # "ask"
    BY <1>1, <2>1, <2>3, <2>6 DEF InStep, InStepAsk, Ahead
  <2>8. Deciding(k)
    BY <1>1, <2>1, <2>3, <2>4, <2>5, <2>7 DEF InStep, InStepHeader
  <2>9. outcome[A][k] = "aborted"
    BY <1>1, <2>3, <2>8 DEF Deciding, OutcomeInv
  <2>10. InStepEnd(k)'
    BY <1>2, <1>3, <2>1, <2>3, <2>9 DEF InStepEnd
  <2>11. QED
    BY <1>1, <1>3, <2>1, <2>10 DEF StepInv, InStep, InStepNone, InStepAsk, InStepAnswer, InStepFile, InStepHeader
<1>10. QED
  BY <1>4, <1>5, <1>6, <1>7, <1>8, <1>9
(* What the receiver reports.                                              *)
LEMMA ReceiverReports ==
  ASSUME NEW k \in Transfers, Steady(k), Undisturbed', w[A][k].pc # "none", w[B][k].pc # "none", Reports(B, k)
  PROVE  StepInv(k)'
<1> USE Peer
<1>1. /\ TypeInv /\ PlaceInv /\ InStep(k) /\ w[A][k].pc \notin {"failed", "broken"}
      /\ OutcomeInv(k) /\ SenderInv(k) /\ w[B][k].pc # "broken"
  BY DEF Steady, StepInv, WholeInv
<1>2. Others(B, k) /\ outcome'[A][k] = outcome[A][k]
  BY DEF Reports, AbortedDoes, CompletedDoes, FailedDoes, ReportDoes, OutcomeSet, StepsTo, Becomes
<1>3. w'[A][k] = w[A][k] /\ Ahead(k)' = Ahead(k)
  BY <1>2, OnlyReceiver
<1>4. EndsOwn(B, k)
  <2>1. w[B][k].pc \in {"ask", "aborted", "complete", "failed"}
    BY <1>1 DEF Reports, AbortedDoes, CompletedDoes, FailedDoes
  <2>2. QED
    BY <1>1, <2>1, CalmReport
<1>5. Deciding(k) => Deciding(k)'
  <2>1. CASE wire'[k] = wire[k]
    BY <1>2, <2>1, OnlyReceiver
  <2>2. CASE A \in closed[k]
    <3>1. w[A][k].pc \in {"complete", "gone"}
      BY <1>1, <2>2 DEF PlaceInv
    <3>2. QED
      BY <1>2, <1>3, <3>1 DEF Deciding
  <2>3. QED
    BY <1>4, <2>1, <2>2, OtherPeer DEF EndsOwn
<1>6. CASE w[B][k].pc = "ask"
  <2>1. w[B][k].left = 0 /\ w'[B][k].pc = "gone" /\ outcome'[B][k] = "ok"
    BY <1>1, <1>6 DEF Reports, AbortedDoes, FailedDoes, CompletedDoes, ReportDoes, OutcomeSet, Becomes, OutcomeInv
  <2>2. Ahead(k) /\ w[A][k].left = 0 /\ Rest(k, 1, 0)
    BY <1>1, <1>6, <2>1 DEF InStep, InStepAsk
  <2>3. w[A][k].pc # "answer"
    BY <1>1, <2>2 DEF SenderInv
  <2>4. w[A][k].blocks = 0
    <3>1. Len(wire[k][B]) + w[A][k].blocks = 1 - 1 + 0 + Question(k) /\ Question(k) = 0
      BY <2>2, <2>3 DEF Rest, Question
    <3>2. Len(wire[k][B]) \in Nat /\ w[A][k].blocks \in Nat
      BY <1>1, Lengths
    <3>3. QED
      BY <3>1, <3>2
  <2>5. InStepEnd(k)'
    BY <1>3, <2>1, <2>2, <2>3, <2>4 DEF InStepEnd
  <2>6. QED
    BY <1>1, <1>3, <2>1, <2>5 DEF StepInv, InStep, InStepNone, InStepAsk, InStepAnswer, InStepFile, InStepHeader
<1>7. CASE w[B][k].pc = "failed"
  <2>1. w'[B][k].pc = "gone" /\ outcome'[B][k] = "failed"
    BY <1>1, <1>7 DEF Reports, AbortedDoes, FailedDoes, CompletedDoes, ReportDoes, OutcomeSet, Becomes, OutcomeInv
  <2>2. InStepEnd(k)'
    BY <1>1, <1>2, <1>3, <1>7, <2>1 DEF InStep, InStepEnd
  <2>3. QED
    BY <1>1, <1>3, <2>1, <2>2 DEF StepInv, InStep, InStepNone, InStepAsk, InStepAnswer, InStepFile, InStepHeader
<1>8. CASE w[B][k].pc \in {"aborted", "complete"}
  <2>1. Deciding(k) /\ Deciding(k)'
    BY <1>1, <1>5, <1>8 DEF InStep, InStepEnd
  <2>2. w'[B][k].pc \in {"complete", "gone"} /\ outcome'[B][k] = "aborted"
    <3>1. w[B][k].pc = "complete" => outcome[B][k] = "aborted"
      BY <1>1 DEF OutcomeInv
    <3>2. w[B][k].pc = "aborted" => outcome[B][k] = "none"
      BY <1>1 DEF OutcomeInv
    <3>3. QED
      BY <1>8, <3>1, <3>2 DEF Reports, AbortedDoes, FailedDoes, CompletedDoes, ReportDoes, OutcomeSet, StepsTo, Becomes
  <2>3. InStepEnd(k)'
    BY <2>1, <2>2 DEF InStepEnd
  <2>4. QED
    BY <1>1, <1>3, <2>2, <2>3 DEF StepInv, InStep, InStepNone, InStepAsk, InStepAnswer, InStepFile, InStepHeader
<1>9. QED
  BY <1>1, <1>6, <1>7, <1>8 DEF Reports, AbortedDoes, CompletedDoes, FailedDoes

LEMMA WorkerInStep ==
  ASSUME NEW x \in Peers, NEW k \in Transfers, Steady(k), Undisturbed', WorkerDoes(x, k)
  PROVE  StepInv(k)'
<1>1. w[x][k].pc # "none"
  BY WorkerAtWork DEF Reports, AbortedDoes, CompletedDoes, FailedDoes, Active
<1>2. w[A][k].pc # "none"
  BY <1>1, Peer DEF Steady, WholeInv, StartInv
<1>3. CASE x = A
  BY <1>2, <1>3, SenderSteps
<1>4. CASE x = B
  BY <1>1, <1>2, <1>4, Peer, ReceiverTakes, ReceiverGoesOn, ReceiverReports DEF WorkerDoes
<1>5. QED
  BY <1>3, <1>4, Peer

(* The other steps.                                                        *)
LEMMA AcceptInStep ==
  ASSUME NEW k \in Transfers, Steady(k), FreshInv, k = n, AcceptDoes
  PROVE  StepInv(k)'
<1> USE Peer
<1>1. /\ TypeInv /\ WholeInv(k) /\ w[A][k].pc = "none"
      /\ Becomes(A, k, "ask", "Continue", "Continue", Len(files), 0) /\ files' = files
      /\ wire'[k][B] = Append(wire[k][B], <<"count", Len(files)>>)
  BY DEF Steady, FreshInv, AcceptDoes
<1>2. w[B][k].pc = "none" /\ wire[k][B] = <<>>
  BY <1>1 DEF WholeInv, StartInv
<1>3. w'[B][k] = w[B][k] /\ w'[A][k].pc = "ask" /\ w'[A][k].left = Len(files) /\ w'[A][k].blocks = 0
  BY <1>1 DEF Becomes, Others
<1>4. Len(wire'[k][B]) = 1 /\ wire'[k][B][1] = <<"count", Len(files)>> /\ wire'[k][B] # <<>>
  BY <1>1, <1>2
<1>5. Rest(k, 2, 0)'
  <2>1. Question(k)' = 0
    BY <1>3 DEF Question
  <2>2. 2 .. Len(wire'[k][B]) = {}
    BY <1>4
  <2>3. Len(wire'[k][B]) + w'[A][k].blocks = 2 - 1 + 0 + Question(k)'
    BY <1>3, <1>4, <2>1
  <2>4. QED
    BY <2>2, <2>3 DEF Rest
<1>6. InStepNone(k)'
  BY <1>1, <1>3, <1>4, <1>5 DEF InStepNone, Ahead
<1>7. QED
  BY <1>2, <1>3, <1>6 DEF StepInv, InStep, InStepAsk, InStepAnswer, InStepFile, InStepHeader, InStepEnd

LEMMA CountInStep ==
  ASSUME NEW k \in Transfers, Steady(k), AskedInv, k = asking, CountDoes
  PROVE  StepInv(k)'
<1> USE Peer
<1>1. /\ TypeInv /\ WholeInv(k) /\ w[B][k].pc = "none" /\ Got(B, k) /\ BookSame
      /\ Becomes(B, k, "ask", "Continue", "Continue", wire[k][B][1][2], 0)
  BY DEF Steady, AskedInv, Asking, CountDoes
<1>2. w[A][k].pc # "none"
  BY <1>1 DEF WholeInv, StartInv, Got
<1>3. w[A][k].pc \notin {"failed", "broken"} /\ InStepNone(k)
  BY <1>2 DEF Steady, StepInv, InStep
<1>4. Others(B, k) /\ w'[B][k].pc = "ask" /\ w'[B][k].left = wire[k][B][1][2]
  BY <1>1 DEF Becomes
<1>5. w'[A][k] = w[A][k] /\ Ahead(k)' = Ahead(k)
  BY <1>1, <1>4, OnlyReceiver DEF BookSame
<1>6. /\ w[A][k].left = Len(files) /\ Ahead(k) /\ wire[k][B][1] = <<"count", Len(files)>> /\ Rest(k, 2, 0)
  BY <1>1, <1>3 DEF InStepNone
<1>7. w'[B][k].left = w'[A][k].left
  <2>1. wire[k][B][1][2] = Len(files)
    BY <1>6
  <2>2. QED
    BY <1>4, <1>5, <1>6, <2>1
<1>8. Rest(k, 1, 0)'
  BY <1>1, <1>5, <1>6, RestRead
<1>9. InStepAsk(k)'
  BY <1>5, <1>6, <1>7, <1>8 DEF InStepAsk
<1>10. QED
  BY <1>3, <1>4, <1>5, <1>9 DEF StepInv, InStep, InStepNone, InStepAnswer, InStepFile, InStepHeader, InStepEnd

LEMMA CancelInStep ==
  ASSUME NEW x \in Peers, NEW k \in Transfers, Steady(k), Undisturbed', CancelDoes(x)
  PROVE  StepInv(k)'
<1> USE Peer
<1>1. /\ wire' = wire /\ outcome' = outcome /\ files' = files
      /\ \A y \in Peers : /\ w'[y][k].pc = w[y][k].pc /\ w'[y][k].left = w[y][k].left
                          /\ w'[y][k].blocks = w[y][k].blocks
  BY DEF CancelDoes, Becomes, Others, NetSame, AppSame
<1>2. w[B][k].pc = "check" /\ w[B][k].state = "Continue" => w'[B][k].state = "Continue"
  <2>1. SUFFICES ASSUME w[B][k].pc = "check", w[B][k].state = "Continue", w'[B][k] # w[B][k] PROVE FALSE
    OBVIOUS
  <2>2. x = B /\ k = cur[x]
    BY <2>1 DEF CancelDoes, Becomes, Others
  <2>3. late' # {}
    BY <2>1, <2>2 DEF CancelDoes
  <2>4. QED
    BY <2>3 DEF Undisturbed
<1>3. Ahead(k)' = Ahead(k) /\ Deciding(k)' = Deciding(k) /\ Sized(k)' = Sized(k) /\ Active(A, k)' = Active(A, k)
  BY <1>1 DEF Ahead, Deciding, Sized, Active
<1>4. /\ Rest(k, 2, 0)' = Rest(k, 2, 0) /\ Rest(k, 1, 0)' = Rest(k, 1, 0)
      /\ Rest(k, 1, w[B][k].blocks)' = Rest(k, 1, w[B][k].blocks)
      /\ Rest(k, 2, wire[k][B][1][2])' = Rest(k, 2, wire[k][B][1][2])
  BY <1>1 DEF Rest, Question
<1>5. StepInv(k)
  BY DEF Steady
<1>6. QED
  BY <1>1, <1>2, <1>3, <1>4, <1>5
     DEF StepInv, InStep, InStepNone, InStepAsk, InStepAnswer, InStepHeader, InStepFile, InStepEnd
LEMMA ApartInStep ==
  ASSUME NEW x \in Peers, NEW j \in Transfers, NEW k \in Transfers, k # j, Steady(k), Undisturbed',
         WorkerDoes(x, j), w[x][j].pc \notin {"none", "broken"}, files' = files
  PROVE  StepInv(k)'
<1>1. Kept(k)
  BY Apart
<1>2. wire'[k] = wire[k]
  <2>1. CASE Reports(x, j)
    <3>1. w[x][j].pc \in {"ask", "aborted", "complete", "failed"}
      BY <2>1 DEF Reports, AbortedDoes, CompletedDoes, FailedDoes, ReportDoes
    <3>2. EndsOwn(x, j)
      BY <2>1, <3>1, CalmReport DEF Steady
    <3>3. QED
      BY <3>2 DEF EndsOwn
  <2>2. CASE ~Reports(x, j)
    BY <2>2 DEF WorkerDoes, AskDoes, WriteHeaderDoes, WriteBlockDoes, AnswerDoes, ReadHeaderDoes, ReadBlockDoes,
       CloseFileDoes, ReadStateDoes, TestDoes, AssignDoes, CheckDoes, BreaksDoes, ProgressDoes, Sent, Got, NetSame, Elsewhere
  <2>3. QED
    BY <2>1, <2>2
<1>3. QED
  BY <1>1, <1>2, StepStill DEF Kept, BookKept, Steady

LEMMA StepStep ==
  ASSUME BookInv, AskedInv, PlaceInv, \A k \in Transfers : StepInv(k) /\ TalkInv(k),
         Undisturbed, Undisturbed', Next, NEW k \in Transfers
  PROVE  StepInv(k)'
<1>1. TypeInv /\ FreshInv /\ \A j \in Transfers : WholeInv(j) /\ Steady(j)
  BY DEF BookInv, Steady, Undisturbed
<1>2. Cases /\ ~Closing /\ files' = files
  BY <1>1, StepCases, NoClosing, FilesStay
<1>3. CASE Handshake
  <2>1. wire' = wire /\ w' = w /\ outcome' = outcome
    BY <1>3, HandshakeKeeps
  <2>2. QED
    BY <1>2, <2>1, StepStill
<1>4. CASE AcceptDoes
  <2>1. CASE k = n
    BY <1>1, <1>4, <2>1, AcceptInStep
  <2>2. CASE k # n
    <3>1. wire'[k] = wire[k] /\ \A x \in Peers : w'[x][k] = w[x][k] /\ outcome'[x][k] = outcome[x][k]
      BY <1>4, <2>2 DEF AcceptDoes, Elsewhere, Becomes, Others, BookSame
    <3>2. QED
      BY <1>2, <3>1, StepStill
  <2>3. QED
    BY <2>1, <2>2
<1>5. CASE CountDoes
  <2>1. CASE k = asking
    BY <1>1, <1>5, <2>1, CountInStep
  <2>2. CASE k # asking
    <3>1. wire'[k] = wire[k] /\ \A x \in Peers : w'[x][k] = w[x][k] /\ outcome'[x][k] = outcome[x][k]
      BY <1>5, <2>2 DEF CountDoes, Got, Elsewhere, Becomes, Others, BookSame
    <3>2. QED
      BY <1>2, <3>1, StepStill
  <2>3. QED
    BY <2>1, <2>2
<1>6. ASSUME NEW x \in Peers, CancelDoes(x) PROVE StepInv(k)'
  BY <1>1, <1>6, CancelInStep
<1>7. ASSUME NEW x \in Peers, NEW j \in Transfers, WorkerDoes(x, j) PROVE StepInv(k)'
  <2>1. w[x][j].pc # "none"
    BY <1>7, WorkerAtWork DEF Reports, AbortedDoes, CompletedDoes, FailedDoes, Active
  <2>2. w[A][j].pc # "none"
    BY <1>1, <2>1, Peer DEF WholeInv, StartInv
  <2>3. w[x][j].pc # "broken"
    BY <2>2, Peer DEF StepInv
  <2>4. CASE j = k
    BY <1>1, <1>7, <2>4, WorkerInStep
  <2>5. CASE j # k
    BY <1>1, <1>2, <1>7, <2>1, <2>3, <2>5, ApartInStep
  <2>6. QED
    BY <2>4, <2>5
<1>8. QED
  BY <1>2, <1>3, <1>4, <1>5, <1>6, <1>7 DEF Cases
-----------------------------------------------------------------------------
LEMMA AgreeInit == Init => AgreeInv
<1> SUFFICES ASSUME Init PROVE AgreeInv
  OBVIOUS
<1> USE Peer
<1>1. BookInv
  BY BookInit
<1>2. /\ \A x \in Peers, k \in Transfers : /\ w[x][k].pc = "none" /\ wire[k][x] = <<>> /\ outcome[x][k] = "none"
                                           /\ closed[k] = {}
      /\ \A x \in Peers : ui[x] = "loop" /\ dgrams[x] = <<>>
  BY DEF Init, NoWorker
<1>3. AskedInv /\ HeardInv
  BY <1>2 DEF AskedInv, HeardInv, Asking, Init, Pending, Datagram
<1>4. PlaceInv
  <2>1. PlaceListen
    BY <1>2 DEF PlaceListen, Init, Pending, Done, Datagram
  <2>2. QED
    BY <1>2, <2>1 DEF PlaceInv, Active, Asking
<1>5. \A k \in Transfers : StepInv(k)
  BY <1>2 DEF StepInv
<1>6. ASSUME NEW k \in Transfers PROVE TalkInv(k)
  <2>1. Len(wire[k][B]) = 0
    BY <1>2
  <2>2. TurnInv(k)
    BY <1>2, <2>1 DEF TurnInv, Asked, StateSent, Answers
  <2>3. DecideInv(k) /\ AbortInv(k)
    BY <1>2 DEF DecideInv, Decides, AbortInv, AbortSent
  <2>4. QED
    BY <2>2, <2>3 DEF TalkInv
<1>7. QED
  BY <1>1, <1>3, <1>4, <1>5, <1>6 DEF AgreeInv, CalmInv

LEMMA AgreeStutters == AgreeInv /\ UNCHANGED vars => AgreeInv'
<1> SUFFICES ASSUME AgreeInv, UNCHANGED vars PROVE AgreeInv'
  OBVIOUS
<1>1. /\ UNCHANGED <<calm, files, n, ui, busy, cur, asking, dgrams, link, closed, wire, w, outcome, received, late, victim>>
      /\ UNCHANGED <<field, calls, astray>>
  BY DEF vars, app, listen, net, book
<1>2. BookInv'
  BY BookStutters DEF AgreeInv
<1>3. AskedInv' /\ HeardInv'
  BY <1>1 DEF AgreeInv, AskedInv, HeardInv, Asking
<1>4. \A k \in Transfers : TalkInv(k)'
  BY <1>1 DEF AgreeInv, TalkInv, TurnInv, DecideInv, AbortInv, StateSent, Answers, Asked, Waits, Decides, Stuck,
     AbortSent, WillAbort
<1>5. Undisturbed' => Undisturbed /\ PlaceInv /\ \A k \in Transfers : StepInv(k)
  BY <1>1 DEF AgreeInv, CalmInv, Undisturbed
<1>6. Undisturbed' => PlaceInv'
  BY <1>1, <1>5 DEF PlaceInv, PlaceListen, Active, Asking
<1>7. ASSUME Undisturbed', NEW k \in Transfers PROVE StepInv(k)'
  BY <1>1, <1>5, <1>7, StepStill
<1>8. QED
  BY <1>2, <1>3, <1>4, <1>6, <1>7 DEF AgreeInv, CalmInv

(* What is known of the conversation, and in calm weather of the places of *)
(* the two workers, always.                                                *)
THEOREM Agreement == Spec => []AgreeInv
<1>1. Init => AgreeInv
  BY AgreeInit
<1>2. AgreeInv /\ [Next]_vars => AgreeInv'
  <2>1. SUFFICES ASSUME AgreeInv, Next PROVE AgreeInv'
    BY AgreeStutters
  <2>2. BookInv /\ AskedInv /\ HeardInv /\ CalmInv /\ \A k \in Transfers : TalkInv(k)
    BY <2>1 DEF AgreeInv
  <2>3. TypeInv /\ FreshInv /\ \A k \in Transfers : WholeInv(k)
    BY <2>2 DEF BookInv
  <2>4. BookInv'
    <3>1. TypeInv'
      BY <2>1, <2>3, TypeStep
    <3>2. FreshInv'
      BY <2>1, <2>2, FreshStep
    <3>3. \A k \in Transfers : WholeInv(k)'
      BY <2>1, <2>2, WholeStep
    <3>4. QED
      BY <3>1, <3>2, <3>3 DEF BookInv
  <2>5. AskedInv' /\ HeardInv'
    BY <2>1, <2>2, AskedStep, HeardStep
  <2>6. \A k \in Transfers : TalkInv(k)'
    BY <2>1, <2>2, TalkStep
  <2>7. ASSUME Undisturbed' PROVE PlaceInv' /\ \A k \in Transfers : StepInv(k)'
    <3>1. Undisturbed
      BY <2>1, <2>3, <2>7, CalmBefore
    <3>2. PlaceInv /\ \A k \in Transfers : StepInv(k)
      BY <2>2, <3>1 DEF CalmInv
    <3>3. PlaceInv'
      BY <2>1, <2>2, <2>7, <3>1, <3>2, PlaceStep
    <3>4. \A k \in Transfers : StepInv(k)'
      BY <2>1, <2>2, <2>7, <3>1, <3>2, StepStep
    <3>5. QED
      BY <3>3, <3>4
  <2>8. CalmInv'
    BY <2>7 DEF CalmInv
  <2>9. QED
    BY <2>4, <2>5, <2>6, <2>8 DEF AgreeInv
<1>3. QED
  BY <1>1, <1>2, PTL DEF Spec

(* The two users are told the same: outside the two races a receiver that  *)
(* completes and a sender that aborts do not meet, in any weather, and in  *)
(* calm weather no program crashes and a transfer that one side completes  *)
(* is completed by the other.                                              *)
THEOREM FileTransferOutcomesAgree == Spec => []OutcomesAgree
<1>1. AgreeInv => OutcomesAgree
  <2> USE Peer
  <2> SUFFICES ASSUME AgreeInv, NEW k \in Transfers, k \notin late \union victim
               PROVE  /\ outcome[B][k] = "ok" => outcome[A][k] # "aborted"
                      /\ outcome[A][k] = "ok" => outcome[B][k] # "aborted"
                      /\ calm /\ ~astray /\ late \union victim = {} =>
                           /\ \A x \in Peers : ui[x] # "dead"
                           /\ outcome[B][k] = "ok" => outcome[A][k] \in {"none", "ok"}
                           /\ outcome[A][k] = "ok" => outcome[B][k] \in {"none", "ok"}
    BY DEF OutcomesAgree
  <2>1. /\ TypeInv /\ WholeInv(k) /\ DecideInv(k) /\ AbortInv(k)
        /\ \A x \in Peers : /\ outcome[x][k] # "none" <=> w[x][k].pc \in {"complete", "gone"}
                            /\ w[x][k].pc = "complete" => outcome[x][k] = "aborted"
    BY DEF AgreeInv, BookInv, TalkInv, WholeInv, OutcomeInv
  <2>2. \A x \in Peers : outcome[x][k] \in {"ok", "failed"} => w[x][k].pc = "gone"
    BY <2>1
  <2>3. outcome[B][k] = "ok" => outcome[A][k] # "aborted"
    BY <2>1, <2>2 DEF DecideInv, Decides, Stuck
  <2>4. outcome[A][k] = "ok" => outcome[B][k] # "aborted"
    BY <2>1, <2>2 DEF AbortInv, AbortSent, WillAbort
  <2>5. ASSUME calm, ~astray, late \union victim = {}
        PROVE  /\ \A x \in Peers : ui[x] # "dead"
               /\ outcome[B][k] = "ok" => outcome[A][k] \in {"none", "ok"}
               /\ outcome[A][k] = "ok" => outcome[B][k] \in {"none", "ok"}
    <3>1. PlaceInv /\ StepInv(k)
      BY <2>5 DEF AgreeInv, CalmInv, Undisturbed
    <3>2. outcome[A][k] \in Ends /\ outcome[B][k] \in Ends
      BY <2>1 DEF TypeInv, BookType
    <3>3. ASSUME outcome[B][k] = "ok" PROVE outcome[A][k] # "failed"
      <4>1. w[B][k].pc = "gone"
        BY <2>2, <3>3
      <4>2. w[A][k].pc # "none"
        BY <2>1, <4>1 DEF WholeInv, StartInv
      <4>3. Ahead(k)
        BY <3>1, <3>3, <4>1, <4>2 DEF StepInv, InStep, InStepEnd
      <4>4. QED
        BY <2>2, <4>3 DEF Ahead
    <3>4. ASSUME outcome[A][k] = "ok" PROVE outcome[B][k] # "failed"
      <4>1. w[A][k].pc = "gone"
        BY <2>2, <3>4
      <4>2. QED
        BY <2>2, <3>1, <3>4, <4>1 DEF StepInv, InStep, InStepEnd
    <3>5. QED
      BY <2>3, <2>4, <3>1, <3>2, <3>3, <3>4 DEF PlaceInv, Ends
  <2>6. QED
    BY <2>3, <2>4, <2>5
<1>2. QED
  BY <1>1, Agreement, PTL
=============================================================================
