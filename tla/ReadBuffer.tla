----------------------------- MODULE ReadBuffer -----------------------------
(***************************************************************************)
(* EventDrivenReadBuffer2 of C++/TCPSocket/IO.cpp: the buffer between a    *)
(* socket and the callbacks of readLine, readN and readSome.               *)
(*                                                                         *)
(* mBuf is buf, its first mDataEnd bytes, and size, mBuf.size(); mDataEnd  *)
(* is Len(buf).  A call of tryCompleteReadLine, ...ReadN or ...ReadSome    *)
(* that is still to be made is an element of stages: onRead makes the      *)
(* three of them in turn, a read method makes its own, at once.  While a   *)
(* callback runs (calling) the application may ask for the next read.      *)
(***************************************************************************)
EXTENDS Integers, Sequences, FiniteSets

CONSTANTS
  Inputs,       \* what may reach this end over one connection
  Delimiter,    \* mReadLineDelmit
  Counts,       \* the values of mReadNN
  Chunk,        \* 1024, by which mBuf grows
  None          \* no callback is set, or none was called yet

ASSUME ChunkAssumption == Chunk \in Nat \ {0} /\ Counts \subseteq Nat
ASSUME InputsAssumption == \A s \in Inputs : s \in Seq({s[i] : i \in DOMAIN s})

VARIABLES
  mBlocking,            \* onReadBlocking or onReadNonblocking, for good
  input, sent, closed,  \* the peer: its bytes, how many are here, whether it closed
  reset,                \* the connection was reset, and no read has reported it yet
  received,             \* bytes read from the socket
  buf, begin, size,     \* mBuf up to mDataEnd, mDataBegin, mBuf.size()
  mEof,
  request,              \* the callback that is set, with mReadNN
  stages, calling,      \* the calls to make, and whether a callback runs
  answer,               \* the arguments of the last callback
  threw                 \* the last onRead ended with an exception

peerVars == <<input, sent, closed, reset>>
vars == <<mBlocking, peerVars, received, buf, begin, size, mEof, request, stages, calling, answer, threw>>

Requests == [op : {"line", "some"}] \union [op : {"n"}, n : Counts]

Init == /\ mBlocking \in BOOLEAN
        /\ input \in Inputs /\ sent = 0 /\ closed = FALSE /\ reset = FALSE /\ received = 0
        /\ buf = <<>> /\ begin = 0 /\ size = Chunk /\ mEof = FALSE
        /\ request = None /\ stages = <<>> /\ calling = FALSE /\ answer = None
        /\ threw = FALSE
-----------------------------------------------------------------------------
(* The peer and the network                                                *)

Send == /\ ~closed /\ sent < Len(input)
        /\ sent' \in sent + 1..Len(input)
        /\ UNCHANGED <<mBlocking, input, closed, reset, received, buf, begin, size, mEof,
                       request, stages, calling, answer, threw>>

(* The peer closes, or the connection is reset after what has arrived: one *)
(* read, once there are no more bytes, then fails, and the next find the   *)
(* end.                                                                    *)
Close == /\ ~closed /\ sent = Len(input)
         /\ closed' = TRUE
         /\ reset' \in BOOLEAN
         /\ UNCHANGED <<mBlocking, input, sent, received, buf, begin, size, mEof,
                        request, stages, calling, answer, threw>>
-----------------------------------------------------------------------------
(* The file                                                                *)

Idle == stages = <<>> /\ ~calling
Readable == sent > received \/ closed

Take(k) == /\ buf' = buf \o SubSeq(input, received + 1, received + k)
           /\ received' = received + k

(* Mutant: onRead does not try to complete a readN.                        *)
AttemptsWithoutN == <<"line", "some">>

(* The calls onRead ends with.                                             *)
Attempts == <<"line", "n", "some">>

(* One read of at most the free space; 0 bytes are the end.                *)
OnReadBlocking ==
  /\ mBlocking /\ Idle /\ Readable /\ ~(reset /\ sent = received)
  /\ size' = IF Len(buf) = size THEN size + Chunk ELSE size
  /\ IF sent = received
     THEN mEof' = TRUE /\ UNCHANGED <<buf, received>>
     ELSE /\ \E k \in 1..sent - received : k <= size' - Len(buf) /\ Take(k)
          /\ UNCHANGED mEof
  /\ stages' = Attempts /\ threw' = FALSE
  /\ UNCHANGED <<mBlocking, peerVars, begin, request, calling, answer>>

(* mBuf when the loop of onReadNonblocking is left: the read that found    *)
(* nothing had space, too.                                                 *)
GrownSize == IF Len(buf') < size THEN size
             ELSE size + ((Len(buf') - size) \div Chunk + 1) * Chunk

(* Reads until there is no more; a last read finds that out, and needs     *)
(* space of its own.  A byte sent meanwhile is one sent before.            *)
OnReadNonblocking ==
  /\ ~mBlocking /\ Idle /\ Readable /\ ~reset
  /\ Take(sent - received)
  /\ mEof' = closed
  /\ size' = GrownSize
  /\ stages' = Attempts /\ threw' = FALSE
  /\ UNCHANGED <<mBlocking, peerVars, begin, request, calling, answer>>

(* P_ENSURE of readSome: the exception leaves onRead, and wait, before the *)
(* attempts, though the rounds before may have filled the buffer.          *)
OnReadThrows ==
  /\ Idle /\ reset
  /\ \/ mBlocking /\ sent = received /\ UNCHANGED <<buf, received, mEof>>
        /\ size' = IF Len(buf) = size THEN size + Chunk ELSE size
     \/ ~mBlocking /\ Take(sent - received) /\ mEof' = FALSE /\ size' = GrownSize
  /\ reset' = FALSE /\ threw' = TRUE
  /\ UNCHANGED <<mBlocking, input, sent, closed, begin, request, stages, calling, answer>>

(* Mutant: a read method waits for the next onRead.                        *)
AskLater == /\ Idle \/ calling
            /\ request = None
            /\ request' \in Requests
            /\ calling' = FALSE
            /\ UNCHANGED <<mBlocking, peerVars, received, buf, begin, size, mEof, stages, answer, threw>>

(* readLine, readN, readSome.  The assertion is that no callback is set.   *)
Ask == /\ Idle \/ calling
       /\ request = None
       /\ request' \in Requests
       /\ stages' = <<request'.op>> \o stages
       /\ calling' = FALSE
       /\ UNCHANGED <<mBlocking, peerVars, received, buf, begin, size, mEof, answer, threw>>

Consume(n) == IF begin + n = Len(buf) THEN begin' = 0 /\ buf' = <<>>
              ELSE begin' = begin + n /\ UNCHANGED buf

(* Mutant: the last bytes before the end are already called the end.       *)
EndEarly == mEof

End == mEof /\ Len(buf) = 0

(* The callback is unset, then called with n bytes.                        *)
Callback(n) == /\ answer' = [op |-> request.op, data |-> SubSeq(buf, begin + 1, begin + n), eof |-> End]
               /\ request' = None
               /\ calling' = TRUE
               /\ stages' = Tail(stages)
               /\ UNCHANGED <<mBlocking, peerVars, received, size, mEof, threw>>

Trying(op) == ~calling /\ stages # <<>> /\ Head(stages) = op
Armed(op)  == request # None /\ request.op = op

Delimiters == {i \in begin + 1..Len(buf) : buf[i] = Delimiter}

(* Mutant: the delimiter is left in the buffer.                            *)
TryLineKeepsDelimiter ==
  /\ Trying("line") /\ Armed("line")
  /\ \/ \E i \in Delimiters : /\ \A j \in Delimiters : i <= j
                              /\ Consume(i - 1 - begin) /\ Callback(i - 1 - begin)
     \/ Delimiters = {} /\ mEof /\ Consume(Len(buf) - begin) /\ Callback(Len(buf) - begin)

(* tryCompleteReadLine: up to the first delimiter, or all that is left.    *)
TryLine ==
  /\ Trying("line") /\ Armed("line")
  /\ \/ \E i \in Delimiters : /\ \A j \in Delimiters : i <= j
                              /\ Consume(i - begin) /\ Callback(i - 1 - begin)
     \/ Delimiters = {} /\ mEof /\ Consume(Len(buf) - begin) /\ Callback(Len(buf) - begin)

TryN == /\ Trying("n") /\ Armed("n")
        /\ \/ Len(buf) - begin >= request.n /\ Consume(request.n) /\ Callback(request.n)
           \/ Len(buf) - begin < request.n /\ mEof /\ Consume(Len(buf) - begin) /\ Callback(Len(buf) - begin)

TrySome == /\ Trying("some") /\ Armed("some")
           /\ Len(buf) # begin /\ Consume(Len(buf) - begin) /\ Callback(Len(buf) - begin)

(* The read that is set, if any, cannot be completed with the bytes here.  *)
Incomplete(op) ==
  Armed(op) => CASE op = "line" -> Delimiters = {} /\ ~mEof
                 [] op = "n"    -> Len(buf) - begin < request.n /\ ~mEof
                 [] op = "some" -> Len(buf) = begin

TryFails == /\ \E op \in {"line", "n", "some"} : Trying(op) /\ Incomplete(op)
            /\ stages' = Tail(stages)
            /\ UNCHANGED <<mBlocking, peerVars, received, buf, begin, size, mEof, request, calling, answer, threw>>

Return == /\ calling
          /\ calling' = FALSE
          /\ UNCHANGED <<mBlocking, peerVars, received, buf, begin, size, mEof, request, stages, answer, threw>>

(* uninit, and init of the same file for another connection.               *)
Reopen == /\ Idle
          /\ input' \in Inputs /\ sent' = 0 /\ closed' = FALSE /\ reset' = FALSE /\ received' = 0
          /\ buf' = <<>> /\ begin' = 0 /\ size' = Chunk /\ mEof' = FALSE
          /\ request' = None /\ answer' = None /\ threw' = FALSE
          /\ UNCHANGED <<mBlocking, stages, calling>>

OnRead == OnReadBlocking \/ OnReadNonblocking \/ OnReadThrows
Try    == TryLine \/ TryN \/ TrySome \/ TryFails
Next   == Send \/ Close \/ OnRead \/ Ask \/ Try \/ Return \/ Reopen

Spec == Init /\ [][Next]_vars

(* The poller reports a readable file in every wait, the one after an      *)
(* exception included; calls return; and the peer sends all it has and     *)
(* closes, or the connection breaks.                                       *)
FairSpec == /\ Spec
            /\ WF_vars(OnRead) /\ WF_vars(Try) /\ WF_vars(Return)
            /\ WF_vars(Send) /\ WF_vars(Close)
-----------------------------------------------------------------------------
(* Properties                                                              *)

(* The bytes the callbacks were not given yet are those in the buffer.     *)
consumed == received - (Len(buf) - begin)

(* The types, that read never writes past mBuf, and that an empty buffer   *)
(* is rewound, which End relies on.                                        *)
TypeOK ==
  /\ input \in Inputs /\ sent \in 0..Len(input) /\ received \in 0..sent
  /\ mBlocking \in BOOLEAN /\ closed \in BOOLEAN /\ reset \in BOOLEAN /\ mEof \in BOOLEAN /\ calling \in BOOLEAN
  /\ threw \in BOOLEAN
  /\ Len(buf) <= size
  /\ begin \in 0..Len(buf) /\ (begin = Len(buf) => begin = 0)
  /\ request \in Requests \union {None}
  /\ \A i \in DOMAIN stages : stages[i] \in {"line", "n", "some"}

(* A callback is told of the end only when the connection has ended and    *)
(* every byte was given to a callback, and an empty last line is never taken for *)
(* the end, nor the end for an empty line.                                 *)
EofExact ==
  calling =>
    /\ answer.eof => closed /\ consumed = Len(input) /\ answer.data = <<>>
    /\ answer.op = "line" /\ answer.data = <<>> /\ ~answer.eof
         => consumed > 0 /\ input[consumed] = Delimiter

(* Between two events no read waits for bytes that are already buffered,   *)
(* which an edge-triggered poller would never report again.  One exception *)
(* is left by the code: after an onReadNonblocking that threw, a read may  *)
(* wait for bytes that are here; then the end is still to be read, so that *)
(* a level-triggered poller does report the file again.                    *)
NothingServable ==
  Idle => \/ \A op \in {"line", "n", "some"} : Incomplete(op)
          \/ threw /\ ~mBlocking /\ closed /\ ~mEof

Stream == INSTANCE ByteStream WITH ended <- mEof

(* Chunks, rewinding, the order of the three attempts and reads from       *)
(* inside callbacks are invisible: the buffer is a stream.                 *)
ImplementsByteStream == Stream!Spec

(* A line or a count of bytes that was asked for arrives, or the rest of   *)
(* the stream does.                                                        *)
ReadsAreAnswered == (Armed("line") \/ Armed("n")) ~> request = None
=============================================================================
