----------------------------- MODULE ByteStream -----------------------------
(***************************************************************************)
(* What ProactorFile promises of its reads, without buffers: the peer's    *)
(* bytes arrive in order, at most one read is pending, and a read is       *)
(* answered from the position where the previous one stopped, as soon or   *)
(* as late as the implementation likes.                                    *)
(***************************************************************************)
EXTENDS Integers, Sequences, FiniteSets

CONSTANTS
  Inputs,       \* what a peer may send over one connection
  Delimiter,    \* the delimiter of readLine
  Counts,       \* the byte counts readN is called with
  None          \* no pending read, no answer yet

VARIABLES input, received, ended, consumed, request, answer

streamVars == <<input, received, ended, consumed, request, answer>>

Requests == [op : {"line", "some"}] \union [op : {"n"}, n : Counts]

Fresh == /\ received = 0 /\ ended = FALSE
         /\ consumed = 0 /\ request = None /\ answer = None

Init == input \in Inputs /\ Fresh

(* Some more bytes, the end of the stream, or both: the end is not known   *)
(* before the last byte is here.                                           *)
Arrive == /\ received' \in received..Len(input)
          /\ ended' \in {ended, TRUE}
          /\ ended' => received' = Len(input)
          /\ UNCHANGED <<input, consumed, request, answer>>

Ask == /\ request = None
       /\ request' \in Requests
       /\ UNCHANGED <<input, received, ended, consumed, answer>>

Available == SubSeq(input, consumed + 1, received)
Delimiters == {i \in 1..Len(Available) : Available[i] = Delimiter}

(* Answer with the next n bytes and skip what separates them from the rest.*)
Give(n, skip) ==
  /\ answer' = [op |-> request.op, data |-> SubSeq(Available, 1, n),
                eof |-> ended /\ Available = <<>>]
  /\ consumed' = consumed + n + skip
  /\ request' = None
  /\ UNCHANGED <<input, received, ended>>

AnswerLine == /\ request # None /\ request.op = "line"
              /\ \/ \E i \in Delimiters : (\A j \in Delimiters : i <= j) /\ Give(i - 1, 1)
                 \/ Delimiters = {} /\ ended /\ Give(Len(Available), 0)

AnswerN == /\ request # None /\ request.op = "n"
           /\ \/ Len(Available) >= request.n /\ Give(request.n, 0)
              \/ Len(Available) < request.n /\ ended /\ Give(Len(Available), 0)

(* Whatever there is, which is never nothing.                              *)
AnswerSome == /\ request # None /\ request.op = "some"
              /\ Available # <<>> /\ Give(Len(Available), 0)

(* The file serves another connection.                                     *)
Reopen == input' \in Inputs /\ Fresh'

Next == Arrive \/ Ask \/ AnswerLine \/ AnswerN \/ AnswerSome \/ Reopen

Spec == Init /\ [][Next]_streamVars
=============================================================================
