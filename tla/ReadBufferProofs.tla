-------------------------- MODULE ReadBufferProofs --------------------------
(***************************************************************************)
(* Proofs about EventDrivenReadBuffer2, for every set of inputs, every     *)
(* Chunk and every way the bytes arrive: the end of the stream is told     *)
(* when it is reached, no read waits for bytes that are there, and the     *)
(* buffer implements ByteStream.                                           *)
(***************************************************************************)
EXTENDS ReadBuffer, SequenceTheorems, TLAPS

Bytes == UNION {{s[i] : i \in DOMAIN s} : s \in Inputs}
Ops   == {"line", "n", "some"}

(* The peer, and how much of what it sent was read.                        *)
StreamInv == /\ input \in Inputs /\ sent \in 0 .. Len(input) /\ received \in 0 .. sent
             /\ closed \in BOOLEAN /\ (closed => sent = Len(input))
             /\ mEof \in BOOLEAN /\ (mEof => closed /\ received = Len(input))
             /\ reset \in BOOLEAN /\ (reset => closed /\ ~mEof)

(* The buffer holds the last bytes that were read, and fits into mBuf.  An *)
(* empty buffer is rewound.                                                *)
BufInv == /\ buf \in Seq(Bytes) /\ Len(buf) <= received
          /\ \A i \in 1 .. Len(buf) : buf[i] = input[received - Len(buf) + i]
          /\ begin \in 0 .. Len(buf) /\ (begin = Len(buf) => begin = 0)
          /\ size \in Nat /\ Len(buf) <= size

(* A read that could be completed is going to be tried, unless the attempts*)
(* were skipped by an exception and the end was not read since.            *)
Covered == \A op \in Ops : Incomplete(op) \/ \E i \in DOMAIN stages : stages[i] = op
Skipped == threw /\ ~mBlocking /\ closed /\ ~mEof
CallInv == /\ mBlocking \in BOOLEAN /\ calling \in BOOLEAN /\ threw \in BOOLEAN
           /\ request \in Requests \union {None} /\ stages \in Seq(Ops)
           /\ Covered \/ Skipped

IInv == StreamInv /\ BufInv /\ CallInv /\ EofExact
-----------------------------------------------------------------------------
(* Sequences                                                               *)
LEMMA InputIsSeq ==
  ASSUME NEW s \in Inputs
  PROVE  s \in Seq(Bytes) /\ Len(s) \in Nat /\ \A i \in 1 .. Len(s) : s[i] \in Bytes
<1> DEFINE R == {s[i] : i \in DOMAIN s}
<1>1. s \in Seq(R) /\ R \subseteq Bytes
  BY InputsAssumption DEF Bytes
<1>2. Len(s) \in Nat /\ s \in [1 .. Len(s) -> R] /\ DOMAIN s = 1 .. Len(s)
  BY <1>1, LenProperties
<1>3. s \in Seq(Bytes)
  BY <1>1, <1>2
<1>4. QED
  BY <1>1, <1>2, <1>3

LEMMA PopStage ==
  ASSUME stages \in Seq(Ops), stages # <<>>, stages' = Tail(stages)
  PROVE  /\ stages' \in Seq(Ops) /\ Head(stages) = stages[1] /\ Head(stages) \in Ops
         /\ \A op : (\E i \in DOMAIN stages : stages[i] = op)
              => op = Head(stages) \/ \E i \in DOMAIN stages' : stages'[i] = op
<1>1. /\ stages' \in Seq(Ops) /\ Len(stages') = Len(stages) - 1 /\ Head(stages) \in Ops
      /\ \A i \in 1 .. Len(stages') : stages'[i] = stages[i + 1]
  BY HeadTailProperties
<1>2. Head(stages) = stages[1] /\ Len(stages) \in Nat
  BY LenProperties
<1>3. DOMAIN stages = 1 .. Len(stages) /\ DOMAIN stages' = 1 .. Len(stages')
  BY <1>1, LenProperties
<1>4. ASSUME NEW i \in DOMAIN stages, i # 1
      PROVE  i - 1 \in DOMAIN stages' /\ stages'[i - 1] = stages[i]
  BY <1>1, <1>2, <1>3, <1>4
<1>5. QED
  BY <1>1, <1>2, <1>4

(* No callback is set: nothing is to be completed.                         *)
LEMMA NoneIsIncomplete == request = None => \A op \in Ops : Incomplete(op)
BY DEF Incomplete, Armed

(* Take(k) appends the next k bytes.                                       *)
LEMMA TakeGrows ==
  ASSUME StreamInv, BufInv, NEW k \in 0 .. sent - received, Take(k), input' = input
  PROVE  /\ buf' \in Seq(Bytes) /\ Len(buf') = Len(buf) + k
         /\ received' = received + k /\ received' \in received .. sent
         /\ \A i \in 1 .. Len(buf') : buf'[i] = input[received' - Len(buf') + i]
<1> DEFINE more == SubSeq(input, received + 1, received + k)
<1>1. /\ input \in Seq(Bytes) /\ Len(input) \in Nat /\ received \in Nat /\ sent \in Nat /\ k \in Nat
      /\ received + k <= Len(input) /\ buf \in Seq(Bytes) /\ Len(buf) \in Nat
      /\ \A i \in 1 .. Len(input) : input[i] \in Bytes
  BY InputIsSeq, LenProperties DEF StreamInv, BufInv
<1>2. /\ more \in Seq(Bytes) /\ Len(more) = k
      /\ \A i \in 1 .. k : more[i] = input[received + i]
  <2>1. \A i \in received + 1 .. received + k : input[i] \in Bytes
    BY <1>1
  <2>2. /\ more \in Seq(Bytes)
        /\ Len(more) = IF received + 1 <= received + k THEN received + k - (received + 1) + 1 ELSE 0
        /\ \A i \in 1 .. received + k - (received + 1) + 1 : more[i] = input[received + 1 + i - 1]
    BY <1>1, <2>1, SubSeqProperties
  <2> HIDE DEF more
  <2>3. Len(more) = k
    BY <1>1, <2>2
  <2>4. ASSUME NEW i \in 1 .. k PROVE more[i] = input[received + i]
    <3>1. received + k - (received + 1) + 1 = k /\ received + 1 + i - 1 = received + i
      BY <1>1
    <3>2. QED
      BY <2>2, <3>1
  <2>5. QED
    BY <2>2, <2>3, <2>4
<1>3. buf' = buf \o more /\ received' = received + k
  BY DEF Take
<1> HIDE DEF more
<1>4. /\ buf' \in Seq(Bytes) /\ Len(buf') = Len(buf) + k
      /\ \A i \in 1 .. Len(buf) + k : buf'[i] = IF i <= Len(buf) THEN buf[i] ELSE more[i - Len(buf)]
  BY <1>1, <1>2, <1>3, ConcatProperties
<1>5. ASSUME NEW i \in 1 .. Len(buf') PROVE buf'[i] = input[received' - Len(buf') + i]
  <2>1. received' - Len(buf') + i = received - Len(buf) + i
    BY <1>1, <1>3, <1>4
  <2>2. CASE i <= Len(buf)
    BY <1>1, <1>4, <1>5, <2>1, <2>2 DEF BufInv
  <2>3. CASE i > Len(buf)
    <3>1. i - Len(buf) \in 1 .. k /\ received - Len(buf) + i = received + (i - Len(buf))
      BY <1>1, <1>4, <1>5, <2>3
    <3>2. QED
      BY <1>1, <1>2, <1>4, <1>5, <2>1, <2>3, <3>1
  <2>4. QED
    BY <1>1, <1>4, <2>2, <2>3
<1>6. QED
  BY <1>1, <1>3, <1>4, <1>5

(* mBuf grows by as many chunks as it takes.                               *)
LEMMA Chunks ==
  ASSUME NEW d \in Nat
  PROVE  (d \div Chunk + 1) * Chunk \in Nat /\ d < (d \div Chunk + 1) * Chunk
<1>1. Chunk \in Nat \ {0}
  BY ChunkAssumption
<1>2. PICK q \in Nat, r \in 0 .. Chunk - 1 : d = Chunk * q + r /\ q = d \div Chunk
  BY <1>1
<1>3. (q + 1) * Chunk = Chunk * q + Chunk
  BY <1>1
<1>4. (q + 1) * Chunk \in Nat
  BY <1>1
<1>5. QED
  BY <1>1, <1>2, <1>3, <1>4
-----------------------------------------------------------------------------
(* The steps.                                                              *)
LEMMA InitIInv == Init => IInv
<1> SUFFICES ASSUME Init PROVE IInv
  OBVIOUS
<1>1. StreamInv
  <2>1. input \in Inputs /\ Len(input) \in Nat /\ closed = FALSE /\ mEof = FALSE /\ reset = FALSE
        /\ sent = 0 /\ received = 0
    BY InputIsSeq DEF Init
  <2>2. 0 \in 0 .. Len(input) /\ 0 \in 0 .. 0
    BY <2>1
  <2>3. QED
    BY <2>1, <2>2 DEF StreamInv
<1>2. BufInv
  BY ChunkAssumption DEF Init, BufInv
<1>3. CallInv
  <2>1. request = None /\ stages = <<>> /\ calling = FALSE /\ threw = FALSE /\ mBlocking \in BOOLEAN
    BY DEF Init
  <2>2. \A op \in Ops : Incomplete(op)
    BY <2>1, NoneIsIncomplete
  <2>3. stages \in Seq(Ops)
    BY <2>1
  <2>4. QED
    BY <2>1, <2>2, <2>3 DEF CallInv, Covered
<1>4. EofExact
  BY DEF Init, EofExact
<1>5. QED
  BY <1>1, <1>2, <1>3, <1>4 DEF IInv

(* What a read adds to the buffer, whichever onRead made it.               *)
LEMMA Appended ==
  ASSUME IInv, NEW k \in 0 .. sent - received,
         IF k = 0 THEN UNCHANGED <<buf, received>> ELSE Take(k),
         size' \in Nat, Len(buf) + k <= size',
         mEof' \in {mEof, TRUE}, mEof' => closed /\ received + k = sent,
         reset' \in {reset, FALSE}, reset' => ~mEof', ~calling,
         UNCHANGED <<mBlocking, input, sent, closed, begin, request, calling, answer>>
  PROVE  /\ StreamInv' /\ BufInv' /\ EofExact' /\ consumed' = consumed
         /\ received' \in received .. Len(input)
<1> USE DEF IInv
<1>1. /\ input \in Inputs /\ Len(input) \in Nat /\ received \in Nat /\ sent \in Nat /\ received <= sent
      /\ sent <= Len(input) /\ Len(buf) \in Nat /\ begin \in Nat /\ begin <= Len(buf) /\ size \in Nat
  BY InputIsSeq, LenProperties DEF StreamInv, BufInv
<1>2. /\ buf' \in Seq(Bytes) /\ Len(buf') = Len(buf) + k
      /\ received' = received + k /\ received' \in received .. sent
      /\ \A i \in 1 .. Len(buf') : buf'[i] = input[received' - Len(buf') + i]
  <2>1. CASE k = 0
    BY <1>1, <2>1 DEF BufInv
  <2>2. CASE k # 0
    BY <1>1, <2>2, TakeGrows
  <2>3. QED
    BY <2>1, <2>2
<1>3. StreamInv'
  <2>1. received' \in 0 .. sent /\ (mEof' => received' = Len(input))
    BY <1>1, <1>2 DEF StreamInv
  <2>2. mEof \in BOOLEAN /\ reset \in BOOLEAN /\ (reset => closed)
    BY DEF StreamInv
  <2>3. mEof' \in BOOLEAN /\ reset' \in BOOLEAN
    BY <2>2
  <2>4. reset' => closed
    BY <2>2
  <2>5. QED
    BY <1>1, <2>1, <2>3, <2>4 DEF StreamInv
<1>4. BufInv'
  <2>1. Len(buf') <= received' /\ Len(buf') <= size'
    BY <1>1, <1>2 DEF BufInv
  <2>2. begin' \in 0 .. Len(buf') /\ (begin' = Len(buf') => begin' = 0)
    BY <1>1, <1>2 DEF BufInv
  <2>3. QED
    BY <1>2, <2>1, <2>2 DEF BufInv
<1>5. EofExact'
  BY DEF EofExact
<1>6. consumed' = consumed
  BY <1>1, <1>2 DEF consumed
<1>7. received' \in received .. Len(input)
  BY <1>1, <1>2
<1>8. QED
  BY <1>3, <1>4, <1>5, <1>6, <1>7

(* The loop of onReadNonblocking takes everything, and mBuf has grown to   *)
(* hold it.                                                                *)
LEMMA TakesAll ==
  ASSUME StreamInv, BufInv, Take(sent - received), input' = input, size' = GrownSize
  PROVE  \E k \in 0 .. sent - received :
            /\ IF k = 0 THEN UNCHANGED <<buf, received>> ELSE Take(k)
            /\ received + k = sent /\ size' \in Nat /\ Len(buf) + k <= size'
<1> DEFINE k == sent - received
<1>1. /\ Len(input) \in Nat /\ received \in Nat /\ sent \in Nat /\ received <= sent
      /\ Len(buf) \in Nat /\ size \in Nat /\ Chunk \in Nat \ {0}
  BY InputIsSeq, LenProperties, ChunkAssumption DEF StreamInv, BufInv
<1>2. k \in 0 .. sent - received /\ k \in Nat /\ received + k = sent
  BY <1>1
<1>3. /\ Take(k)
      /\ size' = IF Len(buf') < size THEN size ELSE size + ((Len(buf') - size) \div Chunk + 1) * Chunk
  BY DEF GrownSize
<1> HIDE DEF k
<1>4. Len(buf') = Len(buf) + k /\ (k = 0 => UNCHANGED <<buf, received>>)
  <2>1. /\ buf' \in Seq(Bytes) /\ Len(buf') = Len(buf) + k /\ received' = received + k
        /\ \A i \in 1 .. Len(buf') : buf'[i] = input[received' - Len(buf') + i]
    BY <1>2, <1>3, TakeGrows
  <2>2. ASSUME k = 0 PROVE UNCHANGED <<buf, received>>
    <3>1. \A i \in 1 .. Len(buf) : buf'[i] = buf[i]
      BY <1>1, <2>1, <2>2 DEF BufInv
    <3>2. Len(buf') = Len(buf) /\ received' = received
      BY <1>1, <2>1, <2>2
    <3>3. buf' = buf
      BY <2>1, <3>1, <3>2, SeqEqual DEF BufInv
    <3>4. QED
      BY <3>2, <3>3
  <2>3. QED
    BY <2>1, <2>2
<1>5. size' \in Nat /\ Len(buf) + k <= size'
  <2>1. CASE Len(buf) + k < size
    BY <1>1, <1>2, <1>3, <1>4, <2>1
  <2>2. CASE ~(Len(buf) + k < size)
    <3>1. PICK d \in Nat : d = Len(buf) + k - size
      BY <1>1, <1>2, <2>2
    <3>2. PICK g \in Nat : g = (d \div Chunk + 1) * Chunk /\ d < g
      BY Chunks
    <3>3. size' = size + g
      <4>1. Len(buf') - size = d /\ ~(Len(buf') < size)
        BY <1>1, <1>2, <1>4, <2>2, <3>1
      <4>2. QED
        BY <1>3, <3>2, <4>1
    <3>4. QED
      BY <1>1, <1>2, <3>1, <3>2, <3>3
  <2>3. QED
    BY <2>1, <2>2
<1>6. QED
  BY <1>2, <1>3, <1>4, <1>5

(* onRead appends, and then tries everything, or throws.                   *)
LEMMA OnReadStep ==
  ASSUME IInv, OnRead
  PROVE  /\ IInv' /\ consumed' = consumed /\ received' \in received .. Len(input)
         /\ mEof' \in {mEof, TRUE} /\ UNCHANGED <<input, request, answer>>
<1> USE DEF IInv
<1>1. /\ ~calling /\ reset' \in {reset, FALSE}
      /\ UNCHANGED <<mBlocking, input, sent, closed, begin, request, calling, answer>>
  BY DEF OnRead, OnReadBlocking, OnReadNonblocking, OnReadThrows, peerVars, Idle
<1>2. /\ Len(input) \in Nat /\ received \in Nat /\ sent \in Nat /\ received <= sent
      /\ Len(buf) \in Nat /\ Len(buf) <= size /\ size \in Nat /\ Chunk \in Nat \ {0}
      /\ (reset => ~mEof) /\ mEof \in BOOLEAN /\ closed \in BOOLEAN
      /\ (mEof => closed /\ received = sent)
  BY InputIsSeq, LenProperties, ChunkAssumption DEF StreamInv, BufInv
<1>3. \E k \in 0 .. sent - received :
        /\ IF k = 0 THEN UNCHANGED <<buf, received>> ELSE Take(k)
        /\ size' \in Nat /\ Len(buf) + k <= size'
        /\ mEof' \in {mEof, TRUE} /\ (mEof' => closed /\ received + k = sent)
        /\ (reset' => ~mEof')
  <2>1. CASE OnReadBlocking
    <3>1. size' \in Nat /\ Len(buf) <= size' /\ (sent = received => closed /\ ~reset') /\ reset' = reset
      BY <1>2, <2>1 DEF OnReadBlocking, Readable, peerVars
    <3>2. CASE sent = received
      <4>1. UNCHANGED <<buf, received>> /\ mEof' = TRUE
        BY <2>1, <3>2 DEF OnReadBlocking
      <4>2. 0 \in 0 .. sent - received /\ Len(buf) + 0 <= size' /\ received + 0 = sent
        BY <1>2, <3>1, <3>2
      <4>3. QED
        BY <3>1, <3>2, <4>1, <4>2
    <3>3. CASE sent # received
      <4>1. PICK k \in 1 .. sent - received : k <= size' - Len(buf) /\ Take(k)
        BY <2>1, <3>3 DEF OnReadBlocking
      <4>2. UNCHANGED mEof /\ ~mEof
        BY <1>2, <2>1, <3>3 DEF OnReadBlocking
      <4>3. k \in 0 .. sent - received /\ k # 0 /\ Len(buf) + k <= size'
        BY <1>2, <3>1, <4>1
      <4>4. QED
        BY <3>1, <4>1, <4>2, <4>3
    <3>4. QED
      BY <3>2, <3>3
  <2>2. CASE OnReadNonblocking
    <3>1. Take(sent - received) /\ size' = GrownSize /\ mEof' = closed /\ ~reset /\ reset' = reset
      BY <2>2 DEF OnReadNonblocking, peerVars
    <3>2. mEof' \in {mEof, TRUE}
      BY <1>2, <3>1
    <3>3. QED
      BY <1>1, <3>1, <3>2, TakesAll
  <2>3. CASE OnReadThrows /\ mBlocking
    <3>1. UNCHANGED <<buf, received, mEof>> /\ size' \in Nat /\ Len(buf) <= size' /\ ~mEof' /\ sent = received
      BY <1>2, <2>3 DEF OnReadThrows
    <3>2. 0 \in 0 .. sent - received /\ Len(buf) + 0 <= size'
      BY <1>2, <3>1
    <3>3. QED
      BY <3>1, <3>2
  <2>4. CASE OnReadThrows /\ ~mBlocking
    <3>1. Take(sent - received) /\ size' = GrownSize /\ mEof' = FALSE /\ mEof = FALSE
      BY <1>2, <2>4 DEF OnReadThrows
    <3>2. QED
      BY <1>1, <3>1, TakesAll
  <2>5. QED
    BY <2>1, <2>2, <2>3, <2>4 DEF OnRead
<1>4. /\ StreamInv' /\ BufInv' /\ EofExact' /\ consumed' = consumed
      /\ received' \in received .. Len(input) /\ mEof' \in {mEof, TRUE}
  BY <1>1, <1>3, Appended
<1>5. CallInv'
  <2>1. CASE OnReadBlocking \/ OnReadNonblocking
    <3>1. stages' = Attempts /\ threw' = FALSE
      BY <2>1 DEF OnReadBlocking, OnReadNonblocking
    <3>2. stages' \in Seq(Ops) /\ \A op \in Ops : \E i \in DOMAIN stages' : stages'[i] = op
      BY <3>1 DEF Attempts, Ops
    <3>3. QED
      BY <1>1, <3>1, <3>2 DEF CallInv, Covered
  <2>2. CASE OnReadThrows
    <3>1. UNCHANGED stages /\ threw' = TRUE /\ closed /\ mEof' = FALSE /\ mEof = FALSE
      BY <1>2, <2>2 DEF OnReadThrows, StreamInv
    <3>2. CASE ~mBlocking
      BY <1>1, <3>1, <3>2 DEF CallInv, Skipped
    <3>3. CASE mBlocking
      <4>1. \A op \in Ops : Incomplete(op)' <=> Incomplete(op)
        BY <1>1, <2>2, <3>1, <3>3 DEF OnReadThrows, Incomplete, Armed, Delimiters
      <4>2. Covered'
        BY <3>1, <3>3, <4>1 DEF CallInv, Covered, Skipped
      <4>3. QED
        BY <1>1, <3>1, <4>2 DEF CallInv
    <3>4. QED
      BY <3>2, <3>3
  <2>3. QED
    BY <2>1, <2>2 DEF OnRead
<1>6. QED
  BY <1>1, <1>4, <1>5

(* What the callbacks were not given yet is what the abstract stream has   *)
(* available.                                                              *)
LEMMA Unread ==
  ASSUME StreamInv, BufInv
  PROVE  /\ consumed \in 0 .. received /\ Stream!Available \in Seq(Bytes)
         /\ Len(Stream!Available) = Len(buf) - begin
         /\ \A i \in 1 .. Len(buf) - begin : Stream!Available[i] = buf[begin + i]
         /\ End <=> mEof /\ Stream!Available = <<>>
<1>1. /\ Len(input) \in Nat /\ received \in Nat /\ Len(buf) \in Nat /\ begin \in Nat
      /\ begin <= Len(buf) /\ Len(buf) <= received /\ received <= Len(input)
      /\ (begin = Len(buf) => begin = 0)
      /\ \A i \in 1 .. Len(input) : input[i] \in Bytes
  BY InputIsSeq, LenProperties DEF StreamInv, BufInv
<1>2. consumed \in 0 .. received /\ consumed = received - (Len(buf) - begin)
  BY <1>1 DEF consumed
<1>3. \A i \in consumed + 1 .. received : input[i] \in Bytes
  BY <1>1, <1>2
<1>4. /\ Stream!Available \in Seq(Bytes)
      /\ Len(Stream!Available) = IF consumed + 1 <= received THEN received - (consumed + 1) + 1 ELSE 0
      /\ \A i \in 1 .. received - (consumed + 1) + 1 : Stream!Available[i] = input[consumed + 1 + i - 1]
  <2>1. consumed + 1 \in Int /\ received \in Int
    BY <1>1, <1>2
  <2>2. Stream!Available = SubSeq(input, consumed + 1, received)
    BY DEF Stream!Available
  <2> HIDE DEF consumed
  <2>3. QED
    BY <1>3, <2>1, <2>2, SubSeqProperties
<1>5. Len(Stream!Available) = Len(buf) - begin
  BY <1>1, <1>2, <1>4
<1>6. ASSUME NEW i \in 1 .. Len(buf) - begin PROVE Stream!Available[i] = buf[begin + i]
  <2>1. begin + i \in 1 .. Len(buf) /\ received - Len(buf) + (begin + i) = consumed + 1 + i - 1
        /\ i \in 1 .. received - (consumed + 1) + 1
    BY <1>1, <1>2
  <2>2. QED
    BY <1>4, <2>1 DEF BufInv
<1>7. End <=> mEof /\ Stream!Available = <<>>
  <2>1. Stream!Available = <<>> <=> Len(Stream!Available) = 0
    BY <1>4, EmptySeq
  <2>2. Stream!Available = <<>> <=> Len(buf) = 0
    BY <1>1, <1>5, <2>1
  <2>3. QED
    BY <2>2 DEF End
<1>8. QED
  BY <1>2, <1>4, <1>5, <1>6, <1>7

(* A callback is given the next n bytes; skip of them follow, unseen.      *)
LEMMA Given ==
  ASSUME IInv, NEW n \in Nat, NEW skip \in {0, 1}, begin + n + skip <= Len(buf),
         Consume(n + skip), Callback(n), request # None, stages # <<>>,
         skip = 1 => buf[begin + n + 1] = Delimiter,
         request.op = "line" /\ n = 0 /\ skip = 0 => End
  PROVE  IInv' /\ Stream!Give(n, skip)
<1> USE DEF IInv
<1>1. /\ input \in Inputs /\ Len(input) \in Nat /\ received \in Nat /\ Len(buf) \in Nat /\ begin \in Nat
      /\ begin <= Len(buf) /\ Len(buf) <= received /\ received <= Len(input)
      /\ buf \in Seq(Bytes) /\ \A i \in 1 .. Len(buf) : buf[i] \in Bytes
  BY InputIsSeq, LenProperties, ElementOfSeq DEF StreamInv, BufInv
<1>2. /\ request' = None /\ calling' = TRUE /\ stages' = Tail(stages)
      /\ answer' = [op |-> request.op, data |-> SubSeq(buf, begin + 1, begin + n), eof |-> End]
      /\ UNCHANGED <<mBlocking, input, sent, closed, reset, received, size, mEof, threw>>
  BY DEF Callback, peerVars
<1>3. \/ begin + n + skip = Len(buf) /\ begin' = 0 /\ buf' = <<>> /\ Len(buf') = 0
      \/ begin + n + skip # Len(buf) /\ begin' = begin + n + skip /\ buf' = buf
  BY <1>1 DEF Consume
<1>4. StreamInv'
  BY <1>2 DEF StreamInv
<1>5. BufInv'
  <2>1. CASE begin + n + skip = Len(buf)
    <3>1. buf' = <<>> /\ Len(buf') = 0 /\ begin' = 0 /\ buf' \in Seq(Bytes)
      BY <1>3, <2>1, EmptySeq
    <3>2. QED
      BY <1>1, <1>2, <3>1 DEF BufInv
  <2>2. CASE begin + n + skip # Len(buf)
    <3>1. begin' = begin + n + skip /\ begin' \in 0 .. Len(buf) /\ begin' # Len(buf) /\ buf' = buf
      BY <1>1, <1>3, <2>2
    <3>2. QED
      BY <1>2, <3>1 DEF BufInv
  <2>3. QED
    BY <2>1, <2>2
<1>6. CallInv'
  <2>1. stages' \in Seq(Ops)
    BY <1>2, PopStage DEF CallInv
  <2>2. \A op \in Ops : Incomplete(op)'
    BY <1>2 DEF Incomplete, Armed
  <2>3. QED
    BY <1>2, <2>1, <2>2 DEF CallInv, Covered
<1>7. consumed' = consumed + n + skip
  <2>1. skip \in Nat
    OBVIOUS
  <2>2. Len(buf') - begin' = Len(buf) - begin - n - skip
    BY <1>1, <1>3, <2>1
  <2>3. received' = received
    BY <1>2
  <2>4. QED
    BY <1>1, <2>1, <2>2, <2>3 DEF consumed
(* The bytes of the answer                                                 *)
<1>8. /\ Stream!Available \in Seq(Bytes) /\ Len(Stream!Available) = Len(buf) - begin
      /\ \A i \in 1 .. Len(buf) - begin : Stream!Available[i] = buf[begin + i]
      /\ End <=> mEof /\ Stream!Available = <<>>
  BY Unread
<1>9. /\ answer'.data \in Seq(Bytes) /\ Len(answer'.data) = n
      /\ \A i \in 1 .. n : answer'.data[i] = buf[begin + i]
  <2> DEFINE d == SubSeq(buf, begin + 1, begin + n)
  <2>1. \A i \in begin + 1 .. begin + n : buf[i] \in Bytes
    BY <1>1
  <2>2. /\ d \in Seq(Bytes) /\ Len(d) = IF begin + 1 <= begin + n THEN begin + n - (begin + 1) + 1 ELSE 0
        /\ \A i \in 1 .. begin + n - (begin + 1) + 1 : d[i] = buf[begin + 1 + i - 1]
    BY <1>1, <2>1, SubSeqProperties
  <2>3. answer'.data = d
    BY <1>2
  <2> HIDE DEF d
  <2>4. Len(d) = n /\ begin + n - (begin + 1) + 1 = n /\ \A i \in 1 .. n : begin + 1 + i - 1 = begin + i
    <3>1. CASE n = 0
      BY <1>1, <2>2, <3>1
    <3>2. CASE n # 0
      BY <1>1, <2>2, <3>2
    <3>3. QED
      BY <3>1, <3>2
  <2>5. \A i \in 1 .. n : d[i] = buf[begin + i]
    BY <2>2, <2>4
  <2>6. QED
    BY <2>2, <2>3, <2>4, <2>5
<1>10. answer'.data = SubSeq(Stream!Available, 1, n)
  <2> DEFINE A == Stream!Available
             d == SubSeq(A, 1, n)
  <2> HIDE DEF A
  <2>1. /\ A \in Seq(Bytes) /\ Len(A) = Len(buf) - begin
        /\ \A i \in 1 .. Len(buf) - begin : A[i] = buf[begin + i]
    BY <1>8 DEF A
  <2>2. \A i \in 1 .. n : A[i] = buf[begin + i] /\ A[i] \in Bytes
    BY <1>1, <2>1
  <2>3. /\ d \in Seq(Bytes) /\ Len(d) = IF 1 <= n THEN n - 1 + 1 ELSE 0
        /\ \A i \in 1 .. n - 1 + 1 : d[i] = A[1 + i - 1]
    BY <2>2, SubSeqProperties
  <2> HIDE DEF d
  <2>4. Len(d) = n /\ \A i \in 1 .. n : d[i] = A[i]
    BY <2>3
  <2>5. answer'.data = d
    BY <1>9, <2>2, <2>3, <2>4, SeqEqual
  <2>6. QED
    BY <2>5 DEF d, A
<1>11. EofExact'
  <2>1. answer'.eof = End /\ answer'.op = request.op
    BY <1>2
  <2>2. ASSUME End PROVE closed' /\ consumed' = Len(input') /\ answer'.data = <<>>
    <3>1. mEof /\ Len(buf) = 0 /\ closed /\ received = Len(input)
      BY <2>2 DEF End, StreamInv
    <3>2. n = 0 /\ begin = 0 /\ consumed' = received
      BY <1>1, <1>7, <3>1 DEF consumed
    <3>3. answer'.data = <<>>
      BY <1>9, <3>2, EmptySeq
    <3>4. QED
      BY <1>2, <3>1, <3>2, <3>3
  <2>3. ASSUME request.op = "line", answer'.data = <<>>, ~End
        PROVE  consumed' > 0 /\ input'[consumed'] = Delimiter
    <3>1. n = 0 /\ skip = 1
      BY <1>9, <2>3
    <3>2. buf[begin + 1] = Delimiter /\ begin + 1 \in 1 .. Len(buf)
      BY <1>1, <3>1
    <3>3. consumed' = received - Len(buf) + (begin + 1) /\ consumed' > 0
      BY <1>1, <1>7, <3>1 DEF consumed
    <3>4. QED
      BY <1>2, <3>2, <3>3 DEF BufInv
  <2>4. QED
    BY <2>1, <2>2, <2>3 DEF EofExact
<1>12. Stream!Give(n, skip)
  <2>1. answer' = [op |-> request.op, data |-> SubSeq(Stream!Available, 1, n),
                   eof |-> mEof /\ Stream!Available = <<>>]
    <3>1. End = (mEof /\ Stream!Available = <<>>)
      <4>1. End \in BOOLEAN
        BY DEF End, StreamInv
      <4>2. QED
        BY <1>8, <4>1
    <3>2. answer'.data = SubSeq(buf, begin + 1, begin + n)
      BY <1>2
    <3>3. QED
      BY <1>2, <1>10, <3>1, <3>2
  <2>2. QED
    BY <1>2, <1>7, <2>1 DEF Stream!Give
<1>13. QED
  BY <1>4, <1>5, <1>6, <1>11, <1>12

(* The three ways to answer, with what the abstract stream does.           *)
Answers == Stream!AnswerLine \/ Stream!AnswerN \/ Stream!AnswerSome

LEMMA Positions ==
  ASSUME StreamInv, BufInv
  PROVE  /\ \A i \in Delimiters : i - begin \in Stream!Delimiters
         /\ \A i \in Stream!Delimiters : begin + i \in Delimiters
<1>1. /\ Len(buf) \in Nat /\ begin \in Nat /\ begin <= Len(buf)
      /\ Len(Stream!Available) = Len(buf) - begin
      /\ \A i \in 1 .. Len(buf) - begin : Stream!Available[i] = buf[begin + i]
  BY Unread, LenProperties DEF BufInv
<1>2. ASSUME NEW i \in Delimiters PROVE i - begin \in Stream!Delimiters
  <2>1. i \in begin + 1 .. Len(buf) /\ buf[i] = Delimiter
    BY DEF Delimiters
  <2>2. i - begin \in 1 .. Len(buf) - begin /\ begin + (i - begin) = i
    BY <1>1, <2>1
  <2>3. Stream!Available[i - begin] = buf[i]
    BY <1>1, <2>2
  <2>4. QED
    BY <1>1, <2>1, <2>2, <2>3 DEF Stream!Delimiters
<1>3. ASSUME NEW i \in Stream!Delimiters PROVE begin + i \in Delimiters
  <2>1. i \in 1 .. Len(buf) - begin /\ Stream!Available[i] = Delimiter
    BY <1>1 DEF Stream!Delimiters
  <2>2. begin + i \in begin + 1 .. Len(buf) /\ buf[begin + i] = Delimiter
    BY <1>1, <2>1
  <2>3. QED
    BY <2>2 DEF Delimiters
<1>4. QED
  BY <1>2, <1>3

LEMMA TryLineStep ==
  ASSUME IInv, TryLine
  PROVE  IInv' /\ Answers
<1>1. request # None /\ request.op = "line" /\ stages # <<>>
  BY DEF TryLine, Armed, Trying
<1>2. /\ Len(buf) \in Nat /\ begin \in Nat /\ begin <= Len(buf) /\ StreamInv /\ BufInv
      /\ Len(Stream!Available) = Len(buf) - begin
  BY Unread, LenProperties DEF IInv, BufInv
<1>3. CASE \E i \in Delimiters : /\ \A j \in Delimiters : i <= j
                                 /\ Consume(i - begin) /\ Callback(i - 1 - begin)
  <2>1. PICK i \in Delimiters : /\ \A j \in Delimiters : i <= j
                                /\ Consume(i - begin) /\ Callback(i - 1 - begin)
    BY <1>3
  <2>2. i \in begin + 1 .. Len(buf) /\ buf[i] = Delimiter
    BY DEF Delimiters
  <2>3. PICK n \in Nat : /\ n = i - 1 - begin /\ n + 1 = i - begin
                         /\ begin + n + 1 = i /\ begin + n + 1 <= Len(buf)
    BY <1>2, <2>2
  <2>4. Consume(n + 1) /\ Callback(n)
    BY <2>1, <2>3
  <2>5. IInv' /\ Stream!Give(n, 1)
    BY <1>1, <2>2, <2>3, <2>4, Given
  <2>6. n + 1 \in Stream!Delimiters /\ n + 1 - 1 = n
    BY <1>2, <2>3, Positions
  <2>7. ASSUME NEW j \in Stream!Delimiters PROVE n + 1 <= j
    <3>1. i <= begin + j
      BY <1>2, <2>1, Positions
    <3>2. j \in Nat
      BY <1>2 DEF Stream!Delimiters
    <3>3. QED
      BY <1>2, <2>3, <3>1, <3>2
  <2>8. Stream!AnswerLine
    BY <1>1, <2>5, <2>6, <2>7 DEF Stream!AnswerLine
  <2>9. QED
    BY <2>5, <2>8 DEF Answers
<1>4. CASE Delimiters = {} /\ mEof /\ Consume(Len(buf) - begin) /\ Callback(Len(buf) - begin)
  <2>1. PICK n \in Nat : n = Len(buf) - begin /\ n + 0 = n /\ begin + n + 0 <= Len(buf)
    BY <1>2
  <2>2. n = 0 => End
    BY <1>2, <1>4, <2>1 DEF End, BufInv
  <2>3. IInv' /\ Stream!Give(n, 0)
    BY <1>1, <1>4, <2>1, <2>2, Given
  <2>4. Stream!Delimiters = {}
    BY <1>2, <1>4, Positions
  <2>5. Stream!AnswerLine
    BY <1>1, <1>2, <1>4, <2>1, <2>3, <2>4 DEF Stream!AnswerLine
  <2>6. QED
    BY <2>3, <2>5 DEF Answers
<1>5. QED
  BY <1>3, <1>4 DEF TryLine

LEMMA TryNStep ==
  ASSUME IInv, TryN
  PROVE  IInv' /\ Answers
<1>1. request # None /\ request.op = "n" /\ stages # <<>>
  BY DEF TryN, Armed, Trying
<1>2. /\ Len(buf) \in Nat /\ begin \in Nat /\ begin <= Len(buf)
      /\ Len(Stream!Available) = Len(buf) - begin
  BY Unread, LenProperties DEF IInv, BufInv
<1>3. request.n \in Nat
  BY <1>1, ChunkAssumption DEF IInv, CallInv, Requests
<1>4. CASE Len(buf) - begin >= request.n /\ Consume(request.n) /\ Callback(request.n)
  <2>1. PICK n \in Nat : n = request.n /\ n + 0 = n /\ begin + n + 0 <= Len(buf)
    BY <1>2, <1>3, <1>4
  <2>2. IInv' /\ Stream!Give(n, 0)
    BY <1>1, <1>4, <2>1, Given
  <2>3. QED
    BY <1>1, <1>2, <1>4, <2>1, <2>2 DEF Answers, Stream!AnswerN
<1>5. CASE /\ Len(buf) - begin < request.n /\ mEof
           /\ Consume(Len(buf) - begin) /\ Callback(Len(buf) - begin)
  <2>1. PICK n \in Nat : n = Len(buf) - begin /\ n + 0 = n /\ begin + n + 0 <= Len(buf)
    <3>1. Len(buf) - begin \in Nat /\ begin + (Len(buf) - begin) + 0 <= Len(buf)
      BY <1>2
    <3>2. QED
      BY <3>1
  <2>2. IInv' /\ Stream!Give(n, 0)
    BY <1>1, <1>5, <2>1, Given
  <2>3. QED
    BY <1>1, <1>2, <1>5, <2>1, <2>2 DEF Answers, Stream!AnswerN
<1>6. QED
  BY <1>4, <1>5 DEF TryN

LEMMA TrySomeStep ==
  ASSUME IInv, TrySome
  PROVE  IInv' /\ Answers
<1>1. /\ request # None /\ request.op = "some" /\ stages # <<>>
      /\ Len(buf) # begin /\ Consume(Len(buf) - begin) /\ Callback(Len(buf) - begin)
  BY DEF TrySome, Armed, Trying
<1>2. /\ Len(buf) \in Nat /\ begin \in Nat /\ begin <= Len(buf)
      /\ Len(Stream!Available) = Len(buf) - begin /\ Stream!Available \in Seq(Bytes)
  BY Unread, LenProperties DEF IInv, BufInv
<1>3. PICK n \in Nat : n = Len(buf) - begin /\ n + 0 = n /\ begin + n + 0 <= Len(buf) /\ n # 0
  <2>1. /\ Len(buf) - begin \in Nat /\ begin + (Len(buf) - begin) + 0 <= Len(buf)
        /\ Len(buf) - begin # 0
    BY <1>1, <1>2
  <2>2. QED
    BY <2>1
<1>4. IInv' /\ Stream!Give(n, 0)
  BY <1>1, <1>3, Given
<1>5. Stream!Available # <<>>
  BY <1>2, <1>3, EmptySeq
<1>6. QED
  BY <1>1, <1>2, <1>3, <1>4, <1>5 DEF Answers, Stream!AnswerSome

(* Steps that leave the buffer alone.                                      *)
LEMMA TryFailsStep ==
  ASSUME IInv, TryFails
  PROVE  IInv' /\ UNCHANGED <<input, received, mEof, consumed, request, answer>>
<1> USE DEF IInv
<1>1. /\ stages # <<>> /\ Incomplete(Head(stages)) /\ stages' = Tail(stages)
      /\ UNCHANGED <<mBlocking, peerVars, received, buf, begin, size, mEof, request, calling, answer, threw>>
  BY DEF TryFails, Trying
<1>2. StreamInv' /\ BufInv' /\ EofExact'
  BY <1>1 DEF peerVars, StreamInv, BufInv, EofExact, consumed
<1>3. /\ stages' \in Seq(Ops)
      /\ \A op : (\E i \in DOMAIN stages : stages[i] = op)
           => op = Head(stages) \/ \E i \in DOMAIN stages' : stages'[i] = op
  BY <1>1, PopStage DEF CallInv
<1>4. \A op \in Ops : Incomplete(op)' <=> Incomplete(op)
  BY <1>1 DEF Incomplete, Armed, Delimiters
<1>5. Covered => Covered'
  BY <1>1, <1>3, <1>4 DEF Covered
<1>6. CallInv'
  BY <1>1, <1>3, <1>5 DEF CallInv, Skipped, peerVars
<1>7. QED
  BY <1>1, <1>2, <1>6 DEF consumed, peerVars

LEMMA AskStep ==
  ASSUME IInv, Ask
  PROVE  IInv' /\ Stream!Ask
<1> USE DEF IInv
<1>1. /\ request = None /\ request' \in Requests /\ calling' = FALSE
      /\ stages' = <<request'.op>> \o stages /\ stages \in Seq(Ops)
      /\ UNCHANGED <<mBlocking, input, sent, closed, reset, received, buf, begin, size, mEof, answer, threw>>
  BY DEF Ask, peerVars, CallInv
<1>2. StreamInv' /\ BufInv' /\ EofExact'
  BY <1>1 DEF StreamInv, BufInv, EofExact
<1>3. request'.op \in Ops
  BY <1>1 DEF Requests, Ops
<1>4. <<request'.op>> \in Seq(Ops) /\ Len(<<request'.op>>) = 1 /\ <<request'.op>>[1] = request'.op
  BY <1>3
<1>5. stages' \in Seq(Ops) /\ Len(stages') = 1 + Len(stages) /\ stages'[1] = request'.op
      /\ Len(stages) \in Nat
  BY <1>1, <1>4, ConcatProperties, LenProperties
<1>6. 1 \in DOMAIN stages'
  BY <1>5, LenProperties
<1>7. \A op \in Ops : op # request'.op => Incomplete(op)'
  BY DEF Incomplete, Armed
<1>8. CallInv'
  BY <1>1, <1>5, <1>6, <1>7 DEF CallInv, Covered
<1>9. Stream!Ask
  BY <1>1 DEF Stream!Ask, Stream!Requests, Requests, consumed
<1>10. QED
  BY <1>2, <1>8, <1>9

LEMMA QuietStep ==
  ASSUME IInv, Send \/ Close \/ Return \/ UNCHANGED vars
  PROVE  IInv' /\ UNCHANGED <<input, received, mEof, consumed, request, answer>>
<1> USE DEF IInv
<1>1. /\ UNCHANGED <<mBlocking, input, received, buf, begin, size, mEof, request, stages, answer, threw>>
      /\ calling' \in {calling, FALSE} /\ consumed' = consumed
  BY DEF Send, Close, Return, vars, peerVars, consumed, CallInv
<1>2. /\ sent' \in sent .. Len(input) /\ closed' \in BOOLEAN
      /\ reset' \in BOOLEAN /\ (reset' => closed' /\ ~mEof)
      /\ (closed => closed') /\ (closed' => sent' = Len(input))
      /\ sent \in Nat /\ received \in Nat /\ received <= sent /\ Len(input) \in Nat
  <2>1. /\ sent \in Nat /\ sent <= Len(input) /\ Len(input) \in Nat
        /\ received \in Nat /\ received <= sent /\ (closed => sent = Len(input))
    BY InputIsSeq DEF StreamInv
  <2>2. CASE Send
    BY <2>1, <2>2 DEF Send, StreamInv
  <2>3. CASE Close
    BY <2>1, <2>3 DEF Close, StreamInv
  <2>4. CASE Return \/ UNCHANGED vars
    BY <2>1, <2>4 DEF Return, vars, peerVars, StreamInv
  <2>5. QED
    BY <2>1, <2>2, <2>3, <2>4
<1>3. StreamInv'
  <2>1. sent' \in 0 .. Len(input) /\ received \in 0 .. sent'
    BY <1>2
  <2>2. QED
    BY <1>1, <1>2, <2>1 DEF StreamInv
<1>4. BufInv'
  BY <1>1 DEF BufInv
<1>5. CallInv'
  <2>1. \A op \in Ops : Incomplete(op)' <=> Incomplete(op)
    BY <1>1 DEF Incomplete, Armed, Delimiters
  <2>2. calling' \in BOOLEAN
    BY <1>1 DEF CallInv
  <2>3. Covered => Covered'
    BY <1>1, <2>1 DEF Covered
  <2>4. Skipped => Skipped'
    BY <1>1, <1>2 DEF Skipped
  <2>5. QED
    BY <1>1, <2>2, <2>3, <2>4 DEF CallInv
<1>6. EofExact'
  BY <1>1, <1>2 DEF EofExact
<1>7. QED
  BY <1>1, <1>3, <1>4, <1>5, <1>6

LEMMA ReopenStep ==
  ASSUME IInv, Reopen
  PROVE  IInv' /\ Stream!Reopen
<1>1. /\ stages = <<>> /\ ~calling /\ UNCHANGED <<mBlocking, stages, calling>>
      /\ input' \in Inputs /\ sent' = 0 /\ closed' = FALSE /\ received' = 0
      /\ buf' = <<>> /\ begin' = 0 /\ size' = Chunk /\ mEof' = FALSE
      /\ reset' = FALSE /\ request' = None /\ answer' = None /\ threw' = FALSE
  BY DEF Reopen, Idle
<1>2. Len(input') \in Nat /\ Len(buf') = 0
  BY <1>1, InputIsSeq
<1>3. StreamInv'
  <2>1. 0 \in 0 .. Len(input') /\ 0 \in 0 .. 0
    BY <1>2
  <2>2. QED
    BY <1>1, <2>1 DEF StreamInv
<1>4. BufInv'
  BY <1>1, <1>2, ChunkAssumption DEF BufInv
<1>5. CallInv'
  <2>1. \A op \in Ops : Incomplete(op)'
    BY <1>1 DEF Incomplete, Armed
  <2>2. QED
    BY <1>1, <2>1 DEF CallInv, Covered, IInv
<1>6. EofExact'
  BY <1>1 DEF EofExact
<1>7. Stream!Reopen
  <2>1. consumed' = 0
    <3>1. consumed' = received' - (Len(buf') - begin')
      BY DEF consumed
    <3>2. QED
      BY <1>1, <1>2, <3>1
  <2>2. QED
    BY <1>1, <2>1 DEF Stream!Reopen, Stream!Fresh
<1>8. QED
  BY <1>3, <1>4, <1>5, <1>6, <1>7 DEF IInv

LEMMA StepCases ==
  ASSUME IInv, Next
  PROVE  /\ IInv'
         /\ \/ /\ consumed' = consumed /\ received' \in received .. Len(input)
               /\ mEof' \in {mEof, TRUE} /\ UNCHANGED <<input, request, answer>>
            \/ Stream!Ask \/ Answers \/ Stream!Reopen
            \/ UNCHANGED <<input, received, mEof, consumed, request, answer>>
<1>1. CASE OnRead
  BY <1>1, OnReadStep
<1>2. CASE Try
  BY <1>2, TryLineStep, TryNStep, TrySomeStep, TryFailsStep DEF Try
<1>3. CASE Ask \/ Reopen
  BY <1>3, AskStep, ReopenStep
<1>4. CASE Send \/ Close \/ Return
  BY <1>4, QuietStep
<1>5. QED
  BY <1>1, <1>2, <1>3, <1>4 DEF Next
-----------------------------------------------------------------------------
(* The buffer fits into mBuf and holds the last bytes that were read, in   *)
(* every state.                                                            *)
THEOREM Inductive == Spec => []IInv
<1>1. IInv /\ [Next]_vars => IInv'
  BY StepCases, QuietStep
<1>2. QED
  BY InitIInv, <1>1, PTL DEF Spec

(* onRead never writes past mBuf, and what it counts stays in order.       *)
THEOREM ReadBufferTypeOK == Spec => []TypeOK
<1>1. IInv => TypeOK
  <2> SUFFICES ASSUME IInv PROVE TypeOK
    OBVIOUS
  <2>1. \A i \in DOMAIN stages : stages[i] \in {"line", "n", "some"}
    BY LenProperties, ElementOfSeq DEF IInv, CallInv, Ops
  <2>2. QED
    BY <2>1 DEF IInv, StreamInv, BufInv, CallInv, TypeOK
<1>2. QED
  BY <1>1, Inductive, PTL

(* eof is computed before the bytes are consumed, and right all the same:  *)
(* an emptied buffer was rewound.                                          *)
THEOREM ReadBufferEofExact == Spec => []EofExact
<1>1. IInv => EofExact
  BY DEF IInv
<1>2. QED
  BY <1>1, Inductive, PTL

(* Between two events every read that could be completed was tried, or an  *)
(* exception skipped the attempts and the end is still to be read.         *)
THEOREM ReadBufferNothingServable == Spec => []NothingServable
<1>1. IInv => NothingServable
  <2> SUFFICES ASSUME IInv, stages = <<>>, ~Skipped, NEW op \in Ops PROVE Incomplete(op)
    BY DEF NothingServable, Idle, Skipped, Ops
  <2>1. DOMAIN stages = {}
    OBVIOUS
  <2>2. QED
    BY <2>1 DEF IInv, CallInv, Covered
<1>2. QED
  BY <1>1, Inductive, PTL

(* onRead is an Arrive, a callback an answer, and the rest stutters.       *)
THEOREM ReadBufferImplementsByteStream == Spec => ImplementsByteStream
<1>1. Init => Stream!Init
  <2> SUFFICES ASSUME Init PROVE Stream!Init
    OBVIOUS
  <2>1. consumed = 0
    <3>1. Len(buf) = 0 /\ begin = 0 /\ received = 0
      BY DEF Init
    <3>2. QED
      BY <3>1 DEF consumed
  <2>2. QED
    BY <2>1 DEF Init, Stream!Init, Stream!Fresh
<1>2. ASSUME IInv, IInv', Next PROVE [Stream!Next]_(Stream!streamVars)
  <2>1. CASE /\ consumed' = consumed /\ received' \in received .. Len(input)
             /\ mEof' \in {mEof, TRUE} /\ UNCHANGED <<input, request, answer>>
    <3>1. mEof' => received' = Len(input)
      BY <1>2, <2>1 DEF IInv, StreamInv
    <3>2. Stream!Arrive
      BY <2>1, <3>1 DEF Stream!Arrive
    <3>3. QED
      BY <3>2 DEF Stream!Next
  <2>2. CASE Stream!Ask \/ Answers \/ Stream!Reopen
    BY <2>2 DEF Answers, Stream!Next
  <2>3. CASE UNCHANGED <<input, received, mEof, consumed, request, answer>>
    BY <2>3 DEF Stream!streamVars
  <2>4. QED
    BY <1>2, <2>1, <2>2, <2>3, StepCases
<1>3. IInv /\ IInv' /\ [Next]_vars => [Stream!Next]_(Stream!streamVars)
  BY <1>2, QuietStep DEF Stream!streamVars
<1>4. QED
  BY <1>1, <1>3, Inductive, PTL DEF Spec, ImplementsByteStream, Stream!Spec
=============================================================================
