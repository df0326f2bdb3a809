--------------------------- MODULE PipelineProofs ---------------------------
(***************************************************************************)
(* Proofs about the channels and the prime sieve, for every max and every  *)
(* number of filters: no channel is used after it was deleted, each is a   *)
(* rendezvous, and the filter of thread t has the t-th prime.              *)
(***************************************************************************)
EXTENDS Pipeline, FiniteSetTheorems, WellFoundedInduction, TLAPS

Copies    == {"seeks", "loops", "lasts", "onlys"}
Exhausted == {"last", "lasts", "delete", "done"}
Final     == {"delete", "done"}
Alone     == {"none", "start", "seek", "seeks", "only", "onlys"}
Feeding   == {"loop", "loops", "send", "sending", "last", "lasts", "delete"}
Labels    == Alone \union Feeding \union {"done"}

TypeInv == /\ kind \in {"Channel", "Channel2"} /\ max \in Nat
           /\ exists \in [Chans -> {"no", "yes", "deleted"}]
           /\ mSendable \in [Chans -> {"free", "locked"}]
           /\ mPtr \in [Chans -> Nat] /\ mSize \in [Chans -> {0, Whole}]
           /\ mSent \in [Chans -> Nat] /\ mReceived \in [Chans -> Nat]
           /\ pc \in [Threads -> Labels] /\ pc[0] \in {"send", "sending", "delete", "done"}
           /\ prime \in [Threads -> Nat] /\ num \in [Threads -> Nat]

(* Threads are started in order, by the thread that is to feed them; only  *)
(* a thread that feeds no other, or is done, has none after it.            *)
ShapeInv == /\ \A t, u \in Threads : t <= u /\ pc[u] # "none" => pc[t] # "none"
            /\ \A c \in Chans : pc[c - 1] \in Alone => pc[c] = "none"
            /\ \A c \in Chans : pc[c - 1] \in Feeding => pc[c] # "none"
            /\ \A c \in Chans : exists[c] = "deleted" => pc[c - 1] = "done" /\ pc[c] # "none"

(* One signal, or the receiver that has consumed it, stands for the value  *)
(* in the channel.                                                         *)
Unsent(c)   == mSent[c] = 0 /\ mReceived[c] = 0 /\ pc[c] \notin Copies
Offering(c) == mSent[c] = 1 /\ mReceived[c] = 0 /\ pc[c] \notin Copies /\ mSize[c] = Whole
Taking(c)   == mSent[c] = 0 /\ mReceived[c] = 0 /\ pc[c] \in Copies /\ mSize[c] = Whole
Handed(c)   == /\ mSent[c] = 0 /\ mReceived[c] = 1 /\ pc[c] \notin Copies
               /\ mSize[c] = Whole => num[c] = num[c - 1]
ChanInv ==
  \A c \in Chans :
    IF pc[c - 1] = "sending"
    THEN mPtr[c] = num[c - 1] /\ (Offering(c) \/ Taking(c) \/ Handed(c))
    ELSE Unsent(c)

(* A thread is through with its channel when, and only when, its sender    *)
(* has been told or is about to be.                                        *)
Told(c) == \/ pc[c - 1] \in Exhausted
           \/ pc[c - 1] = "sending" /\ mReceived[c] = 1 /\ mSize[c] = 0
EndInv == \A c \in Chans : pc[c] # "none" => (pc[c] \in Final <=> Told(c))

(* The sieve.  v passes the filters before t; thread t has been sent every *)
(* number up to Low(t) that does.                                          *)
Passes(t, v) == \A s \in 1 .. t - 1 : v % prime[s] # 0
Low(t) == IF num[t] # 0 THEN num[t] ELSE IF t = 1 THEN 1 ELSE prime[t]
Pending(c) == pc[c - 1] = "send" \/ (pc[c - 1] = "sending" /\ mReceived[c] = 0)
GapInv ==
  \A c \in Chans : pc[c] \notin Final \union {"none"} =>
    /\ Low(c) <= num[c - 1]
    /\ \A v \in Low(c) + 1 .. num[c - 1] - 1 : ~Passes(c, v)
    /\ Pending(c) => Low(c) < num[c - 1] /\ Passes(c, num[c - 1])
    /\ ~Pending(c) => Low(c) = num[c - 1] \/ ~Passes(c, num[c - 1])

(* A thread that looks for the next prime has seen none.                   *)
SeekInv ==
  \A c \in Chans :
    /\ pc[c] \in {"none", "start"} => num[c] = 0
    /\ IF c = 1 THEN prime[c] = 2 ELSE num[c] = 0 \/ num[c] > prime[c]
    /\ pc[c] \in {"start", "seek", "seeks"} =>
         \A v \in prime[c] + 1 .. num[c] : ~Passes(c + 1, v)

PrimesUpTo(n) == {p \in 2 .. n : Prime(p)}
PrimeInv ==
  \A c \in Chans : pc[c] # "none" =>
    /\ Prime(prime[c])
    /\ PrimesUpTo(prime[c]) = {prime[s] : s \in 1 .. c}
    /\ Cardinality(PrimesUpTo(prime[c])) = c

LinkInv  == TypeInv /\ ShapeInv /\ ChanInv /\ EndInv
SieveInv == GapInv /\ SeekInv /\ PrimeInv
-----------------------------------------------------------------------------
(* Types and threads of an action.                                         *)
LEMMA Indices ==
  /\ Depth \in Nat /\ 0 \in Threads
  /\ \A c \in Chans : c \in Threads \ {0} /\ c \in Nat \ {0} /\ c - 1 \in Threads /\ c - 1 # c
                      /\ c - 1 + 1 = c
  /\ \A t \in Threads : /\ t \in Nat
                        /\ t # 0 => t \in Chans
                        /\ t # Depth => t + 1 \in Chans
                        /\ t + 1 # t
BY PipelineAssumption DEF Chans, Threads

LEMMA InitLinkInv == Init => LinkInv
<1> SUFFICES ASSUME Init PROVE LinkInv
  OBVIOUS
<1> USE PipelineAssumption, Indices
<1>1. /\ \A t \in Threads : pc[t] = IF t = 0 THEN "send" ELSE IF t = 1 THEN "start" ELSE "none"
      /\ \A c \in Chans : /\ exists[c] = IF c = 1 THEN "yes" ELSE "no"
                          /\ mSent[c] = 0 /\ mReceived[c] = 0
  BY DEF Init
<1>2. TypeInv
  BY DEF Init, TypeInv, Labels, Alone, Feeding, Whole
<1>3. ShapeInv
  BY <1>1 DEF ShapeInv, Alone, Feeding
<1>4. ChanInv
  BY <1>1 DEF ChanInv, Unsent, Copies
<1>5. EndInv
  BY <1>1 DEF EndInv, Final, Told, Exhausted
<1>6. QED
  BY <1>2, <1>3, <1>4, <1>5 DEF LinkInv

(* receive of either channel, where it copies: what the sender holds out   *)
(* is taken, whole or not at all, and the receiver goes on or starts the   *)
(* next filter.                                                            *)
Takes(t, at) == t # 0 /\ (Receive(t, at) \/ Copy2(t, at))
Ats == {"seek", "loop", "last", "only"}
Stores == {"seek", "loop"}
NewFilter(t) == /\ exists' = [exists EXCEPT ![To(t)] = "yes"]
                /\ prime' = [prime EXCEPT ![To(t)] = num[t - 1]]
                /\ pc' = [pc EXCEPT ![t] = "loop", ![To(t)] = "start"]
GoesOn(t, at) ==
  /\ UNCHANGED <<exists, prime>>
  /\ \E to \in {"send", "seek", "loop", "delete", "done"} :
       /\ pc' = [pc EXCEPT ![t] = to]
       /\ \/ at = "loop" /\ num[t - 1] % prime[t] # 0 /\ to = "send"
          \/ at \in Stores /\ num[t - 1] % prime[t] = 0 /\ to = at
          \/ at = "last" /\ to = "delete"
          \/ at = "only" /\ to = "done"

LEMMA TakeEffect ==
  ASSUME LinkInv, NEW t \in Threads, NEW at \in Ats, Takes(t, at)
  PROVE  /\ t \in Chans /\ pc[t] \in {at, Copying(at)} /\ Copying(at) \in Copies
         /\ pc[t - 1] = "sending" /\ mReceived[t] = 0 /\ mSize[t] = Whole
         /\ mSent' = [mSent EXCEPT ![t] = 0] /\ mReceived' = [mReceived EXCEPT ![t] = 1]
         /\ mSize' = [mSize EXCEPT ![t] = IF at \in Stores THEN Whole ELSE 0]
         /\ num' = IF at \in Stores THEN [num EXCEPT ![t] = num[t - 1]] ELSE num
         /\ UNCHANGED <<kind, max, mSendable, mPtr>>
         /\ \/ at = "seek" /\ num[t - 1] % prime[t] # 0 /\ NewFilter(t)
            \/ GoesOn(t, at)
<1> USE DEF LinkInv
<1>1. t \in Chans /\ Copying(at) \in Copies /\ t - 1 \in Threads
  BY Indices DEF Takes, Ats, Copying, Copies
<1>2. pc[t] \in {at, Copying(at)} /\ Asks(t) = (IF at \in Stores THEN Whole ELSE 0)
  BY DEF Takes, Receive, Copy2, Asks, Stores, Ats, Copying, Whole
<1>3. mSent \in [Chans -> Nat] /\ mSize \in [Chans -> {0, Whole}] /\ mReceived \in [Chans -> Nat]
  BY DEF TypeInv
<1>4. /\ pc[t - 1] = "sending" /\ mReceived[t] = 0 /\ mSize[t] = Whole /\ mPtr[t] = num[t - 1]
      /\ mSent' = [mSent EXCEPT ![t] = 0]
  <2>1. CASE Receive(t, at)
    <3>1. mSent[t] > 0 /\ mSent' = [mSent EXCEPT ![t] = mSent[t] - 1]
      BY <2>1 DEF Receive, Wait
    <3>2. pc[t - 1] = "sending" /\ mReceived[t] = 0 /\ mSize[t] = Whole /\ mPtr[t] = num[t - 1]
          /\ mSent[t] = 1
      BY <1>1, <1>3, <3>1 DEF ChanInv, Unsent, Offering, Taking, Handed
    <3>3. QED
      BY <3>1, <3>2
  <2>2. CASE Copy2(t, at)
    <3>1. pc[t] \in Copies /\ mSent' = mSent
      BY <1>1, <2>2 DEF Copy2
    <3>2. pc[t - 1] = "sending" /\ mReceived[t] = 0 /\ mSize[t] = Whole /\ mPtr[t] = num[t - 1]
          /\ mSent[t] = 0
      BY <1>1, <3>1 DEF ChanInv, Unsent, Offering, Taking, Handed
    <3>3. QED
      BY <1>3, <3>1, <3>2
  <2>3. QED
    BY <2>1, <2>2 DEF Takes
<1>5. Copy(t, at) /\ UNCHANGED <<kind, max, mSendable, mPtr>>
  BY DEF Takes, Receive, Copy2
<1>6. mReceived' = [mReceived EXCEPT ![t] = 1]
  BY <1>4, <1>5 DEF Copy, Signal
<1>7. mSize' = [mSize EXCEPT ![t] = IF at \in Stores THEN Whole ELSE 0]
  <2>1. Least(Asks(t), mSize[t]) = IF at \in Stores THEN Whole ELSE 0
    BY <1>2, <1>4 DEF Least, Whole
  <2>2. QED
    BY <1>5, <2>1 DEF Copy
<1>8. AfterReceive(t, at, num[t - 1])
  BY <1>4, <1>5 DEF Copy
<1>9. num' = IF at \in Stores THEN [num EXCEPT ![t] = num[t - 1]] ELSE num
  BY <1>2, <1>8 DEF AfterReceive, Whole
<1>10. \/ at = "seek" /\ num[t - 1] % prime[t] # 0 /\ NewFilter(t)
       \/ GoesOn(t, at)
  <2>1. CASE at = "seek" /\ num[t - 1] % prime[t] # 0
    BY <1>8, <2>1 DEF AfterReceive, NewFilter, HoldsBack
  <2>2. CASE at = "loop" /\ num[t - 1] % prime[t] # 0
    BY <1>8, <2>2 DEF AfterReceive, GoesOn, HoldsBack
  <2>3. CASE at \in Stores /\ num[t - 1] % prime[t] = 0
    BY <1>8, <2>3 DEF AfterReceive, GoesOn, HoldsBack, Stores
  <2>4. CASE at = "last"
    BY <1>8, <2>4 DEF AfterReceive, GoesOn
  <2>5. CASE at = "only"
    BY <1>8, <2>5 DEF AfterReceive, GoesOn
  <2>6. QED
    BY <2>1, <2>2, <2>3, <2>4, <2>5 DEF Ats, Stores
<1>11. QED
  BY <1>1, <1>2, <1>4, <1>5, <1>6, <1>7, <1>9, <1>10

(* A step of one thread that starts no other keeps the order of the        *)
(* threads.                                                                *)
LEMMA OneMoves ==
  ASSUME LinkInv, NEW t \in Threads, NEW to \in Labels \ {"none"}, pc[t] # "none",
         pc' = [pc EXCEPT ![t] = to], UNCHANGED exists,
         t # Depth => (to \in Alone => pc[t] \in Alone) /\ (to \in Feeding => pc[t] \in Feeding),
         pc[t] # "done", t = 0 => to \in {"send", "sending", "delete", "done"}
  PROVE  ShapeInv'
<1> USE Indices DEF LinkInv
<1>1. pc \in [Threads -> Labels]
  BY DEF TypeInv
<1>2. \A u \in Threads : (pc'[u] = "none" <=> pc[u] = "none") /\ (u # t => pc'[u] = pc[u])
  BY <1>1
<1>0. pc'[t] = to /\ to # "none"
  BY <1>1
<1>3. ASSUME NEW c \in Chans, pc'[c - 1] \in Alone PROVE pc'[c] = "none"
  <2>1. pc[c - 1] \in Alone
    <3>1. CASE c - 1 = t
      <4>1. t # Depth
        BY <3>1 DEF Chans, Threads
      <4>2. QED
        BY <1>0, <1>3, <3>1, <4>1
    <3>2. CASE c - 1 # t
      BY <1>2, <1>3, <3>2
    <3>3. QED
      BY <3>1, <3>2
  <2>2. QED
    BY <1>2, <2>1 DEF ShapeInv
<1>4. ASSUME NEW c \in Chans, pc'[c - 1] \in Feeding PROVE pc'[c] # "none"
  <2>1. pc[c - 1] \in Feeding
    <3>1. CASE c - 1 = t
      <4>1. t # Depth
        BY <3>1 DEF Chans, Threads
      <4>2. QED
        BY <1>0, <1>4, <3>1, <4>1
    <3>2. CASE c - 1 # t
      BY <1>2, <1>4, <3>2
    <3>3. QED
      BY <3>1, <3>2
  <2>2. QED
    BY <1>2, <2>1 DEF ShapeInv
<1>5. \A c \in Chans : exists[c] = "deleted" => pc'[c - 1] = "done" /\ pc'[c] # "none"
  BY <1>1, <1>2 DEF ShapeInv
<1>6. QED
  BY <1>2, <1>3, <1>4, <1>5 DEF ShapeInv

LEMMA SendLink ==
  ASSUME LinkInv, NEW t \in Threads, t # Depth, Send(t)
  PROVE  LinkInv'
<1> USE Indices DEF LinkInv
<1>1. /\ t + 1 \in Chans /\ pc[t] = "send" /\ pc' = [pc EXCEPT ![t] = "sending"]
      /\ mPtr' = [mPtr EXCEPT ![t + 1] = num[t]] /\ mSize' = [mSize EXCEPT ![t + 1] = Whole]
      /\ UNCHANGED <<kind, max, exists, mReceived, prime, num>>
      /\ pc \in [Threads -> Labels]
  <2>1. t + 1 \in Chans /\ pc \in [Threads -> Labels]
    BY DEF TypeInv
  <2>2. QED
    BY <2>1 DEF Send, To, GoTo
<1>2. mSent[t + 1] = 0 /\ mReceived[t + 1] = 0 /\ pc[t + 1] \notin Copies
  BY <1>1 DEF ChanInv, Unsent
<1>3. mSent' = [mSent EXCEPT ![t + 1] = 1]
  BY <1>2 DEF Send, To, Signal
<1>4. TypeInv'
  <2>1. mSendable' \in [Chans -> {"free", "locked"}]
    BY DEF Send, TypeInv
  <2>2. QED
    BY <1>1, <1>3, <2>1 DEF TypeInv, Labels, Alone, Feeding, Whole
<1>5. ShapeInv'
  BY <1>1, OneMoves DEF Labels, Alone, Feeding
<1>6. \A u \in Threads : u # t => pc'[u] = pc[u]
  BY <1>1
<1>7. ASSUME NEW c \in Chans
      PROVE IF pc'[c - 1] = "sending"
            THEN mPtr'[c] = num'[c - 1] /\ (Offering(c)' \/ Taking(c)' \/ Handed(c)')
            ELSE Unsent(c)'
  <2>1. CASE c = t + 1
    <3>1. pc'[c - 1] = "sending" /\ pc'[c] = pc[c]
      BY <1>1, <1>6, <2>1
    <3>2. mPtr'[c] = num'[c - 1] /\ mSent'[c] = 1 /\ mReceived'[c] = 0 /\ mSize'[c] = Whole
      BY <1>1, <1>2, <1>3, <2>1 DEF TypeInv
    <3>3. QED
      BY <1>2, <2>1, <3>1, <3>2 DEF Offering
  <2>2. CASE c # t + 1
    <3>1. c - 1 # t /\ pc'[c - 1] = pc[c - 1] /\ mPtr'[c] = mPtr[c] /\ mSent'[c] = mSent[c]
          /\ mSize'[c] = mSize[c]
      BY <1>1, <1>3, <1>6, <2>2
    <3>2. pc'[c] \in Copies <=> pc[c] \in Copies
      BY <1>1, <1>6 DEF Copies
    <3>3. QED
      BY <1>1, <3>1, <3>2 DEF ChanInv, Unsent, Offering, Taking, Handed
  <2>3. QED
    BY <2>1, <2>2
<1>8. ChanInv'
  BY <1>7 DEF ChanInv
<1>9. EndInv'
  <2>1. ASSUME NEW c \in Chans, pc'[c] # "none" PROVE pc'[c] \in Final <=> Told(c)'
    <3>1. pc[c] # "none" /\ (pc'[c] \in Final <=> pc[c] \in Final)
      BY <1>1, <1>6, <2>1 DEF Final
    <3>2. Told(c)' <=> Told(c)
      <4>1. CASE c = t + 1
        BY <1>1, <1>2, <4>1 DEF Told, Exhausted
      <4>2. CASE c # t + 1
        BY <1>1, <1>6, <4>2 DEF Told
      <4>3. QED
        BY <4>1, <4>2
    <3>3. QED
      BY <3>1, <3>2 DEF EndInv
  <2>2. QED
    BY <2>1 DEF EndInv
<1>10. QED
  BY <1>4, <1>5, <1>8, <1>9

LEMMA SentLink ==
  ASSUME LinkInv, NEW t \in Threads, t # Depth, Sent(t)
  PROVE  LinkInv'
<1> USE Indices DEF LinkInv
<1>1. PICK to \in {"send", "delete", "loop", "last"} :
        /\ t + 1 \in Chans /\ pc[t] = "sending" /\ pc' = [pc EXCEPT ![t] = to]
        /\ to = AfterSend(t)
        /\ mReceived[t + 1] > 0 /\ mReceived' = [mReceived EXCEPT ![t + 1] = mReceived[t + 1] - 1]
        /\ UNCHANGED <<kind, max, exists, mPtr, mSize, mSent, prime>>
        /\ pc \in [Threads -> Labels]
  <2>1. t + 1 \in Chans /\ pc \in [Threads -> Labels]
    BY DEF TypeInv
  <2>2. AfterSend(t) \in {"send", "delete", "loop", "last"}
    BY DEF AfterSend
  <2>3. QED
    BY <2>1, <2>2 DEF Sent, To, Wait, GoTo
<1>2. Handed(t + 1) /\ mReceived[t + 1] = 1
  BY <1>1 DEF ChanInv, Offering, Taking, Handed
<1>3. mReceived' = [mReceived EXCEPT ![t + 1] = 0]
  BY <1>1, <1>2
<1>4. num' \in [Threads -> Nat] /\ \A u \in Threads : u # 0 \/ u # t => num'[u] = num[u]
  BY DEF Sent, TypeInv
<1>5. to \in {"delete", "last"} <=> mSize[t + 1] = 0
  BY <1>1 DEF AfterSend, To, TypeInv, Whole
<1>6. TypeInv'
  <2>1. mSendable' \in [Chans -> {"free", "locked"}]
    BY DEF Sent, TypeInv
  <2>2. to \in Labels /\ (t = 0 => to \in {"send", "delete"})
    BY <1>1 DEF AfterSend, Labels, Feeding
  <2>3. pc' \in [Threads -> Labels] /\ pc'[0] \in {"send", "sending", "delete", "done"}
    BY <1>1, <2>2 DEF TypeInv
  <2>4. mReceived' \in [Chans -> Nat]
    BY <1>3 DEF TypeInv
  <2>5. QED
    BY <1>1, <1>4, <2>1, <2>3, <2>4 DEF TypeInv
<1>7. ShapeInv'
  <2>1. t = 0 => to \in {"send", "delete"}
    BY <1>1 DEF AfterSend
  <2>2. QED
    BY <1>1, <2>1, OneMoves DEF Labels, Alone, Feeding
<1>8. \A u \in Threads : u # t => pc'[u] = pc[u]
  BY <1>1
<1>9. ASSUME NEW c \in Chans
      PROVE IF pc'[c - 1] = "sending"
            THEN mPtr'[c] = num'[c - 1] /\ (Offering(c)' \/ Taking(c)' \/ Handed(c)')
            ELSE Unsent(c)'
  <2>1. CASE c = t + 1
    BY <1>1, <1>2, <1>3, <1>8, <2>1 DEF Unsent, Handed, TypeInv
  <2>2. CASE c # t + 1
    <3>1. c - 1 # t /\ pc'[c - 1] = pc[c - 1] /\ mReceived'[c] = mReceived[c]
      BY <1>3, <1>8, <2>2
    <3>2. pc'[c] \in Copies <=> pc[c] \in Copies
      BY <1>1, <1>8 DEF Copies
    <3>3. num'[c] = num[c]
      BY <1>4
    <3>4. num'[c - 1] = num[c - 1]
      BY <1>4, <3>1
    <3>5. QED
      BY <1>1, <3>1, <3>2, <3>3, <3>4 DEF ChanInv, Unsent, Offering, Taking, Handed
  <2>3. QED
    BY <2>1, <2>2
<1>10. ChanInv'
  BY <1>9 DEF ChanInv
<1>11. EndInv'
  <2>1. ASSUME NEW c \in Chans, pc'[c] # "none" PROVE pc'[c] \in Final <=> Told(c)'
    <3>1. pc[c] # "none" /\ (c # t => pc'[c] = pc[c])
      BY <1>1, <1>8, <2>1
    <3>2. Told(c)' <=> Told(c)
      <4>1. CASE c = t + 1
        BY <1>1, <1>2, <1>5, <4>1 DEF Told, Exhausted
      <4>2. CASE c # t + 1
        BY <1>1, <1>3, <1>8, <4>2 DEF Told
      <4>3. QED
        BY <4>1, <4>2
    <3>3. c = t => (pc'[c] \in Final <=> pc[c] \in Final)
      BY <1>1 DEF AfterSend, Final
    <3>4. QED
      BY <3>1, <3>2, <3>3 DEF EndInv
  <2>2. QED
    BY <2>1 DEF EndInv
<1>12. QED
  BY <1>6, <1>7, <1>10, <1>11

LEMMA DeleteLink ==
  ASSUME LinkInv, NEW t \in Threads, t # Depth, Delete(t)
  PROVE  LinkInv'
<1> USE Indices DEF LinkInv
<1>1. /\ t + 1 \in Chans /\ pc[t] = "delete" /\ pc' = [pc EXCEPT ![t] = "done"]
      /\ exists' = [exists EXCEPT ![t + 1] = "deleted"]
      /\ UNCHANGED <<kind, max, mSendable, mPtr, mSize, mSent, mReceived, prime, num>>
      /\ pc \in [Threads -> Labels]
  <2>1. t + 1 \in Chans /\ pc \in [Threads -> Labels]
    BY DEF TypeInv
  <2>2. QED
    BY <2>1 DEF Delete, To, GoTo
<1>2. \A u \in Threads : u # t => pc'[u] = pc[u]
  BY <1>1
<1>3. TypeInv'
  BY <1>1 DEF TypeInv, Labels
<1>4. ShapeInv'
  <2>1. \A u \in Threads : pc'[u] = "none" <=> pc[u] = "none"
    BY <1>1, <1>2
  <2>2. ASSUME NEW c \in Chans
        PROVE  /\ pc'[c - 1] \in Alone => pc'[c] = "none"
               /\ pc'[c - 1] \in Feeding => pc'[c] # "none"
    BY <1>1, <1>2, <2>1 DEF ShapeInv, Alone, Feeding
  <2>3. ASSUME NEW c \in Chans, exists'[c] = "deleted"
        PROVE  pc'[c - 1] = "done" /\ pc'[c] # "none"
    <3>1. CASE c = t + 1
      <4>1. pc[t] \in Feeding
        BY <1>1 DEF Feeding
      <4>2. QED
        BY <1>1, <2>1, <3>1, <4>1 DEF ShapeInv
    <3>2. CASE c # t + 1
      BY <1>1, <1>2, <2>1, <2>3, <3>2 DEF ShapeInv, TypeInv
    <3>3. QED
      BY <3>1, <3>2
  <2>4. QED
    BY <2>1, <2>2, <2>3 DEF ShapeInv
<1>5. ChanInv'
  <2>1. \A c \in Chans : /\ pc'[c] \in Copies <=> pc[c] \in Copies
                         /\ pc'[c - 1] = "sending" <=> pc[c - 1] = "sending"
    BY <1>1, <1>2 DEF Copies
  <2>2. QED
    BY <1>1, <2>1 DEF ChanInv, Unsent, Offering, Taking, Handed
<1>6. EndInv'
  <2>1. \A c \in Chans : /\ pc'[c] \in Final <=> pc[c] \in Final
                         /\ pc'[c] = "none" <=> pc[c] = "none"
                         /\ pc'[c - 1] \in Exhausted <=> pc[c - 1] \in Exhausted
                         /\ pc'[c - 1] = "sending" <=> pc[c - 1] = "sending"
    BY <1>1, <1>2 DEF Final, Exhausted
  <2>2. QED
    BY <1>1, <2>1 DEF EndInv, Told
<1>7. QED
  BY <1>3, <1>4, <1>5, <1>6

(* Start and the wait of Channel2: the thread neither sends nor has ended. *)
LEMMA StartLink ==
  ASSUME LinkInv, NEW t \in Threads \ {0}, Start(t)
  PROVE  LinkInv'
<1> USE Indices DEF LinkInv
<1>1. PICK to \in {"only", "seek"} :
        /\ pc[t] = "start" /\ pc' = [pc EXCEPT ![t] = to]
        /\ UNCHANGED <<kind, max, exists, mSendable, mPtr, mSize, mSent, mReceived, prime, num>>
        /\ pc \in [Threads -> Labels]
  BY DEF Start, GoTo, chanVars, TypeInv
<1>2. \A u \in Threads : u # t => pc'[u] = pc[u]
  BY <1>1
<1>3. TypeInv'
  BY <1>1 DEF TypeInv, Labels, Alone
<1>4. ShapeInv'
  BY <1>1, OneMoves DEF Labels, Alone, Feeding
<1>5. ChanInv'
  <2>1. \A c \in Chans : /\ pc'[c] \in Copies <=> pc[c] \in Copies
                         /\ pc'[c - 1] = "sending" <=> pc[c - 1] = "sending"
    BY <1>1, <1>2 DEF Copies
  <2>2. QED
    BY <1>1, <2>1 DEF ChanInv, Unsent, Offering, Taking, Handed
<1>6. EndInv'
  <2>1. \A c \in Chans : /\ pc'[c] \in Final <=> pc[c] \in Final
                         /\ pc'[c] = "none" <=> pc[c] = "none"
                         /\ pc'[c - 1] \in Exhausted <=> pc[c - 1] \in Exhausted
                         /\ pc'[c - 1] = "sending" <=> pc[c - 1] = "sending"
    BY <1>1, <1>2 DEF Final, Exhausted
  <2>2. QED
    BY <1>1, <2>1 DEF EndInv, Told
<1>7. QED
  BY <1>3, <1>4, <1>5, <1>6

LEMMA Receive2Link ==
  ASSUME LinkInv, NEW t \in Threads \ {0}, NEW at \in Ats, Receive2(t, at)
  PROVE  LinkInv'
<1> USE Indices DEF LinkInv
<1>1. /\ pc[t] = at /\ pc' = [pc EXCEPT ![t] = Copying(at)]
      /\ mSent[t] > 0 /\ mSent' = [mSent EXCEPT ![t] = mSent[t] - 1]
      /\ UNCHANGED <<kind, max, exists, mSendable, mPtr, mSize, mReceived, prime, num>>
      /\ pc \in [Threads -> Labels]
  BY DEF Receive2, GoTo, TypeInv, Wait
<1>2. /\ Copying(at) \in Labels \ {"none"} /\ Copying(at) \in Copies /\ Copying(at) \notin Final
      /\ at \notin Final /\ at \notin {"none", "sending", "done"} /\ Copying(at) # "sending"
      /\ (Copying(at) \in Alone => at \in Alone) /\ (Copying(at) \in Feeding => at \in Feeding)
      /\ (Copying(at) \in Exhausted <=> at \in Exhausted)
  BY DEF Ats, Copying, Labels, Alone, Feeding, Copies, Final, Exhausted
<1>3. \A u \in Threads : u # t => pc'[u] = pc[u]
  BY <1>1
<1>4. Offering(t) /\ mSent[t] = 1 /\ pc[t - 1] = "sending" /\ mPtr[t] = num[t - 1]
  BY <1>1 DEF ChanInv, Unsent, Offering, Taking, Handed
<1>5. mSent' = [mSent EXCEPT ![t] = 0]
  BY <1>1, <1>4
<1>6. TypeInv'
  BY <1>1, <1>2, <1>5 DEF TypeInv
<1>7. ShapeInv'
  BY <1>1, <1>2, OneMoves
<1>8. ASSUME NEW c \in Chans
      PROVE IF pc'[c - 1] = "sending"
            THEN mPtr'[c] = num'[c - 1] /\ (Offering(c)' \/ Taking(c)' \/ Handed(c)')
            ELSE Unsent(c)'
  <2>1. pc'[c - 1] = "sending" <=> pc[c - 1] = "sending"
    BY <1>1, <1>2, <1>3
  <2>2. CASE c = t
    <3>1. Taking(c)'
      BY <1>1, <1>2, <1>4, <1>5, <2>2 DEF Taking, Offering, TypeInv
    <3>2. QED
      BY <1>1, <1>4, <2>1, <2>2, <3>1
  <2>3. CASE c # t
    <3>1. pc'[c] = pc[c] /\ mSent'[c] = mSent[c]
      BY <1>1, <1>3, <2>3
    <3>2. QED
      BY <1>1, <2>1, <3>1 DEF ChanInv, Unsent, Offering, Taking, Handed
  <2>4. QED
    BY <2>2, <2>3
<1>9. ChanInv'
  BY <1>8 DEF ChanInv
<1>10. EndInv'
  <2>1. \A c \in Chans : /\ pc'[c] \in Final <=> pc[c] \in Final
                         /\ pc'[c] = "none" <=> pc[c] = "none"
                         /\ pc'[c - 1] \in Exhausted <=> pc[c - 1] \in Exhausted
                         /\ pc'[c - 1] = "sending" <=> pc[c - 1] = "sending"
    BY <1>1, <1>2, <1>3
  <2>2. QED
    BY <1>1, <2>1 DEF EndInv, Told
<1>11. QED
  BY <1>6, <1>7, <1>9, <1>10

(* Which threads it moves.                                                 *)
LEMMA TakeMoves ==
  ASSUME LinkInv, NEW t \in Threads, NEW at \in Ats, Takes(t, at)
  PROVE  /\ pc'[t] \in {"send", "seek", "loop", "delete", "done"}
         /\ \A u \in Threads \ {t, t + 1} : pc'[u] = pc[u]
         /\ t + 1 \in Threads /\ pc'[t + 1] # pc[t + 1] =>
              /\ pc[t] \in Alone /\ pc'[t] = "loop" /\ pc[t + 1] = "none" /\ pc'[t + 1] = "start"
<1> USE Indices DEF LinkInv
<1>1. /\ t \in Chans /\ pc[t] \in {at, Copying(at)}
      /\ \/ at = "seek" /\ num[t - 1] % prime[t] # 0 /\ NewFilter(t)
         \/ GoesOn(t, at)
  BY TakeEffect
<1>2. pc \in [Threads -> Labels]
  BY DEF TypeInv
<1>3. pc'[t] \in {"send", "seek", "loop", "delete", "done"} /\ \A u \in Threads \ {t, t + 1} : pc'[u] = pc[u]
  BY <1>1, <1>2 DEF NewFilter, GoesOn, To
<1>4. t + 1 \in Threads /\ pc'[t + 1] # pc[t + 1] =>
        /\ pc[t] \in Alone /\ pc'[t] = "loop" /\ pc[t + 1] = "none" /\ pc'[t + 1] = "start"
  <2>1. CASE at = "seek" /\ num[t - 1] % prime[t] # 0 /\ NewFilter(t)
    <3>1. pc[t] \in Alone
      BY <1>1, <2>1 DEF Copying, Alone
    <3>2. pc' = [pc EXCEPT ![t] = "loop", ![t + 1] = "start"]
      BY <2>1 DEF NewFilter, To
    <3>3. t + 1 \in Threads => t + 1 \in Chans /\ (t + 1) - 1 = t
      BY <1>1 DEF Chans, Threads
    <3>4. t + 1 \in Threads => pc[t + 1] = "none" /\ pc'[t + 1] = "start" /\ pc'[t] = "loop"
      BY <1>2, <3>1, <3>2, <3>3 DEF ShapeInv
    <3>5. QED
      BY <3>1, <3>4
  <2>2. CASE GoesOn(t, at)
    BY <1>2, <2>2 DEF GoesOn
  <2>3. QED
    BY <1>1, <2>1, <2>2
<1>5. QED
  BY <1>3, <1>4

LEMMA TakesLink ==
  ASSUME LinkInv, NEW t \in Threads, NEW at \in Ats, Takes(t, at)
  PROVE  LinkInv'
<1> USE Indices DEF LinkInv
<1>1. /\ t \in Chans /\ pc[t] \in {at, Copying(at)} /\ Copying(at) \in Copies
      /\ pc[t - 1] = "sending" /\ mReceived[t] = 0 /\ mSize[t] = Whole
      /\ mSent' = [mSent EXCEPT ![t] = 0] /\ mReceived' = [mReceived EXCEPT ![t] = 1]
      /\ mSize' = [mSize EXCEPT ![t] = IF at \in Stores THEN Whole ELSE 0]
      /\ num' = IF at \in Stores THEN [num EXCEPT ![t] = num[t - 1]] ELSE num
      /\ UNCHANGED <<kind, max, mSendable, mPtr>>
      /\ \/ at = "seek" /\ num[t - 1] % prime[t] # 0 /\ NewFilter(t)
         \/ GoesOn(t, at)
  BY TakeEffect
<1>2. pc \in [Threads -> Labels] /\ t \in Threads \ {0} /\ t - 1 \in Threads
  BY <1>1 DEF TypeInv
<1>3. pc[t] \notin {"none", "sending", "done", "send"} /\ pc[t] \notin Final
  BY <1>1 DEF Ats, Copying, Final
<1>4. PICK to \in {"send", "seek", "loop", "delete", "done"} :
        /\ pc'[t] = to
        /\ \A u \in Threads \ {t, t + 1} : pc'[u] = pc[u]
        /\ to \in Final <=> at \notin Stores
        /\ to \notin Copies
  BY <1>1, <1>2 DEF NewFilter, GoesOn, To, Ats, Stores, Final, Copies
<1>5. t + 1 \in Threads /\ pc'[t + 1] # pc[t + 1] =>
        /\ pc[t] \in Alone /\ pc'[t] = "loop" /\ pc[t + 1] = "none" /\ pc'[t + 1] = "start"
  BY TakeMoves
<1>6. TypeInv'
  <2>1. pc' \in [Threads -> Labels] /\ exists' \in [Chans -> {"no", "yes", "deleted"}]
        /\ prime' \in [Threads -> Nat]
    <3>1. {"start", "send", "seek", "loop", "delete", "done"} \subseteq Labels /\ num[t - 1] \in Nat
          /\ exists \in [Chans -> {"no", "yes", "deleted"}] /\ prime \in [Threads -> Nat]
      BY <1>2 DEF TypeInv, Labels, Alone, Feeding
    <3>2. CASE NewFilter(t)
      BY <1>2, <3>1, <3>2 DEF NewFilter, To
    <3>3. CASE GoesOn(t, at)
      BY <1>2, <3>1, <3>3 DEF GoesOn
    <3>4. QED
      BY <1>1, <3>2, <3>3
  <2>2. num' \in [Threads -> Nat]
    BY <1>1, <1>2 DEF TypeInv
  <2>3. pc'[0] = pc[0]
    BY <1>2, <1>4
  <2>4. mSize' \in [Chans -> {0, Whole}]
    BY <1>1 DEF TypeInv
  <2>5. QED
    BY <1>1, <2>1, <2>2, <2>3, <2>4 DEF TypeInv
<1>7. ShapeInv'
  <2>1. CASE GoesOn(t, at)
    <3>1. PICK so \in {"send", "seek", "loop", "delete", "done"} :
            /\ pc' = [pc EXCEPT ![t] = so] /\ UNCHANGED exists
            /\ so = "send" => at = "loop"
            /\ so \in {"seek", "loop"} => at = so
            /\ so = "delete" => at = "last"
      BY <2>1 DEF GoesOn, Stores
    <3>2. /\ so \in Labels \ {"none"} /\ (so \in Alone => pc[t] \in Alone)
          /\ (so \in Feeding => pc[t] \in Feeding)
      BY <1>1, <3>1 DEF Labels, Alone, Feeding, Copying
    <3>3. QED
      BY <1>2, <1>3, <3>1, <3>2, OneMoves
  <2>2. CASE NewFilter(t) /\ at = "seek"
    <3>1. /\ pc'[t] = "loop" /\ (t + 1 \in Threads => pc[t + 1] = "none" /\ pc'[t + 1] = "start")
          /\ \A u \in Threads \ {t, t + 1} : pc'[u] = pc[u]
      <4>1. pc' = [pc EXCEPT ![t] = "loop", ![t + 1] = "start"]
        BY <2>2 DEF NewFilter, To
      <4>2. pc[t] \in Alone
        BY <1>1, <2>2 DEF Copying, Alone
      <4>3. t + 1 \in Threads => t + 1 \in Chans /\ (t + 1) - 1 = t
        BY <1>1 DEF Chans, Threads
      <4>4. QED
        BY <1>2, <4>1, <4>2, <4>3 DEF ShapeInv
    <3>2. exists' = [exists EXCEPT ![t + 1] = "yes"]
      BY <2>2 DEF NewFilter, To
    <3>3. ASSUME NEW u \in Threads, NEW v \in Threads, u <= v, pc'[v] # "none" PROVE pc'[u] # "none"
      <4>1. pc[u] # "none" => pc'[u] # "none"
        BY <3>1
      <4>2. CASE v = t + 1
        <5>1. u = t + 1 \/ u <= t
          BY <1>2, <3>3, <4>2
        <5>2. QED
          BY <1>2, <1>3, <3>1, <4>1, <5>1 DEF ShapeInv
      <4>3. CASE v # t + 1
        BY <1>3, <3>1, <3>3, <4>1, <4>3 DEF ShapeInv
      <4>4. QED
        BY <4>2, <4>3
    <3>4. ASSUME NEW c \in Chans, pc'[c - 1] \in Alone PROVE pc'[c] = "none"
      <4>1. c - 1 # t /\ c # t
        BY <1>1, <1>2, <3>1, <3>4 DEF Alone
      <4>2. c # t + 1
        BY <4>1
      <4>3. pc[c - 1] \in Alone
        BY <3>1, <3>4, <4>1 DEF Alone
      <4>4. QED
        BY <3>1, <4>1, <4>2, <4>3 DEF ShapeInv
    <3>5. ASSUME NEW c \in Chans, pc'[c - 1] \in Feeding PROVE pc'[c] # "none"
      <4>1. CASE c - 1 = t
        BY <3>1, <4>1
      <4>2. CASE c - 1 # t
        <5>1. c - 1 # t + 1 /\ pc[c - 1] \in Feeding
          BY <3>1, <3>5, <4>2 DEF Feeding
        <5>2. QED
          BY <3>1, <5>1 DEF ShapeInv
      <4>3. QED
        BY <4>1, <4>2
    <3>6. ASSUME NEW c \in Chans, exists'[c] = "deleted" PROVE pc'[c - 1] = "done" /\ pc'[c] # "none"
      <4>1. c # t + 1 /\ exists[c] = "deleted"
        BY <3>2, <3>6 DEF TypeInv
      <4>2. pc[c - 1] = "done" /\ pc[c] # "none" /\ c - 1 # t
        BY <4>1 DEF ShapeInv
      <4>3. QED
        BY <3>1, <4>1, <4>2
    <3>7. QED
      BY <3>3, <3>4, <3>5, <3>6 DEF ShapeInv
  <2>3. QED
    BY <1>1, <2>1, <2>2
<1>8. ASSUME NEW c \in Chans
      PROVE IF pc'[c - 1] = "sending"
            THEN mPtr'[c] = num'[c - 1] /\ (Offering(c)' \/ Taking(c)' \/ Handed(c)')
            ELSE Unsent(c)'
  <2>1. pc'[c - 1] = "sending" <=> pc[c - 1] = "sending"
    BY <1>2, <1>3, <1>4, <1>5
  <2>2. CASE c = t
    <3>1. mSent'[c] = 0 /\ mReceived'[c] = 1 /\ pc'[c] \notin Copies /\ num'[c - 1] = num[c - 1]
      BY <1>1, <1>2, <1>4, <2>2 DEF TypeInv
    <3>2. mSize'[c] = Whole => num'[c] = num[c - 1]
      BY <1>1, <1>2, <2>2 DEF TypeInv, Whole
    <3>3. mPtr[c] = num[c - 1] /\ mPtr'[c] = mPtr[c]
      BY <1>1, <2>2 DEF ChanInv
    <3>4. QED
      BY <1>1, <2>1, <2>2, <3>1, <3>2, <3>3 DEF Handed
  <2>3. CASE c # t
    <3>1. mSent'[c] = mSent[c] /\ mReceived'[c] = mReceived[c] /\ mSize'[c] = mSize[c]
          /\ mPtr'[c] = mPtr[c] /\ num'[c] = num[c]
      BY <1>1, <2>3 DEF TypeInv
    <3>2. pc'[c] \in Copies <=> pc[c] \in Copies
      BY <1>4, <1>5, <2>3 DEF Copies
    <3>3. pc[c - 1] = "sending" => num'[c - 1] = num[c - 1]
      BY <1>1, <1>2, <1>3
    <3>4. QED
      BY <2>1, <3>1, <3>2, <3>3 DEF ChanInv, Unsent, Offering, Taking, Handed
  <2>4. QED
    BY <2>2, <2>3
<1>9. ChanInv'
  BY <1>8 DEF ChanInv
<1>10. ASSUME NEW c \in Chans, pc'[c] # "none" PROVE pc'[c] \in Final <=> Told(c)'
  <2>1. pc'[c - 1] = "sending" <=> pc[c - 1] = "sending"
    BY <1>2, <1>3, <1>4, <1>5
  <2>2. CASE c = t
    <3>1. pc'[c - 1] = "sending" /\ mReceived'[c] = 1 /\ (mSize'[c] = 0 <=> at \notin Stores)
      BY <1>1, <2>1, <2>2 DEF TypeInv, Whole
    <3>2. pc'[c - 1] \notin Exhausted
      BY <3>1 DEF Exhausted
    <3>3. QED
      BY <1>4, <2>2, <3>1, <3>2 DEF Told
  <2>3. CASE c = t + 1
    <3>1. t + 1 \in Threads /\ c - 1 = t
      BY <2>3
    <3>2. CASE pc'[c] # pc[c]
      BY <1>5, <2>3, <3>1, <3>2 DEF Told, Exhausted, Final
    <3>3. CASE pc'[c] = pc[c]
      <4>1. pc[t] \notin Alone
        BY <1>10, <3>1, <3>3 DEF ShapeInv
      <4>2. at \in {"loop", "last"}
        BY <1>1, <4>1 DEF Ats, Copying, Alone
      <4>3. pc'[t] \in Exhausted <=> pc[t] \in Exhausted
        <5>1. GoesOn(t, at)
          BY <1>1, <4>2
        <5>2. pc'[t] \in {"send", "loop"} <=> at = "loop"
          BY <1>2, <4>2, <5>1 DEF GoesOn, Stores
        <5>3. pc'[t] = "delete" <=> at = "last"
          BY <1>2, <4>2, <5>1 DEF GoesOn, Stores
        <5>4. QED
          BY <1>1, <4>2, <5>2, <5>3 DEF Exhausted, Copying
      <4>4. QED
        BY <1>3, <1>10, <2>1, <3>1, <3>3, <4>3 DEF EndInv, Told
    <3>4. QED
      BY <3>2, <3>3
  <2>4. CASE c # t /\ c # t + 1
    <3>1. pc'[c] = pc[c]
      BY <1>4, <2>4
    <3>2. pc'[c - 1] = pc[c - 1]
      <4>1. c - 1 # t
        BY <2>4
      <4>2. CASE c - 1 = t + 1
        <5>1. pc[t + 1] # "none"
          BY <1>10, <3>1, <4>2 DEF ShapeInv, Alone
        <5>2. QED
          BY <1>5, <4>2, <5>1
      <4>3. CASE c - 1 # t + 1
        BY <1>4, <4>1, <4>3
      <4>4. QED
        BY <4>2, <4>3
    <3>3. mReceived'[c] = mReceived[c] /\ mSize'[c] = mSize[c]
      BY <1>1, <2>4 DEF TypeInv
    <3>4. QED
      BY <1>10, <3>1, <3>2, <3>3 DEF EndInv, Told
  <2>5. QED
    BY <2>2, <2>3, <2>4
<1>11. EndInv'
  BY <1>10 DEF EndInv
<1>12. QED
  BY <1>6, <1>7, <1>9, <1>11

(* The steps, named for what they do to a channel.                         *)
LEMMA StepCases ==
  ASSUME Next
  PROVE  \E t \in Threads :
           \/ t # Depth /\ (Send(t) \/ Sent(t) \/ Delete(t))
           \/ t # 0 /\ Start(t)
           \/ t # 0 /\ \E at \in Ats : Receive2(t, at)
           \/ \E at \in Ats : Takes(t, at)
BY DEF Next, Step, Sender, Filter, Takes, Ats

LEMMA LinkStutter == LinkInv /\ UNCHANGED vars => LinkInv'
<1> SUFFICES ASSUME LinkInv, UNCHANGED vars PROVE LinkInv'
  OBVIOUS
<1>1. TypeInv' /\ ShapeInv'
  BY DEF LinkInv, vars, chanVars, TypeInv, ShapeInv
<1>2. ChanInv' /\ EndInv'
  BY DEF LinkInv, vars, chanVars, ChanInv, EndInv, Unsent, Offering, Taking, Handed, Told
<1>3. QED
  BY <1>1, <1>2 DEF LinkInv

(* Types, threads and channels.                                            *)
THEOREM PipelineLink == Spec => []LinkInv
<1>1. ASSUME LinkInv, Next PROVE LinkInv'
  BY <1>1, StepCases, SendLink, SentLink, DeleteLink, StartLink, Receive2Link, TakesLink
<1>2. LinkInv /\ [Next]_vars => LinkInv'
  BY <1>1, LinkStutter
<1>3. QED
  BY InitLinkInv, <1>2, PTL DEF Spec

(* A channel is deleted by its sender, which has then been told that the   *)
(* receiver took nothing; and the receiver takes nothing only once, last.  *)
THEOREM PipelineNoUseAfterDelete == Spec => []NoUseAfterDelete
<1>1. ASSUME LinkInv, NEW c \in Chans, exists[c] = "deleted"
      PROVE  pc[c] \in {"delete", "done"} /\ pc[c - 1] = "done"
  BY <1>1 DEF LinkInv, ShapeInv, EndInv, Told, Final, Exhausted
<1>2. LinkInv => NoUseAfterDelete
  BY <1>1 DEF NoUseAfterDelete
<1>3. QED
  BY <1>2, PipelineLink, PTL
-----------------------------------------------------------------------------
(* Each channel implements Rendezvous: Send is an Offer, the copying part  *)
(* of receive a Take of what was asked for, and the end of send a Leave.   *)

slots == [c \in Chans |-> SlotOf(c)]

(* A step that changes nothing that a slot is made of.                     *)
LEMMA SlotKept ==
  ASSUME LinkInv, NEW c \in Chans,
         pc'[c - 1] = "sending" <=> pc[c - 1] = "sending",
         pc[c - 1] = "sending" => /\ mReceived'[c] = mReceived[c] /\ mSize'[c] = mSize[c]
                                  /\ num'[c - 1] = num[c - 1] /\ num'[c] = num[c]
  PROVE  SlotOf(c)' = SlotOf(c)
BY DEF SlotOf

LEMMA Simulation == LinkInv /\ Next => Channels!Next \/ UNCHANGED slots
<1> SUFFICES ASSUME LinkInv, Next PROVE Channels!Next \/ UNCHANGED slots
  OBVIOUS
<1> USE Indices DEF LinkInv
<1>0. pc \in [Threads -> Labels] /\ mReceived \in [Chans -> Nat] /\ mSize \in [Chans -> {0, Whole}]
      /\ num \in [Threads -> Nat]
  BY DEF TypeInv
<1>1. ASSUME NEW t \in Threads, NEW to, pc[t] # "sending", to # "sending",
             pc' = [pc EXCEPT ![t] = to], UNCHANGED <<mReceived, mSize, num>>
      PROVE UNCHANGED slots
  <2>1. \A c \in Chans : pc'[c - 1] = "sending" <=> pc[c - 1] = "sending"
    BY <1>0, <1>1
  <2>2. \A c \in Chans : SlotOf(c)' = SlotOf(c)
    BY <1>1, <2>1, SlotKept
  <2>3. QED
    BY <2>2 DEF slots
<1>2. ASSUME NEW t \in Threads, t # Depth, Send(t) PROVE Channels!Next
  <2>1. /\ t + 1 \in Chans /\ (t + 1) - 1 = t /\ pc[t] = "send" /\ pc' = [pc EXCEPT ![t] = "sending"]
        /\ UNCHANGED <<mReceived, num>>
        /\ mSize' = [mSize EXCEPT ![t + 1] = Whole]
    BY <1>2 DEF Send, To, GoTo
  <2>2. mReceived[t + 1] = 0
    BY <2>1 DEF ChanInv, Unsent
  <2>3. SlotOf(t + 1) = Channels!Idle /\ SlotOf(t + 1)' = Channels!Offered(num[t])
    BY <1>0, <2>1, <2>2 DEF SlotOf, Channels!Idle, Channels!Offered
  <2>4. ASSUME NEW c \in Chans, c # t + 1 PROVE SlotOf(c)' = SlotOf(c)
    <3>1. c - 1 # t
      BY <2>4
    <3>2. QED
      BY <1>0, <2>1, <2>4, <3>1, SlotKept
  <2>5. slots' = [slots EXCEPT ![t + 1] = Channels!Offered(num[t])] /\ slots[t + 1] = Channels!Idle
    BY <2>1, <2>3, <2>4 DEF slots
  <2>6. slots'[t + 1].state = "offered" /\ slots'[t + 1].value = num[t] /\ num[t] \in Nat
    BY <1>0, <2>1, <2>3 DEF slots, Channels!Offered
  <2>7. Channels!Offer(t + 1)
    BY <2>5, <2>6 DEF Channels!Offer, slots
  <2>8. QED
    BY <2>1, <2>7 DEF Channels!Next
<1>3. ASSUME NEW t \in Threads, t # Depth, Sent(t) PROVE Channels!Next
  <2>1. /\ t + 1 \in Chans /\ (t + 1) - 1 = t /\ pc[t] = "sending"
        /\ pc' = [pc EXCEPT ![t] = AfterSend(t)] /\ AfterSend(t) # "sending"
        /\ mReceived' = [mReceived EXCEPT ![t + 1] = mReceived[t + 1] - 1]
        /\ mReceived[t + 1] > 0 /\ UNCHANGED mSize
    <3>1. t + 1 \in Chans /\ (t + 1) - 1 = t
      BY <1>3
    <3>2. AfterSend(t) # "sending"
      BY DEF AfterSend
    <3>3. QED
      BY <1>3, <3>1, <3>2 DEF Sent, To, GoTo, Wait
  <2>2. \A u \in Threads : u # 0 \/ u # t => num'[u] = num[u]
    BY <1>0, <1>3 DEF Sent
  <2>3. slots[t + 1].state = "taken" /\ SlotOf(t + 1)' = Channels!Idle
    BY <1>0, <2>1 DEF SlotOf, Channels!Idle, slots
  <2>4. ASSUME NEW c \in Chans, c # t + 1 PROVE SlotOf(c)' = SlotOf(c)
    <3>1. c - 1 # t
      BY <2>4
    <3>2. QED
      BY <1>0, <2>1, <2>2, <2>4, <3>1, SlotKept
  <2>5. slots' = [slots EXCEPT ![t + 1] = Channels!Idle]
    BY <2>1, <2>3, <2>4 DEF slots
  <2>6. Channels!Leave(t + 1)
    BY <2>3, <2>5 DEF Channels!Leave, slots
  <2>7. QED
    BY <2>1, <2>6 DEF Channels!Next
<1>4. ASSUME NEW t \in Threads, NEW at \in Ats, Takes(t, at) PROVE Channels!Next
  <2>0. PICK n \in {0, Whole} : n = IF at \in Stores THEN Whole ELSE 0
    OBVIOUS
  <2>1. /\ t \in Chans /\ pc[t] \in {at, Copying(at)} /\ t - 1 \in Threads
        /\ pc[t - 1] = "sending" /\ mReceived[t] = 0
        /\ mReceived' = [mReceived EXCEPT ![t] = 1] /\ mSize' = [mSize EXCEPT ![t] = n]
        /\ num' = IF at \in Stores THEN [num EXCEPT ![t] = num[t - 1]] ELSE num
        /\ NewFilter(t) \/ GoesOn(t, at)
    BY <1>4, <2>0, TakeEffect, Indices
  <2>2. pc[t] # "sending" /\ pc'[t] # "sending"
    BY <1>0, <2>1 DEF Ats, Copying, NewFilter, GoesOn, To
  <2>4. ASSUME NEW u \in Threads PROVE pc'[u] = "sending" <=> pc[u] = "sending"
    <3>1. CASE u = t
      BY <2>2, <3>1
    <3>2. CASE u # t
      BY <1>4, <3>2, TakeMoves
    <3>3. QED
      BY <3>1, <3>2
  <2>5. SlotOf(t) = Channels!Offered(num[t - 1]) /\ SlotOf(t)' = Channels!Taken(num[t - 1], n)
    BY <1>0, <2>0, <2>1, <2>4 DEF SlotOf, Channels!Offered, Channels!Taken, Whole
  <2>6. ASSUME NEW c \in Chans, c # t PROVE SlotOf(c)' = SlotOf(c)
    <3>1. pc[c - 1] = "sending" => c - 1 # t
      BY <2>2
    <3>2. pc[c - 1] = "sending" => num'[c - 1] = num[c - 1] /\ num'[c] = num[c]
      BY <1>0, <2>1, <2>6, <3>1
    <3>3. QED
      BY <1>0, <2>1, <2>4, <2>6, <3>2, SlotKept
  <2>7. /\ slots[t].state = "offered" /\ slots[t].value = num[t - 1]
        /\ slots' = [slots EXCEPT ![t] = Channels!Taken(slots[t].value, n)]
    <3>1. slots[t].value = num[t - 1] /\ slots[t].state = "offered"
      BY <2>1, <2>5 DEF slots, Channels!Offered
    <3>2. PICK v : v = Channels!Taken(num[t - 1], n)
      OBVIOUS
    <3>3. slots' = [slots EXCEPT ![t] = v]
      BY <2>1, <2>5, <2>6, <3>2 DEF slots
    <3>4. QED
      BY <3>1, <3>2, <3>3
  <2>8. Channels!Take(t, n) /\ n \in {0, Whole}
    BY <2>7 DEF Channels!Take, slots
  <2>9. QED
    BY <2>1, <2>8 DEF Channels!Next
<1>5. ASSUME NEW t \in Threads, t # Depth, Delete(t) PROVE UNCHANGED slots
  BY <1>1, <1>5 DEF Delete, GoTo
<1>6. ASSUME NEW t \in Threads, t # 0, Start(t) PROVE UNCHANGED slots
  <2>1. PICK to \in {"only", "seek"} : GoTo(t, "start", to)
    BY <1>6 DEF Start
  <2>2. QED
    BY <1>1, <1>6, <2>1 DEF Start, GoTo, chanVars
<1>7. ASSUME NEW t \in Threads, t # 0, NEW at \in Ats, Receive2(t, at) PROVE UNCHANGED slots
  <2>1. at # "sending" /\ Copying(at) # "sending"
    BY DEF Ats, Copying
  <2>2. QED
    BY <1>1, <1>7, <2>1 DEF Receive2, GoTo
<1>8. QED
  BY <1>2, <1>3, <1>4, <1>5, <1>6, <1>7, StepCases

(* What a receiver copies is what the sender is sending, once, and the     *)
(* sender goes on after it was copied, knowing how much.                   *)
THEOREM PipelineImplementsRendezvous == Spec => ImplementsRendezvous
<1>1. ASSUME Init PROVE Channels!Init
  <2>1. \A c \in Chans : SlotOf(c) = Channels!Idle
    BY <1>1, Indices DEF Init, SlotOf, Channels!Idle
  <2>2. QED
    BY <2>1 DEF Channels!Init
<1>2. ASSUME UNCHANGED vars PROVE UNCHANGED slots
  BY <1>2 DEF vars, chanVars, slots, SlotOf
<1>3. LinkInv /\ [Next]_vars => [Channels!Next]_slots
  BY <1>2, Simulation
<1>4. QED
  BY <1>1, <1>3, PipelineLink, PTL DEF Spec, ImplementsRendezvous, Channels!Spec, slots
-----------------------------------------------------------------------------
(* Arithmetic.                                                             *)
LEMMA DivMod ==
  ASSUME NEW v \in Nat, NEW d \in Nat \ {0}
  PROVE  v \div d \in Nat /\ v % d \in 0 .. d - 1 /\ v = d * (v \div d) + (v % d)
OBVIOUS

LEMMA NoMultiple ==
  ASSUME NEW d \in Nat \ {0}, NEW k \in Int, NEW r \in 0 .. d - 1, d * k = r
  PROVE  r = 0
<1>1. CASE k >= 1
  BY <1>1
<1>2. CASE k <= -1
  BY <1>2
<1>3. QED
  BY <1>1, <1>2

LEMMA DividesTrans ==
  ASSUME NEW v \in Nat, NEW q \in Nat \ {0}, NEW d \in Nat \ {0}, v % q = 0, q % d = 0
  PROVE  v % d = 0
<1>1. PICK a \in Nat, b \in Nat, c \in Nat, r \in 0 .. d - 1 :
        v = q * a /\ q = d * b /\ v = d * c + r /\ r = v % d
  <2>1. v = q * (v \div q) /\ v \div q \in Nat
    BY DivMod
  <2>2. q = d * (q \div d) /\ q \div d \in Nat
    BY DivMod
  <2>3. v = d * (v \div d) + (v % d) /\ v \div d \in Nat /\ v % d \in 0 .. d - 1
    BY DivMod
  <2>4. QED
    BY <2>1, <2>2, <2>3
<1>2. d * (b * a - c) = r
  <2>1. v = (d * b) * a /\ (d * b) * a = d * (b * a)
    BY <1>1
  <2>2. d * (b * a - c) = d * (b * a) - d * c
    BY <1>1
  <2>3. QED
    BY <1>1, <2>1, <2>2
<1>3. b * a - c \in Int
  OBVIOUS
<1>4. QED
  BY <1>1, <1>2, <1>3, NoMultiple

(* A set of natural numbers has a least element: an interval 0 .. m with m *)
(* in the set is minimal among the finite sets of this form.               *)
LEMMA LeastNat ==
  ASSUME NEW S \in SUBSET Nat, S # {}
  PROVE  \E m \in S : \A k \in S : m <= k
<1>1. PICK n \in S : TRUE
  OBVIOUS
<1> DEFINE U == 0 .. n
           T == {X \in SUBSET U : \E m \in S : m \in U /\ X = 0 .. m}
<1>2. IsFiniteSet(U)
  BY FS_Interval
<1>3. FiniteSubsetsOf(U) = SUBSET U
  BY <1>2, FS_FiniteSubsetsOfFinite
<1>4. IsWellFoundedOn(StrictSubsetOrdering(U), SUBSET U)
  BY <1>3, FS_StrictSubsetOrderingWellFounded
<1>5. T \subseteq SUBSET U /\ T # {}
  <2>1. U \in T
    BY <1>1
  <2>2. QED
    BY <2>1
<1>6. PICK X \in T : \A Y \in T : ~(<<Y, X>> \in StrictSubsetOrdering(U))
  <2> HIDE DEF T, U
  <2>1. QED
    BY <1>4, <1>5, WFMin
<1>7. PICK m \in S : m \in U /\ X = 0 .. m
  OBVIOUS
<1>8. ASSUME NEW k \in S, k < m PROVE FALSE
  <2>1. (0 .. k) \in T
    BY <1>7, <1>8
  <2>2. (0 .. k) \subseteq (0 .. m) /\ (0 .. k) # (0 .. m)
    BY <1>7, <1>8
  <2>3. <<0 .. k, X>> \in StrictSubsetOrdering(U)
    BY <2>1, <2>2, <1>7 DEF StrictSubsetOrdering
  <2>4. QED
    BY <2>1, <2>3, <1>6
<1>9. QED
  BY <1>8

(* A number that is not prime has a prime divisor: its least one.          *)
LEMMA PrimeDivisor ==
  ASSUME NEW v \in Nat, v > 1, ~Prime(v)
  PROVE  \E q \in 2 .. v - 1 : Prime(q) /\ v % q = 0
<1> DEFINE S == {d \in 2 .. v - 1 : v % d = 0}
<1>1. S \in SUBSET Nat /\ S # {}
  <2>1. PICK d \in 2 .. v - 1 : v % d = 0
    BY DEF Prime
  <2>2. d \in S
    BY <2>1
  <2>3. S \subseteq Nat
    OBVIOUS
  <2>4. QED
    BY <2>2, <2>3
<1>2. PICK m \in S : \A k \in S : m <= k
  <2> HIDE DEF S
  <2>1. QED
    BY <1>1, LeastNat
<1>3. m \in 2 .. v - 1 /\ v % m = 0
  BY <1>2
<1>4. ASSUME NEW d \in 2 .. m - 1, m % d = 0 PROVE FALSE
  <2>1. m \in Nat \ {0} /\ d \in Nat \ {0} /\ d < m /\ d \in 2 .. v - 1
    BY <1>3, <1>4
  <2>2. v % d = 0
    BY <1>3, <1>4, <2>1, DividesTrans
  <2>3. d \in S
    BY <2>1, <2>2
  <2>4. QED
    BY <1>2, <2>1, <2>3
<1>5. Prime(m)
  <2>1. m > 1 /\ \A d \in 2 .. m - 1 : m % d # 0
    BY <1>3, <1>4
  <2>2. QED
    BY <2>1 DEF Prime
<1>6. QED
  BY <1>3, <1>5
-----------------------------------------------------------------------------
(* The sieve.                                                              *)
LEMMA InitSieveInv == Init => SieveInv
<1> SUFFICES ASSUME Init PROVE SieveInv
  OBVIOUS
<1> USE PipelineAssumption, Indices
<1>1. /\ \A t \in Threads : /\ pc[t] = IF t = 0 THEN "send" ELSE IF t = 1 THEN "start" ELSE "none"
                            /\ prime[t] = IF t = 1 THEN 2 ELSE 0
                            /\ num[t] = IF t = 0 THEN 2 ELSE 0
      /\ \A c \in Chans : pc[c] # "none" => c = 1
  BY DEF Init
<1>2. GapInv
  BY <1>1 DEF GapInv, Low, Passes, Pending
<1>3. SeekInv
  BY <1>1 DEF SeekInv
<1>4. PrimeInv
  <2> SUFFICES ASSUME 1 \in Chans
               PROVE  /\ Prime(prime[1]) /\ PrimesUpTo(prime[1]) = {prime[s] : s \in 1 .. 1}
                      /\ Cardinality(PrimesUpTo(prime[1])) = 1
    BY <1>1 DEF PrimeInv
  <2>1. prime[1] = 2
    BY <1>1
  <2>2. Prime(2)
    <3>1. 2 .. 2 - 1 = {}
      OBVIOUS
    <3>2. QED
      BY <3>1 DEF Prime
  <2>3. PrimesUpTo(2) = {2}
    <3>1. 2 .. 2 = {2}
      OBVIOUS
    <3>2. QED
      BY <2>2, <3>1 DEF PrimesUpTo
  <2>4. {prime[s] : s \in 1 .. 1} = {2}
    <3>1. \A s \in 1 .. 1 : prime[s] = 2
      BY <2>1
    <3>2. 1 \in 1 .. 1
      OBVIOUS
    <3>3. \A x : x \in {prime[s] : s \in 1 .. 1} <=> x = 2
      BY <2>1, <3>1, <3>2
    <3>4. QED
      BY <3>3
  <2>5. Cardinality({2}) = 1
    BY FS_Singleton
  <2>6. QED
    BY <2>1, <2>2, <2>3, <2>4, <2>5
<1>5. QED
  BY <1>2, <1>3, <1>4 DEF SieveInv

(* The filters that there are keep their primes.                           *)
LEMMA PrimesKept ==
  ASSUME PrimeInv,
         \A c \in Chans : pc'[c] # "none" =>
           pc[c] # "none" /\ \A s \in 1 .. c : prime'[s] = prime[s]
  PROVE  PrimeInv'
<1>1. ASSUME NEW c \in Chans, pc'[c] # "none"
      PROVE  /\ Prime(prime'[c]) /\ PrimesUpTo(prime'[c]) = {prime'[s] : s \in 1 .. c}
             /\ Cardinality(PrimesUpTo(prime'[c])) = c
  <2>1. /\ Prime(prime[c]) /\ PrimesUpTo(prime[c]) = {prime[s] : s \in 1 .. c}
        /\ Cardinality(PrimesUpTo(prime[c])) = c
    BY <1>1 DEF PrimeInv
  <2>2. c \in 1 .. c
    BY Indices
  <2>3. prime'[c] = prime[c] /\ \A s \in 1 .. c : prime'[s] = prime[s]
    BY <1>1, <2>2
  <2>4. {prime'[s] : s \in 1 .. c} = {prime[s] : s \in 1 .. c}
    BY <2>3
  <2>5. QED
    BY <2>1, <2>3, <2>4
<1>2. QED
  BY <1>1 DEF PrimeInv

(* A step in which no filter receives a number and the generator does not  *)
(* go to the next.                                                         *)
LEMMA SieveKept ==
  ASSUME SieveInv, UNCHANGED <<num, prime>>,
         \A c \in Chans : /\ pc[c] \in Final => pc'[c] \in Final
                          /\ pc'[c] = "none" <=> pc[c] = "none"
                          /\ pc'[c] = "start" => pc[c] = "start"
                          /\ pc'[c] \in {"start", "seek", "seeks"} => pc[c] \in {"start", "seek", "seeks"}
                          /\ pc'[c] \notin Final => (Pending(c)' <=> Pending(c))
  PROVE  SieveInv'
<1>1. \A c, v : Low(c)' = Low(c) /\ (Passes(c, v)' <=> Passes(c, v))
  BY DEF Low, Passes
<1>2. GapInv'
  BY <1>1 DEF SieveInv, GapInv
<1>3. SeekInv'
  BY <1>1 DEF SieveInv, SeekInv
<1>4. PrimeInv'
  BY DEF SieveInv, PrimeInv
<1>5. QED
  BY <1>2, <1>3, <1>4 DEF SieveInv

(* The number that ends a filter's search is the next prime.               *)
LEMMA NextPrime ==
  ASSUME LinkInv, SieveInv, NEW t \in Chans, pc[t] \in {"seek", "seeks"},
         NEW v \in Nat, Low(t) < v, Passes(t, v), v % prime[t] # 0,
         \A w \in Low(t) + 1 .. v - 1 : ~Passes(t, w)
  PROVE  /\ v > prime[t] /\ Prime(v)
         /\ PrimesUpTo(v) = PrimesUpTo(prime[t]) \union {v}
<1> USE Indices
<1>1. /\ prime[t] \in Nat /\ num[t] \in Nat /\ t \in Nat \ {0} /\ Prime(prime[t])
      /\ PrimesUpTo(prime[t]) = {prime[s] : s \in 1 .. t}
  BY DEF LinkInv, TypeInv, SieveInv, PrimeInv
<1>2. ASSUME NEW s \in 1 .. t
      PROVE  prime[s] \in Nat /\ 2 <= prime[s] /\ prime[s] <= prime[t]
  <2>1. prime[s] \in PrimesUpTo(prime[t])
    BY <1>1
  <2>2. prime[s] \in 2 .. prime[t]
    BY <2>1 DEF PrimesUpTo
  <2>3. QED
    BY <1>1, <2>2
<1>3. Passes(t + 1, v)
  BY <1>1 DEF Passes
<1>4. IF t = 1 THEN prime[t] = 2 /\ Low(t) >= 1 ELSE Low(t) >= prime[t]
  BY <1>1 DEF SieveInv, SeekInv, Low
<1>5. v > prime[t]
  <2>1. CASE t = 1
    <3>1. 2 % 2 = 0
      OBVIOUS
    <3>2. QED
      BY <1>1, <1>4, <2>1, <3>1 DEF Low
  <2>2. CASE t # 1
    BY <1>1, <1>4, <2>2 DEF Low
  <2>3. QED
    BY <2>1, <2>2
<1>6. ASSUME NEW w \in prime[t] + 1 .. v - 1 PROVE ~Passes(t + 1, w)
  <2>1. CASE w <= num[t]
    BY <1>1, <1>6, <2>1 DEF SieveInv, SeekInv
  <2>2. CASE w > num[t]
    <3>1. Low(t) < w
      BY <1>1, <1>4, <1>6, <2>2 DEF Low
    <3>2. ~Passes(t, w)
      BY <1>1, <1>6, <3>1 DEF Low
    <3>3. QED
      BY <1>1, <3>2 DEF Passes
  <2>3. QED
    BY <1>1, <2>1, <2>2
<1>7. ASSUME NEW q \in prime[t] + 1 .. v - 1 PROVE ~Prime(q)
  <2>1. SUFFICES ASSUME Prime(q) PROVE Passes(t + 1, q)
    BY <1>6
  <2>2. \A s \in 1 .. t : prime[s] \in 2 .. q - 1
    BY <1>1, <1>2
  <2>3. QED
    BY <1>1, <2>1, <2>2 DEF Passes, Prime
<1>8. Prime(v)
  <2>1. SUFFICES ASSUME ~Prime(v) PROVE FALSE
    OBVIOUS
  <2>2. v > 1
    BY <1>1, <1>2, <1>5
  <2>3. PICK q \in 2 .. v - 1 : Prime(q) /\ v % q = 0
    BY <2>1, <2>2, PrimeDivisor
  <2>4. q <= prime[t]
    BY <1>1, <1>7, <2>3
  <2>5. q \in PrimesUpTo(prime[t])
    BY <1>1, <2>3, <2>4 DEF PrimesUpTo
  <2>6. PICK s \in 1 .. t : q = prime[s]
    BY <1>1, <2>5
  <2>7. QED
    BY <1>1, <1>3, <2>3, <2>6 DEF Passes
<1>9. PrimesUpTo(v) = PrimesUpTo(prime[t]) \union {v}
  <2>1. \A p \in PrimesUpTo(v) : p \in PrimesUpTo(prime[t]) \/ p = v
    BY <1>1, <1>5, <1>7 DEF PrimesUpTo
  <2>2. v \in PrimesUpTo(v)
    BY <1>8 DEF PrimesUpTo, Prime
  <2>3. PrimesUpTo(prime[t]) \subseteq PrimesUpTo(v)
    BY <1>1, <1>5 DEF PrimesUpTo
  <2>4. QED
    BY <2>1, <2>2, <2>3
<1>10. QED
  BY <1>5, <1>8, <1>9

LEMMA SentSieve ==
  ASSUME LinkInv, SieveInv, NEW t \in Threads, t # Depth, Sent(t)
  PROVE  SieveInv'
<1> USE Indices
<1>1. /\ t + 1 \in Chans /\ pc[t] = "sending" /\ pc' = [pc EXCEPT ![t] = AfterSend(t)]
      /\ mReceived[t + 1] > 0 /\ mReceived' = [mReceived EXCEPT ![t + 1] = mReceived[t + 1] - 1]
      /\ UNCHANGED prime /\ pc \in [Threads -> Labels] /\ (t + 1) - 1 = t
  <2>1. t + 1 \in Chans /\ (t + 1) - 1 = t /\ pc \in [Threads -> Labels]
    BY DEF LinkInv, TypeInv
  <2>2. QED
    BY <2>1 DEF Sent, To, GoTo, Wait
<1>2. mReceived[t + 1] = 1 /\ (mSize[t + 1] = Whole => num[t + 1] = num[t])
      /\ mSize[t + 1] \in {0, Whole}
  BY <1>1 DEF LinkInv, ChanInv, Offering, Taking, Handed, TypeInv
<1>3. \A u \in Threads : u # t => pc'[u] = pc[u]
  BY <1>1
(* The other channels see the same                                         *)
<1>4. ASSUME NEW c \in Chans
      PROVE  /\ c # t => pc'[c] = pc[c]
             /\ c = t => pc[c] = "sending" /\ pc'[c] \in {"loop", "last"}
             /\ c # t + 1 => (Pending(c)' <=> Pending(c))
  <2>1. c = t => pc'[c] \in {"loop", "last"}
    BY <1>1 DEF AfterSend
  <2>2. ASSUME c # t + 1 PROVE Pending(c)' <=> Pending(c)
    <3>1. c - 1 # t
      BY <2>2
    <3>2. QED
      BY <1>1, <1>3, <2>2, <3>1 DEF Pending, LinkInv, TypeInv
  <2>3. QED
    BY <1>1, <1>3, <2>1, <2>2
<1>5. ~Pending(t + 1)
  BY <1>1, <1>2 DEF Pending
<1>6. CASE t # 0 \/ mSize[t + 1] # Whole
  <2>1. UNCHANGED num
    BY <1>6 DEF Sent, To
  <2>2. ~Pending(t + 1)'
    <3>1. pc'[t] \in {"loop", "last", "delete"}
      BY <1>1, <1>6 DEF AfterSend, To
    <3>2. QED
      BY <1>1, <3>1 DEF Pending
  <2>3. ASSUME NEW c \in Chans
        PROVE /\ pc[c] \in Final => pc'[c] \in Final
              /\ pc'[c] = "none" <=> pc[c] = "none"
              /\ pc'[c] = "start" => pc[c] = "start"
              /\ pc'[c] \in {"start", "seek", "seeks"} => pc[c] \in {"start", "seek", "seeks"}
              /\ pc'[c] \notin Final => (Pending(c)' <=> Pending(c))
    <3>1. Pending(c)' <=> Pending(c)
      BY <1>4, <1>5, <2>2
    <3>2. QED
      BY <1>4, <3>1 DEF Final
  <2>4. QED
    BY <1>1, <2>1, <2>3, SieveKept
(* The generator goes to the next number                                   *)
<1>7. CASE t = 0 /\ mSize[t + 1] = Whole
  <2>1. /\ 1 \in Chans /\ num' = [num EXCEPT ![0] = num[0] + 1] /\ pc'[0] = "send"
        /\ num \in [Threads -> Nat] /\ num[1] = num[0]
    BY <1>1, <1>2, <1>7 DEF Sent, To, AfterSend, LinkInv, TypeInv
  <2>2. \A c \in Chans : pc'[c] = pc[c] /\ num'[c] = num[c]
    BY <1>4, <1>7, <2>1
  <2>3. \A c \in Chans : Low(c)' = Low(c)
    BY <1>1, <2>2 DEF Low
  <2>4. \A c, v : Passes(c, v)' <=> Passes(c, v)
    BY <1>1 DEF Passes
  <2>5. ASSUME NEW c \in Chans, pc'[c] \notin Final \union {"none"}
        PROVE  /\ Low(c)' <= num'[c - 1]
               /\ \A v \in Low(c)' + 1 .. num'[c - 1] - 1 : ~Passes(c, v)'
               /\ Pending(c)' => Low(c)' < num'[c - 1] /\ Passes(c, num[c - 1])'
               /\ ~Pending(c)' => Low(c)' = num'[c - 1] \/ ~Passes(c, num[c - 1])'
    <3>1. CASE c = 1
      <4>1. Low(1) = num[0] /\ num[0] \in Nat
        <5>1. Low(1) <= num[0] /\ Low(1) >= 1
          BY <2>1, <2>2, <2>5, <3>1 DEF SieveInv, GapInv, Low
        <5>2. QED
          BY <2>1, <5>1 DEF Low
      <4>2. Pending(1)'
        BY <2>1 DEF Pending
      <4>3. \A v : Passes(1, v)'
        BY DEF Passes
      <4>4. QED
        BY <2>1, <2>3, <3>1, <4>1, <4>2, <4>3
    <3>2. CASE c # 1
      <4>1. num'[c - 1] = num[c - 1] /\ (Pending(c)' <=> Pending(c))
        BY <1>4, <1>7, <2>1, <3>2
      <4>2. QED
        BY <2>2, <2>3, <2>4, <2>5, <4>1 DEF SieveInv, GapInv
    <3>3. QED
      BY <3>1, <3>2
  <2>6. GapInv'
    BY <2>5 DEF GapInv
  <2>7. SeekInv'
    BY <1>1, <2>2, <2>4 DEF SieveInv, SeekInv
  <2>8. PrimeInv'
    <3>1. prime' = prime /\ \A c \in Chans : pc'[c] # "none" => pc[c] # "none"
      BY <1>1, <2>2
    <3>2. QED
      BY <3>1, PrimesKept, Indices DEF SieveInv
  <2>9. QED
    BY <2>6, <2>7, <2>8 DEF SieveInv
<1>8. QED
  BY <1>6, <1>7

(* A filter at the end: it takes nothing and is through.                   *)
LEMMA TakesLast ==
  ASSUME LinkInv, SieveInv, NEW t \in Threads, NEW at \in Ats \ Stores, Takes(t, at)
  PROVE  SieveInv'
<1> USE Indices
<1>1. /\ t \in Chans /\ pc[t] \in {at, Copying(at)} /\ pc[t - 1] = "sending"
      /\ mReceived' = [mReceived EXCEPT ![t] = 1] /\ UNCHANGED num
      /\ GoesOn(t, at)
  BY TakeEffect DEF Stores
<1>2. /\ UNCHANGED prime /\ pc \in [Threads -> Labels] /\ mReceived \in [Chans -> Nat]
  BY <1>1 DEF GoesOn, LinkInv, TypeInv
<1>3. pc'[t] \in Final /\ \A u \in Threads : u # t => pc'[u] = pc[u]
  BY <1>1, <1>2 DEF GoesOn, Ats, Stores, Final
<1>4. pc[t] \in {"last", "lasts", "only", "onlys"}
  BY <1>1 DEF Ats, Stores, Copying
<1>5. ASSUME NEW c \in Chans, c # t
      PROVE pc'[c] = pc[c] /\ (Pending(c)' <=> Pending(c))
  <2>1. CASE c - 1 = t
    BY <1>3, <1>4, <1>5, <2>1 DEF Pending, Final
  <2>2. CASE c - 1 # t
    BY <1>1, <1>2, <1>3, <1>5, <2>2 DEF Pending
  <2>3. QED
    BY <1>3, <1>5, <2>1, <2>2
<1>6. ASSUME NEW c \in Chans
      PROVE /\ pc[c] \in Final => pc'[c] \in Final
            /\ pc'[c] = "none" <=> pc[c] = "none"
            /\ pc'[c] = "start" => pc[c] = "start"
            /\ pc'[c] \in {"start", "seek", "seeks"} => pc[c] \in {"start", "seek", "seeks"}
            /\ pc'[c] \notin Final => (Pending(c)' <=> Pending(c))
  BY <1>3, <1>4, <1>5 DEF Final
<1>7. QED
  BY <1>1, <1>2, <1>6, SieveKept

(* A filter receives the next number that passes all before it.            *)
LEMMA TakesNumber ==
  ASSUME LinkInv, SieveInv, NEW t \in Threads, NEW at \in Stores, Takes(t, at)
  PROVE  SieveInv'
<1> USE Indices
<1>0. PICK v : v = num[t - 1]
  OBVIOUS
<1>1. /\ t \in Chans /\ pc[t] \in {at, Copying(at)} /\ t - 1 \in Threads
      /\ pc[t - 1] = "sending" /\ mReceived[t] = 0 /\ mReceived' = [mReceived EXCEPT ![t] = 1]
      /\ num' = [num EXCEPT ![t] = v]
      /\ \/ at = "seek" /\ v % prime[t] # 0 /\ NewFilter(t)
         \/ GoesOn(t, at)
  BY <1>0, TakeEffect, Indices DEF Stores, Ats
<1>2. /\ pc \in [Threads -> Labels] /\ num \in [Threads -> Nat] /\ prime \in [Threads -> Nat]
      /\ v \in Nat /\ mReceived \in [Chans -> Nat] /\ t \in Nat \ {0}
  BY <1>0, <1>1 DEF LinkInv, TypeInv
<1>3. /\ pc'[t] \in {"send", "seek", "loop"} /\ \A u \in Threads \ {t, t + 1} : pc'[u] = pc[u]
      /\ t + 1 \in Threads /\ pc'[t + 1] # pc[t + 1] =>
           pc[t] \in Alone /\ pc'[t] = "loop" /\ pc[t + 1] = "none" /\ pc'[t + 1] = "start"
  BY <1>1, <1>2, TakeMoves DEF GoesOn, Stores, NewFilter, To, Ats
<1>4. pc[t] \in {"seek", "seeks", "loop", "loops"} /\ pc[t] \notin Final \union {"none"}
  BY <1>1 DEF Stores, Copying, Final
(* What comes is the next number                                           *)
<1>5. Low(t) < v /\ Passes(t, v) /\ \A w \in Low(t) + 1 .. v - 1 : ~Passes(t, w)
  <2>1. Pending(t)
    BY <1>1 DEF Pending
  <2>2. QED
    BY <1>0, <1>1, <1>4, <2>1 DEF SieveInv, GapInv
<1>6. \A c \in Chans : Low(c) \in Nat
  BY <1>2 DEF Low
<1>7. num[t] < v /\ v # 0
  BY <1>1, <1>2, <1>5, <1>6 DEF Low
(* A prime is set for the new filter only, which no other comes after      *)
<1>8. NewFilter(t) /\ at = "seek" /\ t + 1 \in Threads => pc[t + 1] = "none"
  <2>1. at = "seek" => pc[t] \in Alone
    BY <1>1 DEF Copying, Alone
  <2>2. t + 1 \in Threads => t + 1 \in Chans /\ (t + 1) - 1 = t
    BY <1>1 DEF Chans, Threads
  <2>3. QED
    BY <2>1, <2>2 DEF LinkInv, ShapeInv
<1>9. ASSUME NEW c \in Chans, pc[c] # "none", NEW s \in 1 .. c PROVE prime'[s] = prime[s]
  <2>1. CASE NewFilter(t) /\ at = "seek"
    <3>1. s \in Threads /\ c \in Threads /\ s <= c
      BY <1>9 DEF Chans, Threads
    <3>2. pc[s] # "none"
      BY <1>9, <3>1 DEF LinkInv, ShapeInv
    <3>3. s # t + 1
      BY <1>8, <2>1, <3>1, <3>2
    <3>4. QED
      BY <1>2, <2>1, <3>1, <3>3 DEF NewFilter, To
  <2>2. CASE GoesOn(t, at)
    BY <2>2 DEF GoesOn
  <2>3. QED
    BY <1>1, <2>1, <2>2
<1>10. ASSUME NEW c \in Chans, pc[c] # "none"
       PROVE  /\ \A w : Passes(c, w)' <=> Passes(c, w)
              /\ \A w : Passes(c + 1, w)' <=> Passes(c + 1, w)
              /\ prime'[c] = prime[c]
  BY <1>9, <1>10 DEF Passes
(* The new filter                                                          *)
<1>11. ASSUME t + 1 \in Chans, pc[t + 1] = "none", pc'[t + 1] # "none"
       PROVE  /\ pc'[t + 1] = "start" /\ pc'[t] = "loop" /\ num'[t + 1] = 0 /\ prime'[t + 1] = v
              /\ at = "seek" /\ v % prime[t] # 0 /\ NewFilter(t)
  <2>1. t + 1 \in Threads
    BY <1>11
  <2>2. pc'[t + 1] = "start" /\ pc'[t] = "loop"
    BY <1>3, <1>11, <2>1
  <2>3. num'[t + 1] = 0
    BY <1>1, <1>2, <1>11, <2>1 DEF SieveInv, SeekInv
  <2>4. ~GoesOn(t, at)
    BY <1>2, <1>11, <2>1 DEF GoesOn
  <2>5. at = "seek" /\ v % prime[t] # 0 /\ NewFilter(t)
    BY <1>1, <2>4
  <2>6. prime'[t + 1] = v
    BY <1>0, <1>2, <2>1, <2>5 DEF NewFilter, To
  <2>7. QED
    BY <2>2, <2>3, <2>5, <2>6
<1>12. Low(t)' = v /\ num'[t] = v /\ num'[t - 1] = v
  BY <1>0, <1>1, <1>2, <1>7 DEF Low
(* Nothing between: the receiver of t's numbers                            *)
<1>13. ASSUME t + 1 \in Chans, pc[t + 1] \notin Final \union {"none"}
       PROVE  /\ Low(t + 1) <= num[t] /\ num[t] # 0 /\ at = "loop"
              /\ \A w \in Low(t + 1) + 1 .. v - 1 : ~Passes(t + 1, w)
  <2>1. (t + 1) - 1 = t /\ pc[t] \notin Alone
    BY <1>2, <1>13 DEF LinkInv, ShapeInv
  <2>2. at = "loop" /\ pc[t] \in {"loop", "loops"}
    BY <1>1, <2>1 DEF Alone, Stores, Copying
  <2>3. ~Pending(t + 1)
    BY <2>1, <2>2 DEF Pending
  <2>4. /\ Low(t + 1) <= num[t]
        /\ Low(t + 1) = num[t] \/ ~Passes(t + 1, num[t])
        /\ \A w \in Low(t + 1) + 1 .. num[t] - 1 : ~Passes(t + 1, w)
    BY <1>13, <2>1, <2>3 DEF SieveInv, GapInv
  <2>5. Low(t + 1) # 0
    <3>1. Prime(prime[t + 1])
      BY <1>13 DEF SieveInv, PrimeInv
    <3>2. QED
      BY <1>2, <1>13, <3>1 DEF Low, Prime
  <2>6. num[t] # 0 /\ Low(t) = num[t]
    <3>1. num[t] \in Nat /\ Low(t + 1) \in Nat
      BY <1>1, <1>2, <1>6, <1>13
    <3>2. num[t] # 0
      BY <2>4, <2>5, <3>1
    <3>3. QED
      BY <3>2 DEF Low
  <2>7. ASSUME NEW w \in Low(t + 1) + 1 .. v - 1 PROVE ~Passes(t + 1, w)
    <3>1. CASE w < num[t]
      BY <1>2, <1>6, <1>13, <2>4, <2>7, <3>1
    <3>2. CASE w = num[t]
      BY <1>2, <1>6, <1>13, <2>4, <2>7, <3>2
    <3>3. CASE w > num[t]
      <4>1. ~Passes(t, w)
        BY <1>2, <1>5, <1>6, <1>13, <2>6, <2>7, <3>3
      <4>2. QED
        BY <1>2, <4>1 DEF Passes
    <3>4. QED
      BY <1>1, <1>2, <1>6, <1>13, <2>7, <3>1, <3>2, <3>3
  <2>8. QED
    BY <2>2, <2>4, <2>6, <2>7
<1>14. ASSUME NEW c \in Chans, pc'[c] \notin Final \union {"none"}
       PROVE  /\ Low(c)' <= num'[c - 1]
              /\ \A w \in Low(c)' + 1 .. num'[c - 1] - 1 : ~Passes(c, w)'
              /\ Pending(c)' => Low(c)' < num'[c - 1] /\ Passes(c, num[c - 1])'
              /\ ~Pending(c)' => Low(c)' = num'[c - 1] \/ ~Passes(c, num[c - 1])'
  <2>1. CASE c = t
    <3>1. ~Pending(t)'
      <4>1. pc'[t - 1] = "sending" /\ mReceived'[t] = 1
        BY <1>1, <1>2, <1>3
      <4>2. QED
        BY <4>1 DEF Pending
    <3>2. QED
      BY <1>2, <1>12, <2>1, <3>1
  <2>2. CASE c = t + 1 /\ pc[c] # "none"
    <3>1. pc'[t + 1] = pc[t + 1] /\ (t + 1) - 1 = t /\ t + 1 \in Threads
      BY <1>2, <1>3, <2>2
    <3>2. /\ Low(t + 1) <= num[t] /\ num[t] # 0 /\ at = "loop"
          /\ \A w \in Low(t + 1) + 1 .. v - 1 : ~Passes(t + 1, w)
      BY <1>13, <1>14, <2>2, <3>1
    <3>3. Low(t + 1)' = Low(t + 1) /\ Low(t + 1) < v
      BY <1>1, <1>2, <1>6, <1>7, <1>10, <2>2, <3>1, <3>2 DEF Low
    <3>4. \A w : Passes(t + 1, w)' <=> Passes(t + 1, w)
      BY <1>10, <2>2
    <3>5. PICK to \in {"send", "loop"} :
            /\ pc'[t] = to /\ (to = "send" <=> v % prime[t] # 0)
      BY <1>0, <1>1, <1>2, <3>2 DEF GoesOn, Stores
    <3>6. Pending(t + 1)' <=> to = "send"
      BY <3>1, <3>5 DEF Pending
    <3>7. to = "send" <=> Passes(t + 1, v)
      BY <1>2, <1>5, <3>5 DEF Passes
    <3>8. Passes(t + 1, num[(t + 1) - 1])' <=> Passes(t + 1, v)
      BY <1>12, <3>1, <3>4
    <3>9. QED
      BY <1>2, <1>6, <1>12, <2>2, <3>1, <3>2, <3>3, <3>4, <3>6, <3>7, <3>8
  <2>3. CASE c = t + 1 /\ pc[c] = "none"
    <3>1. pc'[c] = "start" /\ pc'[t] = "loop" /\ num'[c] = 0 /\ prime'[c] = v /\ c - 1 = t /\ c # 1
      BY <1>2, <1>11, <1>14, <2>3
    <3>2. Low(c)' = v /\ num'[c - 1] = v /\ ~Pending(c)'
      BY <1>12, <3>1 DEF Low, Pending
    <3>3. QED
      BY <1>2, <3>2
  <2>4. CASE c # t /\ c # t + 1
    <3>1. pc'[c] = pc[c] /\ c - 1 # t
      BY <1>3, <2>4
    <3>2. pc'[c - 1] = pc[c - 1]
      <4>1. CASE c - 1 = t + 1
        <5>1. pc[t + 1] # "none"
          BY <1>14, <3>1, <4>1 DEF LinkInv, ShapeInv, Alone
        <5>2. QED
          BY <1>3, <4>1, <5>1
      <4>2. CASE c - 1 # t + 1
        BY <1>3, <3>1, <4>2
      <4>3. QED
        BY <4>1, <4>2
    <3>3. num'[c] = num[c] /\ num'[c - 1] = num[c - 1] /\ mReceived'[c] = mReceived[c]
      BY <1>1, <1>2, <2>4, <3>1
    <3>4. Low(c)' = Low(c) /\ (Pending(c)' <=> Pending(c))
      BY <1>10, <1>14, <3>1, <3>2, <3>3 DEF Low, Pending
    <3>5. \A w : Passes(c, w)' <=> Passes(c, w)
      BY <1>10, <1>14, <3>1
    <3>6. QED
      BY <1>14, <3>1, <3>3, <3>4, <3>5 DEF SieveInv, GapInv
  <2>5. QED
    BY <2>1, <2>2, <2>3, <2>4
<1>15. GapInv'
  BY <1>14 DEF GapInv
<1>16. ASSUME NEW c \in Chans
       PROVE  /\ pc'[c] \in {"none", "start"} => num'[c] = 0
              /\ IF c = 1 THEN prime'[c] = 2 ELSE num'[c] = 0 \/ num'[c] > prime'[c]
              /\ pc'[c] \in {"start", "seek", "seeks"} =>
                   \A w \in prime'[c] + 1 .. num'[c] : ~Passes(c + 1, w)'
  <2>0. IF c = 1 THEN prime[c] = 2 ELSE num[c] = 0 \/ num[c] > prime[c]
    BY DEF SieveInv, SeekInv
  <2>1. CASE c = t
    <3>1. prime'[c] = prime[c] /\ \A w : Passes(c + 1, w)' <=> Passes(c + 1, w)
      BY <1>4, <1>10, <2>1
    <3>2. pc'[c] \notin {"none", "start"}
      BY <1>3, <2>1
    <3>3. c # 1 => v > prime[c]
      BY <1>2, <1>5, <2>0, <2>1 DEF Low
    <3>4. ASSUME pc'[c] \in {"seek", "seeks"}, NEW w \in prime[c] + 1 .. v PROVE ~Passes(c + 1, w)
      <4>1. at = "seek" /\ v % prime[t] = 0 /\ pc[t] \in {"seek", "seeks"}
        <5>1. pc'[t] = "seek"
          BY <1>3, <2>1, <3>4
        <5>2. ~NewFilter(t)
          BY <1>2, <5>1 DEF NewFilter, To
        <5>3. GoesOn(t, at)
          BY <1>1, <5>2
        <5>4. at = "seek" /\ v % prime[t] = 0
          BY <1>0, <1>2, <5>1, <5>3 DEF GoesOn, Stores
        <5>5. QED
          BY <1>1, <5>4 DEF Copying
      <4>2. CASE w <= num[t]
        <5>1. \A x \in prime[t] + 1 .. num[t] : ~Passes(t + 1, x)
          BY <1>1, <4>1 DEF SieveInv, SeekInv
        <5>2. QED
          BY <1>2, <2>1, <3>4, <4>2, <5>1
      <4>3. CASE w > num[t] /\ w < v
        <5>1. Low(t) < w
          BY <1>2, <2>0, <2>1, <3>4, <4>3 DEF Low
        <5>2. ~Passes(t, w)
          BY <1>2, <1>5, <1>6, <2>1, <3>4, <4>3, <5>1
        <5>3. QED
          BY <1>2, <2>1, <5>2 DEF Passes
      <4>4. CASE w = v
        BY <1>2, <2>1, <4>1, <4>4 DEF Passes
      <4>5. QED
        BY <1>2, <2>1, <3>4, <4>2, <4>3, <4>4
    <3>5. QED
      BY <1>12, <2>0, <2>1, <3>1, <3>2, <3>3, <3>4
  <2>2. CASE c # t /\ pc[c] # "none"
    <3>1. pc'[c] = pc[c] /\ num'[c] = num[c] /\ prime'[c] = prime[c]
      BY <1>1, <1>2, <1>3, <1>10, <2>2
    <3>2. \A w : Passes(c + 1, w)' <=> Passes(c + 1, w)
      BY <1>10, <2>2
    <3>3. QED
      BY <3>1, <3>2 DEF SieveInv, SeekInv
  <2>3. CASE c # t /\ pc[c] = "none"
    <3>1. num'[c] = 0
      BY <1>1, <1>2, <2>3 DEF SieveInv, SeekInv
    <3>2. pc'[c] \in {"start", "seek", "seeks"} => pc'[c] = "start" /\ c = t + 1 /\ prime'[c] = v
      BY <1>3, <1>11, <2>3
    <3>3. c # 1
      <4>1. 1 \in Threads /\ 1 <= t
        BY <1>1, <1>2 DEF Chans, Threads
      <4>2. pc[1] # "none"
        BY <1>4, <4>1 DEF LinkInv, ShapeInv
      <4>3. QED
        BY <2>3, <4>2
    <3>4. QED
      BY <1>2, <2>0, <3>1, <3>2, <3>3
  <2>4. QED
    BY <2>1, <2>2, <2>3
<1>17. SeekInv'
  BY <1>16 DEF SeekInv
(* The primes up to the new filter's are those there were, and its own     *)
<1>18. ASSUME NEW c \in Chans, pc'[c] # "none"
       PROVE  /\ Prime(prime'[c]) /\ PrimesUpTo(prime'[c]) = {prime'[s] : s \in 1 .. c}
              /\ Cardinality(PrimesUpTo(prime'[c])) = c
  <2>1. CASE pc[c] # "none"
    <3>1. /\ Prime(prime[c]) /\ PrimesUpTo(prime[c]) = {prime[s] : s \in 1 .. c}
          /\ Cardinality(PrimesUpTo(prime[c])) = c
      BY <2>1 DEF SieveInv, PrimeInv
    <3>2. \A s \in 1 .. c : prime'[s] = prime[s]
      BY <1>9, <2>1
    <3>3. prime'[c] = prime[c]
      BY <1>10, <2>1
    <3>4. {prime'[s] : s \in 1 .. c} = {prime[s] : s \in 1 .. c}
      BY <3>2
    <3>5. QED
      BY <3>1, <3>3, <3>4
  <2>2. CASE pc[c] = "none"
    <3>1. c = t + 1
      BY <1>3, <1>4, <1>18, <2>2
    <3>2. prime'[c] = v /\ at = "seek" /\ v % prime[t] # 0
      BY <1>11, <1>18, <2>2, <3>1
    <3>3. v > prime[t] /\ Prime(v) /\ PrimesUpTo(v) = PrimesUpTo(prime[t]) \union {v}
      <4>1. pc[t] \in {"seek", "seeks"}
        BY <1>1, <3>2 DEF Copying
      <4>2. QED
        BY <1>1, <1>2, <1>5, <3>2, <4>1, NextPrime
    <3>4. /\ PrimesUpTo(prime[t]) = {prime[s] : s \in 1 .. t}
          /\ Cardinality(PrimesUpTo(prime[t])) = t
      BY <1>1, <1>4 DEF SieveInv, PrimeInv
    <3>5. \A s \in 1 .. t : prime'[s] = prime[s]
      BY <1>1, <1>4, <1>9
    <3>6. PrimesUpTo(v) = {prime'[s] : s \in 1 .. c}
      <4>1. \A s : s \in 1 .. c <=> s \in 1 .. t \/ s = c
        BY <1>2, <3>1
      <4>2. \A x : x \in {prime'[s] : s \in 1 .. c} <=> x \in {prime[s] : s \in 1 .. t} \/ x = v
        BY <3>2, <3>5, <4>1
      <4>3. \A x : x \in {prime'[s] : s \in 1 .. c} <=> x \in PrimesUpTo(v)
        BY <3>3, <3>4, <4>2
      <4>4. QED
        BY <4>3
    <3>7. Cardinality(PrimesUpTo(v)) = t + 1
      <4>1. IsFiniteSet(2 .. prime[t]) /\ PrimesUpTo(prime[t]) \subseteq 2 .. prime[t]
        BY <1>2, FS_Interval DEF PrimesUpTo
      <4>2. IsFiniteSet(PrimesUpTo(prime[t]))
        BY <4>1, FS_Subset
      <4>3. v \notin PrimesUpTo(prime[t])
        BY <1>2, <3>3 DEF PrimesUpTo
      <4>4. Cardinality(PrimesUpTo(prime[t]) \union {v}) = Cardinality(PrimesUpTo(prime[t])) + 1
        BY <4>2, <4>3, FS_AddElement
      <4>5. QED
        BY <3>3, <3>4, <4>4
    <3>8. QED
      BY <3>1, <3>2, <3>3, <3>6, <3>7
  <2>3. QED
    BY <2>1, <2>2
<1>19. PrimeInv'
  BY <1>18 DEF PrimeInv
<1>20. QED
  BY <1>15, <1>17, <1>19 DEF SieveInv

(* The other steps move threads and no numbers.                            *)
LEMMA QuietSieve ==
  ASSUME LinkInv, SieveInv, NEW t \in Threads,
         \/ t # Depth /\ (Send(t) \/ Delete(t))
         \/ t # 0 /\ Start(t)
         \/ t # 0 /\ \E at \in Ats : Receive2(t, at)
  PROVE  SieveInv'
<1> USE Indices
<1>1. pc \in [Threads -> Labels]
  BY DEF LinkInv, TypeInv
<1>2. UNCHANGED <<num, prime, mReceived>>
  BY DEF Send, Delete, Start, Receive2, chanVars
<1>3. PICK to \in {"sending", "done", "only", "seek", "seeks", "loops", "lasts", "onlys"} :
        /\ pc' = [pc EXCEPT ![t] = to]
        /\ \/ pc[t] = "send" /\ to = "sending" /\ t # Depth
           \/ pc[t] = "delete" /\ to = "done"
           \/ pc[t] = "start" /\ to \in {"only", "seek"}
           \/ pc[t] = "seek" /\ to = "seeks"
           \/ pc[t] \in {"loop", "last", "only"} /\ to \in {"loops", "lasts", "onlys"}
  <2>1. CASE t # Depth /\ (Send(t) \/ Delete(t))
    BY <2>1 DEF Send, Delete, GoTo
  <2>2. CASE Start(t)
    BY <2>2 DEF Start, GoTo
  <2>3. CASE \E at \in Ats : Receive2(t, at)
    BY <2>3 DEF Receive2, GoTo, Ats, Copying
  <2>4. QED
    BY <2>1, <2>2, <2>3
<1>4. pc'[t] = to /\ \A u \in Threads : u # t => pc'[u] = pc[u]
  BY <1>1, <1>3
<1>5. ASSUME NEW c \in Chans PROVE Pending(c)' <=> Pending(c)
  <2>1. CASE c - 1 # t
    BY <1>2, <1>4, <1>5, <2>1 DEF Pending
  <2>2. CASE c - 1 = t
    <3>1. pc[t] = "send" => mReceived[c] = 0
      BY <2>2 DEF LinkInv, ChanInv, Unsent
    <3>2. QED
      BY <1>2, <1>3, <1>4, <2>2, <3>1 DEF Pending
  <2>3. QED
    BY <2>1, <2>2
<1>6. ASSUME NEW c \in Chans
      PROVE /\ pc[c] \in Final => pc'[c] \in Final
            /\ pc'[c] = "none" <=> pc[c] = "none"
            /\ pc'[c] = "start" => pc[c] = "start"
            /\ pc'[c] \in {"start", "seek", "seeks"} => pc[c] \in {"start", "seek", "seeks"}
            /\ pc'[c] \notin Final => (Pending(c)' <=> Pending(c))
  <2>1. CASE c = t
    BY <1>3, <1>4, <1>5, <2>1 DEF Final
  <2>2. CASE c # t
    BY <1>4, <1>5, <2>2
  <2>3. QED
    BY <2>1, <2>2
<1>7. QED
  BY <1>2, <1>6, SieveKept

LEMMA SieveStutter == SieveInv /\ UNCHANGED vars => SieveInv'
<1> SUFFICES ASSUME SieveInv, UNCHANGED vars PROVE SieveInv'
  OBVIOUS
<1>1. UNCHANGED <<pc, num, prime, mReceived>>
  BY DEF vars, chanVars
<1>2. \A c \in Chans : Pending(c)' <=> Pending(c)
  BY <1>1 DEF Pending
<1>3. QED
  BY <1>1, <1>2, SieveKept

(* The sieve, on top of the channels.                                      *)
THEOREM PipelineSieve == Spec => []SieveInv
<1>1. ASSUME LinkInv, SieveInv, Next PROVE SieveInv'
  <2>1. PICK t \in Threads :
          \/ t # Depth /\ (Send(t) \/ Sent(t) \/ Delete(t))
          \/ t # 0 /\ Start(t)
          \/ t # 0 /\ \E at \in Ats : Receive2(t, at)
          \/ \E at \in Ats : Takes(t, at)
    BY <1>1, StepCases
  <2>2. CASE t # Depth /\ Sent(t)
    BY <1>1, <2>2, SentSieve
  <2>3. CASE \E at \in Ats : Takes(t, at)
    <3>1. PICK at \in Ats : Takes(t, at)
      BY <2>3
    <3>2. CASE at \in Stores
      BY <1>1, <3>1, <3>2, TakesNumber
    <3>3. CASE at \notin Stores
      <4>1. at \in Ats \ Stores
        BY <3>3
      <4>2. QED
        BY <1>1, <3>1, <4>1, TakesLast
    <3>4. QED
      BY <3>2, <3>3
  <2>4. CASE \/ t # Depth /\ (Send(t) \/ Delete(t))
             \/ t # 0 /\ Start(t)
             \/ t # 0 /\ \E at \in Ats : Receive2(t, at)
    BY <1>1, <2>4, QuietSieve
  <2>5. QED
    BY <2>1, <2>2, <2>3, <2>4
<1>2. LinkInv /\ SieveInv /\ [Next]_vars => SieveInv'
  BY <1>1, SieveStutter
<1>3. QED
  BY InitSieveInv, <1>2, PipelineLink, PTL DEF Spec

(* The thread of the t-th filter has the t-th prime: none is left out and  *)
(* no other number passes the filters before it.                           *)
THEOREM PipelinePrimesExact == Spec => []PrimesExact
<1>1. ASSUME SieveInv, NEW t \in Threads \ {0}, pc[t] # "none"
      PROVE  Prime(prime[t]) /\ Cardinality({p \in 2 .. prime[t] : Prime(p)}) = t
  <2>1. t \in Chans
    BY Indices
  <2>2. QED
    BY <1>1, <2>1 DEF SieveInv, PrimeInv, PrimesUpTo
<1>2. SieveInv => PrimesExact
  BY <1>1 DEF PrimesExact
<1>3. QED
  BY <1>2, PipelineSieve, PTL
=============================================================================
