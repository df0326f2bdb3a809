------------------------------ MODULE Pipeline ------------------------------
(***************************************************************************)
(* C++/Channel/main.cpp: Channel and Channel2, two channels without a      *)
(* buffer, and the program that uses them, a sieve in which each prime has *)
(* a filter thread that sends on what it cannot divide.  The last filter   *)
(* ends the program by receiving nothing: the sender sees that, leaves its *)
(* loop, receives nothing in its turn and deletes the channel it wrote to. *)
(*                                                                         *)
(* Thread 0 generates the numbers; thread t reads channel t and writes     *)
(* channel t + 1.  A critical section of Channel is one step, which ends   *)
(* at its unlock or where its wait gives the mutex back; Channel2 is taken *)
(* one semaphore operation at a time.                                      *)
(***************************************************************************)
EXTENDS Naturals, FiniteSets

CONSTANTS Maxes,  \* the values of max
          Depth   \* bound on the filters: as many as there are primes up to
                  \* the first that reaches max

ASSUME PipelineAssumption == Maxes \subseteq Nat /\ Depth \in Nat

Threads == 0 .. Depth
Chans   == 1 .. Depth
Whole   == 1       \* sizeof(v); what is received of a null pointer is 0

VARIABLES
  kind,            \* "Channel" or "Channel2"
  max,
  (* the channels *)
  exists,          \* "no", "yes" or "deleted"
  mSendable,       \* Channel2's mutex
  mPtr, mSize,     \* what mPtr and mSize point to
  mSent, mReceived,
  (* the threads *)
  pc,
  prime,
  num              \* i, or next: the number last received or generated

chanVars == <<exists, mSendable, mPtr, mSize, mSent, mReceived>>
vars == <<kind, max, chanVars, pc, prime, num>>

Init == /\ kind \in {"Channel", "Channel2"} /\ max \in Maxes
        /\ exists = [c \in Chans |-> IF c = 1 THEN "yes" ELSE "no"]
        /\ mSendable = [c \in Chans |-> "free"]
        /\ mPtr = [c \in Chans |-> 0] /\ mSize = [c \in Chans |-> 0]
        /\ mSent = [c \in Chans |-> 0] /\ mReceived = [c \in Chans |-> 0]
        /\ pc = [t \in Threads |-> IF t = 0 THEN "send" ELSE IF t = 1 THEN "start" ELSE "none"]
        /\ prime = [t \in Threads |-> IF t = 1 THEN 2 ELSE 0]
        /\ num = [t \in Threads |-> IF t = 0 THEN 2 ELSE 0]

To(t) == t + 1
GoTo(t, from, to) == pc[t] = from /\ pc' = [pc EXCEPT ![t] = to]

(* CondVar keeps one signal, a semaphore counts them.                      *)
Signal(n) == IF kind = "Channel" THEN 1 ELSE n + 1

(* Mutant: the condition variable leaves mSignaled set.                    *)
WaitKeeps(n) == IF kind = "Channel" THEN n ELSE n - 1
Wait(n) == n - 1
-----------------------------------------------------------------------------
(* send, up to its wait for mReceived                                      *)
Send(t) == LET c == To(t) IN
  /\ GoTo(t, "send", "sending")
  /\ IF kind = "Channel" THEN UNCHANGED mSendable
     ELSE /\ mSendable[c] = "free"
          /\ mSendable' = [mSendable EXCEPT ![c] = "locked"]
  /\ mPtr' = [mPtr EXCEPT ![c] = num[t]]
  /\ mSize' = [mSize EXCEPT ![c] = Whole]
  /\ mSent' = [mSent EXCEPT ![c] = Signal(@)]
  /\ UNCHANGED <<kind, max, exists, mReceived, prime, num>>

(* Mutant: the generator does not look at what send returned.              *)
GoOnBlindly(t) == IF t = 0 THEN "send" ELSE IF mSize[To(t)] = Whole THEN "loop" ELSE "last"

(* What follows a send: the loop, or its end when nothing was taken.       *)
AfterSend(t) ==
  IF t = 0 THEN IF mSize[To(t)] = Whole THEN "send" ELSE "delete"
           ELSE IF mSize[To(t)] = Whole THEN "loop" ELSE "last"

(* the rest of send: the wait, the unlock and the test of the size         *)
Sent(t) == LET c == To(t) IN
  /\ mReceived[c] > 0
  /\ GoTo(t, "sending", AfterSend(t))
  /\ mReceived' = [mReceived EXCEPT ![c] = Wait(@)]
  /\ mSendable' = [mSendable EXCEPT ![c] = "free"]
  /\ num' = IF t = 0 /\ mSize[c] = Whole THEN [num EXCEPT ![t] = @ + 1] ELSE num
  /\ UNCHANGED <<kind, max, exists, mPtr, mSize, mSent, prime>>
-----------------------------------------------------------------------------
(* A filter at one of its calls of receive, and what it asks for.          *)
Asks(t) == IF pc[t] \in {"seek", "loop", "seeks", "loops"} THEN Whole ELSE 0

Least(a, b) == IF a < b THEN a ELSE b

(* Mutant: a filter holds back its prime and not the multiples.            *)
HoldsBackOne(t, v) == v = prime[t]
HoldsBack(t, v) == v % prime[t] = 0

(* What a filter does with what it has received.  The first number that it *)
(* cannot divide is the prime of a new filter.                             *)
AfterReceive(t, at, v) ==
  /\ num' = IF Asks(t) = Whole THEN [num EXCEPT ![t] = v] ELSE num
  /\ CASE at = "seek" /\ ~HoldsBack(t, v) ->
            /\ exists' = [exists EXCEPT ![To(t)] = "yes"]
            /\ prime' = [prime EXCEPT ![To(t)] = v]
            /\ pc' = [pc EXCEPT ![t] = "loop", ![To(t)] = "start"]
       [] at = "loop" /\ ~HoldsBack(t, v) ->
            pc' = [pc EXCEPT ![t] = "send"] /\ UNCHANGED <<exists, prime>>
       [] at \in {"seek", "loop"} /\ HoldsBack(t, v) ->
            pc' = [pc EXCEPT ![t] = at] /\ UNCHANGED <<exists, prime>>
       [] at = "last" -> pc' = [pc EXCEPT ![t] = "delete"] /\ UNCHANGED <<exists, prime>>
       [] at = "only" -> pc' = [pc EXCEPT ![t] = "done"] /\ UNCHANGED <<exists, prime>>

(* the copying part of receive, which tells the sender                     *)
Copy(t, at) ==
  /\ mSize' = [mSize EXCEPT ![t] = Least(Asks(t), @)]
  /\ mReceived' = [mReceived EXCEPT ![t] = Signal(@)]
  /\ AfterReceive(t, at, mPtr[t])

(* receive of Channel                                                      *)
Receive(t, at) ==
  /\ kind = "Channel" /\ pc[t] = at
  /\ mSent[t] > 0
  /\ mSent' = [mSent EXCEPT ![t] = Wait(@)]
  /\ Copy(t, at)
  /\ UNCHANGED <<kind, max, mSendable, mPtr>>

(* Channel2: the copying is a step after the wait                          *)
Copying(at) == CASE at = "seek" -> "seeks" [] at = "loop" -> "loops"
                 [] at = "last" -> "lasts" [] at = "only" -> "onlys"
Receive2(t, at) ==
  /\ kind = "Channel2" /\ GoTo(t, at, Copying(at))
  /\ mSent[t] > 0
  /\ mSent' = [mSent EXCEPT ![t] = Wait(@)]
  /\ UNCHANGED <<kind, max, exists, mSendable, mPtr, mSize, mReceived, prime, num>>

Copy2(t, at) ==
  /\ pc[t] = Copying(at)
  /\ Copy(t, at)
  /\ UNCHANGED <<kind, max, mSendable, mPtr, mSent>>
-----------------------------------------------------------------------------
(* filter: a prime that reaches max is the last                            *)
Start(t) == /\ GoTo(t, "start", IF prime[t] >= max THEN "only" ELSE "seek")
            /\ UNCHANGED <<kind, max, chanVars, prime, num>>

(* Mutant: a filter deletes the channel it reads.                          *)
DeleteFrom(t) == /\ GoTo(t, "delete", "done")
                 /\ exists' = [exists EXCEPT ![IF t = 0 THEN 1 ELSE t] = "deleted"]
                 /\ UNCHANGED <<kind, max, mSendable, mPtr, mSize, mSent, mReceived, prime, num>>

(* delete to; the generator's sem.signal lets primeGen return              *)
Delete(t) == /\ GoTo(t, "delete", "done")
             /\ exists' = [exists EXCEPT ![To(t)] = "deleted"]
             /\ UNCHANGED <<kind, max, mSendable, mPtr, mSize, mSent, mReceived, prime, num>>

Filter(t) == \/ Start(t)
             \/ \E at \in {"seek", "loop", "last", "only"} :
                  Receive(t, at) \/ Receive2(t, at) \/ Copy2(t, at)
Sender(t) == Send(t) \/ Sent(t) \/ Delete(t)
Step(t)   == (t # Depth /\ Sender(t)) \/ (t # 0 /\ Filter(t))

Next == \E t \in Threads : Step(t)

(* Threads that can go on do.                                              *)
Spec == Init /\ [][Next]_vars /\ \A t \in Threads : WF_vars(Step(t))
-----------------------------------------------------------------------------
(* The sieve: the filter of thread t has the t-th prime.                   *)
Prime(p) == p > 1 /\ \A d \in 2 .. p - 1 : p % d # 0
PrimesExact ==
  \A t \in Threads \ {0} : pc[t] # "none" =>
    Prime(prime[t]) /\ Cardinality({p \in 2 .. prime[t] : Prime(p)}) = t

(* A channel that was deleted is not used again: its receiver has received *)
(* for the last time, its sender is out of send.                           *)
NoUseAfterDelete ==
  \A c \in Chans : exists[c] = "deleted" => /\ pc[c] \in {"delete", "done"}
                                            /\ pc[c - 1] = "done"

(* Each channel is a rendezvous: what the receiver copies is what the      *)
(* sender is sending, once, and the sender goes on after it was copied,    *)
(* knowing how much.                                                       *)
SlotOf(c) ==
  IF pc[c - 1] # "sending" THEN [state |-> "idle"]
  ELSE IF mReceived[c] = 0 THEN [state |-> "offered", value |-> num[c - 1]]
  ELSE [state |-> "taken", value |-> IF mSize[c] = 0 THEN 0 ELSE num[c], size |-> mSize[c]]
Channels == INSTANCE Rendezvous WITH slot <- [c \in Chans |-> SlotOf(c)],
                                     Values <- Nat, Sizes <- {0, Whole}
ImplementsRendezvous == Channels!Spec

(* The program ends: the shutdown passes through all the filters, and no   *)
(* thread and no channel is left.                                          *)
AllGone == /\ \A t \in Threads : pc[t] \in {"none", "done"}
           /\ \A c \in Chans : exists[c] # "yes"
Ends == <>[]AllGone
=============================================================================
