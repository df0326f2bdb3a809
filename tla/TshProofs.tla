----------------------------- MODULE TshProofs ------------------------------
(***************************************************************************)
(* Proofs about the shell, for any number of children, any size of the job *)
(* list and any world: the list is the list of the children, one of them   *)
(* is in the foreground, and the states are the children's.                *)
(***************************************************************************)
EXTENDS Tsh, SequenceTheorems, FiniteSetTheorems, FunctionTheorems, WellFoundedInduction, TLAPS

Signals  == {"CHLD", "INT", "TSTP"}
Statuses == {"none", "exited", "stopped", "continued"}
Labels   == {"prompt", "FG", "BG", "waitfg", "test", "cont", "set", "enter"}
Procs    == {"unborn", "young", "running", "stopped", "zombie", "gone"}
FrameType == [sig : {"CHLD"}, at : {"waitpid", "apply"}, pid : Pids \union {0}, status : Statuses]
      \union [sig : {"INT", "TSTP"}, at : {"fgpid", "kill"}, pid : Pids \union {0}, status : Statuses]

(* A handler is not interrupted by itself, so that the order of the frames *)
(* does not matter, but for the one on top.                                *)
Frames == {stack[i] : i \in DOMAIN stack}
StackInv == /\ stack \in Seq(FrameType)
            /\ \A i, j \in DOMAIN stack : stack[i].sig = stack[j].sig => i = j
            /\ pc \in {"FG", "BG"} => stack = <<>>

Blank(j) == [pid |-> j.pid, jid |-> j.jid, state |-> j.state]
JobsInv == /\ jobs = [i \in Slots |-> Blank(jobs[i])]
           /\ \A i \in Slots : jobs[i].pid \in Pids \union {0} /\ jobs[i].state \in States
TypeInv == /\ JobsInv
           /\ pc \in Labels /\ cmd \in {"fg", "bg"}
           /\ pc \in {"FG", "BG"} => arg \in Pids
           /\ pc \in {"test", "cont", "set", "enter"} => arg \in Slots
           /\ pc = "waitfg" => arg \in Pids \union {0}
           /\ pending \subseteq Signals
           /\ proc \in [Pids -> Procs] /\ event \in [Pids -> {"none", "stopped", "continued"}]
           /\ world \in Worlds

(* What sigchld_handler, if it runs, has been told of a child and not yet  *)
(* done; and the other handlers that are about to send their signal.       *)
Reaping         == \E fr \in Frames : fr.sig = "CHLD"
Told(p, status) == \E fr \in Frames : fr.at = "apply" /\ fr.pid = p /\ fr.status = status
Kills           == {fr \in Frames : fr.at = "kill"}

(* The kernel: an event agrees with the child's state, and what there is   *)
(* to be told is going to be asked for.                                    *)
KernelInv == /\ \A p \in Pids : /\ event[p] = "stopped" => proc[p] = "stopped"
                                /\ event[p] = "continued" => proc[p] = "running"
             /\ \A p \in Pids \union {0}, s \in Statuses : Told(p, s) =>
                  /\ p # 0 /\ s # "none" /\ proc[p] # "unborn"
                  /\ s = "exited" <=> proc[p] = "gone"
             /\ (\E p \in Pids : Status(p) # "none") => "CHLD" \in pending \/ Reaping

(* The list: every pid in one slot, none of a child that is not there.     *)
Entering(p) == pc \in {"FG", "BG"} /\ arg = p
Present(p)  == proc[p] # "unborn" /\ ~Entering(p) /\ (proc[p] = "gone" => Told(p, "exited"))
ListInv == /\ \A i, j \in Slots : jobs[i].pid # 0 /\ jobs[i].pid = jobs[j].pid => i = j
           /\ \A i \in Slots : jobs[i].pid # 0 => Present(jobs[i].pid)
           /\ pc \in {"FG", "BG"} => proc[arg] \notin {"unborn", "gone"}
           /\ MaxJobs >= MaxPids =>
                /\ \A p \in Pids : Present(p) => \E i \in Slots : jobs[i].pid = p
                /\ shell # "segv"

(* Only a foreground job is stopped, and main waits for it meanwhile.      *)
Waiting == pc \in {"waitfg", "enter"}
InForeground(p) == \E i \in Slots : jobs[i].pid = p /\ jobs[i].state = "FG"
StopInv ==
  /\ \A fr \in Kills : fr.pid # 0 =>
       /\ Waiting
       /\ fr.sig = "TSTP" /\ proc[fr.pid] \in {"young", "running"} => InForeground(fr.pid)
  /\ \A p \in Pids : event[p] = "stopped" \/ Told(p, "stopped") => Waiting /\ InForeground(p)
  /\ \A p \in Pids : Told(p, "stopped") => proc[p] = "stopped" /\ event[p] = "none"
  /\ \A p \in Pids : Told(p, "continued") /\ proc[p] = "stopped" => event[p] = "stopped"
  /\ \A p \in Pids : Entering(p) \/ (pc = "set" /\ jobs[arg].pid = p) => proc[p] # "stopped"

(* A state and a child disagree only while there is something to be told.  *)
Agree(i, p) ==
  /\ jobs[i].state = "ST" => \/ proc[p] = "stopped" \/ Status(p) \in {"exited", "continued"}
                             \/ Told(p, "exited") \/ Told(p, "continued")
  /\ proc[p] = "stopped" => jobs[i].state = "ST" \/ event[p] = "stopped" \/ Told(p, "stopped")
AgreeInv == \A i \in Slots : \A p \in Pids : jobs[i].pid = p => Agree(i, p)

BookInv == TypeInv /\ StackInv /\ KernelInv /\ ListInv /\ OneForeground
IInv == BookInv /\ (~world.outside => StopInv /\ AgreeInv)
-----------------------------------------------------------------------------
(* Least elements, and the frames.                                         *)

(* A set of natural numbers has a least element: an interval 0 .. m with m *)
(* in the set is minimal among the finite sets of this form.               *)
LEMMA LeastNat ==
  ASSUME NEW S \in SUBSET Nat, S # {}
  PROVE  Min(S) \in S
<1>1. PICK n \in S : TRUE
  OBVIOUS
<1> DEFINE U == 0 .. n
           T == {X \in SUBSET U : \E m \in S : m \in U /\ X = 0 .. m}
<1>2. IsWellFoundedOn(StrictSubsetOrdering(U), SUBSET U)
  <2>1. IsFiniteSet(U)
    BY FS_Interval
  <2>2. FiniteSubsetsOf(U) = SUBSET U
    BY <2>1, FS_FiniteSubsetsOfFinite
  <2>3. QED
    BY <2>2, FS_StrictSubsetOrderingWellFounded
<1>3. T \subseteq SUBSET U /\ U \in T
  BY <1>1
<1>4. PICK X \in T : \A Y \in T : ~(<<Y, X>> \in StrictSubsetOrdering(U))
  <2> HIDE DEF T, U
  <2>1. QED
    BY <1>2, <1>3, WFMin
<1>5. PICK m \in S : m \in U /\ X = 0 .. m
  OBVIOUS
<1>6. ASSUME NEW k \in S, k < m PROVE FALSE
  <2>1. (0 .. k) \in T /\ (0 .. k) \subseteq (0 .. m) /\ (0 .. k) # (0 .. m)
    BY <1>5, <1>6
  <2>2. <<0 .. k, X>> \in StrictSubsetOrdering(U)
    BY <2>1, <1>5 DEF StrictSubsetOrdering
  <2>3. QED
    BY <1>4, <2>1, <2>2
<1>7. \E x \in S : \A y \in S : x =< y
  BY <1>6
<1>8. QED
  BY <1>7 DEF Min

LEMMA Indices ==
  /\ MaxPids \in Nat /\ MaxJobs \in Nat \ {0} /\ 0 \notin Pids /\ Pids \subseteq Nat
  /\ \A S \in SUBSET Slots : S # {} => Min(S) \in S
<1>1. Slots \subseteq Nat
  BY TshAssumption DEF Slots
<1>2. ASSUME NEW S \in SUBSET Slots, S # {} PROVE Min(S) \in S
  BY <1>1, <1>2, LeastNat
<1>3. QED
  BY <1>2, TshAssumption DEF Pids

(* Only the frame on top is replaced or popped.                            *)
LEMMA TopFrame ==
  ASSUME StackInv, stack # <<>>
  PROVE  /\ Top \in Frames /\ Top \in FrameType /\ Len(stack) \in Nat \ {0}
         /\ DOMAIN stack = 1 .. Len(stack)
         /\ \A fr \in Frames : fr \in FrameType /\ (fr.sig = Top.sig => fr = Top)
<1>1. /\ Len(stack) \in Nat \ {0} /\ DOMAIN stack = 1 .. Len(stack)
      /\ \A i \in DOMAIN stack : stack[i] \in FrameType
  BY LenProperties, ElementOfSeq, EmptySeq DEF StackInv
<1>2. Len(stack) \in DOMAIN stack
  BY <1>1
<1>3. QED
  BY <1>1, <1>2 DEF Top, Frames, StackInv

LEMMA PushFrame ==
  ASSUME StackInv, NEW fr \in FrameType, stack' = Append(stack, fr),
         \A i \in DOMAIN stack : stack[i].sig # fr.sig, pc' = pc, pc \notin {"FG", "BG"}
  PROVE  StackInv' /\ Frames' = Frames \union {fr}
<1>1. /\ Len(stack) \in Nat /\ DOMAIN stack = 1 .. Len(stack) /\ stack \in Seq(FrameType)
  BY LenProperties DEF StackInv
<1>2. /\ stack' \in Seq(FrameType) /\ Len(stack') = Len(stack) + 1
      /\ \A i \in 1 .. Len(stack) : stack'[i] = stack[i]
      /\ stack'[Len(stack) + 1] = fr
  BY <1>1, AppendProperties
<1>3. DOMAIN stack' = 1 .. Len(stack) + 1
  BY <1>2, LenProperties
<1>4. \A i \in DOMAIN stack' : i \in DOMAIN stack \/ i = Len(stack) + 1
  BY <1>1, <1>3
<1>5. \A i \in DOMAIN stack : i \in DOMAIN stack' /\ stack'[i] = stack[i] /\ i # Len(stack) + 1
  BY <1>1, <1>2, <1>3
<1>6. Len(stack) + 1 \in DOMAIN stack'
  BY <1>1, <1>3
<1>7. \A x : x \in Frames' <=> x \in Frames \/ x = fr
  BY <1>2, <1>4, <1>5, <1>6 DEF Frames
<1>8. \A i, j \in DOMAIN stack' : stack'[i].sig = stack'[j].sig => i = j
  BY <1>2, <1>4, <1>5 DEF StackInv
<1>9. QED
  BY <1>2, <1>7, <1>8 DEF StackInv

LEMMA ReplaceFrame ==
  ASSUME StackInv, stack # <<>>, NEW fr \in FrameType, Replace(fr), fr.sig = Top.sig, pc' = pc
  PROVE  /\ StackInv' /\ Frames' = (Frames \ {Top}) \union {fr}
<1>1. /\ Len(stack) \in Nat \ {0} /\ DOMAIN stack = 1 .. Len(stack) /\ stack \in Seq(FrameType)
      /\ Len(stack) \in DOMAIN stack
  BY TopFrame DEF StackInv
<1>2. /\ stack' \in Seq(FrameType) /\ DOMAIN stack' = DOMAIN stack
      /\ \A i \in DOMAIN stack : stack'[i] = IF i = Len(stack) THEN fr ELSE stack[i]
  BY <1>1, ExceptSeq DEF Replace
<1>3. \A i \in DOMAIN stack : i # Len(stack) => stack[i] # Top
  BY <1>1 DEF Top, StackInv
<1>4. \A x : x \in Frames' <=> (x \in Frames /\ x # Top) \/ x = fr
  BY <1>1, <1>2, <1>3 DEF Frames, Top
<1>5. \A i \in DOMAIN stack : stack'[i].sig = stack[i].sig
  BY <1>2 DEF Top
<1>6. \A i, j \in DOMAIN stack' : stack'[i].sig = stack'[j].sig => i = j
  BY <1>2, <1>5 DEF StackInv
<1>7. pc \notin {"FG", "BG"}
  BY DEF StackInv
<1>8. QED
  BY <1>2, <1>4, <1>6, <1>7 DEF StackInv

LEMMA PopFrame ==
  ASSUME StackInv, stack # <<>>, Pop, pc' = pc
  PROVE  StackInv' /\ Frames' = Frames \ {Top}
<1>1. /\ Len(stack) \in Nat \ {0} /\ DOMAIN stack = 1 .. Len(stack)
      /\ \A i \in DOMAIN stack : stack[i] \in FrameType
  BY TopFrame, ElementOfSeq DEF StackInv
<1>2. /\ stack' \in Seq(FrameType) /\ Len(stack') = Len(stack) - 1
      /\ \A i \in 1 .. Len(stack) - 1 : stack'[i] = stack[i]
  <2> DEFINE n == Len(stack) - 1
  <2>1. n \in Nat /\ \A i \in 1 .. n : stack[i] \in FrameType
    BY <1>1
  <2>2. /\ SubSeq(stack, 1, n) \in Seq(FrameType)
        /\ Len(SubSeq(stack, 1, n)) = IF 1 <= n THEN n - 1 + 1 ELSE 0
        /\ \A i \in 1 .. n - 1 + 1 : SubSeq(stack, 1, n)[i] = stack[1 + i - 1]
    BY <2>1, SubSeqProperties
  <2>3. stack' = SubSeq(stack, 1, n)
    BY DEF Pop
  <2> HIDE DEF n
  <2>4. Len(stack') = n /\ \A i \in 1 .. n : stack'[i] = stack[i]
    BY <2>1, <2>2, <2>3
  <2>5. QED
    BY <2>2, <2>3, <2>4 DEF n
<1>3. DOMAIN stack' = 1 .. Len(stack) - 1
  BY <1>2, LenProperties
<1>4. \A i \in DOMAIN stack : i \in DOMAIN stack' \/ i = Len(stack)
  BY <1>1, <1>3
<1>5. \A i \in DOMAIN stack' : i \in DOMAIN stack /\ i # Len(stack) /\ stack'[i] = stack[i]
  BY <1>1, <1>2, <1>3
<1>6. \A i \in DOMAIN stack' : stack[i] # Top
  BY <1>1, <1>5 DEF Top, StackInv
<1>7. \A x : x \in Frames' <=> x \in Frames /\ x # Top
  BY <1>4, <1>5, <1>6 DEF Frames, Top
<1>8. \A i, j \in DOMAIN stack' : stack'[i].sig = stack'[j].sig => i = j
  BY <1>5 DEF StackInv
<1>9. pc \notin {"FG", "BG"}
  BY DEF StackInv
<1>10. QED
  BY <1>2, <1>7, <1>8, <1>9 DEF StackInv

(* What the steps of a handler do to the frames.                           *)
SameTold  == \A p, s : Told(p, s)' <=> Told(p, s)
SameKills == Kills' = Kills
SameReaping == Reaping' <=> Reaping
Untold == \A p, s : ~Told(p, s)

LEMMA Delivered ==
  ASSUME StackInv, NEW s \in Signals, Deliver(s)
  PROVE  /\ StackInv' /\ SameTold /\ SameKills
         /\ Reaping' <=> Reaping \/ s = "CHLD"
<1> DEFINE fr == Frame(s, IF s = "CHLD" THEN "waitpid" ELSE "fgpid", 0, "none")
<1>1. /\ fr \in FrameType /\ fr.sig = s /\ fr.at \notin {"apply", "kill"}
  BY DEF Signals, FrameType, Statuses, Frame
<1>2. /\ stack' = Append(stack, fr) /\ pc' = pc /\ pc \notin {"FG", "BG"}
      /\ \A i \in DOMAIN stack : stack[i].sig # s
  BY DEF Deliver
<1> HIDE DEF fr
<1>3. StackInv' /\ Frames' = Frames \union {fr}
  BY <1>1, <1>2, PushFrame
<1>4. QED
  BY <1>1, <1>3 DEF SameTold, SameKills, Told, Kills, Reaping

(* sigchld_handler on top: no other frame is told of a child.              *)
LEMMA OnTop ==
  ASSUME StackInv, NEW at, At({"CHLD"}, at)
  PROVE  /\ stack # <<>> /\ Top \in FrameType /\ Top.sig = "CHLD" /\ Top.at = at /\ Reaping
         /\ \A p, s : Told(p, s) <=> Top.at = "apply" /\ Top.pid = p /\ Top.status = s
         /\ \A fr \in Frames \ {Top} : fr.sig # "CHLD" /\ fr.at # "apply"
<1>1. stack # <<>> /\ Top.sig = "CHLD" /\ Top.at = at
  BY DEF At
<1>2. /\ Top \in Frames /\ Top \in FrameType
      /\ \A fr \in Frames : fr \in FrameType /\ (fr.sig = Top.sig => fr = Top)
  BY <1>1, TopFrame
<1>3. \A fr \in Frames \ {Top} : fr.sig # "CHLD" /\ fr.at # "apply"
  BY <1>1, <1>2 DEF FrameType
<1>4. QED
  BY <1>1, <1>2, <1>3 DEF Told, Reaping

LEMMA Waited ==
  ASSUME StackInv, NEW p \in Pids, WaitPid(p), Status(p) \in Statuses
  PROVE  /\ StackInv' /\ Untold /\ SameKills /\ Reaping /\ Reaping'
         /\ \A q, s : Told(q, s)' <=> q = p /\ s = Status(p)
<1>1. At({"CHLD"}, "waitpid")
  BY DEF WaitPid
<1>2. PICK st \in Statuses : st = Status(p)
  OBVIOUS
<1> DEFINE fr == Frame("CHLD", "apply", p, st)
<1>3. fr \in FrameType /\ fr.sig = "CHLD" /\ fr.at = "apply" /\ fr.pid = p /\ fr.status = st
  BY DEF FrameType, Frame
<1>4. Replace(fr) /\ pc' = pc
  BY <1>2 DEF WaitPid
<1> HIDE DEF fr
<1>5. /\ stack # <<>> /\ Top.sig = "CHLD" /\ Top.at = "waitpid" /\ Reaping
      /\ \A q, s : Told(q, s) <=> Top.at = "apply" /\ Top.pid = q /\ Top.status = s
      /\ \A g \in Frames \ {Top} : g.sig # "CHLD" /\ g.at # "apply"
  BY <1>1, OnTop
<1>6. StackInv' /\ Frames' = (Frames \ {Top}) \union {fr}
  BY <1>3, <1>4, <1>5, ReplaceFrame
<1>7. QED
  BY <1>2, <1>3, <1>5, <1>6 DEF Untold, SameKills, Told, Kills, Reaping

LEMMA Applied ==
  ASSUME StackInv, ApplyExit \/ ApplyStop \/ ApplyContinue
  PROVE  /\ StackInv' /\ SameKills /\ Reaping /\ Reaping' /\ Untold'
         /\ Top.pid \in Pids \union {0} /\ Top.status \in Statuses
         /\ \A q, s : Told(q, s) <=> q = Top.pid /\ s = Top.status
<1>1. At({"CHLD"}, "apply") /\ pc' = pc
  BY DEF ApplyExit, ApplyStop, ApplyContinue
<1> DEFINE fr == Frame("CHLD", "waitpid", 0, "none")
<1>2. fr \in FrameType /\ fr.sig = "CHLD" /\ fr.at = "waitpid"
  BY DEF FrameType, Frame, Statuses
<1>3. Replace(fr)
  BY DEF ApplyExit, ApplyStop, ApplyContinue
<1> HIDE DEF fr
<1>4. /\ stack # <<>> /\ Top \in FrameType /\ Top.sig = "CHLD" /\ Top.at = "apply" /\ Reaping
      /\ \A q, s : Told(q, s) <=> Top.at = "apply" /\ Top.pid = q /\ Top.status = s
      /\ \A g \in Frames \ {Top} : g.sig # "CHLD" /\ g.at # "apply"
  BY <1>1, OnTop
<1>5. StackInv' /\ Frames' = (Frames \ {Top}) \union {fr}
  BY <1>1, <1>2, <1>3, <1>4, ReplaceFrame
<1>6. Top.pid \in Pids \union {0} /\ Top.status \in Statuses
  BY <1>4 DEF FrameType
<1>7. QED
  BY <1>2, <1>4, <1>5, <1>6 DEF Untold, SameKills, Told, Kills, Reaping

LEMMA DoneReaping ==
  ASSUME StackInv, NothingToWaitFor
  PROVE  StackInv' /\ SameKills /\ Untold /\ Untold' /\ ~Reaping'
<1>1. At({"CHLD"}, "waitpid") /\ Pop /\ pc' = pc
  BY DEF NothingToWaitFor
<1>2. /\ stack # <<>> /\ Top.sig = "CHLD" /\ Top.at = "waitpid"
      /\ \A q, s : Told(q, s) <=> Top.at = "apply" /\ Top.pid = q /\ Top.status = s
      /\ \A g \in Frames \ {Top} : g.sig # "CHLD" /\ g.at # "apply"
  BY <1>1, OnTop
<1>3. StackInv' /\ Frames' = Frames \ {Top}
  BY <1>1, <1>2, PopFrame
<1>4. QED
  BY <1>2, <1>3 DEF Untold, SameKills, Told, Kills, Reaping

LEMMA ReadFg ==
  ASSUME StackInv, FgPid \in Pids \union {0}, NEW s \in {"INT", "TSTP"}, ReadFgPid(s)
  PROVE  /\ StackInv' /\ SameTold /\ SameReaping
         /\ Kills' = Kills \union {Frame(s, "kill", FgPid, "none")}
<1>1. At({s}, "fgpid") /\ pc' = pc /\ stack # <<>> /\ Top.sig = s /\ Top.at = "fgpid"
  BY DEF ReadFgPid, At
<1>2. PICK p \in Pids \union {0} : p = FgPid
  OBVIOUS
<1> DEFINE fr == Frame(s, "kill", p, "none")
<1>3. fr \in FrameType /\ fr.sig = s /\ fr.at = "kill" /\ Replace(fr)
  BY <1>2 DEF FrameType, Frame, Statuses, ReadFgPid
<1> HIDE DEF fr
<1>4. /\ StackInv' /\ Frames' = (Frames \ {Top}) \union {fr}
  BY <1>1, <1>3, ReplaceFrame
<1>5. Kills' = Kills \union {fr}
  BY <1>1, <1>3, <1>4 DEF Kills
<1>6. SameTold /\ SameReaping
  BY <1>1, <1>3, <1>4 DEF SameTold, SameReaping, Told, Reaping
<1>7. QED
  BY <1>2, <1>4, <1>5, <1>6 DEF fr

LEMMA Killed ==
  ASSUME StackInv, NEW s \in {"INT", "TSTP"}, KillSelf(s) \/ KillJob(s) \/ KillFails(s)
  PROVE  /\ StackInv' /\ SameTold /\ SameReaping /\ Kills' \subseteq Kills
         /\ Top \in Kills /\ Top.sig = s /\ Top.pid \in Pids \union {0} /\ Kills' = Kills \ {Top}
<1>1. At({s}, "kill") /\ pc' = pc /\ stack # <<>> /\ Top.sig = s /\ Top.at = "kill" /\ Pop
  BY DEF KillSelf, KillJob, KillFails, At
<1>2. Top \in Frames /\ Top \in FrameType
  BY <1>1, TopFrame
<1>3. StackInv' /\ Frames' = Frames \ {Top}
  BY <1>1, PopFrame
<1>4. SameTold /\ SameReaping
  BY <1>1, <1>3 DEF SameTold, SameReaping, Told, Reaping
<1>5. QED
  BY <1>1, <1>2, <1>3, <1>4 DEF Kills, FrameType
-----------------------------------------------------------------------------
(* The job list.                                                           *)
SlotSet(i, p, s) == /\ jobs'[i].pid = p /\ jobs'[i].state = s
                    /\ \A j \in Slots : j # i => jobs'[j] = jobs[j]

LEMMA SetSlot ==
  ASSUME JobsInv, NEW i \in Slots, NEW p \in Pids \union {0}, NEW jid, NEW s \in States,
         jobs' = [jobs EXCEPT ![i] = [pid |-> p, jid |-> jid, state |-> s]]
  PROVE  JobsInv' /\ SlotSet(i, p, s)
<1>1. DOMAIN jobs = Slots /\ \A j \in Slots : jobs[j] = Blank(jobs[j])
  BY DEF JobsInv
<1>2. jobs' = [j \in Slots |-> IF j = i THEN [pid |-> p, jid |-> jid, state |-> s] ELSE jobs[j]]
  BY <1>1
<1>3. /\ jobs'[i] = [pid |-> p, jid |-> jid, state |-> s]
      /\ \A j \in Slots : j # i => jobs'[j] = jobs[j]
  BY <1>2
<1>4. \A j \in Slots : jobs'[j] = Blank(jobs[j])'
  BY <1>1, <1>3 DEF Blank
<1>5. jobs' = [j \in Slots |-> Blank(jobs[j])']
  BY <1>2, <1>4
<1>6. QED
  BY <1>3, <1>5 DEF JobsInv, SlotSet

LEMMA StateSet ==
  ASSUME JobsInv, NEW i \in Slots, NEW s \in States, SetState(i, s)
  PROVE  JobsInv' /\ SlotSet(i, jobs[i].pid, s)
<1>1. jobs[i] = Blank(jobs[i]) /\ jobs[i].pid \in Pids \union {0}
  BY DEF JobsInv
<1>2. jobs' = [jobs EXCEPT ![i] = [pid |-> jobs[i].pid, jid |-> jobs[i].jid, state |-> s]]
  <2>1. \A p, j, st : [[pid |-> p, jid |-> j, state |-> st] EXCEPT !.state = s]
                      = [pid |-> p, jid |-> j, state |-> s]
    OBVIOUS
  <2>2. jobs[i] = [pid |-> jobs[i].pid, jid |-> jobs[i].jid, state |-> jobs[i].state]
    BY <1>1 DEF Blank
  <2>3. [jobs[i] EXCEPT !.state = s] = [pid |-> jobs[i].pid, jid |-> jobs[i].jid, state |-> s]
    BY <2>1, <2>2
  <2>4. jobs' = [jobs EXCEPT ![i] = [jobs[i] EXCEPT !.state = s]]
    BY DEF SetState
  <2>5. QED
    BY <2>3, <2>4
<1>3. QED
  BY <1>1, <1>2, SetSlot

(* addjob finds the first free slot, deletejob the job of its pid.         *)
LEMMA JobAdded ==
  ASSUME JobsInv, NEW p \in Pids, NEW s \in {"FG", "BG"}, AddJob(p, s)
  PROVE  /\ JobsInv'
         /\ \/ Free = {} /\ jobs' = jobs
            \/ \E k \in Slots : jobs[k].pid = 0 /\ SlotSet(k, p, s)
<1>1. CASE Free = {}
  BY <1>1 DEF AddJob, JobsInv, Blank
<1>2. CASE Free # {}
  <2>1. Free \in SUBSET Slots
    BY DEF Free
  <2>2. PICK k \in Free : k = Min(Free)
    BY <1>2, <2>1, Indices
  <2>3. k \in Slots /\ jobs[k].pid = 0
    BY DEF Free
  <2>4. jobs' = [jobs EXCEPT ![k] = [pid |-> p, jid |-> nextjid, state |-> s]]
    BY <1>2, <2>2 DEF AddJob
  <2>5. JobsInv' /\ SlotSet(k, p, s)
    BY <2>3, <2>4, SetSlot DEF States
  <2>6. QED
    BY <2>3, <2>5
<1>3. QED
  BY <1>1, <1>2

LEMMA JobOf ==
  ASSUME JobsInv, NEW p \in Pids \union {0}
  PROVE  IF p # 0 /\ \E i \in Slots : jobs[i].pid = p
         THEN Job(p) \in Slots /\ jobs[Job(p)].pid = p ELSE Job(p) = 0
<1>1. p > 0 <=> p # 0
  BY Indices DEF Pids
<1>2. QED
  BY <1>1 DEF Job

LEMMA JobDeleted ==
  ASSUME JobsInv, NEW p \in Pids \union {0}, DeleteJob(p)
  PROVE  /\ JobsInv'
         /\ IF p # 0 /\ \E i \in Slots : jobs[i].pid = p
            THEN \E k \in Slots : jobs[k].pid = p /\ SlotSet(k, 0, "UNDEF")
            ELSE jobs' = jobs
<1>1. CASE p # 0 /\ \E i \in Slots : jobs[i].pid = p
  <2>0. PICK k \in Slots : k = Job(p) /\ jobs[k].pid = p
    BY <1>1, JobOf
  <2>1. k = Job(p) /\ jobs[k].pid = p /\ k # 0
    BY <2>0, Indices DEF Slots
  <2>2. jobs' = [jobs EXCEPT ![k] = [pid |-> 0, jid |-> 0, state |-> "UNDEF"]]
    BY <2>1 DEF DeleteJob, NoJob
  <2>3. JobsInv' /\ SlotSet(k, 0, "UNDEF")
    BY <2>2, SetSlot DEF States
  <2>4. QED
    BY <1>1, <2>1, <2>3
<1>2. CASE ~(p # 0 /\ \E i \in Slots : jobs[i].pid = p)
  BY <1>2, JobOf DEF DeleteJob, JobsInv, Blank
<1>3. QED
  BY <1>1, <1>2

LEMMA FgPidType == JobsInv => FgPid \in Pids \union {0}
                            /\ (FgPid # 0 => \E i \in Slots : jobs[i].pid = FgPid /\ jobs[i].state = "FG")
<1> SUFFICES ASSUME JobsInv, ForegroundSlots # {}
             PROVE  \E i \in Slots : jobs[i].pid = FgPid /\ jobs[i].state = "FG"
  BY DEF JobsInv, FgPid
<1>1. ForegroundSlots \in SUBSET Slots
  BY DEF ForegroundSlots
<1>2. Min(ForegroundSlots) \in ForegroundSlots
  BY <1>1, Indices
<1>3. QED
  BY <1>2 DEF FgPid, ForegroundSlots
-----------------------------------------------------------------------------
(* Types and frames, step by step.                                         *)
LEMMA StackKept ==
  ASSUME stack' = stack
  PROVE  /\ SameTold /\ SameKills /\ SameReaping
         /\ StackInv /\ (pc' \in {"FG", "BG"} => stack = <<>>) => StackInv'
BY DEF SameTold, SameKills, SameReaping, Told, Kills, Reaping, Frames, StackInv

LEMMA SameJobs == JobsInv /\ jobs' = jobs => JobsInv'
BY DEF JobsInv, Blank

(* Steps of main that leave the list and the children alone.               *)
Moves == WaitFg \/ Test \/ EnterWait \/ (\E name \in {"fg", "bg"}, i \in Slots : FgBg(name, i)) \/ Quit
Outside == (\E k \in {"INT", "TSTP"} : Type(k)) \/ ResumeShell
Children == \E p \in Pids : SetPgid(p) \/ Exits(p) \/ Meddle(p)

LEMMA Moved ==
  ASSUME TypeInv, StackInv, Moves
  PROVE  /\ UNCHANGED <<jobs, stack, pending, proc, event, world>> /\ shell' \in {shell, "exited"}
         /\ pc' \notin {"FG", "BG"} /\ pc \notin {"FG", "BG"} /\ stack = <<>>
         /\ TypeInv' /\ StackInv'
<1> USE DEF MainAt, Go
<1>1. /\ UNCHANGED <<jobs, stack, pending, proc, event, world>> /\ shell' \in {shell, "exited"}
      /\ pc' \in {"prompt", "test", "cont", "set", "waitfg"} /\ pc \notin {"FG", "BG"} /\ stack = <<>>
      /\ cmd' \in {"fg", "bg"}
      /\ pc' \in {"test", "cont", "set"} => arg' \in Slots
      /\ pc' = "waitfg" => arg' \in Pids \union {0}
  <2>1. CASE WaitFg
    BY <2>1 DEF WaitFg, TypeInv
  <2>2. CASE Test
    BY <2>2 DEF Test, TypeInv
  <2>3. CASE EnterWait
    BY <2>3 DEF EnterWait, TypeInv, JobsInv
  <2>4. CASE \E name \in {"fg", "bg"}, i \in Slots : FgBg(name, i)
    BY <2>4 DEF FgBg, TypeInv
  <2>5. CASE Quit
    BY <2>5 DEF Quit, TypeInv
  <2>6. QED
    BY <2>1, <2>2, <2>3, <2>4, <2>5 DEF Moves
<1>2. StackInv'
  BY <1>1, StackKept
<1>3. TypeInv'
  BY <1>1, SameJobs DEF TypeInv, Labels
<1>4. QED
  BY <1>1, <1>2, <1>3

LEMMA OutsideMoved ==
  ASSUME TypeInv, StackInv, Outside
  PROVE  /\ UNCHANGED <<jobs, pc, arg, cmd, stack, proc, event, world>>
         /\ pending \subseteq pending' /\ (shell' = shell \/ shell' = "up")
         /\ TypeInv' /\ StackInv'
<1>1. /\ UNCHANGED <<jobs, pc, arg, cmd, stack, proc, event, world>>
      /\ pending \subseteq pending' /\ pending' \subseteq pending \union {"INT", "TSTP"}
      /\ (shell' = shell \/ shell' = "up")
  BY DEF Outside, Type, ResumeShell
<1>2. StackInv'
  BY <1>1, StackKept DEF StackInv
<1>3. TypeInv'
  BY <1>1, SameJobs DEF TypeInv, Signals
<1>4. QED
  BY <1>1, <1>2, <1>3

LEMMA BecomeTypes ==
  ASSUME TypeInv, NEW p \in Pids, NEW s \in Procs, NEW e \in {"none", "stopped", "continued"},
         Become(p, s, e)
  PROVE  /\ proc' \in [Pids -> Procs] /\ event' \in [Pids -> {"none", "stopped", "continued"}]
         /\ pending' = pending \union {"CHLD"} /\ pending' \subseteq Signals
         /\ \A q \in Pids : /\ proc'[q] = IF q = p THEN s ELSE proc[q]
                            /\ event'[q] = IF q = p THEN e ELSE event[q]
BY DEF Become, TypeInv, Signals

(* A child: it is among the running, stops, continues or ends.             *)
LEMMA ChildMoved ==
  ASSUME TypeInv, StackInv, Children
  PROVE  /\ UNCHANGED <<jobs, pc, arg, cmd, stack, shell, world>> /\ TypeInv' /\ StackInv'
         /\ \E p \in Pids :
              /\ \A q \in Pids : q # p => proc'[q] = proc[q] /\ event'[q] = event[q]
              /\ \/ /\ proc[p] = "young" /\ proc'[p] = "running" /\ event' = event
                    /\ pending' = pending
                 \/ /\ proc[p] = "running" /\ proc'[p] = "zombie" /\ event'[p] = "none"
                    /\ pending' = pending \union {"CHLD"}
                 \/ /\ world.outside /\ pending' = pending \union {"CHLD"}
                    /\ \/ proc[p] = "running" /\ proc'[p] = "stopped" /\ event'[p] = "stopped"
                       \/ proc[p] = "stopped" /\ proc'[p] = "running" /\ event'[p] = "continued"
                       \/ proc[p] = "stopped" /\ proc'[p] = "zombie" /\ event'[p] = "none"
<1>1. PICK p \in Pids : SetPgid(p) \/ Exits(p) \/ Meddle(p)
  BY DEF Children
<1>2. /\ UNCHANGED <<jobs, pc, arg, cmd, stack, shell, world>>
  BY <1>1 DEF SetPgid, Exits, Meddle
<1>3. /\ proc' \in [Pids -> Procs] /\ event' \in [Pids -> {"none", "stopped", "continued"}]
      /\ pending' \subseteq Signals
      /\ \A q \in Pids : q # p => proc'[q] = proc[q] /\ event'[q] = event[q]
      /\ \/ /\ proc[p] = "young" /\ proc'[p] = "running" /\ event' = event
            /\ pending' = pending
         \/ /\ proc[p] = "running" /\ proc'[p] = "zombie" /\ event'[p] = "none"
            /\ pending' = pending \union {"CHLD"}
         \/ /\ world.outside /\ pending' = pending \union {"CHLD"}
            /\ \/ proc[p] = "running" /\ proc'[p] = "stopped" /\ event'[p] = "stopped"
               \/ proc[p] = "stopped" /\ proc'[p] = "running" /\ event'[p] = "continued"
               \/ proc[p] = "stopped" /\ proc'[p] = "zombie" /\ event'[p] = "none"
  <2>1. CASE SetPgid(p)
    BY <2>1 DEF SetPgid, TypeInv, Procs
  <2>2. CASE Exits(p)
    BY <2>2, BecomeTypes DEF Exits, Procs
  <2>3. CASE Meddle(p)
    BY <2>3, BecomeTypes DEF Meddle, Procs
  <2>4. QED
    BY <1>1, <2>1, <2>2, <2>3
<1>4. TypeInv'
  BY <1>2, <1>3, SameJobs DEF TypeInv
<1>5. StackInv'
  BY <1>2, StackKept DEF StackInv
<1>6. QED
  BY <1>2, <1>3, <1>4, <1>5

LEMMA Forked ==
  ASSUME TypeInv, StackInv, NEW p \in Pids, NEW state \in {"FG", "BG"}, Fork(p, state)
  PROVE  /\ UNCHANGED <<jobs, stack, pending, event, shell, world>> /\ TypeInv' /\ StackInv'
         /\ pc = "prompt" /\ pc' = state /\ arg' = p /\ stack = <<>>
         /\ proc[p] = "unborn" /\ proc'[p] = "young"
         /\ \A q \in Pids : q # p => proc'[q] = proc[q]
<1>1. /\ UNCHANGED <<jobs, cmd, stack, pending, event, shell, world>>
      /\ pc = "prompt" /\ pc' = state /\ arg' = p /\ stack = <<>>
      /\ proc[p] = "unborn" /\ proc' = [proc EXCEPT ![p] = "young"]
  BY DEF Fork, MainAt, Go
<1>2. proc' \in [Pids -> Procs] /\ proc'[p] = "young" /\ \A q \in Pids : q # p => proc'[q] = proc[q]
  BY <1>1 DEF TypeInv, Procs
<1>3. TypeInv'
  BY <1>1, <1>2, SameJobs DEF TypeInv, Labels
<1>4. StackInv'
  BY <1>1, StackKept
<1>5. QED
  BY <1>1, <1>2, <1>3, <1>4

LEMMA Added ==
  ASSUME TypeInv, StackInv, Add
  PROVE  /\ UNCHANGED <<stack, pending, proc, event, shell, world>> /\ TypeInv' /\ StackInv'
         /\ pc \in {"FG", "BG"} /\ arg \in Pids /\ stack = <<>>
         /\ \/ pc = "FG" /\ pc' = "waitfg" /\ arg' = arg
            \/ pc = "BG" /\ pc' = "prompt"
         /\ \/ Free = {} /\ jobs' = jobs
            \/ \E k \in Slots : jobs[k].pid = 0 /\ SlotSet(k, arg, pc)
<1>1. /\ UNCHANGED <<cmd, stack, pending, proc, event, shell, world>>
      /\ pc \in {"FG", "BG"} /\ arg \in Pids /\ stack = <<>> /\ AddJob(arg, pc)
      /\ \/ pc = "FG" /\ pc' = "waitfg" /\ arg' = arg
         \/ pc = "BG" /\ pc' = "prompt"
  BY DEF Add, Go, TypeInv
<1>2. JobsInv'
  BY <1>1, JobAdded DEF TypeInv
<1>3. TypeInv'
  BY <1>1, <1>2 DEF TypeInv, Labels
<1>4. StackInv'
  BY <1>1, StackKept
<1>5. \/ Free = {} /\ jobs' = jobs
      \/ \E k \in Slots : jobs[k].pid = 0 /\ SlotSet(k, arg, pc)
  BY <1>1, JobAdded DEF TypeInv
<1>6. QED
  BY <1>1, <1>3, <1>4, <1>5

LEMMA Continued ==
  ASSUME TypeInv, StackInv, Cont
  PROVE  /\ UNCHANGED <<jobs, arg, stack, shell, world>> /\ TypeInv' /\ StackInv'
         /\ pc = "cont" /\ pc' = "set" /\ stack = <<>> /\ arg \in Slots
         /\ LET p == jobs[arg].pid IN
            \/ (p = 0 \/ proc[p] # "stopped") /\ UNCHANGED <<proc, event, pending>>
            \/ /\ p \in Pids /\ proc[p] = "stopped" /\ proc'[p] = "running" /\ event'[p] = "continued"
               /\ pending' = pending \union {"CHLD"}
               /\ \A q \in Pids : q # p => proc'[q] = proc[q] /\ event'[q] = event[q]
<1>1. /\ UNCHANGED <<cmd, jobs, arg, stack, shell, world>>
      /\ pc = "cont" /\ pc' = "set" /\ stack = <<>> /\ arg \in Slots
  BY DEF Cont, MainAt, Go, TypeInv
<1>2. PICK p \in Pids \union {0} : p = jobs[arg].pid
  BY <1>1 DEF TypeInv, JobsInv
<1>3. \/ (p = 0 \/ proc[p] # "stopped") /\ UNCHANGED <<proc, event, pending>>
      \/ p \in Pids /\ proc[p] = "stopped" /\ Become(p, "running", "continued")
  BY <1>2 DEF Cont
<1>4. /\ proc' \in [Pids -> Procs] /\ event' \in [Pids -> {"none", "stopped", "continued"}]
      /\ pending' \subseteq Signals
      /\ \/ (p = 0 \/ proc[p] # "stopped") /\ UNCHANGED <<proc, event, pending>>
         \/ /\ p \in Pids /\ proc[p] = "stopped" /\ proc'[p] = "running" /\ event'[p] = "continued"
            /\ pending' = pending \union {"CHLD"}
            /\ \A q \in Pids : q # p => proc'[q] = proc[q] /\ event'[q] = event[q]
  <2>1. CASE UNCHANGED <<proc, event, pending>>
    BY <1>3, <2>1, BecomeTypes DEF TypeInv, Procs
  <2>2. CASE p \in Pids /\ proc[p] = "stopped" /\ Become(p, "running", "continued")
    BY <2>2, BecomeTypes DEF Procs
  <2>3. QED
    BY <1>3, <2>1, <2>2
<1>5. TypeInv'
  BY <1>1, <1>4, SameJobs DEF TypeInv, Labels
<1>6. StackInv'
  BY <1>1, StackKept
<1>7. QED
  BY <1>1, <1>2, <1>4, <1>5, <1>6

LEMMA Foregrounded ==
  ASSUME TypeInv, StackInv, SetFg
  PROVE  /\ UNCHANGED <<stack, pending, proc, event, shell, world>> /\ TypeInv' /\ StackInv'
         /\ pc = "set" /\ stack = <<>> /\ arg \in Slots
         /\ \/ pc' = "enter" /\ arg' = arg /\ SlotSet(arg, jobs[arg].pid, "FG")
            \/ pc' = "prompt" /\ jobs' = jobs
<1>1. /\ UNCHANGED <<cmd, stack, pending, proc, event, shell, world>>
      /\ pc = "set" /\ stack = <<>> /\ arg \in Slots
      /\ \/ pc' = "enter" /\ arg' = arg /\ SetState(arg, "FG")
         \/ pc' = "prompt" /\ jobs' = jobs
  BY DEF SetFg, MainAt, Go, TypeInv
<1>2. JobsInv'
  BY <1>1, StateSet, SameJobs DEF TypeInv, States
<1>3. TypeInv'
  BY <1>1, <1>2 DEF TypeInv, Labels
<1>4. StackInv'
  BY <1>1, StackKept
<1>5. QED
  BY <1>1, <1>3, <1>4, StateSet DEF TypeInv, States

LEMMA DeliverMoved ==
  ASSUME TypeInv, StackInv, NEW s \in pending, Deliver(s)
  PROVE  /\ UNCHANGED <<jobs, pc, arg, proc, event, shell, world>> /\ TypeInv' /\ StackInv'
         /\ pending' = pending \ {s} /\ SameTold /\ SameKills
         /\ Reaping' <=> Reaping \/ s = "CHLD"
<1>1. /\ UNCHANGED <<jobs, pc, arg, cmd, proc, event, shell, world>>
      /\ pending' = pending \ {s} /\ s \in Signals
  BY DEF Deliver, TypeInv
<1>2. /\ StackInv' /\ SameTold /\ SameKills
      /\ Reaping' <=> Reaping \/ s = "CHLD"
  BY <1>1, Delivered
<1>3. TypeInv'
  BY <1>1, SameJobs DEF TypeInv
<1>4. QED
  BY <1>1, <1>2, <1>3

LEMMA Collected ==
  ASSUME TypeInv, StackInv, NEW p \in Pids, WaitPid(p)
  PROVE  /\ UNCHANGED <<jobs, pc, arg, pending, shell, world>> /\ TypeInv' /\ StackInv'
         /\ Untold /\ SameKills /\ Reaping /\ Reaping'
         /\ Status(p) \in {"exited", "stopped", "continued"}
         /\ \A q, s : Told(q, s)' <=> q = p /\ s = Status(p)
         /\ event'[p] = "none" /\ proc'[p] = IF proc[p] = "zombie" THEN "gone" ELSE proc[p]
         /\ \A q \in Pids : q # p => proc'[q] = proc[q] /\ event'[q] = event[q]
<1>1. /\ UNCHANGED <<jobs, pc, arg, cmd, pending, shell, world>> /\ Status(p) # "none"
      /\ proc' = IF proc[p] = "zombie" THEN [proc EXCEPT ![p] = "gone"] ELSE proc
      /\ event' = [event EXCEPT ![p] = "none"]
  BY DEF WaitPid
<1>2. Status(p) \in {"exited", "stopped", "continued"} /\ Status(p) \in Statuses
  BY <1>1 DEF Status, TypeInv, Statuses
<1>3. /\ StackInv' /\ Untold /\ SameKills /\ Reaping /\ Reaping'
      /\ \A q, s : Told(q, s)' <=> q = p /\ s = Status(p)
  BY <1>2, Waited
<1>4. /\ event' \in [Pids -> {"none", "stopped", "continued"}] /\ event'[p] = "none"
      /\ \A q \in Pids : q # p => event'[q] = event[q]
  BY <1>1 DEF TypeInv
<1>5. /\ proc' \in [Pids -> Procs] /\ proc'[p] = IF proc[p] = "zombie" THEN "gone" ELSE proc[p]
      /\ \A q \in Pids : q # p => proc'[q] = proc[q]
  BY <1>1 DEF TypeInv, Procs
<1>6. TypeInv'
  BY <1>1, <1>4, <1>5, SameJobs DEF TypeInv
<1>7. QED
  BY <1>1, <1>2, <1>3, <1>4, <1>5, <1>6

LEMMA NoneLeft ==
  ASSUME TypeInv, StackInv, NothingToWaitFor
  PROVE  /\ UNCHANGED <<jobs, pc, arg, pending, proc, event, shell, world>> /\ TypeInv' /\ StackInv'
         /\ SameTold /\ SameKills /\ \A p \in Pids : Status(p) = "none"
<1>1. /\ UNCHANGED <<jobs, pc, arg, cmd, pending, proc, event, shell, world>>
      /\ \A p \in Pids : Status(p) = "none"
  BY DEF NothingToWaitFor
<1>2. StackInv' /\ SameKills /\ SameTold
  BY DoneReaping DEF Untold, SameTold
<1>3. TypeInv'
  BY <1>1, SameJobs DEF TypeInv
<1>4. QED
  BY <1>1, <1>2, <1>3

(* What the handler was told of p is done: its job is deleted, ...         *)
ToldOnly(p, s) == \A q, t : Told(q, t) <=> q = p /\ t = s

LEMMA ExitApplied ==
  ASSUME TypeInv, StackInv, ApplyExit
  PROVE  /\ UNCHANGED <<pc, arg, pending, proc, event, shell, world>> /\ TypeInv' /\ StackInv'
         /\ SameKills /\ Reaping /\ Reaping' /\ Untold'
         /\ \E p \in Pids \union {0} :
              /\ ToldOnly(p, "exited")
              /\ IF p # 0 /\ \E i \in Slots : jobs[i].pid = p
                 THEN \E k \in Slots : jobs[k].pid = p /\ SlotSet(k, 0, "UNDEF")
                 ELSE jobs' = jobs
<1>1. /\ UNCHANGED <<pc, arg, cmd, pending, proc, event, shell, world>>
      /\ Top.status = "exited" /\ DeleteJob(Top.pid)
  BY DEF ApplyExit
<1>2. /\ StackInv' /\ SameKills /\ Reaping /\ Reaping' /\ Untold'
      /\ Top.pid \in Pids \union {0}
      /\ \A q, s : Told(q, s) <=> q = Top.pid /\ s = Top.status
  BY Applied
<1>3. PICK p \in Pids \union {0} : p = Top.pid
  BY <1>2
<1>4. /\ JobsInv'
      /\ IF p # 0 /\ \E i \in Slots : jobs[i].pid = p
         THEN \E k \in Slots : jobs[k].pid = p /\ SlotSet(k, 0, "UNDEF")
         ELSE jobs' = jobs
  BY <1>1, <1>3, JobDeleted DEF TypeInv
<1>5. TypeInv'
  BY <1>1, <1>4 DEF TypeInv
<1>6. ToldOnly(p, "exited")
  BY <1>1, <1>2, <1>3 DEF ToldOnly
<1>7. QED
  BY <1>1, <1>2, <1>4, <1>5, <1>6

(* ... or marked stopped, ...                                              *)
LEMMA StopApplied ==
  ASSUME TypeInv, StackInv, ApplyStop
  PROVE  /\ UNCHANGED <<pc, arg, pending, proc, event, world>> /\ TypeInv' /\ StackInv'
         /\ SameKills /\ Reaping /\ Reaping' /\ Untold'
         /\ \E p \in Pids \union {0} :
              /\ ToldOnly(p, "stopped")
              /\ IF p # 0 /\ \E i \in Slots : jobs[i].pid = p
                 THEN shell' = shell /\ \E k \in Slots : jobs[k].pid = p /\ SlotSet(k, p, "ST")
                 ELSE shell' = "segv" /\ jobs' = jobs
<1>1. /\ UNCHANGED <<pc, arg, cmd, pending, proc, event, world>>
      /\ Top.status = "stopped"
  BY DEF ApplyStop
<1>2. /\ StackInv' /\ SameKills /\ Reaping /\ Reaping' /\ Untold'
      /\ Top.pid \in Pids \union {0}
      /\ \A q, s : Told(q, s) <=> q = Top.pid /\ s = Top.status
  BY Applied
<1>3. PICK p \in Pids \union {0} : p = Top.pid
  BY <1>2
<1>4. JobsInv
  BY DEF TypeInv
<1>5. CASE p # 0 /\ \E i \in Slots : jobs[i].pid = p
  <2>1. PICK k \in Slots : k = Job(p) /\ jobs[k].pid = p /\ k # 0
    BY <1>4, <1>5, JobOf, Indices DEF Slots
  <2>2. SetState(k, "ST") /\ shell' = shell
    BY <1>3, <2>1 DEF ApplyStop
  <2>3. JobsInv' /\ SlotSet(k, p, "ST")
    BY <1>4, <2>1, <2>2, StateSet DEF States
  <2>4. TypeInv'
    BY <1>1, <2>3 DEF TypeInv
  <2>5. QED
    BY <1>1, <1>2, <1>3, <1>5, <2>1, <2>2, <2>3, <2>4 DEF ToldOnly
<1>6. CASE ~(p # 0 /\ \E i \in Slots : jobs[i].pid = p)
  <2>1. shell' = "segv" /\ jobs' = jobs
    BY <1>3, <1>4, <1>6, JobOf DEF ApplyStop
  <2>2. TypeInv'
    BY <1>1, <2>1, SameJobs DEF TypeInv
  <2>3. QED
    BY <1>1, <1>2, <1>3, <1>6, <2>1, <2>2 DEF ToldOnly
<1>7. QED
  BY <1>5, <1>6

(* ... or, if it was marked stopped, in the background.                    *)
LEMMA ContinueApplied ==
  ASSUME TypeInv, StackInv, ApplyContinue
  PROVE  /\ UNCHANGED <<pc, arg, pending, proc, event, world>> /\ TypeInv' /\ StackInv'
         /\ SameKills /\ Reaping /\ Reaping' /\ Untold'
         /\ \E p \in Pids \union {0} :
              /\ ToldOnly(p, "continued")
              /\ IF p # 0 /\ \E i \in Slots : jobs[i].pid = p
                 THEN /\ shell' = shell
                      /\ \E k \in Slots : /\ jobs[k].pid = p
                                          /\ \/ jobs[k].state = "ST" /\ SlotSet(k, p, "BG")
                                             \/ jobs[k].state # "ST" /\ jobs' = jobs
                 ELSE shell' = "segv" /\ jobs' = jobs
<1>1. /\ UNCHANGED <<pc, arg, cmd, pending, proc, event, world>>
      /\ Top.status = "continued"
  BY DEF ApplyContinue
<1>2. /\ StackInv' /\ SameKills /\ Reaping /\ Reaping' /\ Untold'
      /\ Top.pid \in Pids \union {0}
      /\ \A q, s : Told(q, s) <=> q = Top.pid /\ s = Top.status
  BY Applied
<1>3. PICK p \in Pids \union {0} : p = Top.pid
  BY <1>2
<1>4. JobsInv
  BY DEF TypeInv
<1>5. CASE p # 0 /\ \E i \in Slots : jobs[i].pid = p
  <2>1. PICK k \in Slots : k = Job(p) /\ jobs[k].pid = p /\ k # 0
    BY <1>4, <1>5, JobOf, Indices DEF Slots
  <2>2. /\ \/ jobs[k].state = "ST" /\ SetState(k, "BG")
           \/ jobs[k].state # "ST" /\ jobs' = jobs
        /\ shell' = shell
    BY <1>3, <2>1 DEF ApplyContinue
  <2>3. /\ JobsInv'
        /\ \/ jobs[k].state = "ST" /\ SlotSet(k, p, "BG")
           \/ jobs[k].state # "ST" /\ jobs' = jobs
    BY <1>4, <2>1, <2>2, StateSet, SameJobs DEF States
  <2>4. TypeInv'
    BY <1>1, <2>3 DEF TypeInv
  <2>5. QED
    BY <1>1, <1>2, <1>3, <1>5, <2>1, <2>2, <2>3, <2>4 DEF ToldOnly
<1>6. CASE ~(p # 0 /\ \E i \in Slots : jobs[i].pid = p)
  <2>1. shell' = "segv" /\ jobs' = jobs
    BY <1>3, <1>4, <1>6, JobOf DEF ApplyContinue
  <2>2. TypeInv'
    BY <1>1, <2>1, SameJobs DEF TypeInv
  <2>3. QED
    BY <1>1, <1>2, <1>3, <1>6, <2>1, <2>2 DEF ToldOnly
<1>7. QED
  BY <1>5, <1>6

(* The handlers of the keys read a pid and signal it.                      *)
LEMMA FgRead ==
  ASSUME TypeInv, StackInv, NEW s \in {"INT", "TSTP"}, ReadFgPid(s)
  PROVE  /\ UNCHANGED <<jobs, pc, arg, pending, proc, event, shell, world>> /\ TypeInv' /\ StackInv'
         /\ SameTold /\ SameReaping
         /\ Kills' = Kills \union {Frame(s, "kill", FgPid, "none")}
         /\ FgPid # 0 => \E i \in ForegroundSlots : jobs[i].pid = FgPid
<1>1. UNCHANGED <<jobs, pc, arg, cmd, pending, proc, event, shell, world>>
  BY DEF ReadFgPid
<1>2. /\ FgPid \in Pids \union {0}
      /\ FgPid # 0 => \E i \in Slots : jobs[i].pid = FgPid /\ jobs[i].state = "FG"
  BY FgPidType DEF TypeInv
<1>3. /\ StackInv' /\ SameTold /\ SameReaping
      /\ Kills' = Kills \union {Frame(s, "kill", FgPid, "none")}
  BY <1>2, ReadFg
<1>4. TypeInv'
  BY <1>1, SameJobs DEF TypeInv
<1>5. QED
  BY <1>1, <1>2, <1>3, <1>4 DEF ForegroundSlots

LEMMA SignalSent ==
  ASSUME TypeInv, StackInv, NEW s \in {"INT", "TSTP"}, KillSelf(s) \/ KillJob(s) \/ KillFails(s)
  PROVE  /\ UNCHANGED <<jobs, pc, arg, world>> /\ TypeInv' /\ StackInv'
         /\ shell' \in {shell, "stopped", "killFailed"}
         /\ SameTold /\ SameReaping /\ Kills' \subseteq Kills
         /\ \/ UNCHANGED <<proc, event>> /\ pending \subseteq pending'
            \/ \E fr \in Kills :
                 /\ fr.pid \in Pids /\ fr.sig = s /\ fr \notin Kills'
                 /\ pending' = pending \union {"CHLD"} /\ proc[fr.pid] = "running"
                 /\ \/ s = "TSTP" /\ proc'[fr.pid] = "stopped" /\ event'[fr.pid] = "stopped"
                    \/ proc'[fr.pid] = "zombie" /\ event'[fr.pid] = "none"
                 /\ \A q \in Pids : q # fr.pid => proc'[q] = proc[q] /\ event'[q] = event[q]
<1>1. /\ StackInv' /\ SameTold /\ SameReaping /\ Kills' = Kills \ {Top}
      /\ Top \in Kills /\ Top.sig = s /\ Top.pid \in Pids \union {0}
  BY Killed
<1>2. UNCHANGED <<jobs, pc, arg, cmd, world>> /\ shell' \in {shell, "stopped", "killFailed"}
  BY DEF KillSelf, KillJob, KillFails
<1>3. PICK fr \in Kills : fr = Top
  BY <1>1
<1>4. PICK p \in Pids \union {0} : p = fr.pid
  BY <1>1, <1>3
<1>5. /\ proc' \in [Pids -> Procs] /\ event' \in [Pids -> {"none", "stopped", "continued"}]
      /\ pending' \subseteq Signals
      /\ \/ UNCHANGED <<proc, event>> /\ pending \subseteq pending'
         \/ /\ p \in Pids /\ pending' = pending \union {"CHLD"} /\ proc[p] = "running"
            /\ \/ s = "TSTP" /\ proc'[p] = "stopped" /\ event'[p] = "stopped"
               \/ proc'[p] = "zombie" /\ event'[p] = "none"
            /\ \A q \in Pids : q # p => proc'[q] = proc[q] /\ event'[q] = event[q]
  <2>1. CASE KillSelf(s) \/ KillFails(s)
    BY <2>1 DEF KillSelf, KillFails, TypeInv, Signals
  <2>2. CASE KillJob(s)
    <3>1. p \in Pids
      BY <1>3, <1>4, <2>2 DEF KillJob
    <3>2. \/ UNCHANGED <<proc, event, pending>>
          \/ s = "TSTP" /\ proc[p] = "running" /\ Become(p, "stopped", "stopped")
          \/ s = "INT" /\ proc[p] = "running" /\ Become(p, "zombie", "none")
      BY <1>3, <1>4, <2>2 DEF KillJob
    <3>3. CASE UNCHANGED <<proc, event, pending>>
      BY <3>3 DEF TypeInv
    <3>4. CASE s = "TSTP" /\ proc[p] = "running" /\ Become(p, "stopped", "stopped")
      BY <3>1, <3>4, BecomeTypes DEF Procs
    <3>5. CASE s = "INT" /\ proc[p] = "running" /\ Become(p, "zombie", "none")
      BY <3>1, <3>5, BecomeTypes DEF Procs
    <3>6. QED
      BY <3>2, <3>3, <3>4, <3>5
  <2>3. QED
    BY <2>1, <2>2
<1>6. TypeInv'
  BY <1>2, <1>5, SameJobs DEF TypeInv
<1>7. fr \notin Kills' /\ fr.sig = s /\ Kills' \subseteq Kills
  BY <1>1, <1>3
<1>8. QED
  BY <1>1, <1>2, <1>4, <1>5, <1>6, <1>7
-----------------------------------------------------------------------------
(* The steps, grouped as above.                                            *)
Reads == \E s \in {"INT", "TSTP"} : ReadFgPid(s)
Sends == \E s \in {"INT", "TSTP"} : KillSelf(s) \/ KillJob(s) \/ KillFails(s)
Steps == \/ Moves \/ Outside \/ Children \/ Add \/ Cont \/ SetFg
         \/ \E p \in Pids, state \in {"FG", "BG"} : Fork(p, state)
         \/ \E s \in pending : Deliver(s)
         \/ \E p \in Pids : WaitPid(p)
         \/ NothingToWaitFor \/ ApplyExit \/ ApplyStop \/ ApplyContinue \/ Reads \/ Sends

LEMMA StepCases == Next => Steps
BY DEF Next, Main, Command, Handler, World, Child, Steps, Moves, Outside, Children, Reads, Sends

(* Nothing the kernel knows has changed, or one child is in a new state    *)
(* and a signal says so.                                                   *)
LEMMA KernelKept ==
  ASSUME KernelInv, UNCHANGED <<proc, event>>, pending \subseteq pending', SameTold, SameReaping
  PROVE  KernelInv'
<1>1. \A p \in Pids : Status(p)' = Status(p)
  BY DEF Status
<1>2. QED
  BY <1>1 DEF KernelInv, SameTold, SameReaping

NewState(p) == \/ proc'[p] = "stopped" /\ event'[p] = "stopped"
               \/ proc'[p] = "running" /\ event'[p] = "continued"
               \/ proc'[p] = "zombie" /\ event'[p] = "none"

LEMMA KernelChanged ==
  ASSUME KernelInv, SameTold, NEW p \in Pids, proc[p] \notin {"unborn", "gone"}, NewState(p),
         \A q \in Pids : q # p => proc'[q] = proc[q] /\ event'[q] = event[q],
         "CHLD" \in pending'
  PROVE  KernelInv'
<1>1. \A q \in Pids : /\ event'[q] = "stopped" => proc'[q] = "stopped"
                      /\ event'[q] = "continued" => proc'[q] = "running"
  BY DEF NewState, KernelInv
<1>2. ASSUME NEW q \in Pids \union {0}, NEW s \in Statuses, Told(q, s)'
      PROVE  q # 0 /\ s # "none" /\ proc'[q] # "unborn" /\ (s = "exited" <=> proc'[q] = "gone")
  <2>1. q # 0 /\ s # "none" /\ proc[q] # "unborn" /\ (s = "exited" <=> proc[q] = "gone")
    BY <1>2 DEF SameTold, KernelInv
  <2>2. CASE q = p
    BY <2>1, <2>2 DEF NewState
  <2>3. CASE q # p
    BY <2>1, <2>3
  <2>4. QED
    BY <2>2, <2>3
<1>3. QED
  BY <1>1, <1>2 DEF KernelInv

LEMMA KernelStep == TypeInv /\ StackInv /\ KernelInv /\ Next => KernelInv'
<1> SUFFICES ASSUME TypeInv, StackInv, KernelInv, Next PROVE KernelInv'
  OBVIOUS
<1>1. CASE Moves
  BY <1>1, Moved, StackKept, KernelKept
<1>2. CASE Outside
  BY <1>2, OutsideMoved, StackKept, KernelKept
<1>3. CASE Children
  <2>1. stack' = stack
    BY <1>3, ChildMoved
  <2>2. PICK p \in Pids :
          /\ \A q \in Pids : q # p => proc'[q] = proc[q] /\ event'[q] = event[q]
          /\ \/ proc[p] = "young" /\ proc'[p] = "running" /\ event' = event /\ pending' = pending
             \/ /\ proc[p] \in {"running", "stopped"} /\ NewState(p)
                /\ pending' = pending \union {"CHLD"}
    BY <1>3, ChildMoved DEF NewState
  <2>3. CASE proc[p] = "young" /\ proc'[p] = "running" /\ event' = event /\ pending' = pending
    <3>1. \A q \in Pids : Status(q)' = Status(q)
      BY <2>2, <2>3 DEF Status
    <3>2. QED
      BY <2>1, <2>2, <2>3, <3>1, StackKept DEF KernelInv, SameTold, SameReaping
  <2>4. CASE proc[p] \in {"running", "stopped"} /\ NewState(p) /\ pending' = pending \union {"CHLD"}
    BY <2>1, <2>2, <2>4, StackKept, KernelChanged
  <2>5. QED
    BY <2>2, <2>3, <2>4
<1>4. CASE Add
  BY <1>4, Added, StackKept, KernelKept
<1>5. CASE Cont
  <2>1. PICK p : p = jobs[arg].pid
    OBVIOUS
  <2>2. stack' = stack
    BY <1>5, Continued
  <2>3. \/ UNCHANGED <<proc, event, pending>>
        \/ /\ p \in Pids /\ proc[p] = "stopped" /\ proc'[p] = "running" /\ event'[p] = "continued"
           /\ pending' = pending \union {"CHLD"}
           /\ \A q \in Pids : q # p => proc'[q] = proc[q] /\ event'[q] = event[q]
    BY <1>5, <2>1, Continued
  <2>4. QED
    BY <2>2, <2>3, StackKept, KernelKept, KernelChanged DEF NewState
<1>6. CASE SetFg
  BY <1>6, Foregrounded, StackKept, KernelKept
<1>7. ASSUME NEW p \in Pids, NEW state \in {"FG", "BG"}, Fork(p, state) PROVE KernelInv'
  <2>1. /\ UNCHANGED <<stack, pending, event>> /\ proc[p] = "unborn" /\ proc'[p] = "young"
        /\ \A q \in Pids : q # p => proc'[q] = proc[q]
    BY <1>7, Forked
  <2>2. \A q \in Pids : Status(q)' = Status(q)
    BY <2>1 DEF Status
  <2>3. QED
    BY <2>1, <2>2, StackKept DEF KernelInv, SameTold, SameReaping
<1>8. ASSUME NEW s \in pending, Deliver(s) PROVE KernelInv'
  <2>1. /\ UNCHANGED <<proc, event>> /\ pending' = pending \ {s} /\ SameTold
        /\ Reaping' <=> Reaping \/ s = "CHLD"
    BY <1>8, DeliverMoved
  <2>2. \A q \in Pids : Status(q)' = Status(q)
    BY <2>1 DEF Status
  <2>3. QED
    BY <2>1, <2>2 DEF KernelInv, SameTold
<1>9. ASSUME NEW p \in Pids, WaitPid(p) PROVE KernelInv'
  <2>1. /\ Reaping' /\ Status(p) \in {"exited", "stopped", "continued"}
        /\ \A q, s : Told(q, s)' <=> q = p /\ s = Status(p)
        /\ event'[p] = "none" /\ proc'[p] = IF proc[p] = "zombie" THEN "gone" ELSE proc[p]
        /\ \A q \in Pids : q # p => proc'[q] = proc[q] /\ event'[q] = event[q]
    BY <1>9, Collected
  <2>2. \A q \in Pids : /\ event'[q] = "stopped" => proc'[q] = "stopped"
                        /\ event'[q] = "continued" => proc'[q] = "running"
    BY <2>1 DEF KernelInv
  <2>3. /\ proc[p] \in {"zombie", "stopped", "running"}
        /\ Status(p) = "exited" <=> proc[p] = "zombie"
    BY <2>1 DEF Status, KernelInv, TypeInv
  <2>4. p # 0
    BY Indices
  <2>5. QED
    BY <2>1, <2>2, <2>3, <2>4 DEF KernelInv
<1>10. CASE NothingToWaitFor
  <2>1. UNCHANGED <<proc, event>> /\ SameTold /\ \A p \in Pids : Status(p) = "none"
    BY <1>10, NoneLeft
  <2>2. \A q \in Pids : Status(q)' = Status(q)
    BY <2>1 DEF Status
  <2>3. QED
    BY <2>1, <2>2 DEF KernelInv, SameTold
<1>11. CASE ApplyExit \/ ApplyStop \/ ApplyContinue
  <2>1. UNCHANGED <<proc, event>> /\ Reaping' /\ Untold'
    BY <1>11, ExitApplied, StopApplied, ContinueApplied
  <2>2. QED
    BY <2>1 DEF KernelInv, Untold
<1>12. CASE Reads
  BY <1>12, FgRead, KernelKept DEF Reads
<1>13. CASE Sends
  <2>1. PICK s \in {"INT", "TSTP"} : KillSelf(s) \/ KillJob(s) \/ KillFails(s)
    BY <1>13 DEF Sends
  <2>2. /\ SameTold /\ SameReaping
        /\ \/ UNCHANGED <<proc, event>> /\ pending \subseteq pending'
           \/ \E p \in Pids :
                /\ proc[p] = "running" /\ NewState(p) /\ pending' = pending \union {"CHLD"}
                /\ \A q \in Pids : q # p => proc'[q] = proc[q] /\ event'[q] = event[q]
    BY <2>1, SignalSent DEF NewState
  <2>3. QED
    BY <2>2, KernelKept, KernelChanged
<1>14. QED
  BY <1>1, <1>2, <1>3, <1>4, <1>5, <1>6, <1>7, <1>8, <1>9, <1>10, <1>11, <1>12, <1>13, StepCases
     DEF Steps
-----------------------------------------------------------------------------
(* The list of the children.                                               *)
LEMMA HandlerRuns ==
  ASSUME StackInv, \/ Reaping
                   \/ \E p, s : Told(p, s)
                   \/ Kills # {}
  PROVE  stack # <<>> /\ pc \notin {"FG", "BG"}
<1>1. Frames # {}
  BY DEF Reaping, Told, Kills
<1>2. stack = <<>> => DOMAIN stack = {}
  OBVIOUS
<1>3. QED
  BY <1>1, <1>2 DEF Frames, StackInv

SamePids == \A i \in Slots : jobs'[i].pid = jobs[i].pid
SamePresent == \A p \in Pids : Present(p)' <=> Present(p)

LEMMA ListKept ==
  ASSUME TypeInv, ListInv, SamePids, SamePresent, shell' # "segv" \/ shell' = shell,
         pc' \in {"FG", "BG"} => proc'[arg'] \notin {"unborn", "gone"}
  PROVE  ListInv'
<1>1. \A i \in Slots : jobs[i].pid # 0 => jobs[i].pid \in Pids
  BY DEF TypeInv, JobsInv
<1>2. \A i, j \in Slots : jobs'[i].pid # 0 /\ jobs'[i].pid = jobs'[j].pid => i = j
  BY DEF SamePids, ListInv
<1>3. ASSUME NEW i \in Slots, jobs'[i].pid # 0 PROVE Present(jobs[i].pid)'
  BY <1>1, <1>3 DEF SamePids, SamePresent, ListInv, Present, Entering
<1>4. MaxJobs >= MaxPids => /\ \A p \in Pids : Present(p)' => \E i \in Slots : jobs'[i].pid = p
                            /\ shell' # "segv"
  BY DEF SamePids, SamePresent, ListInv
<1>5. QED
  BY <1>2, <1>3, <1>4 DEF ListInv

(* A list without a free slot, and MaxJobs >= MaxPids, lists every child.  *)
LEMMA FullList ==
  ASSUME JobsInv, Free = {}, MaxJobs >= MaxPids,
         \A i, j \in Slots : jobs[i].pid # 0 /\ jobs[i].pid = jobs[j].pid => i = j,
         NEW p \in Pids
  PROVE  \E i \in Slots : jobs[i].pid = p
<1> SUFFICES ASSUME \A i \in Slots : jobs[i].pid # p PROVE FALSE
  OBVIOUS
<1> DEFINE f == [i \in Slots |-> jobs[i].pid]
           Others == Pids \ {p}
<1>1. \A i \in Slots : jobs[i].pid \in Others
  BY DEF Free, JobsInv
<1>2. IsFiniteSet(Slots) /\ Cardinality(Slots) = MaxJobs
  <2>1. IsFiniteSet(Slots) /\ Cardinality(Slots) = IF 1 > MaxJobs THEN 0 ELSE MaxJobs - 1 + 1
    BY TshAssumption, FS_Interval DEF Slots
  <2>2. QED
    BY <2>1, TshAssumption
<1>3. IsFiniteSet(Pids) /\ Cardinality(Pids) = MaxPids
  <2>1. 1 \in Int /\ MaxPids \in Int
    BY TshAssumption
  <2>2. IsFiniteSet(Pids) /\ Cardinality(Pids) = IF 1 > MaxPids THEN 0 ELSE MaxPids - 1 + 1
    BY <2>1, FS_Interval DEF Pids
  <2>3. QED
    BY <2>2, TshAssumption
<1>4. IsFiniteSet(Others) /\ Cardinality(Others) = MaxPids - 1
  <2>1. IsFiniteSet(Others) /\ Cardinality(Others) = IF p \in Pids THEN Cardinality(Pids) - 1
                                                     ELSE Cardinality(Pids)
    BY <1>3, FS_RemoveElement
  <2>2. QED
    BY <1>3, <2>1
<1>5. f \in [Slots -> Others]
  BY <1>1
<1>6. Cardinality(Others) < Cardinality(Slots)
  BY <1>2, <1>4, TshAssumption
<1>7. \E i, j \in Slots : i # j /\ f[i] = f[j]
  <2> HIDE DEF f, Others
  <2>1. QED
    BY <1>2, <1>4, <1>5, <1>6, FS_PigeonHole
<1>8. PICK i, j \in Slots : i # j /\ jobs[i].pid = jobs[j].pid
  BY <1>7
<1>9. jobs[i].pid # 0
  BY <1>1, Indices
<1>10. QED
  BY <1>8, <1>9

(* The rest of ListInv, once its second part holds of a pid p, not of an   *)
(* expression that changes.                                                *)
LEMMA ListNow ==
  ASSUME TypeInv',
         \A i, j \in Slots : jobs'[i].pid # 0 /\ jobs'[i].pid = jobs'[j].pid => i = j,
         \A i \in Slots : \A p \in Pids : jobs'[i].pid = p => Present(p)',
         pc' \in {"FG", "BG"} => proc'[arg'] \notin {"unborn", "gone"},
         MaxJobs >= MaxPids => /\ \A p \in Pids : Present(p)' => \E i \in Slots : jobs'[i].pid = p
                               /\ shell' # "segv"
  PROVE  ListInv'
<1>1. ASSUME NEW i \in Slots, jobs'[i].pid # 0 PROVE Present(jobs[i].pid)'
  <2>1. PICK p \in Pids : p = jobs'[i].pid
    BY <1>1 DEF TypeInv, JobsInv
  <2>2. Present(p)'
    BY <2>1
  <2>3. QED
    BY <2>1, <2>2 DEF Present, Entering
<1>2. QED
  BY <1>1 DEF ListInv

LEMMA ListAdd == TypeInv /\ StackInv /\ ListInv /\ Add => ListInv'
<1> SUFFICES ASSUME TypeInv, StackInv, ListInv, Add PROVE ListInv'
  OBVIOUS
<1>1. /\ UNCHANGED <<stack, proc, shell>> /\ pc \in {"FG", "BG"} /\ arg \in Pids
      /\ pc' \in {"waitfg", "prompt"} /\ arg # 0 /\ TypeInv'
      /\ \/ Free = {} /\ jobs' = jobs
         \/ \E k \in Slots : jobs[k].pid = 0 /\ SlotSet(k, arg, pc)
  BY Added, Indices
<1>2. PICK a \in Pids : a = arg /\ a # 0
  BY <1>1
<1>3. proc[a] \notin {"unborn", "gone"} /\ ~Present(a)
  BY <1>1, <1>2 DEF ListInv, Present, Entering
<1>4. \A i \in Slots : jobs[i].pid # a
  BY <1>2, <1>3 DEF ListInv
<1>5. \A p \in Pids : Present(p)' <=> Present(p) \/ p = a
  BY <1>1, <1>2, <1>3, StackKept DEF Present, Entering, SameTold
<1>6. \A i \in Slots : \A p \in Pids : jobs[i].pid = p => Present(p)
  BY Indices DEF ListInv
<1>7. CASE Free = {} /\ jobs' = jobs
  <2>1. ~(MaxJobs >= MaxPids)
    BY <1>4, <1>7, FullList DEF TypeInv, ListInv
  <2>2. QED
    BY <1>1, <1>5, <1>6, <1>7, <2>1, ListNow DEF ListInv
<1>8. ASSUME NEW k \in Slots, jobs[k].pid = 0, SlotSet(k, a, pc) PROVE ListInv'
  <2>1. jobs'[k].pid = a /\ \A i \in Slots : i # k => jobs'[i].pid = jobs[i].pid
    BY <1>8 DEF SlotSet
  <2>2. \A i, j \in Slots : jobs'[i].pid # 0 /\ jobs'[i].pid = jobs'[j].pid => i = j
    BY <1>4, <2>1 DEF ListInv
  <2>3. \A i \in Slots : \A p \in Pids : jobs'[i].pid = p => Present(p)'
    BY <1>5, <1>6, <2>1
  <2>4. MaxJobs >= MaxPids => /\ \A p \in Pids : Present(p)' => \E i \in Slots : jobs'[i].pid = p
                              /\ shell' # "segv"
    <3>1. SUFFICES ASSUME MaxJobs >= MaxPids, NEW p \in Pids, Present(p)'
                   PROVE  \E i \in Slots : jobs'[i].pid = p
      BY <1>1 DEF ListInv
    <3>2. CASE p = a
      BY <2>1, <3>2
    <3>3. CASE p # a
      <4>1. PICK i \in Slots : jobs[i].pid = p
        BY <1>5, <3>1, <3>3 DEF ListInv
      <4>2. i # k
        BY <1>8, <4>1, Indices
      <4>3. QED
        BY <2>1, <4>1, <4>2
    <3>4. QED
      BY <3>2, <3>3
  <2>5. QED
    BY <1>1, <2>2, <2>3, <2>4, ListNow
<1>9. QED
  BY <1>1, <1>2, <1>7, <1>8

LEMMA ListExit == TypeInv /\ StackInv /\ KernelInv /\ ListInv /\ ApplyExit => ListInv'
<1> SUFFICES ASSUME TypeInv, StackInv, KernelInv, ListInv, ApplyExit PROVE ListInv'
  OBVIOUS
<1>1. UNCHANGED <<pc, arg, proc, shell>> /\ TypeInv' /\ Untold' /\ Reaping
  BY ExitApplied
<1>2. PICK p \in Pids \union {0} :
        /\ ToldOnly(p, "exited")
        /\ IF p # 0 /\ \E i \in Slots : jobs[i].pid = p
           THEN \E k \in Slots : jobs[k].pid = p /\ SlotSet(k, 0, "UNDEF")
           ELSE jobs' = jobs
  BY ExitApplied
<1>3. Told(p, "exited")
  BY <1>2 DEF ToldOnly
<1>4. p \in Pids /\ p # 0 /\ proc[p] = "gone"
  BY <1>3 DEF KernelInv, Statuses
<1>5. pc \notin {"FG", "BG"}
  BY <1>1, HandlerRuns
<1>6. \A q \in Pids : Present(q)' <=> Present(q) /\ q # p
  BY <1>1, <1>2, <1>3, <1>4, <1>5 DEF Present, Entering, ToldOnly, Untold
<1>7. \A i \in Slots : \A q \in Pids : jobs[i].pid = q => Present(q)
  BY Indices DEF ListInv
<1>8. CASE \E i \in Slots : jobs[i].pid = p
  <2>1. PICK k \in Slots : jobs[k].pid = p /\ SlotSet(k, 0, "UNDEF")
    BY <1>2, <1>4, <1>8
  <2>2. jobs'[k].pid = 0 /\ \A i \in Slots : i # k => jobs'[i].pid = jobs[i].pid /\ jobs[i].pid # p
    BY <1>4, <2>1 DEF SlotSet, ListInv
  <2>3. \A i, j \in Slots : jobs'[i].pid # 0 /\ jobs'[i].pid = jobs'[j].pid => i = j
    BY <2>2 DEF ListInv
  <2>4. \A i \in Slots : \A q \in Pids : jobs'[i].pid = q => Present(q)'
    BY <1>6, <1>7, <2>2, Indices
  <2>5. MaxJobs >= MaxPids => /\ \A q \in Pids : Present(q)' => \E i \in Slots : jobs'[i].pid = q
                              /\ shell' # "segv"
    <3>1. SUFFICES ASSUME MaxJobs >= MaxPids, NEW q \in Pids, Present(q)'
                   PROVE  \E i \in Slots : jobs'[i].pid = q
      BY <1>1 DEF ListInv
    <3>2. PICK i \in Slots : jobs[i].pid = q
      BY <1>6, <3>1 DEF ListInv
    <3>3. i # k
      BY <1>6, <2>1, <3>1, <3>2
    <3>4. QED
      BY <2>2, <3>2, <3>3
  <2>6. QED
    BY <1>1, <1>5, <2>3, <2>4, <2>5, ListNow
<1>9. CASE ~\E i \in Slots : jobs[i].pid = p
  <2>1. jobs' = jobs
    BY <1>2, <1>9
  <2>2. \A i \in Slots : \A q \in Pids : jobs'[i].pid = q => Present(q)'
    BY <1>6, <1>7, <1>9, <2>1
  <2>3. QED
    BY <1>1, <1>5, <1>6, <2>1, <2>2, ListNow DEF ListInv
<1>10. QED
  BY <1>8, <1>9

LEMMA ListStep ==
  ASSUME TypeInv, StackInv, KernelInv, ListInv, Next
  PROVE  ListInv'
<1>1. CASE Moves
  <2>1. /\ UNCHANGED <<jobs, stack, proc>> /\ shell' \in {shell, "exited"}
        /\ pc' \notin {"FG", "BG"} /\ pc \notin {"FG", "BG"}
    BY <1>1, Moved
  <2>2. SamePids /\ SamePresent
    BY <2>1, StackKept DEF SamePids, SamePresent, Present, Entering, SameTold
  <2>3. QED
    BY <2>1, <2>2, ListKept
<1>2. CASE Outside
  <2>1. UNCHANGED <<jobs, pc, arg, stack, proc>> /\ (shell' = shell \/ shell' = "up")
    BY <1>2, OutsideMoved
  <2>2. SamePids /\ SamePresent
    BY <2>1, StackKept DEF SamePids, SamePresent, Present, Entering, SameTold
  <2>3. QED
    BY <2>1, <2>2, ListKept DEF ListInv
<1>3. CASE Children
  <2>1. UNCHANGED <<jobs, pc, arg, stack, shell>>
    BY <1>3, ChildMoved
  <2>2. PICK p \in Pids :
          /\ proc[p] \notin {"unborn", "gone"} /\ proc'[p] \notin {"unborn", "gone"}
          /\ \A q \in Pids : q # p => proc'[q] = proc[q]
    BY <1>3, ChildMoved
  <2>3. SamePids /\ SamePresent
    BY <2>1, <2>2, StackKept DEF SamePids, SamePresent, Present, Entering, SameTold
  <2>4. pc' \in {"FG", "BG"} => proc'[arg'] \notin {"unborn", "gone"}
    BY <2>1, <2>2 DEF ListInv, TypeInv
  <2>5. QED
    BY <2>1, <2>3, <2>4, ListKept
<1>4. CASE Add
  BY <1>4, ListAdd
<1>5. CASE Cont
  <2>1. UNCHANGED <<jobs, arg, stack, shell>> /\ pc = "cont" /\ pc' = "set"
    BY <1>5, Continued
  <2>2. PICK p : p = jobs[arg].pid
    OBVIOUS
  <2>3. \/ UNCHANGED proc
        \/ /\ p \in Pids /\ proc[p] = "stopped" /\ proc'[p] = "running"
           /\ \A q \in Pids : q # p => proc'[q] = proc[q]
    BY <1>5, <2>2, Continued
  <2>4. SamePids /\ SamePresent
    BY <2>1, <2>3, StackKept DEF SamePids, SamePresent, Present, Entering, SameTold
  <2>5. QED
    BY <2>1, <2>4, ListKept
<1>6. CASE SetFg
  <2>1. /\ UNCHANGED <<stack, proc, shell>> /\ pc = "set" /\ pc' \in {"enter", "prompt"} /\ arg \in Slots
        /\ jobs' = jobs \/ SlotSet(arg, jobs[arg].pid, "FG")
    BY <1>6, Foregrounded
  <2>2. SamePids /\ SamePresent
    BY <2>1, StackKept DEF SamePids, SlotSet, SamePresent, Present, Entering, SameTold
  <2>3. QED
    BY <2>1, <2>2, ListKept
<1>7. ASSUME NEW p \in Pids, NEW state \in {"FG", "BG"}, Fork(p, state) PROVE ListInv'
  <2>1. /\ UNCHANGED <<jobs, stack, shell>> /\ pc = "prompt" /\ pc' = state /\ arg' = p
        /\ proc[p] = "unborn" /\ proc'[p] = "young" /\ \A q \in Pids : q # p => proc'[q] = proc[q]
    BY <1>7, Forked
  <2>2. SamePids /\ SamePresent
    BY <2>1, StackKept DEF SamePids, SamePresent, Present, Entering, SameTold
  <2>3. QED
    BY <2>1, <2>2, ListKept
<1>8. ASSUME NEW s \in pending, Deliver(s) PROVE ListInv'
  <2>1. UNCHANGED <<jobs, pc, arg, proc, shell>> /\ SameTold
    BY <1>8, DeliverMoved
  <2>2. SamePids /\ SamePresent
    BY <2>1 DEF SamePids, SamePresent, Present, Entering, SameTold
  <2>3. QED
    BY <2>1, <2>2, ListKept DEF ListInv
<1>9. ASSUME NEW p \in Pids, WaitPid(p) PROVE ListInv'
  <2>1. /\ UNCHANGED <<jobs, pc, arg, shell>> /\ Untold /\ Reaping
        /\ Status(p) \in {"exited", "stopped", "continued"}
        /\ \A q, s : Told(q, s)' <=> q = p /\ s = Status(p)
        /\ proc'[p] = IF proc[p] = "zombie" THEN "gone" ELSE proc[p]
        /\ \A q \in Pids : q # p => proc'[q] = proc[q]
    BY <1>9, Collected
  <2>2. pc \notin {"FG", "BG"}
    BY <2>1, HandlerRuns
  <2>3. /\ proc[p] = "zombie" => Status(p) = "exited"
        /\ proc[p] # "gone"
    BY <2>1 DEF Status, KernelInv, TypeInv
  <2>4. SamePids /\ SamePresent
    BY <2>1, <2>2, <2>3 DEF SamePids, SamePresent, Present, Entering, Untold
  <2>5. QED
    BY <2>1, <2>2, <2>4, ListKept
<1>10. CASE NothingToWaitFor
  <2>1. UNCHANGED <<jobs, pc, arg, proc, shell>> /\ SameTold
    BY <1>10, NoneLeft
  <2>2. SamePids /\ SamePresent
    BY <2>1 DEF SamePids, SamePresent, Present, Entering, SameTold
  <2>3. QED
    BY <2>1, <2>2, ListKept DEF ListInv
<1>11. CASE ApplyExit
  BY <1>11, ListExit
<1>12. CASE ApplyStop \/ ApplyContinue
  <2>1. PICK p \in Pids \union {0}, s \in {"stopped", "continued"} :
          /\ ToldOnly(p, s)
          /\ \/ shell' = shell /\ SamePids
             \/ p = 0 /\ SamePids
             \/ ~(\E i \in Slots : jobs[i].pid = p) /\ SamePids
    <3>1. CASE ApplyStop
      BY <1>12, <3>1, StopApplied DEF SamePids, SlotSet
    <3>2. CASE ApplyContinue
      BY <1>12, <3>2, ContinueApplied DEF SamePids, SlotSet
    <3>3. QED
      BY <1>12, <3>1, <3>2
  <2>2. UNCHANGED <<pc, arg, proc>> /\ Untold' /\ Reaping /\ TypeInv'
    BY <1>12, StopApplied, ContinueApplied
  <2>3. Told(p, s)
    BY <2>1 DEF ToldOnly
  <2>4. p # 0 /\ proc[p] \notin {"unborn", "gone"}
    BY <2>3 DEF KernelInv, Statuses
  <2>5. pc \notin {"FG", "BG"}
    BY <2>2, HandlerRuns
  <2>6. SamePids /\ SamePresent
    BY <2>1, <2>2, <2>4 DEF SamePresent, Present, Entering, Untold, ToldOnly
  <2>7. Present(p)
    BY <2>4, <2>5 DEF Present, Entering
  <2>8. MaxJobs >= MaxPids => shell' # "segv" /\ \A q \in Pids : Present(q)' => \E i \in Slots : jobs'[i].pid = q
    BY <2>1, <2>4, <2>6, <2>7 DEF ListInv, SamePids, SamePresent
  <2>9. /\ \A i, j \in Slots : jobs'[i].pid # 0 /\ jobs'[i].pid = jobs'[j].pid => i = j
        /\ \A i \in Slots : \A q \in Pids : jobs'[i].pid = q => Present(q)'
    BY <2>6, Indices DEF SamePids, SamePresent, ListInv
  <2>10. QED
    BY <2>2, <2>5, <2>8, <2>9, ListNow
<1>13. CASE Reads
  <2>1. UNCHANGED <<jobs, pc, arg, proc, shell>> /\ SameTold
    BY <1>13, FgRead DEF Reads
  <2>2. SamePids /\ SamePresent
    BY <2>1 DEF SamePids, SamePresent, Present, Entering, SameTold
  <2>3. QED
    BY <2>1, <2>2, ListKept DEF ListInv
<1>14. CASE Sends
  <2>1. PICK s \in {"INT", "TSTP"} : KillSelf(s) \/ KillJob(s) \/ KillFails(s)
    BY <1>14 DEF Sends
  <2>2. /\ UNCHANGED <<jobs, pc, arg>> /\ SameTold /\ shell' \in {shell, "stopped", "killFailed"}
        /\ \/ UNCHANGED proc
           \/ \E p \in Pids :
                /\ proc[p] = "running" /\ proc'[p] \in {"stopped", "zombie"}
                /\ \A q \in Pids : q # p => proc'[q] = proc[q]
    BY <2>1, SignalSent
  <2>3. SamePids /\ SamePresent
    BY <2>2 DEF SamePids, SamePresent, Present, Entering, SameTold
  <2>4. pc' \in {"FG", "BG"} => proc'[arg'] \notin {"unborn", "gone"}
    BY <2>2 DEF ListInv, TypeInv
  <2>5. QED
    BY <2>2, <2>3, <2>4, ListKept
<1>15. QED
  BY <1>1, <1>2, <1>3, <1>4, <1>5, <1>6, <1>7, <1>8, <1>9, <1>10, <1>11, <1>12, <1>13, <1>14, StepCases
     DEF Steps
-----------------------------------------------------------------------------
(* The foreground job.                                                     *)
Foreground(i) == jobs[i].pid # 0 /\ jobs[i].state = "FG"

LEMMA ForegroundKept ==
  ASSUME OneForeground, UNCHANGED <<pc, arg>>,
         \A i \in Slots : \/ jobs'[i] = jobs[i] \/ jobs'[i].pid = 0 \/ jobs'[i].state # "FG"
  PROVE  OneForeground'
BY DEF OneForeground, ForegroundSlots

LEMMA NoForeground ==
  ASSUME OneForeground, pc \notin {"waitfg", "enter"}
  PROVE  \A i \in Slots : ~Foreground(i)
BY DEF OneForeground, ForegroundSlots, Foreground

LEMMA ForegroundMoves == TypeInv /\ OneForeground /\ Moves => OneForeground'
<1> SUFFICES ASSUME TypeInv, OneForeground, Moves PROVE OneForeground'
  OBVIOUS
<1> USE DEF MainAt, Go
<1>1. CASE WaitFg
  <2>1. /\ jobs' = jobs /\ pc = "waitfg"
        /\ ~ \E i \in ForegroundSlots : arg > 0 /\ jobs[i].pid = arg
    BY <1>1 DEF WaitFg
  <2>2. arg \in Pids \union {0} /\ (arg # 0 => arg > 0)
    BY <2>1, TshAssumption DEF TypeInv, Pids
  <2>3. \A i \in Slots : ~Foreground(i)
    BY <2>1, <2>2 DEF OneForeground, ForegroundSlots, Foreground
  <2>4. QED
    BY <2>1, <2>3 DEF OneForeground, ForegroundSlots, Foreground
<1>2. CASE Test
  BY <1>2, NoForeground DEF Test, OneForeground, ForegroundSlots, Foreground
<1>3. CASE EnterWait
  BY <1>3 DEF EnterWait, OneForeground, ForegroundSlots
<1>4. CASE \E name \in {"fg", "bg"}, i \in Slots : FgBg(name, i)
  BY <1>4, NoForeground DEF FgBg, OneForeground, ForegroundSlots, Foreground
<1>5. CASE Quit
  BY <1>5, ForegroundKept DEF Quit
<1>6. QED
  BY <1>1, <1>2, <1>3, <1>4, <1>5 DEF Moves

LEMMA ForegroundStep ==
  ASSUME TypeInv, StackInv, OneForeground, Next
  PROVE  OneForeground'
<1>1. CASE Moves
  BY <1>1, ForegroundMoves
<1>2. CASE \/ Outside \/ Children \/ NothingToWaitFor \/ Reads \/ Sends
           \/ (\E s \in pending : Deliver(s)) \/ (\E p \in Pids : WaitPid(p))
  <2>1. UNCHANGED <<jobs, pc, arg>>
    BY <1>2, OutsideMoved, ChildMoved, NoneLeft, FgRead, SignalSent, DeliverMoved, Collected
       DEF Reads, Sends
  <2>2. QED
    BY <2>1, ForegroundKept
<1>3. CASE Add
  <2>1. PICK a \in Pids : a = arg
    BY <1>3, Added
  <2>2. /\ pc \in {"FG", "BG"}
        /\ \/ pc = "FG" /\ pc' = "waitfg" /\ arg' = a
           \/ pc = "BG" /\ pc' = "prompt"
        /\ \/ jobs' = jobs
           \/ \E k \in Slots : SlotSet(k, a, pc)
    BY <1>3, <2>1, Added
  <2>3. \A i \in Slots : ~Foreground(i)
    BY <2>2, NoForeground
  <2>4. \A i \in Slots : jobs'[i].pid # 0 /\ jobs'[i].state = "FG" => pc = "FG" /\ jobs'[i].pid = a
    BY <2>2, <2>3 DEF SlotSet, Foreground
  <2>5. QED
    BY <2>2, <2>4 DEF OneForeground, ForegroundSlots
<1>4. CASE Cont
  <2>1. jobs' = jobs /\ pc = "cont"
    BY <1>4, Continued
  <2>2. QED
    BY <2>1, NoForeground DEF OneForeground, ForegroundSlots, Foreground
<1>5. CASE SetFg
  <2>1. PICK a \in Slots : a = arg
    BY <1>5, Foregrounded
  <2>2. /\ pc = "set"
        /\ \/ pc' = "enter" /\ arg' = a /\ SlotSet(a, jobs[a].pid, "FG")
           \/ pc' = "prompt" /\ jobs' = jobs
    BY <1>5, <2>1, Foregrounded
  <2>3. \A i \in Slots : ~Foreground(i)
    BY <2>2, NoForeground
  <2>4. \A i \in Slots : jobs'[i].pid # 0 /\ jobs'[i].state = "FG" => pc' = "enter" /\ arg' = i
    BY <2>2, <2>3 DEF SlotSet, Foreground
  <2>5. QED
    BY <2>4 DEF OneForeground, ForegroundSlots
<1>6. ASSUME NEW p \in Pids, NEW state \in {"FG", "BG"}, Fork(p, state) PROVE OneForeground'
  <2>1. jobs' = jobs /\ pc = "prompt"
    BY <1>6, Forked
  <2>2. QED
    BY <2>1, NoForeground DEF OneForeground, ForegroundSlots, Foreground
<1>7. CASE ApplyExit \/ ApplyStop \/ ApplyContinue
  <2>1. UNCHANGED <<pc, arg>>
    BY <1>7, ExitApplied, StopApplied, ContinueApplied
  <2>2. \/ jobs' = jobs
        \/ \E k \in Slots, p \in Pids \union {0} : SlotSet(k, 0, "UNDEF") \/ SlotSet(k, p, "ST") \/ SlotSet(k, p, "BG")
    BY <1>7, ExitApplied, StopApplied, ContinueApplied
  <2>3. QED
    BY <2>1, <2>2, ForegroundKept DEF SlotSet
<1>8. QED
  BY <1>1, <1>2, <1>3, <1>4, <1>5, <1>6, <1>7, StepCases DEF Steps
-----------------------------------------------------------------------------
(* The states, when only the shell signals the children.                   *)
StatesInv == StopInv /\ AgreeInv

LEMMA Idle ==
  ASSUME stack = <<>>
  PROVE  Kills = {} /\ Untold
<1>1. DOMAIN stack = {}
  OBVIOUS
<1>2. QED
  BY <1>1 DEF Frames, Kills, Untold, Told

LEMMA StatesKept ==
  ASSUME StatesInv, UNCHANGED <<jobs, pc, arg, proc, event>>, SameTold, Kills' \subseteq Kills
  PROVE  StatesInv'
<1>1. /\ \A p : InForeground(p)' <=> InForeground(p)
      /\ \A p : Entering(p)' <=> Entering(p)
      /\ Waiting' <=> Waiting
      /\ \A p \in Pids : Status(p)' = Status(p)
  BY DEF InForeground, Entering, Waiting, Status
<1>2. StopInv'
  BY <1>1 DEF StatesInv, StopInv, SameTold
<1>3. AgreeInv'
  BY <1>1 DEF StatesInv, AgreeInv, Agree, SameTold
<1>4. QED
  BY <1>2, <1>3 DEF StatesInv

(* A step of main: no handler runs.                                        *)
LEMMA StatesOfMain ==
  ASSUME StackInv, UNCHANGED stack, stack = <<>>,
         \A p \in Pids : event'[p] = "stopped" => Waiting' /\ InForeground(p)',
         \A p \in Pids : Entering(p)' \/ (pc' = "set" /\ jobs'[arg'].pid = p) => proc'[p] # "stopped",
         \A i \in Slots : \A p \in Pids : jobs'[i].pid = p => Agree(i, p)'
  PROVE  StatesInv'
<1>1. Kills' = {} /\ Untold'
  BY Idle, StackKept DEF SameKills, SameTold, Untold
<1>2. StopInv'
  BY <1>1 DEF StopInv, Untold
<1>3. QED
  BY <1>2 DEF StatesInv, AgreeInv

LEMMA NoStopPending ==
  ASSUME StatesInv, ~Waiting
  PROVE  /\ \A p \in Pids : event[p] # "stopped"
         /\ \A fr \in Kills : fr.pid = 0
BY DEF StatesInv, StopInv

LEMMA StatesMoves == BookInv /\ StatesInv /\ Moves => StatesInv'
<1> SUFFICES ASSUME BookInv, StatesInv, Moves PROVE StatesInv'
  OBVIOUS
<1>1. /\ UNCHANGED <<jobs, stack, pending, proc, event>> /\ TypeInv /\ StackInv
      /\ pc' \notin {"FG", "BG"} /\ stack = <<>>
  BY Moved DEF BookInv
<1>2. Untold /\ Untold' /\ Kills = {}
  BY <1>1, Idle, StackKept DEF Untold, SameTold
<1>3. ASSUME NEW i \in Slots, NEW p \in Pids, jobs'[i].pid = p PROVE Agree(i, p)'
  <2>1. Agree(i, p) /\ Status(p)' = Status(p)
    BY <1>1, <1>3 DEF StatesInv, AgreeInv, Status
  <2>2. QED
    BY <1>1, <1>2, <2>1 DEF Agree, Untold
<1>4. ASSUME NEW p \in Pids, event'[p] = "stopped" PROVE Waiting' /\ InForeground(p)'
  <2>1. Waiting /\ InForeground(p) /\ InForeground(p)'
    BY <1>1, <1>4 DEF StatesInv, StopInv, InForeground
  <2>2. PICK i \in Slots : jobs[i].pid = p /\ jobs[i].state = "FG" /\ p # 0 /\ p > 0
    BY <2>1, Indices DEF InForeground, Pids
  <2>3. i \in ForegroundSlots
    BY <2>2 DEF ForegroundSlots
  <2>4. ~WaitFg
    <3> SUFFICES ASSUME WaitFg PROVE FALSE
      OBVIOUS
    <3>1. arg = p
      BY <2>2, <2>3 DEF WaitFg, MainAt, BookInv, OneForeground
    <3>2. QED
      BY <2>2, <2>3, <3>1 DEF WaitFg
  <2>5. Waiting'
    BY <2>1, <2>4 DEF Moves, Test, EnterWait, FgBg, Quit, MainAt, Go, Waiting
  <2>6. QED
    BY <2>1, <2>5
<1>5. ASSUME NEW p \in Pids, Entering(p)' \/ (pc' = "set" /\ jobs'[arg'].pid = p)
      PROVE  proc'[p] # "stopped"
  <2>1. pc' = "set" /\ jobs'[arg'].pid = p
    BY <1>1, <1>5 DEF Entering
  <2>2. CASE Test
    <3>1. PICK i \in Slots : i = arg
      BY <1>1, <2>2 DEF Test, MainAt, TypeInv
    <3>2. jobs[i].pid = p /\ jobs[i].state # "ST" /\ ~Waiting
      BY <1>1, <2>1, <2>2, <3>1 DEF Test, MainAt, Go, Waiting
    <3>3. Agree(i, p) /\ event[p] # "stopped"
      BY <3>2, NoStopPending DEF StatesInv, AgreeInv
    <3>4. QED
      BY <1>1, <1>2, <3>2, <3>3 DEF Agree, Untold
  <2>3. CASE Quit
    <3>1. pc = "set" /\ jobs[arg].pid = p
      BY <1>1, <2>1, <2>3 DEF Quit
    <3>2. QED
      BY <1>1, <3>1 DEF StatesInv, StopInv
  <2>4. QED
    BY <2>1, <2>2, <2>3 DEF Moves, WaitFg, EnterWait, FgBg, Go
<1>6. QED
  BY <1>1, <1>3, <1>4, <1>5, StatesOfMain

LEMMA StatesAdd == BookInv /\ StatesInv /\ Add => StatesInv'
<1> SUFFICES ASSUME BookInv, StatesInv, Add PROVE StatesInv'
  OBVIOUS
<1>1. PICK a \in Pids : a = arg
  BY Added DEF BookInv
<1>2. /\ UNCHANGED <<stack, proc, event>> /\ pc \in {"FG", "BG"} /\ stack = <<>>
      /\ pc' \in {"waitfg", "prompt"}
      /\ \/ jobs' = jobs
         \/ \E k \in Slots : SlotSet(k, a, pc)
  BY <1>1, Added DEF BookInv
<1>3. proc[a] # "stopped" /\ ~Waiting /\ (\A p \in Pids : event[p] # "stopped") /\ Untold
  BY <1>1, <1>2, NoStopPending, Idle DEF StatesInv, StopInv, Entering, Waiting
<1>4. ASSUME NEW i \in Slots, NEW p \in Pids, jobs'[i].pid = p PROVE Agree(i, p)'
  <2>1. Status(p)' = Status(p) /\ Untold'
    BY <1>2, <1>3, StackKept DEF Status, SameTold, Untold
  <2>2. CASE jobs'[i] = jobs[i]
    <3>1. Agree(i, p)
      BY <1>4, <2>2 DEF StatesInv, AgreeInv
    <3>2. QED
      BY <1>2, <1>3, <2>1, <2>2, <3>1 DEF Agree, Untold
  <2>3. CASE p = a /\ jobs'[i].state \in {"FG", "BG"}
    BY <1>2, <1>3, <2>3 DEF Agree
  <2>4. QED
    BY <1>2, <1>4, <2>2, <2>3 DEF SlotSet
<1>5. QED
  BY <1>2, <1>3, <1>4, StatesOfMain DEF Entering, BookInv

LEMMA StatesCont == BookInv /\ StatesInv /\ Cont => StatesInv'
<1> SUFFICES ASSUME BookInv, StatesInv, Cont PROVE StatesInv'
  OBVIOUS
<1>1. PICK c : c = jobs[arg].pid
  OBVIOUS
<1>2. /\ UNCHANGED <<jobs, arg, stack>> /\ pc = "cont" /\ pc' = "set" /\ stack = <<>>
      /\ \/ (c = 0 \/ proc[c] # "stopped") /\ UNCHANGED <<proc, event>>
         \/ /\ c \in Pids /\ proc[c] = "stopped" /\ proc'[c] = "running" /\ event'[c] = "continued"
            /\ \A q \in Pids : q # c => proc'[q] = proc[q] /\ event'[q] = event[q]
  BY <1>1, Continued DEF BookInv
<1>3. ~Waiting /\ (\A p \in Pids : event[p] # "stopped") /\ Untold /\ Untold'
  BY <1>2, NoStopPending, Idle, StackKept DEF Waiting, Untold, SameTold
<1>4. \A p \in Pids : event'[p] # "stopped"
  BY <1>2, <1>3
<1>5. ASSUME NEW p \in Pids, jobs'[arg'].pid = p PROVE proc'[p] # "stopped"
  BY <1>1, <1>2, <1>5, Indices
<1>6. ASSUME NEW i \in Slots, NEW p \in Pids, jobs'[i].pid = p PROVE Agree(i, p)'
  <2>1. Agree(i, p) /\ Untold'
    BY <1>2, <1>3, <1>6, StackKept DEF StatesInv, AgreeInv, SameTold, Untold
  <2>2. CASE proc'[p] = proc[p] /\ event'[p] = event[p]
    <3>1. Status(p)' = Status(p)
      BY <2>2 DEF Status
    <3>2. QED
      BY <1>2, <1>3, <2>1, <2>2, <3>1 DEF Agree, Untold
  <2>3. CASE proc'[p] = "running" /\ event'[p] = "continued"
    BY <2>3 DEF Agree, Status
  <2>4. QED
    BY <1>2, <2>2, <2>3
<1>7. QED
  BY <1>2, <1>4, <1>5, <1>6, StatesOfMain DEF Entering, BookInv

LEMMA StatesSetFg == BookInv /\ StatesInv /\ SetFg => StatesInv'
<1> SUFFICES ASSUME BookInv, StatesInv, SetFg PROVE StatesInv'
  OBVIOUS
<1>1. PICK a \in Slots : a = arg
  BY Foregrounded DEF BookInv
<1>2. /\ UNCHANGED <<stack, proc, event>> /\ pc = "set" /\ stack = <<>> /\ pc' \in {"enter", "prompt"}
      /\ jobs' = jobs \/ SlotSet(a, jobs[a].pid, "FG")
  BY <1>1, Foregrounded DEF BookInv
<1>3. ~Waiting /\ (\A p \in Pids : event[p] # "stopped") /\ Untold /\ Untold'
  BY <1>2, NoStopPending, Idle, StackKept DEF Waiting, Untold, SameTold
<1>4. \A p \in Pids : jobs[a].pid = p => proc[p] # "stopped"
  BY <1>1, <1>2 DEF StatesInv, StopInv
<1>5. ASSUME NEW i \in Slots, NEW p \in Pids, jobs'[i].pid = p PROVE Agree(i, p)'
  <2>1. Agree(i, p) /\ Status(p)' = Status(p)
    BY <1>2, <1>5 DEF StatesInv, AgreeInv, Status, SlotSet
  <2>2. CASE jobs'[i] = jobs[i]
    BY <1>2, <1>3, <2>1, <2>2 DEF Agree, Untold
  <2>3. CASE i = a /\ jobs[a].pid = p /\ jobs'[i].state = "FG"
    BY <1>2, <1>4, <2>3 DEF Agree
  <2>4. QED
    BY <1>2, <1>5, <2>2, <2>3 DEF SlotSet
<1>6. QED
  BY <1>2, <1>3, <1>5, StatesOfMain DEF Entering, BookInv

LEMMA StatesFork ==
  ASSUME BookInv, StatesInv, NEW c \in Pids, NEW state \in {"FG", "BG"}, Fork(c, state)
  PROVE  StatesInv'
<1>1. /\ UNCHANGED <<jobs, stack, event>> /\ pc = "prompt" /\ pc' = state /\ arg' = c /\ stack = <<>>
      /\ proc[c] = "unborn" /\ proc'[c] = "young" /\ \A q \in Pids : q # c => proc'[q] = proc[q]
  BY Forked DEF BookInv
<1>2. ~Waiting /\ (\A p \in Pids : event[p] # "stopped") /\ Untold /\ Untold'
  BY <1>1, NoStopPending, Idle, StackKept DEF Waiting, Untold, SameTold
<1>3. ASSUME NEW i \in Slots, NEW p \in Pids, jobs'[i].pid = p PROVE Agree(i, p)'
  <2>1. Agree(i, p)
    BY <1>1, <1>3 DEF StatesInv, AgreeInv
  <2>2. p # c
    BY <1>1, <1>3, Indices DEF BookInv, ListInv, Present
  <2>3. Status(p)' = Status(p)
    BY <1>1, <2>2 DEF Status
  <2>4. QED
    BY <1>1, <1>2, <2>1, <2>2, <2>3 DEF Agree, Untold
<1>4. ASSUME NEW p \in Pids, Entering(p)' \/ (pc' = "set" /\ jobs'[arg'].pid = p)
      PROVE  proc'[p] # "stopped"
  BY <1>1, <1>4 DEF Entering
<1>5. QED
  BY <1>1, <1>2, <1>3, <1>4, StatesOfMain DEF BookInv

(* A child ends, or becomes its own group.                                 *)
LEMMA StatesChildren == BookInv /\ StatesInv /\ ~world.outside /\ Children => StatesInv'
<1> SUFFICES ASSUME BookInv, StatesInv, ~world.outside, Children PROVE StatesInv'
  OBVIOUS
<1>1. UNCHANGED <<jobs, pc, arg, stack>> /\ TypeInv /\ StackInv
  BY ChildMoved DEF BookInv
<1>2. PICK c \in Pids :
        /\ \A q \in Pids : q # c => proc'[q] = proc[q] /\ event'[q] = event[q]
        /\ \/ proc[c] = "young" /\ proc'[c] = "running" /\ event' = event
           \/ proc[c] = "running" /\ proc'[c] = "zombie" /\ event'[c] = "none"
  BY ChildMoved DEF BookInv
<1>3. SameTold /\ SameKills
  BY <1>1, StackKept
<1>4. /\ \A p : InForeground(p)' <=> InForeground(p)
      /\ \A p : Entering(p)' <=> Entering(p)
      /\ Waiting' <=> Waiting
  BY <1>1 DEF InForeground, Entering, Waiting
<1>5. \A p \in Pids : /\ proc'[p] = "stopped" <=> proc[p] = "stopped"
                      /\ event'[p] = "stopped" <=> event[p] = "stopped"
                      /\ proc[p] = "stopped" => event'[p] = event[p]
                      /\ proc'[p] \in {"young", "running"} => proc[p] \in {"young", "running"}
                      /\ Status(p) \in {"exited", "continued"} => Status(p)' \in {"exited", "continued"}
  BY <1>2 DEF BookInv, KernelInv, Status
<1>6. \A fr \in Kills : fr.pid \in Pids \union {0}
  BY <1>1, TopFrame DEF Kills, FrameType, Frames, StackInv
<1>7. StopInv'
  BY <1>1, <1>3, <1>4, <1>5, <1>6 DEF StatesInv, StopInv, SameTold, SameKills
<1>8. AgreeInv'
  BY <1>1, <1>3, <1>5 DEF StatesInv, AgreeInv, Agree, SameTold
<1>9. QED
  BY <1>7, <1>8 DEF StatesInv

LEMMA StatesWaitPid ==
  ASSUME BookInv, StatesInv, NEW c \in Pids, WaitPid(c)
  PROVE  StatesInv'
<1>1. /\ UNCHANGED <<jobs, pc, arg>> /\ Untold /\ SameKills /\ Reaping
      /\ Status(c) \in {"exited", "stopped", "continued"}
      /\ \A q, s : Told(q, s)' <=> q = c /\ s = Status(c)
      /\ event'[c] = "none" /\ proc'[c] = IF proc[c] = "zombie" THEN "gone" ELSE proc[c]
      /\ \A q \in Pids : q # c => proc'[q] = proc[q] /\ event'[q] = event[q]
  BY Collected DEF BookInv
<1>2. pc \notin {"FG", "BG"}
  BY <1>1, HandlerRuns DEF BookInv
<1>3. /\ \A p : InForeground(p)' <=> InForeground(p)
      /\ Waiting' <=> Waiting
  BY <1>1 DEF InForeground, Waiting
<1>4. /\ Status(c) = "exited" <=> proc[c] = "zombie"
      /\ Status(c) # "exited" => event[c] = Status(c)
      /\ Status(c) = "stopped" => proc[c] = "stopped"
      /\ Status(c) = "continued" => proc[c] = "running"
  BY <1>1 DEF Status, BookInv, KernelInv, TypeInv
<1>5. \A p \in Pids : /\ proc'[p] = "stopped" <=> proc[p] = "stopped"
                      /\ proc'[p] \in {"young", "running"} <=> proc[p] \in {"young", "running"}
                      /\ event'[p] = "stopped" => event[p] = "stopped" /\ p # c
  BY <1>1
<1>6. \A fr \in Kills : fr.pid \in Pids \union {0}
  BY DEF Kills, FrameType, Frames, BookInv, StackInv
<1>7. \A fr \in Kills' : fr.pid # 0 =>
        /\ Waiting'
        /\ fr.sig = "TSTP" /\ proc'[fr.pid] \in {"young", "running"} => InForeground(fr.pid)'
  BY <1>1, <1>3, <1>5, <1>6 DEF StatesInv, StopInv, SameKills
<1>8. \A p \in Pids : event'[p] = "stopped" \/ Told(p, "stopped")' => Waiting' /\ InForeground(p)'
  BY <1>1, <1>3, <1>4, <1>5 DEF StatesInv, StopInv
<1>9. \A p \in Pids : /\ Told(p, "stopped")' => proc'[p] = "stopped" /\ event'[p] = "none"
                      /\ Told(p, "continued")' => proc'[p] # "stopped"
  BY <1>1, <1>4
<1>10. \A p \in Pids : Entering(p)' \/ (pc' = "set" /\ jobs'[arg'].pid = p) => proc'[p] # "stopped"
  BY <1>1, <1>2, <1>5 DEF StatesInv, StopInv, Entering
<1>11. StopInv'
  BY <1>7, <1>8, <1>9, <1>10 DEF StopInv
<1>12. ASSUME NEW i \in Slots, NEW p \in Pids, jobs'[i].pid = p PROVE Agree(i, p)'
  <2>1. Agree(i, p)
    BY <1>1, <1>12 DEF StatesInv, AgreeInv
  <2>2. CASE p = c
    <3>1. jobs'[i].state = "ST" => proc'[p] = "stopped" \/ Told(p, "exited")' \/ Told(p, "continued")'
      BY <1>1, <1>4, <2>1, <2>2 DEF Agree, Untold
    <3>2. proc'[p] = "stopped" => jobs'[i].state = "ST" \/ Told(p, "stopped")'
      BY <1>1, <1>4, <2>1, <2>2 DEF Agree, Untold
    <3>3. QED
      BY <3>1, <3>2 DEF Agree
  <2>3. CASE p # c
    <3>1. Status(p)' = Status(p) /\ proc'[p] = proc[p] /\ event'[p] = event[p]
      BY <1>1, <2>3 DEF Status
    <3>2. QED
      BY <1>1, <2>1, <3>1 DEF Agree, Untold
  <2>4. QED
    BY <2>2, <2>3
<1>13. QED
  BY <1>11, <1>12 DEF StatesInv, AgreeInv

(* The handler has done what it was told of c: the other jobs are as they  *)
(* were, and c is in the foreground no more.                               *)
LEMMA StatesApplied ==
  ASSUME BookInv, StatesInv, UNCHANGED <<pc, arg, proc, event>>, SameKills, Reaping, Untold',
         NEW c \in Pids, NEW s \in Statuses, ToldOnly(c, s),
         \A i \in Slots : jobs'[i] = jobs[i] \/ (jobs[i].pid = c /\ jobs'[i].pid \in {c, 0}),
         \A i \in Slots : jobs'[i].pid = c => Agree(i, c)',
         s = "exited" \/ SamePids,
         \/ event[c] # "stopped" /\ proc[c] \notin {"young", "running"}
         \/ \A i \in Slots : jobs[i].state = "FG" => jobs'[i] = jobs[i]
  PROVE  StatesInv'
<1>1. \A p, t : ~Told(p, t)'
  BY DEF Untold
<1>2. pc \notin {"FG", "BG"}
  BY HandlerRuns DEF BookInv
<1>3. Waiting' <=> Waiting
  BY DEF Waiting
<1>4. c # 0
  BY Indices
<1>5. \A p \in Pids : (p # c \/ event[c] = "stopped" \/ proc[c] \in {"young", "running"})
                      /\ InForeground(p) => InForeground(p)'
  BY DEF InForeground
<1>6. \A i \in Slots : \A p \in Pids : jobs'[i].pid = p => jobs[i].pid = p
  BY Indices
<1>7. \A fr \in Kills : fr.pid \in Pids \union {0}
  BY DEF Kills, FrameType, Frames, BookInv, StackInv
<1>8. \A fr \in Kills' : fr.pid # 0 =>
        /\ Waiting'
        /\ fr.sig = "TSTP" /\ proc'[fr.pid] \in {"young", "running"} => InForeground(fr.pid)'
  BY <1>3, <1>5, <1>7 DEF StatesInv, StopInv, SameKills
<1>9. \A p \in Pids : event'[p] = "stopped" => Waiting' /\ InForeground(p)'
  BY <1>3, <1>5 DEF StatesInv, StopInv
<1>10. \A p \in Pids : Entering(p)' \/ (pc' = "set" /\ jobs'[arg'].pid = p) => proc'[p] # "stopped"
  BY <1>2, <1>6 DEF StatesInv, StopInv, Entering, BookInv, TypeInv
<1>11. StopInv'
  BY <1>1, <1>8, <1>9, <1>10 DEF StopInv
<1>12. ASSUME NEW i \in Slots, NEW p \in Pids, jobs'[i].pid = p, p # c PROVE Agree(i, p)'
  <2>1. jobs'[i] = jobs[i]
    BY <1>4, <1>12, Indices
  <2>2. Agree(i, p) /\ Status(p)' = Status(p)
    BY <1>12, <2>1 DEF StatesInv, AgreeInv, Status
  <2>3. QED
    BY <1>1, <1>12, <2>1, <2>2 DEF Agree, ToldOnly
<1>13. QED
  BY <1>11, <1>12 DEF StatesInv, AgreeInv

LEMMA StatesApplyExit == BookInv /\ StatesInv /\ ApplyExit => StatesInv'
<1> SUFFICES ASSUME BookInv, StatesInv, ApplyExit PROVE StatesInv'
  OBVIOUS
<1>1. UNCHANGED <<pc, arg, proc, event>> /\ SameKills /\ Reaping /\ Untold'
  BY ExitApplied DEF BookInv
<1>2. PICK c \in Pids \union {0} :
        /\ ToldOnly(c, "exited")
        /\ IF c # 0 /\ \E i \in Slots : jobs[i].pid = c
           THEN \E k \in Slots : jobs[k].pid = c /\ SlotSet(k, 0, "UNDEF")
           ELSE jobs' = jobs
  BY ExitApplied DEF BookInv
<1>3. Told(c, "exited") /\ "exited" \in Statuses
  BY <1>2 DEF ToldOnly, Statuses
<1>4. c \in Pids /\ c # 0 /\ proc[c] = "gone" /\ event[c] # "stopped"
  BY <1>3, Indices DEF BookInv, KernelInv
<1>5. /\ \A i \in Slots : jobs'[i] = jobs[i] \/ (jobs[i].pid = c /\ jobs'[i].pid \in {c, 0})
      /\ \A i \in Slots : jobs'[i].pid # c
  <2>1. CASE \E i \in Slots : jobs[i].pid = c
    <3>1. PICK k \in Slots : jobs[k].pid = c /\ SlotSet(k, 0, "UNDEF")
      BY <1>2, <1>4, <2>1
    <3>2. \A i \in Slots : i # k => jobs[i].pid # c
      BY <1>4, <3>1 DEF BookInv, ListInv
    <3>3. QED
      BY <1>4, <3>1, <3>2 DEF SlotSet
  <2>2. CASE ~\E i \in Slots : jobs[i].pid = c
    BY <1>2, <2>2
  <2>3. QED
    BY <2>1, <2>2
<1>6. QED
  BY <1>1, <1>2, <1>3, <1>4, <1>5, StatesApplied

LEMMA StatesApplyStop == BookInv /\ StatesInv /\ ApplyStop => StatesInv'
<1> SUFFICES ASSUME BookInv, StatesInv, ApplyStop PROVE StatesInv'
  OBVIOUS
<1>1. UNCHANGED <<pc, arg, proc, event>> /\ SameKills /\ Reaping /\ Untold'
  BY StopApplied DEF BookInv
<1>2. PICK c \in Pids \union {0} :
        /\ ToldOnly(c, "stopped")
        /\ IF c # 0 /\ \E i \in Slots : jobs[i].pid = c
           THEN shell' = shell /\ \E k \in Slots : jobs[k].pid = c /\ SlotSet(k, c, "ST")
           ELSE shell' = "segv" /\ jobs' = jobs
  BY StopApplied DEF BookInv
<1>3. Told(c, "stopped") /\ "stopped" \in Statuses
  BY <1>2 DEF ToldOnly, Statuses
<1>4. c \in Pids /\ c # 0
  BY <1>3 DEF BookInv, KernelInv
<1>5. proc[c] = "stopped" /\ event[c] = "none" /\ InForeground(c)
  BY <1>3, <1>4 DEF StatesInv, StopInv
<1>6. PICK k \in Slots : jobs[k].pid = c /\ SlotSet(k, c, "ST")
  BY <1>2, <1>4, <1>5 DEF InForeground
<1>7. \A i \in Slots : i # k => jobs[i].pid # c /\ jobs'[i] = jobs[i]
  BY <1>4, <1>6 DEF BookInv, ListInv, SlotSet
<1>8. jobs'[k].pid = c /\ jobs'[k].state = "ST" /\ SamePids
  BY <1>6, <1>7 DEF SlotSet, SamePids
<1>9. \A i \in Slots : jobs'[i] = jobs[i] \/ (jobs[i].pid = c /\ jobs'[i].pid \in {c, 0})
  BY <1>6, <1>7, <1>8
<1>10. \A i \in Slots : jobs'[i].pid = c => Agree(i, c)'
  BY <1>1, <1>5, <1>7, <1>8 DEF Agree
<1>11. QED
  BY <1>1, <1>2, <1>3, <1>4, <1>5, <1>8, <1>9, <1>10, StatesApplied

LEMMA StatesApplyContinue == BookInv /\ StatesInv /\ ApplyContinue => StatesInv'
<1> SUFFICES ASSUME BookInv, StatesInv, ApplyContinue PROVE StatesInv'
  OBVIOUS
<1>1. UNCHANGED <<pc, arg, proc, event>> /\ SameKills /\ Reaping /\ Untold'
  BY ContinueApplied DEF BookInv
<1>2. PICK c \in Pids \union {0} :
        /\ ToldOnly(c, "continued")
        /\ IF c # 0 /\ \E i \in Slots : jobs[i].pid = c
           THEN /\ shell' = shell
                /\ \E k \in Slots : /\ jobs[k].pid = c
                                    /\ \/ jobs[k].state = "ST" /\ SlotSet(k, c, "BG")
                                       \/ jobs[k].state # "ST" /\ jobs' = jobs
           ELSE shell' = "segv" /\ jobs' = jobs
  BY ContinueApplied DEF BookInv
<1>3. Told(c, "continued") /\ "continued" \in Statuses
  BY <1>2 DEF ToldOnly, Statuses
<1>4. c \in Pids /\ c # 0
  BY <1>3 DEF BookInv, KernelInv
<1>5. proc[c] = "stopped" => event[c] = "stopped"
  BY <1>3, <1>4 DEF StatesInv, StopInv
<1>6. /\ \A i \in Slots : \/ jobs'[i] = jobs[i]
                          \/ jobs[i].pid = c /\ jobs[i].state = "ST" /\ jobs'[i].pid = c
      /\ \A i \in Slots : jobs'[i].pid = c => jobs'[i].state # "ST"
      /\ SamePids
  <2>1. CASE \E i \in Slots : jobs[i].pid = c
    <3>1. PICK k \in Slots : /\ jobs[k].pid = c
                             /\ \/ jobs[k].state = "ST" /\ SlotSet(k, c, "BG")
                                \/ jobs[k].state # "ST" /\ jobs' = jobs
      BY <1>2, <1>4, <2>1
    <3>2. \A i \in Slots : i # k => jobs[i].pid # c
      BY <1>4, <3>1 DEF BookInv, ListInv
    <3>3. QED
      BY <3>1, <3>2 DEF SlotSet, SamePids
  <2>2. CASE ~\E i \in Slots : jobs[i].pid = c
    BY <1>2, <2>2 DEF SamePids
  <2>3. QED
    BY <2>1, <2>2
<1>7. \A i \in Slots : jobs'[i].pid = c => Agree(i, c)'
  BY <1>1, <1>5, <1>6 DEF Agree
<1>8. /\ \A i \in Slots : jobs'[i] = jobs[i] \/ (jobs[i].pid = c /\ jobs'[i].pid \in {c, 0})
      /\ \A i \in Slots : jobs[i].state = "FG" => jobs'[i] = jobs[i]
  BY <1>6
<1>9. QED
  BY <1>1, <1>2, <1>3, <1>4, <1>6, <1>7, <1>8, StatesApplied

LEMMA StatesReads == BookInv /\ StatesInv /\ Reads => StatesInv'
<1> SUFFICES ASSUME BookInv, StatesInv, Reads PROVE StatesInv'
  OBVIOUS
<1>1. PICK s \in {"INT", "TSTP"} : ReadFgPid(s)
  BY DEF Reads
<1>2. PICK f : f = FgPid
  OBVIOUS
<1>3. /\ UNCHANGED <<jobs, pc, arg, proc, event>> /\ SameTold
      /\ Kills' = Kills \union {Frame(s, "kill", f, "none")}
      /\ f # 0 => \E i \in ForegroundSlots : jobs[i].pid = f
  BY <1>1, <1>2, FgRead DEF BookInv
<1>4. f # 0 => Waiting /\ InForeground(f)
  BY <1>3 DEF BookInv, OneForeground, Waiting, InForeground, ForegroundSlots
<1>5. /\ \A p : InForeground(p)' <=> InForeground(p)
      /\ \A p : Entering(p)' <=> Entering(p)
      /\ Waiting' <=> Waiting
      /\ \A p \in Pids : Status(p)' = Status(p)
  BY <1>3 DEF InForeground, Entering, Waiting, Status
<1>6. \A fr \in Kills' : fr.pid # 0 =>
        /\ Waiting'
        /\ fr.sig = "TSTP" /\ proc'[fr.pid] \in {"young", "running"} => InForeground(fr.pid)'
  BY <1>3, <1>4, <1>5 DEF StatesInv, StopInv, Frame
<1>7. StopInv'
  BY <1>3, <1>5, <1>6 DEF StatesInv, StopInv, SameTold
<1>8. AgreeInv'
  BY <1>3, <1>5 DEF StatesInv, AgreeInv, Agree, SameTold
<1>9. QED
  BY <1>7, <1>8 DEF StatesInv

(* A key stops or ends the foreground job, for which main waits.           *)
LEMMA StatesSends == BookInv /\ StatesInv /\ Sends => StatesInv'
<1> SUFFICES ASSUME BookInv, StatesInv, Sends PROVE StatesInv'
  OBVIOUS
<1>1. PICK s \in {"INT", "TSTP"} : KillSelf(s) \/ KillJob(s) \/ KillFails(s)
  BY DEF Sends
<1>2. /\ UNCHANGED <<jobs, pc, arg>> /\ SameTold /\ Kills' \subseteq Kills
      /\ \/ UNCHANGED <<proc, event>>
         \/ \E fr \in Kills :
              /\ fr.pid \in Pids /\ fr.sig = s /\ proc[fr.pid] = "running"
              /\ \/ s = "TSTP" /\ proc'[fr.pid] = "stopped" /\ event'[fr.pid] = "stopped"
                 \/ proc'[fr.pid] = "zombie" /\ event'[fr.pid] = "none"
              /\ \A q \in Pids : q # fr.pid => proc'[q] = proc[q] /\ event'[q] = event[q]
  BY <1>1, SignalSent DEF BookInv
<1>3. CASE UNCHANGED <<proc, event>>
  BY <1>2, <1>3, StatesKept
<1>4. ASSUME NEW fr \in Kills, NEW c \in Pids, c = fr.pid, fr.sig = s, proc[c] = "running",
             \/ s = "TSTP" /\ proc'[c] = "stopped" /\ event'[c] = "stopped"
             \/ proc'[c] = "zombie" /\ event'[c] = "none",
             \A q \in Pids : q # c => proc'[q] = proc[q] /\ event'[q] = event[q]
      PROVE  StatesInv'
  <2>1. Waiting /\ (s = "TSTP" => InForeground(c))
    BY <1>4, Indices DEF StatesInv, StopInv
  <2>2. pc \notin {"FG", "BG"} /\ pc # "set"
    BY <2>1 DEF Waiting
  <2>3. /\ \A p : InForeground(p)' <=> InForeground(p)
        /\ Waiting' <=> Waiting
    BY <1>2 DEF InForeground, Waiting
  <2>4. \A g \in Kills : g.pid \in Pids \union {0}
    BY DEF Kills, FrameType, Frames, BookInv, StackInv
  <2>5. \A g \in Kills' : g.pid # 0 =>
          /\ Waiting'
          /\ g.sig = "TSTP" /\ proc'[g.pid] \in {"young", "running"} => InForeground(g.pid)'
    BY <1>2, <1>4, <2>3, <2>4 DEF StatesInv, StopInv
  <2>6. \A p \in Pids : event'[p] = "stopped" \/ Told(p, "stopped")' => Waiting' /\ InForeground(p)'
    BY <1>2, <1>4, <2>1, <2>3 DEF StatesInv, StopInv, SameTold
  <2>7. \A p \in Pids : /\ Told(p, "stopped")' => proc'[p] = "stopped" /\ event'[p] = "none"
                        /\ Told(p, "continued")' /\ proc'[p] = "stopped" => event'[p] = "stopped"
    BY <1>2, <1>4 DEF StatesInv, StopInv, SameTold
  <2>8. StopInv'
    BY <1>2, <2>2, <2>5, <2>6, <2>7 DEF StopInv, Entering
  <2>9. ASSUME NEW i \in Slots, NEW p \in Pids, jobs'[i].pid = p PROVE Agree(i, p)'
    <3>1. Agree(i, p) /\ jobs'[i] = jobs[i]
      BY <1>2, <2>9 DEF StatesInv, AgreeInv
    <3>2. CASE p = c
      BY <1>4, <3>2 DEF Agree, Status
    <3>3. CASE p # c
      <4>1. Status(p)' = Status(p) /\ proc'[p] = proc[p] /\ event'[p] = event[p]
        BY <1>4, <3>3 DEF Status
      <4>2. QED
        BY <1>2, <3>1, <4>1 DEF Agree, SameTold
    <3>4. QED
      BY <3>2, <3>3
  <2>10. QED
    BY <2>8, <2>9 DEF StatesInv, AgreeInv
<1>5. QED
  BY <1>2, <1>3, <1>4

LEMMA StatesStep ==
  ASSUME BookInv, StatesInv, ~world.outside, Next
  PROVE  StatesInv'
<1>1. CASE Outside
  <2>1. UNCHANGED <<jobs, pc, arg, proc, event, stack>>
    BY <1>1, OutsideMoved DEF BookInv
  <2>2. QED
    BY <2>1, StackKept, StatesKept DEF SameKills
<1>2. ASSUME NEW s \in pending, Deliver(s) PROVE StatesInv'
  BY <1>2, DeliverMoved, StatesKept DEF BookInv, SameKills
<1>3. CASE NothingToWaitFor
  BY <1>3, NoneLeft, StatesKept DEF BookInv, SameKills
<1>4. QED
  BY <1>1, <1>2, <1>3, StepCases, StatesMoves, StatesChildren, StatesAdd, StatesCont, StatesSetFg,
     StatesFork, StatesWaitPid, StatesApplyExit, StatesApplyStop, StatesApplyContinue,
     StatesReads, StatesSends
     DEF Steps
-----------------------------------------------------------------------------
(* The theorems.                                                           *)
LEMMA InitInv == Init => IInv
<1> SUFFICES ASSUME Init PROVE IInv
  OBVIOUS
<1> USE DEF Init
<1>1. \A i \in Slots : jobs[i] = NoJob
  OBVIOUS
<1>2. JobsInv
  <2>1. \A i \in Slots : jobs[i] = Blank(jobs[i])
    BY <1>1 DEF NoJob, Blank
  <2>2. QED
    BY <1>1, <2>1 DEF JobsInv, NoJob, States
<1>3. TypeInv
  BY <1>2 DEF TypeInv, Labels, Procs
<1>4. StackInv
  <2>1. stack \in Seq(FrameType) /\ DOMAIN stack = {}
    OBVIOUS
  <2>2. QED
    BY <2>1 DEF StackInv
<1>5. Kills = {} /\ Untold
  BY Idle
<1>6. \A p \in Pids : proc[p] = "unborn" /\ event[p] = "none" /\ Status(p) = "none"
  BY DEF Status
<1>7. KernelInv
  BY <1>5, <1>6 DEF KernelInv, Untold
<1>8. ListInv
  BY <1>1, <1>6 DEF ListInv, Present, NoJob
<1>9. OneForeground
  BY <1>1 DEF OneForeground, ForegroundSlots, NoJob
<1>10. StopInv /\ AgreeInv
  BY <1>1, <1>5, <1>6, Indices DEF StopInv, AgreeInv, NoJob, Untold, Entering
<1>11. QED
  BY <1>3, <1>4, <1>7, <1>8, <1>9, <1>10 DEF IInv, BookInv

LEMMA TypeStep ==
  ASSUME TypeInv, StackInv, Next
  PROVE  TypeInv' /\ StackInv' /\ world' = world
BY StepCases, Moved, OutsideMoved, ChildMoved, Added, Continued, Foregrounded, Forked, DeliverMoved,
   Collected, NoneLeft, ExitApplied, StopApplied, ContinueApplied, FgRead, SignalSent
   DEF Steps, Reads, Sends

LEMMA InvStutters == IInv /\ UNCHANGED vars => IInv'
<1> SUFFICES ASSUME IInv, UNCHANGED vars PROVE IInv'
  OBVIOUS
<1>1. /\ UNCHANGED <<jobs, pc, arg, cmd, stack, pending, proc, event, shell, world>>
      /\ TypeInv /\ StackInv /\ KernelInv /\ ListInv /\ OneForeground
  BY DEF vars, IInv, BookInv
<1>2. SameTold /\ SameKills /\ SameReaping /\ StackInv'
  BY <1>1, StackKept DEF StackInv
<1>3. TypeInv'
  BY <1>1, SameJobs DEF TypeInv
<1>4. KernelInv'
  BY <1>1, <1>2, KernelKept
<1>5. ListInv'
  <2>1. SamePids /\ SamePresent
    BY <1>1, <1>2 DEF SamePids, SamePresent, Present, Entering, SameTold
  <2>2. QED
    BY <1>1, <2>1, ListKept DEF ListInv
<1>6. OneForeground'
  BY <1>1, ForegroundKept
<1>7. ~world.outside => StatesInv'
  BY <1>1, <1>2, StatesKept DEF SameKills, IInv, StatesInv
<1>8. QED
  BY <1>1, <1>2, <1>3, <1>4, <1>5, <1>6, <1>7 DEF IInv, BookInv, StatesInv

THEOREM Inductive == Spec => []IInv
<1>1. IInv /\ Next => IInv'
  <2> SUFFICES ASSUME IInv, Next PROVE IInv'
    OBVIOUS
  <2>1. BookInv /\ TypeInv /\ StackInv /\ KernelInv /\ ListInv /\ OneForeground
    BY DEF IInv, BookInv
  <2>2. TypeInv' /\ StackInv' /\ world' = world
    BY <2>1, TypeStep
  <2>3. KernelInv' /\ ListInv' /\ OneForeground'
    BY <2>1, KernelStep, ListStep, ForegroundStep
  <2>4. ~world.outside => StatesInv'
    BY <2>1, StatesStep DEF IInv, StatesInv
  <2>5. QED
    BY <2>2, <2>3, <2>4 DEF IInv, BookInv, StatesInv
<1>2. QED
  BY <1>1, InitInv, InvStutters, PTL DEF Spec

(* With a slot for every child, whatever the others do to the children and *)
(* whatever is typed: the job list is the list of the children, and no     *)
(* handler looks for a job that is not there.                              *)
THEOREM TshListMatchesChildren == Spec => []ListMatchesChildren
<1>1. IInv => ListMatchesChildren
  <2> SUFFICES ASSUME IInv, MaxJobs >= MaxPids, NEW p \in Pids
               PROVE  /\ shell # "segv"
                      /\ Cardinality(Listed(p)) =
                           CASE proc[p] = "unborn" -> 0
                             [] pc \in {"FG", "BG"} /\ arg = p -> 0
                             [] proc[p] = "gone" /\ ~Forgotten(p) -> 0
                             [] OTHER -> 1
    BY DEF ListMatchesChildren, IInv, BookInv, ListInv
  <2>1. StackInv /\ KernelInv /\ ListInv
    BY DEF IInv, BookInv
  <2>2. proc[p] = "gone" => (Forgotten(p) <=> Told(p, "exited"))
    <3>1. \A fr \in Frames : fr.status \in Statuses
      BY <2>1 DEF StackInv, Frames, FrameType
    <3>2. Forgotten(p) <=> \E s \in Statuses : Told(p, s)
      BY <3>1 DEF Forgotten, Told, Frames
    <3>3. QED
      BY <2>1, <3>2 DEF KernelInv, Statuses
  <2>3. CASE Present(p)
    <3>1. PICK i \in Slots : jobs[i].pid = p
      BY <2>1, <2>3 DEF ListInv
    <3>2. Listed(p) = {i}
      BY <2>1, <3>1, Indices DEF Listed, ListInv
    <3>3. Cardinality(Listed(p)) = 1
      BY <3>2, FS_Singleton
    <3>4. QED
      BY <2>1, <2>2, <2>3, <3>3 DEF ListInv, Present, Entering
  <2>4. CASE ~Present(p)
    <3>1. Listed(p) = {}
      BY <2>1, <2>4, Indices DEF Listed, ListInv
    <3>2. Cardinality(Listed(p)) = 0
      BY <3>1, FS_EmptySet
    <3>3. QED
      BY <2>1, <2>2, <2>4, <3>2 DEF ListInv, Present, Entering
  <2>5. QED
    BY <2>3, <2>4
<1>2. QED
  BY <1>1, Inductive, PTL

(* At the prompt, with no signal left to handle, the list shows as stopped *)
(* the children that are, if only the shell signals them.                  *)
THEOREM TshStatesAgree == Spec => []StatesAgree
<1>1. IInv => StatesAgree
  <2> SUFFICES ASSUME IInv, ~world.outside, stack = <<>>, "CHLD" \notin pending,
                      NEW i \in Slots, NEW p \in Pids, jobs[i].pid = p
               PROVE  jobs[i].state = "ST" <=> proc[p] = "stopped"
    BY DEF StatesAgree, IInv, BookInv, TypeInv, JobsInv
  <2>1. Untold /\ ~Reaping
    <3>1. DOMAIN stack = {}
      OBVIOUS
    <3>2. QED
      BY <3>1 DEF Untold, Told, Reaping, Frames
  <2>2. Status(p) = "none"
    BY <2>1 DEF IInv, BookInv, KernelInv
  <2>3. Agree(i, p)
    BY DEF IInv, AgreeInv
  <2>4. QED
    BY <2>1, <2>2, <2>3 DEF Agree, Untold, Status
<1>2. QED
  BY <1>1, Inductive, PTL

(* No job is in the foreground but the one that main waits for.            *)
THEOREM TshOneForeground == Spec => []OneForeground
BY Inductive, PTL DEF IInv, BookInv
=============================================================================
