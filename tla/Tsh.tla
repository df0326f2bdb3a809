-------------------------------- MODULE Tsh ---------------------------------
(***************************************************************************)
(* The shell with job control of CSAPP/8_Shell_Lab/tsh.c: the main loop    *)
(* and its built-ins, the three signal handlers that interrupt it and one  *)
(* another (sa_mask is empty: a handler is only protected from itself),    *)
(* and the kernel's side of it: the children, the events waitpid reports   *)
(* and the signals that are pending.  A child is in the shell's process    *)
(* group until its own setpgid.                                            *)
(***************************************************************************)
EXTENDS Naturals, Sequences, FiniteSetsExt

CONSTANTS MaxPids,  \* bound on the children ever forked
          MaxJobs,  \* MAXJOBS
          Worlds    \* what surrounds the shell, see world

(* keys: the keys the user types, "INT" is ctrl-c and "TSTP" ctrl-z;       *)
(* anyTime: also without a foreground job; outside: others stop, continue  *)
(* and kill the children.                                                  *)
ASSUME TshAssumption ==
  /\ MaxPids \in Nat /\ MaxJobs \in Nat \ {0}
  /\ Worlds \subseteq [keys : SUBSET {"INT", "TSTP"}, anyTime : BOOLEAN, outside : BOOLEAN]

Pids == 1 .. MaxPids
Slots == 1 .. MaxJobs
States == {"UNDEF", "FG", "BG", "ST"}

VARIABLES
  jobs,    \* the job list: pid (0 for none), jid and state of each slot
  nextjid,
  pc,      \* what main does next
  arg,     \* the pid or the slot it does it to
  cmd,     \* the built-in do_bgfg runs, "fg" or "bg"
  stack,   \* the handlers that run, the innermost last
  pending, \* signals sent to the shell and not yet handled
  proc,    \* the state of each child
  event,   \* what waitpid has to tell of a child that is not a zombie
  shell,   \* "up", or why it is not
  world    \* one of Worlds, for good

vars == <<jobs, nextjid, pc, arg, cmd, stack, pending, proc, event, shell, world>>

NoJob == [pid |-> 0, jid |-> 0, state |-> "UNDEF"]

Init == /\ jobs = [i \in Slots |-> NoJob] /\ nextjid = 1
        /\ pc = "prompt" /\ arg = 0 /\ cmd = "fg"
        /\ stack = <<>> /\ pending = {}
        /\ proc = [p \in Pids |-> "unborn"] /\ event = [p \in Pids |-> "none"]
        /\ shell = "up" /\ world \in Worlds

(* getjobpid and fgpid; 0 stands for NULL.                                 *)
Job(p) == IF \E i \in Slots : p > 0 /\ jobs[i].pid = p
          THEN CHOOSE i \in Slots : jobs[i].pid = p ELSE 0
ForegroundSlots == {i \in Slots : jobs[i].state = "FG"}
FgPid == IF ForegroundSlots = {} THEN 0 ELSE jobs[Min(ForegroundSlots)].pid

SetState(i, s) == jobs' = [jobs EXCEPT ![i].state = s]
-----------------------------------------------------------------------------
(* Children and the kernel.  Becoming a zombie replaces an event that was  *)
(* not collected, and so does the next event.                              *)

Become(p, s, e) == /\ proc' = [proc EXCEPT ![p] = s]
                   /\ event' = [event EXCEPT ![p] = e]
                   /\ pending' = pending \union {"CHLD"}

SetPgid(p) == /\ proc[p] = "young"
              /\ proc' = [proc EXCEPT ![p] = "running"]
              /\ UNCHANGED <<jobs, nextjid, pc, arg, cmd, stack, pending, event, shell, world>>

Exits(p) == /\ proc[p] = "running"
            /\ Become(p, "zombie", "none")
            /\ UNCHANGED <<jobs, nextjid, pc, arg, cmd, stack, shell, world>>

(* Somebody else signals a child.                                          *)
Meddle(p) == /\ world.outside
             /\ \/ proc[p] = "running" /\ Become(p, "stopped", "stopped")
                \/ proc[p] = "stopped" /\ Become(p, "running", "continued")
                \/ proc[p] = "stopped" /\ Become(p, "zombie", "none")
             /\ UNCHANGED <<jobs, nextjid, pc, arg, cmd, stack, shell, world>>

(* The terminal signals its foreground group, which is the shell's.        *)
Type(k) == /\ shell = "up"
           /\ k \in world.keys
           /\ world.anyTime \/ \E i \in ForegroundSlots :
                           jobs[i].pid # 0 /\ proc[jobs[i].pid] \in {"young", "running"}
           /\ pending' = pending \union {k}
           /\ UNCHANGED <<jobs, nextjid, pc, arg, cmd, stack, proc, event, shell, world>>

(* The login shell continues a stopped tsh.                                *)
ResumeShell == /\ shell = "stopped"
               /\ shell' = "up"
               /\ UNCHANGED <<jobs, nextjid, pc, arg, cmd, stack, pending, proc, event, world>>
-----------------------------------------------------------------------------
(* The main loop.                                                          *)

MainAt(label) == shell = "up" /\ stack = <<>> /\ pc = label
Go(label, a) == pc' = label /\ arg' = a

(* eval: fork, with every signal blocked from before it until the job is   *)
(* in the list.                                                            *)
Fork(p, state) == /\ MainAt("prompt")
                  /\ proc[p] = "unborn" /\ \A q \in 1 .. p - 1 : proc[q] # "unborn"
                  /\ proc' = [proc EXCEPT ![p] = "young"]
                  /\ Go(state, p)
                  /\ UNCHANGED <<jobs, nextjid, cmd, stack, pending, event, shell, world>>

Free == {i \in Slots : jobs[i].pid = 0}

(* addjob: in the first free slot, under the next job ID; nothing, when    *)
(* there are too many jobs.                                                *)
AddJob(p, state) ==
  IF Free = {} THEN UNCHANGED <<jobs, nextjid>>
  ELSE /\ jobs' = [jobs EXCEPT ![Min(Free)] =
                      [pid |-> p, jid |-> nextjid, state |-> state]]
       /\ nextjid' = IF nextjid + 1 > MaxJobs THEN 1 ELSE nextjid + 1

Add == /\ shell = "up" /\ stack = <<>> /\ pc \in {"FG", "BG"}
       /\ AddJob(arg, pc)
       /\ Go(IF pc = "FG" THEN "waitfg" ELSE "prompt", IF pc = "FG" THEN arg ELSE 0)
       /\ UNCHANGED <<cmd, stack, pending, proc, event, shell, world>>

(* Mutant: an if for the loop, so that any signal ends the wait.           *)
WaitFgOnce == /\ MainAt("waitfg")
              /\ Go("prompt", 0)
              /\ UNCHANGED <<jobs, nextjid, cmd, stack, pending, proc, event, shell, world>>

(* waitfg leaves its loop: sleep(1) is cut short by the handlers.          *)
WaitFg == /\ MainAt("waitfg")
          /\ ~ \E i \in ForegroundSlots : arg > 0 /\ jobs[i].pid = arg
          /\ Go("prompt", 0)
          /\ UNCHANGED <<jobs, nextjid, cmd, stack, pending, proc, event, shell, world>>

(* do_bgfg: a job is found by its pid or its job ID and then known by its  *)
(* slot, which each of the following steps reads again.                    *)
FgBg(name, i) == /\ MainAt("prompt")
                 /\ jobs[i].pid # 0
                 /\ cmd' = name /\ Go("test", i)
                 /\ UNCHANGED <<jobs, nextjid, stack, pending, proc, event, shell, world>>

Test == /\ MainAt("test")
        /\ Go(IF jobs[arg].state = "ST" THEN "cont" ELSE "set", arg)
        /\ UNCHANGED <<cmd, jobs, nextjid, stack, pending, proc, event, shell, world>>

(* kill(-job->pid, SIGCONT); pid 0 is the shell's own group.               *)
Cont == LET p == jobs[arg].pid IN
  /\ MainAt("cont")
  /\ IF p # 0 /\ proc[p] = "stopped" THEN Become(p, "running", "continued")
                                     ELSE UNCHANGED <<proc, event, pending>>
  /\ Go("set", arg)
  /\ UNCHANGED <<cmd, jobs, nextjid, stack, shell, world>>

(* bg is done; fg sets the state, and waits for the pid it then finds.     *)
SetFg == /\ MainAt("set")
         /\ IF cmd = "fg" THEN SetState(arg, "FG") /\ Go("enter", arg)
                          ELSE UNCHANGED jobs /\ Go("prompt", 0)
         /\ UNCHANGED <<cmd, nextjid, stack, pending, proc, event, shell, world>>

EnterWait == /\ MainAt("enter")
             /\ Go("waitfg", jobs[arg].pid)
             /\ UNCHANGED <<cmd, jobs, nextjid, stack, pending, proc, event, shell, world>>

(* The built-in quit, or the end of the input.                             *)
Quit == /\ MainAt("prompt")
        /\ shell' = "exited"
        /\ UNCHANGED <<jobs, nextjid, pc, arg, cmd, stack, pending, proc, event, world>>
-----------------------------------------------------------------------------
(* Signal handlers.  A frame: the signal, the handler's place, the pid and *)
(* the status it holds.                                                    *)

Frame(s, at, p, status) == [sig |-> s, at |-> at, pid |-> p, status |-> status]
Top == stack[Len(stack)]
At(sigs, at) == shell = "up" /\ stack # <<>> /\ Top.sig \in sigs /\ Top.at = at
Replace(frame) == stack' = [stack EXCEPT ![Len(stack)] = frame]
Pop == stack' = SubSeq(stack, 1, Len(stack) - 1)

(* Mutant: signals are not blocked while the job is added.                 *)
DeliverUnblocked(s) ==
  /\ shell = "up" /\ s \in pending
  /\ \A i \in DOMAIN stack : stack[i].sig # s
  /\ stack' = Append(stack, Frame(s, IF s = "CHLD" THEN "waitpid" ELSE "fgpid", 0, "none"))
  /\ pending' = pending \ {s}
  /\ UNCHANGED <<jobs, nextjid, pc, arg, cmd, proc, event, shell, world>>

Deliver(s) ==
  /\ shell = "up" /\ s \in pending
  /\ pc \notin {"FG", "BG"}
  /\ \A i \in DOMAIN stack : stack[i].sig # s
  /\ stack' = Append(stack, Frame(s, IF s = "CHLD" THEN "waitpid" ELSE "fgpid", 0, "none"))
  /\ pending' = pending \ {s}
  /\ UNCHANGED <<jobs, nextjid, pc, arg, cmd, proc, event, shell, world>>

(* sigchld_handler: waitpid collects one child's exit or event at a time,  *)
(* until there is none.                                                    *)
Status(p) == IF proc[p] = "zombie" THEN "exited" ELSE event[p]

WaitPid(p) == /\ At({"CHLD"}, "waitpid")
              /\ Status(p) # "none"
              /\ Replace(Frame("CHLD", "apply", p, Status(p)))
              /\ proc' = IF proc[p] = "zombie" THEN [proc EXCEPT ![p] = "gone"] ELSE proc
              /\ event' = [event EXCEPT ![p] = "none"]
              /\ UNCHANGED <<jobs, nextjid, pc, arg, cmd, pending, shell, world>>

NothingToWaitFor == /\ At({"CHLD"}, "waitpid")
                    /\ \A p \in Pids : Status(p) = "none"
                    /\ Pop
                    /\ UNCHANGED <<jobs, nextjid, pc, arg, cmd, pending, proc, event, shell, world>>

(* deletejob: the slot is cleared and the job IDs go on from the largest.  *)
DeleteJob(p) ==
  IF Job(p) = 0 THEN UNCHANGED <<jobs, nextjid>>
  ELSE /\ jobs' = [jobs EXCEPT ![Job(p)] = NoJob]
       /\ nextjid' = Max({jobs'[i].jid : i \in Slots}) + 1

(* Mutant: the handler is done after one child.                            *)
ApplyExitOnce == /\ At({"CHLD"}, "apply") /\ Top.status = "exited"
                 /\ DeleteJob(Top.pid)
                 /\ Pop
                 /\ UNCHANGED <<pc, arg, cmd, pending, proc, event, shell, world>>

ApplyExit == /\ At({"CHLD"}, "apply") /\ Top.status = "exited"
             /\ DeleteJob(Top.pid)
             /\ Replace(Frame("CHLD", "waitpid", 0, "none"))
             /\ UNCHANGED <<pc, arg, cmd, pending, proc, event, shell, world>>

ApplyStop == /\ At({"CHLD"}, "apply") /\ Top.status = "stopped"
             /\ IF Job(Top.pid) = 0
                THEN shell' = "segv" /\ UNCHANGED jobs
                ELSE SetState(Job(Top.pid), "ST") /\ UNCHANGED shell
             /\ Replace(Frame("CHLD", "waitpid", 0, "none"))
             /\ UNCHANGED <<nextjid, pc, arg, cmd, pending, proc, event, world>>

(* Mutant: a job that continues in the background stays marked stopped.    *)
ApplyContinueNot == /\ At({"CHLD"}, "apply") /\ Top.status = "continued"
                    /\ Replace(Frame("CHLD", "waitpid", 0, "none"))
                    /\ UNCHANGED <<jobs, nextjid, pc, arg, cmd, pending, proc, event, shell, world>>

ApplyContinue == /\ At({"CHLD"}, "apply") /\ Top.status = "continued"
                 /\ IF Job(Top.pid) = 0
                    THEN shell' = "segv" /\ UNCHANGED jobs
                    ELSE /\ IF jobs[Job(Top.pid)].state = "ST"
                            THEN SetState(Job(Top.pid), "BG") ELSE UNCHANGED jobs
                         /\ UNCHANGED shell
                 /\ Replace(Frame("CHLD", "waitpid", 0, "none"))
                 /\ UNCHANGED <<nextjid, pc, arg, cmd, pending, proc, event, world>>

(* sigint_handler and sigtstp_handler: kill(-fgpid(jobs), sig).            *)
ReadFgPid(s) == /\ At({s}, "fgpid")
                /\ Replace(Frame(s, "kill", FgPid, "none"))
                /\ UNCHANGED <<jobs, nextjid, pc, arg, cmd, pending, proc, event, shell, world>>

(* Group 0 is the shell's own.                                             *)
KillSelf(s) == /\ At({s}, "kill") /\ Top.pid = 0
               /\ IF s = "INT" THEN pending' = pending \union {"INT"} /\ UNCHANGED shell
                               ELSE shell' = "stopped" /\ UNCHANGED pending
               /\ Pop
               /\ UNCHANGED <<jobs, nextjid, pc, arg, cmd, proc, event, world>>

HasGroup(p) == proc[p] \in {"running", "stopped", "zombie"}

(* SIGINT ends a running child, or the child catches it; SIGSTOP stops it. *)
KillJob(s) == /\ At({s}, "kill") /\ Top.pid # 0 /\ HasGroup(Top.pid)
              /\ \/ /\ s = "TSTP" /\ proc[Top.pid] = "running"
                    /\ Become(Top.pid, "stopped", "stopped")
                 \/ /\ s = "INT" /\ proc[Top.pid] = "running"
                    /\ Become(Top.pid, "zombie", "none")
                 \/ /\ s = "INT" \/ proc[Top.pid] # "running"
                    /\ UNCHANGED <<proc, event, pending>>
              /\ Pop
              /\ UNCHANGED <<jobs, nextjid, pc, arg, cmd, shell, world>>

(* ESRCH: unix_error ends the shell.                                       *)
KillFails(s) == /\ At({s}, "kill") /\ Top.pid # 0 /\ ~HasGroup(Top.pid)
                /\ shell' = "killFailed"
                /\ Pop
                /\ UNCHANGED <<jobs, nextjid, pc, arg, cmd, pending, proc, event, world>>
-----------------------------------------------------------------------------
Child(p) == SetPgid(p) \/ Exits(p)

Main == Add \/ WaitFg \/ Test \/ Cont \/ SetFg \/ EnterWait

Command == \/ \E p \in Pids, state \in {"FG", "BG"} : Fork(p, state)
           \/ \E name \in {"fg", "bg"}, i \in Slots : FgBg(name, i)
           \/ Quit

Handler == \/ \E s \in pending : Deliver(s)
           \/ \E p \in Pids : WaitPid(p)
           \/ NothingToWaitFor \/ ApplyExit \/ ApplyStop \/ ApplyContinue
           \/ \E s \in {"INT", "TSTP"} :
                ReadFgPid(s) \/ KillSelf(s) \/ KillJob(s) \/ KillFails(s)

World == \/ \E p \in Pids : Child(p) \/ Meddle(p)
         \/ \E k \in {"INT", "TSTP"} : Type(k)
         \/ ResumeShell

Next == Main \/ Command \/ Handler \/ World

Spec == Init /\ [][Next]_vars

(* The kernel runs the shell, delivers its signals and runs the children,  *)
(* which end; the user need not type anything.                             *)
FairSpec == /\ Spec /\ WF_vars(Main) /\ WF_vars(Handler)
            /\ \A p \in Pids : WF_vars(Child(p))
-----------------------------------------------------------------------------
Listed(p) == {i \in Slots : jobs[i].pid = p}
Forgotten(p) == \E i \in DOMAIN stack : stack[i].at = "apply" /\ stack[i].pid = p

(* With a slot for every child, the list and the children agree between    *)
(* any two steps of main and the handlers: each child from its fork to its *)
(* reaping is listed once, and none after; a handler that is told of a     *)
(* child finds its job.                                                    *)
ListMatchesChildren ==
  MaxJobs >= MaxPids =>
    /\ \A p \in Pids : Cardinality(Listed(p)) =
         CASE proc[p] = "unborn" -> 0
           [] pc \in {"FG", "BG"} /\ arg = p -> 0
           [] proc[p] = "gone" /\ ~Forgotten(p) -> 0
           [] OTHER -> 1
    /\ shell # "segv"

(* The states that a command line sees are those of the children, once     *)
(* their events have been handled; if only tsh signals them.               *)
StatesAgree ==
  ~world.outside /\ shell = "up" /\ pc = "prompt" /\ stack = <<>> /\ "CHLD" \notin pending =>
    \A i \in Slots : jobs[i].pid # 0 =>
      (jobs[i].state = "ST" <=> proc[jobs[i].pid] = "stopped")

(* At the prompt no child is in the foreground, and while main waits only  *)
(* the one it waits for: "at most 1 job can be in the FG state".           *)
OneForeground ==
  \A i \in ForegroundSlots : jobs[i].pid # 0 =>
    \/ pc = "waitfg" /\ arg = jobs[i].pid
    \/ pc = "enter" /\ arg = i

(* Nobody but the shell signals the children, and ctrl-c is not typed: at  *)
(* the wrong moment either keeps the shell busy or waiting for ever.       *)
Quiet == ~world.outside /\ ~world.anyTime /\ "INT" \notin world.keys

(* sigchld_handler reaps all available zombie children, although several   *)
(* SIGCHLDs may have become one.                                           *)
ZombiesAreReaped ==
  \A p \in Pids : Quiet /\ proc[p] = "zombie" ~> proc[p] = "gone" \/ shell # "up"

(* The prompt comes back when the foreground job ends or stops: the event  *)
(* is not missed between the test and the wait.                            *)
PromptComesBack == Quiet /\ pc = "waitfg" ~> pc = "prompt" \/ shell # "up"
=============================================================================
