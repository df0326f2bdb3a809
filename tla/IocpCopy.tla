------------------------------ MODULE IocpCopy ------------------------------
(***************************************************************************)
(* IOCP file copy (C++): main starts one read per buffer and polls three   *)
(* counters until the copy is over; the threads of the completion port     *)
(* call onReaded, which writes what was read, and onWrited, which reads    *)
(* the next block into the same buffer.  Each interlocked operation and    *)
(* each read of a counter is a step.                                       *)
(***************************************************************************)
EXTENDS Integers

CONSTANTS Blocks,   \* blocks of the source file
          Bufs,     \* number of FileData
          Threads   \* of the completion port

VARIABLES
  main,      \* where main is
  started,   \* the reads that main has started, of startLoop
  remain, pendingWrite, pendingRead, offset,   \* the Context
  devices,   \* the open files, which are registered with the port
  io,        \* requests that the system is working on
  packets,   \* completions in the port
  t,         \* what each thread does, with which packet
  asserted   \* the line of a failed assertion, or 0

counters == <<remain, pendingWrite, pendingRead, offset>>
vars == <<main, started, counters, devices, io, packets, t, asserted>>

Request(dev, buf, block) == [dev |-> dev, buf |-> buf, block |-> block]
Idle == [pc |-> "idle"]
startLoop == IF Bufs < Blocks THEN Bufs ELSE Blocks

Init == /\ main = "count" /\ started = 0
        /\ remain = Blocks /\ pendingWrite = 0 /\ pendingRead = 0 /\ offset = 0
        /\ devices = {"src", "dest"} /\ io = {} /\ packets = {}
        /\ t = [x \in Threads |-> Idle] /\ asserted = 0

Running == asserted = 0
Fail(line) == asserted' = line /\ UNCHANGED io

(* File::read and File::write: nothing is read behind the end of the file, *)
(* nothing by a file that is closed.                                       *)
Submit(dev, buf, block) == dev \in devices /\ block < Blocks
                           /\ io' = io \cup {Request(dev, buf, block)}
Refused(dev, block) == dev \notin devices \/ block >= Blocks
-----------------------------------------------------------------------------
(* main: for every buffer two counters and a read ...                      *)

MainGoes(from, to) == Running /\ main = from /\ main' = to

CountBlock == /\ MainGoes("count", "reads")
              /\ remain' = remain - 1
              /\ UNCHANGED <<started, pendingWrite, pendingRead, offset, devices, io, packets, t,
                             asserted>>
CountRead == /\ MainGoes("reads", "read")
             /\ pendingRead' = pendingRead + 1
             /\ UNCHANGED <<started, remain, pendingWrite, offset, devices, io, packets, t, asserted>>
StartRead == /\ MainGoes("read", IF started + 1 < startLoop THEN "count" ELSE "remain")
             /\ offset' = offset + 1 /\ started' = started + 1
             /\ \/ Submit("src", started + 1, offset) /\ UNCHANGED asserted
                \/ Refused("src", offset) /\ Fail(342)
             /\ UNCHANGED <<remain, pendingWrite, pendingRead, devices, packets, t>>

(* ... then wait, which reads one counter after the other, and starts over *)
(* when one is positive ...                                                *)
Poll == /\ \/ MainGoes("remain", IF remain > 0 THEN "remain" ELSE "write")
           \/ MainGoes("write", IF pendingWrite > 0 THEN "remain" ELSE "pending")
           \/ MainGoes("pending", IF pendingRead > 0 THEN "remain" ELSE "close")
        /\ UNCHANGED <<started, counters, devices, io, packets, t, asserted>>

(* ... and the files are destroyed, the last one first.                    *)
Close == /\ Running /\ main = "close" /\ devices # {}
         /\ devices' = IF "dest" \in devices THEN {"src"} ELSE {}
         /\ UNCHANGED <<main, started, counters, io, packets, t, asserted>>
-----------------------------------------------------------------------------
(* The system, and the threads of the port.                                *)

Complete == \E r \in io : /\ Running
                          /\ io' = io \ {r} /\ packets' = packets \cup {r}
                          /\ UNCHANGED <<main, started, counters, devices, t, asserted>>

At(x, pc) == Running /\ t[x].pc = pc
Goes(x, to) == t' = [t EXCEPT ![x].pc = to]
Ends(x) == t' = [t EXCEPT ![x] = Idle]

(* threadProc takes a packet and finds the callback of its file.           *)
TakePacket(x) == \E p \in packets : /\ At(x, "idle")
                                    /\ packets' = packets \ {p}
                                    /\ t' = [t EXCEPT ![x] = [pc |-> "find", packet |-> p]]
                                    /\ UNCHANGED <<main, started, counters, devices, io, asserted>>
Find(x) == LET dev == t[x].packet.dev
           IN /\ At(x, "find")
              /\ IF dev \in devices
                 THEN Goes(x, IF dev = "src" THEN "readed" ELSE "writed") /\ UNCHANGED <<io, asserted>>
                 ELSE Fail(165) /\ UNCHANGED t
              /\ UNCHANGED <<main, started, counters, devices, packets>>

onReaded(x) ==
  /\ \/ /\ At(x, "readed") /\ Goes(x, "counted")
        /\ pendingRead' = pendingRead - 1
        /\ UNCHANGED <<pendingWrite, io, asserted>>
     \/ /\ At(x, "counted") /\ Goes(x, "copy")
        /\ pendingWrite' = pendingWrite + 1
        /\ UNCHANGED <<pendingRead, io, asserted>>
     \/ /\ At(x, "copy") /\ Ends(x)
        /\ \/ Submit("dest", t[x].packet.buf, t[x].packet.block) /\ UNCHANGED asserted
           \/ Refused("dest", t[x].packet.block) /\ Fail(299)
        /\ UNCHANGED <<pendingRead, pendingWrite>>
  /\ UNCHANGED <<main, started, remain, offset, devices, packets>>

(* The last read may be refused, which nobody looks at.                    *)
onWrited(x) ==
  /\ \/ /\ At(x, "writed") /\ Goes(x, "more")
        /\ pendingWrite' = pendingWrite - 1
        /\ UNCHANGED <<remain, offset, io>>
     \/ /\ At(x, "more")
        /\ IF remain = 0 THEN Ends(x) ELSE Goes(x, "take")
        /\ UNCHANGED <<remain, pendingWrite, offset, io>>
     \/ /\ At(x, "take") /\ Goes(x, "next")
        /\ remain' = remain - 1
        /\ UNCHANGED <<pendingWrite, offset, io>>
     \/ /\ At(x, "next") /\ Ends(x)
        /\ offset' = offset + 1
        /\ \/ Submit("src", t[x].packet.buf, offset)
           \/ Refused("src", offset) /\ UNCHANGED io
        /\ UNCHANGED <<remain, pendingWrite>>
  /\ UNCHANGED <<main, started, pendingRead, devices, packets, asserted>>

Next == \/ CountBlock \/ CountRead \/ StartRead \/ Poll \/ Close \/ Complete
        \/ \E x \in Threads : TakePacket(x) \/ Find(x) \/ onReaded(x) \/ onWrited(x)

Spec == Init /\ [][Next]_vars
-----------------------------------------------------------------------------
(* When a completion comes, the callback of its file is still registered:  *)
(* main does not destroy the files while a request is under way.           *)
CallbackFound == asserted # 165
=============================================================================
