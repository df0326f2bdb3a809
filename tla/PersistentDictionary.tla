------------------------ MODULE PersistentDictionary ------------------------
(***************************************************************************)
(* PersistentDictionary of C#/PersistentDictionary/Main.cs: a dictionary   *)
(* in memory, a write-ahead log on disk that is replayed when the          *)
(* dictionary is opened, and ShrinkWriteAheadLog, which replaces the log   *)
(* by a snapshot of the dictionary.  The process may be killed between any *)
(* two steps, and in the middle of a write; what it had handed to the      *)
(* operating system stays.  Each operation on a file is a step.            *)
(* A record that a crash cut is <<"cut">> when it ends before its value,   *)
(* which the reader notices, and has the value Short when it ends inside   *)
(* it, which ReadBytes does not notice.                                    *)
(***************************************************************************)
EXTENDS Naturals, Sequences, SequencesExt

CONSTANTS Keys, Vals,
          Nothing,   \* no value: the key is absent
          Short,     \* a value that lost its end in a crash
          Interval,  \* ShrinkWriteAheadLogInterval
          MaxOps,    \* bound on the operations
          MaxCrashes \* bound on the crashes

(* The keys are those that a client uses: finitely many, of any number.    *)
ASSUME PDAssumption == /\ Keys # {} /\ IsFiniteSet(Keys)
                       /\ Nothing \notin Vals \union {Short} /\ Short \notin Vals
                       /\ Interval \in Nat /\ MaxOps \in Nat /\ MaxCrashes \in Nat

VARIABLES
  client,     \* "benchmark" asks Contains before an operation, "console" does not
  AutoFlush,
  pc, after,  \* the next step, and where ShrinkWriteAheadLog returns to
  op,         \* the record of the operation in progress
  mDictionary, mVersion,
  mBuffer,    \* records that mWriteAheadLogWriter holds back
  log, temp,  \* the files at mWriteAheadLogPath and beside it
  ops, crashes,
  (* What the properties remember.                                         *)
  missed,     \* the record that the last shrinking dropped
  snap,       \* how many records of the log are its snapshot
  before,     \* the dictionary when the process ended
  doubt,      \* the keys whose value a crash put in doubt
  unrenamed   \* it was killed between the deletion of the log and the renaming

memory == <<mDictionary, mVersion, mBuffer>>
setup  == <<client, AutoFlush, ops, crashes>>
ghosts == <<missed, snap, before, doubt, unrenamed>>
vars == <<setup, pc, after, op, memory, log, temp, ghosts>>

Record == [act : {"A", "U"}, key : Keys, val : Vals]
            \union [act : {"R"}, key : Keys, val : {Nothing}]
NoOp   == [act |-> "none"]
Cut    == [act |-> "cut"]
NoFile == <<NoOp>>   \* a content that no file has
Broken == <<>>       \* the replay ended with an exception
Empty  == [k \in Keys |-> Nothing]

Dictionaries == [Keys -> Vals \union {Nothing, Short}]
-----------------------------------------------------------------------------
(* What an operation does to the dictionary in memory: Add of a key that   *)
(* is present throws and changes nothing.                                  *)
Perform(d, r) ==
  IF r.act \in {"U", "R"} \/ (r.act = "A" /\ d[r.key] = Nothing)
  THEN [d EXCEPT ![r.key] = r.val] ELSE d

(* One round of ReplayWriteAheadLog: there the exception is not caught.    *)
ReplayOne(d, r) ==
  IF d = Broken \/ (r.act = "A" /\ d[r.key] # Nothing) THEN Broken ELSE Perform(d, r)

Replay(file) == FoldLeft(ReplayOne, Empty, file)

(* The snapshots: an 'A' record for each key, in any order.                *)
Snapshots(d) == SetToSeqs({[act |-> "A", key |-> k, val |-> d[k]] : k \in {j \in Keys : d[j] # Nothing}})

(* A record that was written in part.                                      *)
Torn(r) == {Cut} \union (IF r.act = "R" THEN {} ELSE {[r EXCEPT !.val = Short]})

(* What may have reached the file of the records handed to the writer.     *)
Written(records) ==
  {SubSeq(records, 1, n) : n \in 0 .. Len(records)}
    \union UNION {{Append(SubSeq(records, 1, n), t) : t \in Torn(records[n + 1])} :
                    n \in 0 .. Len(records) - 1}
-----------------------------------------------------------------------------
Init == /\ client \in {"benchmark", "console"} /\ AutoFlush \in BOOLEAN
        /\ pc = "closed" /\ after = "idle" /\ op = NoOp
        /\ mDictionary = Empty /\ mVersion = 0 /\ mBuffer = <<>>
        /\ log = NoFile /\ temp = NoFile
        /\ ops = 0 /\ crashes = 0
        /\ missed = NoOp /\ snap = 0 /\ before = Empty /\ doubt = {} /\ unrenamed = FALSE

Shrink(from, to) == /\ pc = from /\ pc' = "deleteTemp"
                    /\ after' = to

(* The constructor; an exception of the replay leaves no object.           *)
Open == /\ Shrink("closed", "idle")
        /\ log # NoFile => Replay(log) # Broken
        /\ mDictionary' = IF log = NoFile THEN Empty ELSE Replay(log)
        /\ mVersion' = 0 /\ mBuffer' = <<>>
        /\ missed' = NoOp /\ snap' = 0 /\ unrenamed' = FALSE
        /\ UNCHANGED <<setup, op, log, temp, before, doubt>>

(* Mutant: the benchmark adds without asking.                              *)
AllowsAll(r) == r \in Record

(* The console calls what the user types, the benchmark what makes sense.  *)
Allows(r) == client = "benchmark" => (r.act = "A" <=> mDictionary[r.key] = Nothing)

(* Add, Remove and the indexer: AppendWriteAheadLog fills the writer.      *)
Call(r) == /\ pc = "idle" /\ pc' = "flush"
           /\ ops < MaxOps /\ ops' = ops + 1
           /\ Allows(r)
           /\ op' = r
           /\ mBuffer' = Append(mBuffer, r)
           /\ UNCHANGED <<client, AutoFlush, crashes, after, mDictionary, mVersion, log, temp, ghosts>>

FlushNow == /\ log' = log \o mBuffer
            /\ mBuffer' = <<>>

(* The rest of AppendWriteAheadLog.  The shrinking comes before the        *)
(* operation has reached mDictionary.                                      *)
AppendWriteAheadLog ==
  /\ pc = "flush"
  /\ mVersion' = mVersion + 1
  /\ IF AutoFlush THEN FlushNow ELSE UNCHANGED <<log, mBuffer>>
  /\ IF mVersion + 1 > Interval THEN Shrink("flush", "apply")
                                ELSE pc' = "apply" /\ UNCHANGED after
  /\ UNCHANGED <<setup, op, mDictionary, temp, ghosts>>

(* Mutant: Add assigns instead of throwing.                                *)
ApplyReplaces == /\ pc = "apply" /\ pc' = "idle"
                 /\ mDictionary' = [mDictionary EXCEPT ![op.key] = op.val]
                 /\ op' = NoOp
                 /\ UNCHANGED <<setup, after, mVersion, mBuffer, log, temp, ghosts>>

(* The operation on mDictionary, and its return or its exception.          *)
Apply == /\ pc = "apply" /\ pc' = "idle"
         /\ mDictionary' = Perform(mDictionary, op)
         /\ op' = NoOp
         /\ UNCHANGED <<setup, after, mVersion, mBuffer, log, temp, ghosts>>

Flush == /\ pc = "idle" /\ mBuffer # <<>>
         /\ FlushNow
         /\ UNCHANGED <<setup, pc, after, op, mDictionary, mVersion, temp, ghosts>>

(* ShrinkWriteAheadLog called by the client, and by Dispose.               *)
ShrinkCalled == /\ \E to \in {"idle", "closed"} : Shrink("idle", to)
                /\ UNCHANGED <<setup, op, memory, log, temp, ghosts>>
-----------------------------------------------------------------------------
(* ShrinkWriteAheadLog, one file operation at a time.                      *)

(* Mutant: both files are deleted before the new one is written.           *)
DeleteBoth == /\ pc = "deleteTemp" /\ pc' = "writeTemp"
              /\ temp' = NoFile /\ log' = NoFile
              /\ UNCHANGED <<setup, after, op, memory, ghosts>>

DeleteTemp == /\ pc = "deleteTemp" /\ pc' = "writeTemp"
              /\ temp' = NoFile
              /\ UNCHANGED <<setup, after, op, memory, log, ghosts>>

WriteTemp == /\ pc = "writeTemp" /\ pc' = "closeLog"
             /\ temp' \in Snapshots(mDictionary)
             /\ UNCHANGED <<setup, after, op, memory, log, ghosts>>

(* Dispose of the writer hands over what it holds back; in the constructor *)
(* there is no writer yet and mBuffer is empty.                            *)
CloseLog == /\ pc = "closeLog" /\ pc' = "deleteLog"
            /\ log' = IF mBuffer = <<>> THEN log ELSE log \o mBuffer
            /\ mBuffer' = <<>>
            /\ UNCHANGED <<setup, after, op, mDictionary, mVersion, temp, ghosts>>

DeleteLog == /\ pc = "deleteLog" /\ pc' = "move"
             /\ log' = NoFile
             /\ UNCHANGED <<setup, after, op, memory, temp, ghosts>>

Move == /\ pc = "move" /\ pc' = "openLog"
        /\ log' = temp /\ temp' = NoFile
        /\ missed' = IF after = "apply" THEN op ELSE NoOp
        /\ snap' = Len(temp)
        /\ UNCHANGED <<setup, after, op, memory, before, doubt, unrenamed>>

(* The log is opened again; the caller goes on.  Dispose closes it.        *)
OpenLog == /\ pc = "openLog" /\ pc' = after
           /\ mVersion' = IF after = "apply" THEN 0 ELSE mVersion
           /\ IF after = "closed" THEN before' = mDictionary /\ doubt' = {}
                                  ELSE UNCHANGED <<before, doubt>>
           /\ UNCHANGED <<setup, after, op, mDictionary, mBuffer, log, temp, missed, snap, unrenamed>>
-----------------------------------------------------------------------------
KeysOf(records) == {r.key : r \in {q \in Range(records) \union {op, missed} : q \notin {NoOp, Cut}}}

(* The process is killed.  Of the records held back any part may have been *)
(* written, of the temporary file any part if it was being written.        *)
Crash == /\ pc # "closed" /\ pc' = "closed"
         /\ crashes < MaxCrashes /\ crashes' = crashes + 1
         /\ IF mBuffer = <<>> THEN UNCHANGED log
                              ELSE log' \in {log \o w : w \in Written(mBuffer)}
         /\ IF pc = "writeTemp" THEN temp' \in {NoFile} \union UNION {Written(s) : s \in Snapshots(mDictionary)}
                                ELSE UNCHANGED temp
         /\ before' = mDictionary /\ doubt' = KeysOf(mBuffer) /\ unrenamed' = (pc = "move")
         /\ op' = NoOp /\ mDictionary' = Empty /\ mVersion' = 0 /\ mBuffer' = <<>>
         /\ UNCHANGED <<client, AutoFlush, ops, after, missed, snap>>

Step == Open \/ AppendWriteAheadLog \/ Apply
          \/ DeleteTemp \/ WriteTemp \/ CloseLog \/ DeleteLog \/ Move \/ OpenLog

Next == Step \/ Flush \/ ShrinkCalled \/ Crash \/ \E r \in Record : Call(r)

Spec == Init /\ [][Next]_vars
-----------------------------------------------------------------------------
TypeOK == /\ client \in {"benchmark", "console"} /\ AutoFlush \in BOOLEAN
          /\ mDictionary \in Dictionaries /\ before \in Dictionaries
          /\ mVersion \in 0 .. Interval + 1
          /\ op \in Record \union {NoOp} /\ doubt \subseteq Keys

(* While the dictionary is open the log explains it: replaying the log,    *)
(* what the writer holds back, and the one record that a shrinking inside  *)
(* AppendWriteAheadLog dropped, each at its place, gives the dictionary,   *)
(* with the operation in progress once it is recorded.                     *)
Explanation == SubSeq(log, 1, snap) \o (IF missed = NoOp THEN <<>> ELSE <<missed>>)
                 \o SubSeq(log, snap + 1, Len(log)) \o mBuffer
LogExplains ==
  pc \in {"idle", "flush", "apply"} =>
    FoldLeft(Perform, Empty, Explanation) =
      IF op = NoOp THEN mDictionary ELSE Perform(mDictionary, op)

(* The dictionary can be opened again, whenever the process was killed,    *)
(* if the client adds only what is absent, and the last shrinking did not  *)
(* drop a removal.                                                         *)
Openable == (client = "benchmark" /\ missed.act # "R" /\ log # NoFile) => Replay(log) # Broken

(* A dictionary that was closed, or whose process was killed, is what the  *)
(* next start reads from the log, the temporary file being deleted unread. *)
(* Only the keys of operations that were not over, not flushed or dropped  *)
(* by a shrinking may have another value.  It is lost in two ways, which   *)
(* are excepted: the process was killed between the deletion of the log    *)
(* and the renaming, and the log cannot be replayed because a client added *)
(* what was present or the last shrinking dropped a removal.               *)
Recovered  == IF log = NoFile THEN Empty ELSE Replay(log)
Unreadable == Recovered = Broken /\ (client = "console" \/ missed.act = "R")
Survives ==
  pc = "closed" /\ ~unrenamed /\ ~Unreadable =>
    Recovered # Broken /\ \A k \in Keys \ doubt : Recovered[k] = before[k]
=============================================================================
