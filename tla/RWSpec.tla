------------------------------- MODULE RWSpec -------------------------------
(***************************************************************************)
(* What a readers-writer lock promises its callers: a set of threads holds *)
(* it for reading or one thread holds it for writing, never both.  The     *)
(* three lock classes of C++/ReaderWriterLock/main.cpp (ReaderWriterLock,  *)
(* ReaderWriterLock2, PosixReaderWriterLock) share this interface;         *)
(* modules RWLock and RWLock2 are shown to implement it.                   *)
(***************************************************************************)
CONSTANTS Readers, Writers

VARIABLES reading, writing   \* the threads holding the lock in each mode

Init == reading = {} /\ writing = {}

LockRead(r)    == /\ writing = {}
                  /\ r \notin reading
                  /\ reading' = reading \union {r}
                  /\ UNCHANGED writing

UnlockRead(r)  == /\ r \in reading
                  /\ reading' = reading \ {r}
                  /\ UNCHANGED writing

LockWrite(w)   == /\ writing = {}
                  /\ reading = {}
                  /\ writing' = {w}
                  /\ UNCHANGED reading

UnlockWrite(w) == /\ w \in writing
                  /\ writing' = {}
                  /\ UNCHANGED reading

Next == \/ \E r \in Readers : LockRead(r) \/ UnlockRead(r)
        \/ \E w \in Writers : LockWrite(w) \/ UnlockWrite(w)

Spec == Init /\ [][Next]_<<reading, writing>>
=============================================================================
