------------------------------ MODULE PoolSpec ------------------------------
(***************************************************************************)
(* What the thread pool of C++/ThreadPool/main.cpp promises its client:    *)
(* every task is started at most once, in the order the tasks were posted; *)
(* join returns when every task of the result has finished; and when the   *)
(* destructor has returned no task is running and none will be started.    *)
(***************************************************************************)
EXTENDS Naturals, Sequences

VARIABLES batchOf, \* the result object each task was posted with, 0 for none
          waiting, \* tasks posted and not started
          running, \* tasks started and not finished
          done,    \* tasks finished
          joined,  \* result objects whose join has returned
          closed   \* the destructor has returned

vars == <<batchOf, waiting, running, done, joined, closed>>

Init == /\ batchOf = <<>> /\ waiting = <<>>
        /\ running = {} /\ done = {} /\ joined = {}
        /\ closed = FALSE

Post(b) == /\ ~closed /\ b \notin joined
           /\ batchOf' = Append(batchOf, b)
           /\ waiting' = Append(waiting, Len(batchOf) + 1)
           /\ UNCHANGED <<running, done, joined, closed>>

Start == /\ ~closed /\ waiting # <<>>
         /\ Head(waiting) \notin running \union done
         /\ waiting' = Tail(waiting)
         /\ running' = running \union {Head(waiting)}
         /\ UNCHANGED <<batchOf, done, joined, closed>>

Finish(t) == /\ t \in running
             /\ running' = running \ {t}
             /\ done' = done \union {t}
             /\ UNCHANGED <<batchOf, waiting, joined, closed>>

Join(b) == /\ b > 0 /\ b \notin joined
           /\ \A t \in DOMAIN batchOf : batchOf[t] = b => t \in done
           /\ joined' = joined \union {b}
           /\ UNCHANGED <<batchOf, waiting, running, done, closed>>

Close == /\ running = {}
         /\ closed' = TRUE
         /\ UNCHANGED <<batchOf, waiting, running, done, joined>>

Next == \/ \E b \in 0 .. Len(batchOf) + 1 : Post(b) \/ Join(b)
        \/ Start
        \/ \E t \in running : Finish(t)
        \/ Close

Spec == Init /\ [][Next]_vars
=============================================================================
