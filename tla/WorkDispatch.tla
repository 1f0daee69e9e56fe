---------------------------- MODULE WorkDispatch ----------------------------
(***************************************************************************)
(* What a workqueue promises its callers (src/tal_system/src/              *)
(* tal_workqueue.c), with no semaphore, no thread state and no program     *)
(* counters: a bounded list of accepted work, started one piece at a time  *)
(* from the front, cancelled in place, and closed when it is released.     *)
(* Module WorkQueue implements this specification.                         *)
(***************************************************************************)
EXTENDS Integers, Sequences

CONSTANTS Capacity,   \* how many pieces of work the list holds
          Items,      \* the pieces of work: records with a field cb
          NULL        \* the null pointer

VARIABLES pending,    \* accepted work, in dispatch order
          current,    \* the work whose callback runs, or NULL
          started,    \* every piece of work whose callback was called, in order
          closed      \* the workqueue has been released

dispatchVars == <<pending, current, started, closed>>

DispatchInit ==
    /\ pending = << >>
    /\ current = NULL
    /\ started = << >>
    /\ closed = FALSE

\* Work is accepted at the back, or at the front when it is instant.
Accept(item) ==
    /\ ~closed
    /\ Len(pending) < Capacity
    /\ pending' \in {Append(pending, item), <<item>> \o pending}
    /\ UNCHANGED <<current, started, closed>>

\* A cancellation disarms some of the waiting work and moves nothing.
Disarm ==
    /\ ~closed
    /\ \E S \in SUBSET (1..Len(pending)) :
         pending' = [i \in 1..Len(pending) |->
                       IF i \in S THEN [pending[i] EXCEPT !.cb = NULL]
                                  ELSE pending[i]]
    /\ UNCHANGED <<current, started, closed>>

\* The front of the list leaves it; its callback is called unless disarmed.
Start ==
    /\ ~closed
    /\ current = NULL
    /\ pending # << >>
    /\ pending' = Tail(pending)
    /\ IF Head(pending).cb = NULL
       THEN UNCHANGED <<current, started>>
       ELSE /\ current' = Head(pending)
            /\ started' = Append(started, Head(pending))
    /\ UNCHANGED closed

Finish ==
    /\ current # NULL
    /\ current' = NULL
    /\ UNCHANGED <<pending, started, closed>>

\* Only an idle workqueue closes; what still waits is dropped.
Close ==
    /\ ~closed
    /\ current = NULL
    /\ closed' = TRUE
    /\ pending' = << >>
    /\ UNCHANGED <<current, started>>

DispatchNext ==
    \/ \E item \in Items : Accept(item)
    \/ Disarm
    \/ Start
    \/ Finish
    \/ Close

DispatchSpec == DispatchInit /\ [][DispatchNext]_dispatchVars
=============================================================================
