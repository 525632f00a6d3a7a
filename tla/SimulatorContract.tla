------------------------- MODULE SimulatorContract -------------------------
(***************************************************************************)
(* What a sequential ns-3 simulator promises its users, whichever          *)
(* SimulatorImpl and Scheduler are behind it: an event that was accepted   *)
(* for time ts runs at most once, when the clock reads ts, after every     *)
(* pending event that is due earlier or was accepted earlier for the same  *)
(* time, unless it is dropped first (cancelled, removed, or lost with the  *)
(* simulator); the clock never goes backward and never passes a pending    *)
(* event.  An event is its time and its place in the order of acceptance.  *)
(***************************************************************************)
EXTENDS Integers, Sequences

VARIABLES now,       \* the simulation clock
          accepted,  \* how many events have been accepted so far
          pending,   \* accepted events that may still run
          log        \* the events that ran, in the order they ran

vars == <<now, accepted, pending, log>>

(* e is due before f. *)
Before(e, f) == e.ts < f.ts \/ (e.ts = f.ts /\ e.n < f.n)

Init == now = 0 /\ accepted = 0 /\ pending = {} /\ log = << >>

(* New events arrive, none due in the past, numbered after all others. *)
Accept == /\ accepted' \in Nat /\ accepted <= accepted'
          /\ pending \subseteq pending'
          /\ \A e \in pending' \ pending :
               /\ e \in [ts : Nat, n : Nat]
               /\ e.ts >= now
               /\ accepted < e.n /\ e.n <= accepted'
               /\ \A f \in pending' \ pending : e.n = f.n => e = f
          /\ UNCHANGED <<now, log>>

(* The event that is due first runs. *)
Execute == \E e \in pending :
            /\ \A f \in pending \ {e} : Before(e, f)
            /\ now' = e.ts
            /\ pending' = pending \ {e}
            /\ log' = Append(log, e)
            /\ UNCHANGED accepted

(* The clock advances without an event that counts. *)
Advance == /\ now' \in Nat /\ now <= now'
           /\ \A e \in pending : now' <= e.ts
           /\ UNCHANGED <<accepted, pending, log>>

(* Some events are dropped: they will never run. *)
Drop == /\ pending' \subseteq pending
        /\ UNCHANGED <<now, accepted, log>>

Next == Accept \/ Execute \/ Advance \/ Drop

Spec == Init /\ [][Next]_vars

---------------------------------------------------------------------------

(* The order and the count that follow from the promise: the log is in the *)
(* order of the due times, ties broken by acceptance, and no event is in   *)
(* it twice (Before is irreflexive).                                       *)
RunsInOrder ==
    \A i \in 1..Len(log) : \A j \in 1..Len(log) :
        i < j => Before(log[i], log[j])
============================================================================
