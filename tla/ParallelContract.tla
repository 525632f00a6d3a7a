-------------------------- MODULE ParallelContract --------------------------
(***************************************************************************)
(* What a parallel simulation promises, whatever keeps its ranks together: *)
(* every rank has a clock and events due at or after it, an event is       *)
(* accepted by a rank at any time that is not before the rank's clock, and *)
(* a rank only ever runs the earliest event that any rank has accepted for *)
(* it.                                                                     *)
(***************************************************************************)
EXTENDS Naturals

CONSTANTS Ranks,
          MaxTime   \* bound: time stamps of events

VARIABLES now,      \* the clock of every rank
          pending   \* how many events of every rank are due at every time

vars == <<now, pending>>

Init == /\ now = [r \in Ranks |-> 0]
        /\ pending = [r \in Ranks |-> [t \in 0..MaxTime |-> 0]]

Accept(r, t) == /\ now[r] <= t
                /\ pending'[r][t] = pending[r][t] + 1
                /\ \A s \in Ranks : \A u \in 0..MaxTime :
                      <<s, u>> # <<r, t>> => pending'[s][u] = pending[s][u]
                /\ UNCHANGED now

Execute(r, t) == /\ pending[r][t] > 0
                 /\ \A u \in 0..t-1 : pending[r][u] = 0
                 /\ now' = [now EXCEPT ![r] = t]
                 /\ pending' = [pending EXCEPT ![r][t] = @ - 1]

Next == \E r \in Ranks, t \in 0..MaxTime : Accept(r, t) \/ Execute(r, t)

Spec == Init /\ [][Next]_vars
=============================================================================
