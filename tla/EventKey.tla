------------------------------ MODULE EventKey ------------------------------
(***************************************************************************)
(* Scheduler::EventKey: what every scheduler orders events by.  Contexts   *)
(* and implementations are left out, no scheduler looks at them.           *)
(***************************************************************************)
EXTENDS Integers

Event == [ts : Nat, uid : Nat]

(* operator< *)
KeyLess(a, b) == a.ts < b.ts \/ (a.ts = b.ts /\ a.uid < b.uid)

(* The event of S before all others, if S has one. *)
EarliestOf(S) == CHOOSE e \in S : \A f \in S \ {e} : KeyLess(e, f)
=============================================================================
