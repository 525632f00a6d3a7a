-------------------------------- MODULE Tape --------------------------------
(***************************************************************************)
(* The two queues that ChartManager and ScenarioLogWidget keep: the events *)
(* to come, soonest first, and the undo events, latest last.               *)
(***************************************************************************)
EXTENDS Integers, Sequences

Seqs == INSTANCE SequencesExt

(* How many elements at the front of s the loop takes before it stops.     *)
FrontRun(s, Test(_)) ==
    LET stop == Seqs!SelectInSeq(s, LAMBDA x : ~Test(x))
    IN  IF stop = 0 THEN Len(s) ELSE stop - 1

(* timeAdvanced: the events that are handled at a time. *)
Due(events, time) ==
    LET IsDue(e) == ~(e.time > time)
    IN  SubSeq(events, 1, FrontRun(events, IsDue))

(* timeRewound: the undo events that are handled, in the order they are. *)
Undue(undoEvents, time) ==
    LET IsUndone(u) == ~(time > u.event.time)
        backwards == Seqs!Reverse(undoEvents)
    IN  SubSeq(backwards, 1, FrontRun(backwards, IsUndone))

Rest(s, n) == SubSeq(s, n + 1, Len(s))
Without(s, n) == SubSeq(s, 1, Len(s) - n)

Events(undoEvents) == [i \in DOMAIN undoEvents |-> undoEvents[i].event]

=============================================================================
