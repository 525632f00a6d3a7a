------------------------- MODULE DynamicQueueLimits -------------------------
(***************************************************************************)
(* ns3::DynamicQueueLimits: how many bytes a device may have queued.  The  *)
(* limit grows when the queue starves and shrinks when it never does.  The *)
(* counters of the code are 32 bits wide and are compared modulo 2^32; the *)
(* instances stay far below that.                                          *)
(***************************************************************************)
EXTENDS Integers

CONSTANTS HoldTime,   \* attribute HoldTime
          MinLimit,   \* attribute MinLimit
          MaxLimit    \* attribute MaxLimit

ASSUME LimitsAssumption ==
    HoldTime \in Nat /\ MinLimit \in Nat /\ MaxLimit \in Nat

UINTMAX == 2^30   \* above every slack

Least(a, b) == IF a < b THEN a ELSE b
Greatest(a, b) == IF a < b THEN b ELSE a
Difference(a, b) == a - b  \* mutant
Posdiff(a, b) == Greatest(a - b, 0)

Limits == [limit : Nat, adjLimit : Nat, numQueued : Nat, numCompleted : Nat,
           lastObjCnt : Nat, prevNumQueued : Nat, prevLastObjCnt : Nat,
           prevOvlimit : Nat, lowestSlack : Nat, slackStartTime : Nat]

(* Reset, in the constructor. *)
Reset == [limit |-> 0, adjLimit |-> 0, numQueued |-> 0, numCompleted |-> 0,
          lastObjCnt |-> 0, prevNumQueued |-> 0, prevLastObjCnt |-> 0,
          prevOvlimit |-> 0, lowestSlack |-> UINTMAX, slackStartTime |-> 0]

Queued(l, count) ==
    [l EXCEPT !.lastObjCnt = count, !.numQueued = @ + count]

Available(l) == l.adjLimit - l.numQueued

(* What Completed makes of the limit and of the slack it has seen.         *)
Grown(l, completed, now) ==
    [limit |-> l.limit + Posdiff(completed, l.prevNumQueued) + l.prevOvlimit,
     lowestSlack |-> UINTMAX, slackStartTime |-> now]

Shrunk(l, completed, now) ==
    LET slack == Greatest(
            Posdiff(l.limit + l.prevOvlimit, 2 * (completed - l.numCompleted)),
            IF l.prevOvlimit = 0 THEN 0 ELSE Posdiff(l.prevLastObjCnt, l.prevOvlimit))
        lowest == Least(slack, l.lowestSlack)
    IN  IF now > l.slackStartTime + HoldTime
        THEN [limit |-> Posdiff(l.limit, lowest),
              lowestSlack |-> UINTMAX, slackStartTime |-> now]
        ELSE [limit |-> l.limit,
              lowestSlack |-> lowest, slackStartTime |-> l.slackStartTime]

Kept(l) == [limit |-> l.limit,
            lowestSlack |-> l.lowestSlack, slackStartTime |-> l.slackStartTime]

Completed(l, count, now) ==
    LET completed == l.numCompleted + count
        ovlimit == Posdiff(l.numQueued - l.numCompleted, l.limit)
        inprogress == l.numQueued - completed
        allPrevCompleted == completed >= l.prevNumQueued
        starved == \/ ovlimit > 0 /\ inprogress = 0
                   \/ l.prevOvlimit > 0 /\ allPrevCompleted
        busy == /\ inprogress > 0
                /\ l.prevNumQueued # l.numCompleted
                /\ ~allPrevCompleted
        next == IF starved THEN Grown(l, completed, now)
                ELSE IF busy THEN Shrunk(l, completed, now) ELSE Kept(l)
        limit == Least(Greatest(next.limit, MinLimit), MaxLimit)
    IN  [limit |-> limit,
         adjLimit |-> limit + completed,
         numQueued |-> l.numQueued,
         numCompleted |-> completed,
         lastObjCnt |-> l.lastObjCnt,
         prevNumQueued |-> l.numQueued,
         prevLastObjCnt |-> l.lastObjCnt,
         prevOvlimit |-> IF limit # l.limit THEN 0 ELSE ovlimit,
         lowestSlack |-> next.lowestSlack,
         slackStartTime |-> next.slackStartTime]
=============================================================================
