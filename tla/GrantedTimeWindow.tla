------------------------- MODULE GrantedTimeWindow --------------------------
(***************************************************************************)
(* The conservative parallel simulator: one ns3::DistributedSimulatorImpl  *)
(* per MPI rank, the messages of GrantedTimeWindowMpiInterface between     *)
(* them, and the collectives they meet in.  Every rank runs its events up  *)
(* to a granted time; when it has none left it receives what has arrived   *)
(* and joins an MPI_Allgather, from which every rank computes the lower    *)
(* bound on the time stamps of all events to come (LBTS) and a new grant.  *)
(*                                                                         *)
(* A counter of messages is the set of the messages it counted, so that a  *)
(* total is the union of the ranks' disjoint sets.                         *)
(***************************************************************************)
EXTENDS Integers, FiniteSets

CONSTANTS Ranks,
          Links,       \* remote channels: [ends : two ranks, delay : Nat]
          Bounds,      \* what user code passes to BoundLookAhead
          Infinity,    \* Time::Max(), 2^63 - 1 in the code
          Delays,      \* the delays user code asks for
          TxTimes,     \* transmission times of packets
          MaxTime,     \* bound: time stamps of events
          MaxEvents,   \* bound: events scheduled and packets sent
          MaxRuns      \* bound: calls of Run on a rank

ASSUME LinksAssumption ==
    /\ IsFiniteSet(Ranks)
    /\ Links \subseteq [ends : SUBSET Ranks, delay : Nat]
ASSUME TimesAssumption ==
    /\ Bounds \subseteq Int /\ Delays \subseteq Nat /\ TxTimes \subseteq Nat
    /\ Infinity \in Nat /\ MaxTime \in Nat /\ MaxTime < Infinity
    /\ \A l \in Links : l.delay < Infinity
(* "Overflow is possible here if near end of representable time":  the      *)
(* time stamps of events stay away from there.                             *)
ASSUME OverflowAssumption ==
    /\ \A l \in Links : MaxTime + l.delay <= Infinity
    /\ \A b \in Bounds : MaxTime + b <= Infinity
ASSUME BoundsAssumption == MaxEvents \in Nat /\ MaxRuns \in Nat

VARIABLES
    \* DistributedSimulatorImpl, for every rank
    m_events, m_currentTs, m_uid, m_stop, m_lookAhead, m_grantedTime,
    m_globalFinished,
    m_pLBTS,          \* every rank's array of LbtsMessages
    pc,
    \* GrantedTimeWindowMpiInterface
    g_txCount,        \* the messages each rank has sent
    g_rxCount,        \* ... and received
    net,              \* MPI: the messages in flight
    made,             \* history: events scheduled and packets sent
    runs,             \* history: calls of Run, by rank
    lbts              \* history: the last LBTS computed

sim == <<m_currentTs, m_stop>>
window == <<m_lookAhead, m_grantedTime, m_globalFinished, m_pLBTS>>
queue == <<m_events, m_uid>>
mpi == <<g_txCount, g_rxCount, net>>
history == <<made, runs, lbts>>
vars == <<sim, window, queue, mpi, pc, history>>

(* operator< on Scheduler::EventKey, and what PeekNext returns. *)
KeyLess(a, b) == a.ts < b.ts \/ (a.ts = b.ts /\ a.uid < b.uid)
Earliest(r) == {e \in m_events[r] : \A f \in m_events[r] : ~KeyLess(f, e)}

Smallest(S) == {t \in S : \A u \in S : t <= u}
Largest(S) == {t \in S : \A u \in S : u <= t}

(* A sum of two times in an int64_t. *)
Int64(t) == IF t > Infinity THEN t - 2 * (Infinity + 1) ELSE t

LinksOf(r) == {l \in Links : r \in l.ends}

(* The ends of CalculateLookAhead's minimum; 0 if there is only one rank.  *)
LinkDelaysLastOnly(r) == Largest({l.delay : l \in LinksOf(r)})  \* mutant

LinkDelays(r) == IF Ranks = {r} THEN {0} ELSE {l.delay : l \in LinksOf(r)}

IsLocalFinished(r) == m_events[r] = {} \/ m_stop[r]

NextTs(r) == IF IsLocalFinished(r)
             THEN {Infinity}
             ELSE {e.ts : e \in Earliest(r)}

NoMessage == [rx |-> {}, tx |-> {}, isFinished |-> FALSE, smallestTime |-> 0]

Init == /\ m_events = [r \in Ranks |-> {}]
        /\ m_currentTs = [r \in Ranks |-> 0]
        /\ m_uid = [r \in Ranks |-> 4]
        /\ m_stop = [r \in Ranks |-> FALSE]
        /\ m_lookAhead = [r \in Ranks |-> Infinity]
        /\ m_grantedTime = [r \in Ranks |-> 0]
        /\ m_globalFinished = [r \in Ranks |-> FALSE]
        /\ m_pLBTS = [r \in Ranks |-> [i \in Ranks |-> NoMessage]]
        /\ pc = [r \in Ranks |-> "user"]
        /\ g_txCount = [r \in Ranks |-> {}]
        /\ g_rxCount = [r \in Ranks |-> {}]
        /\ net = {}
        /\ made = 0
        /\ runs = [r \in Ranks |-> 0]
        /\ lbts = 0

Goto(r, label) == pc' = [pc EXCEPT ![r] = label]

---------------------------------------------------------------------------
(* What user code does on a rank, before Run and inside its events.        *)

InUserCode(r) == pc[r] \in {"user", "callback"}

(* Schedule and ScheduleWithContext insert the same event. *)
Insert(r, ts) == /\ m_events' = [m_events EXCEPT ![r] = @ \cup {[ts |-> ts, uid |-> m_uid[r]]}]
                 /\ m_uid' = [m_uid EXCEPT ![r] = @ + 1]

Schedule(r, delay) ==
    /\ InUserCode(r)
    /\ made < MaxEvents
    /\ m_currentTs[r] + delay <= MaxTime
    /\ Insert(r, m_currentTs[r] + delay)
    /\ made' = made + 1
    /\ UNCHANGED <<sim, window, mpi, pc, runs, lbts>>

Stop(r) == /\ InUserCode(r)
           /\ m_stop' = [m_stop EXCEPT ![r] = TRUE]
           /\ UNCHANGED <<m_currentTs, window, queue, mpi, pc, history>>

BoundLookAheadAnySign(r, lookAhead) ==  \* mutant
    /\ InUserCode(r)
    /\ lookAhead < m_lookAhead[r]
    /\ m_lookAhead' = [m_lookAhead EXCEPT ![r] = lookAhead]
    /\ UNCHANGED <<sim, m_grantedTime, m_globalFinished, m_pLBTS, queue, mpi,
                   pc, history>>

BoundLookAhead(r, lookAhead) ==
    /\ InUserCode(r)
    /\ lookAhead > 0
    /\ lookAhead < m_lookAhead[r]
    /\ m_lookAhead' = [m_lookAhead EXCEPT ![r] = lookAhead]
    /\ UNCHANGED <<sim, m_grantedTime, m_globalFinished, m_pLBTS, queue, mpi,
                   pc, history>>

(* A device of r transmits on a remote channel: TransmitStart of           *)
(* PointToPointRemoteChannel, then SendPacket.                             *)
SendPacket(r, link, txTime) ==
    LET rxTime == m_currentTs[r] + txTime + link.delay
    IN  /\ pc[r] = "callback"
        /\ r \in link.ends
        /\ made < MaxEvents
        /\ rxTime <= MaxTime
        /\ \E to \in link.ends \ {r} :
              net' = net \cup {[id |-> made + 1, to |-> to, ts |-> rxTime]}
        /\ g_txCount' = [g_txCount EXCEPT ![r] = @ \cup {made + 1}]
        /\ made' = made + 1
        /\ UNCHANGED <<sim, window, queue, g_rxCount, pc, runs, lbts>>

Return(r) == /\ pc[r] = "callback"
             /\ Goto(r, "loop")
             /\ UNCHANGED <<sim, window, queue, mpi, history>>

---------------------------------------------------------------------------
(* Run: CalculateLookAhead ... *)

Run(r) ==
    /\ pc[r] = "user"
    /\ runs[r] < MaxRuns
    /\ runs' = [runs EXCEPT ![r] = @ + 1]
    /\ \E least \in Smallest(LinkDelays(r) \cup {m_lookAhead[r]}) :
          /\ m_lookAhead' = [m_lookAhead EXCEPT ![r] = least]
          /\ m_grantedTime' = [m_grantedTime EXCEPT ![r] = least]
    /\ Goto(r, "allreduce")
    /\ UNCHANGED <<sim, m_globalFinished, m_pLBTS, queue, mpi, made, lbts>>

(* ... MPI_Allreduce, which nobody leaves before everybody has entered it. *)
Contribution(r) == IF m_lookAhead[r] = Infinity THEN 0 ELSE m_lookAhead[r]

Allreduce ==
    /\ \A r \in Ranks : pc[r] = "allreduce"
    /\ pc' = [r \in Ranks |-> "reduced"]
    /\ \E recvbuf \in Largest({Contribution(r) : r \in Ranks}) :
          LET noLink == {r \in Ranks : m_lookAhead[r] = Infinity /\ recvbuf # 0}
          IN  /\ m_lookAhead' = [r \in Ranks |->
                    IF r \in noLink THEN recvbuf ELSE m_lookAhead[r]]
              /\ m_grantedTime' = [r \in Ranks |->
                    IF r \in noLink THEN recvbuf ELSE m_grantedTime[r]]
    /\ UNCHANGED <<sim, m_globalFinished, m_pLBTS, queue, mpi, history>>

StartLoop(r) ==
    /\ pc[r] = "reduced"
    /\ m_stop' = [m_stop EXCEPT ![r] = FALSE]
    /\ m_globalFinished' = [m_globalFinished EXCEPT ![r] = FALSE]
    /\ Goto(r, "loop")
    /\ UNCHANGED <<m_currentTs, m_lookAhead, m_grantedTime, m_pLBTS, queue, mpi,
                   history>>

---------------------------------------------------------------------------
(* Run's loop. *)

InWindow(r) == ~IsLocalFinished(r) /\ \A t \in NextTs(r) : t <= m_grantedTime[r]

LoopHead(r) ==
    /\ pc[r] = "loop"
    /\ Goto(r, IF m_globalFinished[r] THEN "user"
               ELSE IF InWindow(r) THEN "execute" ELSE "receive")
    /\ UNCHANGED <<sim, window, queue, mpi, history>>

(* One turn of ReceiveMessages' loop.  MPI_Testany gives any message that  *)
(* has arrived, and none of the messages in flight need have arrived.      *)
ReceiveMessageRelative(r, m) ==  \* mutant
    /\ pc[r] = "receive"
    /\ m.to = r
    /\ net' = net \ {m}
    /\ g_rxCount' = [g_rxCount EXCEPT ![r] = @ \cup {m.id}]
    /\ Insert(r, m_currentTs[r] + m.ts)
    /\ UNCHANGED <<sim, window, g_txCount, pc, history>>

ReceiveMessageUncounted(r, m) ==  \* mutant
    /\ pc[r] = "receive"
    /\ m.to = r
    /\ net' = net \ {m}
    /\ Insert(r, m.ts)
    /\ UNCHANGED <<sim, window, g_txCount, g_rxCount, pc, history>>

ReceiveMessage(r, m) ==
    /\ pc[r] = "receive"
    /\ m.to = r
    /\ net' = net \ {m}
    /\ g_rxCount' = [g_rxCount EXCEPT ![r] = @ \cup {m.id}]
    /\ Insert(r, m.ts)
    /\ UNCHANGED <<sim, window, g_txCount, pc, history>>

(* MPI_Testany gives nothing; the rank enters MPI_Allgather. *)
EnterAllgather(r) ==
    /\ pc[r] = "receive"
    /\ \E nextTime \in NextTs(r) :
          m_pLBTS' = [m_pLBTS EXCEPT ![r][r] =
             [rx |-> g_rxCount[r], tx |-> g_txCount[r],
              isFinished |-> IsLocalFinished(r), smallestTime |-> nextTime]]
    /\ Goto(r, "allgather")
    /\ UNCHANGED <<sim, m_lookAhead, m_grantedTime, m_globalFinished, queue, mpi,
                   history>>

TotRx(messages) == UNION {messages[i].rx : i \in Ranks}
TotTx(messages) == UNION {messages[i].tx : i \in Ranks}
NoTransientUnchecked(messages) == TRUE  \* mutant
NoTransient(messages) ==
    Cardinality(TotRx(messages)) = Cardinality(TotTx(messages))
LargestTimes(messages) == Largest({messages[i].smallestTime : i \in Ranks})  \* mutant
SmallestTimes(messages) == Smallest({messages[i].smallestTime : i \in Ranks})

(* The global halting condition. *)
AllFinishedUncounted(messages) == \A i \in Ranks : messages[i].isFinished  \* mutant
AllFinished(messages) ==
    (\A i \in Ranks : messages[i].isFinished) /\ NoTransient(messages)

(* MPI_Allgather gives everybody the message of everybody. *)
Allgather ==
    /\ \A r \in Ranks : pc[r] = "allgather"
    /\ pc' = [r \in Ranks |-> "gathered"]
    /\ \E all \in {[i \in Ranks |-> m_pLBTS[i][i]]} :
          /\ m_pLBTS' = [r \in Ranks |-> all]
          /\ \E smallestTime \in SmallestTimes(all) :
                lbts' = IF NoTransient(all) THEN smallestTime ELSE lbts
    /\ UNCHANGED <<sim, m_lookAhead, m_grantedTime, m_globalFinished, queue, mpi,
                   made, runs>>

ComputeGrant(r) ==
    LET messages == m_pLBTS[r]
    IN  /\ pc[r] = "gathered"
        /\ m_globalFinished' = [m_globalFinished EXCEPT ![r] = AllFinished(messages)]
        /\ \E smallestTime \in SmallestTimes(messages) :
              m_grantedTime' = [m_grantedTime EXCEPT ![r] =
                 IF ~NoTransient(messages) THEN @
                 ELSE IF m_lookAhead[r] = Infinity THEN Infinity
                 ELSE Int64(smallestTime + m_lookAhead[r])]
        /\ UNCHANGED <<sim, m_lookAhead, m_pLBTS, queue, mpi, history>>
        /\ Goto(r, IF InWindow(r)' THEN "execute" ELSE "loop")

(* ProcessOneEvent, up to Invoke. *)
ProcessOneEvent(r) ==
    /\ pc[r] = "execute"
    /\ \E next \in Earliest(r) :
          /\ m_events' = [m_events EXCEPT ![r] = @ \ {next}]
          /\ m_currentTs' = [m_currentTs EXCEPT ![r] = next.ts]
    /\ Goto(r, "callback")
    /\ UNCHANGED <<m_stop, window, m_uid, mpi, history>>

---------------------------------------------------------------------------

UserCall(r) == \/ \E d \in Delays : Schedule(r, d)
               \/ Stop(r)
               \/ \E b \in Bounds : BoundLookAhead(r, b)
               \/ \E l \in Links, t \in TxTimes : SendPacket(r, l, t)

Receive(r) == \E m \in net : ReceiveMessage(r, m)

Simulator(r) == \/ Return(r) \/ StartLoop(r) \/ LoopHead(r) \/ EnterAllgather(r)
                \/ ComputeGrant(r) \/ ProcessOneEvent(r)

Collective == Allreduce \/ Allgather

(* Every rank has made its last call of Run. *)
Finished == /\ \A r \in Ranks : pc[r] = "user" /\ runs[r] = MaxRuns
            /\ UNCHANGED vars

Next == \/ \E r \in Ranks : UserCall(r) \/ Run(r) \/ Receive(r) \/ Simulator(r)
        \/ Collective
        \/ Finished

Spec == Init /\ [][Next]_vars

(* Events return, collectives complete, processes are scheduled; a message *)
(* sent is found by MPI_Testany if the receiver polls again and again.     *)
Fairness == /\ \A r \in Ranks : WF_vars(Simulator(r)) /\ SF_vars(Receive(r))
            /\ WF_vars(Collective)

FairSpec == Spec /\ Fairness

---------------------------------------------------------------------------
(* What the ranks must keep. *)

Event == [ts : Nat, uid : Nat]
LbtsMessage == [rx : SUBSET Nat, tx : SUBSET Nat, isFinished : BOOLEAN,
                smallestTime : Nat]

TypeOK ==
    /\ m_events \in [Ranks -> SUBSET Event]
    /\ m_currentTs \in [Ranks -> Nat]
    /\ m_uid \in [Ranks -> Nat]
    /\ m_stop \in [Ranks -> BOOLEAN]
    /\ m_lookAhead \in [Ranks -> 0..Infinity]
    /\ m_grantedTime \in [Ranks -> Int]
    /\ m_globalFinished \in [Ranks -> BOOLEAN]
    /\ m_pLBTS \in [Ranks -> [Ranks -> LbtsMessage]]
    /\ pc \in [Ranks -> {"user", "allreduce", "reduced", "loop", "receive",
                         "allgather", "gathered", "execute", "callback"}]
    /\ g_txCount \in [Ranks -> SUBSET Nat]
    /\ g_rxCount \in [Ranks -> SUBSET Nat]
    /\ net \subseteq [id : Nat, to : Ranks, ts : Nat]
    /\ made \in Nat
    /\ runs \in [Ranks -> Nat]
    /\ lbts \in Nat

(* ProcessOneEvent's assertion (next.key.m_ts >= m_currentTs) never fails: *)
(* no event, and no message wherever it is, is due before the clock of the *)
(* rank it is for, however far that rank ran ahead of the sender.          *)
NeverLate == /\ \A r \in Ranks : \A e \in m_events[r] : e.ts >= m_currentTs[r]
             /\ \A m \in net : m.ts >= m_currentTs[m.to]

InRun(r) == pc[r] \notin {"user", "allreduce", "reduced"}

(* A grant is a promise: no message that is in flight to a rank, and none  *)
(* that a neighbour may still send it from an event it has, comes before   *)
(* the time granted to the rank.                                           *)
GrantIsSafe ==
    \A r \in Ranks : InRun(r) =>
        /\ \A m \in net : m.to = r => m.ts >= m_grantedTime[r]
        /\ \A l \in LinksOf(r) : \A s \in l.ends \ {r} : InRun(s) =>
              /\ ~m_stop[s] => \A e \in m_events[s] :
                                 e.ts + l.delay >= m_grantedTime[r]
              /\ pc[s] = "callback" =>
                    m_currentTs[s] + l.delay >= m_grantedTime[r]

(* When a rank leaves Run nothing is in flight, and every other rank has   *)
(* left Run or is on its way out of it: nobody is left alone in a          *)
(* collective, and no message is left without a receiver.                  *)
EndTogether ==
    \A r \in Ranks : pc[r] = "loop" /\ m_globalFinished[r] =>
        /\ net = {}
        /\ \A s \in Ranks : \/ pc[s] \in {"user", "allreduce", "gathered"}
                            \/ pc[s] = "loop" /\ m_globalFinished[s]

(* Run returns on every rank when all ranks have called it. *)
RunReturns == \A r \in Ranks : pc[r] = "reduced" ~> pc[r] = "user"

(* On every rank the events run in the order of their time stamps, as if a *)
(* packet were scheduled at its receiver when it is sent.                  *)
DueAt(S, t) == Cardinality({x \in S : x.ts = t})
Contract == INSTANCE ParallelContract WITH
    now <- m_currentTs,
    pending <- [r \in Ranks |-> [t \in 0..MaxTime |->
                  DueAt(m_events[r], t) + DueAt({m \in net : m.to = r}, t)]]

ImplementsContract == Contract!Spec
=============================================================================
