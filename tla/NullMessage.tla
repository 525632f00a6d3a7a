---------------------------- MODULE NullMessage -----------------------------
(***************************************************************************)
(* The parallel simulator with null messages: one                          *)
(* ns3::NullMessageSimulatorImpl per MPI rank, its RemoteChannelBundles,   *)
(* one for each neighbour, and the messages of NullMessageMpiInterface     *)
(* between them.  A rank runs its events up to its safe time, the least    *)
(* guarantee of its neighbours, and waits for a message when its next      *)
(* event is later.  Every message carries a guarantee: a packet's is       *)
(* computed when it is sent, and a null message is sent when no packet has *)
(* been sent for a while.                                                  *)
(*                                                                         *)
(* MPI does not reorder the messages from one rank to another.             *)
(***************************************************************************)
EXTENDS EventKey, FiniteSets, Sequences

CONSTANTS Ranks,
          Links,       \* remote channels: [ends : two ranks, delay : Nat]
          Tune,        \* attribute SchedulerTune, in percent
          Starters,    \* the ranks on which the script schedules events
          StopTime,    \* the script calls Simulator::Stop(StopTime)
          Delays,      \* the delays user code asks for
          TxTimes,     \* transmission times of packets
          MaxTime,     \* bound: time stamps of user events and packets
          MaxEvents    \* bound: user events scheduled and packets sent

ASSUME LinksAssumption ==
    /\ IsFiniteSet(Ranks) /\ Ranks \subseteq Nat
    /\ Links \subseteq [ends : SUBSET Ranks, delay : Nat \ {0}]
    /\ \A l \in Links : \E r, s \in Ranks : r # s /\ l.ends = {r, s}
    /\ Starters \subseteq Ranks
ASSUME TuneAssumption == Tune \in 1..100
(* A null message is due after its predecessor.                            *)
ASSUME PeriodAssumption == \A l \in Links : Tune * l.delay >= 50
ASSUME TimesAssumption ==
    /\ StopTime \in Nat /\ MaxTime \in Nat
    /\ \A l \in Links : StopTime + l.delay <= MaxTime
    /\ Delays \subseteq Nat /\ TxTimes \subseteq Nat /\ MaxEvents \in Nat

VARIABLES
    \* NullMessageSimulatorImpl, for every rank
    m_events, m_uid, m_currentTs, m_stop, m_safeTime,
    pc,
    \* RemoteChannelBundle, for every rank and neighbour
    m_guaranteeTime, m_nullEventId,
    channel,    \* MPI: the messages from one rank to another
    sending,    \* the packet that a rank's device is about to send
    made        \* history: user events scheduled and packets sent

queue == <<m_events, m_uid>>
clock == <<m_currentTs, m_stop>>
bundles == <<m_guaranteeTime, m_nullEventId>>
vars == <<queue, clock, m_safeTime, pc, bundles, channel, sending, made>>

Neighbours == [r \in Ranks |-> {s \in Ranks \ {r} : \E l \in Links : l.ends = {r, s}}]
(* A rank without a neighbour runs as a sequential simulator.               *)
ASSUME NeighboursAssumption == \A r \in Ranks : Neighbours[r] # {}

Min(S) == CHOOSE t \in S : \A u \in S : t <= u

(* AddChannel keeps the least delay of a bundle. *)
BundleDelay(r, s) == Min({l.delay : l \in {x \in Links : x.ends = {r, s}}})
NullDelay(r, s) == (Tune * BundleDelay(r, s) + 50) \div 100   \* Time rounds

(* What an event does. *)
StopEvent == <<"stop">>
UserEvent == <<"user">>
TransmitComplete(link) == <<"complete", link>>
NullMessageEvent(s) == <<"null", s>>

NoPacket == << >>

(* Before Run the script has called Stop(StopTime) on every rank. *)
Init == /\ m_events = [r \in Ranks |-> {[ts |-> StopTime, uid |-> 4, does |-> StopEvent]}]
        /\ m_uid = [r \in Ranks |-> 5]
        /\ m_currentTs = [r \in Ranks |-> 0]
        /\ m_stop = [r \in Ranks |-> FALSE]
        /\ m_safeTime = [r \in Ranks |-> 0]
        /\ pc = [r \in Ranks |-> "user"]
        /\ m_guaranteeTime = [r \in Ranks |-> [s \in Neighbours[r] |-> 0]]
        /\ m_nullEventId = [r \in Ranks |-> [s \in Neighbours[r] |-> 0]]
        /\ channel = [r \in Ranks |-> [s \in Neighbours[r] |-> << >>]]
        /\ sending = [r \in Ranks |-> NoPacket]
        /\ made = 0

Goto(r, label) == pc' = [pc EXCEPT ![r] = label]

(* Schedule and ScheduleWithContext, which insert the same event. *)
Insert(r, ts, does) ==
    /\ m_events' = [m_events EXCEPT ![r] =
                      @ \cup {[ts |-> ts, uid |-> m_uid[r], does |-> does]}]
    /\ m_uid' = [m_uid EXCEPT ![r] = @ + 1]

NextTs(r) == EarliestOf(m_events[r]).ts
IsFinished(r) == m_events[r] = {} \/ m_stop[r]

GuaranteeTimeOfNextSend(r, s) ==  \* mutant
    Min({NextTs(r), m_safeTime[r]}) + BundleDelay(r, s) + NullDelay(r, s)

(* CalculateGuaranteeTime, with the next event of the rank's queue. *)
CalculateGuaranteeTime(r, s) ==
    Min({NextTs(r), m_safeTime[r]}) + BundleDelay(r, s)

Send(r, s, rxTime) ==
    channel' = [channel EXCEPT ![r][s] = Append(@,
        [rxTime |-> rxTime, guarantee |-> CalculateGuaranteeTime(r, s)])]

(* ScheduleNullMessageEvent. *)
ScheduleNullMessageEvent(r, s) ==
    /\ Insert(r, m_currentTs[r] + NullDelay(r, s), NullMessageEvent(s))
    /\ m_nullEventId' = [m_nullEventId EXCEPT ![r][s] = m_uid[r]]

---------------------------------------------------------------------------
(* What user code does on a rank, before Run and inside its events. *)

Schedule(r, delay) ==
    /\ (pc[r] = "user" /\ r \in Starters) \/ pc[r] = "callback"
    /\ made < MaxEvents
    /\ m_currentTs[r] + delay <= MaxTime
    /\ Insert(r, m_currentTs[r] + delay, UserEvent)
    /\ made' = made + 1
    /\ UNCHANGED <<clock, m_safeTime, pc, bundles, channel, sending>>

(* A device that is ready sends a packet on a remote channel: its          *)
(* TransmitStart schedules TransmitComplete, ...                           *)
IsReady(r, link) == \A e \in m_events[r] : e.does # TransmitComplete(link)

TransmitStart(r, link, txTime) ==
    /\ pc[r] = "callback"
    /\ r \in link.ends
    /\ IsReady(r, link)
    /\ made < MaxEvents
    /\ m_currentTs[r] + txTime + link.delay <= MaxTime
    /\ Insert(r, m_currentTs[r] + txTime, TransmitComplete(link))
    /\ \E s \in link.ends \ {r} :
          sending' = [sending EXCEPT ![r] =
             [to |-> s, rxTime |-> m_currentTs[r] + txTime + link.delay]]
    /\ Goto(r, "send")
    /\ made' = made + 1
    /\ UNCHANGED <<clock, m_safeTime, bundles, channel>>

(* ... SendPacket sends it with a guarantee ... *)
SendPacket(r) ==
    /\ pc[r] = "send"
    /\ Send(r, sending[r].to, sending[r].rxTime)
    /\ Goto(r, "reschedule")
    /\ UNCHANGED <<queue, clock, m_safeTime, bundles, sending, made>>

RescheduleOnlyCancels(r) ==  \* mutant
    /\ pc[r] = "reschedule"
    /\ m_nullEventId' = [m_nullEventId EXCEPT ![r][sending[r].to] = 0]
    /\ sending' = [sending EXCEPT ![r] = NoPacket]
    /\ Goto(r, "callback")
    /\ UNCHANGED <<queue, clock, m_safeTime, m_guaranteeTime, channel, made>>

(* ... and puts the null message off.  The cancelled event stays in the    *)
(* queue.                                                                  *)
RescheduleNullMessageEvent(r) ==
    /\ pc[r] = "reschedule"
    /\ ScheduleNullMessageEvent(r, sending[r].to)
    /\ sending' = [sending EXCEPT ![r] = NoPacket]
    /\ Goto(r, "callback")
    /\ UNCHANGED <<clock, m_safeTime, m_guaranteeTime, channel, made>>

---------------------------------------------------------------------------
(* Run: CalculateLookAhead, InitializeNullMessageEvents for one bundle     *)
(* after the other, ...                                                    *)

Run(r) == /\ pc[r] = "user"
          /\ m_safeTime' = [m_safeTime EXCEPT ![r] = 0]
          /\ Goto(r, "initialize")
          /\ UNCHANGED <<queue, clock, bundles, channel, sending, made>>

Uninitialized(r) == {s \in Neighbours[r] : m_nullEventId[r][s] = 0}

InitializeWithPeriod(r) ==  \* mutant
    /\ pc[r] = "initialize"
    /\ LET s == Min(Uninitialized(r))
       IN  /\ channel' = [channel EXCEPT ![r][s] =
                 Append(@, [rxTime |-> 0,
                            guarantee |-> BundleDelay(r, s) + NullDelay(r, s)])]
           /\ ScheduleNullMessageEvent(r, s)
           /\ IF Uninitialized(r) = {s}
              THEN Goto(r, "loop") /\ m_stop' = [m_stop EXCEPT ![r] = FALSE]
              ELSE UNCHANGED <<pc, m_stop>>
    /\ UNCHANGED <<m_currentTs, m_safeTime, m_guaranteeTime, sending, made>>

InitializeNullMessageEvent(r) ==
    /\ pc[r] = "initialize"
    /\ LET s == Min(Uninitialized(r))
       IN  /\ channel' = [channel EXCEPT ![r][s] =
                 Append(@, [rxTime |-> 0, guarantee |-> BundleDelay(r, s)])]
           /\ ScheduleNullMessageEvent(r, s)
           /\ IF Uninitialized(r) = {s}
              THEN Goto(r, "loop") /\ m_stop' = [m_stop EXCEPT ![r] = FALSE]
              ELSE UNCHANGED <<pc, m_stop>>
    /\ UNCHANGED <<m_currentTs, m_safeTime, m_guaranteeTime, sending, made>>

(* ... and the loop. *)
LeaveLoop(r) == /\ pc[r] = "loop"
                /\ IsFinished(r)
                /\ Goto(r, "done")
                /\ UNCHANGED <<queue, clock, m_safeTime, bundles, channel, sending, made>>

IsSafe(r) == NextTs(r) <= m_safeTime[r]

(* ProcessOneEvent, up to Invoke: a cancelled event does nothing, and      *)
(* Simulator::Stop sets m_stop.                                            *)
Invoked(r, next) ==
    CASE next.does[1] \in {"user", "complete"} -> "callback"
      [] next.does[1] = "stop" -> "poll"
      [] next.does[1] = "null" ->
            IF m_nullEventId[r][next.does[2]] = next.uid THEN "null" ELSE "poll"

ProcessOneEvent(r) ==
    /\ pc[r] = "loop"
    /\ ~IsFinished(r)
    /\ IsSafe(r)
    /\ LET next == EarliestOf(m_events[r])
       IN  /\ m_events' = [m_events EXCEPT ![r] = @ \ {next}]
           /\ m_currentTs' = [m_currentTs EXCEPT ![r] = next.ts]
           /\ m_stop' = [m_stop EXCEPT ![r] = @ \/ next.does = StopEvent]
           /\ Goto(r, Invoked(r, next))
    /\ UNCHANGED <<m_uid, m_safeTime, bundles, channel, sending, made>>

(* The bundle whose null message is due: the one whose event has run. *)
Due(r) == {s \in Neighbours[r] : \A e \in m_events[r] : e.uid # m_nullEventId[r][s]}

NullMessageEventHandler(r) ==
    /\ pc[r] = "null"
    /\ \E s \in Due(r) : Send(r, s, 0) /\ ScheduleNullMessageEvent(r, s)
    /\ Goto(r, "poll")
    /\ UNCHANGED <<clock, m_safeTime, m_guaranteeTime, sending, made>>

TakeMessageRelative(r, s) ==  \* mutant
    LET message == Head(channel[s][r])
    IN  /\ IF message.rxTime > 0
           THEN Insert(r, m_currentTs[r] + message.rxTime, UserEvent)
           ELSE UNCHANGED queue
        /\ m_guaranteeTime' = [m_guaranteeTime EXCEPT ![r][s] = message.guarantee]
        /\ channel' = [channel EXCEPT ![s][r] = Tail(@)]

(* One turn of ReceiveMessages: the next message of some neighbour.        *)
TakeMessage(r, s) ==
    LET message == Head(channel[s][r])
    IN  /\ IF message.rxTime > 0
           THEN Insert(r, message.rxTime, UserEvent)
           ELSE UNCHANGED queue
        /\ m_guaranteeTime' = [m_guaranteeTime EXCEPT ![r][s] = message.guarantee]
        /\ channel' = [channel EXCEPT ![s][r] = Tail(@)]

LatestGuarantee(guarantees) ==  \* mutant
    CHOOSE t \in {guarantees[s] : s \in DOMAIN guarantees} :
        \A s \in DOMAIN guarantees : t >= guarantees[s]
SafeTime(guarantees) == Min({guarantees[s] : s \in DOMAIN guarantees})

(* After an event: takes any number of messages, as none of the messages   *)
(* in flight need have arrived, ...                                        *)
ReceiveMessagesNonBlocking(r, s) ==
    /\ pc[r] \in {"callback", "poll"}
    /\ channel[s][r] # << >>
    /\ TakeMessage(r, s)
    /\ Goto(r, "poll")
    /\ UNCHANGED <<clock, m_safeTime, m_nullEventId, sending, made>>

CalculateSafeTime(r) ==
    /\ pc[r] \in {"callback", "poll"}
    /\ m_safeTime' = [m_safeTime EXCEPT ![r] = SafeTime(m_guaranteeTime[r])]
    /\ Goto(r, "loop")
    /\ UNCHANGED <<queue, clock, bundles, channel, sending, made>>

(* ... and when the next event is not safe yet, waits for one message.     *)
HandleArrivingMessagesBlocking(r, s) ==
    /\ pc[r] = "loop"
    /\ ~IsFinished(r)
    /\ ~IsSafe(r)
    /\ channel[s][r] # << >>
    /\ TakeMessage(r, s)
    /\ m_safeTime' = [m_safeTime EXCEPT ![r] = SafeTime(m_guaranteeTime'[r])]
    /\ UNCHANGED <<clock, pc, m_nullEventId, sending, made>>

---------------------------------------------------------------------------

UserCall(r) == \/ \E d \in Delays : Schedule(r, d)
               \/ \E l \in Links, t \in TxTimes : TransmitStart(r, l, t)

Receive(r) == \E s \in Neighbours[r] : \/ ReceiveMessagesNonBlocking(r, s)
                                       \/ HandleArrivingMessagesBlocking(r, s)

Simulator(r) == \/ SendPacket(r) \/ RescheduleNullMessageEvent(r)
                \/ InitializeNullMessageEvent(r) \/ LeaveLoop(r)
                \/ ProcessOneEvent(r) \/ NullMessageEventHandler(r)
                \/ Receive(r) \/ CalculateSafeTime(r)

Finished == (\A r \in Ranks : pc[r] = "done") /\ UNCHANGED vars

Next == \/ \E r \in Ranks : UserCall(r) \/ Run(r) \/ Simulator(r)
        \/ Finished

Spec == Init /\ [][Next]_vars

(* As long as some rank can go on, one does: no more is needed, because no *)
(* rank can go on for ever.  A blocking receive ends when there is a       *)
(* message.                                                                *)
Fairness == WF_vars(\E r \in Ranks : Run(r) \/ Simulator(r))

FairSpec == Spec /\ Fairness

---------------------------------------------------------------------------
(* What the ranks must keep. *)

(* No event, and no packet wherever it is, is due before the clock of the  *)
(* rank it is for: the assertions of ProcessOneEvent, Schedule and         *)
(* ScheduleWithContext never fail.                                         *)
NeverLate ==
    /\ \A r \in Ranks : \A e \in m_events[r] : e.ts >= m_currentTs[r]
    /\ \A r \in Ranks : \A s \in Neighbours[r] : \A i \in 1..Len(channel[s][r]) :
          LET message == channel[s][r][i]
          IN  message.rxTime > 0 => message.rxTime >= m_currentTs[r]

(* "No message should arrive from task nodeSysId with a receive time less  *)
(* than the guarantee time", whichever message carried the guarantee.      *)
Promises(s, r) == <<m_guaranteeTime[r][s]>> \o
                  [i \in 1..Len(channel[s][r]) |-> channel[s][r][i].guarantee]

GuaranteeHolds ==
    \A r \in Ranks : \A s \in Neighbours[r] : \A i \in 1..Len(channel[s][r]) :
        channel[s][r][i].rxTime > 0 => channel[s][r][i].rxTime >= Promises(s, r)[i]

(* The assertions of SetGuaranteeTime (time >= Now) and CalculateSafeTime  *)
(* (m_safeTime >= m_currentTs) never fail, because the promises of a rank  *)
(* to a neighbour only grow, although each is computed from a queue that   *)
(* packets and user code insert into later.                                *)
SafeTimeGrows ==
    \A r \in Ranks : \A s \in Neighbours[r] :
        /\ m_currentTs[r] <= m_safeTime[r]
        /\ m_safeTime[r] <= m_guaranteeTime[r][s]
        /\ \A i \in 1..Len(channel[s][r]) : Promises(s, r)[i] <= Promises(s, r)[i + 1]

(* Run returns on every rank: ranks that wait for each other are always    *)
(* freed by a message, and a rank that stops leaves its neighbours with a  *)
(* guarantee that lets them come to their own stop.                        *)
RunReturns == <>(\A r \in Ranks : pc[r] = "done")

(* On every rank the events run in the order of their time stamps, as if a *)
(* packet were scheduled at its receiver when it is sent.                  *)
DueAt(r, t) == Cardinality({e \in m_events[r] : e.ts = t})
Coming(r) == UNION {{<<s, i>> : i \in {j \in 1..Len(channel[s][r]) :
                       channel[s][r][j].rxTime > 0}} : s \in Neighbours[r]}
ComingAt(r, t) == Cardinality({x \in Coming(r) : channel[x[1]][r][x[2]].rxTime = t})
Pending == [r \in Ranks |-> [t \in 0..MaxTime |-> DueAt(r, t) + ComingAt(r, t)]]

Contract == INSTANCE ParallelContract WITH now <- m_currentTs, pending <- Pending

StepsKeepContract == [][Contract!Next]_<<m_currentTs, Pending>>
=============================================================================
