---------------------- MODULE GrantedTimeWindowProofs -----------------------
(***************************************************************************)
(* Proofs about GrantedTimeWindow for any number of ranks, any remote      *)
(* channels between them, any delays and any number of events, for one     *)
(* call of Run on every rank (OneRun): Run called again after Stop starts  *)
(* from clocks that differ between the ranks, and no window holds.         *)
(***************************************************************************)
EXTENDS GrantedTimeWindow, FiniteSetTheorems, TLAPS

OneRun == MaxRuns <= 1

(* The rank has not been through MPI_Allreduce; it has left Run. *)
Early(r) == runs[r] = 0 \/ pc[r] = "allreduce"
Done(r) == runs[r] > 0 /\ pc[r] = "user"

RunInv == /\ \A r \in Ranks : /\ runs[r] \in 0..1
                              /\ runs[r] = 0 => pc[r] = "user"
          /\ \A r, s \in Ranks : Early(r) => Early(s)

StartInv == \A r \in Ranks : /\ Early(r) \/ pc[r] = "reduced" => lbts = 0
                             /\ Early(r) => net = {}

(* A rank looks no farther ahead than the delay of each of its channels. *)
LookAheadInv == \A r \in Ranks : runs[r] > 0 =>
                   \A l \in LinksOf(r) : m_lookAhead[r] <= l.delay

(* Every grant, also one that is older than the last LBTS, ends before a   *)
(* message can come that is sent at or after the LBTS.                     *)
WindowInv == \A r \in Ranks : \A l \in LinksOf(r) :
                /\ m_grantedTime[r] <= lbts + l.delay
                /\ m_currentTs[r] <= lbts + l.delay

(* The LBTS bounds what is still to run, and from where it can send. *)
EventsInv == \A r \in Ranks : \/ Done(r)
                              \/ m_stop[r]
                              \/ \A e \in m_events[r] : lbts <= e.ts

CallbackInv == \A r \in Ranks : pc[r] = "callback" => lbts <= m_currentTs[r]

ExecuteInv == \A r \in Ranks : pc[r] = "execute" =>
                 /\ ~m_stop[r]
                 /\ \A e \in Earliest(r) : e.ts <= m_grantedTime[r]

MessagesInv == \A m \in net : /\ m_lookAhead[m.to] < Infinity
                              /\ lbts + m_lookAhead[m.to] <= m.ts
                              /\ m_grantedTime[m.to] <= m.ts

(* What the ranks tell each other in MPI_Allgather is true when they leave *)
(* it, and the LBTS is what every rank computes from it.                   *)
IsReported(r) == /\ m_pLBTS[r][r].rx = g_rxCount[r]
                 /\ m_pLBTS[r][r].tx = g_txCount[r]
                 /\ m_pLBTS[r][r].isFinished = IsLocalFinished(r)
                 /\ m_pLBTS[r][r].smallestTime \in NextTs(r)

GatherInv == \A r \in Ranks :
                /\ pc[r] = "allgather" => IsReported(r)
                /\ pc[r] = "gathered" /\ NoTransient(m_pLBTS[r]) =>
                      lbts \in SmallestTimes(m_pLBTS[r])

(* What was sent and not received is in flight. *)
Sent == UNION {g_txCount[r] : r \in Ranks}
Received == UNION {g_rxCount[r] : r \in Ranks}

CountInv == /\ Sent \subseteq 1..made
            /\ Received \cup {m.id : m \in net} = Sent
            /\ Received \cap {m.id : m \in net} = {}
            /\ \A m, n \in net : m.id = n.id => m = n

(* The global halting condition is seen by all ranks or by none. *)
Ending(r) == \/ m_globalFinished[r]
             \/ pc[r] = "gathered" /\ AllFinished(m_pLBTS[r])

AllEnd == /\ net = {}
          /\ \A s \in Ranks :
                \/ Done(s)
                \/ pc[s] = "loop" /\ m_globalFinished[s]
                \/ pc[s] = "gathered" /\ AllFinished(m_pLBTS[s]) /\ IsLocalFinished(s)

EndInv == \A r \in Ranks : Ending(r) => AllEnd

(* Time stamps stay below Infinity, which stands for no event. *)
TimesInv == /\ \A r \in Ranks : \A e \in m_events[r] : e.ts <= MaxTime
            /\ \A m \in net : m.ts <= MaxTime
            /\ lbts <= Infinity

IInv == /\ TypeOK /\ RunInv /\ StartInv /\ TimesInv /\ LookAheadInv /\ WindowInv
        /\ EventsInv /\ CallbackInv /\ ExecuteInv /\ MessagesInv
        /\ GatherInv /\ CountInv /\ EndInv /\ NeverLate

---------------------------------------------------------------------------
(* Lemmas about the operators. *)

LEMMA SmallestIsLess ==
    ASSUME NEW S, NEW t \in Smallest(S)
    PROVE  t \in S /\ \A u \in S : t <= u
  BY DEF Smallest

LEMMA Int64IsLess ==
    ASSUME NEW t \in Int PROVE Int64(t) \in Int /\ Int64(t) <= t
  BY TimesAssumption DEF Int64

(* What PeekNext returns is due no later than any other event. *)
LEMMA EarliestIsFirst ==
    ASSUME TypeOK, NEW r \in Ranks, NEW e \in Earliest(r)
    PROVE  /\ e \in m_events[r] /\ e.ts \in Nat
           /\ \A f \in m_events[r] : e.ts <= f.ts
<1>1. e \in m_events[r] /\ \A f \in m_events[r] : ~KeyLess(f, e)
  BY DEF Earliest
<1>2. \A f \in m_events[r] : f.ts \in Nat
  BY DEF TypeOK, Event
<1> QED BY <1>1, <1>2 DEF KeyLess

LEMMA NextTsType ==
    ASSUME TypeOK, NEW r \in Ranks PROVE NextTs(r) \subseteq Nat
  BY EarliestIsFirst, TimesAssumption DEF NextTs

LEMMA LinkDelaysType ==
    ASSUME NEW r \in Ranks
    PROVE  /\ LinkDelays(r) \subseteq Nat
           /\ \A d \in LinkDelays(r) : d < Infinity
  BY LinksAssumption, TimesAssumption DEF LinkDelays, LinksOf

(* A rank without other ranks looks ahead no time, any other rank no       *)
(* farther than the shortest of its channels.                              *)
LEMMA LinkDelaysBound ==
    ASSUME TypeOK, NEW r \in Ranks, NEW l \in LinksOf(r),
           NEW least \in Smallest(LinkDelays(r) \cup {m_lookAhead[r]})
    PROVE  least <= l.delay
<1>1. l.delay \in Nat
  BY LinksAssumption DEF LinksOf
<1>2. CASE Ranks = {r}
  <2>1. least <= 0
    BY <1>2, SmallestIsLess DEF LinkDelays
  <2>2. least \in Nat
    BY LinkDelaysType, SmallestIsLess DEF TypeOK
  <2> QED BY <1>1, <2>1, <2>2
<1>3. CASE Ranks # {r}
  BY <1>3, SmallestIsLess DEF LinkDelays
<1> QED BY <1>2, <1>3

---------------------------------------------------------------------------
(* Types. *)

LEMMA InitType == Init => TypeOK
<1>1. SUFFICES ASSUME Init PROVE TypeOK
  OBVIOUS
<1>2. NoMessage \in LbtsMessage
  BY DEF NoMessage, LbtsMessage
<1>3. Infinity \in 0..Infinity
  BY TimesAssumption
<1> QED BY <1>1, <1>2, <1>3 DEF Init, TypeOK

LEMMA InsertType ==
    ASSUME TypeOK, NEW r \in Ranks, NEW ts \in Nat, Insert(r, ts)
    PROVE  /\ m_events' \in [Ranks -> SUBSET Event]
           /\ m_uid' \in [Ranks -> Nat]
  BY DEF Insert, TypeOK, Event

LEMMA UserCallType ==
    ASSUME TypeOK, NEW r \in Ranks, UserCall(r) PROVE TypeOK'
<1>1. ASSUME NEW d \in Delays, Schedule(r, d) PROVE TypeOK'
  <2>1. m_currentTs[r] + d \in Nat
    BY TimesAssumption DEF TypeOK
  <2>2. m_events' \in [Ranks -> SUBSET Event] /\ m_uid' \in [Ranks -> Nat]
    BY <1>1, <2>1, InsertType DEF Schedule
  <2> QED BY <1>1, <2>2 DEF Schedule, TypeOK, sim, window, mpi
<1>2. CASE Stop(r)
  BY <1>2 DEF Stop, TypeOK, window, queue, mpi, history
<1>3. ASSUME NEW b \in Bounds, BoundLookAhead(r, b) PROVE TypeOK'
  <2>1. b \in 0..Infinity
    BY <1>3, TimesAssumption DEF BoundLookAhead, TypeOK
  <2> QED BY <1>3, <2>1 DEF BoundLookAhead, TypeOK, sim, queue, mpi, history
<1>4. ASSUME NEW l \in Links, NEW t \in TxTimes, SendPacket(r, l, t) PROVE TypeOK'
  <2>1. m_currentTs[r] + t + l.delay \in Nat /\ l.ends \subseteq Ranks
    BY LinksAssumption, TimesAssumption DEF TypeOK
  <2>2. made + 1 \in Nat
    BY DEF TypeOK
  <2>3. net' \subseteq [id : Nat, to : Ranks, ts : Nat]
    BY <1>4, <2>1, <2>2 DEF SendPacket, TypeOK
  <2>4. g_txCount' \in [Ranks -> SUBSET Nat]
    BY <1>4, <2>2 DEF SendPacket, TypeOK
  <2> QED BY <1>4, <2>2, <2>3, <2>4 DEF SendPacket, TypeOK, sim, window, queue
<1> QED BY <1>1, <1>2, <1>3, <1>4 DEF UserCall

LEMMA RunType == ASSUME TypeOK, NEW r \in Ranks, Run(r) PROVE TypeOK'
<1>1. PICK least \in Smallest(LinkDelays(r) \cup {m_lookAhead[r]}) :
         /\ m_lookAhead' = [m_lookAhead EXCEPT ![r] = least]
         /\ m_grantedTime' = [m_grantedTime EXCEPT ![r] = least]
  BY DEF Run
<1>2. least \in 0..Infinity
  BY SmallestIsLess, LinkDelaysType, TimesAssumption DEF TypeOK
<1>3. /\ m_lookAhead' \in [Ranks -> 0..Infinity]
      /\ m_grantedTime' \in [Ranks -> Int]
  BY <1>1, <1>2 DEF TypeOK
<1> QED BY <1>3 DEF Run, Goto, TypeOK, sim, queue, mpi

LEMMA ContributionType ==
    ASSUME TypeOK, NEW recvbuf \in Largest({Contribution(r) : r \in Ranks})
    PROVE  recvbuf \in 0..Infinity
  BY TimesAssumption DEF Largest, Contribution, TypeOK

LEMMA AllreduceType == ASSUME TypeOK, Allreduce PROVE TypeOK'
<1>1. PICK recvbuf \in Largest({Contribution(r) : r \in Ranks}) :
         /\ m_lookAhead' = [r \in Ranks |->
                IF m_lookAhead[r] = Infinity /\ recvbuf # 0
                THEN recvbuf ELSE m_lookAhead[r]]
         /\ m_grantedTime' = [r \in Ranks |->
                IF m_lookAhead[r] = Infinity /\ recvbuf # 0
                THEN recvbuf ELSE m_grantedTime[r]]
  BY DEF Allreduce
<1>2. recvbuf \in 0..Infinity
  BY ContributionType
<1>3. /\ m_lookAhead' \in [Ranks -> 0..Infinity]
      /\ m_grantedTime' \in [Ranks -> Int]
  BY <1>1, <1>2 DEF TypeOK
<1> QED BY <1>3 DEF Allreduce, TypeOK, sim, queue, mpi, history

LEMMA SimulatorType ==
    ASSUME TypeOK, NEW r \in Ranks, Simulator(r) PROVE TypeOK'
<1>1. CASE Return(r) \/ LoopHead(r)
  BY <1>1 DEF Return, LoopHead, Goto, TypeOK, sim, window, queue, mpi, history
<1>2. CASE StartLoop(r)
  BY <1>2 DEF StartLoop, Goto, TypeOK, queue, mpi, history
<1>3. CASE EnterAllgather(r)
  <2>1. PICK nextTime \in NextTs(r) :
          m_pLBTS' = [m_pLBTS EXCEPT ![r][r] =
             [rx |-> g_rxCount[r], tx |-> g_txCount[r],
              isFinished |-> IsLocalFinished(r), smallestTime |-> nextTime]]
    BY <1>3 DEF EnterAllgather
  <2>2. IsLocalFinished(r) \in BOOLEAN
    BY DEF IsLocalFinished, TypeOK
  <2>3. [rx |-> g_rxCount[r], tx |-> g_txCount[r],
         isFinished |-> IsLocalFinished(r), smallestTime |-> nextTime] \in LbtsMessage
    BY <2>2, NextTsType DEF LbtsMessage, TypeOK
  <2>4. m_pLBTS' \in [Ranks -> [Ranks -> LbtsMessage]]
    BY <2>1, <2>3 DEF TypeOK
  <2> QED BY <1>3, <2>4 DEF EnterAllgather, Goto, TypeOK, sim, queue, mpi, history
<1>4. CASE ComputeGrant(r)
  <2>1. PICK smallestTime \in SmallestTimes(m_pLBTS[r]) :
           m_grantedTime' = [m_grantedTime EXCEPT ![r] =
                 IF ~NoTransient(m_pLBTS[r]) THEN @
                 ELSE IF m_lookAhead[r] = Infinity THEN Infinity
                 ELSE Int64(smallestTime + m_lookAhead[r])]
    BY <1>4 DEF ComputeGrant
  <2>2. smallestTime \in Nat
    BY <2>1, SmallestIsLess DEF SmallestTimes, TypeOK, LbtsMessage
  <2>3. Int64(smallestTime + m_lookAhead[r]) \in Int
    BY <2>2, Int64IsLess DEF TypeOK
  <2>4. m_grantedTime' \in [Ranks -> Int]
    BY <2>1, <2>3, TimesAssumption DEF TypeOK
  <2>5. AllFinished(m_pLBTS[r]) \in BOOLEAN
    BY DEF AllFinished
  <2>6. m_globalFinished' \in [Ranks -> BOOLEAN]
    BY <1>4, <2>5 DEF ComputeGrant, TypeOK
  <2> QED BY <1>4, <2>4, <2>6 DEF ComputeGrant, Goto, TypeOK, sim, queue, mpi, history
<1>5. CASE ProcessOneEvent(r)
  <2>1. PICK next \in Earliest(r) :
           /\ m_events' = [m_events EXCEPT ![r] = @ \ {next}]
           /\ m_currentTs' = [m_currentTs EXCEPT ![r] = next.ts]
    BY <1>5 DEF ProcessOneEvent
  <2>2. next.ts \in Nat
    BY <2>1, EarliestIsFirst
  <2>3. m_events' \in [Ranks -> SUBSET Event] /\ m_currentTs' \in [Ranks -> Nat]
    BY <2>1, <2>2 DEF TypeOK
  <2> QED BY <1>5, <2>3 DEF ProcessOneEvent, Goto, TypeOK, window, mpi, history
<1> QED BY <1>1, <1>2, <1>3, <1>4, <1>5 DEF Simulator

LEMMA ReceiveType ==
    ASSUME TypeOK, NEW r \in Ranks, NEW m \in net, ReceiveMessage(r, m) PROVE TypeOK'
<1>1. m.ts \in Nat /\ m.id \in Nat
  BY DEF TypeOK
<1>2. m_events' \in [Ranks -> SUBSET Event] /\ m_uid' \in [Ranks -> Nat]
  BY <1>1, InsertType DEF ReceiveMessage
<1>3. g_rxCount' \in [Ranks -> SUBSET Nat]
  BY <1>1 DEF ReceiveMessage, TypeOK
<1> QED BY <1>2, <1>3 DEF ReceiveMessage, TypeOK, sim, window, history

LEMMA AllgatherType == ASSUME TypeOK, Allgather PROVE TypeOK'
<1>1. PICK all : /\ all = [i \in Ranks |-> m_pLBTS[i][i]]
                 /\ m_pLBTS' = [r \in Ranks |-> all]
                 /\ \E smallestTime \in SmallestTimes(all) :
                       lbts' = IF NoTransient(all) THEN smallestTime ELSE lbts
  BY DEF Allgather
<1>2. all \in [Ranks -> LbtsMessage]
  BY <1>1 DEF TypeOK
<1>3. m_pLBTS' \in [Ranks -> [Ranks -> LbtsMessage]]
  BY <1>1, <1>2
<1>4. lbts' \in Nat
  BY <1>1, <1>2, SmallestIsLess DEF SmallestTimes, TypeOK, LbtsMessage
<1> QED BY <1>3, <1>4 DEF Allgather, TypeOK, sim, queue, mpi

LEMMA TypeStep == TypeOK /\ [Next]_vars => TypeOK'
<1>1. TypeOK /\ UNCHANGED vars => TypeOK'
  BY DEF TypeOK, vars, sim, window, queue, mpi, history
<1> QED BY <1>1, UserCallType, RunType, AllreduceType, SimulatorType, ReceiveType,
          AllgatherType DEF Next, Receive, Collective, Finished

(* Every variable keeps its type. *)
THEOREM TypeHolds == Spec => []TypeOK
  BY InitType, TypeStep, PTL DEF Spec

---------------------------------------------------------------------------
(* Before the loop: nobody leaves MPI_Allreduce before all have called Run *)
(* and nobody calls it again.                                              *)

(* A step of one rank in Run that is not Run itself. *)
Moves(r) == /\ pc[r] \notin {"user", "allreduce"}
            /\ \E label \in {"user", "loop", "receive", "allgather", "gathered",
                             "execute", "callback"} : Goto(r, label)

LEMMA ControlStep ==
    ASSUME [Next]_vars
    PROVE  \/ \E r \in Ranks : Run(r)
           \/ Allreduce
           \/ UNCHANGED <<pc, runs>>
           \/ UNCHANGED runs /\ \E r \in Ranks : Moves(r)
           \/ Allgather
<1>1. ASSUME NEW r \in Ranks, Simulator(r) PROVE UNCHANGED runs /\ Moves(r)
  <2>1. CASE Return(r) \/ StartLoop(r) \/ LoopHead(r)
    BY <2>1 DEF Return, StartLoop, LoopHead, Moves, history
  <2>2. CASE EnterAllgather(r) \/ ComputeGrant(r) \/ ProcessOneEvent(r)
    BY <2>2 DEF EnterAllgather, ComputeGrant, ProcessOneEvent, Moves, history
  <2> QED BY <1>1, <2>1, <2>2 DEF Simulator
<1>2. ASSUME NEW r \in Ranks, UserCall(r) \/ Receive(r) PROVE UNCHANGED <<pc, runs>>
  BY <1>2 DEF UserCall, Schedule, Stop, BoundLookAhead, SendPacket, Receive,
     ReceiveMessage, history
<1>3. CASE Finished \/ UNCHANGED vars
  BY <1>3 DEF Finished, vars, history
<1> QED BY <1>1, <1>2, <1>3 DEF Next, Collective

LEMMA RunInvStep == OneRun /\ TypeOK /\ RunInv /\ [Next]_vars => RunInv'
<1>1. SUFFICES ASSUME OneRun, TypeOK, RunInv, [Next]_vars PROVE RunInv'
  OBVIOUS
<1> USE <1>1 DEF RunInv, Early
<1>2. CASE \E r \in Ranks : Run(r)
  <2>1. PICK r \in Ranks : Run(r)
    BY <1>2
  <2>2. runs[r] = 0
    BY <2>1, BoundsAssumption DEF Run, OneRun
  <2>3. /\ runs' = [runs EXCEPT ![r] = 1] /\ pc' = [pc EXCEPT ![r] = "allreduce"]
    BY <2>1, <2>2 DEF Run, Goto
  <2>4. \A s \in Ranks : Early(s)
    BY <2>2
  <2> QED BY <2>2, <2>3, <2>4 DEF TypeOK
<1>3. CASE Allreduce
  BY <1>3 DEF Allreduce, TypeOK, history
<1>4. CASE UNCHANGED runs /\ \E r \in Ranks : Moves(r)
  <2>1. PICK r \in Ranks, label \in {"user", "loop", "receive", "allgather", "gathered",
                                     "execute", "callback"} :
           pc' = [pc EXCEPT ![r] = label] /\ pc[r] \notin {"user", "allreduce"}
    BY <1>4 DEF Moves, Goto
  <2>2. \A s \in Ranks : Early(s)' <=> Early(s)
    BY <1>4, <2>1 DEF TypeOK
  <2> QED BY <1>4, <2>1, <2>2 DEF TypeOK
<1>5. CASE Allgather
  BY <1>5 DEF Allgather, TypeOK
<1>6. CASE UNCHANGED <<pc, runs>>
  BY <1>6
<1> QED BY <1>2, <1>3, <1>4, <1>5, <1>6, ControlStep

(* Who is not Early stays so. *)
LEMMA EarlyOnce ==
    ASSUME OneRun, TypeOK, RunInv, [Next]_vars, NEW r \in Ranks, Early(r)'
    PROVE  Early(r) /\ ~Allgather
<1>1. CASE \E s \in Ranks : Run(s)
  <2>1. PICK s \in Ranks : Run(s)
    BY <1>1
  <2>2. runs[s] = 0 /\ pc[s] = "user"
    BY <2>1, BoundsAssumption DEF Run, OneRun, RunInv
  <2> QED BY <2>2 DEF RunInv, Early, Allgather
<1>2. CASE Allreduce
  BY <1>2 DEF Allreduce, Allgather, Early, RunInv, history
<1>3. CASE UNCHANGED runs /\ \E s \in Ranks : Moves(s)
  <2>1. PICK s \in Ranks, label \in {"user", "loop", "receive", "allgather", "gathered",
                                     "execute", "callback"} :
           pc' = [pc EXCEPT ![s] = label] /\ pc[s] \notin {"user", "allreduce"}
    BY <1>3 DEF Moves, Goto
  <2>2. Early(r)
    BY <1>3, <2>1 DEF Early, TypeOK
  <2> QED BY <2>2 DEF Early, RunInv, Allgather
<1>4. CASE Allgather
  BY <1>4 DEF Allgather, Early, RunInv
<1>5. CASE UNCHANGED <<pc, runs>>
  BY <1>5 DEF Early, RunInv, Allgather
<1> QED BY <1>1, <1>2, <1>3, <1>4, <1>5, ControlStep

---------------------------------------------------------------------------
(* Who changes what. *)

Sends == \E r \in Ranks, l \in Links, t \in TxTimes : SendPacket(r, l, t)
Receives == \E r \in Ranks, m \in net : ReceiveMessage(r, m)
Schedules == \E r \in Ranks, d \in Delays : Schedule(r, d)
Stops == \E r \in Ranks : Stop(r)
Narrows == \E r \in Ranks, b \in Bounds : BoundLookAhead(r, b)
Runs == \E r \in Ranks : Run(r)
Starts == \E r \in Ranks : StartLoop(r)
Executes == \E r \in Ranks : ProcessOneEvent(r)
Grants == \E r \in Ranks : ComputeGrant(r)
Enters == \E r \in Ranks : EnterAllgather(r)
Turns == \E r \in Ranks : Return(r) \/ LoopHead(r)

LEMMA NextSplit ==
    ASSUME [Next]_vars
    PROVE  \/ Sends \/ Receives \/ Schedules \/ Stops \/ Narrows \/ Runs \/ Starts
           \/ Executes \/ Grants \/ Enters \/ Turns \/ Allreduce \/ Allgather
           \/ UNCHANGED vars
  BY DEF Next, UserCall, Receive, Simulator, Collective, Finished, Sends, Receives,
     Schedules, Stops, Narrows, Runs, Starts, Executes, Grants, Enters, Turns

LEMMA Frame ==
    ASSUME [Next]_vars
    PROVE  /\ UNCHANGED lbts \/ Allgather
           /\ UNCHANGED net \/ Sends \/ Receives
           /\ UNCHANGED m_lookAhead \/ Runs \/ Allreduce \/ Narrows
           /\ UNCHANGED m_grantedTime \/ Runs \/ Allreduce \/ Grants
           /\ UNCHANGED m_currentTs \/ Executes
           /\ UNCHANGED m_stop \/ Stops \/ Starts
           /\ UNCHANGED m_events \/ Schedules \/ Receives \/ Executes
           /\ UNCHANGED m_pLBTS \/ Enters \/ Allgather
           /\ UNCHANGED m_globalFinished \/ Starts \/ Grants
           /\ UNCHANGED g_txCount \/ Sends
           /\ UNCHANGED g_rxCount \/ Receives
<1>1. CASE Sends
  BY <1>1 DEF Sends, SendPacket, sim, window, queue
<1>2. CASE Receives
  BY <1>2 DEF Receives, ReceiveMessage, sim, window, history
<1>3. CASE Schedules
  BY <1>3 DEF Schedules, Schedule, sim, window, mpi
<1>4. CASE Stops
  BY <1>4 DEF Stops, Stop, window, queue, mpi, history
<1>5. CASE Narrows
  BY <1>5 DEF Narrows, BoundLookAhead, sim, queue, mpi, history
<1>6. CASE Runs
  BY <1>6 DEF Runs, Run, sim, queue, mpi
<1>7. CASE Starts
  BY <1>7 DEF Starts, StartLoop, queue, mpi, history
<1>8. CASE Executes
  BY <1>8 DEF Executes, ProcessOneEvent, window, mpi, history
<1>9. CASE Grants
  BY <1>9 DEF Grants, ComputeGrant, sim, queue, mpi, history
<1>10. CASE Enters
  BY <1>10 DEF Enters, EnterAllgather, sim, queue, mpi, history
<1>11. CASE Turns
  BY <1>11 DEF Turns, Return, LoopHead, sim, window, queue, mpi, history
<1>12. CASE Allreduce
  BY <1>12 DEF Allreduce, sim, queue, mpi, history
<1>13. CASE Allgather
  BY <1>13 DEF Allgather, sim, queue, mpi
<1>14. CASE UNCHANGED vars
  BY <1>14 DEF vars, sim, window, queue, mpi, history
<1> QED BY <1>1, <1>2, <1>3, <1>4, <1>5, <1>6, <1>7, <1>8, <1>9, <1>10, <1>11,
           <1>12, <1>13, <1>14, NextSplit

LEMMA StartInvStep ==
    OneRun /\ TypeOK /\ RunInv /\ StartInv /\ [Next]_vars => StartInv'
<1>1. SUFFICES ASSUME OneRun, TypeOK, RunInv, StartInv, [Next]_vars, NEW r \in Ranks
               PROVE  /\ Early(r)' \/ pc'[r] = "reduced" => lbts' = 0
                      /\ Early(r)' => net' = {}
  BY DEF StartInv
<1>2. CASE Early(r)'
  <2>1. Early(r) /\ ~Allgather
    BY <1>1, <1>2, EarlyOnce
  <2>2. lbts' = 0
    BY <1>1, <2>1, Frame DEF StartInv
  <2>3. net = {} /\ ~Sends /\ ~Receives
    BY <1>1, <2>1 DEF StartInv, RunInv, Early, Sends, Receives, SendPacket
  <2> QED BY <1>1, <2>2, <2>3, Frame
<1>3. CASE pc'[r] = "reduced" /\ ~Early(r)'
  <2>1. pc[r] = "reduced" \/ Early(r)
    <3>1. CASE UNCHANGED runs /\ \E s \in Ranks : Moves(s)
      BY <1>1, <1>3, <3>1 DEF Moves, Goto, TypeOK
    <3>2. CASE Runs
      BY <1>1, <1>3, <3>2 DEF Runs, Run, Goto, TypeOK
    <3>3. CASE Allreduce \/ Allgather \/ UNCHANGED <<pc, runs>>
      BY <1>1, <1>3, <3>3 DEF Allreduce, Allgather, Early
    <3> QED BY <1>1, <3>1, <3>2, <3>3, ControlStep DEF Runs
  <2>2. ~Allgather
    BY <1>1, <1>3 DEF Allgather
  <2> QED BY <1>1, <1>3, <2>1, <2>2, Frame DEF StartInv
<1> QED BY <1>2, <1>3

LEMMA LookAheadInvStep ==
    OneRun /\ TypeOK /\ RunInv /\ LookAheadInv /\ [Next]_vars => LookAheadInv'
<1>1. SUFFICES ASSUME OneRun, TypeOK, RunInv, LookAheadInv, [Next]_vars, NEW r \in Ranks,
                      runs'[r] > 0, NEW l \in LinksOf(r)
               PROVE  m_lookAhead'[r] <= l.delay
  BY DEF LookAheadInv, LinksOf
<1>2. l.delay \in Nat /\ l.delay < Infinity /\ m_lookAhead[r] \in Nat
  BY <1>1, LinksAssumption, TimesAssumption DEF LinksOf, TypeOK
<1>3. CASE Runs
  <2>1. PICK s \in Ranks : Run(s)
    BY <1>3 DEF Runs
  <2>2. PICK least \in Smallest(LinkDelays(s) \cup {m_lookAhead[s]}) :
           m_lookAhead' = [m_lookAhead EXCEPT ![s] = least]
    BY <2>1 DEF Run
  <2>3. CASE s = r
    BY <1>1, <2>2, <2>3, LinkDelaysBound DEF TypeOK
  <2>4. CASE s # r
    <3>1. m_lookAhead'[r] = m_lookAhead[r] /\ runs'[r] = runs[r]
      BY <2>1, <2>2, <2>4 DEF Run
    <3> QED BY <1>1, <3>1 DEF LookAheadInv
  <2> QED BY <2>3, <2>4
<1>4. CASE Narrows
  <2>1. PICK s \in Ranks, b \in Bounds :
           b < m_lookAhead[s] /\ m_lookAhead' = [m_lookAhead EXCEPT ![s] = b]
    BY <1>4 DEF Narrows, BoundLookAhead
  <2>2. b \in Int
    BY TimesAssumption
  <2>3. m_lookAhead[r] <= l.delay
    BY <1>1, <1>4 DEF Narrows, BoundLookAhead, history, LookAheadInv
  <2> QED BY <1>1, <1>2, <2>1, <2>2, <2>3 DEF TypeOK
<1>5. CASE Allreduce
  <2>1. runs[r] > 0 /\ m_lookAhead[r] <= l.delay
    BY <1>1, <1>5 DEF Allreduce, history, LookAheadInv
  <2>2. m_lookAhead[r] # Infinity
    BY <1>2, <2>1, TimesAssumption
  <2>3. m_lookAhead'[r] = m_lookAhead[r]
    BY <1>5, <2>2 DEF Allreduce
  <2> QED BY <2>1, <2>3
<1>6. CASE UNCHANGED m_lookAhead /\ ~Runs
  <2>1. UNCHANGED runs
    BY <1>1, <1>6, ControlStep DEF Runs, Allreduce, Allgather, history
  <2> QED BY <1>1, <1>6, <2>1 DEF LookAheadInv
<1> QED BY <1>1, <1>3, <1>4, <1>5, <1>6, Frame

---------------------------------------------------------------------------
(* Steps with their witnesses. *)

LEMMA InsertEvents ==
    ASSUME TypeOK, NEW r \in Ranks, NEW ts, Insert(r, ts), NEW s \in Ranks,
           NEW e \in m_events'[s]
    PROVE  e \in m_events[s] \/ (s = r /\ e.ts = ts)
  BY DEF Insert, TypeOK

(* Every event after a step was there before it, or has been scheduled, or *)
(* has come in a message.                                                  *)
LEMMA EventsStep ==
    ASSUME TypeOK, [Next]_vars, NEW r \in Ranks, NEW e \in m_events'[r]
    PROVE  \/ e \in m_events[r]
           \/ InUserCode(r) /\ m_currentTs[r] <= e.ts /\ e.ts <= MaxTime
           \/ pc[r] = "receive" /\ \E m \in net : m.to = r /\ m.ts = e.ts
<1>1. CASE Schedules
  <2>1. PICK s \in Ranks, d \in Delays :
           /\ InUserCode(s) /\ m_currentTs[s] + d <= MaxTime
           /\ Insert(s, m_currentTs[s] + d)
    BY <1>1 DEF Schedules, Schedule
  <2>2. e \in m_events[r] \/ (s = r /\ e.ts = m_currentTs[s] + d)
    BY <2>1, InsertEvents
  <2>3. m_currentTs[s] <= m_currentTs[s] + d
    BY TimesAssumption DEF TypeOK
  <2> QED BY <2>1, <2>2, <2>3
<1>2. CASE Receives
  <2>1. PICK s \in Ranks, m \in net : pc[s] = "receive" /\ m.to = s /\ Insert(s, m.ts)
    BY <1>2 DEF Receives, ReceiveMessage
  <2> QED BY <2>1, InsertEvents
<1>3. CASE Executes
  <2>1. PICK s, next : s \in Ranks /\ m_events' = [m_events EXCEPT ![s] = @ \ {next}]
    BY <1>3 DEF Executes, ProcessOneEvent
  <2> QED BY <2>1 DEF TypeOK
<1> QED BY <1>1, <1>2, <1>3, Frame

(* Every message in flight after a step was there before it, or has been   *)
(* sent by an event of a rank that shares a channel with its receiver.     *)
LEMMA NetStep ==
    ASSUME TypeOK, [Next]_vars, NEW m \in net'
    PROVE  /\ m.to \in Ranks /\ m.ts \in Nat
           /\ \/ m \in net
              \/ \E s \in Ranks : \E l \in LinksOf(m.to) :
                    /\ Sends /\ pc[s] = "callback"
                    /\ m_currentTs[s] + l.delay <= m.ts /\ m.ts <= MaxTime
<1>1. CASE Sends
  <2>1. PICK s \in Ranks, l \in Links, t \in TxTimes : SendPacket(s, l, t)
    BY <1>1 DEF Sends
  <2>2. PICK to \in l.ends \ {s} :
           net' = net \cup {[id |-> made + 1, to |-> to,
                             ts |-> m_currentTs[s] + t + l.delay]}
    BY <2>1 DEF SendPacket
  <2>3. to \in Ranks /\ l.delay \in Nat /\ t \in Nat /\ m_currentTs[s] \in Nat
    BY LinksAssumption, TimesAssumption DEF TypeOK
  <2>4. CASE m = [id |-> made + 1, to |-> to, ts |-> m_currentTs[s] + t + l.delay]
    <3>1. m.to = to /\ m.ts = m_currentTs[s] + t + l.delay
      BY <2>4
    <3>2. l \in LinksOf(m.to) /\ pc[s] = "callback" /\ m.ts <= MaxTime
      BY <2>1, <3>1 DEF SendPacket, LinksOf
    <3>3. m_currentTs[s] + l.delay <= m.ts /\ m.ts \in Nat
      BY <2>3, <3>1
    <3> QED BY <1>1, <2>3, <3>1, <3>2, <3>3
  <2>5. CASE m \in net
    BY <2>5 DEF TypeOK
  <2> QED BY <2>2, <2>4, <2>5
<1>2. CASE Receives
  <2>1. m \in net
    BY <1>2 DEF Receives, ReceiveMessage
  <2> QED BY <2>1 DEF TypeOK
<1>3. CASE UNCHANGED net
  BY <1>3 DEF TypeOK
<1> QED BY <1>1, <1>2, <1>3, Frame

LEMMA ExecuteStep ==
    ASSUME TypeOK, ExecuteInv, Executes
    PROVE  \E r \in Ranks : \E next \in m_events[r] :
              /\ pc[r] = "execute" /\ ~m_stop[r]
              /\ next.ts \in Nat /\ next.ts <= m_grantedTime[r]
              /\ \A f \in m_events[r] : next.ts <= f.ts
              /\ m_events' = [m_events EXCEPT ![r] = @ \ {next}]
              /\ m_currentTs' = [m_currentTs EXCEPT ![r] = next.ts]
              /\ pc' = [pc EXCEPT ![r] = "callback"]
<1>1. PICK r \in Ranks : ProcessOneEvent(r)
  BY DEF Executes
<1>2. PICK next \in Earliest(r) :
         /\ m_events' = [m_events EXCEPT ![r] = @ \ {next}]
         /\ m_currentTs' = [m_currentTs EXCEPT ![r] = next.ts]
  BY <1>1 DEF ProcessOneEvent
<1>3. pc[r] = "execute" /\ pc' = [pc EXCEPT ![r] = "callback"]
  BY <1>1 DEF ProcessOneEvent, Goto
<1>4. ~m_stop[r] /\ next.ts <= m_grantedTime[r]
  BY <1>2, <1>3 DEF ExecuteInv
<1> QED BY <1>2, <1>3, <1>4, EarliestIsFirst

---------------------------------------------------------------------------
(* MPI_Allgather. *)

(* When as many messages were received as sent, none is in flight. *)
LEMMA CountsMeet ==
    ASSUME TypeOK, CountInv, Cardinality(Received) = Cardinality(Sent)
    PROVE  net = {}
<1>1. IsFiniteSet(1..made)
  BY FS_Interval DEF TypeOK
<1>2. IsFiniteSet(Sent) /\ Received \in SUBSET Sent
  BY <1>1, FS_Subset DEF CountInv
<1>3. Received = Sent
  BY <1>2, FS_Subset
<1> QED BY <1>3 DEF CountInv

LEMMA GatherStep ==
    ASSUME TypeOK, CountInv, GatherInv, Allgather
    PROVE  \E all \in [Ranks -> LbtsMessage] :
              /\ m_pLBTS' = [r \in Ranks |-> all]
              /\ \A r \in Ranks : /\ pc[r] = "allgather" /\ pc'[r] = "gathered"
                                  /\ all[r].isFinished = IsLocalFinished(r)
                                  /\ all[r].smallestTime \in NextTs(r)
              /\ \E smallestTime \in SmallestTimes(all) :
                    lbts' = IF NoTransient(all) THEN smallestTime ELSE lbts
              /\ NoTransient(all) => net = {}
<1>1. PICK all : /\ all = [i \in Ranks |-> m_pLBTS[i][i]]
                 /\ m_pLBTS' = [r \in Ranks |-> all]
                 /\ \E smallestTime \in SmallestTimes(all) :
                       lbts' = IF NoTransient(all) THEN smallestTime ELSE lbts
  BY DEF Allgather
<1>2. all \in [Ranks -> LbtsMessage]
  BY <1>1 DEF TypeOK
<1>3. \A r \in Ranks : /\ pc[r] = "allgather" /\ pc'[r] = "gathered"
                       /\ IsReported(r)
  BY DEF Allgather, GatherInv
<1>4. NoTransient(all) => net = {}
  <2>1. \A r \in Ranks : all[r].rx = g_rxCount[r] /\ all[r].tx = g_txCount[r]
    BY <1>1, <1>3 DEF IsReported
  <2>2. TotRx(all) = Received /\ TotTx(all) = Sent
    BY <2>1 DEF TotRx, TotTx, Received, Sent
  <2> QED BY <2>2, CountsMeet DEF NoTransient
<1> QED BY <1>1, <1>2, <1>3, <1>4 DEF IsReported

LEMMA LbtsGrows ==
    ASSUME TypeOK, CountInv, GatherInv, EventsInv, TimesInv, Allgather
    PROVE  /\ lbts <= lbts' /\ lbts' <= Infinity
           /\ \A r \in Ranks : m_stop[r] \/ \A e \in m_events[r] : lbts' <= e.ts
<1>0. PICK all \in [Ranks -> LbtsMessage] :
         /\ \A r \in Ranks : pc[r] = "allgather" /\ all[r].smallestTime \in NextTs(r)
         /\ \E smallestTime \in SmallestTimes(all) :
               lbts' = IF NoTransient(all) THEN smallestTime ELSE lbts
  BY GatherStep
<1>1. PICK smallestTime \in SmallestTimes(all) :
         lbts' = IF NoTransient(all) THEN smallestTime ELSE lbts
  BY <1>0
<1>2. \A r \in Ranks : m_stop[r] \/ \A e \in m_events[r] : lbts <= e.ts
  BY <1>0 DEF EventsInv, Done
<1>3. CASE ~NoTransient(all)
  BY <1>1, <1>2, <1>3 DEF TimesInv, TypeOK
<1>4. CASE NoTransient(all)
  <2>1. PICK i \in Ranks : smallestTime = all[i].smallestTime
    BY SmallestIsLess DEF SmallestTimes
  <2>2. \A r \in Ranks : smallestTime <= all[r].smallestTime
    BY SmallestIsLess DEF SmallestTimes
  <2>3. ASSUME NEW r \in Ranks, NEW t \in NextTs(r)
        PROVE  /\ t \in Nat /\ t <= Infinity /\ lbts <= t
               /\ m_stop[r] \/ \A e \in m_events[r] : t <= e.ts
    <3>1. CASE IsLocalFinished(r)
      BY <2>3, <3>1, TimesAssumption DEF NextTs, TimesInv, IsLocalFinished
    <3>2. CASE ~IsLocalFinished(r)
      <4>1. PICK first \in Earliest(r) : t = first.ts
        BY <2>3, <3>2 DEF NextTs
      <4>2. first \in m_events[r] /\ t \in Nat /\ \A e \in m_events[r] : t <= e.ts
        BY <4>1, EarliestIsFirst
      <4>3. lbts <= t /\ t <= MaxTime
        BY <1>2, <3>2, <4>1, <4>2 DEF IsLocalFinished, TimesInv
      <4> QED BY <4>2, <4>3, TimesAssumption
    <3> QED BY <3>1, <3>2
  <2>4. lbts <= smallestTime /\ smallestTime <= Infinity /\ smallestTime \in Nat
    BY <1>0, <2>1, <2>3
  <2>5. ASSUME NEW r \in Ranks, ~m_stop[r], NEW e \in m_events[r]
        PROVE  smallestTime <= e.ts
    <3>1. all[r].smallestTime \in Nat /\ all[r].smallestTime <= e.ts
      BY <1>0, <2>3, <2>5
    <3>2. e.ts \in Nat
      BY DEF TypeOK, Event
    <3> QED BY <2>2, <2>4, <3>1, <3>2
  <2> QED BY <1>1, <1>4, <2>4, <2>5
<1> QED BY <1>3, <1>4

---------------------------------------------------------------------------
(* The window: the LBTS bounds events and messages, and the grants follow  *)
(* from it.                                                                *)

LEMMA TimesInvStep == IInv /\ [Next]_vars => TimesInv'
<1>1. SUFFICES ASSUME IInv, [Next]_vars PROVE TimesInv'
  OBVIOUS
<1>2. \A r \in Ranks : \A e \in m_events'[r] : e.ts <= MaxTime
  BY <1>1, EventsStep DEF IInv, TimesInv
<1>3. \A m \in net' : m.ts <= MaxTime
  BY <1>1, NetStep DEF IInv, TimesInv
<1>4. lbts' <= Infinity
  BY <1>1, LbtsGrows, Frame DEF IInv, TimesInv
<1> QED BY <1>2, <1>3, <1>4 DEF TimesInv

LEMMA LbtsMonotone == ASSUME IInv, [Next]_vars PROVE lbts <= lbts'
<1>1. CASE Allgather
  BY <1>1, LbtsGrows DEF IInv
<1>2. CASE UNCHANGED lbts
  BY <1>2 DEF IInv, TypeOK
<1> QED BY <1>1, <1>2, Frame

(* What a rank knows in ComputeGrant is the LBTS, plus its own look-ahead. *)
LEMMA GrantStep ==
    ASSUME IInv, NEW r \in Ranks, ComputeGrant(r)
    PROVE  \E grant \in Int :
              /\ m_grantedTime' = [m_grantedTime EXCEPT ![r] = grant]
              /\ \/ grant = m_grantedTime[r]
                 \/ grant <= lbts + m_lookAhead[r]
                 \/ m_lookAhead[r] = Infinity
<1>1. PICK smallestTime \in SmallestTimes(m_pLBTS[r]) :
         m_grantedTime' = [m_grantedTime EXCEPT ![r] =
               IF ~NoTransient(m_pLBTS[r]) THEN @
               ELSE IF m_lookAhead[r] = Infinity THEN Infinity
               ELSE Int64(smallestTime + m_lookAhead[r])]
  BY DEF ComputeGrant
<1>2. smallestTime \in Nat /\ m_lookAhead[r] \in Nat /\ m_grantedTime[r] \in Int
  BY SmallestIsLess DEF SmallestTimes, IInv, TypeOK, LbtsMessage
<1>3. CASE NoTransient(m_pLBTS[r]) /\ m_lookAhead[r] # Infinity
  <2>1. smallestTime = lbts
    <3>1. lbts \in SmallestTimes(m_pLBTS[r]) /\ lbts \in Nat
      BY <1>3 DEF IInv, GatherInv, ComputeGrant, TypeOK
    <3>2. smallestTime <= lbts /\ lbts <= smallestTime
      BY <1>1, <3>1, SmallestIsLess DEF SmallestTimes
    <3> QED BY <1>2, <3>1, <3>2
  <2>2. /\ Int64(smallestTime + m_lookAhead[r]) \in Int
        /\ Int64(smallestTime + m_lookAhead[r]) <= lbts + m_lookAhead[r]
    BY <1>2, <2>1, Int64IsLess
  <2> QED BY <1>1, <1>3, <2>2
<1>4. CASE NoTransient(m_pLBTS[r]) /\ m_lookAhead[r] = Infinity
  <2>1. m_grantedTime' = [m_grantedTime EXCEPT ![r] = Infinity]
    BY <1>1, <1>4
  <2>2. Infinity \in Int
    BY TimesAssumption
  <2> QED BY <1>4, <2>1, <2>2
<1>5. CASE ~NoTransient(m_pLBTS[r])
  BY <1>1, <1>2, <1>5 DEF IInv, TypeOK
<1> QED BY <1>3, <1>4, <1>5

(* A rank that a message may come to has a finite look-ahead. *)
LEMMA NotEarlyInRun ==
    ASSUME IInv, NEW r \in Ranks, pc[r] \notin {"user", "allreduce"}, NEW s \in Ranks
    PROVE  /\ runs[s] > 0 /\ ~Early(s)
           /\ \A l \in LinksOf(s) : m_lookAhead[s] <= l.delay /\ m_lookAhead[s] < Infinity
<1>1. ~Early(r) /\ ~Early(s)
  BY DEF IInv, RunInv, Early
<1>2. runs[s] > 0
  BY <1>1 DEF IInv, RunInv, Early
<1>3. \A l \in LinksOf(s) : m_lookAhead[s] <= l.delay
  BY <1>2 DEF IInv, LookAheadInv
<1>4. \A l \in LinksOf(s) : l.delay \in Nat /\ l.delay < Infinity /\ m_lookAhead[s] \in Nat
  BY LinksAssumption, TimesAssumption DEF LinksOf, IInv, TypeOK
<1> QED BY <1>1, <1>2, <1>3, <1>4, TimesAssumption

LEMMA WindowInvStep == IInv /\ [Next]_vars => WindowInv'
<1>1. SUFFICES ASSUME IInv, [Next]_vars, NEW r \in Ranks, NEW l \in LinksOf(r)
               PROVE  /\ m_grantedTime'[r] <= lbts' + l.delay
                      /\ m_currentTs'[r] <= lbts' + l.delay
  BY DEF WindowInv, LinksOf
<1>2. /\ l.delay \in Nat /\ lbts \in Nat /\ m_lookAhead[r] \in Nat
      /\ m_grantedTime[r] \in Int /\ m_currentTs[r] \in Nat
  BY <1>1, LinksAssumption DEF LinksOf, IInv, TypeOK
<1>3. lbts <= lbts' /\ lbts' \in Nat
  BY <1>1, LbtsMonotone, TypeStep DEF IInv, TypeOK
<1>4. m_grantedTime[r] <= lbts + l.delay /\ m_currentTs[r] <= lbts + l.delay
  BY <1>1 DEF IInv, WindowInv
<1>5. m_grantedTime'[r] \in Int /\ m_grantedTime'[r] <= lbts + l.delay
  <2>1. CASE Runs
    <3>1. PICK s \in Ranks : Run(s)
      BY <2>1 DEF Runs
    <3>2. PICK least \in Smallest(LinkDelays(s) \cup {m_lookAhead[s]}) :
             m_grantedTime' = [m_grantedTime EXCEPT ![s] = least]
      BY <3>1 DEF Run
    <3>3. least \in Nat
      BY <1>1, SmallestIsLess, LinkDelaysType DEF IInv, TypeOK
    <3>4. s = r => least <= l.delay
      BY <1>1, <3>2, LinkDelaysBound DEF IInv
    <3> QED BY <1>1, <1>2, <1>4, <3>2, <3>3, <3>4 DEF IInv, TypeOK
  <2>2. CASE Allreduce
    <3>1. runs[r] > 0
      BY <1>1, <2>2 DEF Allreduce, IInv, RunInv
    <3>2. m_lookAhead[r] <= l.delay /\ l.delay < Infinity
      BY <1>1, <3>1, TimesAssumption DEF IInv, LookAheadInv, LinksOf
    <3>3. m_lookAhead[r] # Infinity
      BY <1>2, <3>2, TimesAssumption
    <3>4. m_grantedTime'[r] = m_grantedTime[r]
      BY <2>2, <3>3 DEF Allreduce
    <3> QED BY <1>2, <1>4, <3>4
  <2>3. CASE Grants
    <3>1. PICK s \in Ranks : ComputeGrant(s)
      BY <2>3 DEF Grants
    <3>2. PICK grant \in Int :
             /\ m_grantedTime' = [m_grantedTime EXCEPT ![s] = grant]
             /\ \/ grant = m_grantedTime[s]
                \/ grant <= lbts + m_lookAhead[s]
                \/ m_lookAhead[s] = Infinity
      BY <1>1, <3>1, GrantStep
    <3>3. CASE s = r
      <4>1. m_lookAhead[r] <= l.delay /\ m_lookAhead[r] < Infinity
        BY <1>1, <3>1, <3>3, NotEarlyInRun DEF ComputeGrant
      <4>2. m_grantedTime'[r] = grant
        BY <1>1, <3>2, <3>3 DEF IInv, TypeOK
      <4>3. grant = m_grantedTime[r] \/ grant <= lbts + m_lookAhead[r]
        BY <1>2, <3>2, <3>3, <4>1, TimesAssumption
      <4> QED BY <1>2, <1>4, <4>1, <4>2, <4>3
    <3>4. CASE s # r
      BY <1>1, <1>2, <1>4, <3>2, <3>4 DEF IInv, TypeOK
    <3> QED BY <3>3, <3>4
  <2> QED BY <1>1, <1>2, <1>4, <2>1, <2>2, <2>3, Frame
<1>6. m_currentTs'[r] \in Nat /\ m_currentTs'[r] <= lbts + l.delay
  <2>1. CASE Executes
    <3>1. PICK s, next :
             /\ s \in Ranks
             /\ next \in m_events[s]
             /\ next.ts \in Nat /\ next.ts <= m_grantedTime[s]
             /\ m_currentTs' = [m_currentTs EXCEPT ![s] = next.ts]
      BY <1>1, <2>1, ExecuteStep DEF IInv
    <3> QED BY <1>1, <1>2, <1>4, <3>1 DEF IInv, TypeOK
  <2> QED BY <1>1, <1>2, <1>4, <2>1, Frame
<1> QED BY <1>2, <1>3, <1>5, <1>6

LEMMA CallbackInvStep == IInv /\ [Next]_vars => CallbackInv'
<1>1. SUFFICES ASSUME IInv, [Next]_vars, NEW r \in Ranks, pc'[r] = "callback"
               PROVE  lbts' <= m_currentTs'[r]
  BY DEF CallbackInv
<1>2. CASE Executes
  <2>1. PICK s, next :
           /\ s \in Ranks
           /\ next \in m_events[s]
           /\ pc[s] = "execute" /\ ~m_stop[s]
           /\ m_currentTs' = [m_currentTs EXCEPT ![s] = next.ts]
           /\ pc' = [pc EXCEPT ![s] = "callback"]
    BY <1>1, <1>2, ExecuteStep DEF IInv
  <2>2. lbts <= next.ts
    BY <1>1, <2>1 DEF IInv, EventsInv, Done
  <2>3. UNCHANGED lbts
    BY <1>2 DEF Executes, ProcessOneEvent, history
  <2>4. CASE s = r
    BY <1>1, <2>1, <2>2, <2>3, <2>4 DEF IInv, TypeOK
  <2>5. CASE s # r
    BY <1>1, <2>1, <2>3, <2>5 DEF IInv, TypeOK, CallbackInv
  <2> QED BY <2>4, <2>5
<1>3. CASE ~Executes
  <2>1. pc[r] = "callback"
    BY <1>1, <1>3, NextSplit DEF Sends, SendPacket, Receives, ReceiveMessage, Schedules,
       Schedule, Stops, Stop, Narrows, BoundLookAhead, Runs, Run, Starts, StartLoop,
       Grants, ComputeGrant, Enters, EnterAllgather, Turns, Return, LoopHead,
       Allreduce, Allgather, Goto, vars, IInv, TypeOK
  <2>2. ~Allgather
    BY <2>1 DEF Allgather
  <2> QED BY <1>1, <1>3, <2>1, <2>2, Frame DEF IInv, CallbackInv
<1> QED BY <1>2, <1>3

LEMMA DoneStays ==
    ASSUME OneRun, IInv, [Next]_vars, NEW r \in Ranks, Done(r) PROVE Done(r)'
<1>1. CASE Runs
  <2>1. PICK s \in Ranks : Run(s)
    BY <1>1 DEF Runs
  <2>2. runs[s] = 0
    BY <2>1, BoundsAssumption DEF Run, OneRun, IInv, RunInv
  <2> QED BY <2>1, <2>2 DEF Run, Goto, Done, IInv, TypeOK
<1>2. CASE UNCHANGED runs /\ \E s \in Ranks : Moves(s)
  BY <1>2 DEF Moves, Goto, Done, IInv, TypeOK
<1>3. CASE Allreduce \/ Allgather \/ UNCHANGED <<pc, runs>>
  BY <1>3 DEF Allreduce, Allgather, Done
<1> QED BY <1>1, <1>2, <1>3, ControlStep DEF Runs

(* Nothing happens to a rank that is not in its user code and does not     *)
(* receive, unless it moves.                                               *)
LEMMA Untouched ==
    ASSUME IInv, [Next]_vars, NEW r \in Ranks,
           pc[r] \in {"execute", "allgather", "gathered"}, pc'[r] = pc[r]
    PROVE  /\ m_events'[r] = m_events[r] /\ m_stop'[r] = m_stop[r]
           /\ m_grantedTime'[r] = m_grantedTime[r]
           /\ g_txCount'[r] = g_txCount[r] /\ g_rxCount'[r] = g_rxCount[r]
           /\ m_pLBTS'[r] = m_pLBTS[r]
           /\ lbts' = lbts
<1>1. m_events'[r] = m_events[r]
  <2>1. CASE Schedules
    BY <2>1 DEF Schedules, Schedule, InUserCode, Insert
  <2>2. CASE Receives
    BY <2>2 DEF Receives, ReceiveMessage, Insert
  <2>3. CASE Executes
    BY <2>3 DEF Executes, ProcessOneEvent, Goto, IInv, TypeOK
  <2> QED BY <2>1, <2>2, <2>3, Frame
<1>2. m_stop'[r] = m_stop[r]
  <2>1. CASE Stops \/ Starts
    BY <2>1 DEF Stops, Stop, InUserCode, Starts, StartLoop, IInv, TypeOK
  <2> QED BY <2>1, Frame
<1>3. m_grantedTime'[r] = m_grantedTime[r]
  <2>1. CASE Runs
    BY <2>1 DEF Runs, Run
  <2>2. CASE Grants
    BY <2>2 DEF Grants, ComputeGrant, Goto, IInv, TypeOK
  <2>3. ~Allreduce
    BY DEF Allreduce
  <2> QED BY <2>1, <2>2, <2>3, Frame
<1>4. g_txCount'[r] = g_txCount[r]
  <2>1. CASE Sends
    <3>1. PICK s \in Ranks : /\ pc[s] = "callback"
                             /\ g_txCount' = [g_txCount EXCEPT ![s] = @ \cup {made + 1}]
      BY <2>1 DEF Sends, SendPacket
    <3> QED BY <3>1
  <2> QED BY <2>1, Frame
<1>5. g_rxCount'[r] = g_rxCount[r]
  <2>1. CASE Receives
    <3>1. PICK s \in Ranks, m \in net :
             /\ pc[s] = "receive"
             /\ g_rxCount' = [g_rxCount EXCEPT ![s] = @ \cup {m.id}]
      BY <2>1 DEF Receives, ReceiveMessage
    <3> QED BY <3>1
  <2> QED BY <2>1, Frame
<1>6. ~Allgather
  BY DEF Allgather
<1>7. m_pLBTS'[r] = m_pLBTS[r]
  <2>1. CASE Enters
    BY <2>1 DEF Enters, EnterAllgather, IInv, TypeOK
  <2> QED BY <1>6, <2>1, Frame
<1> QED BY <1>1, <1>2, <1>3, <1>4, <1>5, <1>6, <1>7, Frame

LEMMA EventsInvStep == OneRun /\ IInv /\ [Next]_vars => EventsInv'
<1>1. SUFFICES ASSUME OneRun, IInv, [Next]_vars, NEW r \in Ranks,
                      ~Done(r)', ~m_stop'[r], NEW e \in m_events'[r]
               PROVE  lbts' <= e.ts
  BY DEF EventsInv
<1>2. CASE Allgather
  BY <1>1, <1>2, LbtsGrows DEF IInv, Allgather, sim, queue
<1>3. CASE ~Allgather
  <2>1. lbts' = lbts /\ lbts \in Nat
    BY <1>1, <1>3, Frame DEF IInv, TypeOK
  <2>2. m_currentTs[r] \in Nat /\ ~Done(r)
    BY <1>1, DoneStays DEF IInv, TypeOK
  <2>3. CASE Early(r) \/ pc[r] = "reduced"
    <3>1. lbts = 0
      BY <1>1, <2>3 DEF IInv, StartInv
    <3>2. e.ts \in Nat
      BY <1>1, TypeStep DEF IInv, TypeOK, Event
    <3> QED BY <2>1, <3>1, <3>2
  <2>4. CASE ~Early(r) /\ pc[r] # "reduced"
    <3>1. ~m_stop[r]
      BY <1>1, <2>4, Frame DEF Stops, Stop, Starts, StartLoop, IInv, TypeOK
    <3>2. e \in m_events[r] => lbts <= e.ts
      BY <1>1, <2>2, <3>1 DEF IInv, EventsInv
    <3>3. InUserCode(r) => lbts <= m_currentTs[r]
      BY <1>1, <2>2, <2>4 DEF InUserCode, Early, Done, IInv, RunInv, CallbackInv
    <3>4. \A m \in net : m.to = r => lbts <= m.ts
      BY <1>1, <2>1 DEF IInv, TypeOK, MessagesInv
    <3>5. e \in m_events[r] \/ (InUserCode(r) /\ m_currentTs[r] <= e.ts /\ e.ts \in Int)
             \/ \E m \in net : m.to = r /\ m.ts = e.ts
      <4>1. e.ts \in Int
        BY <1>1, TypeStep DEF IInv, TypeOK, Event
      <4> QED BY <1>1, <4>1, EventsStep DEF IInv
    <3>6. InUserCode(r) /\ m_currentTs[r] <= e.ts /\ e.ts \in Int => lbts <= e.ts
      BY <2>1, <2>2, <3>3
    <3> QED BY <2>1, <3>2, <3>4, <3>5, <3>6
  <2> QED BY <2>3, <2>4
<1> QED BY <1>2, <1>3

LEMMA ExecuteInvStep == IInv /\ [Next]_vars => ExecuteInv'
<1>1. SUFFICES ASSUME IInv, [Next]_vars, NEW r \in Ranks, pc'[r] = "execute"
               PROVE  /\ ~m_stop'[r]
                      /\ \A e \in Earliest(r)' : e.ts <= m_grantedTime'[r]
  BY DEF ExecuteInv
<1>2. CASE pc[r] = "execute"
  BY <1>1, <1>2, Untouched DEF IInv, ExecuteInv, Earliest
<1>3. CASE LoopHead(r)
  <2>1. InWindow(r) /\ UNCHANGED <<m_stop, m_events, m_grantedTime>>
    BY <1>1, <1>3 DEF LoopHead, Goto, IInv, TypeOK, sim, window, queue
  <2> QED BY <2>1 DEF InWindow, IsLocalFinished, NextTs, Earliest
<1>4. CASE ComputeGrant(r)
  <2>1. InWindow(r)'
    BY <1>1, <1>4 DEF ComputeGrant, Goto, IInv, TypeOK
  <2> QED BY <2>1 DEF InWindow, IsLocalFinished, NextTs
<1>5. pc[r] = "execute" \/ LoopHead(r) \/ ComputeGrant(r)
  <2>1. CASE Sends \/ Receives \/ Schedules \/ Stops \/ Narrows \/ UNCHANGED vars
    BY <1>1, <2>1 DEF Sends, SendPacket, Receives, ReceiveMessage, Schedules,
       Schedule, Stops, Stop, Narrows, BoundLookAhead, vars
  <2>2. CASE Runs \/ Starts \/ Executes \/ Enters
    BY <1>1, <2>2 DEF Runs, Run, Starts, StartLoop, Executes, ProcessOneEvent, Enters,
       EnterAllgather, Goto, IInv, TypeOK
  <2>3. CASE Allreduce \/ Allgather
    BY <1>1, <2>3 DEF Allreduce, Allgather
  <2>4. CASE Turns
    BY <1>1, <2>4 DEF Turns, Return, LoopHead, Goto, IInv, TypeOK
  <2>5. CASE Grants
    <3>1. PICK s \in Ranks : ComputeGrant(s)
      BY <2>5 DEF Grants
    <3>2. PICK label : pc' = [pc EXCEPT ![s] = label]
      BY <3>1 DEF ComputeGrant, Goto
    <3> QED BY <1>1, <3>1, <3>2 DEF IInv, TypeOK
  <2>6. \/ Sends \/ Receives \/ Schedules \/ Stops \/ Narrows \/ Runs \/ Starts
        \/ Executes \/ Grants \/ Enters \/ Turns \/ Allreduce \/ Allgather
        \/ UNCHANGED vars
    BY <1>1, NextSplit
  <2> QED BY <2>1, <2>2, <2>3, <2>4, <2>5, <2>6
<1> QED BY <1>2, <1>3, <1>4, <1>5

LEMMA MessagesInvStep == OneRun /\ IInv /\ [Next]_vars => MessagesInv'
<1>1. SUFFICES ASSUME OneRun, IInv, [Next]_vars, NEW m \in net'
               PROVE  /\ m_lookAhead'[m.to] < Infinity
                      /\ lbts' + m_lookAhead'[m.to] <= m.ts
                      /\ m_grantedTime'[m.to] <= m.ts
  BY DEF MessagesInv
<1>2. /\ m.to \in Ranks /\ m.ts \in Nat /\ lbts \in Nat
      /\ m_lookAhead[m.to] \in Nat /\ m_grantedTime[m.to] \in Int
  BY <1>1, NetStep DEF IInv, TypeOK
<1>3. CASE m \notin net
  <2>1. PICK s \in Ranks : \E l \in LinksOf(m.to) :
           Sends /\ pc[s] = "callback" /\ m_currentTs[s] + l.delay <= m.ts
    BY <1>1, <1>3, NetStep DEF IInv
  <2>2. PICK l \in LinksOf(m.to) : m_currentTs[s] + l.delay <= m.ts
    BY <2>1
  <2>3. UNCHANGED <<m_lookAhead, m_grantedTime, lbts>>
    BY <2>1 DEF Sends, SendPacket, window
  <2>4. m_lookAhead[m.to] <= l.delay /\ m_lookAhead[m.to] < Infinity
    BY <1>1, <1>2, <2>1, NotEarlyInRun
  <2>5. lbts <= m_currentTs[s] /\ m_grantedTime[m.to] <= lbts + l.delay
    BY <1>1, <1>2, <2>1 DEF IInv, CallbackInv, WindowInv
  <2>6. l.delay \in Nat /\ m_currentTs[s] \in Nat
    BY <1>1, LinksAssumption DEF LinksOf, IInv, TypeOK
  <2> QED BY <1>2, <2>2, <2>3, <2>4, <2>5, <2>6
<1>4. CASE m \in net
  <2>1. /\ m_lookAhead[m.to] < Infinity
        /\ lbts + m_lookAhead[m.to] <= m.ts
        /\ m_grantedTime[m.to] <= m.ts
    BY <1>1, <1>4 DEF IInv, MessagesInv
  <2>2. \A s \in Ranks : ~Early(s)
    BY <1>1, <1>4 DEF IInv, StartInv
  <2>3. ~Runs /\ ~Allreduce
    <3>1. ~Allreduce
      BY <1>2, <2>2 DEF Allreduce, Early
    <3>2. ASSUME NEW s \in Ranks, Run(s) PROVE FALSE
      BY <1>1, <2>2, <3>2, BoundsAssumption DEF Run, OneRun, Early, IInv, RunInv
    <3> QED BY <3>1, <3>2 DEF Runs
  <2>4. CASE Allgather
    <3>1. UNCHANGED <<m_lookAhead, m_grantedTime>>
      BY <2>4 DEF Allgather
    <3>2. UNCHANGED lbts
      BY <1>1, <1>4, <2>4, GatherStep DEF IInv
    <3> QED BY <2>1, <3>1, <3>2
  <2>5. CASE Narrows
    <3>1. PICK s \in Ranks, b \in Bounds :
             b < m_lookAhead[s] /\ m_lookAhead' = [m_lookAhead EXCEPT ![s] = b]
      BY <2>5 DEF Narrows, BoundLookAhead
    <3>2. b \in Int /\ UNCHANGED <<m_grantedTime, lbts>>
      BY <2>5, TimesAssumption DEF Narrows, BoundLookAhead, history
    <3>3. m_lookAhead'[m.to] \in Int /\ m_lookAhead'[m.to] <= m_lookAhead[m.to]
      BY <1>1, <1>2, <3>1, <3>2 DEF IInv, TypeOK
    <3> QED BY <1>2, <2>1, <3>2, <3>3, TimesAssumption
  <2>6. CASE Grants
    <3>1. PICK s \in Ranks : ComputeGrant(s)
      BY <2>6 DEF Grants
    <3>2. PICK grant \in Int :
             /\ m_grantedTime' = [m_grantedTime EXCEPT ![s] = grant]
             /\ \/ grant = m_grantedTime[s]
                \/ grant <= lbts + m_lookAhead[s]
                \/ m_lookAhead[s] = Infinity
      BY <1>1, <3>1, GrantStep
    <3>3. UNCHANGED <<m_lookAhead, lbts>>
      BY <3>1 DEF ComputeGrant, history
    <3>4. CASE s = m.to
      <4>1. m_grantedTime'[m.to] = grant
        BY <1>1, <1>2, <3>2, <3>4 DEF IInv, TypeOK
      <4>2. grant = m_grantedTime[m.to] \/ grant <= lbts + m_lookAhead[m.to]
        BY <1>2, <2>1, <3>2, <3>4, TimesAssumption
      <4> QED BY <1>2, <2>1, <3>2, <3>3, <4>1, <4>2
    <3>5. CASE s # m.to
      BY <1>1, <1>2, <2>1, <3>2, <3>3, <3>5 DEF IInv, TypeOK
    <3> QED BY <3>4, <3>5
  <2>7. CASE UNCHANGED <<m_lookAhead, m_grantedTime, lbts>>
    BY <2>1, <2>7
  <2> QED BY <1>1, <2>3, <2>4, <2>5, <2>6, <2>7, Frame
<1> QED BY <1>3, <1>4

LEMMA NeverLateStep == OneRun /\ IInv /\ [Next]_vars => NeverLate'
<1>1. SUFFICES ASSUME OneRun, IInv, [Next]_vars PROVE NeverLate'
  OBVIOUS
<1>2. \A r \in Ranks : /\ m_currentTs[r] \in Nat
                       /\ \A e \in m_events[r] : m_currentTs[r] <= e.ts
  BY <1>1 DEF IInv, TypeOK, NeverLate, Event
<1>3. \A m \in net : m.to \in Ranks /\ m.ts \in Nat /\ m_currentTs[m.to] <= m.ts
  BY <1>1 DEF IInv, TypeOK, NeverLate
<1>4. CASE Executes
  <2>1. PICK s, next :
           /\ s \in Ranks
           /\ next \in m_events[s]
           /\ next.ts \in Nat /\ next.ts <= m_grantedTime[s]
           /\ \A f \in m_events[s] : next.ts <= f.ts
           /\ m_events' = [m_events EXCEPT ![s] = @ \ {next}]
           /\ m_currentTs' = [m_currentTs EXCEPT ![s] = next.ts]
    BY <1>1, <1>4, ExecuteStep DEF IInv
  <2>2. UNCHANGED net
    BY <1>4 DEF Executes, ProcessOneEvent, mpi
  <2>3. ASSUME NEW r \in Ranks, NEW e \in m_events'[r] PROVE e.ts >= m_currentTs'[r]
    <3>1. CASE r = s
      BY <1>1, <2>1, <2>3, <3>1 DEF IInv, TypeOK, Event
    <3>2. CASE r # s
      <4>1. e \in m_events[r] /\ m_currentTs'[r] = m_currentTs[r]
        BY <1>1, <2>1, <2>3, <3>2 DEF IInv, TypeOK
      <4> QED BY <1>1, <4>1 DEF IInv, NeverLate
    <3> QED BY <3>1, <3>2
  <2>4. ASSUME NEW m \in net' PROVE m.ts >= m_currentTs'[m.to]
    <3>1. m \in net /\ m_grantedTime[m.to] <= m.ts /\ m_grantedTime[m.to] \in Int
      BY <1>1, <1>3, <2>2, <2>4 DEF IInv, MessagesInv, TypeOK
    <3>2. CASE m.to = s
      BY <1>1, <1>3, <2>1, <3>1, <3>2 DEF IInv, TypeOK
    <3>3. CASE m.to # s
      BY <1>1, <1>3, <2>1, <3>1, <3>3 DEF IInv, TypeOK
    <3> QED BY <3>2, <3>3
  <2> QED BY <2>3, <2>4 DEF NeverLate
<1>5. CASE UNCHANGED m_currentTs
  <2>1. ASSUME NEW r \in Ranks, NEW e \in m_events'[r] PROVE e.ts >= m_currentTs'[r]
    <3>1. e.ts \in Int
      BY <1>1, TypeStep, <2>1 DEF IInv, TypeOK, Event
    <3>2. m_currentTs[r] <= e.ts
      BY <1>1, <1>2, <1>3, <2>1, EventsStep DEF IInv
    <3> QED BY <1>2, <1>5, <3>1, <3>2
  <2>2. ASSUME NEW m \in net' PROVE m.ts >= m_currentTs'[m.to]
    <3>1. CASE m \in net
      BY <1>3, <1>2, <1>5, <3>1
    <3>2. CASE m \notin net
      <4>1. PICK s \in Ranks : \E l \in LinksOf(m.to) :
               pc[s] = "callback" /\ m_currentTs[s] + l.delay <= m.ts
        BY <1>1, <2>2, <3>2, NetStep DEF IInv
      <4>2. PICK l \in LinksOf(m.to) : m_currentTs[s] + l.delay <= m.ts
        BY <4>1
      <4>3. m.to \in Ranks /\ m.ts \in Nat
        BY <1>1, <2>2, NetStep DEF IInv
      <4>4. lbts <= m_currentTs[s] /\ m_currentTs[m.to] <= lbts + l.delay
        BY <1>1, <4>1, <4>3 DEF IInv, CallbackInv, WindowInv
      <4>5. l.delay \in Nat /\ m_currentTs[s] \in Nat /\ lbts \in Nat
        BY <1>1, LinksAssumption DEF LinksOf, IInv, TypeOK
      <4> QED BY <1>2, <1>5, <4>2, <4>3, <4>4, <4>5
    <3> QED BY <3>1, <3>2
  <2> QED BY <2>1, <2>2 DEF NeverLate
<1> QED BY <1>1, <1>4, <1>5, Frame

---------------------------------------------------------------------------
(* The counters and the collectives. *)

LEMMA CountInvStep == IInv /\ [Next]_vars => CountInv'
<1>1. SUFFICES ASSUME IInv, [Next]_vars PROVE CountInv'
  OBVIOUS
<1>2. made \in Nat /\ net \subseteq [id : Nat, to : Ranks, ts : Nat]
  BY <1>1 DEF IInv, TypeOK
<1>3. /\ Sent \subseteq 1..made
      /\ Received \cup {m.id : m \in net} = Sent
      /\ Received \cap {m.id : m \in net} = {}
      /\ \A m, n \in net : m.id = n.id => m = n
  BY <1>1 DEF IInv, CountInv
<1>4. CASE Sends
  <2>1. PICK s, m :
           /\ s \in Ranks
           /\ m.id = made + 1 /\ net' = net \cup {m}
           /\ g_txCount' = [g_txCount EXCEPT ![s] = @ \cup {made + 1}]
           /\ made' = made + 1 /\ UNCHANGED g_rxCount
    BY <1>4 DEF Sends, SendPacket
  <2>2. Sent' = Sent \cup {made + 1} /\ Received' = Received
    BY <1>1, <2>1 DEF Sent, Received, IInv, TypeOK
  <2>3. Sent' \subseteq 1..made'
    BY <1>2, <1>3, <2>1, <2>2
  <2>4. made + 1 \notin Sent
    BY <1>2, <1>3
  <2>5. {n.id : n \in net'} = {n.id : n \in net} \cup {made + 1}
    BY <2>1
  <2>6. Received' \cup {n.id : n \in net'} = Sent'
        /\ Received' \cap {n.id : n \in net'} = {}
    BY <1>3, <2>2, <2>4, <2>5
  <2>7. \A n \in net : n.id # made + 1
    BY <1>3, <2>4
  <2>8. \A n, k \in net' : n.id = k.id => n = k
    BY <1>3, <2>1, <2>7
  <2> QED BY <2>3, <2>6, <2>8 DEF CountInv
<1>5. CASE Receives
  <2>1. PICK s \in Ranks, m \in net :
           /\ net' = net \ {m}
           /\ g_rxCount' = [g_rxCount EXCEPT ![s] = @ \cup {m.id}]
           /\ UNCHANGED <<g_txCount, made>>
    BY <1>5 DEF Receives, ReceiveMessage, history
  <2>2. Received' = Received \cup {m.id} /\ Sent' = Sent
    BY <1>1, <2>1 DEF Sent, Received, IInv, TypeOK
  <2>3. {n.id : n \in net'} = {n.id : n \in net} \ {m.id}
    BY <1>3, <2>1
  <2> QED BY <1>3, <2>1, <2>2, <2>3 DEF CountInv
<1>6. CASE UNCHANGED <<net, g_txCount, g_rxCount>>
  <2>1. UNCHANGED made \/ made' = made + 1
    BY <1>1, NextSplit DEF Sends, SendPacket, Receives, ReceiveMessage, Schedules,
       Schedule, Stops, Stop, Narrows, BoundLookAhead, Runs, Run, Starts, StartLoop,
       Executes, ProcessOneEvent, Grants, ComputeGrant, Enters, EnterAllgather, Turns,
       Return, LoopHead, Allreduce, Allgather, vars, history
  <2>2. 1..made \subseteq 1..made'
    BY <1>2, <2>1
  <2>3. Sent' = Sent /\ Received' = Received
    BY <1>6 DEF Sent, Received
  <2> QED BY <1>3, <1>6, <2>2, <2>3 DEF CountInv
<1>7. Sends \/ Receives \/ UNCHANGED <<net, g_txCount, g_rxCount>>
  BY <1>1, Frame
<1> QED BY <1>4, <1>5, <1>6, <1>7

LEMMA ReachesGather ==
    ASSUME IInv, [Next]_vars, NEW r \in Ranks
    PROVE  /\ pc'[r] = "allgather" => pc[r] = "allgather" \/ EnterAllgather(r)
           /\ pc'[r] = "gathered" => pc[r] = "gathered" \/ Allgather
<1>1. CASE Sends \/ Receives \/ Schedules \/ Stops \/ Narrows \/ UNCHANGED vars
  BY <1>1 DEF Sends, SendPacket, Receives, ReceiveMessage, Schedules,
     Schedule, Stops, Stop, Narrows, BoundLookAhead, vars
<1>2. CASE Runs \/ Starts \/ Executes \/ Turns
  BY <1>2 DEF Runs, Run, Starts, StartLoop, Executes, ProcessOneEvent, Turns, Return,
     LoopHead, Goto, IInv, TypeOK
<1>3. CASE Allreduce \/ Allgather
  BY <1>3 DEF Allreduce, Allgather
<1>4. CASE Grants
  <2>1. PICK s \in Ranks, label \in {"execute", "loop"} : pc' = [pc EXCEPT ![s] = label]
    BY <1>4 DEF Grants, ComputeGrant, Goto
  <2> QED BY <2>1 DEF IInv, TypeOK
<1>5. CASE Enters
  <2>1. PICK s \in Ranks : EnterAllgather(s) /\ pc' = [pc EXCEPT ![s] = "allgather"]
    BY <1>5 DEF Enters, EnterAllgather, Goto
  <2> QED BY <2>1 DEF IInv, TypeOK
<1> QED BY <1>1, <1>2, <1>3, <1>4, <1>5, NextSplit

LEMMA GatherInvStep == IInv /\ [Next]_vars => GatherInv'
<1>1. SUFFICES ASSUME IInv, [Next]_vars, NEW r \in Ranks
               PROVE  /\ pc'[r] = "allgather" => IsReported(r)'
                      /\ pc'[r] = "gathered" /\ NoTransient(m_pLBTS'[r]) =>
                            lbts' \in SmallestTimes(m_pLBTS'[r])
  BY DEF GatherInv
<1>2. CASE pc'[r] = pc[r] /\ pc[r] \in {"allgather", "gathered"}
  <2>1. /\ m_events'[r] = m_events[r] /\ m_stop'[r] = m_stop[r]
        /\ g_txCount'[r] = g_txCount[r] /\ g_rxCount'[r] = g_rxCount[r]
        /\ m_pLBTS'[r] = m_pLBTS[r] /\ lbts' = lbts
    BY <1>1, <1>2, Untouched
  <2>2. CASE pc[r] = "allgather"
    BY <1>1, <1>2, <2>1, <2>2
       DEF IInv, GatherInv, IsReported, IsLocalFinished, NextTs, Earliest
  <2>3. CASE pc[r] = "gathered"
    BY <1>1, <1>2, <2>1, <2>3 DEF IInv, GatherInv
  <2> QED BY <1>2, <2>2, <2>3
<1>3. CASE EnterAllgather(r)
  <2>1. PICK nextTime \in NextTs(r) :
          m_pLBTS' = [m_pLBTS EXCEPT ![r][r] =
             [rx |-> g_rxCount[r], tx |-> g_txCount[r],
              isFinished |-> IsLocalFinished(r), smallestTime |-> nextTime]]
    BY <1>3 DEF EnterAllgather
  <2>2. UNCHANGED <<m_events, m_stop, g_txCount, g_rxCount>>
    BY <1>3 DEF EnterAllgather, sim, queue, mpi
  <2>3. m_pLBTS'[r][r] = [rx |-> g_rxCount[r], tx |-> g_txCount[r],
                         isFinished |-> IsLocalFinished(r), smallestTime |-> nextTime]
    BY <1>1, <2>1 DEF IInv, TypeOK
  <2>4. IsReported(r)'
    BY <2>1, <2>2, <2>3 DEF IsReported, IsLocalFinished, NextTs, Earliest
  <2>5. pc'[r] = "allgather"
    BY <1>1, <1>3 DEF EnterAllgather, Goto, IInv, TypeOK
  <2> QED BY <2>4, <2>5
<1>4. CASE Allgather
  <2>1. PICK all \in [Ranks -> LbtsMessage] :
           /\ m_pLBTS' = [s \in Ranks |-> all] /\ pc'[r] = "gathered"
           /\ \E smallestTime \in SmallestTimes(all) :
                 lbts' = IF NoTransient(all) THEN smallestTime ELSE lbts
    BY <1>1, <1>4, GatherStep DEF IInv
  <2> QED BY <2>1
<1> QED BY <1>1, <1>2, <1>3, <1>4, ReachesGather

---------------------------------------------------------------------------
(* The end: once every rank has computed that all are finished, nothing    *)
(* happens any more but that they leave Run.                               *)

LEMMA AllEndStays == ASSUME OneRun, IInv, AllEnd, [Next]_vars PROVE AllEnd'
<1>1. ASSUME NEW s \in Ranks
      PROVE  /\ pc[s] \in {"user", "loop", "gathered"}
             /\ runs[s] > 0
             /\ pc[s] = "loop" => m_globalFinished[s]
             /\ pc[s] = "gathered" => AllFinished(m_pLBTS[s]) /\ IsLocalFinished(s)
  BY <1>1 DEF AllEnd, Done, IInv, RunInv
<1>2. net = {}
  BY DEF AllEnd
<1>3. /\ ~Sends /\ ~Receives /\ ~Executes /\ ~Enters /\ ~Starts
  BY <1>1 DEF Sends, SendPacket, Receives, ReceiveMessage, Executes, ProcessOneEvent,
     Enters, EnterAllgather, Starts, StartLoop
<1>4. ~Runs
  <2>1. \A s \in Ranks : runs[s] = 1
    BY <1>1 DEF IInv, RunInv
  <2>2. \A s \in Ranks : ~(runs[s] < MaxRuns)
    BY <2>1, BoundsAssumption DEF OneRun
  <2> QED BY <2>2 DEF Runs, Run
<1>5. net' = {}
  BY <1>2, <1>3, Frame
<1>6. SUFFICES ASSUME NEW s \in Ranks
               PROVE  \/ Done(s)'
                      \/ pc'[s] = "loop" /\ m_globalFinished'[s]
                      \/ /\ pc'[s] = "gathered" /\ AllFinished(m_pLBTS'[s])
                         /\ IsLocalFinished(s)'
  BY <1>5 DEF AllEnd
<1>7. CASE Allreduce \/ Allgather
  <2>1. Allgather
    BY <1>1, <1>6, <1>7 DEF Allreduce
  <2> QED BY <1>1, <1>6, <2>1 DEF Allgather
<1>8. CASE Schedules \/ Stops \/ Narrows \/ UNCHANGED vars
  <2>1. pc' = pc /\ m_pLBTS' = m_pLBTS /\ m_globalFinished' = m_globalFinished
        /\ runs' = runs
    BY <1>8 DEF Schedules, Schedule, Stops, Stop, Narrows, BoundLookAhead, vars,
       window, history
  <2>2. CASE pc[s] = "gathered"
    <3>1. m_events'[s] = m_events[s] /\ m_stop'[s] = m_stop[s]
      BY <2>1, <2>2, Untouched
    <3> QED BY <1>1, <2>1, <2>2, <3>1 DEF IsLocalFinished
  <2> QED BY <1>1, <2>1, <2>2 DEF Done
<1>9. CASE Turns
  <2>1. PICK r \in Ranks : LoopHead(r)
    BY <1>1, <1>9 DEF Turns, Return
  <2>2. pc' = [pc EXCEPT ![r] = "user"] /\ UNCHANGED <<sim, window, queue, runs>>
    BY <1>1, <2>1 DEF LoopHead, Goto, history
  <2> QED BY <1>1, <2>2 DEF Done, IsLocalFinished, sim, window, queue, IInv, TypeOK
<1>10. CASE Grants
  <2>1. PICK r \in Ranks : ComputeGrant(r)
    BY <1>10 DEF Grants
  <2>2. /\ m_globalFinished' = [m_globalFinished EXCEPT ![r] = TRUE]
        /\ IsLocalFinished(r)
        /\ UNCHANGED <<m_pLBTS, m_events, m_stop, runs>>
    BY <1>1, <2>1 DEF ComputeGrant, sim, queue, history
  <2>3. ~InWindow(r)'
    BY <2>2 DEF InWindow, IsLocalFinished
  <2>4. pc' = [pc EXCEPT ![r] = "loop"]
    BY <2>1, <2>3 DEF ComputeGrant, Goto
  <2> QED BY <1>1, <2>2, <2>4 DEF Done, IsLocalFinished, IInv, TypeOK
<1> QED BY <1>3, <1>4, <1>7, <1>8, <1>9, <1>10, NextSplit

LEMMA EndInvStep == OneRun /\ IInv /\ [Next]_vars => EndInv'
<1>1. SUFFICES ASSUME OneRun, IInv, [Next]_vars, NEW r \in Ranks, Ending(r)'
               PROVE  AllEnd'
  BY DEF EndInv
<1>2. CASE Ending(r)
  BY <1>1, <1>2, AllEndStays DEF IInv, EndInv
<1>3. CASE ~Ending(r)
  <2>1. ~m_globalFinished'[r]
    <3>1. CASE Starts
      BY <1>1, <1>3, <3>1 DEF Starts, StartLoop, Ending, IInv, TypeOK
    <3>2. CASE Grants
      <4>1. PICK s \in Ranks : ComputeGrant(s)
        BY <3>2 DEF Grants
      <4>2. m_globalFinished' = [m_globalFinished EXCEPT ![s] = AllFinished(m_pLBTS[s])]
            /\ pc[s] = "gathered"
        BY <4>1 DEF ComputeGrant
      <4>3. m_globalFinished \in [Ranks -> BOOLEAN]
        BY <1>1 DEF IInv, TypeOK
      <4>4. CASE s = r
        BY <1>3, <4>2, <4>3, <4>4, Zenon DEF Ending
      <4>5. CASE s # r
        BY <1>3, <4>2, <4>3, <4>5, Zenon DEF Ending
      <4> QED BY <4>4, <4>5
    <3> QED BY <1>1, <1>3, <3>1, <3>2, Frame DEF Ending
  <2>2. pc'[r] = "gathered" /\ AllFinished(m_pLBTS'[r])
    BY <1>1, <2>1 DEF Ending
  <2>3. pc[r] # "gathered"
    <3>1. ASSUME pc[r] = "gathered" PROVE m_pLBTS'[r] = m_pLBTS[r]
      BY <1>1, <2>2, <3>1, Untouched
    <3> QED BY <1>3, <2>2, <3>1 DEF Ending
  <2>4. Allgather
    BY <1>1, <2>2, <2>3, ReachesGather
  <2>5. PICK all \in [Ranks -> LbtsMessage] :
           /\ m_pLBTS' = [s \in Ranks |-> all]
           /\ \A s \in Ranks : /\ pc'[s] = "gathered"
                               /\ all[s].isFinished = IsLocalFinished(s)
           /\ NoTransient(all) => net = {}
    BY <1>1, <2>4, GatherStep DEF IInv
  <2>6. AllFinished(all) /\ \A s \in Ranks : m_pLBTS'[s] = all
    BY <1>1, <2>2, <2>5
  <2>7. net' = {}
    BY <2>4, <2>5, <2>6 DEF AllFinished, Allgather, mpi
  <2>8. \A s \in Ranks : IsLocalFinished(s)'
    BY <2>4, <2>5, <2>6 DEF AllFinished, Allgather, IsLocalFinished, sim, queue
  <2> QED BY <2>5, <2>6, <2>7, <2>8 DEF AllEnd
<1> QED BY <1>2, <1>3

---------------------------------------------------------------------------
(* The invariant. *)

LEMMA InitInv == Init => IInv
<1>1. SUFFICES ASSUME Init PROVE IInv
  OBVIOUS
<1>2. TypeOK
  BY <1>1, InitType
<1>3. /\ RunInv /\ StartInv /\ TimesInv /\ LookAheadInv /\ EventsInv /\ CallbackInv
      /\ ExecuteInv /\ MessagesInv /\ GatherInv /\ NeverLate
  BY <1>1, TimesAssumption DEF Init, RunInv, StartInv, TimesInv, LookAheadInv,
     EventsInv, CallbackInv, ExecuteInv, MessagesInv, GatherInv, NeverLate, Early, Done
<1>4. WindowInv
  BY <1>1, LinksAssumption DEF Init, WindowInv, LinksOf
<1>5. CountInv
  BY <1>1 DEF Init, CountInv, Sent, Received
<1>6. EndInv
  BY <1>1 DEF Init, EndInv, Ending
<1> QED BY <1>2, <1>3, <1>4, <1>5, <1>6 DEF IInv

LEMMA NextInv == OneRun /\ IInv /\ [Next]_vars => IInv'
<1>1. SUFFICES ASSUME OneRun, IInv, [Next]_vars PROVE IInv'
  OBVIOUS
<1>2. TypeOK' /\ RunInv' /\ StartInv' /\ LookAheadInv'
  BY <1>1, TypeStep, RunInvStep, StartInvStep, LookAheadInvStep DEF IInv
<1>3. /\ TimesInv' /\ WindowInv' /\ EventsInv' /\ CallbackInv' /\ ExecuteInv'
      /\ MessagesInv' /\ NeverLate'
  BY <1>1, TimesInvStep, WindowInvStep, EventsInvStep, CallbackInvStep, ExecuteInvStep,
     MessagesInvStep, NeverLateStep
<1>4. GatherInv' /\ CountInv' /\ EndInv'
  BY <1>1, GatherInvStep, CountInvStep, EndInvStep
<1> QED BY <1>2, <1>3, <1>4 DEF IInv

LEMMA Invariance == ASSUME OneRun PROVE Spec => []IInv
  BY InitInv, NextInv, PTL DEF Spec

(* No event and no message, in flight or received, is due before the clock *)
(* of the rank it is for.                                                  *)
THEOREM NeverLateHolds == ASSUME OneRun PROVE Spec => []NeverLate
<1>1. IInv => NeverLate
  BY DEF IInv
<1> QED BY <1>1, Invariance, PTL

(* The time granted to a rank is not after any message in flight to it nor *)
(* after any that an event of a neighbour may still send it.               *)
THEOREM GrantIsSafeHolds == ASSUME OneRun PROVE Spec => []GrantIsSafe
<1>1. ASSUME IInv PROVE GrantIsSafe
  <2>1. SUFFICES ASSUME NEW r \in Ranks, InRun(r)
                 PROVE  /\ \A m \in net : m.to = r => m.ts >= m_grantedTime[r]
                        /\ \A l \in LinksOf(r) : \A s \in l.ends \ {r} : InRun(s) =>
                              /\ ~m_stop[s] => \A e \in m_events[s] :
                                    e.ts + l.delay >= m_grantedTime[r]
                              /\ pc[s] = "callback" =>
                                    m_currentTs[s] + l.delay >= m_grantedTime[r]
    BY DEF GrantIsSafe
  <2>2. ASSUME NEW m \in net, m.to = r PROVE m.ts >= m_grantedTime[r]
    BY <1>1, <2>2 DEF IInv, MessagesInv, TypeOK
  <2>3. ASSUME NEW l \in LinksOf(r), NEW s \in l.ends \ {r}, InRun(s)
        PROVE  /\ ~m_stop[s] => \A e \in m_events[s] : e.ts + l.delay >= m_grantedTime[r]
               /\ pc[s] = "callback" => m_currentTs[s] + l.delay >= m_grantedTime[r]
    <3>1. s \in Ranks /\ l.delay \in Nat
      BY LinksAssumption DEF LinksOf
    <3>2. /\ m_grantedTime[r] \in Int /\ lbts \in Nat /\ m_currentTs[s] \in Nat
          /\ \A e \in m_events[s] : e.ts \in Nat
      BY <1>1, <3>1 DEF IInv, TypeOK, Event
    <3>3. m_grantedTime[r] <= lbts + l.delay
      BY <1>1 DEF IInv, WindowInv
    <3>4. ~m_stop[s] => \A e \in m_events[s] : lbts <= e.ts
      BY <1>1, <2>3, <3>1 DEF IInv, EventsInv, InRun, Done
    <3>5. pc[s] = "callback" => lbts <= m_currentTs[s]
      BY <1>1, <3>1 DEF IInv, CallbackInv
    <3> QED BY <3>1, <3>2, <3>3, <3>4, <3>5
  <2> QED BY <2>2, <2>3
<1> QED BY <1>1, Invariance, PTL

(* A rank that leaves Run leaves no message without a receiver and no      *)
(* other rank alone in a collective.                                       *)
THEOREM EndTogetherHolds == ASSUME OneRun PROVE Spec => []EndTogether
<1>1. IInv => EndTogether
  BY DEF IInv, EndInv, Ending, AllEnd, Done, EndTogether
<1> QED BY <1>1, Invariance, PTL

---------------------------------------------------------------------------
(* The refinement.  It counts events and messages, so it needs that they   *)
(* are finitely many and that a new event is not one of those in the queue.*)

CountableInv == /\ \A r \in Ranks : /\ IsFiniteSet(m_events[r])
                                    /\ \A e \in m_events[r] : e.uid < m_uid[r]
                /\ IsFiniteSet(net)

To(r) == {m \in net : m.to = r}
Pending == [r \in Ranks |-> [t \in 0..MaxTime |-> DueAt(m_events[r], t) + DueAt(To(r), t)]]

LEMMA DueAtType == ASSUME NEW S, IsFiniteSet(S), NEW t PROVE DueAt(S, t) \in Nat
<1>1. IsFiniteSet({x \in S : x.ts = t})
  BY FS_Subset
<1> QED BY <1>1, FS_CardinalityType DEF DueAt

LEMMA DueAtAdd ==
    ASSUME NEW S, IsFiniteSet(S), NEW x, x \notin S, NEW t
    PROVE  DueAt(S \cup {x}, t) = IF x.ts = t THEN DueAt(S, t) + 1 ELSE DueAt(S, t)
<1>1. IsFiniteSet({y \in S : y.ts = t})
  BY FS_Subset
<1>2. CASE x.ts = t
  <2>1. {y \in S \cup {x} : y.ts = t} = {y \in S : y.ts = t} \cup {x}
    BY <1>2
  <2>2. Cardinality({y \in S : y.ts = t} \cup {x}) = Cardinality({y \in S : y.ts = t}) + 1
    BY <1>1, FS_AddElement
  <2> QED BY <1>2, <2>1, <2>2 DEF DueAt
<1>3. CASE x.ts # t
  <2>1. {y \in S \cup {x} : y.ts = t} = {y \in S : y.ts = t}
    BY <1>3
  <2> QED BY <1>3, <2>1 DEF DueAt
<1> QED BY <1>2, <1>3

LEMMA DueAtRemove ==
    ASSUME NEW S, IsFiniteSet(S), NEW x \in S, NEW t
    PROVE  DueAt(S \ {x}, t) = IF x.ts = t THEN DueAt(S, t) - 1 ELSE DueAt(S, t)
<1>1. IsFiniteSet(S \ {x}) /\ x \notin S \ {x} /\ (S \ {x}) \cup {x} = S
  BY FS_Subset
<1>2. DueAt(S, t) = IF x.ts = t THEN DueAt(S \ {x}, t) + 1 ELSE DueAt(S \ {x}, t)
  BY <1>1, DueAtAdd
<1>3. DueAt(S \ {x}, t) \in Nat
  BY <1>1, DueAtType
<1> QED BY <1>2, <1>3

LEMMA DueAtZero ==
    ASSUME NEW S, IsFiniteSet(S), NEW t
    PROVE  DueAt(S, t) = 0 <=> \A x \in S : x.ts # t
<1>1. IsFiniteSet({x \in S : x.ts = t})
  BY FS_Subset
<1>2. Cardinality({x \in S : x.ts = t}) = 0 <=> {x \in S : x.ts = t} = {}
  BY <1>1, FS_EmptySet
<1> QED BY <1>2 DEF DueAt

LEMMA CountableInvStep ==
    ASSUME TypeOK, CountableInv, [Next]_vars PROVE CountableInv'
<1>1. ASSUME NEW r \in Ranks, NEW ts, Insert(r, ts), NEW s \in Ranks
      PROVE  /\ IsFiniteSet(m_events'[s])
             /\ \A e \in m_events'[s] : e.uid < m_uid'[s]
  <2>1. CASE s = r
    <3>1. /\ m_events'[r] = m_events[r] \cup {[ts |-> ts, uid |-> m_uid[r]]}
          /\ m_uid'[r] = m_uid[r] + 1
      BY <1>1 DEF Insert, TypeOK
    <3>2. IsFiniteSet(m_events[r])
      BY DEF CountableInv
    <3>3. \A new : IsFiniteSet(m_events[r] \cup {new})
      BY <3>2, FS_AddElement
    <3>4. IsFiniteSet(m_events'[r])
      BY <3>1, <3>3
    <3> QED BY <2>1, <3>1, <3>4 DEF CountableInv, TypeOK, Event
  <2>2. CASE s # r
    BY <1>1, <2>2 DEF Insert, TypeOK, CountableInv
  <2> QED BY <2>1, <2>2
<1>2. CASE Sends
  <2>1. PICK m : net' = net \cup {m}
    BY <1>2 DEF Sends, SendPacket
  <2>2. IsFiniteSet(net')
    BY <2>1, FS_AddElement DEF CountableInv
  <2> QED BY <1>2, <2>2 DEF Sends, SendPacket, queue, CountableInv
<1>3. CASE Receives
  <2>1. PICK r \in Ranks, m \in net : net' = net \ {m} /\ Insert(r, m.ts)
    BY <1>3 DEF Receives, ReceiveMessage
  <2>2. IsFiniteSet(net')
    BY <2>1, FS_Subset DEF CountableInv
  <2> QED BY <1>1, <2>1, <2>2 DEF CountableInv
<1>4. CASE Schedules
  <2>1. UNCHANGED net /\ \E r \in Ranks : \E ts : Insert(r, ts)
    BY <1>4 DEF Schedules, Schedule, mpi
  <2> QED BY <1>1, <2>1 DEF CountableInv
<1>5. CASE Executes
  <2>1. PICK r, next :
           r \in Ranks /\ m_events' = [m_events EXCEPT ![r] = @ \ {next}] /\ UNCHANGED <<m_uid, net>>
    BY <1>5 DEF Executes, ProcessOneEvent, mpi
  <2>2. \A s \in Ranks : m_events'[s] \subseteq m_events[s]
    BY <2>1 DEF TypeOK
  <2> QED BY <2>1, <2>2, FS_Subset DEF CountableInv
<1>6. CASE UNCHANGED <<m_events, m_uid, net>>
  BY <1>6 DEF CountableInv
<1>7. UNCHANGED <<m_events, m_uid, net>> \/ Sends \/ Receives \/ Schedules \/ Executes
  BY NextSplit DEF Stops, Stop, Narrows, BoundLookAhead, Runs, Run, Starts, StartLoop,
     Grants, ComputeGrant, Enters, EnterAllgather, Turns, Return, LoopHead, Allreduce,
     Allgather, vars, queue, mpi
<1> QED BY <1>2, <1>3, <1>4, <1>5, <1>6, <1>7

(* One event more is due on a rank. *)
LEMMA InsertCounts ==
    ASSUME TypeOK, CountableInv, NEW r \in Ranks, NEW ts, Insert(r, ts),
           NEW s \in Ranks, NEW t
    PROVE  DueAt(m_events'[s], t) = IF s = r /\ ts = t THEN DueAt(m_events[s], t) + 1
                                    ELSE DueAt(m_events[s], t)
<1>1. CASE s = r
  <2>1. PICK new : new = [ts |-> ts, uid |-> m_uid[r]]
    OBVIOUS
  <2>2. m_events'[r] = m_events[r] \cup {new} /\ new.ts = ts /\ new.uid = m_uid[r]
    BY <2>1 DEF Insert, TypeOK
  <2>3. new \notin m_events[r] /\ IsFiniteSet(m_events[r])
    BY <2>2 DEF CountableInv, TypeOK
  <2>4. DueAt(m_events[r] \cup {new}, t) = IF new.ts = t THEN DueAt(m_events[r], t) + 1
                                            ELSE DueAt(m_events[r], t)
    BY <2>3, DueAtAdd
  <2> QED BY <1>1, <2>2, <2>4
<1>2. CASE s # r
  BY <1>2 DEF Insert, TypeOK
<1> QED BY <1>1, <1>2

LEMMA ToFinite == ASSUME CountableInv, NEW r \in Ranks PROVE IsFiniteSet(To(r))
  BY FS_Subset DEF CountableInv, To

LEMMA ScheduleIsAccept ==
    ASSUME IInv, CountableInv, Schedules
    PROVE  \E r \in Ranks : \E t \in 0..MaxTime :
              /\ m_currentTs[r] <= t /\ UNCHANGED m_currentTs
              /\ Pending'[r][t] = Pending[r][t] + 1
              /\ \A s \in Ranks : \A u \in 0..MaxTime :
                    <<s, u>> # <<r, t>> => Pending'[s][u] = Pending[s][u]
<1>1. PICK r \in Ranks, d \in Delays : /\ m_currentTs[r] + d <= MaxTime
                                       /\ Insert(r, m_currentTs[r] + d)
                                       /\ UNCHANGED <<net, m_currentTs>>
  BY DEF Schedules, Schedule, mpi, sim
<1>2. PICK t : t = m_currentTs[r] + d
  OBVIOUS
<1>3. t \in 0..MaxTime /\ m_currentTs[r] <= t
  BY <1>1, <1>2, TimesAssumption DEF IInv, TypeOK
<1>4. ASSUME NEW s \in Ranks, NEW u \in 0..MaxTime
      PROVE  /\ Pending'[s][u] = DueAt(m_events'[s], u) + DueAt(To(s), u)
             /\ Pending[s][u] = DueAt(m_events[s], u) + DueAt(To(s), u)
             /\ DueAt(m_events[s], u) \in Nat /\ DueAt(To(s), u) \in Nat
             /\ DueAt(m_events'[s], u) = IF s = r /\ t = u
                                         THEN DueAt(m_events[s], u) + 1
                                         ELSE DueAt(m_events[s], u)
  <2>1. To(s)' = To(s)
    BY <1>1 DEF To
  <2>2. DueAt(m_events[s], u) \in Nat /\ DueAt(To(s), u) \in Nat
    BY DueAtType, ToFinite DEF CountableInv
  <2>3. /\ Pending'[s][u] = DueAt(m_events'[s], u) + DueAt(To(s), u)
        /\ Pending[s][u] = DueAt(m_events[s], u) + DueAt(To(s), u)
    BY <2>1 DEF Pending, DueAt
  <2>4. Insert(r, t) /\ TypeOK
    BY <1>1, <1>2 DEF IInv
  <2>5. DueAt(m_events'[s], u) = IF s = r /\ t = u THEN DueAt(m_events[s], u) + 1
                                 ELSE DueAt(m_events[s], u)
    BY <2>4, InsertCounts
  <2> QED BY <2>2, <2>3, <2>5
<1>5. Pending'[r][t] = Pending[r][t] + 1
  BY <1>3, <1>4
<1>6. ASSUME NEW s \in Ranks, NEW u \in 0..MaxTime, <<s, u>> # <<r, t>>
      PROVE  Pending'[s][u] = Pending[s][u]
  BY <1>4, <1>6
<1> QED BY <1>1, <1>3, <1>5, <1>6

LEMMA SendIsAccept ==
    ASSUME OneRun, IInv, CountableInv, [Next]_vars, Sends
    PROVE  \E r \in Ranks : \E t \in 0..MaxTime :
              /\ m_currentTs[r] <= t /\ UNCHANGED m_currentTs
              /\ Pending'[r][t] = Pending[r][t] + 1
              /\ \A s \in Ranks : \A u \in 0..MaxTime :
                    <<s, u>> # <<r, t>> => Pending'[s][u] = Pending[s][u]
<1>1. PICK m : m.id = made + 1 /\ net' = net \cup {m}
  BY DEF Sends, SendPacket
<1>2. UNCHANGED <<m_events, m_currentTs>>
  BY DEF Sends, SendPacket, sim, queue
<1>3. m \notin net
  BY <1>1 DEF IInv, TypeOK, CountInv
<1>4. /\ m.to \in Ranks /\ m.ts \in Nat /\ m.ts <= MaxTime
      /\ m_currentTs[m.to] <= m.ts
  <2>1. TimesInv' /\ NeverLate' /\ TypeOK'
    BY TimesInvStep, NeverLateStep, TypeStep DEF IInv
  <2> QED BY <1>1, <1>2, <2>1 DEF TimesInv, NeverLate, TypeOK
<1>5. ASSUME NEW s \in Ranks, NEW u \in 0..MaxTime
      PROVE  /\ Pending'[s][u] = DueAt(m_events[s], u) + DueAt(To(s)', u)
             /\ Pending[s][u] = DueAt(m_events[s], u) + DueAt(To(s), u)
             /\ DueAt(m_events[s], u) \in Nat /\ DueAt(To(s), u) \in Nat
             /\ DueAt(To(s)', u) = IF s = m.to /\ m.ts = u
                                   THEN DueAt(To(s), u) + 1 ELSE DueAt(To(s), u)
  <2>1. DueAt(m_events[s], u) \in Nat /\ DueAt(To(s), u) \in Nat /\ IsFiniteSet(To(s))
    BY DueAtType, ToFinite DEF CountableInv
  <2>2. /\ Pending'[s][u] = DueAt(m_events[s], u) + DueAt(To(s)', u)
        /\ Pending[s][u] = DueAt(m_events[s], u) + DueAt(To(s), u)
    BY <1>2 DEF Pending, DueAt
  <2>3. CASE s = m.to
    <3>1. To(s)' = To(s) \cup {m} /\ m \notin To(s)
      BY <1>1, <1>3, <2>3 DEF To
    <3> QED BY <2>1, <2>2, <2>3, <3>1, DueAtAdd
  <2>4. CASE s # m.to
    <3>1. To(s)' = To(s)
      BY <1>1, <2>4 DEF To
    <3> QED BY <2>1, <2>2, <2>4, <3>1
  <2> QED BY <2>3, <2>4
<1>6. m.ts \in 0..MaxTime
  BY <1>4
<1>7. Pending'[m.to][m.ts] = Pending[m.to][m.ts] + 1
  BY <1>4, <1>5, <1>6
<1>8. ASSUME NEW s \in Ranks, NEW u \in 0..MaxTime, <<s, u>> # <<m.to, m.ts>>
      PROVE  Pending'[s][u] = Pending[s][u]
  BY <1>5, <1>8
<1> QED BY <1>2, <1>4, <1>6, <1>7, <1>8

(* A message that is received was due before and after. *)
LEMMA ReceiveStutters ==
    ASSUME IInv, CountableInv, Receives
    PROVE  UNCHANGED m_currentTs /\ Pending' = Pending
<1>1. PICK r \in Ranks, m \in net : /\ net' = net \ {m} /\ m.to = r /\ Insert(r, m.ts)
                                    /\ UNCHANGED m_currentTs
  BY DEF Receives, ReceiveMessage, sim
<1>2. ASSUME NEW s \in Ranks, NEW u \in 0..MaxTime
      PROVE  DueAt(m_events'[s], u) + DueAt(To(s)', u)
               = DueAt(m_events[s], u) + DueAt(To(s), u)
  <2>1. DueAt(m_events[s], u) \in Nat /\ DueAt(To(s), u) \in Nat /\ IsFiniteSet(To(s))
    BY DueAtType, ToFinite DEF CountableInv
  <2>2. DueAt(m_events'[s], u) = IF s = r /\ m.ts = u THEN DueAt(m_events[s], u) + 1
                                 ELSE DueAt(m_events[s], u)
    BY <1>1, InsertCounts DEF IInv
  <2>3. CASE s = r
    <3>1. To(s)' = To(s) \ {m} /\ m \in To(s)
      BY <1>1, <2>3 DEF To
    <3>2. DueAt(To(s)', u) = IF m.ts = u THEN DueAt(To(s), u) - 1 ELSE DueAt(To(s), u)
      BY <2>1, <3>1, DueAtRemove
    <3> QED BY <2>1, <2>2, <2>3, <3>2
  <2>4. CASE s # r
    <3>1. To(s)' = To(s)
      BY <1>1, <2>4 DEF To
    <3> QED BY <2>2, <2>4, <3>1
  <2> QED BY <2>3, <2>4
<1>3. Pending' = Pending
  BY <1>2 DEF Pending, DueAt
<1> QED BY <1>1, <1>3

LEMMA ExecuteIsExecute ==
    ASSUME IInv, CountableInv, Executes
    PROVE  \E r \in Ranks : \E t \in 0..MaxTime :
              /\ Pending[r][t] > 0
              /\ \A u \in 0..t-1 : Pending[r][u] = 0
              /\ m_currentTs' = [m_currentTs EXCEPT ![r] = t]
              /\ Pending' = [Pending EXCEPT ![r][t] = @ - 1]
<1>1. PICK r \in Ranks : \E next \in m_events[r] :
         /\ next.ts \in Nat /\ next.ts <= m_grantedTime[r]
         /\ \A f \in m_events[r] : next.ts <= f.ts
         /\ m_events' = [m_events EXCEPT ![r] = @ \ {next}]
         /\ m_currentTs' = [m_currentTs EXCEPT ![r] = next.ts]
  BY ExecuteStep DEF IInv
<1>2. PICK next \in m_events[r] :
         /\ next.ts \in Nat /\ next.ts <= m_grantedTime[r]
         /\ \A f \in m_events[r] : next.ts <= f.ts
         /\ m_events' = [m_events EXCEPT ![r] = @ \ {next}]
         /\ m_currentTs' = [m_currentTs EXCEPT ![r] = next.ts]
  BY <1>1
<1>3. PICK t : t = next.ts
  OBVIOUS
<1>4. UNCHANGED net
  BY DEF Executes, ProcessOneEvent, mpi
<1>5. t \in 0..MaxTime
  BY <1>2, <1>3, TimesAssumption DEF IInv, TimesInv
<1>6. ASSUME NEW s \in Ranks, NEW u \in 0..MaxTime
      PROVE  /\ Pending'[s][u] = DueAt(m_events'[s], u) + DueAt(To(s), u)
             /\ Pending[s][u] = DueAt(m_events[s], u) + DueAt(To(s), u)
             /\ DueAt(m_events[s], u) \in Nat /\ DueAt(To(s), u) \in Nat
             /\ DueAt(m_events'[s], u) = IF s = r /\ t = u
                                         THEN DueAt(m_events[s], u) - 1
                                         ELSE DueAt(m_events[s], u)
  <2>1. To(s)' = To(s)
    BY <1>4 DEF To
  <2>2. DueAt(m_events[s], u) \in Nat /\ DueAt(To(s), u) \in Nat /\ IsFiniteSet(m_events[s])
    BY DueAtType, ToFinite DEF CountableInv
  <2>3. /\ Pending'[s][u] = DueAt(m_events'[s], u) + DueAt(To(s), u)
        /\ Pending[s][u] = DueAt(m_events[s], u) + DueAt(To(s), u)
    BY <2>1 DEF Pending, DueAt
  <2>4. CASE s = r
    <3>1. m_events'[s] = m_events[s] \ {next}
      BY <1>2, <2>4 DEF IInv, TypeOK
    <3>2. DueAt(m_events[s] \ {next}, u) = IF next.ts = u THEN DueAt(m_events[s], u) - 1
                                           ELSE DueAt(m_events[s], u)
      BY <2>2, <2>4, DueAtRemove
    <3> QED BY <1>3, <2>2, <2>3, <2>4, <3>1, <3>2
  <2>5. CASE s # r
    <3>1. m_events'[s] = m_events[s]
      BY <1>2, <2>5 DEF IInv, TypeOK
    <3> QED BY <2>2, <2>3, <2>5, <3>1
  <2> QED BY <2>4, <2>5
<1>7. Pending[r][t] > 0
  <2>1. DueAt(m_events[r], t) # 0
    BY <1>3, DueAtZero DEF CountableInv
  <2> QED BY <1>5, <1>6, <2>1
<1>8. ASSUME NEW u \in 0..t-1 PROVE Pending[r][u] = 0
  <2>1. u \in 0..MaxTime /\ u < t /\ u \in Nat
    BY <1>5, TimesAssumption
  <2>2. \A e \in m_events[r] : e.ts # u
    BY <1>2, <1>3, <2>1 DEF IInv, TypeOK, Event
  <2>3. \A m \in To(r) : m.ts # u
    BY <1>2, <1>3, <2>1 DEF To, IInv, MessagesInv, TypeOK
  <2>4. DueAt(m_events[r], u) = 0 /\ DueAt(To(r), u) = 0
    BY <2>2, <2>3, DueAtZero, ToFinite DEF CountableInv
  <2> QED BY <1>6, <2>1, <2>4
<1>9. Pending' = [Pending EXCEPT ![r][t] = @ - 1]
  <2>1. /\ Pending' = [s \in Ranks |-> [u \in 0..MaxTime |-> Pending'[s][u]]]
        /\ Pending = [s \in Ranks |-> [u \in 0..MaxTime |-> Pending[s][u]]]
    BY DEF Pending
  <2>2. \A s \in Ranks : \A u \in 0..MaxTime :
           Pending'[s][u] = IF s = r /\ u = t THEN Pending[s][u] - 1 ELSE Pending[s][u]
    BY <1>6
  <2>3. \A s \in Ranks :
           [u \in 0..MaxTime |-> Pending'[s][u]]
             = IF s = r THEN [Pending[s] EXCEPT ![t] = @ - 1] ELSE Pending[s]
    BY <1>5, <2>1, <2>2
  <2> QED BY <2>1, <2>3
<1> QED BY <1>2, <1>3, <1>5, <1>7, <1>8, <1>9

(* Every step of the ranks is a step of the parallel contract or leaves it *)
(* unchanged: an event is accepted when it is scheduled or its packet is   *)
(* sent, and a rank only ever runs the earliest event accepted for it,     *)
(* though it does not know of those still in flight.                       *)
THEOREM Implements == ASSUME OneRun PROVE Spec => ImplementsContract
<1>1. ASSUME Init PROVE Contract!Init
  <2>1. \A t : DueAt({}, t) = 0
    BY DueAtZero, FS_EmptySet
  <2>2. {m \in net : FALSE} = {} /\ \A r \in Ranks : {m \in net : m.to = r} = {}
    BY <1>1 DEF Init
  <2> QED BY <1>1, <2>1, <2>2 DEF Init, Contract!Init
<1>2. Init => CountableInv
  BY FS_EmptySet DEF Init, CountableInv
<1>3. IInv /\ CountableInv /\ [Next]_vars => CountableInv'
  BY CountableInvStep DEF IInv
<1>4. ASSUME IInv, CountableInv, [Next]_vars
      PROVE  Contract!Next \/ (UNCHANGED m_currentTs /\ Pending' = Pending)
  <2>1. CASE Schedules
    BY <1>4, <2>1, ScheduleIsAccept DEF Contract!Next, Contract!Accept, Pending, To
  <2>2. CASE Sends
    BY <1>4, <2>2, SendIsAccept DEF Contract!Next, Contract!Accept, Pending, To
  <2>3. CASE Receives
    BY <1>4, <2>3, ReceiveStutters
  <2>4. CASE Executes
    BY <1>4, <2>4, ExecuteIsExecute DEF Contract!Next, Contract!Execute, Pending, To
  <2>5. CASE UNCHANGED <<m_events, net, m_currentTs>>
    BY <2>5 DEF Pending, To, DueAt
  <2> QED BY <1>4, <2>1, <2>2, <2>3, <2>4, <2>5, Frame
<1>5. IInv /\ CountableInv /\ [Next]_vars => [Contract!Next]_(Contract!vars)
  BY <1>4 DEF Contract!vars, Pending, To
<1>6. Spec => [](IInv /\ CountableInv)
  BY <1>2, <1>3, Invariance, PTL DEF Spec
<1> QED BY <1>1, <1>5, <1>6, PTL DEF Spec, ImplementsContract, Contract!Spec
=============================================================================
