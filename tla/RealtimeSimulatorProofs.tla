---------------------- MODULE RealtimeSimulatorProofs -----------------------
(***************************************************************************)
(* Proofs about RealtimeSimulator for any delays, any number of events and *)
(* any length of the waits.  NoLostWakeup needs nothing else; what relates *)
(* the simulator's time to the wall clock is proved for one call of Run    *)
(* (OneRun): SetOrigin does not look at the simulation time, so a second   *)
(* Run starts with a clock that is behind m_currentTs.                     *)
(***************************************************************************)
EXTENDS RealtimeSimulator, SequenceTheorems, WellFoundedInduction, TLAPS

OneRun == MaxRuns <= 1

Waiting == pc \in {"synchronize", "sleep", "spin"}

TypeOK == /\ m_events \subseteq Event
          /\ m_uid \in Nat /\ VALID <= m_uid
          /\ m_currentTs \in Nat
          /\ m_stop \in BOOLEAN /\ m_running \in BOOLEAN /\ m_condition \in BOOLEAN
          /\ m_realtimeOriginNano \in Nat /\ realtime \in Nat
          /\ pc \in {"user", "origin", "loop", "synchronize", "sleep", "spin",
                     "pace", "remove", "callback"}
          /\ wait \in [for : {"event", "signal"}, until : Int]
          /\ ran \in Seq(Event)
          /\ runs \in Nat

(* The wall clock never reads less than the origin it was given. *)
ClockInv == m_realtimeOriginNano <= realtime

UidInv == /\ \A e \in m_events : VALID <= e.uid /\ e.uid < m_uid
          /\ \A e, f \in m_events : e.uid = f.uid => e = f

(* Whoever is on the way to ProcessOneEvent finds an event to process. *)
QueueInv == \/ pc \in {"pace", "remove"}
            \/ Waiting /\ wait.for = "event"
            => m_events # {}

IInv == TypeOK /\ ClockInv /\ UidInv /\ QueueInv

(* Before the only origin is set, no event has run. *)
RunInv == /\ m_running <=> pc # "user"
          /\ runs = 0 => pc = "user"
          /\ runs = 0 \/ pc = "origin" => m_currentTs = 0

(* The event that is waited for, or one that is due before it, is in the   *)
(* queue until the wait is over, and then its time has come.               *)
WaitInv == /\ Waiting /\ wait.for = "event" =>
                 \E e \in m_events : e.ts <= wait.until
           /\ pc = "remove" =>
                 \E e \in m_events : e.ts <= GetNormalizedRealtime

PaceInv == IInv /\ RunInv /\ WaitInv /\ NeverEarly

---------------------------------------------------------------------------
(* The order of events: every set of natural numbers has a least one, and  *)
(* every set of events with distinct uids one that is before all others.   *)

LEMMA NatMinimum ==
    ASSUME NEW S, S \subseteq Nat, S # {}
    PROVE  \E m \in S : \A n \in S : m <= n
<1> DEFINE less == {ss \in Nat \X Nat : ss[1] < ss[2]}
<1>1. IsWellFoundedOn(less, Nat)
  BY NatLessThanWellFounded DEF OpToRel
<1>2. PICK m \in S : \A n \in S : <<n, m>> \notin less
  <2> HIDE DEF less
  <2> QED BY <1>1, WFMin
<1>3. \A n \in S : n \in Nat /\ m \in Nat /\ ~(n < m)
  BY <1>2
<1> QED BY <1>3

(* KeyLess orders the events totally when no two have the same uid, so     *)
(* EarliestOf is the event that a scheduler's PeekNext is to return.       *)
LEMMA EarliestOfIsFirst ==
    ASSUME NEW S, S # {},
           \A e \in S : e.ts \in Nat /\ e.uid \in Nat,
           \A e, f \in S : e.uid = f.uid => e = f
    PROVE  /\ EarliestOf(S) \in S
           /\ \A f \in S \ {EarliestOf(S)} : KeyLess(EarliestOf(S), f)
           /\ \A f \in S : EarliestOf(S).ts <= f.ts
<1>1. \A e \in S : e.ts \in Nat /\ e.uid \in Nat
  OBVIOUS
<1>2. PICK t \in {e.ts : e \in S} : \A e \in S : t <= e.ts
  <2>1. {e.ts : e \in S} \subseteq Nat /\ {e.ts : e \in S} # {}
    BY <1>1
  <2>2. PICK t \in {e.ts : e \in S} : \A n \in {e.ts : e \in S} : t <= n
    BY <2>1, NatMinimum
  <2> QED BY <2>2
<1> DEFINE First == {e \in S : e.ts = t}
<1>3. PICK u \in {e.uid : e \in First} : \A e \in First : u <= e.uid
  <2>1. {e.uid : e \in First} \subseteq Nat /\ {e.uid : e \in First} # {}
    BY <1>1, <1>2
  <2> HIDE DEF First
  <2>2. PICK u \in {e.uid : e \in First} : \A n \in {e.uid : e \in First} : u <= n
    BY <2>1, NatMinimum
  <2> QED BY <2>2
<1>4. PICK first \in S : first.ts = t /\ first.uid = u
  BY <1>3
<1>5. ASSUME NEW f \in S \ {first} PROVE KeyLess(first, f)
  <2>1. f.uid # first.uid /\ first.ts <= f.ts
    BY <1>2, <1>4
  <2>2. f.ts = t => first.uid <= f.uid
    BY <1>3, <1>4
  <2> QED BY <1>1, <1>4, <2>1, <2>2 DEF KeyLess
<1>6. /\ EarliestOf(S) \in S
      /\ \A f \in S \ {EarliestOf(S)} : KeyLess(EarliestOf(S), f)
  BY <1>5 DEF EarliestOf
<1>7. \A f \in S : EarliestOf(S).ts <= f.ts
  BY <1>1, <1>6 DEF KeyLess
<1> QED BY <1>6, <1>7

---------------------------------------------------------------------------
(* The parts of IInv. *)

LEMMA ScheduledTs ==
    ASSUME IInv, NEW d \in Delays
    PROVE  /\ m_currentTs + d \in Nat
           /\ GetNormalizedRealtime + d \in Nat
<1>1. d \in Nat /\ m_currentTs \in Nat
  BY TimesAssumption DEF IInv, TypeOK
<1>2. GetNormalizedRealtime \in Nat
  BY DEF IInv, TypeOK, ClockInv, GetNormalizedRealtime
<1> QED BY <1>1, <1>2

(* Schedule, ScheduleRealtime and Post are all an Insert. *)
LEMMA InsertStep == ASSUME IInv, NEW ts \in Nat, Insert(ts) PROVE IInv'
<1>1. PICK new : new = [ts |-> ts, uid |-> m_uid]
  OBVIOUS
<1>2. /\ m_events' = m_events \cup {new} /\ m_uid' = m_uid + 1
      /\ m_condition' = TRUE
      /\ UNCHANGED <<clock, main>>
  BY <1>1 DEF Insert
<1>3. new \in Event /\ new.uid = m_uid
  BY <1>1 DEF Event, IInv, TypeOK
<1>4. TypeOK'
  BY <1>2, <1>3 DEF IInv, TypeOK, clock, main, VALID
<1>5. ClockInv'
  BY <1>2 DEF IInv, ClockInv, clock
<1>6. UidInv'
  <2>1. \A e \in m_events : e.uid \in Nat /\ VALID <= e.uid /\ e.uid < m_uid
    BY DEF IInv, TypeOK, UidInv, Event
  <2>2. \A e, f \in m_events : e.uid = f.uid => e = f
    BY DEF IInv, UidInv
  <2>3. m_uid \in Nat /\ VALID <= m_uid /\ VALID \in Nat
    BY DEF IInv, TypeOK, VALID
  <2> QED BY <1>2, <1>3, <2>1, <2>2, <2>3 DEF UidInv
<1>7. QueueInv'
  BY <1>2 DEF QueueInv, IInv, Waiting, main
<1> QED BY <1>4, <1>5, <1>6, <1>7 DEF IInv

LEMMA EarliestInQueue ==
    ASSUME IInv, m_events # {}
    PROVE  /\ EarliestOf(m_events) \in m_events
           /\ EarliestOf(m_events) \in Event
           /\ \A f \in m_events \ {EarliestOf(m_events)} :
                 KeyLess(EarliestOf(m_events), f)
           /\ \A f \in m_events : EarliestOf(m_events).ts <= f.ts
<1>1. m_events \subseteq Event /\ \A e, f \in m_events : e.uid = f.uid => e = f
  BY DEF IInv, TypeOK, UidInv
<1>2. \A e \in m_events : e.ts \in Nat /\ e.uid \in Nat
  BY <1>1 DEF Event
<1> QED BY <1>1, <1>2, EarliestOfIsFirst

LEMMA PaceUntil ==
    ASSUME IInv, Pace
    PROVE  /\ wait'.for = "event" /\ wait'.until \in Int
           /\ wait' \in [for : {"event", "signal"}, until : Int]
           /\ \/ wait'.until = EarliestOf(m_events).ts
              \/ /\ wait'.until = GetNormalizedRealtime
                 /\ EarliestOf(m_events).ts <= wait'.until
<1>1. m_events # {}
  BY DEF Pace, IInv, QueueInv
<1>2. EarliestOf(m_events).ts \in Nat
  BY <1>1, EarliestInQueue DEF Event
<1>3. GetNormalizedRealtime \in Int
  BY DEF IInv, TypeOK, GetNormalizedRealtime
<1>4. wait' = [for |-> "event",
               until |-> IF EarliestOf(m_events).ts <= GetNormalizedRealtime
                         THEN GetNormalizedRealtime ELSE EarliestOf(m_events).ts]
  BY DEF Pace
<1> QED BY <1>2, <1>3, <1>4

LEMMA SynchronizeReturnsTo ==
    ASSUME IInv, NEW result \in BOOLEAN, SynchronizeReturns(result)
    PROVE  /\ \/ wait.for = "signal" /\ Goto("loop")
              \/ wait.for = "event" /\ result /\ Goto("remove")
              \/ wait.for = "event" /\ ~result /\ Goto("pace")
           /\ UNCHANGED <<wait, m_condition>>
<1>1. wait.for = "signal" \/ wait.for = "event"
  BY DEF IInv, TypeOK
<1> QED BY <1>1, Zenon DEF SynchronizeReturns

(* RemoveNext takes the earliest event. *)
LEMMA RemoveNextTakes ==
    ASSUME IInv, RemoveNext, m_events # {}
    PROVE  \E next \in m_events :
              /\ next \in Event
              /\ \A f \in m_events \ {next} : KeyLess(next, f)
              /\ \A f \in m_events : next.ts <= f.ts
              /\ m_events' = m_events \ {next}
              /\ m_currentTs' = next.ts
              /\ ran' = Append(ran, next)
  BY EarliestInQueue DEF RemoveNext

LEMMA InitInv == Init => PaceInv
<1>1. SUFFICES ASSUME Init PROVE PaceInv
  OBVIOUS
<1>2. TypeOK
  <2>1. wait \in [for : {"event", "signal"}, until : Int] /\ ran \in Seq(Event)
    BY <1>1 DEF Init
  <2>2. /\ m_events \subseteq Event /\ m_uid \in Nat /\ VALID <= m_uid
        /\ m_currentTs \in Nat /\ m_realtimeOriginNano \in Nat /\ realtime \in Nat
        /\ runs \in Nat
    BY <1>1, TimesAssumption DEF Init, VALID
  <2>3. m_stop \in BOOLEAN /\ m_running \in BOOLEAN /\ m_condition \in BOOLEAN
    BY <1>1 DEF Init
  <2> QED BY <1>1, <2>1, <2>2, <2>3 DEF Init, TypeOK
<1>3. ClockInv /\ UidInv /\ QueueInv
  BY <1>1, TimesAssumption DEF Init, ClockInv, UidInv, QueueInv, Waiting
<1>4. RunInv /\ WaitInv /\ NeverEarly
  BY <1>1 DEF Init, RunInv, WaitInv, Waiting, NeverEarly
<1> QED BY <1>2, <1>3, <1>4 DEF PaceInv, IInv

LEMMA NextInv == IInv /\ [Next]_vars => IInv'
<1>1. SUFFICES ASSUME IInv, [Next]_vars PROVE IInv'
  OBVIOUS
<1> USE <1>1
<1>2. CASE \E ts \in Nat : Insert(ts)
  BY <1>2, InsertStep
<1>3. CASE RemoveNext /\ m_events # {}
  <2>1. PICK next \in m_events : /\ next \in Event
                                 /\ m_events' = m_events \ {next}
                                 /\ m_currentTs' = next.ts
                                 /\ ran' = Append(ran, next)
    BY <1>3, RemoveNextTakes
  <2>2. pc' = "callback" /\ UNCHANGED <<m_uid, clock, m_condition, m_stop,
                                        m_running, wait, runs>>
    BY <1>3 DEF RemoveNext
  <2>3. TypeOK'
    BY <2>1, <2>2 DEF IInv, TypeOK, Event, clock
  <2>4. UidInv' /\ ClockInv' /\ QueueInv'
    BY <2>1, <2>2 DEF IInv, UidInv, ClockInv, QueueInv, Waiting, clock
  <2> QED BY <2>3, <2>4 DEF IInv
<1>4. ASSUME NEW e \in m_events, Remove(e) PROVE IInv'
  BY <1>4 DEF Remove, IInv, TypeOK, UidInv, ClockInv, QueueInv, Waiting, clock, main
<1>5. CASE Pace
  <2>1. TypeOK'
    BY <1>5, PaceUntil DEF Pace, Goto, IInv, TypeOK, queue, clock
  <2>2. UidInv' /\ ClockInv' /\ QueueInv'
    BY <1>5 DEF Pace, Goto, IInv, UidInv, ClockInv, QueueInv, Waiting, queue, clock
  <2> QED BY <2>1, <2>2 DEF IInv
<1>6. CASE WaitForSignal
  <2>1. GetNormalizedRealtime + Idle \in Int
    BY TimesAssumption DEF IInv, TypeOK, GetNormalizedRealtime
  <2>2. TypeOK'
    BY <1>6, <2>1 DEF WaitForSignal, Goto, IInv, TypeOK, queue, clock
  <2>3. UidInv' /\ ClockInv' /\ QueueInv'
    BY <1>6 DEF WaitForSignal, Goto, IInv, UidInv, ClockInv, QueueInv, Waiting, queue, clock
  <2> QED BY <2>2, <2>3 DEF IInv
<1>7. CASE SetOrigin \/ Tick
  <2>1. TypeOK'
    BY <1>7 DEF SetOrigin, Tick, IInv, TypeOK, queue, main
  <2>2. UidInv' /\ ClockInv' /\ QueueInv'
    BY <1>7 DEF SetOrigin, Tick, IInv, TypeOK, UidInv, ClockInv, QueueInv,
       Waiting, queue, main
  <2> QED BY <2>1, <2>2 DEF IInv
<1>8. ASSUME NEW label \in {"loop", "sleep", "spin", "synchronize", "pace", "remove"},
             \/ label = "loop"
             \/ label \in {"sleep", "spin"} /\ Waiting
             \/ m_events # {},
             Goto(label), UNCHANGED <<wait, m_condition>>
      PROVE  IInv'
  <2>1. pc' = label /\ UNCHANGED <<queue, clock, m_currentTs, m_stop, m_running,
                                   ran, runs, wait, m_condition>>
    BY <1>8 DEF Goto
  <2>2. TypeOK'
    BY <1>8, <2>1 DEF IInv, TypeOK, queue, clock
  <2>3. UidInv' /\ ClockInv' /\ QueueInv'
    BY <1>8, <2>1 DEF IInv, UidInv, ClockInv, QueueInv, Waiting, queue, clock
  <2> QED BY <2>2, <2>3 DEF IInv
<1>9. CASE Stop \/ Run \/ LeaveLoop \/ UNCHANGED vars
  <2>1. UNCHANGED <<m_events, m_uid, m_currentTs, m_realtimeOriginNano, realtime,
                    m_condition, wait, ran>>
    BY <1>9 DEF Stop, Run, LeaveLoop, queue, clock, main, vars
  <2>2. pc' \in {"user", "origin"} \/ UNCHANGED pc
    BY <1>9 DEF Stop, Run, LeaveLoop, main, vars
  <2>3. TypeOK'
    <3>1. runs' \in Nat
      BY <1>9 DEF Stop, Run, LeaveLoop, IInv, TypeOK, main, vars
    <3>2. m_stop' \in BOOLEAN /\ m_running' \in BOOLEAN
      BY <1>9, Zenon DEF Stop, Run, LeaveLoop, IInv, TypeOK, main, vars
    <3> QED BY <2>1, <2>2, <3>1, <3>2 DEF IInv, TypeOK
  <2>4. UidInv' /\ ClockInv' /\ QueueInv'
    BY <2>1, <2>2 DEF IInv, UidInv, ClockInv, QueueInv, Waiting
  <2> QED BY <2>3, <2>4 DEF IInv
<1>10. CASE StartEvent \/ EventEnd \/ Synchronize
  BY <1>10, <1>8 DEF StartEvent, EventEnd, Synchronize, Waiting
<1>11. ASSUME NEW result \in BOOLEAN, Waiting, SynchronizeReturns(result)
       PROVE  IInv'
  <2>1. CASE wait.for = "signal"
    BY <1>8, <1>11, <2>1, SynchronizeReturnsTo
  <2>2. CASE wait.for = "event"
    <3>1. m_events # {}
      BY <1>11, <2>2 DEF IInv, QueueInv
    <3> QED BY <1>8, <1>11, <2>2, <3>1, SynchronizeReturnsTo
  <2> QED BY <2>1, <2>2 DEF IInv, TypeOK
<1>12. CASE SleepWait
  BY <1>8, <1>11, <1>12 DEF SleepWait, Waiting
<1>13. CASE SpinWait
  BY <1>11, <1>13 DEF SpinWait, Waiting
<1>14. CASE UserCall \/ \E d \in Delays : Post(d)
  BY <1>2, <1>4, <1>9, <1>14, ScheduledTs
     DEF UserCall, Schedule, ScheduleRealtime, Post
<1>15. CASE Simulator
  <2>1. RemoveNext => m_events # {}
    BY DEF RemoveNext, IInv, QueueInv
  <2> QED BY <1>3, <1>5, <1>6, <1>7, <1>9, <1>10, <1>12, <1>13, <1>15, <2>1
          DEF Simulator
<1> QED BY <1>7, <1>9, <1>14, <1>15 DEF Next

---------------------------------------------------------------------------
(* The wait of the main thread. *)

(* Posts are not missed between the look at the queue and the wait.        *)
LEMMA NoLostWakeupStep == IInv /\ NoLostWakeup /\ [Next]_vars => NoLostWakeup'
<1>1. SUFFICES ASSUME IInv, NoLostWakeup, [Next]_vars, Waiting'
               PROVE  NoLostWakeup'
  BY DEF NoLostWakeup, Waiting
<1>2. CASE \E ts \in Nat : Insert(ts)
  BY <1>2 DEF Insert, NoLostWakeup
<1>3. CASE Pace
  <2>1. UNCHANGED <<m_events, m_realtimeOriginNano, realtime>>
    BY <1>3 DEF Pace, Goto, queue, clock
  <2>2. \/ wait'.for = "event" /\ wait'.until = EarliestOf(m_events).ts
        \/ wait'.until = GetNormalizedRealtime
    BY <1>1, <1>3, PaceUntil
  <2>3. EarliestOf(m_events).ts \in Nat /\ GetNormalizedRealtime \in Int
    <3>1. m_events # {}
      BY <1>1, <1>3 DEF Pace, IInv, QueueInv
    <3> QED BY <1>1, <3>1, EarliestInQueue
            DEF Event, IInv, TypeOK, GetNormalizedRealtime
  <2>4. \/ wait'.for = "event" /\ EarliestOf(m_events).ts >= wait'.until
        \/ GetNormalizedRealtime >= wait'.until
    BY <2>2, <2>3
  <2> QED BY <2>1, <2>4 DEF NoLostWakeup, GetNormalizedRealtime
<1>4. CASE WaitForSignal
  BY <1>4 DEF WaitForSignal, Goto, queue, NoLostWakeup
<1>5. CASE Waiting /\ UNCHANGED <<queue, m_realtimeOriginNano, m_condition, wait>>
                   /\ (realtime' = realtime \/ realtime' = realtime + 1)
  <2>1. GetNormalizedRealtime \in Int /\ wait.until \in Int
    BY <1>1 DEF IInv, TypeOK, GetNormalizedRealtime
  <2>2. /\ GetNormalizedRealtime' \in Int
        /\ GetNormalizedRealtime <= GetNormalizedRealtime'
    BY <1>1, <1>5 DEF IInv, TypeOK, GetNormalizedRealtime
  <2>3. GetNormalizedRealtime >= wait.until => GetNormalizedRealtime' >= wait.until
    BY <2>1, <2>2
  <2>4. UNCHANGED <<m_events, m_condition, wait>>
    BY <1>5 DEF queue
  <2> QED BY <1>1, <1>5, <2>3, <2>4 DEF NoLostWakeup, Waiting
<1>6. \/ \E ts \in Nat : Insert(ts)
      \/ Pace \/ WaitForSignal
      \/ Waiting /\ UNCHANGED <<queue, m_realtimeOriginNano, m_condition, wait>>
                 /\ (realtime' = realtime \/ realtime' = realtime + 1)
  <2>1. CASE UserCall \/ \E d \in Delays : Post(d)
    BY <1>1, <2>1, ScheduledTs DEF UserCall, Schedule, ScheduleRealtime, Post, Remove,
       Stop, Run, Waiting, main
  <2>2. CASE Tick \/ UNCHANGED vars
    BY <1>1, <2>2 DEF Tick, vars, Waiting, main, clock, queue
  <2>3. CASE Simulator
    <3>1. ASSUME NEW result \in BOOLEAN, SynchronizeReturns(result) PROVE FALSE
      BY <1>1, <3>1, SynchronizeReturnsTo DEF Goto, Waiting
    <3>2. (SleepWait \/ SpinWait) => Goto("spin") /\ UNCHANGED <<wait, m_condition>>
      BY <3>1 DEF SleepWait, SpinWait
    <3>3. SetOrigin \/ LeaveLoop \/ StartEvent \/ RemoveNext \/ EventEnd => FALSE
      BY <1>1 DEF SetOrigin, LeaveLoop, StartEvent, RemoveNext, EventEnd, Goto, Waiting
    <3> QED BY <2>3, <3>2, <3>3
            DEF Simulator, Synchronize, SleepWait, SpinWait, Goto, Waiting, clock
  <2> QED BY <1>1, <2>1, <2>2, <2>3 DEF Next
<1> QED BY <1>2, <1>3, <1>4, <1>5, <1>6

(* While the main thread waits beyond an event that has come in, it has    *)
(* been signalled, however Post, Tick and the wait interleave.             *)
THEOREM NoLostWakeupHolds == Spec => []NoLostWakeup
<1>1. Init => IInv /\ NoLostWakeup
  BY InitInv DEF PaceInv, Init, NoLostWakeup
<1>2. IInv /\ NoLostWakeup /\ [Next]_vars => IInv' /\ NoLostWakeup'
  BY NextInv, NoLostWakeupStep
<1> QED BY <1>1, <1>2, PTL DEF Spec

---------------------------------------------------------------------------
(* The simulator's time and the wall clock. *)

(* Posts, ticks and the steps of the main thread that execute nothing.     *)
LEMMA RunInvStep == OneRun /\ IInv /\ RunInv /\ [Next]_vars => RunInv'
<1>1. SUFFICES ASSUME OneRun, IInv, RunInv, [Next]_vars PROVE RunInv'
  OBVIOUS
<1>2. CASE UNCHANGED main
  BY <1>1, <1>2 DEF main, RunInv
<1>3. CASE Run
  <2>1. runs = 0
    BY <1>1, <1>3, BoundsAssumption DEF Run, OneRun, IInv, TypeOK
  <2> QED BY <1>1, <1>3, <2>1 DEF Run, RunInv, IInv, TypeOK
<1>4. CASE pc # "user" /\ pc' # "user" /\ pc' # "origin"
           /\ UNCHANGED <<m_running, runs>>
  BY <1>1, <1>4 DEF RunInv
<1>5. CASE pc # "user" /\ pc' = "user" /\ ~m_running' /\ UNCHANGED runs
  BY <1>1, <1>5 DEF RunInv
<1>6. CASE Stop
  BY <1>1, <1>6 DEF Stop, RunInv
<1>7. \/ UNCHANGED main \/ Run \/ Stop
      \/ pc # "user" /\ pc' # "user" /\ pc' # "origin" /\ UNCHANGED <<m_running, runs>>
      \/ pc # "user" /\ pc' = "user" /\ ~m_running' /\ UNCHANGED runs
  <2>1. CASE UserCall \/ \E d \in Delays : Post(d)
    BY <2>1 DEF UserCall, Schedule, ScheduleRealtime, Post, Insert, Remove
  <2>2. CASE Tick \/ UNCHANGED vars
    BY <2>2 DEF Tick, vars
  <2>3. CASE Simulator
    <3>1. ASSUME NEW result \in BOOLEAN, SynchronizeReturns(result)
          PROVE  /\ pc' \in {"loop", "remove", "pace"}
                 /\ UNCHANGED <<m_running, runs>>
      BY <1>1, <3>1, SynchronizeReturnsTo DEF Goto
    <3>2. CASE SleepWait \/ SpinWait
      BY <3>1, <3>2 DEF SleepWait, SpinWait, Goto
    <3>3. CASE LeaveLoop
      BY <3>3 DEF LeaveLoop
    <3>4. CASE SetOrigin \/ WaitForSignal \/ StartEvent \/ Pace \/ Synchronize
               \/ RemoveNext \/ EventEnd
      BY <3>4 DEF SetOrigin, WaitForSignal, StartEvent, Pace, Synchronize, RemoveNext,
         EventEnd, Goto
    <3> QED BY <2>3, <3>2, <3>3, <3>4 DEF Simulator
  <2> QED BY <1>1, <2>1, <2>2, <2>3 DEF Next
<1> QED BY <1>2, <1>3, <1>4, <1>5, <1>6, <1>7

LEMMA WaitInvStep == IInv /\ WaitInv /\ [Next]_vars => WaitInv'
<1>1. SUFFICES ASSUME IInv, WaitInv, [Next]_vars, Waiting' \/ pc' = "remove"
               PROVE  WaitInv'
  BY DEF WaitInv
<1>2. CASE Pace
  <2>1. m_events # {} /\ UNCHANGED m_events /\ pc' = "synchronize"
    BY <1>1, <1>2 DEF Pace, Goto, queue, IInv, QueueInv
  <2>2. EarliestOf(m_events) \in m_events /\ EarliestOf(m_events).ts \in Nat
    BY <1>1, <2>1, EarliestInQueue DEF Event
  <2>3. EarliestOf(m_events).ts <= wait'.until
    BY <1>1, <1>2, <2>2, PaceUntil
  <2> QED BY <2>1, <2>2, <2>3 DEF WaitInv
<1>3. CASE WaitForSignal
  BY <1>3 DEF WaitForSignal, Goto, WaitInv
<1>4. CASE (Waiting \/ pc = "remove") /\ pc' = pc /\ m_events \subseteq m_events'
           /\ UNCHANGED <<wait, m_realtimeOriginNano>>
           /\ (realtime' = realtime \/ realtime' = realtime + 1)
  <2>1. \A e \in m_events : e.ts \in Nat
    BY <1>1 DEF IInv, TypeOK, Event
  <2>2. /\ GetNormalizedRealtime \in Int /\ GetNormalizedRealtime' \in Int
        /\ GetNormalizedRealtime <= GetNormalizedRealtime'
    BY <1>1, <1>4 DEF IInv, TypeOK, GetNormalizedRealtime
  <2>3. \A e \in m_events :
            e.ts <= GetNormalizedRealtime => e.ts <= GetNormalizedRealtime'
    BY <2>1, <2>2
  <2> QED BY <1>1, <1>4, <2>3 DEF WaitInv, Waiting
<1>5. CASE Waiting /\ Waiting' /\ UNCHANGED <<m_events, wait>>
  BY <1>1, <1>5 DEF WaitInv, Waiting
<1>6. CASE SpinWait /\ pc' = "remove"
  <2>1. /\ wait.for = "event" /\ GetNormalizedRealtime >= wait.until
        /\ UNCHANGED <<m_events, m_realtimeOriginNano, realtime>>
    <3>1. ASSUME NEW result \in BOOLEAN, SynchronizeReturns(result)
          PROVE  wait.for = "event" /\ result /\ UNCHANGED <<queue, clock>>
      BY <1>1, <1>6, <3>1, SynchronizeReturnsTo DEF Goto
    <3> QED BY <1>6, <3>1 DEF SpinWait, queue, clock
  <2>2. PICK e \in m_events : e.ts <= wait.until
    BY <1>1, <1>6, <2>1 DEF WaitInv, Waiting, SpinWait
  <2>3. e.ts \in Int /\ wait.until \in Int /\ GetNormalizedRealtime \in Int
    BY <1>1 DEF IInv, TypeOK, Event, GetNormalizedRealtime
  <2>4. e.ts <= GetNormalizedRealtime
    BY <2>1, <2>2, <2>3
  <2> QED BY <1>6, <2>1, <2>4 DEF WaitInv, Waiting, GetNormalizedRealtime
<1>7. CASE \E ts : Insert(ts)
  BY <1>1, <1>4, <1>7 DEF Insert, Waiting, main, clock
<1>8. CASE UserCall
  BY <1>1, <1>7, <1>8 DEF UserCall, Schedule, ScheduleRealtime, Remove, Stop, Run,
     Waiting, main
<1>9. CASE Tick \/ UNCHANGED vars
  BY <1>1, <1>4, <1>9 DEF Tick, vars, Waiting, main, clock, queue
<1>10. CASE Simulator
  <2>1. ASSUME NEW result \in BOOLEAN, SynchronizeReturns(result)
        PROVE  ~Waiting' /\ (result \/ pc' # "remove")
    BY <1>1, <2>1, SynchronizeReturnsTo DEF Goto, Waiting
  <2>2. CASE SleepWait
    <3>1. Goto("spin") /\ UNCHANGED wait
      BY <1>1, <2>1, <2>2 DEF SleepWait
    <3> QED BY <1>5, <2>2, <3>1 DEF SleepWait, Goto, Waiting, queue
  <2>3. CASE SpinWait
    BY <1>1, <1>6, <2>1, <2>3 DEF SpinWait
  <2>4. CASE Synchronize
    BY <1>5, <2>4 DEF Synchronize, Goto, Waiting, queue
  <2>5. ~(SetOrigin \/ LeaveLoop \/ StartEvent \/ RemoveNext \/ EventEnd)
    BY <1>1 DEF SetOrigin, LeaveLoop, StartEvent, RemoveNext, EventEnd, Goto, Waiting
  <2> QED BY <1>2, <1>3, <1>10, <2>2, <2>3, <2>4, <2>5 DEF Simulator
<1> QED BY <1>1, <1>7, <1>8, <1>9, <1>10 DEF Next, Post

LEMMA NeverEarlyStep == PaceInv /\ [Next]_vars => NeverEarly'
<1>1. SUFFICES ASSUME PaceInv, [Next]_vars, m_running', pc' # "origin"
               PROVE  m_currentTs' <= GetNormalizedRealtime'
  BY DEF NeverEarly
<1>2. CASE RemoveNext
  <2>1. m_events # {} /\ UNCHANGED <<m_realtimeOriginNano, realtime>>
    BY <1>1, <1>2 DEF RemoveNext, PaceInv, IInv, QueueInv, clock
  <2>2. PICK next \in m_events : /\ next \in Event
                                 /\ \A f \in m_events : next.ts <= f.ts
                                 /\ m_currentTs' = next.ts
    BY <1>1, <1>2, <2>1, RemoveNextTakes DEF PaceInv
  <2>3. PICK e \in m_events : e.ts <= GetNormalizedRealtime
    BY <1>1, <1>2 DEF PaceInv, WaitInv, RemoveNext
  <2>4. next.ts \in Nat /\ e.ts \in Nat /\ next.ts <= e.ts /\ GetNormalizedRealtime \in Int
    BY <1>1, <2>2 DEF PaceInv, IInv, TypeOK, Event, GetNormalizedRealtime
  <2> QED BY <2>1, <2>2, <2>3, <2>4 DEF GetNormalizedRealtime
<1>3. CASE SetOrigin
  BY <1>1, <1>3 DEF SetOrigin, PaceInv, IInv, TypeOK, RunInv, GetNormalizedRealtime
<1>4. CASE m_running /\ pc # "origin" /\ UNCHANGED <<m_currentTs, m_realtimeOriginNano>>
           /\ (realtime' = realtime \/ realtime' = realtime + 1)
  BY <1>1, <1>4 DEF PaceInv, NeverEarly, IInv, TypeOK, GetNormalizedRealtime
<1>5. CASE UserCall \/ \E d \in Delays : Post(d)
  BY <1>1, <1>4, <1>5 DEF UserCall, Schedule, ScheduleRealtime, Post, Insert, Remove,
     Stop, Run, main, clock
<1>6. CASE Tick \/ UNCHANGED vars
  BY <1>1, <1>4, <1>6 DEF Tick, vars, main, clock
<1>7. CASE Simulator
  <2>1. ASSUME NEW label, Goto(label), pc \notin {"user", "origin"}
        PROVE  m_running /\ pc # "origin"
               /\ UNCHANGED <<m_currentTs, m_realtimeOriginNano, realtime>>
    BY <1>1, <2>1 DEF Goto, clock, PaceInv, RunInv
  <2>2. ASSUME NEW result \in BOOLEAN, SynchronizeReturns(result)
        PROVE  \E label : Goto(label)
    BY <1>1, <2>2, SynchronizeReturnsTo DEF PaceInv
  <2>3. CASE SleepWait \/ SpinWait
    BY <1>4, <2>1, <2>2, <2>3 DEF SleepWait, SpinWait
  <2>4. CASE WaitForSignal \/ StartEvent \/ Pace \/ Synchronize \/ EventEnd
    BY <1>4, <2>1, <2>4 DEF WaitForSignal, StartEvent, Pace, Synchronize, EventEnd
  <2>5. ~LeaveLoop
    BY <1>1 DEF LeaveLoop
  <2> QED BY <1>2, <1>3, <1>7, <2>3, <2>4, <2>5 DEF Simulator
<1> QED BY <1>1, <1>5, <1>6, <1>7 DEF Next

LEMMA PaceInvariance == ASSUME OneRun PROVE Spec => []PaceInv
<1>1. PaceInv /\ [Next]_vars => PaceInv'
  BY NextInv, RunInvStep, WaitInvStep, NeverEarlyStep DEF PaceInv
<1> QED BY <1>1, InitInv, PTL DEF Spec

(* No event runs before its time has come on the wall clock, whatever      *)
(* other threads post while the main thread waits and whichever event      *)
(* RemoveNext finds first when the wait is over.                           *)
THEOREM NeverEarlyHolds == ASSUME OneRun PROVE Spec => []NeverEarly
<1>1. PaceInv => NeverEarly
  BY DEF PaceInv
<1> QED BY <1>1, PaceInvariance, PTL

---------------------------------------------------------------------------
(* The refinement, step by step. *)

LEMMA InsertIsAccept ==
    ASSUME IInv, NEW ts \in Nat, m_currentTs <= ts, Insert(ts)
    PROVE  Contract!Accept
<1>1. PICK new : new = [ts |-> ts, uid |-> m_uid]
  OBVIOUS
<1>2. /\ m_events' = m_events \cup {new} /\ m_uid' = m_uid + 1
      /\ UNCHANGED <<m_currentTs, ran>>
  BY <1>1 DEF Insert, main
<1>3. m_uid \in Nat /\ VALID \in Nat /\ VALID <= m_uid
  BY DEF IInv, TypeOK, VALID
<1>4. Numbered(new) = [ts |-> ts, n |-> Made + 1]
  BY <1>1, <1>3 DEF Numbered, Made
<1>5. Made \in Nat /\ Made' = Made + 1
  BY <1>2, <1>3 DEF Made, VALID
<1> DEFINE pending == {Numbered(e) : e \in m_events}
<1>6. pending' = pending \cup {Numbered(new)}
  BY <1>2 DEF Numbered
<1>7. \A e \in pending' \ pending : e = [ts |-> ts, n |-> Made + 1]
  BY <1>4, <1>6
<1>8. UNCHANGED [i \in 1..Len(ran) |-> Numbered(ran[i])]
  BY <1>2 DEF Numbered
<1> HIDE DEF pending
<1>9. \A e \in pending' \ pending :
         /\ e \in [ts : Nat, n : Nat]
         /\ e.ts >= m_currentTs /\ Made < e.n /\ e.n <= Made'
         /\ \A f \in pending' \ pending : e = f
  BY <1>5, <1>7 DEF IInv, TypeOK
<1>10. pending \subseteq pending'
  BY <1>6
<1> QED BY <1>2, <1>5, <1>8, <1>9, <1>10 DEF Contract!Accept, pending

(* The events that ran, each with its place in the order of acceptance. *)
LEMMA LogAppend ==
    ASSUME NEW r \in Seq(Event), NEW e \in Event
    PROVE  [i \in 1..Len(Append(r, e)) |-> Numbered(Append(r, e)[i])]
             = Append([i \in 1..Len(r) |-> Numbered(r[i])], Numbered(e))
<1> DEFINE S == {Numbered(f) : f \in Event}
           log == [i \in 1..Len(r) |-> Numbered(r[i])]
           new == [i \in 1..Len(Append(r, e)) |-> Numbered(Append(r, e)[i])]
<1>1. /\ Append(r, e) \in Seq(Event) /\ Len(Append(r, e)) = Len(r) + 1 /\ Len(r) \in Nat
      /\ \A i \in 1..Len(r) : Append(r, e)[i] = r[i]
      /\ Append(r, e)[Len(r) + 1] = e
  BY AppendProperties, LenProperties
<1>2. log \in Seq(S) /\ Len(log) = Len(r)
  <2>1. \A i \in 1..Len(r) : r[i] \in Event
    BY ElementOfSeq
  <2> QED BY <2>1, <1>1
<1>3. new \in Seq(S) /\ Len(new) = Len(r) + 1
  <2>1. \A i \in 1..Len(r)+1 : Append(r, e)[i] \in Event
    BY <1>1, ElementOfSeq
  <2> QED BY <2>1, <1>1
<1>4. Numbered(e) \in S
  OBVIOUS
<1>5. /\ Append(log, Numbered(e)) \in Seq(S)
      /\ Len(Append(log, Numbered(e))) = Len(r) + 1
      /\ \A i \in 1..Len(r) : Append(log, Numbered(e))[i] = log[i]
      /\ Append(log, Numbered(e))[Len(r) + 1] = Numbered(e)
  <2> HIDE DEF S, log
  <2> QED BY <1>2, <1>4, AppendProperties
<1>6. \A i \in 1..Len(r)+1 : new[i] = Append(log, Numbered(e))[i]
  <2>1. ASSUME NEW i \in 1..Len(r)+1 PROVE new[i] = Append(log, Numbered(e))[i]
    <3>1. new[i] = Numbered(Append(r, e)[i])
      BY <1>1
    <3>2. i \in 1..Len(r) \/ i = Len(r) + 1
      BY <1>1
    <3>3. CASE i \in 1..Len(r)
      BY <1>1, <1>5, <3>1, <3>3
    <3>4. CASE i = Len(r) + 1
      <4>1. Append(r, e)[i] = e /\ Append(log, Numbered(e))[i] = Numbered(e)
        BY <1>1, <1>5, <3>4
      <4> QED BY <3>1, <4>1
    <3> QED BY <3>2, <3>3, <3>4
  <2> QED BY <2>1
<1> HIDE DEF S, log, new
<1>7. new = Append(log, Numbered(e))
  BY <1>3, <1>5, <1>6, SeqEqual
<1> QED BY <1>7 DEF new, log

LEMMA RemoveNextIsExecute ==
    ASSUME IInv, RemoveNext, m_events # {}
    PROVE  Contract!Execute
<1>1. PICK next \in m_events : /\ next \in Event
                               /\ \A f \in m_events \ {next} : KeyLess(next, f)
                               /\ m_events' = m_events \ {next}
                               /\ m_currentTs' = next.ts
                               /\ ran' = Append(ran, next)
  BY RemoveNextTakes
<1>2. \A e \in m_events : e.ts \in Nat /\ e.uid \in Nat /\ VALID <= e.uid
  BY DEF IInv, TypeOK, Event, UidInv
<1>3. \A e, f \in m_events : Numbered(e) = Numbered(f) => e = f
  BY <1>2 DEF Numbered, VALID, IInv, UidInv
<1> DEFINE pending == {Numbered(e) : e \in m_events}
<1>4. Numbered(next) \in pending
  OBVIOUS
<1>5. \A p \in pending \ {Numbered(next)} : Contract!Before(Numbered(next), p)
  <2>1. ASSUME NEW e \in m_events, e # next
        PROVE  Contract!Before(Numbered(next), Numbered(e))
    <3>1. KeyLess(next, e)
      BY <1>1, <2>1
    <3> QED BY <1>2, <2>1, <3>1 DEF KeyLess, Contract!Before, Numbered, VALID
  <2> QED BY <2>1
<1>6. pending' = pending \ {Numbered(next)}
  <2>1. pending' = {Numbered(e) : e \in m_events \ {next}}
    BY <1>1 DEF Numbered
  <2> QED BY <1>3, <2>1
<1>7. [i \in 1..Len(ran) |-> Numbered(ran[i])]'
        = Append([i \in 1..Len(ran) |-> Numbered(ran[i])], Numbered(next))
  <2>1. ran \in Seq(Event)
    BY DEF IInv, TypeOK
  <2>2. [i \in 1..Len(ran) |-> Numbered(ran[i])]'
          = [i \in 1..Len(Append(ran, next)) |-> Numbered(Append(ran, next)[i])]
    BY <1>1 DEF Numbered
  <2> QED BY <1>1, <2>1, <2>2, LogAppend
<1>8. m_currentTs' = Numbered(next).ts /\ UNCHANGED Made
  BY <1>1 DEF Numbered, RemoveNext, Made
<1> HIDE DEF pending
<1> QED BY <1>4, <1>5, <1>6, <1>7, <1>8 DEF Contract!Execute, pending

(* Every step of the real-time simulator is a step of the contract that    *)
(* DefaultSimulator implements too, or leaves it unchanged: the event that *)
(* runs is the earliest of those accepted, and no event is accepted for a  *)
(* time before the simulator's own, also when another thread posts it for  *)
(* the time it reads on the wall clock.                                    *)
THEOREM Implements == ASSUME OneRun PROVE Spec => ImplementsContract
<1>1. Init => Contract!Init
  BY DEF Init, Contract!Init, Made, VALID
<1>2. PaceInv /\ [Next]_vars => [Contract!Next]_(Contract!vars)
  <2>1. SUFFICES ASSUME PaceInv, [Next]_vars
                 PROVE  Contract!Next \/ UNCHANGED Contract!vars
    OBVIOUS
  <2>2. ASSUME NEW ts \in Nat, m_currentTs <= ts, Insert(ts) PROVE Contract!Next
    BY <2>1, <2>2, InsertIsAccept DEF PaceInv, Contract!Next
  <2>3. CASE RemoveNext
    BY <2>1, <2>3, RemoveNextIsExecute
       DEF PaceInv, IInv, QueueInv, RemoveNext, Contract!Next
  <2>4. ASSUME NEW e \in m_events, Remove(e) PROVE Contract!Next
    <3>1. m_events' \subseteq m_events /\ UNCHANGED <<m_uid, m_currentTs, ran>>
      BY <2>4 DEF Remove, main
    <3> QED BY <3>1 DEF Contract!Next, Contract!Drop, Made, Numbered
  <2>5. CASE UNCHANGED <<m_events, m_uid, m_currentTs, ran>>
    BY <2>5 DEF Contract!vars, Made, Numbered
  <2>6. ASSUME NEW d \in Delays, Schedule(d) \/ ScheduleRealtime(d) \/ Post(d)
        PROVE  Contract!Next
    <3>1. /\ m_currentTs + d \in Nat /\ GetNormalizedRealtime + d \in Nat
          /\ d \in Nat /\ m_currentTs \in Nat /\ GetNormalizedRealtime \in Int
      BY <2>1, ScheduledTs, TimesAssumption
         DEF PaceInv, IInv, TypeOK, GetNormalizedRealtime
    <3>2. m_currentTs <= m_currentTs + d
      BY <3>1
    <3>3. ScheduleRealtime(d) \/ m_running
            => m_currentTs <= GetNormalizedRealtime + d
      <4>1. GetNormalizedRealtime \in Nat
        BY <2>1 DEF PaceInv, IInv, TypeOK, ClockInv, GetNormalizedRealtime
      <4>2. CASE pc = "origin"
        BY <2>1, <3>1, <4>1, <4>2 DEF PaceInv, RunInv
      <4>3. CASE m_running /\ pc # "origin"
        BY <2>1, <3>1, <4>3 DEF PaceInv, NeverEarly
      <4> QED BY <2>1, <4>2, <4>3 DEF ScheduleRealtime, PaceInv, RunInv
    <3> QED BY <2>2, <2>6, <3>1, <3>2, <3>3 DEF Schedule, ScheduleRealtime, Post
  <2>7. CASE Stop \/ Run \/ Tick \/ UNCHANGED vars
    BY <2>5, <2>7 DEF Stop, Run, Tick, vars, queue, main
  <2>8. CASE Simulator
    <3>1. ASSUME NEW label, Goto(label)
          PROVE  UNCHANGED <<m_events, m_uid, m_currentTs, ran>>
      BY <3>1 DEF Goto, queue
    <3>2. ASSUME NEW result \in BOOLEAN, SynchronizeReturns(result)
          PROVE  \E label : Goto(label)
      BY <2>1, <3>2, SynchronizeReturnsTo DEF PaceInv
    <3>3. CASE SleepWait \/ SpinWait
      BY <2>5, <3>1, <3>2, <3>3 DEF SleepWait, SpinWait
    <3>4. CASE WaitForSignal \/ StartEvent \/ Pace \/ Synchronize \/ EventEnd
      BY <2>5, <3>1, <3>4 DEF WaitForSignal, StartEvent, Pace, Synchronize, EventEnd
    <3>5. CASE SetOrigin \/ LeaveLoop
      BY <2>5, <3>5 DEF SetOrigin, LeaveLoop, queue
    <3> QED BY <2>3, <2>8, <3>3, <3>4, <3>5 DEF Simulator
  <2> QED BY <2>1, <2>4, <2>6, <2>7, <2>8 DEF Next, UserCall
<1> QED BY <1>1, <1>2, PaceInvariance, PTL DEF Spec, ImplementsContract, Contract!Spec
=============================================================================
