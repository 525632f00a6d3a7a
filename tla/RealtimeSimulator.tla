------------------------- MODULE RealtimeSimulator --------------------------
(***************************************************************************)
(* ns3::RealtimeSimulatorImpl and its WallClockSynchronizer: the main      *)
(* thread waits until the wall clock reaches the time of the next event,   *)
(* without holding the lock, while other threads post events and signal    *)
(* the condition that the wait watches.  Time is counted in nanoseconds,   *)
(* one jiffy of the synchronizer.                                          *)
(*                                                                         *)
(* The synchronization mode is BestEffort.                                 *)
(***************************************************************************)
EXTENDS EventKey, Sequences

CONSTANTS Delays,      \* the delays user code and other threads ask for
          StartTime,   \* what the wall clock reads at first
          Idle,        \* how long Run waits when there is no event (1 s)
          HeadStart,   \* a sleep ends that long before its time (3 jiffies)
          MaxTicks,    \* bound: how far the wall clock advances
          MaxEvents,   \* bound: events scheduled
          MaxRuns      \* bound: calls of Run

ASSUME TimesAssumption ==
    Delays \subseteq Nat /\ {StartTime, Idle, HeadStart, MaxTicks} \subseteq Nat
ASSUME BoundsAssumption == MaxEvents \in Nat /\ MaxRuns \in Nat

VARIABLES
    m_events, m_uid, m_currentTs, m_stop, m_running,
    m_condition,            \* WallClockSynchronizer: signalled
    m_realtimeOriginNano,   \* WallClockSynchronizer: the origin of time
    realtime,               \* the wall clock
    pc,                     \* where the main thread is
    wait,                   \* what Synchronize was called for
    ran,                    \* history: the events that ran
    runs                    \* history: calls of Run

queue == <<m_events, m_uid>>
clock == <<m_realtimeOriginNano, realtime>>
main == <<m_currentTs, m_stop, m_running, pc, wait, ran, runs>>
vars == <<queue, clock, m_condition, main>>

VALID == 4   \* the first uid

Init == /\ m_events = {} /\ m_uid = VALID /\ m_currentTs = 0
        /\ m_stop = FALSE /\ m_running = FALSE
        /\ m_condition = FALSE
        /\ m_realtimeOriginNano = 0 /\ realtime = StartTime
        /\ pc = "user" /\ wait = [for |-> "event", until |-> 0]
        /\ ran = << >> /\ runs = 0

GetNormalizedRealtime == realtime - m_realtimeOriginNano
Made == m_uid - VALID

---------------------------------------------------------------------------
(* Events are inserted under the lock, with a signal to the main thread.   *)

Insert(ts) == /\ Made < MaxEvents
              /\ m_events' = m_events \cup {[ts |-> ts, uid |-> m_uid]}
              /\ m_uid' = m_uid + 1
              /\ m_condition' = TRUE
              /\ UNCHANGED <<clock, main>>

(* Schedule, and ScheduleWithContext on the main thread. *)
Schedule(delay) == pc \in {"user", "callback"} /\ Insert(m_currentTs + delay)

ScheduleRealtime(delay) == pc = "callback" /\ Insert(GetNormalizedRealtime + delay)

(* ScheduleWithContext and ScheduleRealtimeNow on another thread. *)
Post(delay) ==
    Insert((IF m_running THEN GetNormalizedRealtime ELSE m_currentTs) + delay)

(* Remove, of an event that has not expired. *)
Remove(e) == /\ pc \in {"user", "callback"}
             /\ m_events' = m_events \ {e}
             /\ UNCHANGED <<m_uid, clock, m_condition, main>>

(* Simulator::Stop, called by an event. *)
Stop == /\ pc = "callback"
        /\ m_stop' = TRUE
        /\ UNCHANGED <<queue, clock, m_condition, m_currentTs, m_running, pc, wait, ran, runs>>

---------------------------------------------------------------------------
(* Run sets m_running before it sets the origin of the clock. *)

Run == /\ pc = "user" /\ runs < MaxRuns
       /\ m_stop' = FALSE
       /\ m_running' = TRUE
       /\ pc' = "origin"
       /\ runs' = runs + 1
       /\ UNCHANGED <<queue, clock, m_condition, m_currentTs, wait, ran>>

(* DoSetOrigin does not look at the simulation time. *)
SetOrigin == /\ pc = "origin"
             /\ m_realtimeOriginNano' = realtime
             /\ pc' = "loop"
             /\ UNCHANGED <<queue, realtime, m_condition, m_currentTs, m_stop,
                            m_running, wait, ran, runs>>

LeaveLoop == /\ pc = "loop" /\ m_stop
             /\ m_running' = FALSE
             /\ pc' = "user"
             /\ UNCHANGED <<queue, clock, m_condition, m_currentTs, m_stop, wait, ran, runs>>

Goto(label) == /\ pc' = label
               /\ UNCHANGED <<queue, clock, m_currentTs, m_stop, m_running, ran, runs>>

(* One turn of the loop of Run, under the lock: without an event it waits  *)
(* for Idle, or for a signal, ...                                          *)
WaitForSignal == /\ pc = "loop" /\ ~m_stop /\ m_events = {}
                 /\ wait' = [for |-> "signal", until |-> GetNormalizedRealtime + Idle]
                 /\ Goto("synchronize")
                 /\ UNCHANGED m_condition

StartEvent == /\ pc = "loop" /\ ~m_stop /\ m_events # {}
              /\ Goto("pace")
              /\ UNCHANGED <<wait, m_condition>>

(* ... and the loop of ProcessOneEvent, under the lock: how long to wait   *)
(* for the event that is next.                                             *)
Pace == /\ pc = "pace"
        /\ LET tsNext == EarliestOf(m_events).ts
           IN  wait' = [for |-> "event",
                        until |-> IF tsNext <= GetNormalizedRealtime
                                  THEN GetNormalizedRealtime ELSE tsNext]
        /\ m_condition' = FALSE
        /\ Goto("synchronize")

SynchronizeResets ==  \* mutant
    /\ pc = "synchronize"
    /\ IF wait.until - GetNormalizedRealtime > HeadStart
       THEN Goto("sleep") ELSE Goto("spin")
    /\ m_condition' = FALSE
    /\ UNCHANGED wait

(* Synchronize sleeps, but not to the end of the wait, and then spins.     *)
Synchronize == /\ pc = "synchronize"
               /\ IF wait.until - GetNormalizedRealtime > HeadStart
                  THEN Goto("sleep") ELSE Goto("spin")
               /\ UNCHANGED <<wait, m_condition>>

SynchronizeReturns(result) ==
    /\ CASE wait.for = "signal" -> Goto("loop")
         [] wait.for = "event" /\ result -> Goto("remove")
         [] wait.for = "event" /\ ~result -> Goto("pace")
    /\ UNCHANGED <<wait, m_condition>>

(* SleepWait, which is true when it was signalled; Synchronize then goes   *)
(* on to spin, and returns false when the sleep went to its end.           *)
SleepWait == /\ pc = "sleep"
             /\ IF m_condition
                THEN Goto("spin") /\ UNCHANGED <<wait, m_condition>>
                ELSE /\ GetNormalizedRealtime >= wait.until - HeadStart
                     /\ SynchronizeReturns(FALSE)

SpinWaitIgnoresCondition ==  \* mutant
    /\ pc = "spin"
    /\ GetNormalizedRealtime >= wait.until
    /\ SynchronizeReturns(TRUE)

SpinWaitSwapped ==  \* mutant
    /\ pc = "spin"
    /\ \/ m_condition /\ SynchronizeReturns(TRUE)
       \/ GetNormalizedRealtime >= wait.until /\ SynchronizeReturns(TRUE)

SpinWait == /\ pc = "spin"
            /\ IF GetNormalizedRealtime >= wait.until
               THEN SynchronizeReturns(TRUE)
               ELSE m_condition /\ SynchronizeReturns(FALSE)

RemoveAwaited ==  \* mutant
    /\ pc = "remove"
    /\ LET awaited == {e \in m_events : e.ts = wait.until}
           next == EarliestOf(IF awaited = {} THEN m_events ELSE awaited)
       IN  /\ m_events' = m_events \ {next}
           /\ m_currentTs' = next.ts
           /\ ran' = Append(ran, next)
    /\ pc' = "callback"
    /\ UNCHANGED <<m_uid, clock, m_condition, m_stop, m_running, wait, runs>>

(* The event that is first now, which need not be the one waited for.      *)
RemoveNext == /\ pc = "remove"
              /\ LET next == EarliestOf(m_events)
                 IN  /\ m_events' = m_events \ {next}
                     /\ m_currentTs' = next.ts
                     /\ ran' = Append(ran, next)
              /\ pc' = "callback"
              /\ UNCHANGED <<m_uid, clock, m_condition, m_stop, m_running, wait, runs>>

EventEnd == /\ pc = "callback"
            /\ Goto("loop")
            /\ UNCHANGED <<wait, m_condition>>

---------------------------------------------------------------------------

Tick == /\ realtime < StartTime + MaxTicks
        /\ realtime' = realtime + 1
        /\ UNCHANGED <<queue, m_realtimeOriginNano, m_condition, main>>

UserCall == \/ \E d \in Delays : Schedule(d) \/ ScheduleRealtime(d)
            \/ \E e \in m_events : Remove(e)
            \/ Stop \/ Run

Simulator == \/ SetOrigin \/ LeaveLoop \/ WaitForSignal \/ StartEvent
             \/ Pace \/ Synchronize \/ SleepWait \/ SpinWait
             \/ RemoveNext \/ EventEnd

Next == \/ UserCall \/ Simulator \/ Tick
        \/ \E d \in Delays : Post(d)

Spec == Init /\ [][Next]_vars

(* The main thread is scheduled, and events return.  Nothing is asked of   *)
(* the wall clock, of user code or of the other threads.                   *)
FairSpec == Spec /\ WF_vars(Simulator)

---------------------------------------------------------------------------
(* What the simulator must keep. *)

(* No event runs before its time has come on the wall clock; so an event   *)
(* that another thread posts for the time it reads is never due before the *)
(* simulator's own time, which Schedule and ProcessOneEvent assert.        *)
NeverEarly ==
    m_running /\ pc # "origin" => m_currentTs <= GetNormalizedRealtime

(* Posts are not missed between the look at the queue and the wait: while  *)
(* the main thread waits beyond an event that has come in, the condition   *)
(* is signalled.                                                           *)
NoLostWakeup ==
    pc \in {"synchronize", "sleep", "spin"} =>
        \/ m_condition
        \/ GetNormalizedRealtime >= wait.until
        \/ m_events = {}
        \/ wait.for = "event" /\ EarliestOf(m_events).ts >= wait.until

(* The simulator waits only when it must: an event that is due while Run   *)
(* runs is executed, unless the program removes it or stops.               *)
IsDue(n) == /\ m_running /\ pc # "origin"
            /\ \E e \in m_events : e.uid = VALID + n /\ e.ts <= GetNormalizedRealtime
IsPending(n) == \E e \in m_events : e.uid = VALID + n

DueIsRun == \A n \in 0..MaxEvents - 1 : IsDue(n) ~> (m_stop \/ ~IsPending(n))

(* To its users it is the simulator that DefaultSimulator is too.          *)
Numbered(e) == [ts |-> e.ts, n |-> e.uid - VALID + 1]
Contract == INSTANCE SimulatorContract WITH
                now <- m_currentTs,
                accepted <- Made,
                pending <- {Numbered(e) : e \in m_events},
                log <- [i \in 1..Len(ran) |-> Numbered(ran[i])]

ImplementsContract == Contract!Spec

=============================================================================
