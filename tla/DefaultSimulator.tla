-------------------------- MODULE DefaultSimulator --------------------------
(***************************************************************************)
(* ns3::DefaultSimulatorImpl, the sequential simulator engine: the event   *)
(* list, the clock, the EventIds programs hold, and the side queue through *)
(* which other threads hand over events (ScheduleWithContext).             *)
(*                                                                         *)
(* The main thread runs user code (before and after Run, inside events,    *)
(* inside destroy events), which may call any operation of the simulator   *)
(* any number of times; other threads post events at any moment.  The      *)
(* Scheduler is the set of its events, RemoveNext the earliest of them     *)
(* (HeapScheduler says which schedulers deserve that).  An EventImpl is    *)
(* its number in the order of creation.                                    *)
(***************************************************************************)
EXTENDS Integers, Sequences, FiniteSets

CONSTANTS Delays,     \* the delays user code asks for
          UidMod,     \* values of the uint32_t m_uid: 2^32 in the code
          MaxEvents   \* bound: EventImpls created

ASSUME DelaysAssumption == Delays \subseteq Nat
ASSUME BoundsAssumption == UidMod \in Nat \ {0} /\ MaxEvents \in Nat

VARIABLES
    m_events,                 \* the Scheduler
    m_destroyEvents,          \* EventIds to run in Destroy, in order
    m_stop,
    m_uid,                    \* next uid
    m_currentUid,
    m_currentTs,
    m_unscheduledEvents,
    m_eventsWithContext,      \* delays of the events posted by other threads
    m_eventsWithContextEmpty,
    cancelled,                \* the EventImpls with m_cancel set
    stopEvents,               \* the EventImpls that call Simulator::Stop
    pc,                       \* where the main thread is
    made,                     \* history: EventImpls created
    ids,                      \* history: EventIds returned to the program
    ran                       \* history: events whose Notify ran, in order

queue == <<m_events, m_unscheduledEvents>>
posted == <<m_eventsWithContext, m_eventsWithContextEmpty>>
clock == <<m_currentTs, m_currentUid>>
impls == <<cancelled, stopEvents>>
vars == <<queue, posted, clock, impls, m_destroyEvents, m_stop, m_uid,
          pc, made, ids, ran>>

(* EventId::UID *)
INVALID == 0
DESTROY == 2
VALID == 4

(* A Scheduler::Event, and an EventId: the key and the implementation. *)
Event == [ts : Nat, uid : 0..UidMod-1, impl : Nat]

(* operator< on Scheduler::EventKey. *)
KeyLessByTime(a, b) == a.ts < b.ts  \* mutant
KeyLess(a, b) == a.ts < b.ts \/ (a.ts = b.ts /\ a.uid < b.uid)

(* The events Scheduler::RemoveNext may return. *)
Earliest == {e \in m_events : \A f \in m_events : ~KeyLess(f, e)}

(* m_uid++ *)
UidAfter(n) == (m_uid + n) % UidMod

IsCancelled(id) == id.impl \in cancelled

IsExpiredNotNow(id) ==  \* mutant
    IF id.uid = DESTROY
    THEN \/ IsCancelled(id)
         \/ \A i \in 1..Len(m_destroyEvents) : m_destroyEvents[i] # id
    ELSE \/ id.ts < m_currentTs
         \/ id.ts = m_currentTs /\ id.uid < m_currentUid
         \/ IsCancelled(id)

IsExpired(id) ==
    IF id.uid = DESTROY
    THEN \/ IsCancelled(id)
         \/ \A i \in 1..Len(m_destroyEvents) : m_destroyEvents[i] # id
    ELSE \/ id.ts < m_currentTs
         \/ id.ts = m_currentTs /\ id.uid <= m_currentUid
         \/ IsCancelled(id)

UserCode == {"user", "callback", "destroyCallback"}

Init == /\ m_events = {}
        /\ m_destroyEvents = << >>
        /\ m_stop = FALSE
        /\ m_uid = VALID % UidMod
        /\ m_currentUid = INVALID
        /\ m_currentTs = 0
        /\ m_unscheduledEvents = 0
        /\ m_eventsWithContext = << >>
        /\ m_eventsWithContextEmpty = TRUE
        /\ cancelled = {}
        /\ stopEvents = {}
        /\ pc = "user"
        /\ made = 0
        /\ ids = {}
        /\ ran = << >>

---------------------------------------------------------------------------
(* Operations that user code calls on the main thread. *)

(* The event that Schedule makes of a new EventImpl. *)
NewEvent(delay) == [ts |-> m_currentTs + delay, uid |-> m_uid, impl |-> made + 1]

(* Inserts the new event; what is returned or noted of it is up to the     *)
(* caller.                                                                 *)
InsertNew(delay) ==
    /\ pc \in UserCode
    /\ made + Len(m_eventsWithContext) < MaxEvents
    /\ m_events' = m_events \cup {NewEvent(delay)}
    /\ m_unscheduledEvents' = m_unscheduledEvents + 1
    /\ m_uid' = UidAfter(1)
    /\ made' = made + 1
    /\ UNCHANGED <<posted, clock, cancelled, m_destroyEvents, m_stop, pc, ran>>

Schedule(delay) == /\ InsertNew(delay)
                   /\ ids' = ids \cup {NewEvent(delay)}
                   /\ UNCHANGED stopEvents

(* ScheduleWithContext called by the main thread returns no EventId. *)
ScheduleWithContext(delay) == InsertNew(delay) /\ UNCHANGED <<ids, stopEvents>>

(* Stop(delay) schedules an event that calls Stop. *)
StopLater(delay) == /\ InsertNew(delay)
                    /\ stopEvents' = stopEvents \cup {made + 1}
                    /\ UNCHANGED ids

StopNow == /\ pc \in UserCode
           /\ m_stop' = TRUE
           /\ UNCHANGED <<queue, posted, clock, impls, m_destroyEvents, m_uid,
                          pc, made, ids, ran>>

ScheduleDestroy ==
    LET id == [ts |-> m_currentTs, uid |-> DESTROY, impl |-> made + 1]
    IN  /\ pc \in UserCode
        /\ made + Len(m_eventsWithContext) < MaxEvents
        /\ m_destroyEvents' = Append(m_destroyEvents, id)
        /\ m_uid' = UidAfter(1)
        /\ made' = made + 1
        /\ ids' = ids \cup {id}
        /\ UNCHANGED <<queue, posted, clock, impls, m_stop, pc, ran>>

(* Remove erases a destroy event from its list and cancels nothing. *)
RemoveDestroy(id) ==
    /\ pc \in UserCode
    /\ id.uid = DESTROY
    /\ \E i \in 1..Len(m_destroyEvents) :
        /\ m_destroyEvents[i] = id
        /\ m_destroyEvents' = SubSeq(m_destroyEvents, 1, i - 1) \o
                              SubSeq(m_destroyEvents, i + 1, Len(m_destroyEvents))
    /\ UNCHANGED <<queue, posted, clock, impls, m_stop, m_uid, pc, made, ids, ran>>

Remove(id) ==
    /\ pc \in UserCode
    /\ id.uid # DESTROY
    /\ ~IsExpired(id)
    /\ m_events' = m_events \ {id}
    /\ cancelled' = cancelled \cup {id.impl}
    /\ m_unscheduledEvents' = m_unscheduledEvents - 1
    /\ UNCHANGED <<posted, clock, stopEvents, m_destroyEvents, m_stop, m_uid,
                   pc, made, ids, ran>>

Cancel(id) == /\ pc \in UserCode
              /\ ~IsExpired(id)
              /\ cancelled' = cancelled \cup {id.impl}
              /\ UNCHANGED <<queue, posted, clock, stopEvents, m_destroyEvents,
                             m_stop, m_uid, pc, made, ids, ran>>

---------------------------------------------------------------------------
(* Another thread calls ScheduleWithContext: the critical section of       *)
(* m_eventsWithContextMutex is one step.                                   *)
PostKeepsFlag(delay) ==  \* mutant
    /\ pc # "disposed"
    /\ made + Len(m_eventsWithContext) < MaxEvents
    /\ m_eventsWithContext' = Append(m_eventsWithContext, delay)
    /\ UNCHANGED <<m_eventsWithContextEmpty, queue, clock, impls, m_destroyEvents,
                   m_stop, m_uid, pc, made, ids, ran>>

Post(delay) ==
    /\ pc # "disposed"
    /\ made + Len(m_eventsWithContext) < MaxEvents
    /\ m_eventsWithContext' = Append(m_eventsWithContext, delay)
    /\ m_eventsWithContextEmpty' = FALSE
    /\ UNCHANGED <<queue, clock, impls, m_destroyEvents, m_stop, m_uid,
                   pc, made, ids, ran>>

---------------------------------------------------------------------------
(* ProcessEventsWithContext.  The main thread reads                        *)
(* m_eventsWithContextEmpty without the mutex, a data race: it sees TRUE   *)
(* when nothing was posted, and may see a stale TRUE when something was.   *)

SeesNothingPosted == UNCHANGED <<queue, posted, m_uid, made>>

MovedFromTimeZero ==  \* mutant
    {[ts |-> m_eventsWithContext[i], uid |-> UidAfter(i - 1), impl |-> made + i] :
        i \in 1..Len(m_eventsWithContext)}
MovedBackwards ==  \* mutant
    {[ts |-> m_eventsWithContext[i] - m_currentTs, uid |-> UidAfter(i - 1),
      impl |-> made + i] : i \in 1..Len(m_eventsWithContext)}
MovedWithOneUid ==  \* mutant
    {[ts |-> m_currentTs + m_eventsWithContext[i], uid |-> m_uid,
      impl |-> made + i] : i \in 1..Len(m_eventsWithContext)}

(* The events made of the posted ones, in the order they were posted. *)
Moved == {[ts |-> m_currentTs + m_eventsWithContext[i],
           uid |-> UidAfter(i - 1),
           impl |-> made + i] : i \in 1..Len(m_eventsWithContext)}

MovesPostedCountsOne ==  \* mutant
    /\ ~m_eventsWithContextEmpty
    /\ m_events' = m_events \cup Moved
    /\ m_unscheduledEvents' = m_unscheduledEvents + 1
    /\ m_uid' = UidAfter(Len(m_eventsWithContext))
    /\ made' = made + Len(m_eventsWithContext)
    /\ m_eventsWithContext' = << >>
    /\ m_eventsWithContextEmpty' = TRUE

MovesPostedKeepsFlag ==  \* mutant
    /\ ~m_eventsWithContextEmpty
    /\ m_events' = m_events \cup Moved
    /\ m_unscheduledEvents' = m_unscheduledEvents + Len(m_eventsWithContext)
    /\ m_uid' = UidAfter(Len(m_eventsWithContext))
    /\ made' = made + Len(m_eventsWithContext)
    /\ m_eventsWithContext' = << >>
    /\ UNCHANGED m_eventsWithContextEmpty

MovesPosted ==
    /\ ~m_eventsWithContextEmpty
    /\ m_events' = m_events \cup Moved
    /\ m_unscheduledEvents' = m_unscheduledEvents + Len(m_eventsWithContext)
    /\ m_uid' = UidAfter(Len(m_eventsWithContext))
    /\ made' = made + Len(m_eventsWithContext)
    /\ m_eventsWithContext' = << >>
    /\ m_eventsWithContextEmpty' = TRUE

ProcessEventsWithContext == SeesNothingPosted \/ MovesPosted

---------------------------------------------------------------------------
(* Run, on the main thread. *)

Run == /\ pc = "user"
       /\ pc' = "enter"
       /\ UNCHANGED <<queue, posted, clock, impls, m_destroyEvents, m_stop,
                      m_uid, made, ids, ran>>

(* ... the events posted before Run, then m_stop = false. *)
Enter == /\ pc = "enter"
         /\ ProcessEventsWithContext
         /\ m_stop' = FALSE
         /\ pc' = "loop"
         /\ UNCHANGED <<clock, impls, m_destroyEvents, ids, ran>>

(* ProcessOneEvent, up to the end of EventImpl::Invoke if Notify is not    *)
(* user code.                                                              *)
ProcessOneEvent ==
    /\ pc = "loop"
    /\ ~m_stop
    /\ \E next \in Earliest :
        /\ m_events' = m_events \ {next}
        /\ m_unscheduledEvents' = m_unscheduledEvents - 1
        /\ m_currentTs' = next.ts
        /\ m_currentUid' = next.uid
        /\ ran' = IF IsCancelled(next) THEN ran ELSE Append(ran, next)
        /\ m_stop' = (~IsCancelled(next) /\ next.impl \in stopEvents)
        /\ pc' = IF IsCancelled(next) \/ next.impl \in stopEvents
                 THEN "after" ELSE "callback"
    /\ UNCHANGED <<posted, impls, m_destroyEvents, m_uid, made, ids>>

(* The user's code for the event returns. *)
Notified == /\ pc = "callback"
            /\ pc' = "after"
            /\ UNCHANGED <<queue, posted, clock, impls, m_destroyEvents, m_stop,
                           m_uid, made, ids, ran>>

(* ... the rest of ProcessOneEvent. *)
AfterEvent == /\ pc = "after"
              /\ ProcessEventsWithContext
              /\ pc' = "loop"
              /\ UNCHANGED <<clock, impls, m_destroyEvents, m_stop, ids, ran>>

RunReturns == /\ pc = "loop"
              /\ m_events = {} \/ m_stop
              /\ pc' = "user"
              /\ UNCHANGED <<queue, posted, clock, impls, m_destroyEvents, m_stop,
                             m_uid, made, ids, ran>>

---------------------------------------------------------------------------
(* Simulator::Destroy: Destroy, then DoDispose. *)

Destroy == /\ pc = "user"
           /\ pc' = "destroy"
           /\ UNCHANGED <<queue, posted, clock, impls, m_destroyEvents, m_stop,
                          m_uid, made, ids, ran>>

DestroyOne ==
    /\ pc = "destroy"
    /\ m_destroyEvents # << >>
    /\ m_destroyEvents' = Tail(m_destroyEvents)
    /\ pc' = IF IsCancelled(Head(m_destroyEvents)) THEN pc ELSE "destroyCallback"
    /\ UNCHANGED <<queue, posted, clock, impls, m_stop, m_uid, made, ids, ran>>

DestroyNotified == /\ pc = "destroyCallback"
                   /\ pc' = "destroy"
                   /\ UNCHANGED <<queue, posted, clock, impls, m_destroyEvents,
                                  m_stop, m_uid, made, ids, ran>>

(* DoDispose moves the posted events first, then releases every event.     *)
DoDispose == /\ pc = "destroy"
             /\ m_destroyEvents = << >>
             /\ ProcessEventsWithContext
             /\ pc' = "dispose"
             /\ UNCHANGED <<clock, impls, m_destroyEvents, m_stop, ids, ran>>

ReleaseEvents == /\ pc = "dispose"
                 /\ m_events' = {}
                 /\ pc' = "disposed"
                 /\ UNCHANGED <<m_unscheduledEvents, posted, clock, impls,
                                m_destroyEvents, m_stop, m_uid, made, ids, ran>>

Disposed == pc = "disposed" /\ UNCHANGED vars

---------------------------------------------------------------------------

UserCall == \/ \E d \in Delays : \/ Schedule(d)
                                 \/ ScheduleWithContext(d)
                                 \/ StopLater(d)
            \/ StopNow
            \/ ScheduleDestroy
            \/ \E id \in ids : RemoveDestroy(id) \/ Remove(id) \/ Cancel(id)

MainThread == \/ Enter \/ ProcessOneEvent \/ Notified \/ AfterEvent \/ RunReturns
              \/ DestroyOne \/ DestroyNotified \/ DoDispose
              \/ ReleaseEvents

Next == \/ UserCall \/ MainThread \/ Run \/ Destroy \/ Disposed
        \/ \E d \in Delays : Post(d)

Spec == Init /\ [][Next]_vars

(* User code returns from events and the main thread keeps being scheduled. *)
(* A write to m_eventsWithContextEmpty becomes visible sooner or later, so  *)
(* a main thread that looks again and again takes what was posted.          *)
Fairness == /\ WF_vars(MainThread)
            /\ SF_vars(AfterEvent /\ MovesPosted)
            /\ SF_vars(Enter /\ MovesPosted)

FairSpec == Spec /\ Fairness

---------------------------------------------------------------------------
(* What the engine must keep. *)

TypeOK ==
    /\ m_events \subseteq Event
    /\ m_destroyEvents \in Seq(Event)
    /\ m_stop \in BOOLEAN
    /\ m_uid \in 0..UidMod-1
    /\ m_currentUid \in 0..UidMod-1
    /\ m_currentTs \in Nat
    /\ m_unscheduledEvents \in Int
    /\ m_eventsWithContext \in Seq(Nat)
    /\ m_eventsWithContextEmpty \in BOOLEAN
    /\ cancelled \subseteq Nat
    /\ stopEvents \subseteq Nat
    /\ pc \in {"user", "enter", "loop", "callback", "after",
               "destroy", "destroyCallback", "dispose", "disposed"}
    /\ made \in Nat
    /\ ids \subseteq Event
    /\ ran \in Seq(Event)

(* ProcessOneEvent's assertion never fails: no event in the scheduler is   *)
(* due before the clock, whichever thread it came from and however late    *)
(* its delay was added to the clock.                                       *)
NothingInThePast == \A e \in m_events : e.ts >= m_currentTs

(* m_unscheduledEvents counts the scheduler's events through every insert, *)
(* move, removal and run (the assertion at the end of Run relies on it).   *)
UnscheduledIsCount ==
    pc # "disposed" => m_unscheduledEvents = Cardinality(m_events)

(* An event that will still run when its turn comes. *)
IsPending(id) == /\ ~IsCancelled(id)
                 /\ \/ id \in m_events
                    \/ \E i \in 1..Len(m_destroyEvents) : m_destroyEvents[i] = id

(* IsExpired, computed from the clock and the uid alone, agrees with what  *)
(* is in the scheduler for every EventId the program ever got: FALSE while *)
(* the event is still to run (Cancel and Remove act then), TRUE as soon as *)
(* it runs, was cancelled, was removed (they do nothing then).             *)
ExpiredIsNotPending ==
    pc # "disposed" => \A id \in ids : IsExpired(id) <=> ~IsPending(id)

(* The flag that the main thread reads without the mutex never stays TRUE  *)
(* once something was posted.                                              *)
EmptyFlagIsTrue == m_eventsWithContextEmpty <=> m_eventsWithContext = << >>

(* An event posted by another thread reaches the scheduler if Run is       *)
(* called again and again (or the simulator is destroyed).                 *)
PostedIsMoved ==
    []<>(pc \in {"enter", "disposed"}) =>
        [](m_eventsWithContext # << >> =>
              <>(m_eventsWithContext = << >> \/ pc = "disposed"))

(* The engine keeps the promise of a sequential simulator: its clock, the  *)
(* events of the scheduler that are not cancelled, and what ran, move as   *)
(* SimulatorContract says.                                                 *)
Abstract(e) == [ts |-> e.ts, n |-> e.impl]
Pending == {Abstract(e) : e \in {x \in m_events : ~IsCancelled(x)}}
Log == [i \in 1..Len(ran) |-> Abstract(ran[i])]

Contract == INSTANCE SimulatorContract WITH
    now <- m_currentTs, accepted <- made, pending <- Pending, log <- Log

ImplementsContract == Contract!Spec

(* simulator.h: events whose expiration time is the same are run in FIFO   *)
(* order; no event runs twice.                                             *)
InOrder == Contract!RunsInOrder

=============================================================================
