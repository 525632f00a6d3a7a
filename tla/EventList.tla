----------------------------- MODULE EventList ------------------------------
(***************************************************************************)
(* The event list of a simulator: one scheduler of any type behind the     *)
(* interface Scheduler, and SetScheduler, which moves all events from one  *)
(* scheduler to another in the middle of a simulation.  The simulator      *)
(* inserts no event before the time of the last one it took out.  Events   *)
(* have distinct uids.                                                     *)
(***************************************************************************)
EXTENDS EventKey, Sequences, FiniteSets

CONSTANTS Types,     \* the types of scheduler the user chooses from
          Times,     \* the time stamps of events
          MaxEvents  \* bound: events inserted

ASSUME TypesAssumption == Types \subseteq {"list", "heap", "calendar"}
ASSUME BoundsAssumption == Times \subseteq Nat /\ MaxEvents \in Nat

VARIABLES type,        \* the type of the scheduler in use
          newType,     \* in SetScheduler: the type of the new one
          m_list, m_heap, calendar,
          now,         \* the clock of the simulator
          made,        \* events inserted so far
          pending,     \* history: the events inserted and not taken out
          removed      \* history: Remove took an event out of this heap

containers == <<m_list, m_heap, calendar>>
history == <<now, made, pending, removed>>
vars == <<type, newType, containers, history>>

List == INSTANCE ListScheduler
Heap == INSTANCE HeapScheduler
Calendar == INSTANCE CalendarScheduler

Init == /\ type \in Types
        /\ newType = type
        /\ m_list = List!Empty
        /\ m_heap = Heap!Empty
        /\ \E reverse \in BOOLEAN : calendar = Calendar!NewCalendar(reverse)
        /\ now = 0
        /\ made = 0
        /\ pending = {}
        /\ removed = FALSE

(* The schedulers whose type is not in used do not change. *)
Rest(used) == /\ IF "list" \in used THEN TRUE ELSE UNCHANGED m_list
              /\ IF "heap" \in used THEN TRUE ELSE UNCHANGED m_heap
              /\ IF "calendar" \in used THEN TRUE ELSE UNCHANGED calendar

(* The virtual functions of Scheduler. *)
Insert(t, ev) == \/ t = "list" /\ List!Insert(ev)
                 \/ t = "heap" /\ Heap!Insert(ev)
                 \/ t = "calendar" /\ Calendar!Insert(ev)

IsEmpty(t) == CASE t = "list" -> m_list = List!Empty
                [] t = "heap" -> m_heap = Heap!Empty
                [] t = "calendar" -> Calendar!IsEmpty

PeekNext(t) == CASE t = "list" -> List!PeekNext
                 [] t = "heap" -> Heap!PeekNext
                 [] t = "calendar" -> Calendar!PeekNext

RemoveNext(t) == \/ t = "list" /\ List!RemoveNext
                 \/ t = "heap" /\ Heap!RemoveNext
                 \/ t = "calendar" /\ Calendar!RemoveNext

Remove(t, ev) == \/ t = "list" /\ List!Remove(ev)
                 \/ t = "heap" /\ Heap!Remove(ev)
                 \/ t = "calendar" /\ Calendar!Remove(ev)

---------------------------------------------------------------------------
(* What the simulator does with its event list. *)

Schedule(ts) ==
    LET ev == [ts |-> ts, uid |-> made + 1]
    IN  /\ newType = type
        /\ made < MaxEvents
        /\ ts >= now
        /\ Insert(type, ev) /\ Rest({type})
        /\ made' = made + 1
        /\ pending' = pending \cup {ev}
        /\ UNCHANGED <<type, newType, now, removed>>

ProcessOneEvent ==
    /\ newType = type
    /\ ~IsEmpty(type)
    /\ RemoveNext(type) /\ Rest({type})
    /\ now' = PeekNext(type).ts
    /\ pending' = pending \ {PeekNext(type)}
    /\ removed' = (removed /\ pending' # {})
    /\ UNCHANGED <<type, newType, made>>

RemoveEvent(ev) ==
    /\ newType = type
    /\ Remove(type, ev) /\ Rest({type})
    /\ pending' = pending \ {ev}
    /\ removed' = (pending' # {})
    /\ UNCHANGED <<type, newType, now, made>>

(* SetScheduler creates the new scheduler, ... *)
SetScheduler(t) ==
    /\ newType = type
    /\ t # type
    /\ newType' = t
    /\ \E reverse \in BOOLEAN :
          calendar' = IF t = "calendar" THEN Calendar!NewCalendar(reverse)
                                        ELSE calendar
    /\ UNCHANGED <<type, m_list, m_heap, history>>

(* ... moves the events to it one by one, ... *)
MoveOne == /\ newType # type
           /\ ~IsEmpty(type)
           /\ RemoveNext(type)
           /\ Insert(newType, PeekNext(type))
           /\ Rest({type, newType})
           /\ UNCHANGED <<type, newType, history>>

(* ... and drops the old one. *)
Switch == /\ newType # type
          /\ IsEmpty(type)
          /\ type' = newType
          /\ removed' = FALSE
          /\ UNCHANGED <<newType, containers, now, made, pending>>

Next == \/ \E ts \in Times : Schedule(ts)
        \/ ProcessOneEvent
        \/ \E ev \in pending : RemoveEvent(ev)
        \/ \E t \in Types : SetScheduler(t)
        \/ MoveOne
        \/ Switch
        \/ made = MaxEvents /\ pending = {} /\ UNCHANGED vars

Spec == Init /\ [][Next]_vars

---------------------------------------------------------------------------

(* Every place of a container, and the event in it. *)
Places == {<<"list", 0>>} \X (1..Len(m_list))
          \cup {<<"heap", 0>>} \X (1..Len(m_heap))
          \cup UNION {{<<"calendar", i>>} \X (1..Len(calendar.m_buckets[i])) :
                          i \in 0..calendar.m_nBuckets-1}

Held(place) == CASE place[1][1] = "list" -> m_list[place[2]]
                 [] place[1][1] = "heap" -> m_heap[place[2]]
                 [] place[1][1] = "calendar" -> calendar.m_buckets[place[1][2]][place[2]]

(* No scheduler loses an event or holds one twice, whatever it does to its *)
(* heap, list or buckets on the way, and while SetScheduler moves them     *)
(* from one scheduler to another.                                          *)
NoEventLost == /\ {Held(p) : p \in Places} = pending
               /\ \A p, q \in Places : p # q => Held(p) # Held(q)

(* The earliest event comes next, after any sequence of calls and for      *)
(* every type of scheduler but a heap out of whose middle an event was     *)
(* taken by Remove.                                                        *)
EarliestUnlessRemoved ==
    newType = type /\ pending # {} /\ ~(type = "heap" /\ removed) =>
        PeekNext(type) = EarliestOf(pending)

(* scheduler.h: PeekNext and RemoveNext return the earliest event. *)
EarliestFirst ==
    newType = type /\ pending # {} => PeekNext(type) = EarliestOf(pending)

=============================================================================
