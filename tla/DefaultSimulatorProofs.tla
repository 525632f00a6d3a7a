----------------------- MODULE DefaultSimulatorProofs -----------------------
(***************************************************************************)
(* Proofs about DefaultSimulator for any delays and any number of events,  *)
(* as long as m_uid does not wrap around (NoWrap): after that an event     *)
(* could get a smaller uid than one scheduled before it.                   *)
(***************************************************************************)
EXTENDS DefaultSimulator, FiniteSetTheorems, SequenceTheorems, TLAPS

(* No more events are created than there are uids from VALID on. *)
NoWrap == VALID + MaxEvents < UidMod

(* The event would run at or before the clock: it is behind it. *)
Behind(e) == \/ e.ts < m_currentTs
             \/ e.ts = m_currentTs /\ e.uid <= m_currentUid

(* Uids are the creation numbers, shifted. *)
Numbered(e) == /\ e.impl \in 1..made
               /\ e.uid = VALID + e.impl - 1

UidInv == /\ m_uid = VALID + made
          /\ made + Len(m_eventsWithContext) <= MaxEvents
          /\ m_currentUid < VALID + made

QueueInv == /\ \A e \in m_events : Numbered(e) /\ ~Behind(e)
            /\ \A e, f \in m_events : e.impl = f.impl => e = f

DestroyInv == m_destroyEvents \in Seq([ts : Nat, uid : {DESTROY}, impl : Nat])

IdsInv == \A id \in ids :
            id.uid # DESTROY => \/ IsCancelled(id)
                                \/ Behind(id)
                                \/ id \in m_events
                                \/ pc = "disposed"

RanInv == /\ \A i \in 1..Len(ran) : Numbered(ran[i]) /\ Behind(ran[i])
          /\ \A i, j \in 1..Len(ran) : i < j => KeyLess(ran[i], ran[j])

IInv == TypeOK /\ UidInv /\ QueueInv /\ DestroyInv /\ IdsInv /\ RanInv

---------------------------------------------------------------------------

LEMMA ModSmall ==
    ASSUME NEW m \in Nat \ {0}, NEW a \in Nat, a < m
    PROVE  a % m = a
OBVIOUS

LEMMA InitInv == ASSUME NoWrap PROVE Init => IInv
<1>1. VALID \in Nat /\ VALID < UidMod
  BY BoundsAssumption DEF NoWrap, VALID
<1>2. VALID % UidMod = VALID
  BY <1>1, BoundsAssumption, ModSmall
<1>3. SUFFICES ASSUME Init PROVE IInv
  OBVIOUS
<1>4. TypeOK
  <2>1. m_uid \in 0..UidMod-1 /\ m_currentUid \in 0..UidMod-1
    BY <1>1, <1>2, <1>3, BoundsAssumption DEF Init, INVALID
  <2>2. /\ m_destroyEvents \in Seq(Event)
        /\ m_eventsWithContext \in Seq(Nat)
        /\ ran \in Seq(Event)
    BY <1>3 DEF Init
  <2>3. /\ m_events \subseteq Event /\ ids \subseteq Event
        /\ cancelled \subseteq Nat /\ stopEvents \subseteq Nat
    BY <1>3 DEF Init
  <2>4. /\ m_currentTs \in Nat /\ m_unscheduledEvents \in Int /\ made \in Nat
    BY <1>3 DEF Init
  <2>5. /\ m_stop \in BOOLEAN /\ m_eventsWithContextEmpty \in BOOLEAN
    BY <1>3 DEF Init
  <2> QED BY <1>3, <2>1, <2>2, <2>3, <2>4, <2>5 DEF Init, TypeOK
<1>5. UidInv
  BY <1>2, <1>3, BoundsAssumption DEF Init, UidInv, INVALID, VALID
<1>6. QueueInv /\ DestroyInv /\ IdsInv /\ RanInv
  BY <1>3 DEF Init, QueueInv, DestroyInv, IdsInv, RanInv
<1> QED BY <1>4, <1>5, <1>6 DEF IInv

(* The uids stay below UidMod, so m_uid++ does not wrap. *)
LEMMA UidAfterIsSum ==
    ASSUME NoWrap, TypeOK, UidInv, NEW n \in Nat, made + n <= MaxEvents
    PROVE  /\ UidAfter(n) = VALID + made + n
           /\ UidAfter(n) \in 0..UidMod-1
<1>1. m_uid + n = VALID + made + n /\ m_uid + n \in Nat /\ m_uid + n < UidMod
  BY BoundsAssumption DEF NoWrap, TypeOK, UidInv, VALID
<1>2. (m_uid + n) % UidMod = m_uid + n
  BY <1>1, BoundsAssumption, ModSmall
<1> QED BY <1>1, <1>2, BoundsAssumption DEF UidAfter

(* What is known of the events that ran stays so when more are created. *)
LEMMA RanInvKept ==
    ASSUME TypeOK, RanInv, ran' = ran, m_currentTs' = m_currentTs,
           m_currentUid' = m_currentUid, made' \in Nat, made <= made'
    PROVE  RanInv'
<1>1. ASSUME NEW i \in 1..Len(ran) PROVE Numbered(ran[i])' /\ Behind(ran[i])'
  <2>1. Numbered(ran[i]) /\ Behind(ran[i])
    BY <1>1 DEF RanInv
  <2>2. ran'[i] = ran[i]
    OBVIOUS
  <2>3. ran[i].impl \in 1..made' /\ ran[i].uid = VALID + ran[i].impl - 1
    BY <2>1 DEF Numbered, TypeOK
  <2> QED BY <2>1, <2>2, <2>3 DEF Numbered, Behind
<1>2. \A i, j \in 1..Len(ran) : i < j => KeyLess(ran[i], ran[j])
  BY DEF RanInv
<1> QED BY <1>1, <1>2 DEF RanInv

(* Every operation that schedules on the main thread. *)
LEMMA InsertNewStep ==
    ASSUME NoWrap, IInv, NEW delay \in Delays, InsertNew(delay),
           ids' = ids \/ ids' = ids \cup {NewEvent(delay)},
           stopEvents' \subseteq Nat
    PROVE  IInv'
<1> USE DEF IInv
<1>0. PICK new : new = NewEvent(delay)
  OBVIOUS
<1>1. /\ new.ts \in Nat /\ new.ts >= m_currentTs
      /\ new.uid = VALID + made /\ new.impl = made + 1
      /\ new \in Event
  BY <1>0, DelaysAssumption DEF NewEvent, TypeOK, UidInv, Event
<1>2. made' = made + 1 /\ m_uid' = VALID + made' /\ m_uid' \in 0..UidMod-1
      /\ made + 1 + Len(m_eventsWithContext) <= MaxEvents
  <2>1. made + 1 + Len(m_eventsWithContext) <= MaxEvents
    BY BoundsAssumption DEF InsertNew, TypeOK
  <2>2. made + 1 <= MaxEvents
    BY <2>1, BoundsAssumption DEF TypeOK
  <2> QED BY <2>1, <2>2, UidAfterIsSum, 1 \in Nat DEF InsertNew, TypeOK, VALID
<1>3. TypeOK'
  BY <1>0, <1>1, <1>2 DEF InsertNew, TypeOK, posted, clock
<1>4. UidInv'
  BY <1>2 DEF InsertNew, UidInv, posted, clock, TypeOK, VALID
<1>5. QueueInv'
  <2>1. ASSUME NEW e \in m_events
        PROVE  Numbered(e)' /\ ~Behind(e)' /\ e.impl # new.impl
    <3>1. Numbered(e) /\ ~Behind(e) /\ made \in Nat
      BY DEF QueueInv, TypeOK
    <3>2. ~Behind(e)'
      BY <3>1 DEF Behind, InsertNew, clock
    <3> HIDE DEF IInv
    <3> QED BY <1>1, <1>2, <3>1, <3>2 DEF Numbered
  <2>2. Numbered(new)' /\ ~Behind(new)'
    BY <1>1, <1>2 DEF Numbered, Behind, InsertNew, clock, TypeOK, UidInv
  <2> QED BY <1>0, <2>1, <2>2 DEF QueueInv, InsertNew
<1>6. DestroyInv'
  BY DEF DestroyInv, InsertNew
<1>7. IdsInv'
  BY <1>0 DEF IdsInv, InsertNew, Behind, IsCancelled, clock
<1>8. RanInv'
  <2>1. made \in Nat /\ made' \in Nat /\ made <= made'
    BY <1>2 DEF TypeOK
  <2>2. UNCHANGED <<ran, m_currentTs, m_currentUid>>
    BY DEF InsertNew, clock
  <2> QED BY <2>1, <2>2, RanInvKept
<1> QED BY <1>3, <1>4, <1>5, <1>6, <1>7, <1>8

(* A call of ProcessEventsWithContext, wherever the main thread makes it. *)
LEMMA ProcessStep ==
    ASSUME NoWrap, IInv, ProcessEventsWithContext,
           UNCHANGED <<clock, impls, m_destroyEvents, ids, ran>>,
           m_stop' \in BOOLEAN, pc # "disposed",
           pc' \in {"loop", "dispose"}
    PROVE  IInv'
<1> USE DEF IInv
<1>1. CASE SeesNothingPosted
  <2> USE <1>1 DEF SeesNothingPosted, queue, posted, clock, impls
  <2>1. TypeOK' /\ UidInv' BY DEF TypeOK, UidInv
  <2>2. QueueInv' /\ DestroyInv' BY DEF QueueInv, DestroyInv, Numbered, Behind
  <2>3. IdsInv' BY DEF IdsInv, Behind, IsCancelled
  <2>4. RanInv' BY DEF RanInv, Numbered, Behind
  <2> QED BY <2>1, <2>2, <2>3, <2>4
<1>2. CASE MovesPosted
  <2> DEFINE n == Len(m_eventsWithContext)
  <2>1. n \in Nat /\ made + n <= MaxEvents
    BY DEF TypeOK, UidInv
  <2>2. made' = made + n /\ m_uid' = VALID + made' /\ m_uid' \in 0..UidMod-1
    BY <1>2, <2>1, UidAfterIsSum DEF MovesPosted, TypeOK, VALID
  <2>3. \A e \in Moved : /\ e \in Event
                        /\ e.ts >= m_currentTs
                        /\ e.uid = VALID + e.impl - 1
                        /\ e.impl \in made+1 .. made+n
    <3>1. SUFFICES ASSUME NEW i \in 1..n,
                          NEW e, e = [ts |-> m_currentTs + m_eventsWithContext[i],
                                      uid |-> UidAfter(i - 1),
                                      impl |-> made + i]
                   PROVE  /\ e \in Event
                          /\ e.ts >= m_currentTs
                          /\ e.uid = VALID + e.impl - 1
                          /\ e.impl \in made+1 .. made+n
      BY DEF Moved
    <3>2. m_eventsWithContext[i] \in Nat BY DEF TypeOK
    <3>3. i - 1 \in Nat /\ made + (i - 1) <= MaxEvents
      BY <2>1, BoundsAssumption DEF TypeOK
    <3>4. UidAfter(i - 1) = VALID + made + (i - 1) /\ UidAfter(i - 1) \in 0..UidMod-1
      BY <3>3, UidAfterIsSum
    <3>5. e.impl = made + i /\ e.impl \in Nat /\ e.impl \in made+1 .. made+n
      BY <3>1, <2>1 DEF TypeOK
    <3>6. e.uid = VALID + e.impl - 1 /\ e.uid \in 0..UidMod-1
      BY <3>1, <3>4, <3>5 DEF TypeOK, VALID
    <3>7. e.ts \in Nat /\ e.ts >= m_currentTs
      <4>1. m_currentTs \in Nat
        BY DEF TypeOK
      <4> HIDE DEF IInv, n
      <4> QED BY <3>1, <3>2, <4>1
    <3>8. e \in Event
      <4> HIDE DEF IInv
      <4>1. e = [ts |-> e.ts, uid |-> e.uid, impl |-> e.impl]
        BY <3>1
      <4> QED BY <4>1, <3>5, <3>6, <3>7 DEF Event
    <3> QED BY <3>5, <3>6, <3>7, <3>8
  <2>4. \A e, f \in Moved : e.impl = f.impl => e = f
    <3>1. SUFFICES ASSUME NEW i \in 1..n, NEW j \in 1..n, made + i = made + j
                   PROVE  i = j
      BY DEF Moved
    <3> QED BY <3>1, <2>1 DEF TypeOK
  <2>5. TypeOK'
    BY <1>2, <2>2, <2>3, <2>1 DEF TypeOK, MovesPosted, clock, impls
  <2>6. UidInv'
    BY <1>2, <2>2, <2>1 DEF UidInv, MovesPosted, clock, TypeOK, VALID
  <2>7. QueueInv'
    <3>1. \A e \in m_events : Numbered(e)' /\ ~Behind(e)' /\ e.impl <= made
      BY <2>1, <2>2 DEF QueueInv, Numbered, Behind, clock, TypeOK
    <3>2. \A e \in Moved : Numbered(e)' /\ ~Behind(e)' /\ e.impl > made
      <4>1. SUFFICES ASSUME NEW e \in Moved
                     PROVE  Numbered(e)' /\ ~Behind(e)' /\ e.impl > made
        OBVIOUS
      <4>2. /\ e.ts \in Nat /\ e.ts >= m_currentTs
            /\ e.uid = VALID + e.impl - 1
            /\ e.impl \in Nat /\ e.impl > made /\ e.impl <= made + n
        <5>1. /\ e \in Event /\ e.ts >= m_currentTs
              /\ e.uid = VALID + e.impl - 1
              /\ e.impl \in made+1 .. made+n
          BY <2>3, <4>1
        <5>2. e.ts \in Nat /\ e.impl \in Nat
          BY <5>1 DEF Event
        <5>3. made \in Nat
          BY DEF TypeOK
        <5> HIDE DEF IInv, n
        <5> QED BY <5>1, <5>2, <5>3, <2>1
      <4>3. e.uid \in Int /\ e.uid > m_currentUid
        <5>1. made \in Nat /\ m_currentUid \in Int
          BY DEF TypeOK
        <5>2. m_currentUid < VALID + made
          BY DEF UidInv
        <5> HIDE DEF IInv, n
        <5> QED BY <4>2, <5>1, <5>2 DEF VALID
      <4>4. Numbered(e)'
        <5>1. made \in Nat
          BY DEF TypeOK
        <5> HIDE DEF IInv, n
        <5> QED BY <4>2, <5>1, <2>1, <2>2 DEF Numbered
      <4>5. ~Behind(e)'
        <5>1. m_currentTs \in Nat /\ m_currentUid \in Int
          BY DEF TypeOK
        <5> HIDE DEF IInv, n
        <5> QED BY <4>2, <4>3, <5>1 DEF Behind, clock
      <4> QED BY <4>2, <4>4, <4>5
    <3>3. \A e \in m_events : e.impl \in Nat BY DEF TypeOK, Event
    <3>4. \A e \in Moved : e.impl \in Nat BY <2>3 DEF Event
    <3>5. \A e \in m_events : \A f \in Moved : e.impl # f.impl
      BY <3>1, <3>2, <3>3, <3>4 DEF TypeOK
    <3> QED BY <1>2, <3>1, <3>2, <3>5, <2>4 DEF QueueInv, MovesPosted
  <2>8. DestroyInv' BY DEF DestroyInv
  <2>9. IdsInv'
    BY <1>2 DEF IdsInv, MovesPosted, Behind, IsCancelled, clock, impls
  <2>10. RanInv'
    <3>1. made \in Nat /\ made' \in Nat /\ made <= made'
      BY <2>1, <2>2 DEF TypeOK
    <3>2. UNCHANGED <<ran, m_currentTs, m_currentUid>>
      BY DEF clock
    <3> QED BY <3>1, <3>2, RanInvKept
  <2> QED BY <2>5, <2>6, <2>7, <2>8, <2>9, <2>10
<1> QED BY <1>1, <1>2 DEF ProcessEventsWithContext

(* ProcessOneEvent: the earliest event is strictly ahead of the clock, and  *)
(* the clock moves exactly to it.                                          *)
LEMMA ProcessOneEventStep == ASSUME IInv, ProcessOneEvent PROVE IInv'
<1> USE DEF IInv
<1>1. PICK next \in m_events :
        /\ \A f \in m_events : ~KeyLess(f, next)
        /\ m_events' = m_events \ {next}
        /\ m_currentTs' = next.ts /\ m_currentUid' = next.uid
        /\ m_unscheduledEvents' = m_unscheduledEvents - 1
        /\ ran' = IF IsCancelled(next) THEN ran ELSE Append(ran, next)
        /\ m_stop' = (~IsCancelled(next) /\ next.impl \in stopEvents)
        /\ pc' = IF IsCancelled(next) \/ next.impl \in stopEvents
                 THEN "after" ELSE "callback"
  BY DEF ProcessOneEvent, Earliest
<1>2. UNCHANGED <<m_eventsWithContext, m_eventsWithContextEmpty, cancelled,
                  stopEvents, m_destroyEvents, m_uid, made, ids>>
  BY DEF ProcessOneEvent, posted, impls
<1>3. /\ next \in Event /\ next.ts \in Nat /\ next.uid \in 0..UidMod-1
      /\ next.impl \in Nat /\ next.uid \in Int
      /\ Numbered(next) /\ ~Behind(next)
  BY BoundsAssumption DEF TypeOK, QueueInv, Event
<1>4. ran' \in Seq(Event)
  BY <1>1, <1>3 DEF TypeOK
<1>5. TypeOK'
  BY <1>1, <1>2, <1>3, <1>4 DEF TypeOK
<1>6. UidInv'
  BY <1>1, <1>2, <1>3 DEF UidInv, Numbered, TypeOK, VALID
<1>7. \A e : e.ts \in Nat /\ e.uid \in Int /\ Behind(e) => Behind(e)'
  <2>1. /\ m_currentTs \in Nat /\ m_currentUid \in Int
        /\ m_currentTs' \in Nat /\ m_currentUid' \in Int
    BY <1>1, <1>3 DEF TypeOK
  <2>2. \/ m_currentTs < m_currentTs'
        \/ m_currentTs = m_currentTs' /\ m_currentUid <= m_currentUid'
    BY <1>1, <1>3, <2>1 DEF Behind
  <2> HIDE DEF IInv
  <2> QED BY <2>1, <2>2 DEF Behind
<1>8. QueueInv'
  <2>1. \A e \in m_events : Numbered(e)'
    BY <1>2 DEF QueueInv, Numbered
  <2>2. ASSUME NEW e \in m_events, e # next PROVE ~Behind(e)'
    <3>1. e.ts \in Nat /\ e.uid \in Int /\ e.impl \in Nat
      BY <2>2, BoundsAssumption DEF TypeOK, Event
    <3>2. e.impl # next.impl
      BY <2>2 DEF QueueInv
    <3>3. e.uid # next.uid
      BY <2>2, <3>1, <3>2, <1>3 DEF QueueInv, Numbered, VALID
    <3>4. ~KeyLess(e, next)
      BY <1>1, <2>2
    <3> QED BY <1>1, <1>3, <3>1, <3>3, <3>4 DEF Behind, KeyLess
  <2> QED BY <1>1, <2>1, <2>2 DEF QueueInv
<1>9. DestroyInv' BY <1>2 DEF DestroyInv
<1>10. Behind(next)'
  BY <1>1, <1>3 DEF Behind
<1>11. IdsInv'
  <2>1. \A id \in ids : id.ts \in Nat /\ id.uid \in Int
    BY BoundsAssumption DEF TypeOK, Event
  <2>2. pc # "disposed" BY DEF ProcessOneEvent
  <2> QED BY <1>1, <1>2, <1>7, <1>10, <2>1, <2>2 DEF IdsInv, IsCancelled
<1>12. RanInv'
  <2>1. PICK old : old = ran OBVIOUS
  <2>2. PICK new : new = ran' OBVIOUS
  <2>3. /\ old \in Seq(Event)
        /\ \A i \in 1..Len(old) : Numbered(old[i]) /\ Behind(old[i])
        /\ \A i, j \in 1..Len(old) : i < j => KeyLess(old[i], old[j])
    BY <2>1 DEF TypeOK, RanInv
  <2>4. ASSUME NEW i \in 1..Len(old)
        PROVE  /\ old[i].ts \in Nat /\ old[i].uid \in Int
               /\ Numbered(old[i])' /\ Behind(old[i])'
               /\ KeyLess(old[i], next)
    <3>1. old[i] \in Event BY <2>3
    <3>2. old[i].ts \in Nat /\ old[i].uid \in Int
      BY <3>1, BoundsAssumption DEF Event
    <3>3. Numbered(old[i])' BY <1>2, <2>3 DEF Numbered
    <3>4. Behind(old[i])' BY <1>7, <2>3, <3>2
    <3>5. KeyLess(old[i], next)
      <4>1. m_currentTs \in Int /\ m_currentUid \in Int
        BY BoundsAssumption DEF TypeOK
      <4>2. Behind(old[i]) /\ ~Behind(next) /\ next.ts \in Int /\ next.uid \in Int
        BY <1>3, <2>3
      <4> QED BY <3>2, <4>1, <4>2 DEF Behind, KeyLess
    <3> QED BY <3>2, <3>3, <3>4, <3>5
  <2>5. CASE IsCancelled(next)
    <3>1. new = old BY <1>1, <2>1, <2>2, <2>5
    <3>2. /\ \A i \in 1..Len(new) : Numbered(new[i])' /\ Behind(new[i])'
          /\ \A i, j \in 1..Len(new) : i < j => KeyLess(new[i], new[j])
      BY <3>1, <2>3, <2>4
    <3> QED BY <3>2, <2>2 DEF RanInv
  <2>6. CASE ~IsCancelled(next)
    <3>1. new = Append(old, next) BY <1>1, <2>1, <2>2, <2>6
    <3>2. /\ Len(new) = Len(old) + 1 /\ Len(old) \in Nat
          /\ \A i \in 1..Len(old) : new[i] = old[i]
          /\ new[Len(old) + 1] = next
      BY <3>1, <2>3, <1>3
    <3>3. Numbered(next)' BY <1>2, <1>3 DEF Numbered
    <3>4. \A i \in 1..Len(new) : i \in 1..Len(old) \/ i = Len(old) + 1
      BY <3>2
    <3>5. ASSUME NEW i \in 1..Len(new) PROVE Numbered(new[i])' /\ Behind(new[i])'
      <4>1. CASE i \in 1..Len(old) BY <4>1, <3>2, <2>4
      <4>2. CASE i = Len(old) + 1 BY <4>2, <3>2, <3>3, <1>10
      <4> QED BY <4>1, <4>2, <3>4
    <3>6. ASSUME NEW i \in 1..Len(new), NEW j \in 1..Len(new), i < j
          PROVE  KeyLess(new[i], new[j])
      <4>1. i \in 1..Len(old) BY <3>6, <3>2
      <4>2. CASE j \in 1..Len(old) BY <3>6, <4>1, <4>2, <3>2, <2>3
      <4>3. CASE j = Len(old) + 1 BY <4>1, <4>3, <3>2, <2>4
      <4> QED BY <4>2, <4>3, <3>4
    <3> QED BY <3>5, <3>6, <2>2 DEF RanInv
  <2> QED BY <2>5, <2>6
<1> QED BY <1>5, <1>6, <1>8, <1>9, <1>11, <1>12

LEMMA ElementsOf ==
    ASSUME NEW S, NEW list \in Seq(S)
    PROVE  \A i \in 1..Len(list) : list[i] \in S
OBVIOUS

(* Erasing one element of a list. *)
LEMMA WithoutType ==
    ASSUME NEW S, NEW list \in Seq(S), NEW i \in 1..Len(list)
    PROVE  SubSeq(list, 1, i - 1) \o SubSeq(list, i + 1, Len(list)) \in Seq(S)
<1>1. Len(list) \in Nat OBVIOUS
<1>2. \A j \in 1..Len(list) : list[j] \in S OBVIOUS
<1>3. SubSeq(list, 1, i - 1) \in Seq(S) BY <1>1, <1>2
<1>4. SubSeq(list, i + 1, Len(list)) \in Seq(S) BY <1>1, <1>2
<1> QED BY <1>3, <1>4

(* The other steps leave the clock, the events that ran and all but what    *)
(* is named in them alone.                                                 *)
LEMMA NextStep == ASSUME NoWrap, IInv, [Next]_vars PROVE IInv'
<1> USE DEF IInv
<1>1. ASSUME NEW d \in Delays, Schedule(d) PROVE IInv'
  <2>1. stopEvents' \subseteq Nat BY <1>1 DEF Schedule, TypeOK
  <2> QED BY <1>1, <2>1, InsertNewStep DEF Schedule
<1>2. ASSUME NEW d \in Delays, ScheduleWithContext(d) PROVE IInv'
  <2>1. stopEvents' \subseteq Nat BY <1>2 DEF ScheduleWithContext, TypeOK
  <2> QED BY <1>2, <2>1, InsertNewStep DEF ScheduleWithContext
<1>3. ASSUME NEW d \in Delays, StopLater(d) PROVE IInv'
  <2>1. stopEvents' \subseteq Nat BY <1>3 DEF StopLater, TypeOK
  <2> QED BY <1>3, <2>1, InsertNewStep DEF StopLater
<1>4. CASE StopNow
  <2> USE <1>4 DEF StopNow, queue, posted, clock, impls
  <2>1. TypeOK' /\ UidInv' BY DEF TypeOK, UidInv
  <2>2. QueueInv' /\ DestroyInv' BY DEF QueueInv, DestroyInv, Numbered, Behind
  <2>3. IdsInv' /\ RanInv' BY DEF IdsInv, RanInv, Numbered, Behind, IsCancelled
  <2> QED BY <2>1, <2>2, <2>3
<1>5. CASE ScheduleDestroy
  <2>1. PICK id : id = [ts |-> m_currentTs, uid |-> DESTROY, impl |-> made + 1]
    OBVIOUS
  <2>2. /\ id \in Event /\ id.uid = DESTROY
        /\ id \in [ts : Nat, uid : {DESTROY}, impl : Nat]
    BY <2>1, BoundsAssumption DEF Event, TypeOK, NoWrap, DESTROY, VALID
  <2>3. /\ m_destroyEvents' = Append(m_destroyEvents, id)
        /\ m_uid' = UidAfter(1) /\ made' = made + 1 /\ ids' = ids \cup {id}
        /\ UNCHANGED <<queue, posted, clock, impls, m_stop, pc, ran>>
        /\ made + Len(m_eventsWithContext) < MaxEvents
    BY <1>5, <2>1 DEF ScheduleDestroy
  <2>4. made + 1 + Len(m_eventsWithContext) <= MaxEvents /\ made + 1 <= MaxEvents
    BY <2>3, BoundsAssumption DEF TypeOK
  <2>5. m_uid' = VALID + made' /\ m_uid' \in 0..UidMod-1
    BY <2>3, <2>4, UidAfterIsSum, 1 \in Nat DEF TypeOK, VALID
  <2>6. TypeOK'
    BY <2>2, <2>3, <2>5 DEF TypeOK, queue, posted, clock, impls
  <2>7. UidInv'
    BY <2>3, <2>4, <2>5 DEF UidInv, TypeOK, posted, clock, VALID
  <2>8. QueueInv'
    BY <2>3 DEF QueueInv, Numbered, Behind, queue, clock, TypeOK
  <2>9. DestroyInv'
    BY <2>2, <2>3 DEF DestroyInv
  <2>10. IdsInv'
    BY <2>2, <2>3 DEF IdsInv, Behind, IsCancelled, queue, clock, impls
  <2>11. RanInv'
    BY <2>3 DEF RanInv, Numbered, Behind, clock, TypeOK
  <2> QED BY <2>6, <2>7, <2>8, <2>9, <2>10, <2>11
<1>6. ASSUME NEW id \in ids, Remove(id) PROVE IInv'
  <2> USE <1>6 DEF Remove, posted, clock
  <2>1. id.impl \in Nat BY DEF TypeOK, Event
  <2>2. TypeOK'
    <3>1. cancelled' \subseteq Nat BY <2>1 DEF TypeOK
    <3>2. m_events' \subseteq Event /\ m_unscheduledEvents' \in Int BY DEF TypeOK
    <3> QED BY <3>1, <3>2 DEF TypeOK
  <2>3. UidInv' /\ DestroyInv' BY DEF UidInv, DestroyInv
  <2>4. QueueInv' BY DEF QueueInv, Numbered, Behind
  <2>5. IdsInv' BY DEF IdsInv, Behind, IsCancelled
  <2>6. RanInv' BY DEF RanInv, Numbered, Behind
  <2> QED BY <2>2, <2>3, <2>4, <2>5, <2>6
<1>17. ASSUME NEW id \in ids, RemoveDestroy(id) PROVE IInv'
  <2>1. PICK i \in 1..Len(m_destroyEvents) :
          m_destroyEvents' = SubSeq(m_destroyEvents, 1, i - 1) \o
                             SubSeq(m_destroyEvents, i + 1, Len(m_destroyEvents))
    BY <1>17 DEF RemoveDestroy
  <2>2. m_destroyEvents' \in Seq(Event)
    BY <2>1, WithoutType DEF TypeOK
  <2>3. DestroyInv'
    BY <2>1, WithoutType DEF DestroyInv
  <2> USE <1>17 DEF RemoveDestroy, queue, posted, clock, impls
  <2>4. TypeOK' /\ UidInv' BY <2>2 DEF TypeOK, UidInv
  <2>5. QueueInv' BY DEF QueueInv, Numbered, Behind
  <2>6. IdsInv' /\ RanInv' BY DEF IdsInv, RanInv, Numbered, Behind, IsCancelled
  <2> QED BY <2>3, <2>4, <2>5, <2>6
<1>7. ASSUME NEW id \in ids, Cancel(id) PROVE IInv'
  <2> USE <1>7 DEF Cancel, queue, posted, clock
  <2>1. TypeOK' /\ UidInv' BY DEF TypeOK, UidInv, Event
  <2>2. QueueInv' /\ DestroyInv' BY DEF QueueInv, DestroyInv, Numbered, Behind
  <2>3. IdsInv' /\ RanInv' BY DEF IdsInv, RanInv, Numbered, Behind, IsCancelled
  <2> QED BY <2>1, <2>2, <2>3
<1>8. CASE Enter
  BY <1>8, ProcessStep DEF Enter
<1>9. CASE ProcessOneEvent
  BY <1>9, ProcessOneEventStep
<1>10. CASE Notified \/ RunReturns \/ Run \/ Destroy \/ DestroyNotified
  <2>1. /\ UNCHANGED <<queue, posted, clock, impls, m_destroyEvents, m_stop,
                       m_uid, made, ids, ran>>
        /\ pc # "disposed" /\ pc' \in {"after", "user", "enter", "destroy"}
    BY <1>10 DEF Notified, RunReturns, Run, Destroy, DestroyNotified
  <2> USE <2>1 DEF queue, posted, clock, impls
  <2>2. TypeOK' /\ UidInv' BY DEF TypeOK, UidInv
  <2>3. QueueInv' /\ DestroyInv' BY DEF QueueInv, DestroyInv, Numbered, Behind
  <2>4. IdsInv' /\ RanInv' BY DEF IdsInv, RanInv, Numbered, Behind, IsCancelled
  <2> QED BY <2>2, <2>3, <2>4
<1>11. CASE AfterEvent
  <2>1. m_stop' \in BOOLEAN BY <1>11 DEF AfterEvent, TypeOK
  <2> QED BY <1>11, <2>1, ProcessStep DEF AfterEvent
<1>12. CASE DestroyOne
  <2>1. /\ m_destroyEvents # << >> /\ m_destroyEvents' = Tail(m_destroyEvents)
        /\ UNCHANGED <<queue, posted, clock, impls, m_stop, m_uid, made, ids, ran>>
        /\ pc # "disposed" /\ pc' \in {"destroy", "destroyCallback"}
    BY <1>12 DEF DestroyOne
  <2>2. m_destroyEvents' \in Seq(Event) /\ DestroyInv'
    BY <2>1 DEF DestroyInv, TypeOK
  <2> USE <2>1 DEF queue, posted, clock, impls
  <2>3. TypeOK' BY <2>2 DEF TypeOK
  <2>4. UidInv' /\ QueueInv' BY DEF UidInv, QueueInv, Numbered, Behind
  <2>5. IdsInv' /\ RanInv' BY DEF IdsInv, RanInv, Numbered, Behind, IsCancelled
  <2> QED BY <2>2, <2>3, <2>4, <2>5
<1>13. CASE DoDispose
  <2>1. m_stop' \in BOOLEAN BY <1>13 DEF DoDispose, TypeOK
  <2> QED BY <1>13, <2>1, ProcessStep DEF DoDispose
<1>14. CASE ReleaseEvents
  <2> USE <1>14 DEF ReleaseEvents, posted, clock, impls
  <2>1. TypeOK' /\ UidInv' BY DEF TypeOK, UidInv
  <2>2. QueueInv' /\ DestroyInv' BY DEF QueueInv, DestroyInv
  <2>3. IdsInv' /\ RanInv' BY DEF IdsInv, RanInv, Numbered, Behind
  <2> QED BY <2>1, <2>2, <2>3
<1>15. ASSUME NEW d \in Delays, Post(d) PROVE IInv'
  <2> USE <1>15 DEF Post, queue, clock, impls
  <2>1. /\ m_eventsWithContext' \in Seq(Nat)
        /\ Len(m_eventsWithContext') = Len(m_eventsWithContext) + 1
        /\ Len(m_eventsWithContext) \in Nat
    BY DelaysAssumption DEF TypeOK
  <2>2. TypeOK' BY <2>1 DEF TypeOK
  <2>3. UidInv' BY <2>1, BoundsAssumption DEF UidInv, TypeOK
  <2>4. QueueInv' /\ DestroyInv' BY DEF QueueInv, DestroyInv, Numbered, Behind
  <2>5. IdsInv' /\ RanInv' BY DEF IdsInv, RanInv, Numbered, Behind, IsCancelled
  <2> QED BY <2>2, <2>3, <2>4, <2>5
<1>16. CASE UNCHANGED vars
  <2> USE <1>16 DEF vars, queue, posted, clock, impls
  <2>1. TypeOK' /\ UidInv' BY DEF TypeOK, UidInv
  <2>2. QueueInv' /\ DestroyInv' BY DEF QueueInv, DestroyInv, Numbered, Behind
  <2>3. IdsInv' /\ RanInv' BY DEF IdsInv, RanInv, Numbered, Behind, IsCancelled
  <2> QED BY <2>1, <2>2, <2>3
<1> QED
  BY <1>1, <1>2, <1>3, <1>4, <1>5, <1>6, <1>7, <1>8, <1>9, <1>10, <1>11, <1>12,
     <1>13, <1>14, <1>15, <1>16, <1>17
  DEF Next, UserCall, MainThread, Disposed

---------------------------------------------------------------------------

(* The inductive invariant holds in every reachable state, and with it the  *)
(* types of the variables.                                                 *)
THEOREM Invariance == ASSUME NoWrap PROVE Spec => []IInv
<1>1. Init => IInv BY InitInv
<1>2. IInv /\ [Next]_vars => IInv' BY NextStep
<1> QED BY <1>1, <1>2, PTL DEF Spec

(* Every variable keeps its type: m_uid and the uids of all events stay     *)
(* below UidMod without wrapping.                                          *)
THEOREM TypeCorrect == ASSUME NoWrap PROVE Spec => []TypeOK
<1>1. IInv => TypeOK BY DEF IInv
<1> QED BY <1>1, Invariance, PTL

(* NS_ASSERT(next.key.m_ts >= m_currentTs) in ProcessOneEvent never fails.  *)
THEOREM AssertionHolds == ASSUME NoWrap PROVE Spec => []NothingInThePast
<1>1. IInv => NothingInThePast
  <2>1. SUFFICES ASSUME IInv, NEW e \in m_events PROVE e.ts >= m_currentTs
    BY DEF NothingInThePast
  <2>2. e.ts \in Nat /\ m_currentTs \in Nat /\ ~Behind(e)
    BY <2>1 DEF IInv, TypeOK, QueueInv, Event
  <2> QED BY <2>2 DEF Behind
<1> QED BY <1>1, Invariance, PTL

(* IsExpired tells an event that ran, was cancelled or removed from one     *)
(* that is still to run, for every EventId ever returned.                  *)
THEOREM ExpiredIsRight == ASSUME NoWrap PROVE Spec => []ExpiredIsNotPending
<1>1. IInv => ExpiredIsNotPending
  <2>1. SUFFICES ASSUME IInv, pc # "disposed", NEW id \in ids
                 PROVE  IsExpired(id) <=> ~IsPending(id)
    BY DEF ExpiredIsNotPending
  <2>2. \A e \in m_events : e.uid # DESTROY
    <3>1. SUFFICES ASSUME NEW e \in m_events PROVE e.uid # DESTROY OBVIOUS
    <3>2. e.impl \in Nat /\ e.impl >= 1 /\ e.uid = VALID + e.impl - 1
      BY <2>1 DEF IInv, QueueInv, Numbered, TypeOK
    <3> QED BY <3>2 DEF VALID, DESTROY
  <2>3. \A i \in 1..Len(m_destroyEvents) : m_destroyEvents[i].uid = DESTROY
    <3>1. \A i \in 1..Len(m_destroyEvents) :
             m_destroyEvents[i] \in [ts : Nat, uid : {DESTROY}, impl : Nat]
      <4>1. m_destroyEvents \in Seq([ts : Nat, uid : {DESTROY}, impl : Nat])
        BY <2>1 DEF IInv, DestroyInv
      <4> QED BY <4>1, ElementsOf
    <3> QED BY <3>1
  <2>4. CASE id.uid = DESTROY
    BY <2>2, <2>4 DEF IsExpired, IsPending
  <2>5. CASE id.uid # DESTROY
    <3>1. IsExpired(id) <=> Behind(id) \/ IsCancelled(id)
      BY <2>5 DEF IsExpired, Behind
    <3>2. id \in m_events => ~Behind(id)
      BY <2>1 DEF IInv, QueueInv
    <3>3. IsCancelled(id) \/ Behind(id) \/ id \in m_events
      BY <2>1, <2>5 DEF IInv, IdsInv
    <3> QED BY <3>1, <3>2, <3>3, <2>3, <2>5 DEF IsPending
  <2> QED BY <2>4, <2>5
<1> QED BY <1>1, Invariance, PTL

(* Events run in the order of their times, FIFO at the same time, and none  *)
(* runs twice.                                                             *)
THEOREM RunsInOrder == ASSUME NoWrap PROVE Spec => []InOrder
<1>1. IInv => InOrder
  <2>1. SUFFICES ASSUME IInv, NEW i \in 1..Len(Log), NEW j \in 1..Len(Log), i < j
                 PROVE  Contract!Before(Log[i], Log[j])
    BY DEF InOrder, Contract!RunsInOrder
  <2>2. Len(Log) = Len(ran) /\ ran \in Seq(Event)
    BY <2>1 DEF IInv, TypeOK, Log
  <2>3. KeyLess(ran[i], ran[j])
    BY <2>1, <2>2 DEF IInv, RanInv
  <2>4. /\ ran[i].impl \in Nat /\ ran[i].uid = VALID + ran[i].impl - 1
        /\ ran[j].impl \in Nat /\ ran[j].uid = VALID + ran[j].impl - 1
    BY <2>1, <2>2 DEF IInv, RanInv, Numbered, TypeOK
  <2>5. /\ Log[i] = [ts |-> ran[i].ts, n |-> ran[i].impl]
        /\ Log[j] = [ts |-> ran[j].ts, n |-> ran[j].impl]
    BY <2>1, <2>2 DEF Log, Abstract
  <2>6. ran[i].uid < ran[j].uid => ran[i].impl < ran[j].impl
    <3> DEFINE a == ran[i].impl
               b == ran[j].impl
    <3>1. /\ a \in Nat /\ ran[i].uid = VALID + a - 1
          /\ b \in Nat /\ ran[j].uid = VALID + b - 1
      BY <2>4
    <3> HIDE DEF a, b
    <3>2. VALID + a - 1 < VALID + b - 1 => a < b
      BY <3>1 DEF VALID
    <3>3. ran[i].uid < ran[j].uid => a < b
      BY <3>1, <3>2
    <3> QED BY <3>3 DEF a, b
  <2> QED BY <2>3, <2>5, <2>6 DEF KeyLess, Contract!Before
<1> QED BY <1>1, Invariance, PTL

---------------------------------------------------------------------------

(* The flag follows the side queue. *)
THEOREM FlagIsTrue == ASSUME NoWrap PROVE Spec => []EmptyFlagIsTrue
<1>1. Init => EmptyFlagIsTrue BY DEF Init, EmptyFlagIsTrue
<1>2. IInv /\ EmptyFlagIsTrue /\ [Next]_vars => EmptyFlagIsTrue'
  <2>1. SUFFICES ASSUME IInv, EmptyFlagIsTrue, [Next]_vars PROVE EmptyFlagIsTrue'
    OBVIOUS
  <2>2. CASE UNCHANGED posted BY <2>1, <2>2 DEF posted, EmptyFlagIsTrue
  <2>3. CASE MovesPosted BY <2>3 DEF MovesPosted, EmptyFlagIsTrue
  <2>4. ASSUME NEW d \in Delays, Post(d) PROVE EmptyFlagIsTrue'
    <3>1. m_eventsWithContext' # << >>
      BY <2>1, <2>4, DelaysAssumption DEF Post, IInv, TypeOK
    <3> QED BY <2>4, <3>1 DEF Post, EmptyFlagIsTrue
  <2>5. UNCHANGED posted \/ MovesPosted \/ \E d \in Delays : Post(d)
    BY <2>1 DEF Next, UserCall, MainThread, Disposed, vars, posted,
       Schedule, ScheduleWithContext, StopLater, InsertNew, StopNow, ScheduleDestroy,
       RemoveDestroy, Remove, Cancel, Run, Enter, ProcessOneEvent, Notified, AfterEvent,
       RunReturns, Destroy, DestroyOne, DestroyNotified, DoDispose, ReleaseEvents,
       ProcessEventsWithContext, SeesNothingPosted
  <2> QED BY <2>2, <2>3, <2>4, <2>5
<1> QED BY <1>1, <1>2, Invariance, PTL DEF Spec

(* The events made of n posted ones are n. *)
LEMMA MovedCount ==
    ASSUME TypeOK
    PROVE  /\ IsFiniteSet(Moved)
           /\ Cardinality(Moved) = Len(m_eventsWithContext)
<1> DEFINE n == Len(m_eventsWithContext)
           f == [i \in 1..n |-> [ts |-> m_currentTs + m_eventsWithContext[i],
                                 uid |-> UidAfter(i - 1), impl |-> made + i]]
<1>1. n \in Nat /\ made \in Nat BY DEF TypeOK
<1>2. f \in Bijection(1..n, Moved)
  <2>1. f \in Surjection(1..n, Moved) BY DEF Moved, Surjection
  <2>2. \A i, j \in 1..n : f[i] = f[j] => i = j
    <3>1. SUFFICES ASSUME NEW i \in 1..n, NEW j \in 1..n, f[i] = f[j] PROVE i = j
      OBVIOUS
    <3>2. f[i].impl = made + i /\ f[j].impl = made + j OBVIOUS
    <3>3. made + i = made + j BY <3>1, <3>2
    <3>4. i \in Int /\ j \in Int OBVIOUS
    <3> HIDE DEF f, n
    <3> QED BY <3>3, <3>4, <1>1
  <2> HIDE DEF f
  <2>3. f \in [1..n -> Moved] BY <2>1 DEF Surjection
  <2>4. f \in Injection(1..n, Moved) BY <2>2, <2>3 DEF Injection, IsInjective
  <2> QED BY <2>1, <2>4 DEF Bijection
<1> HIDE DEF f
<1>3. IsFiniteSet(1..n) /\ Cardinality(1..n) = n
  <2>1. n - 1 + 1 = n /\ (1 > n => n = 0) BY <1>1
  <2>2. /\ IsFiniteSet(1..n)
        /\ Cardinality(1..n) = IF 1 > n THEN 0 ELSE n - 1 + 1
    <3> HIDE DEF n
    <3> QED BY <1>1, 1 \in Int, FS_Interval
  <2> HIDE DEF n
  <2> QED BY <2>1, <2>2
<1>4. ExistsBijection(1..n, Moved) BY <1>2 DEF ExistsBijection
<1> QED BY <1>3, <1>4, FS_Bijection

CountInv == /\ IsFiniteSet(m_events)
            /\ UnscheduledIsCount

LEMMA InsertNewCount ==
    ASSUME IInv, CountInv, NEW delay \in Delays, InsertNew(delay)
    PROVE  CountInv'
<1>1. NewEvent(delay) \notin m_events
  <2>1. NewEvent(delay).impl = made + 1 BY DEF NewEvent
  <2> QED BY <2>1 DEF IInv, QueueInv, Numbered, TypeOK
<1>2. m_events' = m_events \cup {NewEvent(delay)} /\ pc' = pc
      /\ m_unscheduledEvents' = m_unscheduledEvents + 1 /\ pc # "disposed"
  BY DEF InsertNew, UserCode
<1>3. IsFiniteSet(m_events') /\ Cardinality(m_events') = Cardinality(m_events) + 1
  BY <1>1, <1>2, FS_AddElement DEF CountInv
<1> QED BY <1>2, <1>3 DEF CountInv, UnscheduledIsCount

LEMMA ProcessCount ==
    ASSUME IInv, CountInv, ProcessEventsWithContext, pc # "disposed"
    PROVE  CountInv'
<1>1. CASE SeesNothingPosted
  BY <1>1 DEF SeesNothingPosted, queue, CountInv, UnscheduledIsCount
<1>2. CASE MovesPosted
  <2>1. m_events \cap Moved = {}
    <3>1. \A e \in Moved : \E i \in 1..Len(m_eventsWithContext) : e.impl = made + i
      BY DEF Moved
    <3>2. \A e \in m_events : e.impl \in 1..made
      BY DEF IInv, QueueInv, Numbered
    <3> QED BY <3>1, <3>2 DEF IInv, TypeOK
  <2>2. /\ IsFiniteSet(Moved)
        /\ Cardinality(Moved) = Len(m_eventsWithContext)
    BY MovedCount DEF IInv
  <2>3. /\ IsFiniteSet(m_events \cup Moved)
        /\ Cardinality(m_events \cup Moved) = Cardinality(m_events) + Cardinality(Moved)
    <3>1. Cardinality(m_events \cap Moved) = 0 BY <2>1, FS_EmptySet
    <3>2. Cardinality(m_events) \in Nat /\ Cardinality(Moved) \in Nat
      BY <2>2, FS_CardinalityType DEF CountInv
    <3> QED BY <2>2, <3>1, <3>2, FS_Union DEF CountInv
  <2>4. /\ m_events' = m_events \cup Moved
        /\ m_unscheduledEvents' = m_unscheduledEvents + Len(m_eventsWithContext)
    BY <1>2 DEF MovesPosted
  <2>5. Cardinality(m_events') = Cardinality(m_events) + Len(m_eventsWithContext)
    BY <2>2, <2>3, <2>4
  <2> QED BY <2>3, <2>4, <2>5 DEF CountInv, UnscheduledIsCount
<1> QED BY <1>1, <1>2 DEF ProcessEventsWithContext

(* One event leaves the scheduler and m_unscheduledEvents is decremented. *)
LEMMA TakeCount ==
    ASSUME IInv, CountInv, NEW e \in m_events, pc # "disposed",
           m_events' = m_events \ {e}, m_unscheduledEvents' = m_unscheduledEvents - 1
    PROVE  CountInv'
<1>1. IsFiniteSet(m_events') /\ Cardinality(m_events') = Cardinality(m_events) - 1
  BY FS_RemoveElement DEF CountInv
<1> QED BY <1>1 DEF CountInv, UnscheduledIsCount

(* m_unscheduledEvents is the number of events in the scheduler, so the     *)
(* assertion at the end of Run says that none was lost.                    *)
THEOREM CountHolds == ASSUME NoWrap PROVE Spec => []UnscheduledIsCount
<1>1. Init => CountInv
  BY FS_EmptySet DEF Init, CountInv, UnscheduledIsCount
<1>2. IInv /\ CountInv /\ [Next]_vars => CountInv'
  <2>1. SUFFICES ASSUME IInv, CountInv, [Next]_vars PROVE CountInv'
    OBVIOUS
  <2>2. ASSUME NEW d \in Delays, InsertNew(d) PROVE CountInv'
    BY <2>1, <2>2, InsertNewCount
  <2>3. CASE Enter \/ AfterEvent \/ DoDispose
    <3>1. pc # "disposed" /\ ProcessEventsWithContext
      BY <2>3 DEF Enter, AfterEvent, DoDispose
    <3> QED BY <2>1, <3>1, ProcessCount
  <2>4. CASE ProcessOneEvent
    <3>1. PICK e \in m_events : m_events' = m_events \ {e}
      BY <2>4 DEF ProcessOneEvent, Earliest
    <3>2. m_unscheduledEvents' = m_unscheduledEvents - 1 /\ pc # "disposed"
      BY <2>4 DEF ProcessOneEvent
    <3> QED BY <2>1, <3>1, <3>2, TakeCount
  <2>5. ASSUME NEW id \in ids, Remove(id) PROVE CountInv'
    <3>1. id \in m_events /\ pc # "disposed"
      BY <2>1, <2>5 DEF Remove, IInv, IdsInv, IsExpired, Behind, UserCode
    <3>2. m_events' = m_events \ {id} /\ m_unscheduledEvents' = m_unscheduledEvents - 1
      BY <2>5 DEF Remove
    <3> QED BY <2>1, <3>1, <3>2, TakeCount
  <2>6. CASE ReleaseEvents
    BY <2>6, FS_EmptySet DEF ReleaseEvents, CountInv, UnscheduledIsCount
  <2>7. CASE UNCHANGED queue /\ (pc = "disposed" => pc' = "disposed")
    BY <2>1, <2>7 DEF queue, CountInv, UnscheduledIsCount
  <2>8. \/ \E d \in Delays : InsertNew(d)
        \/ Enter \/ AfterEvent \/ DoDispose \/ ProcessOneEvent \/ ReleaseEvents
        \/ \E id \in ids : Remove(id)
        \/ UNCHANGED queue /\ (pc = "disposed" => pc' = "disposed")
    BY <2>1 DEF Next, UserCall, MainThread, Disposed, vars,
       Schedule, ScheduleWithContext, StopLater, StopNow, ScheduleDestroy,
       RemoveDestroy, Cancel, Run, Notified, RunReturns, Destroy, DestroyOne,
       DestroyNotified, Post
  <2> QED BY <2>2, <2>3, <2>4, <2>5, <2>6, <2>7, <2>8
<1> QED BY <1>1, <1>2, Invariance, PTL DEF Spec, CountInv

---------------------------------------------------------------------------
(* The refinement, step by step. *)

LEMMA InsertIsAccept ==
    ASSUME IInv, NEW delay \in Delays, InsertNew(delay) PROVE Contract!Accept
<1>1. PICK new : new = NewEvent(delay) OBVIOUS
<1>2. /\ new.ts \in Nat /\ new.ts >= m_currentTs /\ new.impl = made + 1
      /\ made \in Nat
  BY <1>1, DelaysAssumption DEF NewEvent, IInv, TypeOK
<1>3. /\ m_events' = m_events \cup {new} /\ made' = made + 1
      /\ UNCHANGED <<cancelled, m_currentTs, ran>>
  BY <1>1 DEF InsertNew, clock
<1>4. Pending \subseteq Pending' /\ \A p \in Pending' \ Pending : p = Abstract(new)
  BY <1>3 DEF Pending, IsCancelled, Abstract
<1>5. UNCHANGED <<m_currentTs, Log>> BY <1>3 DEF Log, Abstract
<1> QED BY <1>2, <1>3, <1>4, <1>5 DEF Contract!Accept, Abstract

LEMMA MoveIsAccept ==
    ASSUME IInv, MovesPosted, UNCHANGED <<clock, impls, ran>>
    PROVE  Contract!Accept
<1>1. /\ m_events' = m_events \cup Moved
      /\ made' = made + Len(m_eventsWithContext)
      /\ UNCHANGED <<cancelled, m_currentTs, ran>>
  BY DEF MovesPosted, clock, impls
<1>2. /\ made \in Nat /\ Len(m_eventsWithContext) \in Nat /\ m_currentTs \in Nat
      /\ \A i \in 1..Len(m_eventsWithContext) : m_eventsWithContext[i] \in Nat
  BY DEF IInv, TypeOK
<1>3. Pending \subseteq Pending'
  BY <1>1 DEF Pending, IsCancelled, Abstract
<1>4. ASSUME NEW p \in Pending' \ Pending
      PROVE  \E i \in 1..Len(m_eventsWithContext) :
               p = [ts |-> m_currentTs + m_eventsWithContext[i], n |-> made + i]
  <2>1. PICK e \in Moved : p = Abstract(e)
    BY <1>1, <1>4 DEF Pending, IsCancelled, Abstract
  <2> QED BY <2>1 DEF Moved, Abstract
<1>5. ASSUME NEW p \in Pending' \ Pending
      PROVE  /\ p \in [ts : Nat, n : Nat]
             /\ p.ts >= m_currentTs
             /\ made < p.n /\ p.n <= made'
             /\ \A q \in Pending' \ Pending : p.n = q.n => p = q
  <2>1. PICK i \in 1..Len(m_eventsWithContext) :
               p = [ts |-> m_currentTs + m_eventsWithContext[i], n |-> made + i]
    BY <1>4
  <2>2. ASSUME NEW q \in Pending' \ Pending, p.n = q.n PROVE p = q
    <3>1. PICK j \in 1..Len(m_eventsWithContext) :
               q = [ts |-> m_currentTs + m_eventsWithContext[j], n |-> made + j]
      BY <1>4
    <3>2. i = j BY <2>1, <2>2, <3>1, <1>2
    <3> QED BY <2>1, <3>1, <3>2
  <2> QED BY <2>1, <2>2, <1>1, <1>2
<1>6. UNCHANGED <<m_currentTs, Log>> BY <1>1 DEF Log, Abstract
<1> QED BY <1>1, <1>2, <1>3, <1>5, <1>6 DEF Contract!Accept

LEMMA EventIsExecuteOrAdvance ==
    ASSUME IInv, ProcessOneEvent
    PROVE  Contract!Execute \/ Contract!Advance
<1>1. PICK next \in m_events :
        /\ \A f \in m_events : ~KeyLess(f, next)
        /\ m_events' = m_events \ {next}
        /\ m_currentTs' = next.ts
        /\ ran' = IF IsCancelled(next) THEN ran ELSE Append(ran, next)
        /\ UNCHANGED <<cancelled, made>>
  BY DEF ProcessOneEvent, Earliest, impls
<1>2. ASSUME NEW e \in m_events
      PROVE  /\ e.ts \in Nat /\ e.impl \in Nat /\ e.uid = VALID + e.impl - 1
             /\ (e.impl = next.impl => e = next)
  BY DEF IInv, TypeOK, Event, QueueInv, Numbered
<1>3. next.ts >= m_currentTs /\ m_currentTs \in Nat
  BY <1>2 DEF IInv, TypeOK, QueueInv, Behind
<1>4. ASSUME NEW e \in m_events, e # next
      PROVE  Contract!Before(Abstract(next), Abstract(e))
  <2>1. e.impl # next.impl /\ ~KeyLess(e, next)
    BY <1>1, <1>2, <1>4
  <2>2. next.ts < e.ts \/ (next.ts = e.ts /\ next.impl < e.impl)
    BY <1>2, <2>1 DEF KeyLess, VALID
  <2> QED BY <2>2 DEF Contract!Before, Abstract
<1>5. ASSUME NEW p \in Pending
      PROVE  \E e \in m_events : p = Abstract(e)
  BY <1>5 DEF Pending
<1>6. CASE IsCancelled(next)
  <2>1. Pending' = Pending /\ Log' = Log
    BY <1>1, <1>6 DEF Pending, IsCancelled, Log, Abstract
  <2>2. \A p \in Pending : next.ts <= p.ts
    <3>1. \A e \in m_events : next.ts <= e.ts
      BY <1>1, <1>2 DEF KeyLess
    <3> QED BY <3>1 DEF Pending, Abstract
  <2>3. m_currentTs' \in Nat /\ m_currentTs <= m_currentTs'
        /\ \A p \in Pending : m_currentTs' <= p.ts
    BY <1>1, <1>2, <1>3, <2>2
  <2> QED BY <1>1, <2>1, <2>3 DEF Contract!Advance
<1>7. CASE ~IsCancelled(next)
  <2>1. Abstract(next) \in Pending
    BY <1>7 DEF Pending
  <2>2. Pending' = Pending \ {Abstract(next)}
    <3>1. \A e \in m_events : Abstract(e) = Abstract(next) => e = next
      BY <1>2 DEF Abstract
    <3>2. Pending' = {Abstract(e) : e \in {x \in m_events : ~IsCancelled(x) /\ x # next}}
      BY <1>1 DEF Pending, IsCancelled, Abstract
    <3> QED BY <3>1, <3>2 DEF Pending
  <2>3. \A p \in Pending \ {Abstract(next)} : Contract!Before(Abstract(next), p)
    BY <1>4, <1>5 DEF Pending
  <2>4. Log' = Append(Log, Abstract(next))
    <3>1. ran' = Append(ran, next) /\ ran \in Seq(Event) /\ next \in Event
      BY <1>1, <1>7 DEF IInv, TypeOK
    <3>2. /\ Len(ran') = Len(ran) + 1 /\ Len(ran) \in Nat
          /\ \A i \in 1..Len(ran) : ran'[i] = ran[i]
          /\ ran'[Len(ran) + 1] = next
      BY <3>1
    <3>3. ASSUME NEW r \in Seq(Event)
          PROVE  [i \in 1..Len(r) |-> Abstract(r[i])] \in Seq([ts : Nat, n : Nat])
      <4>1. ASSUME NEW i \in 1..Len(r) PROVE Abstract(r[i]) \in [ts : Nat, n : Nat]
        <5>1. r[i] \in Event BY ElementsOf
        <5> QED BY <5>1 DEF Abstract, Event
      <4> QED BY <4>1
    <3>4. /\ Log \in Seq([ts : Nat, n : Nat]) /\ Len(Log) = Len(ran)
          /\ \A i \in 1..Len(ran) : Log[i] = Abstract(ran[i])
      BY <3>1, <3>2, <3>3 DEF Log
    <3>5. ran' \in Seq(Event) BY <3>1
    <3>6. /\ Log' \in Seq([ts : Nat, n : Nat]) /\ Len(Log') = Len(ran')
          /\ \A i \in 1..Len(ran') : Log'[i] = Abstract(ran'[i])
      BY <3>2, <3>3, <3>5 DEF Log, Abstract
    <3>7. Abstract(next) \in [ts : Nat, n : Nat] BY <3>1 DEF Abstract, Event
    <3> DEFINE log == Append(Log, Abstract(next))
    <3>8. /\ log \in Seq([ts : Nat, n : Nat]) /\ Len(log) = Len(ran) + 1
          /\ \A i \in 1..Len(ran) : log[i] = Log[i]
          /\ log[Len(ran) + 1] = Abstract(next)
      BY <3>4, <3>7
    <3> HIDE DEF log
    <3>9. ASSUME NEW i \in 1..Len(ran') PROVE Log'[i] = log[i]
      <4>1. CASE i \in 1..Len(ran)
        BY <3>2, <3>4, <3>6, <3>8, <4>1
      <4>2. CASE i = Len(ran) + 1
        BY <3>2, <3>6, <3>8, <4>2
      <4> QED BY <3>2, <4>1, <4>2
    <3>10. Len(Log') = Len(log)
      BY <3>2, <3>6, <3>8
    <3>11. Log' = log
      <4>1. \A i \in 1..Len(Log') : Log'[i] = log[i]
        BY <3>6, <3>9
      <4> QED BY <3>6, <3>8, <3>10, <4>1, SeqEqual
    <3> QED BY <3>11 DEF log
  <2>5. m_currentTs' = Abstract(next).ts BY <1>1 DEF Abstract
  <2> QED BY <1>1, <2>1, <2>2, <2>3, <2>4, <2>5 DEF Contract!Execute
<1> QED BY <1>6, <1>7

(* Every step of the engine is a step of the sequential contract or leaves  *)
(* it unchanged.                                                           *)
THEOREM Implements == ASSUME NoWrap PROVE Spec => ImplementsContract
<1>1. Init => Contract!Init
  BY DEF Init, Contract!Init, Pending, Log
<1>2. IInv /\ [Next]_vars => [Contract!Next]_(Contract!vars)
  <2>1. SUFFICES ASSUME IInv, [Next]_vars
                 PROVE  Contract!Next \/ UNCHANGED Contract!vars
    OBVIOUS
  <2>2. ASSUME NEW d \in Delays, InsertNew(d) PROVE Contract!Next
    BY <2>1, <2>2, InsertIsAccept DEF Contract!Next
  <2>3. CASE ScheduleDestroy
    <3>1. made \in Nat /\ made' = made + 1 /\ UNCHANGED <<m_events, cancelled, m_currentTs, ran>>
      BY <2>1, <2>3 DEF ScheduleDestroy, IInv, TypeOK, queue, clock, impls
    <3>2. Pending' = Pending /\ Log' = Log
      BY <3>1 DEF Pending, IsCancelled, Log, Abstract
    <3> QED BY <3>1, <3>2 DEF Contract!Next, Contract!Accept
  <2>4. ASSUME m_events' \subseteq m_events, cancelled \subseteq cancelled',
               UNCHANGED <<m_currentTs, made, ran>>
        PROVE  Contract!Next
    <3>1. Pending' \subseteq Pending /\ Log' = Log
      BY <2>4 DEF Pending, IsCancelled, Log, Abstract
    <3> QED BY <2>4, <3>1 DEF Contract!Next, Contract!Drop
  <2>5. CASE ProcessOneEvent
    BY <2>1, <2>5, EventIsExecuteOrAdvance DEF Contract!Next
  <2>6. CASE MovesPosted /\ UNCHANGED <<clock, impls, ran>>
    BY <2>1, <2>6, MoveIsAccept DEF Contract!Next
  <2>7. \/ \E d \in Delays : InsertNew(d)
        \/ ScheduleDestroy
        \/ m_events' \subseteq m_events /\ cancelled \subseteq cancelled'
           /\ UNCHANGED <<m_currentTs, made, ran>>
        \/ ProcessOneEvent
        \/ MovesPosted /\ UNCHANGED <<clock, impls, ran>>
    BY <2>1 DEF Next, UserCall, MainThread, Disposed, vars, queue, clock, impls,
       Schedule, ScheduleWithContext, StopLater, StopNow, RemoveDestroy, Remove,
       Cancel, Run, Enter, AfterEvent, Notified, RunReturns, Destroy, DestroyOne,
       DestroyNotified, DoDispose, ReleaseEvents, Post, ProcessEventsWithContext,
       SeesNothingPosted
  <2> QED BY <2>2, <2>3, <2>4, <2>5, <2>6, <2>7
<1> QED BY <1>1, <1>2, Invariance, PTL DEF Spec, ImplementsContract, Contract!Spec
=============================================================================
