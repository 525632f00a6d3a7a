-------------------------- MODULE EventListProofs --------------------------
(***************************************************************************)
(* Proofs about EventList and the schedulers behind it, for any time       *)
(* stamps and any number of events.                                        *)
(***************************************************************************)
EXTENDS EventList, FiniteSetTheorems, SequenceTheorems, WellFoundedInduction, TLAPS

---------------------------------------------------------------------------
(* What a container of the events of S looks like.                         *)

Distinct(S) == S \subseteq Event /\ \A a, b \in S : a.uid = b.uid => a = b

(* q has every element of S in one place. *)
Holds(q, S) == /\ q \in Seq(S)
               /\ \A ev \in S : \E i \in 1..Len(q) : q[i] = ev
               /\ \A i, j \in 1..Len(q) : i # j => q[i] # q[j]

Before(reverse, a, b) == IF reverse THEN KeyLess(b, a) ELSE KeyLess(a, b)

IsSorted(reverse, q, S) ==
    Holds(q, S) /\ \A i, j \in 1..Len(q) : i < j => Before(reverse, q[i], q[j])

IsHeap(h) == \A i \in 2..Len(h) : KeyLess(h[i \div 2], h[i])

(* The buckets of a calendar c: each has the events of its days, sorted.   *)
Calendars == [m_buckets : UNION {[0..n-1 -> Seq(Event)] : n \in Nat \ {0}},
              m_nBuckets : Nat \ {0}, m_width : Nat \ {0}, m_lastBucket : Nat,
              m_bucketTop : Nat, m_lastPrio : Nat, m_qSize : Nat, m_reverse : BOOLEAN]

OfBucket(c, i, S) == {ev \in S : Calendar!Hash(c, ev.ts) = i}

Filled(c, S) ==
    /\ DOMAIN c.m_buckets = 0..c.m_nBuckets-1
    /\ \A i \in 0..c.m_nBuckets-1 :
          IsSorted(c.m_reverse, c.m_buckets[i], OfBucket(c, i, S))

(* The cursor is the day of the last event removed, after which all are.   *)
CursorAt(c) ==
    /\ c.m_lastBucket = (c.m_lastPrio \div c.m_width) % c.m_nBuckets
    /\ c.m_bucketTop = (c.m_lastPrio \div c.m_width + 1) * c.m_width

NotPast(c, S) == \A ev \in S : c.m_lastPrio <= ev.ts

IsCalendar(c, S) ==
    c \in Calendars /\ Filled(c, S) /\ CursorAt(c) /\ NotPast(c, S)

CalendarOf(c, S) == IsCalendar(c, S) /\ c.m_qSize = Cardinality(S)

---------------------------------------------------------------------------
(* The inductive invariant: while SetScheduler moves events, moved are the *)
(* events that the new scheduler has already.                              *)

Schedulers == {"list", "heap", "calendar"}

(* The scheduler t, one of these three, has the events of S. *)
Contains(t, list, heap, c, S) == /\ t = "list" => IsSorted(FALSE, list, S)
                                 /\ t = "heap" => Holds(heap, S)
                                 /\ t = "calendar" => CalendarOf(c, S)

Share(t, moved) == IF t = type THEN pending \ moved
                   ELSE IF t = newType THEN moved ELSE {}

ContainersInv(moved) ==
    /\ type = newType => moved = {}
    /\ \A t \in Schedulers : Contains(t, m_list, m_heap, calendar, Share(t, moved))

HeapInv == IsHeap(m_heap) \/ (type = "heap" /\ removed)

ClockInv ==
    newType = "calendar" => /\ calendar.m_lastPrio <= now
                            /\ type # newType => calendar.m_lastPrio = 0

PendingInv == /\ Distinct(pending) /\ IsFiniteSet(pending)
              /\ \A ev \in pending : ev.uid <= made

IInv == /\ type \in Types /\ newType \in Types
        /\ now \in Nat /\ made \in Nat /\ removed \in BOOLEAN
        /\ PendingInv
        /\ \E moved \in SUBSET pending : ContainersInv(moved)
        /\ HeapInv
        /\ ClockInv

---------------------------------------------------------------------------
(* Sequences with an element put in or taken out. *)

With(q, p, e) == SubSeq(q, 1, p - 1) \o <<e>> \o SubSeq(q, p, Len(q))
Without(q, p) == SubSeq(q, 1, p - 1) \o SubSeq(q, p + 1, Len(q))

LEMMA Cut ==
    ASSUME NEW S, NEW q \in Seq(S), NEW p \in 1..Len(q)+1
    PROVE  /\ SubSeq(q, 1, p - 1) \in Seq(S) /\ Len(SubSeq(q, 1, p - 1)) = p - 1
           /\ \A i \in 1..p-1 : SubSeq(q, 1, p - 1)[i] = q[i]
           /\ SubSeq(q, p, Len(q)) \in Seq(S)
           /\ Len(SubSeq(q, p, Len(q))) = Len(q) - p + 1
           /\ \A i \in 1..Len(q)-p+1 : SubSeq(q, p, Len(q))[i] = q[p + i - 1]
<1>1. Len(q) \in Nat /\ p \in Int
  BY LenProperties
<1>2. \A i \in 1..Len(q) : q[i] \in S
  BY ElementOfSeq
<1>3. /\ SubSeq(q, 1, p - 1) \in Seq(S) /\ Len(SubSeq(q, 1, p - 1)) = p - 1
      /\ \A i \in 1..p-1 : SubSeq(q, 1, p - 1)[i] = q[i]
  <2>1. \A i \in 1..p-1 : q[i] \in S
    BY <1>1, <1>2
  <2>2. /\ SubSeq(q, 1, p - 1) \in Seq(S)
        /\ Len(SubSeq(q, 1, p - 1)) = IF 1 <= p - 1 THEN (p - 1) - 1 + 1 ELSE 0
        /\ \A i \in 1..(p-1)-1+1 : SubSeq(q, 1, p - 1)[i] = q[1 + i - 1]
    BY <1>1, <2>1, SubSeqProperties
  <2> QED BY <1>1, <2>2
<1>4. /\ SubSeq(q, p, Len(q)) \in Seq(S)
      /\ Len(SubSeq(q, p, Len(q))) = Len(q) - p + 1
      /\ \A i \in 1..Len(q)-p+1 : SubSeq(q, p, Len(q))[i] = q[p + i - 1]
  <2>1. \A i \in p..Len(q) : q[i] \in S
    BY <1>1, <1>2
  <2>2. /\ SubSeq(q, p, Len(q)) \in Seq(S)
        /\ Len(SubSeq(q, p, Len(q))) = IF p <= Len(q) THEN Len(q) - p + 1 ELSE 0
        /\ \A i \in 1..Len(q)-p+1 : SubSeq(q, p, Len(q))[i] = q[p + i - 1]
    BY <1>1, <2>1, SubSeqProperties
  <2> QED BY <1>1, <2>2
<1> QED BY <1>3, <1>4

LEMMA WithElement ==
    ASSUME NEW S, NEW q \in Seq(S), NEW p \in 1..Len(q)+1, NEW e \in S
    PROVE  /\ With(q, p, e) \in Seq(S) /\ Len(With(q, p, e)) = Len(q) + 1
           /\ \A i \in 1..Len(q)+1 :
                 With(q, p, e)[i] = IF i < p THEN q[i] ELSE IF i = p THEN e ELSE q[i - 1]
<1> DEFINE a == SubSeq(q, 1, p - 1)
           z == SubSeq(q, p, Len(q))
<1>1. Len(q) \in Nat /\ p \in Int
  BY LenProperties
<1>2. /\ a \in Seq(S) /\ Len(a) = p - 1 /\ \A i \in 1..p-1 : a[i] = q[i]
      /\ z \in Seq(S) /\ Len(z) = Len(q) - p + 1
      /\ \A i \in 1..Len(q)-p+1 : z[i] = q[p + i - 1]
  BY Cut
<1>3. <<e>> \in Seq(S) /\ Len(<<e>>) = 1 /\ <<e>>[1] = e
  OBVIOUS
<1> DEFINE b == a \o <<e>>
<1> HIDE DEF a, z
<1>4. /\ b \in Seq(S) /\ Len(b) = p
      /\ \A i \in 1..p : b[i] = IF i <= p - 1 THEN a[i] ELSE <<e>>[i - (p - 1)]
  <2>1. /\ b \in Seq(S) /\ Len(b) = Len(a) + Len(<<e>>)
        /\ \A i \in 1..Len(a)+Len(<<e>>) :
              b[i] = IF i <= Len(a) THEN a[i] ELSE <<e>>[i - Len(a)]
    BY <1>2, <1>3, ConcatProperties
  <2>2. Len(a) + Len(<<e>>) = p
    BY <1>1, <1>2, <1>3
  <2> QED BY <1>2, <2>1, <2>2
<1> HIDE DEF b
<1>5. /\ b \o z \in Seq(S) /\ Len(b \o z) = Len(b) + Len(z)
      /\ \A i \in 1..Len(b)+Len(z) : (b \o z)[i] = IF i <= Len(b) THEN b[i] ELSE z[i - Len(b)]
  BY <1>2, <1>4, ConcatProperties, ZenonT(30)
<1>6. With(q, p, e) = b \o z
  BY DEF With, a, b, z
<1>7. Len(b) + Len(z) = Len(q) + 1
  BY <1>1, <1>2, <1>4
<1>8. ASSUME NEW i \in 1..Len(q)+1
      PROVE  (b \o z)[i] = IF i < p THEN q[i] ELSE IF i = p THEN e ELSE q[i - 1]
  <2>1. (b \o z)[i] = IF i <= p THEN b[i] ELSE z[i - p]
    BY <1>4, <1>5, <1>7
  <2>2. CASE i < p
    <3>1. i \in 1..p /\ i <= p - 1 /\ i \in 1..p-1
      BY <1>1, <2>2
    <3> QED BY <1>2, <1>4, <2>1, <2>2, <3>1
  <2>3. CASE i = p
    <3>1. i \in 1..p /\ ~(i <= p - 1) /\ i - (p - 1) = 1
      BY <1>1, <2>3
    <3> QED BY <1>3, <1>4, <2>1, <2>3, <3>1
  <2>4. CASE i > p
    <3>1. i - p \in 1..Len(q)-p+1 /\ p + (i - p) - 1 = i - 1 /\ ~(i <= p)
      BY <1>1, <2>4
    <3> QED BY <1>1, <1>2, <2>1, <2>4, <3>1
  <2>5. i < p \/ i = p \/ i > p
    BY <1>1
  <2> QED BY <2>2, <2>3, <2>4, <2>5, Zenon
<1> QED BY <1>5, <1>6, <1>7, <1>8

LEMMA WithoutElement ==
    ASSUME NEW S, NEW q \in Seq(S), NEW p \in 1..Len(q)
    PROVE  /\ Without(q, p) \in Seq(S) /\ Len(Without(q, p)) = Len(q) - 1
           /\ \A i \in 1..Len(q)-1 :
                 Without(q, p)[i] = IF i < p THEN q[i] ELSE q[i + 1]
<1> DEFINE a == SubSeq(q, 1, p - 1)
           z == SubSeq(q, p + 1, Len(q))
<1>1. Len(q) \in Nat /\ p \in Int
  BY LenProperties
<1>2. /\ a \in Seq(S) /\ Len(a) = p - 1 /\ \A i \in 1..p-1 : a[i] = q[i]
  <2>1. p \in 1..Len(q)+1
    BY <1>1
  <2> QED BY <2>1, Cut
<1>3. /\ z \in Seq(S) /\ Len(z) = Len(q) - p
      /\ \A i \in 1..Len(q)-p : z[i] = q[p + i]
  <2>1. p + 1 \in 1..Len(q)+1
    BY <1>1
  <2>2. /\ z \in Seq(S) /\ Len(z) = Len(q) - (p + 1) + 1
        /\ \A i \in 1..Len(q)-(p+1)+1 : z[i] = q[(p + 1) + i - 1]
    BY <2>1, Cut
  <2> QED BY <1>1, <2>2
<1> HIDE DEF a, z
<1>4. /\ a \o z \in Seq(S) /\ Len(a \o z) = Len(a) + Len(z)
      /\ \A i \in 1..Len(a)+Len(z) : (a \o z)[i] = IF i <= Len(a) THEN a[i] ELSE z[i - Len(a)]
  BY <1>2, <1>3, ConcatProperties
<1>5. Without(q, p) = a \o z
  BY DEF Without, a, z
<1>6. Len(a) + Len(z) = Len(q) - 1
  BY <1>1, <1>2, <1>3
<1>7. ASSUME NEW i \in 1..Len(q)-1
      PROVE  (a \o z)[i] = IF i < p THEN q[i] ELSE q[i + 1]
  <2>1. (a \o z)[i] = IF i <= p - 1 THEN a[i] ELSE z[i - (p - 1)]
    BY <1>2, <1>4, <1>6
  <2>2. CASE i < p
    <3>1. i <= p - 1 /\ i \in 1..p-1
      BY <1>1, <2>2
    <3> QED BY <1>2, <2>1, <2>2, <3>1
  <2>3. CASE ~(i < p)
    <3>1. ~(i <= p - 1) /\ i - (p - 1) \in 1..Len(q)-p /\ p + (i - (p - 1)) = i + 1
      BY <1>1, <2>3
    <3> QED BY <1>3, <2>1, <2>3, <3>1
  <2> QED BY <2>2, <2>3
<1> QED BY <1>4, <1>5, <1>6, <1>7

(* The first and the last element taken out. *)
LEMMA Ends ==
    ASSUME NEW S, NEW q \in Seq(S), q # << >>
    PROVE  /\ Len(q) \in Nat \ {0} /\ Head(q) = q[1]
           /\ Tail(q) = Without(q, 1) /\ SubSeq(q, 1, Len(q) - 1) = Without(q, Len(q))
<1>1. Len(q) \in Nat \ {0}
  BY EmptySeq
<1>2. Tail(q) = Without(q, 1)
  <2>1. /\ Tail(q) \in Seq(S) /\ Len(Tail(q)) = Len(q) - 1
        /\ \A i \in 1..Len(Tail(q)) : Tail(q)[i] = q[i + 1]
    BY HeadTailProperties
  <2>2. 1 \in 1..Len(q)
    BY <1>1
  <2>3. /\ Without(q, 1) \in Seq(S) /\ Len(Without(q, 1)) = Len(q) - 1
        /\ \A i \in 1..Len(q)-1 : Without(q, 1)[i] = IF i < 1 THEN q[i] ELSE q[i + 1]
    BY <2>2, WithoutElement
  <2>4. \A i \in 1..Len(q)-1 : Without(q, 1)[i] = q[i + 1]
    BY <2>3
  <2> QED BY <2>1, <2>3, <2>4, SeqEqual
<1>3. SubSeq(q, 1, Len(q) - 1) = Without(q, Len(q))
  <2>1. Len(q) \in 1..Len(q)+1 /\ Len(q) \in 1..Len(q)
    BY <1>1
  <2>2. /\ SubSeq(q, 1, Len(q) - 1) \in Seq(S) /\ Len(SubSeq(q, 1, Len(q) - 1)) = Len(q) - 1
        /\ \A i \in 1..Len(q)-1 : SubSeq(q, 1, Len(q) - 1)[i] = q[i]
    BY <2>1, Cut
  <2>3. /\ Without(q, Len(q)) \in Seq(S) /\ Len(Without(q, Len(q))) = Len(q) - 1
        /\ \A i \in 1..Len(q)-1 :
              Without(q, Len(q))[i] = IF i < Len(q) THEN q[i] ELSE q[i + 1]
    BY <2>1, WithoutElement
  <2>4. \A i \in 1..Len(q)-1 : Without(q, Len(q))[i] = q[i]
    BY <1>1, <2>3
  <2> QED BY <2>2, <2>3, <2>4, SeqEqual
<1> QED BY <1>1, <1>2, <1>3

---------------------------------------------------------------------------
(* Lists of events in their order, or in the reverse of it. *)

LEMMA KeyOrder ==
    ASSUME NEW S, Distinct(S), NEW a \in S, NEW b \in S, NEW r \in BOOLEAN
    PROVE  /\ ~Before(r, a, a)
           /\ Before(r, a, b) => ~Before(r, b, a)
           /\ \A c \in S : Before(r, a, b) /\ Before(r, b, c) => Before(r, a, c)
           /\ a # b => Before(r, a, b) \/ Before(r, b, a)
<1>1. /\ a.ts \in Nat /\ a.uid \in Nat /\ b.ts \in Nat /\ b.uid \in Nat
      /\ \A c \in S : c.ts \in Nat /\ c.uid \in Nat
  BY DEF Distinct, Event
<1>2. a # b => a.uid # b.uid
  BY DEF Distinct
<1> QED BY <1>1, <1>2 DEF Before, KeyLess

LEMMA HoldsIn ==
    ASSUME NEW q, NEW T, Holds(q, T)
    PROVE  /\ q \in Seq(T) /\ Len(q) \in Nat /\ DOMAIN q = 1..Len(q)
           /\ \A i \in 1..Len(q) : q[i] \in T
           /\ q = << >> <=> T = {}
<1>1. q \in Seq(T)
  BY DEF Holds
<1>2. Len(q) \in Nat /\ DOMAIN q = 1..Len(q) /\ \A i \in 1..Len(q) : q[i] \in T
  BY <1>1, LenProperties, ElementOfSeq
<1>3. q = << >> => T = {}
  <2>1. q = << >> => 1..Len(q) = {}
    OBVIOUS
  <2> QED BY <2>1 DEF Holds
<1>4. q # << >> => T # {}
  <2>1. q # << >> => 1 \in 1..Len(q)
    BY <1>1, EmptySeq
  <2> QED BY <1>2, <2>1
<1> QED BY <1>1, <1>2, <1>3, <1>4

LEMMA HoldsWith ==
    ASSUME NEW q, NEW T, Holds(q, T), NEW e, e \notin T, NEW p \in 1..Len(q)+1
    PROVE  Holds(With(q, p, e), T \cup {e})
<1> DEFINE U == T \cup {e}
           w == With(q, p, e)
<1>1. q \in Seq(U) /\ Len(q) \in Nat /\ \A i \in 1..Len(q) : q[i] \in T
  <2>1. q \in Seq(T) /\ T \subseteq U
    BY DEF Holds
  <2> QED BY <2>1, HoldsIn, SeqMonotonic
<1>2. /\ w \in Seq(U) /\ Len(w) = Len(q) + 1
      /\ \A i \in 1..Len(q)+1 : w[i] = IF i < p THEN q[i] ELSE IF i = p THEN e ELSE q[i - 1]
  <2>1. e \in U
    OBVIOUS
  <2> HIDE DEF U
  <2> QED BY <1>1, <2>1, WithElement
<1> HIDE DEF w
<1>3. ASSUME NEW ev \in U PROVE \E i \in 1..Len(w) : w[i] = ev
  <2>1. CASE ev = e
    <3>1. p \in 1..Len(w) /\ w[p] = e
      BY <1>1, <1>2
    <3> QED BY <2>1, <3>1
  <2>2. CASE ev \in T
    <3>1. PICK i \in 1..Len(q) : q[i] = ev
      BY <2>2 DEF Holds
    <3>2. CASE i < p
      <4>1. i \in 1..Len(w) /\ w[i] = q[i]
        BY <1>1, <1>2, <3>2
      <4> QED BY <3>1, <4>1
    <3>3. CASE ~(i < p)
      <4>1. i + 1 \in 1..Len(q)+1 /\ ~(i + 1 < p) /\ i + 1 # p /\ (i + 1) - 1 = i
        BY <1>1, <3>3
      <4>2. w[i + 1] = q[i]
        BY <1>2, <4>1
      <4> QED BY <1>2, <3>1, <4>1, <4>2
    <3> QED BY <3>2, <3>3
  <2> QED BY <2>1, <2>2
<1>4. ASSUME NEW i \in 1..Len(w), NEW j \in 1..Len(w), i # j
      PROVE  w[i] # w[j]
  <2>1. \A k \in 1..Len(w) : k # p => \E m \in 1..Len(q) :
           /\ w[k] = q[m] /\ m = IF k < p THEN k ELSE k - 1
    <3> SUFFICES ASSUME NEW k \in 1..Len(w), k # p
                 PROVE  \E m \in 1..Len(q) : w[k] = q[m] /\ m = IF k < p THEN k ELSE k - 1
      OBVIOUS
    <3>1. CASE k < p
      <4>1. k \in 1..Len(q) /\ w[k] = q[k]
        BY <1>1, <1>2, <3>1
      <4> QED BY <3>1, <4>1
    <3>2. CASE ~(k < p)
      <4>1. k - 1 \in 1..Len(q) /\ w[k] = q[k - 1]
        BY <1>1, <1>2, <3>2
      <4> QED BY <3>2, <4>1
    <3> QED BY <3>1, <3>2
  <2>2. w[p] = e
    BY <1>1, <1>2
  <2>3. CASE i = p
    BY <1>1, <1>4, <2>1, <2>2, <2>3
  <2>4. CASE j = p
    BY <1>1, <1>4, <2>1, <2>2, <2>4
  <2>5. CASE i # p /\ j # p
    <3>1. PICK m \in 1..Len(q) : w[i] = q[m] /\ m = IF i < p THEN i ELSE i - 1
      BY <2>1, <2>5
    <3>2. PICK n \in 1..Len(q) : w[j] = q[n] /\ n = IF j < p THEN j ELSE j - 1
      BY <2>1, <2>5
    <3>3. m # n
      BY <1>1, <1>4, <2>5, <3>1, <3>2
    <3> QED BY <3>1, <3>2, <3>3, ZenonT(30) DEF Holds
  <2> QED BY <2>3, <2>4, <2>5
<1> QED BY <1>2, <1>3, <1>4 DEF Holds, w

LEMMA HoldsWithout ==
    ASSUME NEW q, NEW T, Holds(q, T), NEW p \in 1..Len(q)
    PROVE  Holds(Without(q, p), T \ {q[p]})
<1> DEFINE U == T \ {q[p]}
           w == Without(q, p)
<1>1. q \in Seq(T) /\ Len(q) \in Nat /\ \A i \in 1..Len(q) : q[i] \in T
  BY HoldsIn
<1>2. /\ w \in Seq(T) /\ Len(w) = Len(q) - 1
      /\ \A i \in 1..Len(q)-1 : w[i] = IF i < p THEN q[i] ELSE q[i + 1]
  BY <1>1, WithoutElement
<1> HIDE DEF w
<1>3. \A k \in 1..Len(w) : \E m \in 1..Len(q) :
         /\ w[k] = q[m] /\ m # p /\ m = IF k < p THEN k ELSE k + 1
  <2> SUFFICES ASSUME NEW k \in 1..Len(w)
               PROVE  \E m \in 1..Len(q) :
                         w[k] = q[m] /\ m # p /\ m = IF k < p THEN k ELSE k + 1
    OBVIOUS
  <2>1. CASE k < p
    <3>1. k \in 1..Len(q) /\ w[k] = q[k]
      BY <1>1, <1>2, <2>1
    <3> QED BY <2>1, <3>1
  <2>2. CASE ~(k < p)
    <3>1. k + 1 \in 1..Len(q) /\ w[k] = q[k + 1] /\ k + 1 # p
      BY <1>1, <1>2, <2>2
    <3> QED BY <2>2, <3>1
  <2> QED BY <2>1, <2>2
<1>4. \A k \in 1..Len(w) : w[k] \in U
  <2>1. \A m \in 1..Len(q) : m # p => q[m] \in T /\ q[m] # q[p]
    BY <1>1 DEF Holds
  <2> QED BY <1>3, <2>1
<1>5. w \in Seq(U)
  <2>1. Len(w) \in Nat /\ w = [k \in 1..Len(w) |-> w[k]]
    BY <1>2, LenProperties
  <2> QED BY <1>4, <2>1
<1>6. ASSUME NEW ev \in U PROVE \E i \in 1..Len(w) : w[i] = ev
  <2>1. PICK i \in 1..Len(q) : q[i] = ev
    BY DEF Holds
  <2>2. i # p
    BY <2>1
  <2>3. CASE i < p
    <3>1. i \in 1..Len(q)-1 /\ w[i] = q[i]
      BY <1>1, <1>2, <2>3
    <3> QED BY <1>2, <2>1, <3>1
  <2>4. CASE ~(i < p)
    <3>1. i - 1 \in 1..Len(q)-1 /\ ~(i - 1 < p) /\ (i - 1) + 1 = i
      BY <1>1, <2>2, <2>4
    <3>2. w[i - 1] = q[i]
      BY <1>2, <3>1
    <3> QED BY <1>2, <2>1, <3>1, <3>2
  <2> QED BY <2>3, <2>4
<1>7. ASSUME NEW i \in 1..Len(w), NEW j \in 1..Len(w), i # j
      PROVE  w[i] # w[j]
  <2>1. PICK m \in 1..Len(q) : w[i] = q[m] /\ m = IF i < p THEN i ELSE i + 1
    BY <1>3
  <2>2. PICK n \in 1..Len(q) : w[j] = q[n] /\ n = IF j < p THEN j ELSE j + 1
    BY <1>3
  <2>3. m # n
    BY <1>1, <1>7, <2>1, <2>2
  <2> QED BY <2>1, <2>2, <2>3, ZenonT(30) DEF Holds
<1> QED BY <1>5, <1>6, <1>7 DEF Holds, w

LEMMA SortedWith ==
    ASSUME NEW r \in BOOLEAN, NEW q, NEW T, IsSorted(r, q, T), NEW e, e \notin T,
           Distinct(T \cup {e}), NEW p \in 1..Len(q)+1,
           \A k \in 1..Len(q) : IF k < p THEN ~Before(r, e, q[k]) ELSE Before(r, e, q[k])
    PROVE  IsSorted(r, With(q, p, e), T \cup {e})
<1> DEFINE w == With(q, p, e)
<1>1. Holds(w, T \cup {e})
  BY HoldsWith DEF IsSorted
<1>2. q \in Seq(T \cup {e}) /\ Len(q) \in Nat /\ \A i \in 1..Len(q) : q[i] \in T
  <2>1. Holds(q, T) /\ T \subseteq T \cup {e}
    BY DEF IsSorted
  <2> QED BY <2>1, HoldsIn, SeqMonotonic
<1>3. /\ Len(w) = Len(q) + 1
      /\ \A i \in 1..Len(q)+1 : w[i] = IF i < p THEN q[i] ELSE IF i = p THEN e ELSE q[i - 1]
  <2> DEFINE U == T \cup {e}
  <2>1. e \in U /\ q \in Seq(U)
    BY <1>2
  <2> HIDE DEF U
  <2> QED BY <2>1, WithElement
<1> HIDE DEF w
<1>4. ASSUME NEW i \in 1..Len(w), NEW j \in 1..Len(w), i < j
      PROVE  Before(r, w[i], w[j])
  <2>1. i \in 1..Len(q)+1 /\ j \in 1..Len(q)+1
    BY <1>3
  <2>2. CASE j < p
    <3>1. w[i] = q[i] /\ w[j] = q[j] /\ i \in 1..Len(q) /\ j \in 1..Len(q)
      BY <1>2, <1>3, <1>4, <2>1, <2>2
    <3> QED BY <1>4, <3>1 DEF IsSorted
  <2>3. CASE j = p
    <3>1. w[i] = q[i] /\ w[j] = e /\ i \in 1..Len(q)
      BY <1>2, <1>3, <1>4, <2>1, <2>3
    <3>2. ~Before(r, e, q[i]) /\ q[i] # e /\ q[i] \in T \cup {e} /\ e \in T \cup {e}
      BY <1>2, <1>4, <2>3, <3>1
    <3>3. Before(r, q[i], e)
      <4> DEFINE U == T \cup {e}
      <4>1. Distinct(U) /\ q[i] \in U /\ e \in U
        BY <3>2
      <4> HIDE DEF U
      <4> QED BY <3>2, <4>1, KeyOrder
    <3> QED BY <3>1, <3>3
  <2>4. CASE i = p
    <3>1. w[i] = e /\ w[j] = q[j - 1] /\ j - 1 \in 1..Len(q) /\ ~(j - 1 < p)
      BY <1>2, <1>3, <1>4, <2>1, <2>4
    <3> QED BY <3>1
  <2>5. CASE i < p /\ j > p
    <3>1. w[i] = q[i] /\ w[j] = q[j - 1] /\ i \in 1..Len(q) /\ j - 1 \in 1..Len(q) /\ i < j - 1
      BY <1>2, <1>3, <1>4, <2>1, <2>5
    <3> QED BY <3>1 DEF IsSorted
  <2>6. CASE i > p
    <3>1. /\ w[i] = q[i - 1] /\ w[j] = q[j - 1] /\ i - 1 \in 1..Len(q) /\ j - 1 \in 1..Len(q)
          /\ i - 1 < j - 1
      BY <1>2, <1>3, <1>4, <2>1, <2>6
    <3> QED BY <3>1 DEF IsSorted
  <2>7. i > p \/ i = p \/ j = p \/ j < p \/ (i < p /\ j > p)
    BY <1>2, <2>1
  <2> QED BY <2>2, <2>3, <2>4, <2>5, <2>6, <2>7
<1> QED BY <1>1, <1>4 DEF IsSorted, w

LEMMA SortedWithout ==
    ASSUME NEW r, NEW q, NEW T, IsSorted(r, q, T), NEW p \in 1..Len(q)
    PROVE  IsSorted(r, Without(q, p), T \ {q[p]})
<1> DEFINE w == Without(q, p)
<1>1. Holds(w, T \ {q[p]})
  BY HoldsWithout DEF IsSorted
<1>2. q \in Seq(T) /\ Len(q) \in Nat
  BY HoldsIn DEF IsSorted
<1>3. /\ Len(w) = Len(q) - 1
      /\ \A i \in 1..Len(q)-1 : w[i] = IF i < p THEN q[i] ELSE q[i + 1]
  BY <1>2, WithoutElement
<1> HIDE DEF w
<1>4. ASSUME NEW i \in 1..Len(w), NEW j \in 1..Len(w), i < j
      PROVE  Before(r, w[i], w[j])
  <2> DEFINE at(k) == IF k < p THEN k ELSE k + 1
  <2>1. w[i] = q[at(i)] /\ w[j] = q[at(j)]
    BY <1>3
  <2>2. at(i) \in 1..Len(q) /\ at(j) \in 1..Len(q) /\ at(i) < at(j)
    BY <1>2, <1>3, <1>4
  <2> QED BY <2>1, <2>2 DEF IsSorted
<1> QED BY <1>1, <1>4 DEF IsSorted, w

LEMMA SortedNext ==
    ASSUME NEW r \in BOOLEAN, NEW q, NEW T, IsSorted(r, q, T), T # {},
           NEW n, n = IF r THEN q[Len(q)] ELSE q[1]
    PROVE  /\ n \in T /\ \A ev \in T \ {n} : KeyLess(n, ev)
           /\ IsSorted(r, IF r THEN SubSeq(q, 1, Len(q) - 1) ELSE Tail(q), T \ {n})
<1>1. q \in Seq(T) /\ Len(q) \in Nat /\ q # << >> /\ \A i \in 1..Len(q) : q[i] \in T
  BY HoldsIn DEF IsSorted
<1>2. /\ Len(q) \in Nat \ {0}
      /\ Tail(q) = Without(q, 1) /\ SubSeq(q, 1, Len(q) - 1) = Without(q, Len(q))
  BY <1>1, Ends
<1>3. n \in T
  BY <1>1, <1>2
<1>4. ASSUME NEW ev \in T \ {n} PROVE KeyLess(n, ev)
  <2>1. PICK i \in 1..Len(q) : q[i] = ev
    BY DEF IsSorted, Holds
  <2>2. CASE r
    <3>1. i < Len(q) /\ Len(q) \in 1..Len(q)
      BY <1>2, <2>1, <2>2
    <3>2. Before(r, q[i], q[Len(q)])
      BY <3>1 DEF IsSorted
    <3> QED BY <2>1, <2>2, <3>2 DEF Before
  <2>3. CASE ~r
    <3>1. 1 < i /\ 1 \in 1..Len(q)
      BY <1>2, <2>1, <2>3
    <3>2. Before(r, q[1], q[i])
      BY <3>1 DEF IsSorted
    <3> QED BY <2>1, <2>3, <3>2 DEF Before
  <2> QED BY <2>2, <2>3
<1>5. CASE r
  <2>1. Len(q) \in 1..Len(q)
    BY <1>2
  <2>2. IsSorted(r, Without(q, Len(q)), T \ {q[Len(q)]})
    BY <2>1, SortedWithout
  <2> QED BY <1>2, <1>3, <1>4, <1>5, <2>2
<1>6. CASE ~r
  <2>1. 1 \in 1..Len(q)
    BY <1>2
  <2>2. IsSorted(r, Without(q, 1), T \ {q[1]})
    BY <2>1, SortedWithout
  <2> QED BY <1>2, <1>3, <1>4, <1>6, <2>2
<1> QED BY <1>5, <1>6

(* Where a list lets a new event in. *)

LEMMA HasLeast ==
    ASSUME NEW S \in SUBSET Nat, S # {}
    PROVE  \E m \in S : \A n \in S : m <= n
<1> DEFINE less == {ss \in Nat \X Nat : ss[1] < ss[2]}
<1>1. IsWellFoundedOn(less, Nat)
  BY NatLessThanWellFounded DEF OpToRel
<1>2. PICK m \in S : \A n \in S : <<n, m>> \notin less
  <2> HIDE DEF less
  <2> QED BY <1>1, WFMin
<1>3. ASSUME NEW n \in S PROVE m <= n
  <2>1. n \in Nat /\ m \in Nat /\ <<n, m>> \in Nat \X Nat /\ <<n, m>> \notin less
    BY <1>2
  <2>2. ~(n < m)
    BY <2>1
  <2> QED BY <2>1, <2>2
<1> QED BY <1>3

LEMMA LeastIs ==
    ASSUME NEW S \in SUBSET Nat, S # {}, NEW p, p = CHOOSE n \in S : \A m \in S : n <= m
    PROVE  p \in S /\ \A m \in S : p <= m
<1>1. \E n \in S : \A m \in S : n <= m
  BY HasLeast
<1> QED BY <1>1, Zenon

LEMMA SortedInsert ==
    ASSUME NEW r \in BOOLEAN, NEW q, NEW T, IsSorted(r, q, T), NEW e, e \notin T,
           Distinct(T \cup {e}), NEW p,
           \/ p = Len(q) + 1 /\ \A k \in 1..Len(q) : ~Before(r, e, q[k])
           \/ /\ p \in 1..Len(q) /\ Before(r, e, q[p])
              /\ \A k \in 1..Len(q) : Before(r, e, q[k]) => p <= k
    PROVE  IsSorted(r, With(q, p, e), T \cup {e})
<1>1. Len(q) \in Nat /\ \A i \in 1..Len(q) : q[i] \in T
  BY HoldsIn DEF IsSorted
<1>2. p \in 1..Len(q)+1
  BY <1>1
<1>3. ASSUME NEW k \in 1..Len(q)
      PROVE  IF k < p THEN ~Before(r, e, q[k]) ELSE Before(r, e, q[k])
  <2>1. CASE k < p
    <3>1. Before(r, e, q[k]) => p <= k \/ (p = Len(q) + 1 /\ ~Before(r, e, q[k]))
      OBVIOUS
    <3>2. ~(p <= k)
      BY <1>1, <1>2, <2>1
    <3> QED BY <2>1, <3>1, <3>2
  <2>2. CASE ~(k < p)
    <3>1. p \in 1..Len(q) /\ Before(r, e, q[p])
      BY <1>1, <1>2, <2>2
    <3>2. k = p \/ p < k
      BY <1>1, <1>2, <2>2
    <3>3. p < k => Before(r, q[p], q[k])
      BY <3>1 DEF IsSorted
    <3>4. q[p] \in T /\ q[k] \in T
      BY <1>1, <3>1
    <3>5. Before(r, e, q[k])
      <4> DEFINE U == T \cup {e}
      <4>1. Distinct(U) /\ q[p] \in U /\ q[k] \in U /\ e \in U
        BY <3>4
      <4> HIDE DEF U
      <4>2. Before(r, e, q[p]) /\ Before(r, q[p], q[k]) => Before(r, e, q[k])
        BY <4>1, KeyOrder
      <4> QED BY <3>1, <3>2, <3>3, <4>2
    <3> QED BY <2>2, <3>5
  <2> QED BY <2>1, <2>2
<1> QED BY <1>2, <1>3, SortedWith

(* Which event is the earliest. *)
IsEarliest(n, S) == n \in S /\ \A ev \in S \ {n} : KeyLess(n, ev)

LEMMA OneEarliest ==
    ASSUME NEW S, Distinct(S), NEW n, IsEarliest(n, S), NEW m, IsEarliest(m, S)
    PROVE  m = n
<1> SUFFICES ASSUME m # n PROVE FALSE
  OBVIOUS
<1>1. KeyLess(n, m) /\ KeyLess(m, n) /\ n \in S /\ m \in S
  BY DEF IsEarliest
<1>2. Before(FALSE, n, m) => ~Before(FALSE, m, n)
  BY <1>1, KeyOrder
<1> QED BY <1>1, <1>2 DEF Before

LEMMA EarliestIs ==
    ASSUME NEW S, Distinct(S), NEW n, IsEarliest(n, S)
    PROVE  EarliestOf(S) = n
<1>1. IsEarliest(EarliestOf(S), S)
  BY Zenon DEF EarliestOf, IsEarliest
<1> QED BY <1>1, OneEarliest

LEMMA HasEarliest ==
    ASSUME NEW S, Distinct(S), S # {}
    PROVE  \E n : IsEarliest(n, S)
<1>1. \A ev \in S : ev.ts \in Nat /\ ev.uid \in Nat
  BY DEF Distinct, Event
<1>2. PICK t \in {ev.ts : ev \in S} : \A u \in {ev.ts : ev \in S} : t <= u
  <2> DEFINE A == {ev.ts : ev \in S}
  <2>1. A \in SUBSET Nat /\ A # {}
    BY <1>1
  <2> HIDE DEF A
  <2>2. \E m \in A : \A n \in A : m <= n
    BY <2>1, HasLeast
  <2> QED BY <2>2 DEF A
<1> DEFINE F == {ev \in S : ev.ts = t}
           B == {ev.uid : ev \in F}
<1>3. PICK b \in B : \A u \in B : b <= u
  <2>1. B \in SUBSET Nat /\ B # {}
    BY <1>1
  <2> HIDE DEF B
  <2> QED BY <2>1, HasLeast
<1>4. PICK n \in F : n.uid = b
  OBVIOUS
<1>5. ASSUME NEW ev \in S \ {n} PROVE KeyLess(n, ev)
  <2>1. t <= ev.ts /\ n.ts = t /\ ev.ts \in Nat /\ t \in Nat
    BY <1>1, <1>2, <1>4
  <2>2. CASE ev.ts = t
    <3>1. ev.uid \in B
      BY <2>2
    <3>2. n.uid <= ev.uid /\ n.uid # ev.uid /\ n.uid \in Nat /\ ev.uid \in Nat
      BY <1>1, <1>3, <1>4, <3>1 DEF Distinct
    <3> QED BY <2>1, <2>2, <3>2 DEF KeyLess
  <2>3. CASE ev.ts # t
    BY <2>1, <2>3 DEF KeyLess
  <2> QED BY <2>2, <2>3
<1>6. IsEarliest(n, S)
  BY <1>4, <1>5 DEF IsEarliest
<1> QED BY <1>6

---------------------------------------------------------------------------
(* The list. *)

LEMMA ListInsert ==
    ASSUME NEW T, IsSorted(FALSE, m_list, T), NEW e, e \notin T, Distinct(T \cup {e}),
           List!Insert(e)
    PROVE  IsSorted(FALSE, m_list', T \cup {e})
<1> DEFINE later == {k \in 1..Len(m_list) : Before(FALSE, e, m_list[k])}
           p == List!Place(m_list, e)
<1>1. p = IF later = {} THEN Len(m_list) + 1
          ELSE CHOOSE i \in later : \A j \in later : i <= j
  BY DEF List!Place, List!KeyLess, KeyLess, Before
<1>2. m_list' = With(m_list, p, e)
  BY DEF List!Insert, List!Seqs!InsertAt, With
<1> HIDE DEF p
<1>3. CASE later = {}
  <2>1. p = Len(m_list) + 1 /\ \A k \in 1..Len(m_list) : ~Before(FALSE, e, m_list[k])
    BY <1>1, <1>3
  <2> QED BY <1>2, <2>1, SortedInsert
<1>4. CASE later # {}
  <2>1. Len(m_list) \in Nat
    BY HoldsIn DEF IsSorted
  <2>2. p = CHOOSE i \in later : \A j \in later : i <= j
    BY <1>1, <1>4
  <2>3. later \in SUBSET Nat
    <3>1. 1..Len(m_list) \subseteq Nat
      BY <2>1
    <3>2. later \subseteq 1..Len(m_list)
      BY Zenon
    <3> QED BY <3>1, <3>2, Zenon
  <2>4. p \in later /\ \A k \in later : p <= k
    <3> HIDE DEF later
    <3> QED BY <1>4, <2>2, <2>3, LeastIs
  <2>5. /\ p \in 1..Len(m_list) /\ Before(FALSE, e, m_list[p])
        /\ \A k \in 1..Len(m_list) : Before(FALSE, e, m_list[k]) => p <= k
    BY <2>4
  <2> QED BY <1>2, <2>5, SortedInsert
<1> QED BY <1>3, <1>4

LEMMA ListNext ==
    ASSUME NEW T, IsSorted(FALSE, m_list, T), T # {}
    PROVE  IsEarliest(List!PeekNext, T)
<1>1. Head(m_list) = m_list[1]
  BY HoldsIn, Ends DEF IsSorted
<1>2. m_list[1] \in T /\ \A ev \in T \ {m_list[1]} : KeyLess(m_list[1], ev)
  BY SortedNext
<1> QED BY <1>1, <1>2 DEF IsEarliest, List!PeekNext

LEMMA ListRemoveNext ==
    ASSUME NEW T, IsSorted(FALSE, m_list, T), T # {}, List!RemoveNext
    PROVE  IsSorted(FALSE, m_list', T \ {List!PeekNext})
<1>1. Head(m_list) = m_list[1]
  BY HoldsIn, Ends DEF IsSorted
<1>2. IsSorted(FALSE, Tail(m_list), T \ {m_list[1]})
  <2>1. IsSorted(FALSE, IF FALSE THEN SubSeq(m_list, 1, Len(m_list) - 1) ELSE Tail(m_list),
                 T \ {m_list[1]})
    BY SortedNext
  <2> QED BY <2>1
<1> QED BY <1>1, <1>2 DEF List!PeekNext, List!RemoveNext

LEMMA ListRemove ==
    ASSUME NEW T, IsSorted(FALSE, m_list, T), Distinct(T), NEW e \in T, List!Remove(e)
    PROVE  IsSorted(FALSE, m_list', T \ {e})
<1>1. PICK i \in 1..Len(m_list) :
         m_list[i].uid = e.uid /\ m_list' = List!Seqs!RemoveAt(m_list, i)
  BY DEF List!Remove
<1>2. m_list[i] = e
  BY <1>1, HoldsIn DEF IsSorted, Distinct
<1>3. m_list' = Without(m_list, i)
  BY <1>1 DEF List!Seqs!RemoveAt, Without
<1> QED BY <1>2, <1>3, SortedWithout

---------------------------------------------------------------------------
(* Loops.  All of them are folds over a sequence; their bodies, by name.   *)

Body(loop, acc, e) ==
    CASE loop.body = "rise" -> Heap!Rise(acc)
      [] loop.body = "sink" -> Heap!Sink(acc)
      [] loop.body = "sample" -> Calendar!Sample(acc)
      [] loop.body = "insert" -> Calendar!DoInsert(acc, e)
      [] loop.body = "bucket" -> Calendar!InsertAll(acc, e)
      [] loop.body = "small gap" -> IF e <= loop.arg THEN acc + e ELSE acc

Loop(body, arg) == [body |-> body, arg |-> arg]

(* From b, the loop gets to v by the first n elements of s. *)
Leads(loop, b, s, n, v) ==
    \E run : /\ run[0] = b /\ run[n] = v
             /\ \A i \in 0..n-1 : run[i + 1] = Body(loop, run[i], s[i + 1])

Top(t) == CHOOSE x \in t : \A y \in t : x >= y

IsIteration(loop, b, s, n, g) ==
    g = [t \in SUBSET (1..n) |-> IF t = {} THEN b
                                 ELSE Body(loop, g[t \ {Top(t)}], s[Top(t)])]

LEMMA Induction ==
    ASSUME NEW P, 0 \in P, \A n \in Nat : n \in P => n + 1 \in P
    PROVE  Nat \subseteq P
<1> DEFINE less == {ss \in Nat \X Nat : ss[1] < ss[2]}
           R == Nat \ P
<1> SUFFICES ASSUME R # {} PROVE FALSE
  OBVIOUS
<1>1. IsWellFoundedOn(less, Nat)
  BY NatLessThanWellFounded DEF OpToRel
<1>2. PICK m \in R : \A n \in R : <<n, m>> \notin less
  <2> HIDE DEF less
  <2> QED BY <1>1, WFMin
<1>3. m # 0 /\ m - 1 \in Nat /\ m - 1 < m /\ m = (m - 1) + 1
  BY <1>2
<1>4. m - 1 \in P
  BY <1>2, <1>3
<1> QED BY <1>2, <1>3, <1>4

(* What holds at the beginning of a run and is kept by each of its steps   *)
(* holds at every one of its states.                                       *)
LEMMA RunInduction ==
    ASSUME NEW n \in Nat, NEW T, NEW run, run[0] \in T[0],
           \A i \in 0..n-1 : run[i] \in T[i] => run[i + 1] \in T[i + 1]
    PROVE  \A i \in 0..n : run[i] \in T[i]
<1> DEFINE P == {i \in Nat : i <= n => run[i] \in T[i]}
<1>1. 0 \in P
  OBVIOUS
<1>2. \A i \in Nat : i \in P => i + 1 \in P
  OBVIOUS
<1> HIDE DEF P
<1>3. Nat \subseteq P
  BY <1>1, <1>2, Induction
<1> QED BY <1>3 DEF P

LEMMA LeadsInduction ==
    ASSUME NEW loop, NEW b, NEW s, NEW n \in Nat, NEW v, Leads(loop, b, s, n, v),
           NEW T, b \in T[0],
           \A i \in 0..n-1 : \A a \in T[i] : Body(loop, a, s[i + 1]) \in T[i + 1]
    PROVE  v \in T[n]
<1>1. PICK run : /\ run[0] = b /\ run[n] = v
                 /\ \A i \in 0..n-1 : run[i + 1] = Body(loop, run[i], s[i + 1])
  BY DEF Leads
<1>2. \A i \in 0..n : run[i] \in T[i]
  <2>1. \A i \in 0..n-1 : run[i] \in T[i] => run[i + 1] \in T[i + 1]
    BY <1>1
  <2> QED BY <1>1, <2>1, RunInduction
<1> QED BY <1>1, <1>2

LEMMA Tops ==
    ASSUME NEW k \in Nat
    PROVE  /\ \A t \in SUBSET (1..k+1) : k + 1 \in t => Top(t) = k + 1
           /\ Top(1..k+1) = k + 1 /\ (1..k+1) \ {k + 1} = 1..k
<1>1. ASSUME NEW t \in SUBSET (1..k+1), k + 1 \in t PROVE Top(t) = k + 1
  <2>1. \A y \in t : k + 1 >= y
    OBVIOUS
  <2>2. PICK x : x = Top(t)
    OBVIOUS
  <2>3. x \in t /\ \A y \in t : x >= y
    BY <1>1, <2>1, <2>2, Zenon DEF Top
  <2>4. x >= k + 1 /\ x \in 1..k+1
    BY <1>1, <2>3
  <2>5. x = k + 1
    BY <2>4
  <2> QED BY <2>2, <2>5
<1>2. 1..k+1 \in SUBSET (1..k+1) /\ k + 1 \in 1..k+1
  OBVIOUS
<1>3. Top(1..k+1) = k + 1
  BY <1>1, <1>2
<1>4. (1..k+1) \ {k + 1} = 1..k
  OBVIOUS
<1> QED BY <1>1, <1>3, <1>4

(* The recursive function by which folds are defined exists. *)
LEMMA IterationExists ==
    ASSUME NEW loop, NEW b, NEW s, NEW n \in Nat
    PROVE  \E g : IsIteration(loop, b, s, n, g)
<1> DEFINE P == {k \in Nat : \E g : IsIteration(loop, b, s, k, g)}
<1>1. 0 \in P
  <2>1. IsIteration(loop, b, s, 0, [t \in SUBSET (1..0) |-> b])
    BY DEF IsIteration
  <2> QED BY <2>1, Zenon
<1>2. ASSUME NEW k \in Nat, k \in P PROVE k + 1 \in P
  <2>1. PICK g : IsIteration(loop, b, s, k, g)
    BY <1>2
  <2> DEFINE h == [t \in SUBSET (1..k+1) |->
                      IF t \in SUBSET (1..k) THEN g[t]
                      ELSE Body(loop, g[t \ {k + 1}], s[k + 1])]
  <2>2. ASSUME NEW t \in SUBSET (1..k+1)
        PROVE  h[t] = IF t = {} THEN b ELSE Body(loop, h[t \ {Top(t)}], s[Top(t)])
    <3>1. CASE k + 1 \in t
      <4>1. Top(t) = k + 1
        BY <3>1, Tops
      <4>2. t \ {k + 1} \in SUBSET (1..k) /\ t \notin SUBSET (1..k) /\ t # {}
            /\ t \ {k + 1} \in SUBSET (1..k+1)
        BY <3>1
      <4>3. h[t \ {k + 1}] = g[t \ {k + 1}]
        BY <4>2
      <4>4. h[t] = Body(loop, g[t \ {k + 1}], s[k + 1])
        BY <4>2
      <4> QED BY <4>1, <4>2, <4>3, <4>4
    <3>2. CASE k + 1 \notin t
      <4>1. t \in SUBSET (1..k) /\ h[t] = g[t]
        BY <3>2
      <4>2. t \ {Top(t)} \in SUBSET (1..k) /\ h[t \ {Top(t)}] = g[t \ {Top(t)}]
        BY <4>1
      <4>3. g[t] = IF t = {} THEN b ELSE Body(loop, g[t \ {Top(t)}], s[Top(t)])
        BY <2>1, <4>1 DEF IsIteration
      <4> QED BY <4>1, <4>2, <4>3
    <3> QED BY <3>1, <3>2
  <2>3. IsIteration(loop, b, s, k + 1, h)
    BY <2>2, Zenon DEF IsIteration
  <2> HIDE DEF h
  <2>4. \E f : IsIteration(loop, b, s, k + 1, f)
    BY <2>3
  <2> QED BY <2>4
<1>3. n \in P
  <2> HIDE DEF P
  <2> QED BY <1>1, <1>2, Induction
<1> QED BY <1>3

LEMMA IterationLeads ==
    ASSUME NEW loop, NEW b, NEW s, NEW n \in Nat, NEW g, IsIteration(loop, b, s, n, g)
    PROVE  Leads(loop, b, s, n, g[1..n])
<1> DEFINE run == [i \in 0..n |-> g[1..i]]
<1>1. run[0] = b /\ run[n] = g[1..n]
  <2>1. 1..0 = {} /\ {} \in SUBSET (1..n)
    OBVIOUS
  <2>2. g[{}] = b
    BY <2>1 DEF IsIteration
  <2>3. 0 \in 0..n /\ n \in 0..n
    OBVIOUS
  <2> QED BY <2>1, <2>2, <2>3
<1>2. ASSUME NEW i \in 0..n-1 PROVE run[i + 1] = Body(loop, run[i], s[i + 1])
  <2>1. i \in Nat /\ i + 1 \in 0..n /\ i \in 0..n
    OBVIOUS
  <2>2. (1..i+1) \in SUBSET (1..n) /\ 1..i+1 # {}
    BY <2>1
  <2>3. Top(1..i+1) = i + 1 /\ (1..i+1) \ {i + 1} = 1..i
    BY <2>1, Tops
  <2>4. g[1..i+1] = Body(loop, g[1..i], s[i + 1])
    BY <2>2, <2>3 DEF IsIteration
  <2> QED BY <2>1, <2>4
<1> HIDE DEF run
<1> QED BY <1>1, <1>2 DEF Leads

---------------------------------------------------------------------------
(* Each of the loops, as it stands in its module. *)

Risen(b, s) == Heap!Seqs!FoldLeft(LAMBDA acc, turn : Heap!Rise(acc), b, s)
Sunken(b, s) == Heap!Seqs!FoldLeft(LAMBDA acc, turn : Heap!Sink(acc), b, s)
Taken(b, s) == Calendar!Seqs!FoldLeft(LAMBDA acc, turn : Calendar!Sample(acc), b, s)
Inserted(b, s) == Calendar!Seqs!FoldLeft(Calendar!DoInsert, b, s)
Transferred(b, s) == Calendar!Seqs!FoldLeft(Calendar!InsertAll, b, s)
SummedUpTo(b, s, limit) ==
    Calendar!Seqs!FoldLeft(LAMBDA acc, gap : IF gap <= limit THEN acc + gap ELSE acc, b, s)

LEMMA RisenLead ==
    ASSUME NEW n \in Nat, NEW s, DOMAIN s = 1..n, NEW b
    PROVE  Leads(Loop("rise", 0), b, s, n, Risen(b, s))
<1> DEFINE loop == Loop("rise", 0)
           Op(acc, e) == Heap!Rise(acc)
           Is(g) == g = [t \in SUBSET (1..n) |->
                            IF t = {} THEN b ELSE Op(g[t \ {Top(t)}], s[Top(t)])]
<1>1. \A acc, e : Body(loop, acc, e) = Op(acc, e)
  BY DEF Body, Loop
<1>2. \A g : IsIteration(loop, b, s, n, g) <=> Is(g)
  <2> HIDE DEF loop, Op
  <2> QED BY <1>1, Zenon DEF IsIteration
<1>3. PICK g : Is(g) /\ Risen(b, s) = g[1..n]
  <2>1. \A t : Heap!Seqs!Max(t) = Top(t)
    BY DEF Heap!Seqs!Max, Top
  <2>2. Risen(b, s) = (CHOOSE g : Is(g))[1..n]
    BY <2>1 DEF Risen, Heap!Seqs!FoldLeft, Heap!Seqs!MapThenFoldSet
  <2>3. \E g : Is(g)
    BY <1>2, IterationExists
  <2> HIDE DEF Is
  <2> QED BY <2>2, <2>3
<1>4. Leads(loop, b, s, n, g[1..n])
  BY <1>2, <1>3, IterationLeads
<1> QED BY <1>3, <1>4

LEMMA SunkenLead ==
    ASSUME NEW n \in Nat, NEW s, DOMAIN s = 1..n, NEW b
    PROVE  Leads(Loop("sink", 0), b, s, n, Sunken(b, s))
<1> DEFINE loop == Loop("sink", 0)
           Op(acc, e) == Heap!Sink(acc)
           Is(g) == g = [t \in SUBSET (1..n) |->
                            IF t = {} THEN b ELSE Op(g[t \ {Top(t)}], s[Top(t)])]
<1>1. \A acc, e : Body(loop, acc, e) = Op(acc, e)
  BY DEF Body, Loop
<1>2. \A g : IsIteration(loop, b, s, n, g) <=> Is(g)
  <2> HIDE DEF loop, Op
  <2> QED BY <1>1, Zenon DEF IsIteration
<1>3. PICK g : Is(g) /\ Sunken(b, s) = g[1..n]
  <2>1. \A t : Heap!Seqs!Max(t) = Top(t)
    BY DEF Heap!Seqs!Max, Top
  <2>2. Sunken(b, s) = (CHOOSE g : Is(g))[1..n]
    BY <2>1 DEF Sunken, Heap!Seqs!FoldLeft, Heap!Seqs!MapThenFoldSet
  <2>3. \E g : Is(g)
    BY <1>2, IterationExists
  <2> HIDE DEF Is
  <2> QED BY <2>2, <2>3
<1>4. Leads(loop, b, s, n, g[1..n])
  BY <1>2, <1>3, IterationLeads
<1> QED BY <1>3, <1>4

LEMMA TakenLead ==
    ASSUME NEW n \in Nat, NEW s, DOMAIN s = 1..n, NEW b
    PROVE  Leads(Loop("sample", 0), b, s, n, Taken(b, s))
<1> DEFINE loop == Loop("sample", 0)
           Op(acc, e) == Calendar!Sample(acc)
           Is(g) == g = [t \in SUBSET (1..n) |->
                            IF t = {} THEN b ELSE Op(g[t \ {Top(t)}], s[Top(t)])]
<1>1. \A acc, e : Body(loop, acc, e) = Op(acc, e)
  BY DEF Body, Loop
<1>2. \A g : IsIteration(loop, b, s, n, g) <=> Is(g)
  <2> HIDE DEF loop, Op
  <2> QED BY <1>1, Zenon DEF IsIteration
<1>3. PICK g : Is(g) /\ Taken(b, s) = g[1..n]
  <2>1. \A t : Calendar!Seqs!Max(t) = Top(t)
    BY DEF Calendar!Seqs!Max, Top
  <2>2. Taken(b, s) = (CHOOSE g : Is(g))[1..n]
    BY <2>1 DEF Taken, Calendar!Seqs!FoldLeft, Calendar!Seqs!MapThenFoldSet
  <2>3. \E g : Is(g)
    BY <1>2, IterationExists
  <2> HIDE DEF Is
  <2> QED BY <2>2, <2>3
<1>4. Leads(loop, b, s, n, g[1..n])
  BY <1>2, <1>3, IterationLeads
<1> QED BY <1>3, <1>4

LEMMA InsertedLead ==
    ASSUME NEW n \in Nat, NEW s, DOMAIN s = 1..n, NEW b
    PROVE  Leads(Loop("insert", 0), b, s, n, Inserted(b, s))
<1> DEFINE loop == Loop("insert", 0)
           Op(acc, e) == Calendar!DoInsert(acc, e)
           Is(g) == g = [t \in SUBSET (1..n) |->
                            IF t = {} THEN b ELSE Op(g[t \ {Top(t)}], s[Top(t)])]
<1>1. \A acc, e : Body(loop, acc, e) = Op(acc, e)
  BY DEF Body, Loop
<1>2. \A g : IsIteration(loop, b, s, n, g) <=> Is(g)
  <2> HIDE DEF loop, Op
  <2> QED BY <1>1, Zenon DEF IsIteration
<1>3. PICK g : Is(g) /\ Inserted(b, s) = g[1..n]
  <2>1. \A t : Calendar!Seqs!Max(t) = Top(t)
    BY DEF Calendar!Seqs!Max, Top
  <2>2. Inserted(b, s) = (CHOOSE g : Is(g))[1..n]
    BY <2>1 DEF Inserted, Calendar!Seqs!FoldLeft, Calendar!Seqs!MapThenFoldSet
  <2>3. \E g : Is(g)
    BY <1>2, IterationExists
  <2> HIDE DEF Is
  <2> QED BY <2>2, <2>3
<1>4. Leads(loop, b, s, n, g[1..n])
  BY <1>2, <1>3, IterationLeads
<1> QED BY <1>3, <1>4

LEMMA TransferredLead ==
    ASSUME NEW n \in Nat, NEW s, DOMAIN s = 1..n, NEW b
    PROVE  Leads(Loop("bucket", 0), b, s, n, Transferred(b, s))
<1> DEFINE loop == Loop("bucket", 0)
           Op(acc, e) == Calendar!InsertAll(acc, e)
           Is(g) == g = [t \in SUBSET (1..n) |->
                            IF t = {} THEN b ELSE Op(g[t \ {Top(t)}], s[Top(t)])]
<1>1. \A acc, e : Body(loop, acc, e) = Op(acc, e)
  BY DEF Body, Loop
<1>2. \A g : IsIteration(loop, b, s, n, g) <=> Is(g)
  <2> HIDE DEF loop, Op
  <2> QED BY <1>1, Zenon DEF IsIteration
<1>3. PICK g : Is(g) /\ Transferred(b, s) = g[1..n]
  <2>1. \A t : Calendar!Seqs!Max(t) = Top(t)
    BY DEF Calendar!Seqs!Max, Top
  <2>2. Transferred(b, s) = (CHOOSE g : Is(g))[1..n]
    BY <2>1 DEF Transferred, Calendar!Seqs!FoldLeft, Calendar!Seqs!MapThenFoldSet
  <2>3. \E g : Is(g)
    BY <1>2, IterationExists
  <2> HIDE DEF Is
  <2> QED BY <2>2, <2>3
<1>4. Leads(loop, b, s, n, g[1..n])
  BY <1>2, <1>3, IterationLeads
<1> QED BY <1>3, <1>4

LEMMA SummedUpToLead ==
    ASSUME NEW n \in Nat, NEW s, DOMAIN s = 1..n, NEW b, NEW limit
    PROVE  Leads(Loop("small gap", limit), b, s, n, SummedUpTo(b, s, limit))
<1> DEFINE loop == Loop("small gap", limit)
           Op(acc, e) == IF e <= limit THEN acc + e ELSE acc
           Is(g) == g = [t \in SUBSET (1..n) |->
                            IF t = {} THEN b ELSE Op(g[t \ {Top(t)}], s[Top(t)])]
<1>1. \A acc, e : Body(loop, acc, e) = Op(acc, e)
  BY DEF Body, Loop
<1>2. \A g : IsIteration(loop, b, s, n, g) <=> Is(g)
  <2> HIDE DEF loop, Op
  <2> QED BY <1>1, Zenon DEF IsIteration
<1>3. PICK g : Is(g) /\ SummedUpTo(b, s, limit) = g[1..n]
  <2>1. \A t : Calendar!Seqs!Max(t) = Top(t)
    BY DEF Calendar!Seqs!Max, Top
  <2>2. SummedUpTo(b, s, limit) = (CHOOSE g : Is(g))[1..n]
    BY <2>1 DEF SummedUpTo, Calendar!Seqs!FoldLeft, Calendar!Seqs!MapThenFoldSet
  <2>3. \E g : Is(g)
    BY <1>2, IterationExists
  <2> HIDE DEF Is
  <2> QED BY <2>2, <2>3
<1>4. Leads(loop, b, s, n, g[1..n])
  BY <1>2, <1>3, IterationLeads
<1> QED BY <1>3, <1>4

---------------------------------------------------------------------------
(* The heap. *)

LEMMA HeapKeys ==
    ASSUME NEW a, NEW b
    PROVE  (Heap!KeyLess(a, b) <=> KeyLess(a, b)) /\ (Calendar!KeyLess(a, b) <=> KeyLess(a, b))
  BY DEF Heap!KeyLess, Calendar!KeyLess, KeyLess

LEMMA KeysOf ==
    ASSUME NEW T, Distinct(T), NEW a \in T, NEW b \in T
    PROVE  /\ KeyLess(a, b) => ~KeyLess(b, a)
           /\ a # b => KeyLess(a, b) \/ KeyLess(b, a)
           /\ \A c \in T : KeyLess(a, b) /\ KeyLess(b, c) => KeyLess(a, c)
<1>1. \A c \in T : Before(FALSE, a, b) /\ Before(FALSE, b, c) => Before(FALSE, a, c)
  BY KeyOrder
<1>2. /\ Before(FALSE, a, b) => ~Before(FALSE, b, a)
      /\ a # b => Before(FALSE, a, b) \/ Before(FALSE, b, a)
  BY KeyOrder
<1> QED BY <1>1, <1>2 DEF Before

LEMMA Exchanged ==
    ASSUME NEW T, NEW h, Holds(h, T), NEW a \in 1..Len(h), NEW b \in 1..Len(h)
    PROVE  /\ Holds(Heap!Exch(h, a, b), T) /\ Len(Heap!Exch(h, a, b)) = Len(h)
           /\ \A k \in 1..Len(h) : Heap!Exch(h, a, b)[k] =
                 h[IF k = a THEN b ELSE IF k = b THEN a ELSE k]
<1> DEFINE at(k) == IF k = a THEN b ELSE IF k = b THEN a ELSE k
           x == Heap!Exch(h, a, b)
<1>1. h \in Seq(T) /\ Len(h) \in Nat /\ DOMAIN h = 1..Len(h) /\ \A i \in 1..Len(h) : h[i] \in T
  BY HoldsIn
<1>2. x = [k \in 1..Len(h) |-> h[at(k)]]
  <2>1. h = [k \in 1..Len(h) |-> h[k]]
    BY <1>1
  <2> QED BY <1>1, <2>1 DEF Heap!Exch
<1>3. \A k \in 1..Len(h) : at(k) \in 1..Len(h) /\ at(at(k)) = k
  OBVIOUS
<1>4. x \in [1..Len(h) -> T]
  BY <1>1, <1>2, <1>3
<1>5. x \in Seq(T) /\ Len(x) = Len(h)
  BY <1>1, <1>4
<1>6. \A k \in 1..Len(h) : x[k] = h[at(k)]
  BY <1>2
<1> HIDE DEF x
<1>7. ASSUME NEW ev \in T PROVE \E i \in 1..Len(x) : x[i] = ev
  <2>1. PICK i \in 1..Len(h) : h[i] = ev
    BY DEF Holds
  <2>2. at(i) \in 1..Len(x) /\ x[at(i)] = h[at(at(i))]
    BY <1>3, <1>5, <1>6
  <2> QED BY <1>3, <2>1, <2>2
<1>8. ASSUME NEW i \in 1..Len(x), NEW j \in 1..Len(x), i # j PROVE x[i] # x[j]
  <2>1. x[i] = h[at(i)] /\ x[j] = h[at(j)] /\ at(i) # at(j)
    BY <1>3, <1>5, <1>6, <1>8
  <2>2. at(i) \in 1..Len(h) /\ at(j) \in 1..Len(h)
    BY <1>3, <1>5
  <2> HIDE DEF at
  <2> QED BY <2>1, <2>2 DEF Holds
<1>9. Holds(x, T)
  BY <1>5, <1>7, <1>8 DEF Holds
<1> QED BY <1>5, <1>6, <1>9 DEF x

(* The event at i may be before its parent, and is in order otherwise. *)
Rising(h, i) ==
    /\ \A j \in 2..Len(h) : j # i => KeyLess(h[j \div 2], h[j])
    /\ \A j \in 2..Len(h) : j \div 2 = i /\ i > 1 => KeyLess(h[i \div 2], h[j])

(* The states of BottomUp after k turns, which started at i with a heap or *)
(* not.                                                                    *)
RiseStates(T, n, i, ordered, k) ==
    {s \in [heap : Seq(T), index : 1..n] :
        /\ Holds(s.heap, T) /\ Len(s.heap) = n
        /\ ordered => /\ Rising(s.heap, s.index)
                      /\ IsHeap(s.heap) \/ s.index <= i - k}

LEMMA RiseOnce ==
    ASSUME NEW T, Distinct(T), NEW n \in Nat, NEW i \in Nat, NEW ordered \in BOOLEAN,
           NEW k \in Nat, NEW s \in RiseStates(T, n, i, ordered, k)
    PROVE  Heap!Rise(s) \in RiseStates(T, n, i, ordered, k + 1)
<1> DEFINE h == s.heap
           c == s.index
           p == c \div 2
<1>1. /\ s \in [heap : Seq(T), index : 1..n] /\ Holds(h, T) /\ Len(h) = n /\ c \in 1..n
      /\ ordered => Rising(h, c) /\ (IsHeap(h) \/ c <= i - k)
  BY DEF RiseStates
<1>2. \A j \in 1..n : h[j] \in T
  BY <1>1, HoldsIn
<1>3. \A a, b \in 1..n : a # b => h[a] # h[b]
  BY <1>1 DEF Holds
<1>4. CASE c = 1 \/ ~KeyLess(h[c], h[p])
  <2>1. Heap!Rise(s) = s
    BY <1>4, HeapKeys DEF Heap!Rise
  <2>2. ordered => IsHeap(h)
    <3> SUFFICES ASSUME ordered, NEW j \in 2..Len(h) PROVE KeyLess(h[j \div 2], h[j])
      BY DEF IsHeap
    <3>1. CASE j # c
      BY <1>1, <3>1 DEF Rising
    <3>2. CASE j = c
      <4>1. p \in 1..n /\ p # c /\ c # 1
        BY <1>1, <3>2
      <4>2. h[c] \in T /\ h[p] \in T /\ h[c] # h[p] /\ ~KeyLess(h[c], h[p])
        BY <1>1, <1>2, <1>3, <1>4, <4>1
      <4>3. KeyLess(h[p], h[c])
        BY <4>2, KeysOf
      <4> QED BY <3>2, <4>3
    <3> QED BY <3>1, <3>2
  <2> QED BY <1>1, <2>1, <2>2 DEF RiseStates
<1>5. CASE c # 1 /\ KeyLess(h[c], h[p])
  <2> DEFINE x == Heap!Exch(h, c, p)
  <2>1. p \in 1..n /\ p < c /\ c \in 2..n
    BY <1>1, <1>5
  <2>2. Heap!Rise(s) = [heap |-> x, index |-> p]
    BY <1>5, HeapKeys DEF Heap!Rise
  <2>3. /\ Holds(x, T) /\ Len(x) = n
        /\ \A j \in 1..n : x[j] = h[IF j = c THEN p ELSE IF j = p THEN c ELSE j]
    <3>1. c \in 1..Len(h) /\ p \in 1..Len(h) /\ Holds(h, T)
      BY <1>1, <2>1
    <3> HIDE DEF h, c, p
    <3>2. /\ Holds(x, T) /\ Len(x) = Len(h)
          /\ \A j \in 1..Len(h) : x[j] = h[IF j = c THEN p ELSE IF j = p THEN c ELSE j]
      BY <3>1, Exchanged
    <3> QED BY <1>1, <3>2
  <2>4. x \in Seq(T)
    BY <2>3, HoldsIn
  <2> HIDE DEF x
  <2>5. ASSUME ordered PROVE Rising(x, p)
    <3>1. \A j \in 2..n : j # c => KeyLess(h[j \div 2], h[j])
      BY <1>1, <2>5 DEF Rising
    <3>2. \A j \in 2..n : j \div 2 = c => KeyLess(h[p], h[j])
      BY <1>1, <1>5, <2>5 DEF Rising
    <3>3. ASSUME NEW j \in 2..n, j # p PROVE KeyLess(x[j \div 2], x[j])
      <4>1. j \div 2 \in 1..n /\ j \in 1..n
        OBVIOUS
      <4>2. CASE j = c
        <5>1. x[j] = h[p] /\ x[j \div 2] = h[c]
          BY <2>1, <2>3, <4>1, <4>2
        <5> QED BY <1>5, <5>1
      <4>3. CASE j # c /\ j \div 2 = c
        <5>1. x[j] = h[j] /\ x[j \div 2] = h[p]
          BY <2>1, <2>3, <3>3, <4>1, <4>3
        <5> QED BY <3>2, <4>3, <5>1
      <4>4. CASE j # c /\ j \div 2 = p
        <5>1. x[j] = h[j] /\ x[j \div 2] = h[c]
          BY <2>1, <2>3, <3>3, <4>1, <4>4
        <5>2. KeyLess(h[c], h[p]) /\ KeyLess(h[p], h[j])
          BY <1>5, <3>1, <4>4
        <5>3. h[c] \in T /\ h[p] \in T /\ h[j] \in T
          BY <1>1, <1>2, <2>1, <4>1
        <5> QED BY <5>1, <5>2, <5>3, KeysOf
      <4>5. CASE j # c /\ j \div 2 # c /\ j \div 2 # p
        <5>1. x[j] = h[j] /\ x[j \div 2] = h[j \div 2]
          BY <2>1, <2>3, <3>3, <4>1, <4>5
        <5> QED BY <3>1, <4>5, <5>1
      <4> QED BY <4>2, <4>3, <4>4, <4>5
    <3>4. ASSUME NEW j \in 2..n, j \div 2 = p, p > 1 PROVE KeyLess(x[p \div 2], x[j])
      <4>1. p \div 2 \in 1..n /\ p \div 2 # p /\ p \div 2 # c /\ p \in 2..n /\ j \in 1..n /\ j # p
        BY <2>1, <3>4
      <4>2. x[p \div 2] = h[p \div 2]
        BY <2>3, <4>1
      <4>3. KeyLess(h[p \div 2], h[p])
        BY <2>1, <3>1, <4>1
      <4>4. CASE j = c
        <5>1. x[j] = h[p]
          BY <2>3, <4>1, <4>4
        <5> QED BY <4>2, <4>3, <5>1
      <4>5. CASE j # c
        <5>1. x[j] = h[j] /\ KeyLess(h[p], h[j])
          BY <2>3, <3>1, <3>4, <4>1, <4>5
        <5>2. h[p \div 2] \in T /\ h[p] \in T /\ h[j] \in T
          BY <1>2, <2>1, <4>1
        <5> QED BY <4>2, <4>3, <5>1, <5>2, KeysOf
      <4> QED BY <4>4, <4>5
    <3> QED BY <2>3, <3>3, <3>4 DEF Rising
  <2>6. ASSUME ordered PROVE p <= i - (k + 1)
    <3>1. ~IsHeap(h)
      <4>1. IsHeap(h) => KeyLess(h[p], h[c])
        BY <1>1, <2>1 DEF IsHeap
      <4>2. h[c] \in T /\ h[p] \in T
        BY <1>1, <1>2, <2>1
      <4> QED BY <1>5, <4>1, <4>2, KeysOf
    <3>2. c <= i - k
      BY <1>1, <2>6, <3>1
    <3> QED BY <1>1, <2>1, <3>2
  <2> QED BY <2>1, <2>2, <2>3, <2>4, <2>5, <2>6 DEF RiseStates
<1> QED BY <1>4, <1>5

LEMMA AppendIsWith ==
    ASSUME NEW T, NEW q \in Seq(T), NEW e \in T
    PROVE  Append(q, e) = With(q, Len(q) + 1, e)
<1>1. Len(q) \in Nat /\ Len(q) + 1 \in 1..Len(q)+1
  BY LenProperties
<1>2. /\ Append(q, e) \in Seq(T) /\ Len(Append(q, e)) = Len(q) + 1
      /\ \A i \in 1..Len(q) : Append(q, e)[i] = q[i]
      /\ Append(q, e)[Len(q) + 1] = e
  BY AppendProperties
<1> DEFINE p == Len(q) + 1
           w == With(q, p, e)
<1>3. /\ w \in Seq(T) /\ Len(w) = Len(q) + 1
      /\ \A i \in 1..Len(q)+1 :
            w[i] = IF i < Len(q) + 1 THEN q[i] ELSE IF i = Len(q) + 1 THEN e ELSE q[i - 1]
  <2>1. p \in 1..Len(q)+1
    BY <1>1
  <2> HIDE DEF p
  <2>2. /\ With(q, p, e) \in Seq(T) /\ Len(With(q, p, e)) = Len(q) + 1
        /\ \A i \in 1..Len(q)+1 :
              With(q, p, e)[i] = IF i < p THEN q[i] ELSE IF i = p THEN e ELSE q[i - 1]
    BY ONLY <2>1, WithElement, q \in Seq(T), e \in T
  <2> QED BY <2>2 DEF p
<1> HIDE DEF w
<1>4. ASSUME NEW i \in 1..Len(q)+1 PROVE Append(q, e)[i] = w[i]
  <2>1. CASE i = Len(q) + 1
    BY <1>1, <1>2, <1>3, <2>1
  <2>2. CASE i # Len(q) + 1
    <3>1. i \in 1..Len(q) /\ i < Len(q) + 1
      BY <1>1, <2>2
    <3> QED BY <1>2, <1>3, <3>1
  <2> QED BY <2>1, <2>2
<1>5. Append(q, e) = w
  BY <1>2, <1>3, <1>4, SeqEqual
<1> QED BY <1>5 DEF w, p

LEMMA HoldsAppend ==
    ASSUME NEW q, NEW T, Holds(q, T), NEW e, e \notin T
    PROVE  /\ Holds(Append(q, e), T \cup {e}) /\ Len(Append(q, e)) = Len(q) + 1
           /\ \A i \in 1..Len(q) : Append(q, e)[i] = q[i]
           /\ Append(q, e)[Len(q) + 1] = e
<1> DEFINE U == T \cup {e}
<1>1. q \in Seq(U) /\ e \in U /\ Len(q) \in Nat /\ Len(q) + 1 \in 1..Len(q)+1
  <2>1. q \in Seq(T) /\ T \subseteq U /\ Len(q) \in Nat
    BY HoldsIn
  <2> QED BY <2>1, SeqMonotonic
<1>2. Holds(With(q, Len(q) + 1, e), U)
  BY <1>1, HoldsWith
<1> HIDE DEF U
<1>3. Append(q, e) = With(q, Len(q) + 1, e)
  BY <1>1, AppendIsWith
<1>4. /\ Len(Append(q, e)) = Len(q) + 1
      /\ \A i \in 1..Len(q) : Append(q, e)[i] = q[i]
      /\ Append(q, e)[Len(q) + 1] = e
  BY <1>1, AppendProperties
<1>5. Holds(Append(q, e), U)
  BY <1>2, <1>3
<1> QED BY <1>4, <1>5 DEF U

LEMMA BottomUpRises ==
    ASSUME NEW T, Distinct(T), NEW h, Holds(h, T), NEW i \in 1..Len(h),
           NEW ordered \in BOOLEAN, ordered => Rising(h, i)
    PROVE  Holds(Heap!BottomUp(h, i), T) /\ (ordered => IsHeap(Heap!BottomUp(h, i)))
<1> DEFINE n == Len(h)
           b == [heap |-> h, index |-> i]
           loop == Loop("rise", 0)
           turns == Heap!Turns(i)
           v == Risen(b, turns)
           A == [k \in 0..i |-> RiseStates(T, n, i, ordered, k)]
<1>1. h \in Seq(T) /\ n \in Nat /\ i \in Nat /\ i >= 1
  BY HoldsIn
<1>2. Heap!BottomUp(h, i) = v.heap
  BY DEF Heap!BottomUp, Risen
<1>3. Leads(loop, b, turns, i, v)
  <2>1. DOMAIN turns = 1..i
    BY DEF Heap!Turns
  <2> QED BY <1>1, <2>1, RisenLead
<1>4. b \in RiseStates(T, n, i, ordered, 0)
  BY <1>1 DEF RiseStates
<1>5. b \in A[0]
  BY <1>1, <1>4
<1>6. ASSUME NEW k \in 0..i-1, NEW s \in A[k] PROVE Body(loop, s, turns[k + 1]) \in A[k + 1]
  <2>1. k \in Nat /\ k \in 0..i /\ k + 1 \in 0..i
    BY <1>1
  <2>2. Body(loop, s, turns[k + 1]) = Heap!Rise(s)
    BY DEF Body, Loop
  <2>3. s \in RiseStates(T, n, i, ordered, k)
    BY <2>1
  <2>4. Heap!Rise(s) \in RiseStates(T, n, i, ordered, k + 1)
    BY <1>1, <2>1, <2>3, RiseOnce
  <2> QED BY <2>1, <2>2, <2>4
<1>7. v \in A[i]
  <2> HIDE DEF A, v, b, loop, turns
  <2> QED BY <1>1, <1>3, <1>5, <1>6, LeadsInduction
<1>8. v \in RiseStates(T, n, i, ordered, i)
  BY <1>1, <1>7
<1> HIDE DEF v
<1>9. /\ Holds(v.heap, T) /\ v.index \in 1..n
      /\ ordered => IsHeap(v.heap) \/ v.index <= i - i
  BY <1>8 DEF RiseStates
<1> QED BY <1>1, <1>2, <1>9

LEMMA HeapInsert ==
    ASSUME NEW T, Holds(m_heap, T), NEW e, e \notin T, Distinct(T \cup {e}), Heap!Insert(e)
    PROVE  Holds(m_heap', T \cup {e}) /\ (IsHeap(m_heap) => IsHeap(m_heap'))
<1> DEFINE U == T \cup {e}
           h == Append(m_heap, e)
           i == Len(m_heap) + 1
<1>1. Len(m_heap) \in Nat
  BY HoldsIn
<1>2. /\ Holds(h, U) /\ Len(h) = i /\ h[i] = e
      /\ \A j \in 1..Len(m_heap) : h[j] = m_heap[j]
  BY HoldsAppend
<1>3. PICK ordered \in BOOLEAN : ordered <=> IsHeap(m_heap)
  BY DEF IsHeap
<1> HIDE DEF h
<1>4. ASSUME ordered PROVE Rising(h, i)
  <2>1. ASSUME NEW j \in 2..Len(h), j # i PROVE KeyLess(h[j \div 2], h[j])
    <3>1. j \in 2..Len(m_heap) /\ j \div 2 \in 1..Len(m_heap) /\ j \in 1..Len(m_heap)
      BY <1>1, <1>2, <2>1
    <3>2. KeyLess(m_heap[j \div 2], m_heap[j])
      BY <1>3, <1>4, <3>1 DEF IsHeap
    <3> QED BY <1>2, <3>1, <3>2
  <2>2. \A j \in 2..Len(h) : j \div 2 # i
    BY <1>1, <1>2
  <2> QED BY <2>1, <2>2 DEF Rising
<1>5. m_heap' = Heap!BottomUp(h, i)
  BY DEF Heap!Insert, h
<1>6. i \in 1..Len(h) /\ Distinct(U)
  BY <1>1, <1>2
<1>7. Holds(m_heap', U) /\ (ordered => IsHeap(m_heap'))
  <2> HIDE DEF i, U
  <2> QED BY <1>2, <1>4, <1>5, <1>6, BottomUpRises
<1> QED BY <1>3, <1>7

(* The event at i may be after its children, and is in order otherwise. *)
Sinking(h, i) ==
    /\ \A j \in 2..Len(h) : j \div 2 # i => KeyLess(h[j \div 2], h[j])
    /\ \A j \in 2..Len(h) : j \div 2 = i /\ i > 1 => KeyLess(h[i \div 2], h[j])

(* The states of TopDown after k turns, which started at i in order or not. *)
SinkStates(T, n, i, ordered, k) ==
    {s \in [heap : Seq(T), index : Nat \ {0}] :
        /\ Holds(s.heap, T) /\ Len(s.heap) = n
        /\ ordered => /\ Sinking(s.heap, s.index)
                      /\ IsHeap(s.heap) \/ s.index >= i + k}

LEMMA SmallestChild ==
    ASSUME NEW T, Distinct(T), NEW h, Holds(h, T), NEW i \in Nat \ {0},
           Heap!Children(h, i) # {}
    PROVE  /\ Heap!Smallest(h, i) \in 1..Len(h) /\ Heap!Smallest(h, i) \div 2 = i
           /\ Heap!Smallest(h, i) > i
           /\ \A j \in 1..Len(h) : j \div 2 = i /\ j # Heap!Smallest(h, i) =>
                 KeyLess(h[Heap!Smallest(h, i)], h[j])
<1> DEFINE C == Heap!Children(h, i)
           m == Heap!Smallest(h, i)
           K == {h[c] : c \in C}
<1>1. Len(h) \in Nat /\ \A j \in 1..Len(h) : h[j] \in T
  BY HoldsIn
<1>2. \A j \in Nat : j \in C <=> j \in 1..Len(h) /\ j \div 2 = i
  BY <1>1 DEF Heap!Children
<1>3. C \subseteq 1..Len(h)
  BY DEF Heap!Children
<1> HIDE DEF C
<1>4. PICK c \in C : \A d \in C \ {c} : KeyLess(h[c], h[d])
  <2>1. Distinct(K) /\ K # {}
    BY <1>1, <1>3 DEF Distinct, C
  <2>2. PICK ev : IsEarliest(ev, K)
    <3> HIDE DEF K
    <3> QED BY <2>1, HasEarliest
  <2>3. PICK c \in C : h[c] = ev
    BY <2>2 DEF IsEarliest
  <2>4. \A d \in C \ {c} : h[d] # h[c] /\ h[d] \in K
    BY <1>3 DEF Holds
  <2>5. \A d \in C \ {c} : KeyLess(h[c], h[d])
    BY <2>2, <2>3, <2>4 DEF IsEarliest
  <2> QED BY <2>5
<1>5. m \in C /\ \A d \in C \ {m} : KeyLess(h[m], h[d])
  <2>1. m = CHOOSE x \in C : \A d \in C \ {x} : KeyLess(h[x], h[d])
    BY HeapKeys DEF Heap!Smallest, C
  <2> HIDE DEF m
  <2> QED BY <1>4, <2>1, Zenon
<1> HIDE DEF m
<1>6. m \in 1..Len(h) /\ m \div 2 = i
  BY <1>2, <1>3, <1>5
<1>7. m > i
  BY <1>1, <1>6
<1>8. ASSUME NEW j \in 1..Len(h), j \div 2 = i, j # m PROVE KeyLess(h[m], h[j])
  <2>1. j \in C
    BY <1>1, <1>2, <1>8
  <2> QED BY <1>5, <1>8, <2>1
<1> QED BY <1>6, <1>7, <1>8 DEF m

LEMMA SinkOnce ==
    ASSUME NEW T, Distinct(T), NEW n \in Nat, NEW i \in Nat, NEW ordered \in BOOLEAN,
           NEW k \in Nat, NEW s \in SinkStates(T, n, i, ordered, k)
    PROVE  Heap!Sink(s) \in SinkStates(T, n, i, ordered, k + 1)
<1> DEFINE h == s.heap
           p == s.index
           C == Heap!Children(h, p)
           inOrder == \A c \in C : KeyLess(h[p], h[c])
<1>1. /\ s \in [heap : Seq(T), index : Nat \ {0}] /\ Holds(h, T) /\ Len(h) = n
      /\ p \in Nat \ {0}
      /\ ordered => Sinking(h, p) /\ (IsHeap(h) \/ p >= i + k)
  BY DEF SinkStates
<1>2. \A j \in 1..n : h[j] \in T
  BY <1>1, HoldsIn
<1>3. \A a, b \in 1..n : a # b => h[a] # h[b]
  BY <1>1 DEF Holds
<1>4. \A j \in Nat : j \in C <=> j \in 1..n /\ j \div 2 = p
  BY <1>1 DEF Heap!Children
<1>5. C \subseteq 1..n
  BY <1>1 DEF Heap!Children
<1> HIDE DEF C
<1>6. CASE inOrder
  <2>1. Heap!Sink(s) = s
    BY <1>6, HeapKeys DEF Heap!Sink, C
  <2>2. ASSUME ordered PROVE IsHeap(h)
    <3> SUFFICES ASSUME NEW j \in 2..Len(h) PROVE KeyLess(h[j \div 2], h[j])
      BY DEF IsHeap
    <3>1. CASE j \div 2 # p
      BY <1>1, <2>2, <3>1 DEF Sinking
    <3>2. CASE j \div 2 = p
      <4>1. j \in C
        BY <1>1, <1>4, <3>2
      <4> QED BY <1>6, <3>2, <4>1
    <3> QED BY <3>1, <3>2
  <2> QED BY <1>1, <2>1, <2>2 DEF SinkStates
<1>7. CASE ~inOrder
  <2> DEFINE c == Heap!Smallest(h, p)
             x == Heap!Exch(h, p, c)
  <2>1. Heap!Sink(s) = [heap |-> x, index |-> c]
    BY <1>7, HeapKeys DEF Heap!Sink, C
  <2>2. PICK d \in C : ~KeyLess(h[p], h[d])
    BY <1>7
  <2>3. /\ c \in 1..n /\ c \div 2 = p /\ c > p
        /\ \A j \in 1..n : j \div 2 = p /\ j # c => KeyLess(h[c], h[j])
    <3>1. Heap!Children(h, p) # {}
      BY <2>2 DEF C
    <3> HIDE DEF h, p
    <3>2. /\ c \in 1..Len(h) /\ c \div 2 = p /\ c > p
          /\ \A j \in 1..Len(h) : j \div 2 = p /\ j # c => KeyLess(h[c], h[j])
      BY <1>1, <3>1, SmallestChild
    <3> QED BY <1>1, <3>2
  <2> HIDE DEF c
  <2>4. p \in 1..n /\ c \in 2..n
    BY <1>1, <2>3
  <2>5. KeyLess(h[c], h[p])
    <3>1. d \in 1..n /\ d \div 2 = p /\ d # p
      BY <1>1, <1>4, <1>5
    <3>2. h[d] \in T /\ h[p] \in T /\ h[c] \in T /\ h[d] # h[p]
      BY <1>2, <1>3, <2>4, <3>1
    <3>3. KeyLess(h[d], h[p])
      BY <2>2, <3>2, KeysOf
    <3>4. d # c => KeyLess(h[c], h[d])
      BY <2>3, <3>1
    <3> QED BY <3>2, <3>3, <3>4, KeysOf
  <2>6. /\ Holds(x, T) /\ Len(x) = n
        /\ \A j \in 1..n : x[j] = h[IF j = p THEN c ELSE IF j = c THEN p ELSE j]
    <3>1. c \in 1..Len(h) /\ p \in 1..Len(h) /\ Holds(h, T)
      BY <1>1, <2>3, <2>4
    <3> HIDE DEF h, p
    <3>2. /\ Holds(x, T) /\ Len(x) = Len(h)
          /\ \A j \in 1..Len(h) : x[j] = h[IF j = p THEN c ELSE IF j = c THEN p ELSE j]
      BY <3>1, Exchanged
    <3> QED BY <1>1, <3>2
  <2>7. x \in Seq(T)
    BY <2>6, HoldsIn
  <2> HIDE DEF x
  <2>8. ASSUME ordered PROVE Sinking(x, c)
    <3>1. \A j \in 2..n : j \div 2 # p => KeyLess(h[j \div 2], h[j])
      BY <1>1, <2>8 DEF Sinking
    <3>2. p > 1 => KeyLess(h[p \div 2], h[c])
      BY <1>1, <2>3, <2>4, <2>8 DEF Sinking
    <3>3. ASSUME NEW j \in 2..n, j \div 2 # c PROVE KeyLess(x[j \div 2], x[j])
      <4>1. j \div 2 \in 1..n /\ j \in 1..n /\ j \div 2 # j
        OBVIOUS
      <4>2. CASE j = c
        <5>1. x[j] = h[p] /\ x[j \div 2] = h[c]
          BY <2>3, <2>4, <2>6, <4>1, <4>2
        <5> QED BY <2>5, <5>1
      <4>3. CASE j = p
        <5>1. x[j] = h[c] /\ x[j \div 2] = h[p \div 2] /\ p > 1
          BY <2>4, <2>6, <3>3, <4>1, <4>3
        <5> QED BY <3>2, <5>1
      <4>4. CASE j # c /\ j \div 2 = p
        <5>1. x[j] = h[j] /\ x[j \div 2] = h[c] /\ j # p
          BY <2>4, <2>6, <3>3, <4>1, <4>4
        <5> QED BY <2>3, <4>1, <4>4, <5>1
      <4>5. CASE j # c /\ j # p /\ j \div 2 # p
        <5>1. x[j] = h[j] /\ x[j \div 2] = h[j \div 2]
          BY <2>4, <2>6, <3>3, <4>1, <4>5
        <5> QED BY <3>1, <4>5, <5>1
      <4> QED BY <4>2, <4>3, <4>4, <4>5
    <3>4. ASSUME NEW j \in 2..n, j \div 2 = c PROVE KeyLess(x[c \div 2], x[j])
      <4>1. j \in 1..n /\ j # c /\ j # p /\ c # p
        BY <2>3, <2>4, <3>4
      <4>2. x[c \div 2] = h[c] /\ x[j] = h[j]
        BY <2>3, <2>4, <2>6, <4>1
      <4>3. KeyLess(h[c], h[j])
        BY <3>1, <3>4, <4>1
      <4> QED BY <4>2, <4>3
    <3> QED BY <2>6, <3>3, <3>4 DEF Sinking
  <2>9. ASSUME ordered PROVE c >= i + (k + 1)
    <3>1. ~IsHeap(h)
      <4>1. IsHeap(h) => KeyLess(h[p], h[c])
        BY <1>1, <2>3, <2>4 DEF IsHeap
      <4>2. h[c] \in T /\ h[p] \in T
        BY <1>2, <2>4
      <4> QED BY <2>5, <4>1, <4>2, KeysOf
    <3>2. p >= i + k
      BY <1>1, <2>9, <3>1
    <3> QED BY <1>1, <2>3, <3>2
  <2>10. c \in Nat \ {0}
    BY <2>4
  <2> QED BY <2>1, <2>6, <2>7, <2>8, <2>9, <2>10 DEF SinkStates
<1> QED BY <1>6, <1>7

LEMMA TopDownSinks ==
    ASSUME NEW T, Distinct(T), NEW h, Holds(h, T), NEW i \in Nat \ {0},
           NEW ordered \in BOOLEAN, ordered => Sinking(h, i)
    PROVE  Holds(Heap!TopDown(h, i), T) /\ (ordered => IsHeap(Heap!TopDown(h, i)))
<1> DEFINE n == Len(h)
           b == [heap |-> h, index |-> i]
           loop == Loop("sink", 0)
           turns == Heap!Turns(n)
           v == Sunken(b, turns)
           A == [k \in 0..n |-> SinkStates(T, n, i, ordered, k)]
<1>1. h \in Seq(T) /\ n \in Nat
  BY HoldsIn
<1>2. Heap!TopDown(h, i) = v.heap
  BY DEF Heap!TopDown, Sunken
<1>3. Leads(loop, b, turns, n, v)
  <2>1. DOMAIN turns = 1..n
    BY DEF Heap!Turns
  <2> QED BY <1>1, <2>1, SunkenLead
<1>4. b \in SinkStates(T, n, i, ordered, 0)
  BY <1>1 DEF SinkStates
<1>5. b \in A[0]
  BY <1>1, <1>4
<1>6. ASSUME NEW k \in 0..n-1, NEW s \in A[k] PROVE Body(loop, s, turns[k + 1]) \in A[k + 1]
  <2>1. k \in Nat /\ k \in 0..n /\ k + 1 \in 0..n
    BY <1>1
  <2>2. Body(loop, s, turns[k + 1]) = Heap!Sink(s)
    BY DEF Body, Loop
  <2>3. s \in SinkStates(T, n, i, ordered, k)
    BY <2>1
  <2>4. Heap!Sink(s) \in SinkStates(T, n, i, ordered, k + 1)
    BY <1>1, <2>1, <2>3, SinkOnce
  <2> QED BY <2>1, <2>2, <2>4
<1>7. v \in A[n]
  <2> HIDE DEF A, v, b, loop, turns, n
  <2> QED BY <1>1, <1>3, <1>5, <1>6, LeadsInduction
<1>8. v \in SinkStates(T, n, i, ordered, n)
  BY <1>1, <1>7
<1> HIDE DEF v
<1>9. /\ Holds(v.heap, T) /\ v.index \in Nat /\ Len(v.heap) = n
      /\ ordered => Sinking(v.heap, v.index) /\ (IsHeap(v.heap) \/ v.index >= i + n)
  BY <1>8 DEF SinkStates
<1>10. ASSUME ordered, v.index >= i + n PROVE IsHeap(v.heap)
  <2>1. \A j \in 2..n : j \div 2 # v.index
    BY <1>1, <1>9, <1>10
  <2> QED BY <1>9, <1>10, <2>1 DEF Sinking, IsHeap
<1> QED BY <1>2, <1>9, <1>10

LEMMA HeapTakeOut ==
    ASSUME NEW T, Holds(m_heap, T), Distinct(T), NEW i \in 1..Len(m_heap)
    PROVE  /\ Holds(Heap!TakeOut(i), T \ {m_heap[i]})
           /\ i = 1 /\ IsHeap(m_heap) => IsHeap(Heap!TakeOut(i))
<1> DEFINE n == Len(m_heap)
           x == Heap!Exch(m_heap, i, n)
           h == Without(x, n)
           U == T \ {m_heap[i]}
<1>1. n \in Nat \ {0} /\ n \in 1..n /\ i \in Nat \ {0}
  BY HoldsIn
<1>2. /\ Holds(x, T) /\ Len(x) = n
      /\ \A k \in 1..n : x[k] = m_heap[IF k = i THEN n ELSE IF k = n THEN i ELSE k]
  <2> DEFINE b == n
  <2>1. b \in 1..Len(m_heap) /\ i \in 1..Len(m_heap)
    BY <1>1
  <2> HIDE DEF b
  <2>2. /\ Holds(Heap!Exch(m_heap, i, b), T) /\ Len(Heap!Exch(m_heap, i, b)) = Len(m_heap)
        /\ \A k \in 1..Len(m_heap) : Heap!Exch(m_heap, i, b)[k] =
              m_heap[IF k = i THEN b ELSE IF k = b THEN i ELSE k]
    BY <2>1, Exchanged
  <2> QED BY <2>2 DEF b
<1> HIDE DEF x
<1>3. x \in Seq(T) /\ x # << >> /\ x[n] = m_heap[i]
  <2>1. x \in Seq(T)
    BY <1>2, HoldsIn
  <2>2. x[n] = m_heap[i]
    BY <1>1, <1>2
  <2>3. Len(<< >>) = 0
    OBVIOUS
  <2> QED BY <1>1, <1>2, <2>1, <2>2, <2>3
<1>4. Heap!Seqs!Front(x) = h
  BY <1>2, <1>3, Ends DEF Heap!Seqs!Front
<1>5. Holds(h, U)
  BY <1>1, <1>2, <1>3, HoldsWithout
<1>6. Len(h) = n - 1 /\ \A k \in 1..n-1 : h[k] = x[k]
  <2>1. /\ Len(h) = n - 1
        /\ \A k \in 1..n-1 : h[k] = IF k < n THEN x[k] ELSE x[k + 1]
    <3> DEFINE p == n
    <3>1. p \in 1..Len(x) /\ x \in Seq(T)
      BY <1>1, <1>2, <1>3
    <3> HIDE DEF p, n
    <3>2. /\ Len(Without(x, p)) = Len(x) - 1
          /\ \A k \in 1..Len(x)-1 : Without(x, p)[k] = IF k < p THEN x[k] ELSE x[k + 1]
      BY <3>1, WithoutElement
    <3> QED BY <1>2, <3>2 DEF p
  <2> QED BY <1>1, <2>1
<1>7. Heap!TakeOut(i) = Heap!TopDown(h, i)
  BY <1>4 DEF Heap!TakeOut, x
<1>8. PICK ordered \in BOOLEAN : ordered <=> (i = 1 /\ IsHeap(m_heap))
  BY DEF IsHeap
<1>9. Distinct(U)
  BY DEF Distinct
<1> HIDE DEF h, U
<1>10. ASSUME ordered PROVE Sinking(h, i)
  <2>1. ASSUME NEW j \in 2..Len(h), j \div 2 # 1 PROVE KeyLess(h[j \div 2], h[j])
    <3>1. /\ j \in 2..n /\ j \in 1..n-1 /\ j \div 2 \in 1..n-1 /\ j \div 2 \in 1..n
          /\ j # 1 /\ j # n /\ j \div 2 # n
      BY <1>1, <1>6
    <3>2. h[j] = m_heap[j] /\ h[j \div 2] = m_heap[j \div 2]
      BY <1>2, <1>6, <1>8, <1>10, <2>1, <3>1, SMTT(30)
    <3>3. KeyLess(m_heap[j \div 2], m_heap[j])
      BY <1>8, <1>10, <3>1 DEF IsHeap
    <3> QED BY <3>2, <3>3
  <2>2. i = 1
    BY <1>8, <1>10
  <2> QED BY <2>1, <2>2 DEF Sinking
<1>11. Holds(Heap!TakeOut(i), U) /\ (ordered => IsHeap(Heap!TakeOut(i)))
  BY <1>1, <1>5, <1>7, <1>9, <1>10, TopDownSinks
<1> QED BY <1>8, <1>11 DEF U

(* The root is before all others. *)
LEMMA HeapNext ==
    ASSUME NEW T, Holds(m_heap, T), Distinct(T), IsHeap(m_heap), T # {}
    PROVE  IsEarliest(m_heap[1], T)
<1> DEFINE n == Len(m_heap)
           P == {k \in Nat : \A i \in 2..n : i <= k => KeyLess(m_heap[1], m_heap[i])}
<1>1. n \in Nat /\ \A i \in 1..n : m_heap[i] \in T
  BY HoldsIn
<1>2. 0 \in P
  OBVIOUS
<1>3. ASSUME NEW k \in Nat, k \in P PROVE k + 1 \in P
  <2> SUFFICES ASSUME NEW i \in 2..n, i <= k + 1 PROVE KeyLess(m_heap[1], m_heap[i])
    OBVIOUS
  <2>1. KeyLess(m_heap[i \div 2], m_heap[i])
    BY DEF IsHeap
  <2>2. CASE i \div 2 = 1
    BY <2>1, <2>2
  <2>3. CASE i \div 2 # 1
    <3>1. i \div 2 \in 2..n /\ i \div 2 <= k
      BY <1>1, <2>3
    <3>2. KeyLess(m_heap[1], m_heap[i \div 2])
      BY <1>3, <3>1
    <3>3. 1 \in 1..n /\ i \in 1..n /\ i \div 2 \in 1..n
      BY <1>1, <3>1
    <3> QED BY <1>1, <2>1, <3>2, <3>3, KeysOf
  <2> QED BY <2>2, <2>3
<1>4. n \in P
  <2> HIDE DEF P
  <2> QED BY <1>1, <1>2, <1>3, Induction
<1>5. ASSUME NEW ev \in T \ {m_heap[1]} PROVE KeyLess(m_heap[1], ev)
  <2>1. PICK i \in 1..n : m_heap[i] = ev
    BY DEF Holds
  <2>2. i \in 2..n /\ i <= n
    BY <1>1, <2>1
  <2> QED BY <1>4, <2>1, <2>2
<1>6. m_heap[1] \in T
  <2>1. PICK i \in 1..n : TRUE
    BY DEF Holds
  <2>2. 1 \in 1..n
    BY <1>1
  <2> QED BY <1>1, <2>2
<1> QED BY <1>5, <1>6 DEF IsEarliest

LEMMA HeapRemoveNext ==
    ASSUME NEW T, Holds(m_heap, T), Distinct(T), T # {}, Heap!RemoveNext
    PROVE  /\ Heap!PeekNext \in T /\ Holds(m_heap', T \ {Heap!PeekNext})
           /\ IsHeap(m_heap) => IsHeap(m_heap')
<1>1. 1 \in 1..Len(m_heap) /\ m_heap[1] \in T
  <2>1. Len(m_heap) \in Nat /\ \A i \in 1..Len(m_heap) : m_heap[i] \in T
    BY HoldsIn
  <2>2. PICK i \in 1..Len(m_heap) : TRUE
    BY DEF Holds
  <2> QED BY <2>1
<1>2. m_heap' = Heap!TakeOut(1)
  BY DEF Heap!RemoveNext
<1> QED BY <1>1, <1>2, HeapTakeOut DEF Heap!PeekNext

LEMMA HeapRemove ==
    ASSUME NEW T, Holds(m_heap, T), Distinct(T), NEW e \in T, Heap!Remove(e)
    PROVE  Holds(m_heap', T \ {e})
<1>1. PICK i \in 1..Len(m_heap) : m_heap[i].uid = e.uid /\ m_heap' = Heap!TakeOut(i)
  BY DEF Heap!Remove
<1>2. m_heap[i] = e
  BY <1>1, HoldsIn DEF Distinct
<1> QED BY <1>1, <1>2, HeapTakeOut


---------------------------------------------------------------------------
(* Days and buckets: division and remainder. *)

LEMMA Product ==
    ASSUME NEW a \in Int, NEW b \in Int, NEW w \in Nat \ {0}
    PROVE  /\ a * w \in Int /\ a < b => (a + 1) * w <= b * w
           /\ a <= b => a * w <= b * w
           /\ (a + 1) * w = a * w + w
<1>1. a * w \in Int /\ b * w \in Int /\ (a + 1) * w = a * w + w
  OBVIOUS
<1>2. ASSUME NEW k \in Nat PROVE (a + k) * w >= a * w
  <2>1. k * w >= 0 /\ (a + k) * w = a * w + k * w
    OBVIOUS
  <2> QED BY <1>1, <2>1
<1>3. a <= b => a * w <= b * w
  <2>1. a <= b => b - a \in Nat /\ a + (b - a) = b
    OBVIOUS
  <2> QED BY <1>2, <2>1
<1>4. ASSUME a < b PROVE (a + 1) * w <= b * w
  <2>1. b - a - 1 \in Nat /\ a + 1 \in Int /\ b = (a + 1) + (b - a - 1)
    BY <1>4
  <2>2. (b - a - 1) * w >= 0 /\ b * w = (a + 1) * w + (b - a - 1) * w
    BY <2>1
  <2> QED BY <2>1, <2>2
<1> QED BY <1>1, <1>3, <1>4

LEMMA Division ==
    ASSUME NEW a \in Nat, NEW w \in Nat \ {0}
    PROVE  /\ a \div w \in Nat /\ a % w \in 0..w-1
           /\ a = (a \div w) * w + (a % w)
           /\ (a \div w) * w <= a /\ a < (a \div w + 1) * w
<1>1. a \div w \in Int /\ a % w \in 0..w-1 /\ a = w * (a \div w) + (a % w)
  OBVIOUS
<1>2. w * (a \div w) = (a \div w) * w /\ (a \div w + 1) * w = (a \div w) * w + w
  BY <1>1
<1>3. a \div w >= 0
  <2> SUFFICES ASSUME a \div w < 0 PROVE FALSE
    BY <1>1
  <2>1. (a \div w + 1) * w <= 0 * w
    BY <1>1, Product
  <2> QED BY <1>1, <1>2, <2>1
<1> QED BY <1>1, <1>2, <1>3

(* What the day of a time stamp is. *)
LEMMA DayIs ==
    ASSUME NEW a \in Nat, NEW w \in Nat \ {0}, NEW d \in Int
    PROVE  /\ a < (d + 1) * w <=> a \div w <= d
           /\ \A b \in Nat : a <= b => a \div w <= b \div w
           /\ \A b \in Nat : a \div w < b \div w => a < b
<1>1. \A b \in Nat : /\ b \div w \in Nat /\ (b \div w) * w <= b /\ b < (b \div w + 1) * w
                     /\ (b \div w) * w \in Int /\ (b \div w + 1) * w \in Int
  BY Division
<1>2. ASSUME NEW b \in Nat, NEW e \in Int
      PROVE  b < (e + 1) * w <=> b \div w <= e
  <2>1. (e + 1) * w \in Int
    OBVIOUS
  <2>2. CASE b \div w <= e
    <3>1. (b \div w + 1) * w <= (e + 1) * w
      BY <1>1, <2>2, Product
    <3> QED BY <1>1, <2>1, <2>2, <3>1
  <2>3. CASE e < b \div w
    <3>1. (e + 1) * w <= (b \div w) * w
      BY <1>1, <2>3, Product
    <3> QED BY <1>1, <2>1, <2>3, <3>1
  <2> QED BY <1>1, <2>2, <2>3
<1>3. ASSUME NEW b \in Nat, a <= b PROVE a \div w <= b \div w
  <2>1. a < (b \div w + 1) * w
    BY <1>1, <1>3
  <2> QED BY <1>1, <1>2, <2>1
<1>4. ASSUME NEW b \in Nat, a \div w < b \div w PROVE a < b
  <2>1. ~(b <= a)
    <3>1. b <= a => b < (a \div w + 1) * w
      BY <1>1
    <3> QED BY <1>1, <1>2, <1>4, <3>1
  <2> QED BY <2>1
<1> QED BY <1>2, <1>3, <1>4

LEMMA RemainderIs ==
    ASSUME NEW a \in Nat, NEW n \in Nat \ {0}, NEW q \in Int, NEW r \in 0..n-1,
           a = q * n + r
    PROVE  a % n = r
<1> DEFINE p == a \div n
<1>1. p \in Int /\ a % n \in 0..n-1 /\ a = p * n + (a % n) /\ q * n \in Int /\ p * n \in Int
  BY Division
<1> HIDE DEF p
<1>2. ~(p < q)
  <2>1. p < q => p * n + n <= q * n
    BY <1>1, Product
  <2> QED BY <1>1, <2>1
<1>3. ~(q < p)
  <2>1. q < p => q * n + n <= p * n
    BY <1>1, Product
  <2> QED BY <1>1, <2>1
<1>4. p = q
  BY <1>1, <1>2, <1>3
<1> QED BY <1>1, <1>4

LEMMA Remainders ==
    ASSUME NEW a \in Nat, NEW b \in Nat, NEW n \in Nat \ {0}
    PROVE  /\ ((a % n) + b) % n = (a + b) % n
           /\ a % n = b % n /\ a <= b /\ b < a + n => a = b
<1>1. ASSUME NEW x \in Nat
      PROVE  /\ x \div n \in Nat /\ x % n \in 0..n-1 /\ x = (x \div n) * n + (x % n)
             /\ (x \div n) * n \in Int
  <2>1. /\ x \div n \in Nat /\ x % n \in 0..n-1 /\ x = (x \div n) * n + (x % n)
    BY Division
  <2>2. (x \div n) * n \in Int
    BY <2>1
  <2> QED BY <2>1, <2>2
<1>2. ((a % n) + b) % n = (a + b) % n
  <2> DEFINE x == (a % n) + b
             y == a + b
             p == a \div n
             q == x \div n
             r == x % n
  <2>1. x \in Nat /\ y \in Nat
    BY <1>1
  <2>2. p \in Int /\ q \in Int /\ r \in 0..n-1 /\ x = q * n + r /\ a = p * n + (a % n)
    BY <1>1, <2>1
  <2>3. y = p * n + x
    BY <1>1, <2>2
  <2> HIDE DEF x, y, p, q, r
  <2>4. (p + q) * n = p * n + q * n /\ p * n \in Int /\ q * n \in Int
    BY <2>2
  <2>5. y = (p + q) * n + r
    BY <2>1, <2>2, <2>3, <2>4
  <2>6. y % n = r
    <3>1. p + q \in Int
      BY <2>2
    <3> QED BY <2>1, <2>2, <2>5, <3>1, RemainderIs
  <2> QED BY <2>6 DEF x, y, r
<1>3. ASSUME a % n = b % n, a <= b, b < a + n PROVE a = b
  <2> DEFINE p == a \div n
             q == b \div n
  <2>1. /\ p \in Int /\ q \in Int /\ p * n \in Int /\ q * n \in Int
        /\ a = p * n + (a % n) /\ b = q * n + (b % n) /\ a % n \in Int
    BY <1>1
  <2> HIDE DEF p, q
  <2>2. ~(p < q)
    <3>1. p < q => p * n + n <= q * n
      BY <2>1, Product
    <3> QED BY <1>3, <2>1, <3>1
  <2>3. ~(q < p)
    <3>1. q < p => q * n + n <= p * n
      BY <2>1, Product
    <3> QED BY <1>3, <2>1, <3>1
  <2>4. p = q
    BY <2>1, <2>2, <2>3
  <2> QED BY <1>3, <2>1, <2>4
<1> QED BY <1>2, <1>3

---------------------------------------------------------------------------
(* Buckets. *)

(* d is c but for what its buckets hold. *)
Alike(d, c) ==
    /\ d.m_nBuckets = c.m_nBuckets /\ d.m_width = c.m_width
    /\ d.m_lastBucket = c.m_lastBucket /\ d.m_bucketTop = c.m_bucketTop
    /\ d.m_lastPrio = c.m_lastPrio /\ d.m_qSize = c.m_qSize /\ d.m_reverse = c.m_reverse

(* A calendar whose buckets are those of its days, and hold S. *)
Buckets(c, S) == c \in Calendars /\ Filled(c, S)

Put(c, i, q) == [c EXCEPT !.m_buckets[i] = q]

LEMMA Fields ==
    ASSUME NEW c \in Calendars
    PROVE  /\ c.m_nBuckets \in Nat \ {0} /\ c.m_width \in Nat \ {0} /\ c.m_lastBucket \in Nat
           /\ c.m_bucketTop \in Nat /\ c.m_lastPrio \in Nat /\ c.m_qSize \in Nat
           /\ c.m_reverse \in BOOLEAN
           /\ DOMAIN c.m_buckets = 0..c.m_nBuckets-1 =>
                 c.m_buckets \in [0..c.m_nBuckets-1 -> Seq(Event)]
  BY DEF Calendars

LEMMA HashIn ==
    ASSUME NEW c \in Calendars, NEW t \in Nat
    PROVE  /\ Calendar!Hash(c, t) \in 0..c.m_nBuckets-1 /\ t \div c.m_width \in Nat
           /\ Calendar!Hash(c, t) = (t \div c.m_width) % c.m_nBuckets
<1> DEFINE n == c.m_nBuckets
           w == c.m_width
           d == t \div w
<1>1. n \in Nat \ {0} /\ w \in Nat \ {0}
  BY Fields
<1> HIDE DEF n, w
<1>2. d \in Nat
  BY <1>1, Division
<1> HIDE DEF d
<1>3. d % n \in 0..n-1
  BY <1>1, <1>2, Division
<1> QED BY <1>2, <1>3 DEF d, n, w, Calendar!Hash

LEMMA PutFields ==
    ASSUME NEW c \in Calendars, DOMAIN c.m_buckets = 0..c.m_nBuckets-1,
           NEW i \in 0..c.m_nBuckets-1, NEW q \in Seq(Event)
    PROVE  /\ Put(c, i, q) \in Calendars /\ Alike(Put(c, i, q), c)
           /\ DOMAIN Put(c, i, q).m_buckets = 0..c.m_nBuckets-1
           /\ \A j \in 0..c.m_nBuckets-1 :
                 Put(c, i, q).m_buckets[j] = IF j = i THEN q ELSE c.m_buckets[j]
<1> DEFINE b == [c.m_buckets EXCEPT ![i] = q]
           d == Put(c, i, q)
<1>1. c.m_buckets \in [0..c.m_nBuckets-1 -> Seq(Event)] /\ c.m_nBuckets \in Nat \ {0}
  BY Fields
<1>2. /\ b \in [0..c.m_nBuckets-1 -> Seq(Event)]
      /\ \A j \in 0..c.m_nBuckets-1 : b[j] = IF j = i THEN q ELSE c.m_buckets[j]
  BY <1>1
<1> HIDE DEF b
<1>3. b \in UNION {[0..n-1 -> Seq(Event)] : n \in Nat \ {0}}
  BY <1>1, <1>2
<1>4. d = [c EXCEPT !.m_buckets = b]
  BY DEF Put, b
<1>5. d \in Calendars /\ d.m_buckets = b
  BY <1>3, <1>4 DEF Calendars
<1>6. Alike(d, c)
  BY <1>4 DEF Alike, Calendars
<1> QED BY <1>2, <1>5, <1>6

LEMMA Alikes ==
    ASSUME NEW c, NEW d, Alike(d, c)
    PROVE  /\ \A t : Calendar!Hash(d, t) = Calendar!Hash(c, t)
           /\ \A i, S : OfBucket(d, i, S) = OfBucket(c, i, S)
           /\ CursorAt(c) => CursorAt(d)
           /\ \A S : NotPast(c, S) => NotPast(d, S)
<1>1. \A t : Calendar!Hash(d, t) = Calendar!Hash(c, t)
  BY DEF Alike, Calendar!Hash
<1>2. \A i, S : OfBucket(d, i, S) = OfBucket(c, i, S)
  BY <1>1 DEF OfBucket
<1>3. CursorAt(c) => CursorAt(d)
  BY DEF Alike, CursorAt
<1>4. \A S : NotPast(c, S) => NotPast(d, S)
  BY DEF Alike, NotPast
<1> QED BY <1>1, <1>2, <1>3, <1>4

LEMMA AlikeChain ==
    ASSUME NEW c, NEW d, NEW e, Alike(d, c), Alike(e, d)
    PROVE  Alike(e, c)
  BY DEF Alike

(* What bucket i holds. *)
LEMMA BucketHolds ==
    ASSUME NEW S, Distinct(S), NEW c, Buckets(c, S), NEW i \in 0..c.m_nBuckets-1
    PROVE  /\ IsSorted(c.m_reverse, c.m_buckets[i], OfBucket(c, i, S))
           /\ Distinct(OfBucket(c, i, S))
           /\ c.m_buckets[i] \in Seq(Event) /\ Len(c.m_buckets[i]) \in Nat
           /\ \A k \in 1..Len(c.m_buckets[i]) :
                 c.m_buckets[i][k] \in S /\ Calendar!Hash(c, c.m_buckets[i][k].ts) = i
           /\ c.m_buckets[i] = << >> <=> OfBucket(c, i, S) = {}
<1>1. IsSorted(c.m_reverse, c.m_buckets[i], OfBucket(c, i, S))
  BY DEF Buckets, Filled
<1>2. Distinct(OfBucket(c, i, S))
  BY DEF Distinct, OfBucket
<1>3. c.m_buckets[i] \in Seq(Event)
  <2>1. c.m_buckets \in [0..c.m_nBuckets-1 -> Seq(Event)]
    BY Fields DEF Buckets, Filled
  <2> QED BY <2>1
<1> DEFINE q == c.m_buckets[i]
           T == OfBucket(c, i, S)
<1>4. \A ev \in T : ev \in S /\ Calendar!Hash(c, ev.ts) = i
  BY DEF OfBucket
<1>5. /\ Len(q) \in Nat /\ \A k \in 1..Len(q) : q[k] \in T
      /\ q = << >> <=> T = {}
  <2> HIDE DEF q, T
  <2>1. Holds(q, T)
    BY <1>1 DEF IsSorted, q, T
  <2> QED BY <2>1, HoldsIn
<1> QED BY <1>1, <1>2, <1>3, <1>4, <1>5

(* A bucket that has changed as the set of events has. *)
LEMMA PutFilled ==
    ASSUME NEW S, NEW c, Buckets(c, S), NEW i \in 0..c.m_nBuckets-1,
           NEW q \in Seq(Event), NEW U,
           IsSorted(c.m_reverse, q, OfBucket(c, i, U)),
           \A j \in 0..c.m_nBuckets-1 : j # i => OfBucket(c, j, U) = OfBucket(c, j, S)
    PROVE  Buckets(Put(c, i, q), U) /\ Alike(Put(c, i, q), c)
<1> DEFINE d == Put(c, i, q)
<1>1. /\ d \in Calendars /\ Alike(d, c)
      /\ DOMAIN d.m_buckets = 0..c.m_nBuckets-1
      /\ \A j \in 0..c.m_nBuckets-1 : d.m_buckets[j] = IF j = i THEN q ELSE c.m_buckets[j]
  BY PutFields DEF Buckets, Filled
<1> HIDE DEF d
<1>2. ASSUME NEW j \in 0..d.m_nBuckets-1
      PROVE  IsSorted(d.m_reverse, d.m_buckets[j], OfBucket(d, j, U))
  <2>1. /\ j \in 0..c.m_nBuckets-1 /\ d.m_reverse = c.m_reverse
        /\ OfBucket(d, j, U) = OfBucket(c, j, U)
    BY <1>1, Alikes DEF Alike
  <2>2. CASE j = i
    BY <1>1, <2>1, <2>2
  <2>3. CASE j # i
    BY <1>1, <2>1, <2>3 DEF Buckets, Filled
  <2> QED BY <2>2, <2>3
<1>3. Filled(d, U)
  BY <1>1, <1>2 DEF Filled, Alike
<1> QED BY <1>1, <1>3 DEF Buckets, d

LEMMA CalendarDoInsert ==
    ASSUME NEW S, NEW c, Buckets(c, S), NEW e \in Event, e \notin S, Distinct(S \cup {e})
    PROVE  /\ Buckets(Calendar!DoInsert(c, e), S \cup {e})
           /\ Alike(Calendar!DoInsert(c, e), c)
<1> DEFINE i == Calendar!Hash(c, e.ts)
           q == c.m_buckets[i]
           T == OfBucket(c, i, S)
           later == {k \in 1..Len(q) : Before(c.m_reverse, e, q[k])}
           p == IF later = {} THEN Len(q) + 1
                ELSE CHOOSE n \in later : \A m \in later : n <= m
<1>1. Distinct(S)
  BY DEF Distinct
<1>2. i \in 0..c.m_nBuckets-1 /\ c.m_reverse \in BOOLEAN
  <2>1. e.ts \in Nat
    BY DEF Event
  <2> QED BY <2>1, HashIn, Fields DEF Buckets
<1>3. Calendar!DoInsert(c, e) = Put(c, i, With(q, p, e))
  <2>1. \A a, b : Calendar!Order(c, a, b) <=> Before(c.m_reverse, a, b)
    BY HeapKeys DEF Calendar!Order, Before
  <2> DEFINE after == {k \in 1..Len(q) : Calendar!Order(c, e, q[k])}
             place == IF after = {} THEN Len(q) + 1
                      ELSE CHOOSE n \in after : \A m \in after : n <= m
  <2>2. Calendar!DoInsert(c, e) = Put(c, i, Calendar!Seqs!InsertAt(q, place, e))
    BY DEF Calendar!DoInsert, Calendar!Least, Put
  <2>3. after = later
    <3> HIDE DEF i
    <3> QED BY <2>1, Zenon
  <2> HIDE DEF after, later
  <2>4. place = p
    BY <2>3
  <2> HIDE DEF place, p
  <2>5. Calendar!DoInsert(c, e) = Put(c, i, Calendar!Seqs!InsertAt(q, p, e))
    BY <2>2, <2>4
  <2> QED BY <2>5 DEF Calendar!Seqs!InsertAt, With
<1>4. IsSorted(c.m_reverse, q, T) /\ Len(q) \in Nat /\ q \in Seq(Event)
  <2> HIDE DEF i
  <2> QED BY <1>1, <1>2, BucketHolds
<1>5. OfBucket(c, i, S \cup {e}) = T \cup {e}
  BY DEF OfBucket
<1>6. \A j \in 0..c.m_nBuckets-1 : j # i => OfBucket(c, j, S \cup {e}) = OfBucket(c, j, S)
  BY DEF OfBucket
<1>7. e \notin T /\ Distinct(T \cup {e})
  BY DEF OfBucket, Distinct
<1>8. \/ p = Len(q) + 1 /\ \A k \in 1..Len(q) : ~Before(c.m_reverse, e, q[k])
      \/ /\ p \in 1..Len(q) /\ Before(c.m_reverse, e, q[p])
         /\ \A k \in 1..Len(q) : Before(c.m_reverse, e, q[k]) => p <= k
  <2>1. CASE later = {}
    BY <2>1
  <2>2. CASE later # {}
    <3>1. later \in SUBSET Nat
      <4>1. 1..Len(q) \subseteq Nat
        BY <1>4
      <4>2. later \subseteq 1..Len(q)
        BY Zenon
      <4> QED BY <4>1, <4>2, Zenon
    <3>2. p \in later /\ \A k \in later : p <= k
      <4>1. p = CHOOSE n \in later : \A m \in later : n <= m
        BY <2>2
      <4> HIDE DEF later, p
      <4> QED BY <2>2, <3>1, <4>1, LeastIs
    <3> HIDE DEF p
    <3> QED BY <3>2
  <2> QED BY <2>1, <2>2
<1> HIDE DEF p, T, q, i
<1>9. IsSorted(c.m_reverse, With(q, p, e), T \cup {e})
  BY <1>2, <1>4, <1>7, <1>8, SortedInsert
<1>10. With(q, p, e) \in Seq(Event)
  <2>1. p \in 1..Len(q)+1
    BY <1>4, <1>8
  <2> QED BY <1>4, <2>1, WithElement
<1> DEFINE U == S \cup {e}
           z == With(q, p, e)
<1>11. IsSorted(c.m_reverse, z, OfBucket(c, i, U))
  BY <1>5, <1>9
<1>12. z \in Seq(Event) /\ \A j \in 0..c.m_nBuckets-1 : j # i => OfBucket(c, j, U) = OfBucket(c, j, S)
  BY <1>6, <1>10
<1> HIDE DEF U, z
<1>13. Buckets(Put(c, i, z), U) /\ Alike(Put(c, i, z), c)
  BY <1>2, <1>11, <1>12, PutFilled
<1> QED BY <1>3, <1>13 DEF U, z

---------------------------------------------------------------------------
(* All events of a sequence put into the buckets. *)

Firsts(q, k) == {q[j] : j \in 1..k}

LEMMA FirstsOf ==
    ASSUME NEW q, NEW T, Holds(q, T)
    PROVE  /\ Firsts(q, 0) = {} /\ Firsts(q, Len(q)) = T
           /\ \A k \in 0..Len(q)-1 : /\ Firsts(q, k + 1) = Firsts(q, k) \cup {q[k + 1]}
                                     /\ q[k + 1] \notin Firsts(q, k)
                                     /\ q[k + 1] \in T /\ Firsts(q, k) \subseteq T
<1>1. Len(q) \in Nat /\ \A i \in 1..Len(q) : q[i] \in T
  BY HoldsIn
<1>2. Firsts(q, 0) = {}
  BY DEF Firsts
<1>3. Firsts(q, Len(q)) = T
  BY <1>1 DEF Firsts, Holds
<1>4. ASSUME NEW k \in 0..Len(q)-1
      PROVE  /\ Firsts(q, k + 1) = Firsts(q, k) \cup {q[k + 1]}
             /\ q[k + 1] \notin Firsts(q, k)
             /\ q[k + 1] \in T /\ Firsts(q, k) \subseteq T
  <2>1. k \in Nat /\ 1..k+1 = (1..k) \cup {k + 1} /\ k + 1 \in 1..Len(q) /\ k + 1 \notin 1..k
        /\ 1..k \subseteq 1..Len(q)
    BY <1>1
  <2>2. Firsts(q, k + 1) = Firsts(q, k) \cup {q[k + 1]}
    BY <2>1 DEF Firsts
  <2>3. q[k + 1] \notin Firsts(q, k)
    BY <2>1 DEF Firsts, Holds
  <2> QED BY <1>1, <2>1, <2>2, <2>3 DEF Firsts
<1> QED BY <1>2, <1>3, <1>4

LEMMA CalendarInsertAll ==
    ASSUME NEW S, NEW c, Buckets(c, S), NEW T, NEW q, Holds(q, T), S \cap T = {},
           Distinct(S \cup T)
    PROVE  /\ Buckets(Calendar!InsertAll(c, q), S \cup T)
           /\ Alike(Calendar!InsertAll(c, q), c)
<1> DEFINE n == Len(q)
           loop == Loop("insert", 0)
           v == Inserted(c, q)
           A == [k \in 0..n |-> {d \in Calendars : Filled(d, S \cup Firsts(q, k)) /\ Alike(d, c)}]
<1>1. n \in Nat /\ DOMAIN q = 1..n
  BY HoldsIn
<1>2. Calendar!InsertAll(c, q) = v
  BY DEF Calendar!InsertAll, Inserted
<1>3. Leads(loop, c, q, n, v)
  BY <1>1, InsertedLead
<1>4. c \in A[0]
  <2>1. S \cup Firsts(q, 0) = S /\ 0 \in 0..n
    BY <1>1, FirstsOf
  <2>2. Filled(c, S \cup Firsts(q, 0)) /\ Alike(c, c) /\ c \in Calendars
    BY <2>1 DEF Buckets, Alike
  <2> QED BY <2>1, <2>2
<1>5. ASSUME NEW k \in 0..n-1, NEW d \in A[k] PROVE Body(loop, d, q[k + 1]) \in A[k + 1]
  <2> DEFINE e == q[k + 1]
             U == S \cup Firsts(q, k)
  <2>1. k \in 0..n /\ k + 1 \in 0..n
    BY <1>1
  <2>2. Body(loop, d, e) = Calendar!DoInsert(d, e)
    BY DEF Body, Loop
  <2>3. Buckets(d, U) /\ Alike(d, c)
    BY <2>1 DEF Buckets
  <2>4. /\ Firsts(q, k + 1) = Firsts(q, k) \cup {e} /\ e \notin Firsts(q, k)
        /\ e \in T /\ Firsts(q, k) \subseteq T
    BY FirstsOf
  <2>5. e \in Event /\ e \notin U /\ Distinct(U \cup {e}) /\ U \cup {e} = S \cup Firsts(q, k + 1)
    BY <2>4 DEF Distinct
  <2> HIDE DEF e, U
  <2>6. /\ Buckets(Calendar!DoInsert(d, e), U \cup {e})
        /\ Alike(Calendar!DoInsert(d, e), d)
    BY <2>3, <2>5, CalendarDoInsert
  <2>7. Alike(Calendar!DoInsert(d, e), c)
    BY <2>3, <2>6, AlikeChain
  <2> QED BY <2>1, <2>2, <2>5, <2>6, <2>7 DEF Buckets, e
<1>6. v \in A[n]
  <2> HIDE DEF A, v, loop, n
  <2> QED BY <1>1, <1>3, <1>4, <1>5, LeadsInduction
<1>7. v \in Calendars /\ Filled(v, S \cup Firsts(q, n)) /\ Alike(v, c)
  <2> HIDE DEF v
  <2> QED BY <1>1, <1>6
<1>8. Firsts(q, n) = T
  BY FirstsOf
<1> QED BY <1>2, <1>7, <1>8 DEF Buckets

(* A new calendar has empty buckets and its cursor at time 0. *)
LEMMA CalendarNew ==
    ASSUME NEW reverse \in BOOLEAN
    PROVE  /\ IsCalendar(Calendar!NewCalendar(reverse), {})
           /\ Calendar!NewCalendar(reverse).m_qSize = 0
           /\ Calendar!NewCalendar(reverse).m_lastPrio = 0
<1> DEFINE c == Calendar!NewCalendar(reverse)
           b == [i \in 0..1 |-> << >>]
<1>1. b \in [0..2-1 -> Seq(Event)]
  OBVIOUS
<1>2. b \in UNION {[0..n-1 -> Seq(Event)] : n \in Nat \ {0}}
  <2>1. 2 \in Nat \ {0}
    OBVIOUS
  <2> HIDE DEF b
  <2> QED BY <1>1, <2>1
<1>3. /\ c \in Calendars /\ c.m_buckets = b /\ c.m_nBuckets = 2 /\ c.m_width = 1
      /\ c.m_lastBucket = 0 /\ c.m_bucketTop = 1 /\ c.m_lastPrio = 0 /\ c.m_qSize = 0
  <2> HIDE DEF b
  <2>1. c = [m_buckets |-> b, m_nBuckets |-> 2, m_width |-> 1, m_lastBucket |-> 0,
             m_bucketTop |-> 1, m_lastPrio |-> 0, m_qSize |-> 0, m_reverse |-> reverse]
    BY DEF Calendar!NewCalendar, b
  <2> QED BY <1>2, <2>1 DEF Calendars
<1> HIDE DEF c
<1>4. Filled(c, {})
  <2>1. DOMAIN c.m_buckets = 0..c.m_nBuckets-1
    BY <1>3
  <2>2. ASSUME NEW i \in 0..c.m_nBuckets-1
        PROVE  IsSorted(c.m_reverse, c.m_buckets[i], OfBucket(c, i, {}))
    <3>1. c.m_buckets[i] = << >> /\ OfBucket(c, i, {}) = {}
      BY <1>3 DEF OfBucket
    <3>2. Len(<< >>) = 0 /\ << >> \in Seq({})
      OBVIOUS
    <3> QED BY <3>1, <3>2 DEF IsSorted, Holds
  <2> QED BY <2>1, <2>2 DEF Filled
<1>5. CursorAt(c)
  <2>1. 0 \div 1 = 0 /\ 0 % 2 = 0 /\ (0 + 1) * 1 = 1
    OBVIOUS
  <2> QED BY <1>3, <2>1 DEF CursorAt
<1>6. NotPast(c, {})
  BY DEF NotPast
<1> QED BY <1>3, <1>4, <1>5, <1>6 DEF IsCalendar, c

---------------------------------------------------------------------------
(* The search for the earliest event. *)

LEMMA NextOf ==
    ASSUME NEW S, Distinct(S), NEW c, Buckets(c, S), NEW i \in 0..c.m_nBuckets-1,
           c.m_buckets[i] # << >>
    PROVE  /\ IsEarliest(Calendar!NextEvent(c, i), OfBucket(c, i, S))
           /\ Calendar!NextEvent(c, i) \in S
           /\ Calendar!Hash(c, Calendar!NextEvent(c, i).ts) = i
           /\ Calendar!Pop(c, i) \in Seq(Event)
           /\ IsSorted(c.m_reverse, Calendar!Pop(c, i),
                       OfBucket(c, i, S) \ {Calendar!NextEvent(c, i)})
<1> DEFINE q == c.m_buckets[i]
           T == OfBucket(c, i, S)
           r == c.m_reverse
           n == Calendar!NextEvent(c, i)
           z == Calendar!Pop(c, i)
<1>1. IsSorted(r, q, T) /\ q \in Seq(Event) /\ T # {} /\ r \in BOOLEAN
  <2>1. r \in BOOLEAN
    BY Fields DEF Buckets
  <2> QED BY <2>1, BucketHolds
<1>2. /\ Len(q) \in Nat \ {0} /\ Head(q) = q[1]
      /\ Tail(q) = Without(q, 1) /\ SubSeq(q, 1, Len(q) - 1) = Without(q, Len(q))
  BY <1>1, Ends
<1>3. n = IF r THEN q[Len(q)] ELSE q[1]
  BY <1>2 DEF Calendar!NextEvent, Calendar!Seqs!Last
<1>4. z = IF r THEN SubSeq(q, 1, Len(q) - 1) ELSE Tail(q)
  BY DEF Calendar!Pop, Calendar!Seqs!Front
<1>5. \A ev \in T : ev \in S /\ Calendar!Hash(c, ev.ts) = i
  BY DEF OfBucket
<1> HIDE DEF q, T, r, n, z
<1>6. /\ n \in T /\ \A ev \in T \ {n} : KeyLess(n, ev)
      /\ IsSorted(r, z, T \ {n})
  <2>1. CASE r
    <3>1. r = TRUE /\ IsSorted(TRUE, q, T)
      BY <1>1, <2>1
    <3>2. /\ n \in T /\ \A ev \in T \ {n} : KeyLess(n, ev)
          /\ IsSorted(TRUE, IF TRUE THEN SubSeq(q, 1, Len(q) - 1) ELSE Tail(q), T \ {n})
      <4>1. n = IF TRUE THEN q[Len(q)] ELSE q[1]
        BY <1>3, <3>1
      <4> QED BY <1>1, <3>1, <4>1, SortedNext, ZenonT(30)
    <3> QED BY <1>4, <3>1, <3>2
  <2>2. CASE ~r
    <3>1. r = FALSE /\ IsSorted(FALSE, q, T)
      BY <1>1, <2>2
    <3>2. /\ n \in T /\ \A ev \in T \ {n} : KeyLess(n, ev)
          /\ IsSorted(FALSE, IF FALSE THEN SubSeq(q, 1, Len(q) - 1) ELSE Tail(q), T \ {n})
      <4>1. n = IF FALSE THEN q[Len(q)] ELSE q[1]
        BY <1>3, <3>1
      <4> QED BY <1>1, <3>1, <4>1, SortedNext, ZenonT(30)
    <3> QED BY <1>4, <3>1, <3>2
  <2> QED BY <2>1, <2>2
<1>7. Without(q, 1) \in Seq(Event) /\ Without(q, Len(q)) \in Seq(Event)
  <2>1. 1 \in 1..Len(q) /\ Len(q) \in 1..Len(q)
    BY <1>2
  <2> QED BY <1>1, <2>1, WithoutElement
<1>8. z \in Seq(Event)
  BY <1>2, <1>4, <1>7
<1>9. IsEarliest(n, T)
  BY <1>6 DEF IsEarliest
<1> QED BY <1>5, <1>6, <1>8, <1>9 DEF q, T, r, n, z

(* The k-th day from the cursor on, and its bucket. *)
LEMMA DayBucket ==
    ASSUME NEW c \in Calendars, CursorAt(c), NEW k \in Nat
    PROVE  /\ Calendar!Day(c, k) = (c.m_lastPrio \div c.m_width + k) % c.m_nBuckets
           /\ Calendar!Day(c, k) \in 0..c.m_nBuckets-1
           /\ c.m_bucketTop + k * c.m_width
                 = ((c.m_lastPrio \div c.m_width + k) + 1) * c.m_width
           /\ c.m_lastPrio \div c.m_width \in Nat
<1> DEFINE n == c.m_nBuckets
           w == c.m_width
           d == c.m_lastPrio \div w
<1>1. n \in Nat \ {0} /\ w \in Nat \ {0} /\ c.m_lastPrio \in Nat
  BY Fields
<1>2. d \in Nat
  BY <1>1, Division
<1>3. c.m_lastBucket = d % n /\ c.m_bucketTop = (d + 1) * w
  BY DEF CursorAt
<1>4. Calendar!Day(c, k) = ((d % n) + k) % n
  BY <1>3 DEF Calendar!Day
<1> HIDE DEF d, n, w
<1>5. ((d % n) + k) % n = (d + k) % n /\ d + k \in Nat
  <2>1. ((d % n) + k) % n = (d + k) % n
    BY <1>1, <1>2, Remainders, Zenon
  <2> QED BY <1>2, <2>1
<1>6. (d + k) % n \in 0..n-1
  BY <1>1, <1>5, Division
<1>7. (d + 1) * w + k * w = ((d + k) + 1) * w
  BY <1>1, <1>2
<1> QED BY <1>2, <1>3, <1>4, <1>5, <1>6, <1>7 DEF d, n, w

LEMMA DaysDiffer ==
    ASSUME NEW c \in Calendars, CursorAt(c), NEW j \in 0..c.m_nBuckets-1,
           NEW k \in 0..c.m_nBuckets-1, Calendar!Day(c, j) = Calendar!Day(c, k)
    PROVE  j = k
<1> DEFINE n == c.m_nBuckets
           d == c.m_lastPrio \div c.m_width
<1>1. n \in Nat \ {0}
  BY Fields
<1>2. j \in Nat /\ k \in Nat /\ j < n /\ k < n
  BY <1>1
<1>3. (d + j) % n = (d + k) % n /\ d \in Nat
  BY <1>2, DayBucket
<1> HIDE DEF n, d
<1>4. d + j \in Nat /\ d + k \in Nat
  BY <1>2, <1>3
<1>5. CASE j <= k
  <2>1. d + j <= d + k /\ d + k < (d + j) + n
    BY <1>1, <1>2, <1>3, <1>5
  <2>2. d + j = d + k
    BY <1>1, <1>3, <1>4, <2>1, Remainders
  <2> QED BY <1>2, <1>3, <2>2
<1>6. CASE k <= j
  <2>1. d + k <= d + j /\ d + j < (d + k) + n
    BY <1>1, <1>2, <1>3, <1>6
  <2>2. d + k = d + j
    BY <1>1, <1>3, <1>4, <2>1, Remainders
  <2> QED BY <1>2, <1>3, <2>2
<1> QED BY <1>2, <1>5, <1>6

(* Every bucket is that of a day of the year after the cursor. *)
LEMMA BucketDay ==
    ASSUME NEW c \in Calendars, CursorAt(c), NEW i \in 0..c.m_nBuckets-1
    PROVE  \E k \in 0..c.m_nBuckets-1 : Calendar!Day(c, k) = i
<1> DEFINE n == c.m_nBuckets
           b == c.m_lastBucket
           k == IF b <= i THEN i - b ELSE i - b + n
<1>1. n \in Nat \ {0} /\ c.m_width \in Nat \ {0} /\ c.m_lastPrio \in Nat
  BY Fields
<1>2. b \in 0..n-1
  <2> DEFINE d == c.m_lastPrio \div c.m_width
  <2>1. d \in Nat
    BY <1>1, Division
  <2> HIDE DEF d
  <2>2. d % n \in 0..n-1
    BY <1>1, <2>1, Division
  <2> QED BY <2>2 DEF CursorAt, d
<1> HIDE DEF n, b
<1>3. i \in 0..n-1
  BY DEF n
<1>4. k \in 0..n-1 /\ b + k \in Nat /\ (b + k = 0 * n + i \/ b + k = 1 * n + i)
  BY <1>1, <1>2, <1>3
<1> HIDE DEF k
<1>5. (b + k) % n = i
  BY <1>1, <1>3, <1>4, RemainderIs
<1> QED BY <1>4, <1>5 DEF n, b, Calendar!Day

(* A day is hit when the next event of its bucket is an event of this year.*)
LEMMA HitDay ==
    ASSUME NEW S, Distinct(S), NEW c, IsCalendar(c, S), NEW k \in Calendar!FullDays(c),
           NEW e, e = Calendar!NextEvent(c, Calendar!Day(c, k))
    PROVE  /\ k \in 0..c.m_nBuckets-1 /\ e \in S
           /\ k \in Calendar!Hits(c) <=> e.ts \div c.m_width = c.m_lastPrio \div c.m_width + k
<1> DEFINE n == c.m_nBuckets
           w == c.m_width
           d == c.m_lastPrio \div w
           i == Calendar!Day(c, k)
           f == e.ts \div w
<1>1. /\ c \in Calendars /\ CursorAt(c) /\ Buckets(c, S) /\ n \in Nat \ {0} /\ w \in Nat \ {0}
      /\ c.m_lastPrio \in Nat
  BY Fields DEF IsCalendar, Buckets
<1>2. k \in 0..n-1 /\ c.m_buckets[i] # << >> /\ k \in Nat
  BY <1>1 DEF Calendar!FullDays
<1>3. i = (d + k) % n /\ i \in 0..n-1 /\ c.m_bucketTop + k * w = ((d + k) + 1) * w /\ d \in Nat
  BY <1>1, <1>2, DayBucket
<1>4. e \in S /\ Calendar!Hash(c, e.ts) = i
  <2>1. e = Calendar!NextEvent(c, i) /\ i \in 0..c.m_nBuckets-1 /\ c.m_buckets[i] # << >>
    BY <1>2, <1>3
  <2> HIDE DEF i
  <2>2. /\ Calendar!NextEvent(c, i) \in S
        /\ Calendar!Hash(c, Calendar!NextEvent(c, i).ts) = i
    BY <1>1, <2>1, NextOf
  <2> QED BY <2>1, <2>2
<1>5. e.ts \in Nat /\ c.m_lastPrio <= e.ts
  BY <1>4 DEF Distinct, Event, IsCalendar, NotPast
<1>6. f \in Nat /\ d <= f /\ f % n = i
  <2>1. f \in Nat /\ f % n = i
    BY <1>1, <1>4, <1>5, HashIn
  <2> QED BY <1>1, <1>5, <2>1, DayIs, SMTT(30)
<1>7. k \in Calendar!Hits(c) <=> e.ts < ((d + k) + 1) * w
  BY <1>3 DEF Calendar!Hits
<1>8. e.ts < ((d + k) + 1) * w <=> f <= d + k
  <2>1. d + k \in Int
    BY <1>2, <1>3
  <2> HIDE DEF d
  <2> QED BY <1>1, <1>5, <2>1, DayIs
<1>9. f <= d + k => f = d + k
  <2> HIDE DEF f, d, n, i
  <2>1. f <= d + k => d + k < f + n
    BY <1>1, <1>2, <1>3, <1>6
  <2>2. d + k \in Nat /\ f % n = (d + k) % n
    BY <1>2, <1>3, <1>6
  <2> QED BY <1>1, <1>6, <2>1, <2>2, Remainders
<1>10. f = d + k => f <= d + k
  BY <1>2, <1>3, <1>6
<1> QED BY <1>2, <1>4, <1>7, <1>8, <1>9, <1>10

LEMMA KeyTimes ==
    ASSUME NEW S, Distinct(S), NEW m, IsEarliest(m, S), NEW e \in S
    PROVE  /\ m.ts \in Nat /\ e.ts \in Nat /\ m.ts <= e.ts
           /\ e # m => KeyLess(m, e) /\ ~KeyLess(e, m)
<1>1. /\ m \in S /\ m.ts \in Nat /\ e.ts \in Nat
      /\ e # m => KeyLess(m, e)
  BY DEF IsEarliest, Distinct, Event
<1>2. KeyLess(m, e) => m.ts <= e.ts
  BY <1>1 DEF KeyLess
<1>3. KeyLess(m, e) => ~KeyLess(e, m)
  BY <1>1, KeysOf
<1> QED BY <1>1, <1>2, <1>3

(* The day on which the earliest event is found. *)
LEMMA EarliestDay ==
    ASSUME NEW S, Distinct(S), NEW c, IsCalendar(c, S), NEW m, IsEarliest(m, S)
    PROVE  \E d \in Calendar!FullDays(c) :
              /\ Calendar!NextEvent(c, Calendar!Day(c, d)) = m
              /\ Calendar!Day(c, d) = Calendar!Hash(c, m.ts)
              /\ \A j \in Calendar!FullDays(c) \ {d} :
                    /\ Calendar!NextEvent(c, Calendar!Day(c, j)) \in S
                    /\ Calendar!NextEvent(c, Calendar!Day(c, j)) # m
<1> DEFINE i == Calendar!Hash(c, m.ts)
<1>1. /\ c \in Calendars /\ CursorAt(c) /\ Buckets(c, S) /\ c.m_nBuckets \in Nat \ {0}
      /\ m \in S /\ m.ts \in Nat
  BY Fields DEF IsCalendar, Buckets, IsEarliest, Distinct, Event
<1>2. i \in 0..c.m_nBuckets-1
  BY <1>1, HashIn
<1>3. PICK d \in 0..c.m_nBuckets-1 : Calendar!Day(c, d) = i
  <2> HIDE DEF i
  <2> QED BY <1>1, <1>2, BucketDay
<1>4. m \in OfBucket(c, i, S)
  BY <1>1 DEF OfBucket
<1> HIDE DEF i
<1>5. c.m_buckets[i] # << >>
  BY <1>1, <1>2, <1>4, BucketHolds
<1>6. d \in Calendar!FullDays(c)
  BY <1>3, <1>5 DEF Calendar!FullDays
<1>7. Calendar!NextEvent(c, i) = m
  <2> DEFINE e == Calendar!NextEvent(c, i)
  <2>1. IsEarliest(e, OfBucket(c, i, S)) /\ e \in S
    BY <1>1, <1>2, <1>5, NextOf
  <2> HIDE DEF e
  <2>2. e # m => KeyLess(e, m)
    BY <1>4, <2>1 DEF IsEarliest
  <2>3. e # m => ~KeyLess(e, m)
    BY <2>1, KeyTimes
  <2> QED BY <2>2, <2>3 DEF e
<1>8. ASSUME NEW j \in Calendar!FullDays(c) \ {d}
      PROVE  /\ Calendar!NextEvent(c, Calendar!Day(c, j)) \in S
             /\ Calendar!NextEvent(c, Calendar!Day(c, j)) # m
  <2> DEFINE b == Calendar!Day(c, j)
  <2>1. j \in 0..c.m_nBuckets-1 /\ c.m_buckets[b] # << >> /\ j \in Nat
    BY <1>1 DEF Calendar!FullDays
  <2>2. b # i
    BY <1>1, <1>3, <2>1, DaysDiffer
  <2>3. b \in 0..c.m_nBuckets-1
    BY <1>1, <2>1, DayBucket
  <2> HIDE DEF b
  <2>4. /\ Calendar!NextEvent(c, b) \in S
        /\ Calendar!Hash(c, Calendar!NextEvent(c, b).ts) = b
    BY <1>1, <2>1, <2>3, NextOf
  <2> QED BY <2>2, <2>4 DEF b, i
<1> QED BY <1>3, <1>6, <1>7, <1>8 DEF i

LEMMA SearchFinds ==
    ASSUME NEW S, Distinct(S), S # {}, NEW c, IsCalendar(c, S)
    PROVE  /\ Calendar!Search(c).bucket \in 0..c.m_nBuckets-1
           /\ c.m_buckets[Calendar!Search(c).bucket] # << >>
           /\ IsEarliest(Calendar!NextEvent(c, Calendar!Search(c).bucket), S)
           /\ \A e : e = Calendar!NextEvent(c, Calendar!Search(c).bucket) =>
                /\ Calendar!Search(c).lastBucket = (e.ts \div c.m_width) % c.m_nBuckets
                /\ Calendar!Search(c).top = (e.ts \div c.m_width + 1) * c.m_width
<1> DEFINE n == c.m_nBuckets
           w == c.m_width
           D == c.m_lastPrio \div w
           Day(k) == Calendar!Day(c, k)
           Next0(k) == Calendar!NextEvent(c, Day(k))
           Full == Calendar!FullDays(c)
           Hits == Calendar!Hits(c)
<1>1. /\ c \in Calendars /\ CursorAt(c) /\ Buckets(c, S) /\ n \in Nat \ {0} /\ w \in Nat \ {0}
      /\ c.m_lastPrio \in Nat
  BY Fields DEF IsCalendar, Buckets
<1>2. PICK m : IsEarliest(m, S)
  BY HasEarliest
<1>3. PICK d \in Full : /\ Next0(d) = m /\ Day(d) = Calendar!Hash(c, m.ts)
                        /\ \A j \in Full \ {d} : Next0(j) \in S /\ Next0(j) # m
  BY <1>2, EarliestDay
<1>4. /\ \A k \in Full : k \in 0..n-1 /\ c.m_buckets[Day(k)] # << >>
      /\ Hits \subseteq Full
  BY DEF Calendar!FullDays, Calendar!Hits
<1>5. /\ m \in S /\ m.ts \in Nat /\ c.m_lastPrio <= m.ts
  BY <1>2 DEF IsEarliest, Distinct, Event, IsCalendar, NotPast
<1>6. /\ Calendar!Hash(c, m.ts) = (m.ts \div w) % n /\ m.ts \div w \in Nat
      /\ Day(d) \in 0..n-1
  BY <1>1, <1>3, <1>5, HashIn
<1>7. ASSUME Calendar!Search(c).bucket = Day(d),
             Calendar!Search(c).lastBucket = (m.ts \div w) % n,
             Calendar!Search(c).top = (m.ts \div w + 1) * w
      PROVE  /\ Calendar!Search(c).bucket \in 0..n-1
             /\ c.m_buckets[Calendar!Search(c).bucket] # << >>
             /\ IsEarliest(Calendar!NextEvent(c, Calendar!Search(c).bucket), S)
             /\ \A e : e = Calendar!NextEvent(c, Calendar!Search(c).bucket) =>
                  /\ Calendar!Search(c).lastBucket = (e.ts \div w) % n
                  /\ Calendar!Search(c).top = (e.ts \div w + 1) * w
  BY <1>2, <1>3, <1>4, <1>6, <1>7
<1>8. CASE Hits # {}
  <2> DEFINE k == Calendar!Least(Hits)
             e == Next0(k)
  <2>1. k \in Hits /\ \A j \in Hits : k <= j
    <3>1. Hits \in SUBSET Nat
      BY <1>1, <1>4
    <3>2. k = CHOOSE x \in Hits : \A y \in Hits : x <= y
      BY DEF Calendar!Least
    <3> HIDE DEF k, Hits
    <3> QED BY <1>8, <3>1, <3>2, LeastIs
  <2>2. /\ Calendar!Search(c).bucket = Day(k) /\ Calendar!Search(c).lastBucket = Day(k)
        /\ Calendar!Search(c).top = c.m_bucketTop + k * w
    BY <1>8 DEF Calendar!Search
  <2> HIDE DEF k
  <2>3. k \in 0..n-1 /\ e \in S /\ e.ts \div w = D + k
    <3>1. k \in Full
      BY <1>4, <2>1
    <3> QED BY <2>1, <3>1, HitDay
  <2>4. d \in 0..n-1 /\ k \in Nat /\ d \in Nat
    BY <1>1, <1>4, <2>3
  <2>5. D \in Nat /\ \A j \in Nat : Day(j) = (D + j) % n
    BY <1>1, DayBucket
  <2>6. m.ts \div w = D + d
    <3> DEFINE f == m.ts \div w
               j == f - D
    <3>1. e.ts \in Nat /\ m.ts <= e.ts
      BY <1>2, <2>3, KeyTimes
    <3>2. D <= f /\ f <= D + k
      <4>1. D <= f
        BY <1>1, <1>5, DayIs
      <4>2. f <= e.ts \div w
        BY <1>1, <1>5, <3>1, DayIs
      <4> QED BY <2>3, <4>1, <4>2
    <3> HIDE DEF D, f
    <3>3. j \in Nat /\ j \in 0..n-1 /\ D + j = f /\ f \in Nat
      BY <1>1, <1>6, <2>3, <2>4, <2>5, <3>2 DEF f
    <3>4. Day(j) = f % n
      BY <2>5, <3>3
    <3>5. Day(j) = Day(d)
      BY <1>3, <1>6, <3>4 DEF f
    <3> HIDE DEF j
    <3>6. j = d
      BY <1>1, <2>4, <3>3, <3>5, DaysDiffer
    <3> QED BY <3>3, <3>6 DEF f
  <2>7. d \in Hits
    BY <1>3, <2>6, HitDay
  <2>8. d = k
    <3>1. k <= d
      BY <2>1, <2>7
    <3>2. d <= k
      <4>1. e.ts \in Nat /\ m.ts <= e.ts
        BY <1>2, <2>3, KeyTimes
      <4>2. m.ts \div w <= e.ts \div w
        BY <1>1, <1>5, <4>1, DayIs
      <4>3. D + d <= D + k
        BY <2>3, <2>6, <4>2
      <4> HIDE DEF D
      <4> QED BY <2>4, <2>5, <4>3
    <3> QED BY <2>4, <3>1, <3>2
  <2>9. c.m_bucketTop + k * w = ((D + k) + 1) * w
    BY <1>1, <2>4, DayBucket
  <2>10. /\ Calendar!Search(c).bucket = Day(d)
         /\ Calendar!Search(c).lastBucket = (m.ts \div w) % n
         /\ Calendar!Search(c).top = (m.ts \div w + 1) * w
    BY <2>2, <2>4, <2>5, <2>6, <2>8, <2>9
  <2> QED BY <1>7, <2>10
<1>9. CASE Hits = {}
  <2> DEFINE First(x) == \A y \in Full \ {x} : KeyLess(Next0(x), Next0(y))
             k == CHOOSE x \in Full : First(x)
  <2>1. First(d)
    <3> SUFFICES ASSUME NEW y \in Full \ {d} PROVE KeyLess(m, Next0(y))
      BY <1>3
    <3>1. Next0(y) \in S \ {m}
      BY <1>3
    <3> QED BY <1>2, <3>1 DEF IsEarliest
  <2>2. k \in Full /\ First(k)
    <3> HIDE DEF First, Full
    <3> QED BY <2>1, Zenon
  <2>3. k = CHOOSE x \in Full : \A y \in Full \ {x} :
               Calendar!KeyLess(Calendar!NextEvent(c, Calendar!Day(c, x)),
                                Calendar!NextEvent(c, Calendar!Day(c, y)))
    <3>1. \A a, b : Calendar!KeyLess(a, b) <=> KeyLess(a, b)
      BY HeapKeys
    <3> QED BY <3>1
  <2> HIDE DEF k
  <2>4. k = d
    <3> SUFFICES ASSUME k # d PROVE FALSE
      OBVIOUS
    <3>1. KeyLess(Next0(k), m)
      BY <1>3, <2>2
    <3>2. Next0(k) \in S /\ Next0(k) # m
      BY <1>3, <2>2
    <3> QED BY <1>2, <3>1, <3>2, KeyTimes
  <2>5. /\ Calendar!DirectSearch(c).bucket = Day(k)
        /\ Calendar!DirectSearch(c).lastBucket = Calendar!Hash(c, Next0(k).ts)
        /\ Calendar!DirectSearch(c).top = (Next0(k).ts \div w + 1) * w
    BY <2>3 DEF Calendar!DirectSearch
  <2>6. Calendar!Search(c) = Calendar!DirectSearch(c)
    BY <1>9 DEF Calendar!Search
  <2>7. /\ Calendar!Search(c).bucket = Day(d)
        /\ Calendar!Search(c).lastBucket = (m.ts \div w) % n
        /\ Calendar!Search(c).top = (m.ts \div w + 1) * w
    BY <1>3, <1>6, <2>4, <2>5, <2>6
  <2> QED BY <1>7, <2>7
<1> QED BY <1>8, <1>9

---------------------------------------------------------------------------
(* The earliest event taken out. *)

Moved(c, lastBucket, bucketTop, lastPrio) ==
    [c EXCEPT !.m_lastBucket = lastBucket, !.m_bucketTop = bucketTop, !.m_lastPrio = lastPrio]

Sized(c, size) == [c EXCEPT !.m_qSize = size]

(* The part of a calendar that moves of the cursor leave alone. *)
SameYear(d, c) == /\ d.m_nBuckets = c.m_nBuckets /\ d.m_width = c.m_width
                  /\ d.m_qSize = c.m_qSize /\ d.m_reverse = c.m_reverse

LEMMA SameFilled ==
    ASSUME NEW S, NEW c, Buckets(c, S), NEW d \in Calendars, d.m_buckets = c.m_buckets,
           d.m_nBuckets = c.m_nBuckets, d.m_width = c.m_width, d.m_reverse = c.m_reverse
    PROVE  Buckets(d, S)
<1>1. \A t : Calendar!Hash(d, t) = Calendar!Hash(c, t)
  BY DEF Calendar!Hash
<1>2. \A i : OfBucket(d, i, S) = OfBucket(c, i, S)
  BY <1>1 DEF OfBucket
<1> QED BY <1>2 DEF Buckets, Filled

LEMMA MovedFields ==
    ASSUME NEW S, NEW c, Buckets(c, S), NEW b \in Nat, NEW t \in Nat, NEW p \in Nat
    PROVE  /\ Buckets(Moved(c, b, t, p), S) /\ SameYear(Moved(c, b, t, p), c)
           /\ Moved(c, b, t, p).m_lastBucket = b /\ Moved(c, b, t, p).m_bucketTop = t
           /\ Moved(c, b, t, p).m_lastPrio = p
<1> DEFINE d == Moved(c, b, t, p)
<1>1. /\ d \in Calendars /\ d.m_buckets = c.m_buckets /\ SameYear(d, c)
      /\ d.m_lastBucket = b /\ d.m_bucketTop = t /\ d.m_lastPrio = p
  BY DEF Moved, Calendars, Buckets, SameYear
<1> HIDE DEF d
<1> QED BY <1>1, SameFilled DEF SameYear, d

LEMMA SizedFields ==
    ASSUME NEW S, NEW c, IsCalendar(c, S), NEW n \in Nat
    PROVE  /\ IsCalendar(Sized(c, n), S) /\ Sized(c, n).m_qSize = n
           /\ Sized(c, n).m_lastPrio = c.m_lastPrio
           /\ Sized(c, n).m_nBuckets = c.m_nBuckets
<1> DEFINE d == Sized(c, n)
<1>1. /\ d \in Calendars /\ d.m_buckets = c.m_buckets /\ d.m_nBuckets = c.m_nBuckets
      /\ d.m_width = c.m_width /\ d.m_reverse = c.m_reverse /\ d.m_qSize = n
      /\ d.m_lastBucket = c.m_lastBucket /\ d.m_bucketTop = c.m_bucketTop
      /\ d.m_lastPrio = c.m_lastPrio
  BY DEF Sized, Calendars, IsCalendar
<1> HIDE DEF d
<1>2. Buckets(c, S)
  BY DEF IsCalendar, Buckets
<1>3. Buckets(d, S)
  BY <1>1, <1>2, SameFilled
<1>4. CursorAt(d) /\ NotPast(d, S)
  BY <1>1 DEF IsCalendar, CursorAt, NotPast
<1> QED BY <1>1, <1>3, <1>4 DEF IsCalendar, Buckets, d

LEMMA CursorIn ==
    ASSUME NEW t \in Nat, NEW n \in Nat \ {0}, NEW w \in Nat \ {0}
    PROVE  (t \div w) % n \in Nat /\ (t \div w + 1) * w \in Nat
<1> DEFINE d == t \div w
<1>1. d \in Nat
  BY Division
<1> HIDE DEF d
<1>2. d % n \in 0..n-1
  BY <1>1, Division
<1>3. (d + 1) * w \in Nat
  BY <1>1
<1> QED BY <1>2, <1>3 DEF d

LEMMA CalendarDoRemoveNext ==
    ASSUME NEW S, Distinct(S), S # {}, NEW c, IsCalendar(c, S)
    PROVE  /\ IsEarliest(Calendar!DoRemoveNext(c).ev, S)
           /\ IsCalendar(Calendar!DoRemoveNext(c).left, S \ {Calendar!DoRemoveNext(c).ev})
           /\ SameYear(Calendar!DoRemoveNext(c).left, c)
           /\ Calendar!DoRemoveNext(c).left.m_lastPrio = Calendar!DoRemoveNext(c).ev.ts
           /\ Calendar!DoRemoveNext(c).ev = Calendar!NextEvent(c, Calendar!Search(c).bucket)
<1> DEFINE i == Calendar!Search(c).bucket
           b == Calendar!Search(c).lastBucket
           t == Calendar!Search(c).top
           e == Calendar!NextEvent(c, i)
           z == Calendar!Pop(c, i)
           l == Calendar!DoRemoveNext(c).left
           U == S \ {e}
           d == Put(c, i, z)
<1>1. c \in Calendars /\ Buckets(c, S)
  BY DEF IsCalendar, Buckets
<1>2. /\ i \in 0..c.m_nBuckets-1 /\ c.m_buckets[i] # << >> /\ IsEarliest(e, S)
      /\ b = (e.ts \div c.m_width) % c.m_nBuckets
      /\ t = (e.ts \div c.m_width + 1) * c.m_width
  BY SearchFinds
<1>3. Calendar!DoRemoveNext(c).ev = e
  BY DEF Calendar!DoRemoveNext
<1>4. l = Moved(d, b, t, e.ts)
  BY DEF Calendar!DoRemoveNext, Moved, Put
<1> HIDE DEF i, b, t, l
<1>5. /\ z \in Seq(Event) /\ e \in S /\ Calendar!Hash(c, e.ts) = i
      /\ IsSorted(c.m_reverse, z, OfBucket(c, i, S) \ {e})
  BY <1>1, <1>2, NextOf
<1> HIDE DEF z, e
<1>6. OfBucket(c, i, U) = OfBucket(c, i, S) \ {e}
  BY DEF OfBucket
<1>7. \A j \in 0..c.m_nBuckets-1 : j # i => OfBucket(c, j, U) = OfBucket(c, j, S)
  BY <1>5 DEF OfBucket
<1> HIDE DEF U
<1>8. Buckets(d, U) /\ Alike(d, c)
  <2>1. IsSorted(c.m_reverse, z, OfBucket(c, i, U))
    BY <1>5, <1>6
  <2> QED BY <1>1, <1>2, <1>5, <1>7, <2>1, PutFilled
<1>9. /\ e.ts \in Nat /\ b \in Nat /\ t \in Nat
  <2>1. e.ts \in Nat
    BY <1>5 DEF Distinct, Event
  <2> QED BY <1>1, <1>2, <2>1, Fields, CursorIn
<1> HIDE DEF d
<1>10. /\ Buckets(l, U) /\ SameYear(l, d) /\ l.m_lastBucket = b /\ l.m_bucketTop = t
       /\ l.m_lastPrio = e.ts
  <2> DEFINE p == e.ts
  <2>1. Buckets(d, U)
    BY <1>8
  <2>2. \A nb \in Nat, nt \in Nat, np \in Nat :
           /\ Buckets(Moved(d, nb, nt, np), U) /\ SameYear(Moved(d, nb, nt, np), d)
           /\ Moved(d, nb, nt, np).m_lastBucket = nb /\ Moved(d, nb, nt, np).m_bucketTop = nt
           /\ Moved(d, nb, nt, np).m_lastPrio = np
    BY <2>1, MovedFields
  <2>3. p \in Nat /\ b \in Nat /\ t \in Nat /\ l = Moved(d, b, t, p)
    BY <1>4, <1>9
  <2> HIDE DEF p
  <2>4. /\ Buckets(Moved(d, b, t, p), U) /\ SameYear(Moved(d, b, t, p), d)
        /\ Moved(d, b, t, p).m_lastBucket = b /\ Moved(d, b, t, p).m_bucketTop = t
        /\ Moved(d, b, t, p).m_lastPrio = p
    BY <2>2, <2>3
  <2> QED BY <2>3, <2>4 DEF p
<1>11. SameYear(l, c)
  BY <1>8, <1>10 DEF SameYear, Alike
<1>12. CursorAt(l)
  BY <1>2, <1>10, <1>11 DEF CursorAt, SameYear
<1>13. NotPast(l, U)
  BY <1>2, <1>10, KeyTimes DEF NotPast, U
<1>14. IsCalendar(l, U)
  BY <1>10, <1>12, <1>13 DEF IsCalendar, Buckets
<1> QED BY <1>2, <1>3, <1>10, <1>11, <1>14 DEF U, e, i, l

---------------------------------------------------------------------------
(* The samples taken to compute a new width, and their return. *)

SampleStates(S, c, k) ==
    {s \in [samples : Seq(Event), left : Calendars] :
        /\ Len(s.samples) = k /\ SameYear(s.left, c)
        /\ \E T \in SUBSET S : /\ Holds(s.samples, T) /\ Cardinality(T) = k
                               /\ IsCalendar(s.left, S \ T)}

LEMMA SampleOnce ==
    ASSUME NEW S, Distinct(S), IsFiniteSet(S), NEW c, NEW k \in Nat, k < Cardinality(S),
           NEW s \in SampleStates(S, c, k)
    PROVE  Calendar!Sample(s) \in SampleStates(S, c, k + 1)
<1>1. PICK T \in SUBSET S : /\ Holds(s.samples, T) /\ Cardinality(T) = k
                            /\ IsCalendar(s.left, S \ T)
  BY DEF SampleStates
<1>2. /\ s.samples \in Seq(Event) /\ s.left \in Calendars /\ Len(s.samples) = k
      /\ SameYear(s.left, c)
  BY DEF SampleStates
<1> DEFINE U == S \ T
           r == Calendar!DoRemoveNext(s.left)
           e == r.ev
           V == T \cup {e}
<1>3. Distinct(U) /\ U # {}
  BY <1>1 DEF Distinct
<1>4. IsCalendar(s.left, U)
  BY <1>1
<1> HIDE DEF U
<1>5. IsEarliest(e, U) /\ IsCalendar(r.left, U \ {e}) /\ SameYear(r.left, s.left)
  BY <1>3, <1>4, CalendarDoRemoveNext
<1>6. Calendar!Sample(s) = [samples |-> Append(s.samples, e), left |-> r.left]
  BY DEF Calendar!Sample
<1> HIDE DEF r, e
<1>7. e \in S /\ e \notin T /\ e \in Event
  BY <1>5 DEF IsEarliest, U, Distinct
<1>8. Holds(Append(s.samples, e), V) /\ Len(Append(s.samples, e)) = k + 1
  BY <1>1, <1>2, <1>7, HoldsAppend
<1>9. Cardinality(V) = k + 1
  BY <1>1, <1>7, FS_Subset, FS_AddElement
<1>10. U \ {e} = S \ V /\ V \in SUBSET S
  BY <1>7 DEF U
<1>11. Append(s.samples, e) \in Seq(Event)
  BY <1>2, <1>7, AppendProperties
<1>12. SameYear(r.left, c) /\ r.left \in Calendars
  BY <1>2, <1>5 DEF SameYear, IsCalendar
<1> HIDE DEF V
<1>13. IsCalendar(r.left, S \ V)
  BY <1>5, <1>10
<1> DEFINE q == Append(s.samples, e)
           l == r.left
<1>14. /\ q \in Seq(Event) /\ Len(q) = k + 1 /\ Holds(q, V) /\ Cardinality(V) = k + 1
       /\ V \in SUBSET S /\ l \in Calendars /\ SameYear(l, c) /\ IsCalendar(l, S \ V)
  BY <1>8, <1>9, <1>10, <1>11, <1>12, <1>13
<1>15. Calendar!Sample(s) = [samples |-> q, left |-> l]
  BY <1>6
<1> HIDE DEF q, l
<1>16. [samples |-> q, left |-> l] \in SampleStates(S, c, k + 1)
  BY <1>14 DEF SampleStates
<1> QED BY <1>15, <1>16

LEMMA SamplesTaken ==
    ASSUME NEW S, Distinct(S), IsFiniteSet(S), NEW c, IsCalendar(c, S),
           c.m_qSize = Cardinality(S)
    PROVE  /\ Calendar!NSamples(c) \in Nat
           /\ c.m_qSize >= 2 => Calendar!NSamples(c) >= 2
           /\ Calendar!Sampled(c) \in SampleStates(S, c, Calendar!NSamples(c))
<1> DEFINE n == Calendar!NSamples(c)
           m == IF c.m_qSize <= 5 THEN c.m_qSize ELSE 5 + c.m_qSize \div 10
           N == {25, m}
           b == [samples |-> << >>, left |-> c]
           turns == [k \in 1..n |-> k]
           loop == Loop("sample", 0)
           v == Taken(b, turns)
           A == [k \in 0..n |-> SampleStates(S, c, k)]
<1>1. c.m_qSize \in Nat /\ Cardinality(S) \in Nat /\ c \in Calendars
  BY Fields DEF IsCalendar
<1>2. m \in Nat /\ m <= c.m_qSize /\ (c.m_qSize >= 2 => m >= 2)
  BY <1>1
<1>3. n \in N /\ \A x \in N : n <= x
  <2>1. N \in SUBSET Nat /\ N # {}
    BY <1>2
  <2>2. n = CHOOSE x \in N : \A y \in N : x <= y
    BY DEF Calendar!NSamples, Calendar!Least
  <2> HIDE DEF N, n
  <2> QED BY <2>1, <2>2, LeastIs
<1> HIDE DEF n
<1>4. n \in Nat /\ n <= Cardinality(S) /\ (c.m_qSize >= 2 => n >= 2)
  <2> HIDE DEF m
  <2> QED BY <1>1, <1>2, <1>3
<1>5. Calendar!Sampled(c) = v
  BY DEF Calendar!Sampled, Taken, n
<1>6. Leads(loop, b, turns, n, v)
  <2>1. DOMAIN turns = 1..n
    OBVIOUS
  <2> HIDE DEF turns, b
  <2> QED BY <1>4, <2>1, TakenLead
<1>7. b \in A[0]
  <2>1. Holds(<< >>, {}) /\ << >> \in Seq(Event) /\ Len(<< >>) = 0
    <3>1. Len(<< >>) = 0 /\ << >> \in Seq({}) /\ << >> \in Seq(Event)
      OBVIOUS
    <3> QED BY <3>1 DEF Holds
  <2>2. Cardinality({}) = 0 /\ S \ {} = S /\ {} \in SUBSET S
    BY FS_EmptySet
  <2>3. SameYear(c, c)
    BY DEF SameYear
  <2>4. IsCalendar(c, S \ {})
    BY <2>2
  <2>5. b \in [samples : Seq(Event), left : Calendars] /\ b.samples = << >> /\ b.left = c
    BY <1>1, <2>1
  <2> HIDE DEF b
  <2>6. b \in SampleStates(S, c, 0)
    BY <2>1, <2>2, <2>3, <2>4, <2>5 DEF SampleStates
  <2>7. 0 \in 0..n
    BY <1>4
  <2> QED BY <2>6, <2>7
<1>8. ASSUME NEW k \in 0..n-1, NEW s \in A[k] PROVE Body(loop, s, turns[k + 1]) \in A[k + 1]
  <2>1. k \in Nat /\ k \in 0..n /\ k + 1 \in 0..n /\ k < Cardinality(S)
    BY <1>1, <1>4
  <2>2. Body(loop, s, turns[k + 1]) = Calendar!Sample(s)
    BY DEF Body, Loop
  <2>3. s \in SampleStates(S, c, k)
    BY <2>1
  <2>4. Calendar!Sample(s) \in SampleStates(S, c, k + 1)
    BY <2>1, <2>3, SampleOnce
  <2> QED BY <2>1, <2>2, <2>4
<1>9. v \in A[n]
  <2> HIDE DEF A, v, b, loop, turns
  <2> QED BY <1>4, <1>6, <1>7, <1>8, LeadsInduction
<1>10. v \in SampleStates(S, c, n)
  <2> HIDE DEF v
  <2> QED BY <1>4, <1>9
<1> QED BY <1>4, <1>5, <1>10 DEF n

(* The samples are put back where they were. *)
LEMMA SamplesBack ==
    ASSUME NEW S, Distinct(S), IsFiniteSet(S), NEW c, IsCalendar(c, S),
           c.m_qSize = Cardinality(S)
    PROVE  /\ IsCalendar(Calendar!PutBack(c, Calendar!Sampled(c)), S)
           /\ Alike(Calendar!PutBack(c, Calendar!Sampled(c)), c)
           /\ Calendar!Sampled(c).samples \in Seq(Event)
           /\ Len(Calendar!Sampled(c).samples) \in Nat
           /\ c.m_qSize >= 2 => Len(Calendar!Sampled(c).samples) >= 2
<1> DEFINE n == Calendar!NSamples(c)
           s == Calendar!Sampled(c)
           l == s.left
           q == s.samples
           d == Calendar!InsertAll(l, q)
           p == Calendar!PutBack(c, s)
<1>1. n \in Nat /\ (c.m_qSize >= 2 => n >= 2) /\ s \in SampleStates(S, c, n)
  BY SamplesTaken
<1>2. PICK T \in SUBSET S : Holds(q, T) /\ IsCalendar(l, S \ T)
  BY <1>1 DEF SampleStates
<1>3. q \in Seq(Event) /\ Len(q) = n /\ SameYear(l, c)
  BY <1>1 DEF SampleStates
<1>4. p = Moved(d, c.m_lastBucket, c.m_bucketTop, c.m_lastPrio)
  BY DEF Calendar!PutBack, Moved
<1> HIDE DEF n, s, l, q
<1>5. Buckets(d, S) /\ Alike(d, l)
  <2> DEFINE R == S \ T
             U == R \cup T
  <2>1. Buckets(l, R) /\ R \cap T = {} /\ U = S /\ Distinct(U)
    BY <1>2 DEF IsCalendar, Buckets
  <2> HIDE DEF R
  <2>2. Buckets(d, U) /\ Alike(d, l)
    BY <1>2, <2>1, CalendarInsertAll
  <2> HIDE DEF U
  <2> QED BY <2>1, <2>2
<1> HIDE DEF d
<1> DEFINE b == c.m_lastBucket
           t == c.m_bucketTop
           r == c.m_lastPrio
<1>6. b \in Nat /\ t \in Nat /\ r \in Nat
  BY Fields DEF IsCalendar
<1>7. p = Moved(d, b, t, r)
  BY <1>4
<1> HIDE DEF b, t, r, p
<1>8. /\ Buckets(p, S) /\ SameYear(p, d) /\ p.m_lastBucket = b /\ p.m_bucketTop = t
      /\ p.m_lastPrio = r
  <2>1. \A nb \in Nat, nt \in Nat, np \in Nat :
           /\ Buckets(Moved(d, nb, nt, np), S) /\ SameYear(Moved(d, nb, nt, np), d)
           /\ Moved(d, nb, nt, np).m_lastBucket = nb /\ Moved(d, nb, nt, np).m_bucketTop = nt
           /\ Moved(d, nb, nt, np).m_lastPrio = np
    BY <1>5, MovedFields
  <2> QED BY <1>6, <1>7, <2>1
<1>9. Alike(p, c)
  BY <1>3, <1>5, <1>8 DEF SameYear, Alike, b, t, r
<1>10. IsCalendar(p, S)
  BY <1>8, <1>9, Alikes DEF IsCalendar, Buckets
<1> QED BY <1>1, <1>3, <1>9, <1>10 DEF p, s, q

---------------------------------------------------------------------------
(* A new size and a new width. *)

LEMMA WidthIs ==
    ASSUME NEW q \in Seq(Event), Len(q) \in Nat, Len(q) >= 2
    PROVE  Calendar!CalculateNewWidth(q) \in Nat \ {0}
<1> DEFINE gaps == Calendar!Gaps(q)
           n == Len(q) - 1
           limit == (Calendar!Total(gaps) \div Len(gaps)) * 2
           v == SummedUpTo(0, gaps, limit)
           A == [k \in 0..n |-> Int]
           loop == Loop("small gap", limit)
<1>1. /\ n \in Nat /\ DOMAIN gaps = 1..n
      /\ \A k \in 1..n : gaps[k] \in Int
  <2>1. n \in Nat /\ gaps = [i \in 1..n |-> q[i + 1].ts - q[i].ts]
    BY DEF Calendar!Gaps
  <2>2. ASSUME NEW i \in 1..n PROVE q[i + 1].ts - q[i].ts \in Int
    <3>1. i \in 1..Len(q) /\ i + 1 \in 1..Len(q)
      OBVIOUS
    <3>2. q[i] \in Event /\ q[i + 1] \in Event
      BY <3>1, ElementOfSeq
    <3> QED BY <3>2, SMTT(30) DEF Event
  <2> QED BY <2>1, <2>2
<1> HIDE DEF gaps, n, limit
<1>2. Leads(loop, 0, gaps, n, v)
  BY <1>1, SummedUpToLead
<1>3. ASSUME NEW k \in 0..n-1, NEW a \in A[k] PROVE Body(loop, a, gaps[k + 1]) \in A[k + 1]
  <2> DEFINE g == gaps[k + 1]
             x == Body(loop, a, g)
  <2>1. k \in 0..n /\ k + 1 \in 0..n /\ k + 1 \in 1..n
    BY <1>1
  <2>2. a \in Int /\ g \in Int
    BY <1>1, <2>1
  <2> HIDE DEF g
  <2>3. x = IF g <= limit THEN a + g ELSE a
    BY DEF Body, Loop
  <2> HIDE DEF x
  <2>4. x = a + g \/ x = a
    BY <2>3, Zenon
  <2>5. x \in Int
    BY <2>2, <2>4
  <2> HIDE DEF loop
  <2> QED BY <2>1, <2>5 DEF x, g
<1>4. v \in A[n]
  <2>1. 0 \in A[0]
    BY <1>1
  <2> HIDE DEF A, v, loop
  <2> QED BY <1>1, <1>2, <1>3, <2>1, LeadsInduction
<1>5. v \in Int
  <2> HIDE DEF v
  <2> QED BY <1>1, <1>4
<1>6. Calendar!TotalUpTo(limit, gaps) = v
  BY DEF Calendar!TotalUpTo, SummedUpTo
<1>7. Calendar!CalculateNewWidth(q) =
         IF 3 * Calendar!TotalUpTo(limit, gaps) > 1
         THEN 3 * Calendar!TotalUpTo(limit, gaps) ELSE 1
  BY DEF Calendar!CalculateNewWidth, limit, gaps
<1> HIDE DEF v
<1> QED BY <1>5, <1>6, <1>7

LEMMA RenewedIs ==
    ASSUME NEW c \in Calendars, NEW n \in Nat \ {0}, NEW w \in Nat \ {0}
    PROVE  /\ Buckets(Calendar!Renewed(c, n, w), {}) /\ CursorAt(Calendar!Renewed(c, n, w))
           /\ Calendar!Renewed(c, n, w).m_lastPrio = c.m_lastPrio
           /\ Calendar!Renewed(c, n, w).m_qSize = c.m_qSize
<1> DEFINE d == Calendar!Renewed(c, n, w)
           b == [i \in 0..n-1 |-> << >>]
           l == (c.m_lastPrio \div w) % n
           t == (c.m_lastPrio \div w + 1) * w
<1>1. l \in Nat /\ t \in Nat
  BY Fields, CursorIn
<1>2. b \in UNION {[0..k-1 -> Seq(Event)] : k \in Nat \ {0}}
  <2>1. b \in [0..n-1 -> Seq(Event)]
    OBVIOUS
  <2> HIDE DEF b
  <2> QED BY <2>1
<1>3. d = [c EXCEPT !.m_buckets = b, !.m_nBuckets = n, !.m_width = w,
                    !.m_lastBucket = l, !.m_bucketTop = t]
  BY DEF Calendar!Renewed
<1>4. \A i \in 0..n-1 : b[i] = << >>
  OBVIOUS
<1>5. DOMAIN b = 0..n-1
  OBVIOUS
<1> HIDE DEF b, l, t, d
<1>6. /\ d \in Calendars /\ d.m_buckets = b /\ d.m_nBuckets = n /\ d.m_width = w
      /\ d.m_lastBucket = l /\ d.m_bucketTop = t /\ d.m_lastPrio = c.m_lastPrio
      /\ d.m_qSize = c.m_qSize
  BY <1>1, <1>2, <1>3 DEF Calendars
<1>7. ASSUME NEW i \in 0..d.m_nBuckets-1
      PROVE  IsSorted(d.m_reverse, d.m_buckets[i], OfBucket(d, i, {}))
  <2>1. d.m_buckets[i] = << >> /\ OfBucket(d, i, {}) = {}
    BY <1>4, <1>6 DEF OfBucket
  <2>2. Len(<< >>) = 0 /\ << >> \in Seq({})
    OBVIOUS
  <2> QED BY <2>1, <2>2 DEF IsSorted, Holds
<1>8. Filled(d, {})
  BY <1>5, <1>6, <1>7 DEF Filled
<1>9. CursorAt(d)
  BY <1>6 DEF CursorAt, l, t
<1> QED BY <1>6, <1>8, <1>9 DEF Buckets, d

(* The events of the first k buckets. *)
FirstBuckets(c, S, k) == {ev \in S : Calendar!Hash(c, ev.ts) < k}

LEMMA FirstBucketsOf ==
    ASSUME NEW S, Distinct(S), NEW c \in Calendars
    PROVE  /\ FirstBuckets(c, S, 0) = {} /\ FirstBuckets(c, S, c.m_nBuckets) = S
           /\ \A k \in Nat :
                 /\ FirstBuckets(c, S, k + 1) = FirstBuckets(c, S, k) \cup OfBucket(c, k, S)
                 /\ FirstBuckets(c, S, k) \cap OfBucket(c, k, S) = {}
<1>1. ASSUME NEW ev \in S PROVE Calendar!Hash(c, ev.ts) \in 0..c.m_nBuckets-1
  <2>1. ev.ts \in Nat
    BY DEF Distinct, Event
  <2> QED BY <2>1, HashIn
<1>2. c.m_nBuckets \in Nat
  BY Fields
<1>3. FirstBuckets(c, S, 0) = {} /\ FirstBuckets(c, S, c.m_nBuckets) = S
  BY <1>1, <1>2 DEF FirstBuckets
<1>4. ASSUME NEW k \in Nat
      PROVE  /\ FirstBuckets(c, S, k + 1) = FirstBuckets(c, S, k) \cup OfBucket(c, k, S)
             /\ FirstBuckets(c, S, k) \cap OfBucket(c, k, S) = {}
  BY <1>1, <1>2 DEF FirstBuckets, OfBucket
<1> QED BY <1>3, <1>4

LEMMA CalendarDoResize ==
    ASSUME NEW S, Distinct(S), NEW c, IsCalendar(c, S), NEW n \in Nat \ {0},
           NEW w \in Nat \ {0}
    PROVE  /\ IsCalendar(Calendar!DoResize(c, n, w), S)
           /\ Calendar!DoResize(c, n, w).m_lastPrio = c.m_lastPrio
           /\ Calendar!DoResize(c, n, w).m_qSize = c.m_qSize
<1> DEFINE b == Calendar!Renewed(c, n, w)
           m == c.m_nBuckets
           s == [i \in 1..m |-> c.m_buckets[i - 1]]
           loop == Loop("bucket", 0)
           v == Transferred(b, s)
           A == [k \in 0..m |-> {d \in Calendars : /\ Filled(d, FirstBuckets(c, S, k))
                                                  /\ Alike(d, b)}]
<1>1. c \in Calendars /\ Buckets(c, S) /\ m \in Nat \ {0}
  BY Fields DEF IsCalendar, Buckets
<1>2. /\ Buckets(b, {}) /\ CursorAt(b) /\ b.m_lastPrio = c.m_lastPrio
      /\ b.m_qSize = c.m_qSize
  BY <1>1, RenewedIs
<1>3. Calendar!DoResize(c, n, w) = v
  BY DEF Calendar!DoResize, Transferred
<1> HIDE DEF b
<1>4. Leads(loop, b, s, m, v)
  <2>1. DOMAIN s = 1..m /\ m \in Nat
    BY <1>1
  <2> HIDE DEF s, m
  <2> QED BY <2>1, TransferredLead
<1>5. b \in A[0]
  <2>1. FirstBuckets(c, S, 0) = {} /\ 0 \in 0..m
    BY <1>1, FirstBucketsOf
  <2>2. Alike(b, b)
    BY DEF Alike
  <2> QED BY <1>2, <2>1, <2>2 DEF Buckets
<1>6. ASSUME NEW k \in 0..m-1, NEW d \in A[k] PROVE Body(loop, d, s[k + 1]) \in A[k + 1]
  <2> DEFINE U == FirstBuckets(c, S, k)
             T == OfBucket(c, k, S)
             q == c.m_buckets[k]
             e == Calendar!InsertAll(d, q)
  <2>1. k \in Nat /\ k \in 0..m /\ k + 1 \in 0..m /\ k + 1 \in 1..m
    BY <1>1
  <2>2. s[k + 1] = q
    BY <2>1
  <2>3. Body(loop, d, s[k + 1]) = e
    BY <2>2 DEF Body, Loop
  <2>4. Buckets(d, U) /\ Alike(d, b)
    BY <2>1 DEF Buckets
  <2>5. Holds(q, T)
    BY <1>1, BucketHolds DEF IsSorted
  <2>6. /\ FirstBuckets(c, S, k + 1) = U \cup T /\ U \cap T = {}
    BY <1>1, <2>1, FirstBucketsOf
  <2>7. Distinct(U \cup T)
    BY DEF Distinct, FirstBuckets, OfBucket
  <2> HIDE DEF U, T, q
  <2>8. Buckets(e, U \cup T) /\ Alike(e, d)
    BY <2>4, <2>5, <2>6, <2>7, CalendarInsertAll
  <2> HIDE DEF e
  <2>9. Alike(e, b)
    BY <2>4, <2>8, AlikeChain
  <2>10. e \in {x \in Calendars : Filled(x, FirstBuckets(c, S, k + 1)) /\ Alike(x, b)}
    BY <2>6, <2>8, <2>9 DEF Buckets
  <2> QED BY <2>1, <2>3, <2>10
<1>7. v \in A[m]
  <2> HIDE DEF A, v, loop, m, s
  <2> QED BY <1>1, <1>4, <1>5, <1>6, LeadsInduction
<1> HIDE DEF v
<1>8. v \in Calendars /\ Filled(v, S) /\ Alike(v, b)
  <2>1. FirstBuckets(c, S, m) = S /\ m \in 0..m
    BY <1>1, FirstBucketsOf
  <2> QED BY <1>7, <2>1
<1>9. CursorAt(v)
  BY <1>2, <1>8, Alikes
<1>10. NotPast(v, S)
  BY <1>2, <1>8 DEF IsCalendar, NotPast, Alike
<1> QED BY <1>2, <1>3, <1>8, <1>9, <1>10 DEF IsCalendar, Alike

LEMMA CalendarResize ==
    ASSUME NEW S, Distinct(S), IsFiniteSet(S), NEW c, IsCalendar(c, S),
           c.m_qSize = Cardinality(S), NEW n \in Nat \ {0}
    PROVE  /\ IsCalendar(Calendar!Resize(c, n), S)
           /\ Calendar!Resize(c, n).m_lastPrio = c.m_lastPrio
           /\ Calendar!Resize(c, n).m_qSize = c.m_qSize
<1>1. c.m_qSize \in Nat
  BY Fields DEF IsCalendar
<1>2. CASE c.m_qSize < 2
  <2>1. Calendar!Resize(c, n) = Calendar!DoResize(c, n, 1)
    BY <1>2 DEF Calendar!Resize
  <2>2. 1 \in Nat \ {0}
    OBVIOUS
  <2> QED BY <2>1, <2>2, CalendarDoResize
<1>3. CASE ~(c.m_qSize < 2)
  <2> DEFINE s == Calendar!Sampled(c)
             p == Calendar!PutBack(c, s)
             w == Calendar!CalculateNewWidth(s.samples)
  <2>1. Calendar!Resize(c, n) = Calendar!DoResize(p, n, w)
    BY <1>3 DEF Calendar!Resize
  <2>2. /\ IsCalendar(p, S) /\ Alike(p, c) /\ s.samples \in Seq(Event)
        /\ Len(s.samples) \in Nat /\ Len(s.samples) >= 2
    BY <1>1, <1>3, SamplesBack
  <2> HIDE DEF s, p
  <2>3. w \in Nat \ {0}
    BY <2>2, WidthIs
  <2> HIDE DEF w
  <2>4. /\ IsCalendar(Calendar!DoResize(p, n, w), S)
        /\ Calendar!DoResize(p, n, w).m_lastPrio = p.m_lastPrio
        /\ Calendar!DoResize(p, n, w).m_qSize = p.m_qSize
    BY <2>2, <2>3, CalendarDoResize
  <2> QED BY <2>1, <2>2, <2>4 DEF Alike
<1> QED BY <1>2, <1>3

LEMMA CalendarResizes ==
    ASSUME NEW S, Distinct(S), IsFiniteSet(S), NEW c, IsCalendar(c, S),
           c.m_qSize = Cardinality(S)
    PROVE  /\ IsCalendar(Calendar!ResizeUp(c), S)
           /\ Calendar!ResizeUp(c).m_lastPrio = c.m_lastPrio
           /\ Calendar!ResizeUp(c).m_qSize = Cardinality(S)
           /\ IsCalendar(Calendar!ResizeDown(c), S)
           /\ Calendar!ResizeDown(c).m_lastPrio = c.m_lastPrio
           /\ Calendar!ResizeDown(c).m_qSize = Cardinality(S)
<1>1. c.m_qSize \in Nat /\ c.m_nBuckets \in Nat \ {0}
  BY Fields DEF IsCalendar
<1>2. /\ IsCalendar(Calendar!ResizeUp(c), S)
      /\ Calendar!ResizeUp(c).m_lastPrio = c.m_lastPrio
      /\ Calendar!ResizeUp(c).m_qSize = Cardinality(S)
  <2> DEFINE n == c.m_nBuckets * 2
  <2>1. n \in Nat \ {0}
    BY <1>1
  <2>2. Calendar!ResizeUp(c) = Calendar!Resize(c, n) \/ Calendar!ResizeUp(c) = c
    BY DEF Calendar!ResizeUp
  <2> HIDE DEF n
  <2>3. /\ IsCalendar(Calendar!Resize(c, n), S)
        /\ Calendar!Resize(c, n).m_lastPrio = c.m_lastPrio
        /\ Calendar!Resize(c, n).m_qSize = c.m_qSize
    BY <2>1, CalendarResize
  <2> QED BY <2>2, <2>3
<1>3. /\ IsCalendar(Calendar!ResizeDown(c), S)
      /\ Calendar!ResizeDown(c).m_lastPrio = c.m_lastPrio
      /\ Calendar!ResizeDown(c).m_qSize = Cardinality(S)
  <2> DEFINE n == c.m_nBuckets \div 2
  <2>1. CASE c.m_qSize < n
    <3>1. n \in Nat \ {0}
      BY <1>1, <2>1
    <3>2. Calendar!ResizeDown(c) = Calendar!Resize(c, n)
      BY <2>1 DEF Calendar!ResizeDown
    <3> HIDE DEF n
    <3>3. /\ IsCalendar(Calendar!Resize(c, n), S)
          /\ Calendar!Resize(c, n).m_lastPrio = c.m_lastPrio
          /\ Calendar!Resize(c, n).m_qSize = c.m_qSize
      BY <3>1, CalendarResize
    <3> QED BY <3>2, <3>3
  <2>2. CASE ~(c.m_qSize < n)
    BY <2>2 DEF Calendar!ResizeDown
  <2> QED BY <2>1, <2>2
<1> QED BY <1>2, <1>3

---------------------------------------------------------------------------
(* The calendar. *)

LEMMA CalendarInsert ==
    ASSUME NEW S, IsFiniteSet(S), CalendarOf(calendar, S), NEW e \in Event, e \notin S,
           Distinct(S \cup {e}), calendar.m_lastPrio <= e.ts, Calendar!Insert(e)
    PROVE  CalendarOf(calendar', S \cup {e}) /\ calendar'.m_lastPrio = calendar.m_lastPrio
<1> DEFINE U == S \cup {e}
           d == Calendar!DoInsert(calendar, e)
           z == Sized(d, calendar.m_qSize + 1)
<1>1. IsCalendar(calendar, S) /\ Buckets(calendar, S) /\ calendar.m_qSize \in Nat
  BY Fields DEF CalendarOf, IsCalendar, Buckets
<1>2. Buckets(d, U) /\ Alike(d, calendar)
  BY <1>1, CalendarDoInsert
<1>3. calendar' = Calendar!ResizeUp(Sized(d, d.m_qSize + 1))
  BY DEF Calendar!Insert, Sized
<1> HIDE DEF d
<1>4. calendar' = Calendar!ResizeUp(z)
  BY <1>2, <1>3 DEF Alike
<1>5. IsFiniteSet(U) /\ Cardinality(U) = calendar.m_qSize + 1 /\ Distinct(U)
  BY FS_AddElement DEF CalendarOf
<1>6. IsCalendar(d, U)
  <2>1. CursorAt(d)
    BY <1>1, <1>2, Alikes DEF IsCalendar
  <2>2. NotPast(d, U)
    BY <1>1, <1>2 DEF IsCalendar, NotPast, Alike
  <2> QED BY <1>2, <2>1, <2>2 DEF IsCalendar, Buckets
<1> DEFINE n == calendar.m_qSize + 1
<1>7. n \in Nat /\ z = Sized(d, n)
  BY <1>1
<1> HIDE DEF U, z, n
<1>8. IsCalendar(z, U) /\ z.m_qSize = n /\ z.m_lastPrio = d.m_lastPrio
  BY <1>6, <1>7, SizedFields
<1>9. /\ IsCalendar(Calendar!ResizeUp(z), U)
      /\ Calendar!ResizeUp(z).m_lastPrio = z.m_lastPrio
      /\ Calendar!ResizeUp(z).m_qSize = Cardinality(U)
  <2>1. z.m_qSize = Cardinality(U)
    BY <1>5, <1>8 DEF n
  <2> QED BY <1>5, <1>8, <2>1, CalendarResizes
<1> QED BY <1>2, <1>4, <1>8, <1>9 DEF CalendarOf, Alike, U

LEMMA CalendarEmpty ==
    ASSUME NEW S, IsFiniteSet(S), CalendarOf(calendar, S)
    PROVE  Calendar!IsEmpty <=> S = {}
  BY FS_EmptySet DEF CalendarOf, Calendar!IsEmpty

LEMMA CalendarNext ==
    ASSUME NEW S, Distinct(S), S # {}, CalendarOf(calendar, S)
    PROVE  IsEarliest(Calendar!PeekNext, S)
<1>1. IsEarliest(Calendar!NextEvent(calendar, Calendar!Search(calendar).bucket), S)
  BY SearchFinds DEF CalendarOf
<1> QED BY <1>1 DEF Calendar!PeekNext

LEMMA CalendarRemoveNext ==
    ASSUME NEW S, Distinct(S), IsFiniteSet(S), S # {}, CalendarOf(calendar, S), Calendar!RemoveNext,
           NEW e, e = Calendar!PeekNext
    PROVE  CalendarOf(calendar', S \ {e}) /\ calendar'.m_lastPrio = e.ts
<1> DEFINE U == S \ {e}
           r == Calendar!DoRemoveNext(calendar)
           l == r.left
           z == Sized(l, calendar.m_qSize - 1)
<1>1. IsCalendar(calendar, S) /\ calendar.m_qSize \in Nat
  BY Fields DEF CalendarOf, IsCalendar
<1>2. /\ e \in S /\ IsCalendar(l, U) /\ SameYear(l, calendar) /\ l.m_lastPrio = e.ts
  <2>1. r.ev = e
    BY <1>1, CalendarDoRemoveNext DEF Calendar!PeekNext
  <2>2. e \in S
    BY <1>1, <2>1, CalendarDoRemoveNext DEF IsEarliest
  <2> QED BY <1>1, <2>1, <2>2, CalendarDoRemoveNext
<1>3. calendar' = Calendar!ResizeDown(Sized(l, l.m_qSize - 1))
  BY DEF Calendar!RemoveNext, Sized
<1> HIDE DEF r, l
<1>4. calendar' = Calendar!ResizeDown(z)
  BY <1>2, <1>3 DEF SameYear
<1>5. IsFiniteSet(U) /\ Cardinality(U) = calendar.m_qSize - 1 /\ Distinct(U)
      /\ Cardinality(U) \in Nat
  <2>1. IsFiniteSet(U) /\ Cardinality(U) = calendar.m_qSize - 1
    BY <1>2, FS_RemoveElement DEF CalendarOf
  <2> QED BY <2>1, FS_CardinalityType DEF Distinct
<1> DEFINE n == calendar.m_qSize - 1
<1>6. n \in Nat /\ z = Sized(l, n)
  BY <1>5
<1> HIDE DEF U, z, n
<1>7. IsCalendar(z, U) /\ z.m_qSize = n /\ z.m_lastPrio = l.m_lastPrio
  BY <1>2, <1>6, SizedFields
<1>8. /\ IsCalendar(Calendar!ResizeDown(z), U)
      /\ Calendar!ResizeDown(z).m_lastPrio = z.m_lastPrio
      /\ Calendar!ResizeDown(z).m_qSize = Cardinality(U)
  <2>1. z.m_qSize = Cardinality(U)
    BY <1>5, <1>7 DEF n
  <2> QED BY <1>5, <1>7, <2>1, CalendarResizes
<1>9. IsCalendar(calendar', U) /\ calendar'.m_qSize = Cardinality(U)
      /\ calendar'.m_lastPrio = e.ts
  BY <1>2, <1>4, <1>7, <1>8
<1> QED BY <1>9 DEF CalendarOf, U

LEMMA CalendarRemove ==
    ASSUME NEW S, Distinct(S), IsFiniteSet(S), CalendarOf(calendar, S), NEW e \in S,
           Calendar!Remove(e)
    PROVE  CalendarOf(calendar', S \ {e}) /\ calendar'.m_lastPrio = calendar.m_lastPrio
<1> DEFINE U == S \ {e}
           i == Calendar!Hash(calendar, e.ts)
           q == calendar.m_buckets[i]
<1>1. /\ IsCalendar(calendar, S) /\ Buckets(calendar, S) /\ calendar.m_qSize \in Nat
      /\ i \in 0..calendar.m_nBuckets-1
  <2>1. e.ts \in Nat
    BY DEF Distinct, Event
  <2> QED BY <2>1, Fields, HashIn DEF CalendarOf, IsCalendar, Buckets
<1>2. PICK k \in 1..Len(q) :
         /\ q[k].uid = e.uid
         /\ calendar' = Calendar!ResizeDown([calendar EXCEPT
               !.m_buckets[i] = Calendar!Seqs!RemoveAt(q, k), !.m_qSize = @ - 1])
  BY DEF Calendar!Remove
<1> DEFINE x == Without(q, k)
           d == Put(calendar, i, x)
           n == calendar.m_qSize - 1
           z == Sized(d, n)
<1>3. calendar' = Calendar!ResizeDown(z)
  <2>1. Calendar!Seqs!RemoveAt(q, k) = x
    BY DEF Calendar!Seqs!RemoveAt, Without
  <2> HIDE DEF x
  <2>2. calendar' = Calendar!ResizeDown([calendar EXCEPT !.m_buckets[i] = x, !.m_qSize = @ - 1])
    BY <1>2, <2>1
  <2>3. [calendar EXCEPT !.m_buckets[i] = x, !.m_qSize = @ - 1] = z
    BY <1>1 DEF Sized, Put, IsCalendar, Calendars
  <2> QED BY <2>2, <2>3
<1> HIDE DEF i
<1>4. /\ IsSorted(calendar.m_reverse, q, OfBucket(calendar, i, S)) /\ q \in Seq(Event)
      /\ q[k] \in S
  BY <1>1, <1>2, BucketHolds
<1>5. q[k] = e
  BY <1>2, <1>4 DEF Distinct
<1>6. IsSorted(calendar.m_reverse, x, OfBucket(calendar, i, S) \ {e})
  <2> HIDE DEF q
  <2> QED BY <1>2, <1>4, <1>5, SortedWithout
<1>7. x \in Seq(Event)
  <2> HIDE DEF q
  <2> QED BY <1>2, <1>4, WithoutElement
<1>8. /\ OfBucket(calendar, i, U) = OfBucket(calendar, i, S) \ {e}
      /\ \A j \in 0..calendar.m_nBuckets-1 : j # i =>
            OfBucket(calendar, j, U) = OfBucket(calendar, j, S)
  BY DEF OfBucket, i
<1> HIDE DEF U, x
<1>9. Buckets(d, U) /\ Alike(d, calendar)
  <2>1. IsSorted(calendar.m_reverse, x, OfBucket(calendar, i, U))
    BY <1>6, <1>8
  <2> QED BY <1>1, <1>7, <1>8, <2>1, PutFilled
<1> HIDE DEF d
<1>10. IsCalendar(d, U)
  <2>1. CursorAt(d)
    BY <1>1, <1>9, Alikes DEF IsCalendar
  <2>2. NotPast(d, U)
    BY <1>1, <1>9 DEF IsCalendar, NotPast, Alike, U
  <2> QED BY <1>9, <2>1, <2>2 DEF IsCalendar, Buckets
<1>11. IsFiniteSet(U) /\ Cardinality(U) = n /\ Distinct(U) /\ n \in Nat
  <2>1. IsFiniteSet(U) /\ Cardinality(U) = n
    BY FS_RemoveElement DEF CalendarOf, U
  <2>2. Distinct(U)
    BY DEF Distinct, U
  <2> QED BY <2>1, <2>2, FS_CardinalityType
<1> HIDE DEF n
<1>12. IsCalendar(z, U) /\ z.m_qSize = n /\ z.m_lastPrio = d.m_lastPrio
  BY <1>10, <1>11, SizedFields
<1> HIDE DEF z
<1>13. /\ IsCalendar(Calendar!ResizeDown(z), U)
       /\ Calendar!ResizeDown(z).m_lastPrio = z.m_lastPrio
       /\ Calendar!ResizeDown(z).m_qSize = Cardinality(U)
  BY <1>11, <1>12, CalendarResizes
<1> QED BY <1>3, <1>9, <1>12, <1>13 DEF CalendarOf, U, Alike

---------------------------------------------------------------------------
(* The interface: what any of the schedulers does to the events it has.    *)

ContainsNow(t, S) == Contains(t, m_list, m_heap, calendar, S)
ContainsNext(t, S) == Contains(t, m_list', m_heap', calendar', S)

LEMMA InsertKeeps ==
    ASSUME NEW t \in Schedulers, NEW S, ContainsNow(t, S), IsFiniteSet(S),
           NEW e \in Event, e \notin S, Distinct(S \cup {e}),
           t = "calendar" => calendar.m_lastPrio <= e.ts, Insert(t, e)
    PROVE  /\ ContainsNext(t, S \cup {e})
           /\ t = "heap" /\ IsHeap(m_heap) => IsHeap(m_heap')
           /\ t = "calendar" => calendar'.m_lastPrio = calendar.m_lastPrio
<1>1. CASE t = "list"
  <2>1. IsSorted(FALSE, m_list, S) /\ List!Insert(e)
    BY <1>1 DEF ContainsNow, Contains, Insert
  <2>2. IsSorted(FALSE, m_list', S \cup {e})
    BY <2>1, ListInsert
  <2> QED BY <1>1, <2>2 DEF ContainsNext, Contains
<1>2. CASE t = "heap"
  <2>1. Holds(m_heap, S) /\ Heap!Insert(e)
    BY <1>2 DEF ContainsNow, Contains, Insert
  <2>2. Holds(m_heap', S \cup {e}) /\ (IsHeap(m_heap) => IsHeap(m_heap'))
    BY <2>1, HeapInsert
  <2> QED BY <1>2, <2>2 DEF ContainsNext, Contains
<1>3. CASE t = "calendar"
  <2>1. CalendarOf(calendar, S) /\ Calendar!Insert(e)
    BY <1>3 DEF ContainsNow, Contains, Insert
  <2>2. CalendarOf(calendar', S \cup {e}) /\ calendar'.m_lastPrio = calendar.m_lastPrio
    BY <1>3, <2>1, CalendarInsert
  <2> QED BY <1>3, <2>2 DEF ContainsNext, Contains
<1> QED BY <1>1, <1>2, <1>3 DEF Schedulers

LEMMA EmptyIf ==
    ASSUME NEW t \in Schedulers, NEW S, ContainsNow(t, S), IsFiniteSet(S)
    PROVE  IsEmpty(t) <=> S = {}
<1>1. CASE t = "list"
  <2>1. IsEmpty(t) <=> m_list = << >>
    BY <1>1 DEF IsEmpty, List!Empty
  <2> QED BY <1>1, <2>1, HoldsIn DEF ContainsNow, Contains, IsSorted
<1>2. CASE t = "heap"
  <2>1. IsEmpty(t) <=> m_heap = << >>
    BY <1>2 DEF IsEmpty, Heap!Empty
  <2> QED BY <1>2, <2>1, HoldsIn DEF ContainsNow, Contains
<1>3. CASE t = "calendar"
  <2>1. IsEmpty(t) <=> Calendar!IsEmpty
    BY <1>3 DEF IsEmpty
  <2> QED BY <1>3, <2>1, CalendarEmpty DEF ContainsNow, Contains
<1> QED BY <1>1, <1>2, <1>3 DEF Schedulers

LEMMA NextIsEarliest ==
    ASSUME NEW t \in Schedulers, NEW S, ContainsNow(t, S), S # {}, Distinct(S),
           t = "heap" => IsHeap(m_heap)
    PROVE  IsEarliest(PeekNext(t), S)
<1>1. CASE t = "list"
  <2>1. IsEarliest(List!PeekNext, S)
    BY <1>1, ListNext DEF ContainsNow, Contains
  <2> QED BY <1>1, <2>1 DEF PeekNext
<1>2. CASE t = "heap"
  <2>1. IsEarliest(m_heap[1], S)
    BY <1>2, HeapNext DEF ContainsNow, Contains
  <2> QED BY <1>2, <2>1 DEF PeekNext, Heap!PeekNext
<1>3. CASE t = "calendar"
  <2>1. IsEarliest(Calendar!PeekNext, S)
    BY <1>3, CalendarNext DEF ContainsNow, Contains
  <2> QED BY <1>3, <2>1 DEF PeekNext
<1> QED BY <1>1, <1>2, <1>3 DEF Schedulers

LEMMA RemoveNextKeeps ==
    ASSUME NEW t \in Schedulers, NEW S, ContainsNow(t, S), S # {}, Distinct(S),
           IsFiniteSet(S), RemoveNext(t), NEW e, e = PeekNext(t)
    PROVE  /\ e \in S /\ ContainsNext(t, S \ {e})
           /\ t = "heap" /\ IsHeap(m_heap) => IsHeap(m_heap')
           /\ t = "calendar" => calendar'.m_lastPrio = e.ts
<1>1. CASE t = "list"
  <2>1. IsSorted(FALSE, m_list, S) /\ List!RemoveNext /\ e = List!PeekNext
    BY <1>1 DEF ContainsNow, Contains, RemoveNext, PeekNext
  <2>2. IsSorted(FALSE, m_list', S \ {e}) /\ e \in S
    BY <2>1, ListRemoveNext, ListNext DEF IsEarliest
  <2> QED BY <1>1, <2>2 DEF ContainsNext, Contains
<1>2. CASE t = "heap"
  <2>1. Holds(m_heap, S) /\ Heap!RemoveNext /\ e = Heap!PeekNext
    BY <1>2 DEF ContainsNow, Contains, RemoveNext, PeekNext
  <2>2. e \in S /\ Holds(m_heap', S \ {e}) /\ (IsHeap(m_heap) => IsHeap(m_heap'))
    BY <2>1, HeapRemoveNext
  <2> QED BY <1>2, <2>2 DEF ContainsNext, Contains
<1>3. CASE t = "calendar"
  <2>1. CalendarOf(calendar, S) /\ Calendar!RemoveNext /\ e = Calendar!PeekNext
    BY <1>3 DEF ContainsNow, Contains, RemoveNext, PeekNext
  <2>2. CalendarOf(calendar', S \ {e}) /\ calendar'.m_lastPrio = e.ts
    BY <2>1, CalendarRemoveNext
  <2>3. e \in S
    BY <2>1, CalendarNext DEF IsEarliest
  <2> QED BY <1>3, <2>2, <2>3 DEF ContainsNext, Contains
<1> QED BY <1>1, <1>2, <1>3 DEF Schedulers

LEMMA RemoveKeeps ==
    ASSUME NEW t \in Schedulers, NEW S, ContainsNow(t, S), Distinct(S), IsFiniteSet(S),
           NEW e \in S, Remove(t, e)
    PROVE  /\ ContainsNext(t, S \ {e})
           /\ t = "calendar" => calendar'.m_lastPrio = calendar.m_lastPrio
<1>1. CASE t = "list"
  <2>1. IsSorted(FALSE, m_list, S) /\ List!Remove(e)
    BY <1>1 DEF ContainsNow, Contains, Remove
  <2>2. IsSorted(FALSE, m_list', S \ {e})
    BY <2>1, ListRemove
  <2> QED BY <1>1, <2>2 DEF ContainsNext, Contains
<1>2. CASE t = "heap"
  <2>1. Holds(m_heap, S) /\ Heap!Remove(e)
    BY <1>2 DEF ContainsNow, Contains, Remove
  <2>2. Holds(m_heap', S \ {e})
    BY <2>1, HeapRemove
  <2> QED BY <1>2, <2>2 DEF ContainsNext, Contains
<1>3. CASE t = "calendar"
  <2>1. CalendarOf(calendar, S) /\ Calendar!Remove(e)
    BY <1>3 DEF ContainsNow, Contains, Remove
  <2>2. CalendarOf(calendar', S \ {e}) /\ calendar'.m_lastPrio = calendar.m_lastPrio
    BY <2>1, CalendarRemove
  <2> QED BY <1>3, <2>2 DEF ContainsNext, Contains
<1> QED BY <1>1, <1>2, <1>3 DEF Schedulers

(* The schedulers that are not used do not change. *)
LEMMA RestKeeps ==
    ASSUME NEW used, Rest(used)
    PROVE  /\ \A t \in Schedulers \ used : \A S : ContainsNow(t, S) => ContainsNext(t, S)
           /\ "heap" \notin used => m_heap' = m_heap
           /\ "calendar" \notin used => calendar' = calendar
<1>1. /\ "list" \notin used => m_list' = m_list
      /\ "heap" \notin used => m_heap' = m_heap
      /\ "calendar" \notin used => calendar' = calendar
  BY DEF Rest
<1>2. ASSUME NEW t \in Schedulers \ used, NEW S, ContainsNow(t, S) PROVE ContainsNext(t, S)
  BY <1>1, <1>2 DEF Schedulers, ContainsNow, ContainsNext, Contains
<1> QED BY <1>1, <1>2

LEMMA EmptyHeap ==
    ASSUME NEW h, Holds(h, {})
    PROVE  IsHeap(h)
<1>1. h = << >>
  BY HoldsIn
<1>2. 2..Len(<< >>) = {}
  OBVIOUS
<1> QED BY <1>1, <1>2 DEF IsHeap

---------------------------------------------------------------------------
(* The invariant holds initially, and every step keeps it.                 *)

LEMMA TypeNames ==
    ASSUME NEW t \in Types
    PROVE  t \in Schedulers
  BY TypesAssumption DEF Schedulers

(* What is shared out, in the state and in the next one. *)
SharesNow(moved) ==
    /\ moved \in SUBSET pending
    /\ type = newType => moved = {}
    /\ \A t \in Schedulers : ContainsNow(t, IF t = type THEN pending \ moved
                                            ELSE IF t = newType THEN moved ELSE {})

SharesNext(moved) ==
    /\ moved \in SUBSET (pending')
    /\ type' = newType' => moved = {}
    /\ \A t \in Schedulers : ContainsNext(t, IF t = type' THEN pending' \ moved
                                             ELSE IF t = newType' THEN moved ELSE {})

LEMMA Sharing ==
    /\ (\E moved \in SUBSET pending : ContainersInv(moved)) <=> \E moved : SharesNow(moved)
    /\ (\E moved \in SUBSET pending : ContainersInv(moved))' <=> \E moved : SharesNext(moved)
  BY Zenon DEF SharesNow, SharesNext, ContainersInv, Share, ContainsNow, ContainsNext

LEMMA InitInv == Init => IInv
<1> SUFFICES ASSUME Init PROVE IInv
  OBVIOUS
<1>1. PICK reverse \in BOOLEAN : calendar = Calendar!NewCalendar(reverse)
  BY DEF Init
<1>2. /\ type \in Types /\ newType = type /\ m_list = << >> /\ m_heap = << >> /\ now = 0
      /\ made = 0 /\ pending = {} /\ removed = FALSE
  BY DEF Init, List!Empty, Heap!Empty
<1>3. PendingInv
  BY <1>2, FS_EmptySet DEF PendingInv, Distinct
<1>4. SharesNow({})
  <2>1. Len(<< >>) = 0 /\ << >> \in Seq({})
    OBVIOUS
  <2>2. IsSorted(FALSE, m_list, {}) /\ Holds(m_heap, {})
    BY <1>2, <2>1 DEF IsSorted, Holds
  <2>3. CalendarOf(calendar, {})
    BY <1>1, CalendarNew, FS_EmptySet DEF CalendarOf
  <2>4. \A t \in Schedulers : ContainsNow(t, {})
    BY <2>2, <2>3 DEF ContainsNow, Contains
  <2>5. pending \ {} = {}
    BY <1>2
  <2>6. \A t : (IF t = type THEN pending \ {} ELSE IF t = newType THEN {} ELSE {}) = {}
    BY <2>5
  <2> QED BY <2>4, <2>6 DEF SharesNow
<1>5. HeapInv
  BY <1>2 DEF HeapInv, IsHeap
<1>6. ClockInv
  BY <1>1, <1>2, CalendarNew DEF ClockInv
<1>7. \E moved \in SUBSET pending : ContainersInv(moved)
  BY <1>4, Sharing
<1> QED BY <1>2, <1>3, <1>5, <1>6, <1>7 DEF IInv

LEMMA ScheduleInv ==
    ASSUME IInv, NEW ts \in Times, Schedule(ts)
    PROVE  IInv'
<1> DEFINE e == [ts |-> ts, uid |-> made + 1]
           U == pending \cup {e}
<1>1. /\ newType = type /\ ts >= now /\ Insert(type, e) /\ Rest({type})
      /\ made' = made + 1 /\ pending' = U /\ type' = type /\ newType' = newType
      /\ now' = now /\ removed' = removed
  BY DEF Schedule
<1>2. type \in Schedulers /\ made \in Nat /\ now \in Nat /\ ts \in Nat
  BY TypeNames, BoundsAssumption DEF IInv
<1>3. e \in Event /\ e.ts = ts /\ e.uid = made + 1
  BY <1>2 DEF Event
<1> HIDE DEF e
<1>4. /\ Distinct(pending) /\ IsFiniteSet(pending)
      /\ \A ev \in pending : ev.uid <= made /\ ev.uid \in Nat
  BY DEF IInv, PendingInv, Distinct, Event
<1>5. e \notin pending /\ Distinct(U)
  BY <1>2, <1>3, <1>4 DEF Distinct
<1>6. PendingInv'
  <2>1. IsFiniteSet(U)
    BY <1>4, FS_AddElement
  <2>2. \A ev \in U : ev.uid <= made'
    BY <1>1, <1>2, <1>3, <1>4
  <2> QED BY <1>1, <1>5, <2>1, <2>2 DEF PendingInv
<1>7. SharesNow({})
  <2>1. PICK moved : SharesNow(moved)
    BY Sharing DEF IInv
  <2>2. moved = {}
    BY <1>1, <2>1 DEF SharesNow
  <2> QED BY <2>1, <2>2
<1>8. /\ ContainsNow(type, pending)
      /\ \A t \in Schedulers \ {type} : ContainsNow(t, {})
  BY <1>1, <1>2, <1>7 DEF SharesNow
<1>9. /\ ContainsNext(type, U)
      /\ type = "heap" /\ IsHeap(m_heap) => IsHeap(m_heap')
      /\ type = "calendar" => calendar'.m_lastPrio = calendar.m_lastPrio
  <2>1. type = "calendar" => calendar.m_lastPrio <= e.ts
    <3> SUFFICES ASSUME type = "calendar" PROVE calendar.m_lastPrio <= e.ts
      OBVIOUS
    <3>1. calendar.m_lastPrio <= now
      BY <1>1 DEF IInv, ClockInv
    <3>2. calendar.m_lastPrio \in Nat
      BY <1>8, Fields DEF ContainsNow, Contains, CalendarOf, IsCalendar
    <3> QED BY <1>1, <1>2, <1>3, <3>1, <3>2
  <2> QED BY <1>1, <1>2, <1>3, <1>4, <1>5, <1>8, <2>1, InsertKeeps
<1>10. /\ \A t \in Schedulers \ {type} : ContainsNext(t, {})
       /\ type # "heap" => m_heap' = m_heap
       /\ type # "calendar" => calendar' = calendar
  BY <1>1, <1>8, RestKeeps
<1>11. SharesNext({})
  <2>1. \A t \in Schedulers : ContainsNext(t, IF t = type THEN U ELSE {})
    BY <1>9, <1>10
  <2>2. \A t : (IF t = type THEN U ELSE {})
               = IF t = type' THEN pending' \ {} ELSE IF t = newType' THEN {} ELSE {}
    BY <1>1
  <2> QED BY <2>1, <2>2 DEF SharesNext
<1>12. HeapInv'
  BY <1>1, <1>9, <1>10 DEF IInv, HeapInv
<1>13. ClockInv'
  BY <1>1, <1>9, <1>10 DEF IInv, ClockInv
<1>14. type' \in Types /\ newType' \in Types /\ now' \in Nat /\ made' \in Nat
       /\ removed' \in BOOLEAN
  BY <1>1 DEF IInv
<1>15. (\E moved \in SUBSET pending : ContainersInv(moved))'
  BY <1>11, Sharing
<1> QED BY <1>6, <1>12, <1>13, <1>14, <1>15 DEF IInv

(* The events that the scheduler in use has when none are being moved. *)
LEMMA SettledShares ==
    ASSUME IInv, newType = type
    PROVE  /\ type \in Schedulers /\ ContainsNow(type, pending)
           /\ \A t \in Schedulers \ {type} : ContainsNow(t, {})
           /\ Distinct(pending) /\ IsFiniteSet(pending)
           /\ \A ev \in pending : ev.ts \in Nat
<1>1. PICK moved : SharesNow(moved)
  BY Sharing DEF IInv
<1>2. moved = {} /\ type \in Schedulers
  BY <1>1, TypeNames DEF SharesNow, IInv
<1>3. Distinct(pending) /\ IsFiniteSet(pending) /\ \A ev \in pending : ev.ts \in Nat
  BY DEF IInv, PendingInv, Distinct, Event
<1> QED BY <1>1, <1>2, <1>3 DEF SharesNow

(* The next state has no move under way. *)
LEMMA SettledNext ==
    ASSUME type' = type, newType' = type, ContainsNext(type, pending'),
           \A t \in Schedulers \ {type} : ContainsNext(t, {})
    PROVE  (\E moved \in SUBSET pending : ContainersInv(moved))'
<1>1. \A t : (IF t = type THEN pending' ELSE {})
             = IF t = type' THEN pending' \ {} ELSE IF t = newType' THEN {} ELSE {}
  OBVIOUS
<1>2. \A t \in Schedulers : ContainsNext(t, IF t = type THEN pending' ELSE {})
  OBVIOUS
<1>3. SharesNext({})
  BY <1>1, <1>2 DEF SharesNext
<1> QED BY <1>3, Sharing

LEMMA PendingWithout ==
    ASSUME IInv, NEW e, pending' = pending \ {e}, made' = made
    PROVE  PendingInv'
<1>1. IsFiniteSet(pending \ {e})
  BY FS_RemoveElement DEF IInv, PendingInv
<1> QED BY <1>1 DEF IInv, PendingInv, Distinct

LEMMA ProcessOneEventInv ==
    ASSUME IInv, ProcessOneEvent
    PROVE  IInv'
<1> DEFINE e == PeekNext(type)
<1>1. /\ newType = type /\ ~IsEmpty(type) /\ RemoveNext(type) /\ Rest({type})
      /\ now' = e.ts /\ pending' = pending \ {e} /\ removed' = (removed /\ pending' # {})
      /\ type' = type /\ newType' = newType /\ made' = made
  BY DEF ProcessOneEvent
<1>2. /\ type \in Schedulers /\ ContainsNow(type, pending)
      /\ \A t \in Schedulers \ {type} : ContainsNow(t, {})
      /\ Distinct(pending) /\ IsFiniteSet(pending)
      /\ \A ev \in pending : ev.ts \in Nat
  BY <1>1, SettledShares
<1> HIDE DEF e
<1>3. pending # {}
  BY <1>1, <1>2, EmptyIf
<1>4. /\ e \in pending /\ ContainsNext(type, pending \ {e})
      /\ type = "heap" /\ IsHeap(m_heap) => IsHeap(m_heap')
      /\ type = "calendar" => calendar'.m_lastPrio = e.ts
  BY <1>1, <1>2, <1>3, RemoveNextKeeps DEF e
<1>5. /\ \A t \in Schedulers \ {type} : ContainsNext(t, {})
      /\ type # "heap" => m_heap' = m_heap
  BY <1>1, <1>2, RestKeeps
<1>6. (\E moved \in SUBSET pending : ContainersInv(moved))'
  BY <1>1, <1>4, <1>5, SettledNext
<1>7. HeapInv'
  <2>1. CASE type = "heap" /\ pending' = {}
    <3>1. Holds(m_heap', {})
      BY <1>1, <1>4, <2>1 DEF ContainsNext, Contains
    <3> QED BY <3>1, EmptyHeap DEF HeapInv
  <2>2. CASE ~(type = "heap" /\ pending' = {})
    BY <1>1, <1>4, <1>5, <2>2 DEF HeapInv, IInv
  <2> QED BY <2>1, <2>2
<1>8. now' \in Nat /\ removed' \in BOOLEAN
  BY <1>1, <1>2, <1>4
<1>9. ClockInv'
  BY <1>1, <1>4, <1>8 DEF ClockInv
<1> QED BY <1>1, <1>6, <1>7, <1>8, <1>9, PendingWithout DEF IInv

LEMMA RemoveEventInv ==
    ASSUME IInv, NEW e \in pending, RemoveEvent(e)
    PROVE  IInv'
<1>1. /\ newType = type /\ Remove(type, e) /\ Rest({type})
      /\ now' = now /\ pending' = pending \ {e} /\ removed' = (pending' # {})
      /\ type' = type /\ newType' = newType /\ made' = made
  BY DEF RemoveEvent
<1>2. /\ type \in Schedulers /\ ContainsNow(type, pending)
      /\ \A t \in Schedulers \ {type} : ContainsNow(t, {})
      /\ Distinct(pending) /\ IsFiniteSet(pending)
  BY <1>1, SettledShares
<1>3. /\ ContainsNext(type, pending \ {e})
      /\ type = "calendar" => calendar'.m_lastPrio = calendar.m_lastPrio
  BY <1>1, <1>2, RemoveKeeps
<1>4. /\ \A t \in Schedulers \ {type} : ContainsNext(t, {})
      /\ type # "heap" => m_heap' = m_heap
  BY <1>1, <1>2, RestKeeps
<1>5. (\E moved \in SUBSET pending : ContainersInv(moved))'
  BY <1>1, <1>3, <1>4, SettledNext
<1>6. HeapInv'
  <2>1. CASE type = "heap" /\ pending' = {}
    <3>1. Holds(m_heap', {})
      BY <1>1, <1>3, <2>1 DEF ContainsNext, Contains
    <3> QED BY <3>1, EmptyHeap DEF HeapInv
  <2>2. CASE ~(type = "heap" /\ pending' = {})
    BY <1>1, <1>4, <2>2 DEF HeapInv, IInv
  <2> QED BY <2>1, <2>2
<1>7. ClockInv'
  BY <1>1, <1>3 DEF ClockInv, IInv
<1> QED BY <1>1, <1>5, <1>6, <1>7, PendingWithout DEF IInv

LEMMA SetSchedulerInv ==
    ASSUME IInv, NEW t \in Types, SetScheduler(t)
    PROVE  IInv'
<1>1. /\ newType = type /\ t # type /\ newType' = t /\ type' = type /\ m_list' = m_list
      /\ m_heap' = m_heap /\ now' = now /\ made' = made /\ pending' = pending
      /\ removed' = removed
  BY DEF SetScheduler, history
<1>2. PICK reverse \in BOOLEAN : calendar' = IF t = "calendar"
                                             THEN Calendar!NewCalendar(reverse) ELSE calendar
  BY DEF SetScheduler
<1>3. /\ type \in Schedulers /\ ContainsNow(type, pending)
      /\ \A u \in Schedulers \ {type} : ContainsNow(u, {})
  BY <1>1, SettledShares
<1>4. t = "calendar" => CalendarOf(calendar', {}) /\ calendar'.m_lastPrio = 0
  BY <1>2, CalendarNew, FS_EmptySet DEF CalendarOf
<1>5. ContainsNext(type, pending)
  BY <1>1, <1>2, <1>3 DEF ContainsNow, ContainsNext, Contains
<1>6. ASSUME NEW u \in Schedulers \ {type} PROVE ContainsNext(u, {})
  <2>1. ContainsNow(u, {})
    BY <1>3
  <2> QED BY <1>1, <1>2, <1>4, <2>1 DEF ContainsNow, ContainsNext, Contains
<1>7. SharesNext({})
  <2>1. \A u : (IF u = type THEN pending ELSE {})
               = IF u = type' THEN pending' \ {} ELSE IF u = newType' THEN {} ELSE {}
    BY <1>1
  <2>2. \A u \in Schedulers : ContainsNext(u, IF u = type THEN pending ELSE {})
    BY <1>5, <1>6
  <2> QED BY <2>1, <2>2 DEF SharesNext
<1>8. (\E moved \in SUBSET pending : ContainersInv(moved))'
  BY <1>7, Sharing
<1>9. HeapInv'
  BY <1>1 DEF HeapInv, IInv
<1>10. ClockInv'
  BY <1>1, <1>4 DEF ClockInv, IInv
<1>11. PendingInv'
  BY <1>1 DEF IInv, PendingInv
<1> QED BY <1>1, <1>8, <1>9, <1>10, <1>11 DEF IInv

LEMMA MoveOneInv ==
    ASSUME IInv, MoveOne
    PROVE  IInv'
<1> DEFINE e == PeekNext(type)
<1>1. /\ newType # type /\ ~IsEmpty(type) /\ RemoveNext(type) /\ Insert(newType, e)
      /\ Rest({type, newType}) /\ type' = type /\ newType' = newType /\ now' = now
      /\ made' = made /\ pending' = pending /\ removed' = removed
  BY DEF MoveOne, history
<1>2. PICK moved : SharesNow(moved)
  BY Sharing DEF IInv
<1> DEFINE R == pending \ moved
           V == moved \cup {e}
<1>3. /\ type \in Schedulers /\ newType \in Schedulers /\ moved \in SUBSET pending
      /\ ContainsNow(type, R) /\ ContainsNow(newType, moved)
      /\ \A t \in Schedulers \ {type, newType} : ContainsNow(t, {})
  BY <1>1, <1>2, TypeNames DEF SharesNow, IInv
<1>4. /\ Distinct(pending) /\ IsFiniteSet(pending) /\ IsFiniteSet(moved) /\ IsFiniteSet(R)
      /\ Distinct(R)
  <2>1. Distinct(pending) /\ IsFiniteSet(pending) /\ R \in SUBSET pending
    BY DEF IInv, PendingInv
  <2> QED BY <1>3, <2>1, FS_Subset DEF Distinct
<1> HIDE DEF e, R
<1>5. R # {}
  BY <1>1, <1>3, <1>4, EmptyIf
<1>6. /\ e \in R /\ ContainsNext(type, R \ {e})
      /\ type = "heap" /\ IsHeap(m_heap) => IsHeap(m_heap')
  BY <1>1, <1>3, <1>4, <1>5, RemoveNextKeeps DEF e
<1>7. e \in pending /\ e \notin moved /\ e \in Event /\ e.ts \in Nat /\ Distinct(V)
  BY <1>3, <1>4, <1>6 DEF R, Distinct, Event
<1>8. newType = "calendar" => calendar.m_lastPrio = 0
  BY <1>1 DEF IInv, ClockInv
<1>9. /\ ContainsNext(newType, V)
      /\ newType = "heap" /\ IsHeap(m_heap) => IsHeap(m_heap')
      /\ newType = "calendar" => calendar'.m_lastPrio = calendar.m_lastPrio
  <2>1. newType = "calendar" => calendar.m_lastPrio <= e.ts
    BY <1>7, <1>8
  <2> QED BY <1>1, <1>3, <1>4, <1>7, <2>1, InsertKeeps
<1>10. /\ \A t \in Schedulers \ {type, newType} : ContainsNext(t, {})
       /\ "heap" \notin {type, newType} => m_heap' = m_heap
  BY <1>1, <1>3, RestKeeps
<1> HIDE DEF V
<1>11. SharesNext(V)
  <2>1. V \in SUBSET (pending') /\ R \ {e} = pending' \ V
    BY <1>1, <1>3, <1>7 DEF V, R
  <2>2. \A t \in Schedulers :
           ContainsNext(t, IF t = type THEN R \ {e} ELSE IF t = newType THEN V ELSE {})
    BY <1>6, <1>9, <1>10
  <2> QED BY <1>1, <2>1, <2>2 DEF SharesNext
<1>12. (\E m \in SUBSET pending : ContainersInv(m))'
  BY <1>11, Sharing
<1>13. HeapInv'
  BY <1>1, <1>6, <1>9, <1>10 DEF HeapInv, IInv
<1>14. ClockInv'
  BY <1>1, <1>8, <1>9 DEF ClockInv, IInv
<1>15. PendingInv'
  BY <1>1 DEF IInv, PendingInv
<1> QED BY <1>1, <1>12, <1>13, <1>14, <1>15 DEF IInv

LEMMA SwitchInv ==
    ASSUME IInv, Switch
    PROVE  IInv'
<1>1. /\ newType # type /\ IsEmpty(type) /\ type' = newType /\ removed' = FALSE
      /\ newType' = newType /\ m_list' = m_list /\ m_heap' = m_heap /\ calendar' = calendar
      /\ now' = now /\ made' = made /\ pending' = pending
  BY DEF Switch, containers
<1>2. PICK moved : SharesNow(moved)
  BY Sharing DEF IInv
<1> DEFINE R == pending \ moved
<1>3. /\ type \in Schedulers /\ newType \in Schedulers /\ moved \in SUBSET pending
      /\ ContainsNow(type, R) /\ ContainsNow(newType, moved)
      /\ \A t \in Schedulers \ {type, newType} : ContainsNow(t, {})
  BY <1>1, <1>2, TypeNames DEF SharesNow, IInv
<1>4. IsFiniteSet(R)
  <2>1. IsFiniteSet(pending) /\ R \in SUBSET pending
    BY DEF IInv, PendingInv
  <2> QED BY <2>1, FS_Subset
<1>5. R = {}
  <2> HIDE DEF R
  <2> QED BY <1>1, <1>3, <1>4, EmptyIf
<1>6. moved = pending
  BY <1>3, <1>5
<1>7. \A t, S : ContainsNow(t, S) => ContainsNext(t, S)
  BY <1>1 DEF ContainsNow, ContainsNext, Contains
<1>8. SharesNext({})
  <2>1. \A t \in Schedulers : ContainsNext(t, IF t = newType THEN pending ELSE {})
    BY <1>3, <1>5, <1>6, <1>7
  <2>2. \A t : (IF t = newType THEN pending ELSE {})
               = IF t = type' THEN pending' \ {} ELSE IF t = newType' THEN {} ELSE {}
    BY <1>1
  <2> QED BY <2>1, <2>2 DEF SharesNext
<1>9. (\E m \in SUBSET pending : ContainersInv(m))'
  BY <1>8, Sharing
<1>10. HeapInv'
  <2>1. CASE type = "heap"
    <3>1. Holds(m_heap, {})
      BY <1>3, <1>5, <2>1 DEF ContainsNow, Contains
    <3> QED BY <1>1, <3>1, EmptyHeap DEF HeapInv
  <2>2. CASE type # "heap"
    BY <1>1, <2>2 DEF HeapInv, IInv
  <2> QED BY <2>1, <2>2
<1>11. ClockInv'
  BY <1>1 DEF ClockInv, IInv
<1>12. PendingInv'
  BY <1>1 DEF IInv, PendingInv
<1> QED BY <1>1, <1>9, <1>10, <1>11, <1>12 DEF IInv

---------------------------------------------------------------------------
(* What the invariant says about the places of the containers.             *)

ListPlace(k) == <<<<"list", 0>>, k>>
HeapPlace(k) == <<<<"heap", 0>>, k>>
BucketPlace(i, k) == <<<<"calendar", i>>, k>>

LEMMA PlaceKinds ==
    /\ \A p \in Places :
          \/ \E k \in 1..Len(m_list) : p = ListPlace(k)
          \/ \E k \in 1..Len(m_heap) : p = HeapPlace(k)
          \/ \E i \in 0..calendar.m_nBuckets-1 :
                \E k \in 1..Len(calendar.m_buckets[i]) : p = BucketPlace(i, k)
    /\ \A k \in 1..Len(m_list) : ListPlace(k) \in Places
    /\ \A k \in 1..Len(m_heap) : HeapPlace(k) \in Places
    /\ \A i \in 0..calendar.m_nBuckets-1 :
          \A k \in 1..Len(calendar.m_buckets[i]) : BucketPlace(i, k) \in Places
<1> DEFINE A == {<<"list", 0>>} \X (1..Len(m_list))
           B == {<<"heap", 0>>} \X (1..Len(m_heap))
           F(i) == {<<"calendar", i>>} \X (1..Len(calendar.m_buckets[i]))
           C == UNION {F(i) : i \in 0..calendar.m_nBuckets-1}
<1>1. Places = A \cup B \cup C
  BY DEF Places
<1>2. \A p : p \in A <=> \E k \in 1..Len(m_list) : p = ListPlace(k)
  BY DEF ListPlace
<1>3. \A p : p \in B <=> \E k \in 1..Len(m_heap) : p = HeapPlace(k)
  BY DEF HeapPlace
<1>4. \A i, p : p \in F(i) <=> \E k \in 1..Len(calendar.m_buckets[i]) : p = BucketPlace(i, k)
  BY DEF BucketPlace
<1> HIDE DEF A, B, F
<1>5. \A p : p \in C <=> \E i \in 0..calendar.m_nBuckets-1 : p \in F(i)
  OBVIOUS
<1> HIDE DEF C
<1>6. \A p : p \in Places <=> p \in A \/ p \in B \/ p \in C
  BY <1>1
<1>7. ASSUME NEW p \in Places
      PROVE  \/ \E k \in 1..Len(m_list) : p = ListPlace(k)
             \/ \E k \in 1..Len(m_heap) : p = HeapPlace(k)
             \/ \E i \in 0..calendar.m_nBuckets-1 :
                   \E k \in 1..Len(calendar.m_buckets[i]) : p = BucketPlace(i, k)
  <2>1. CASE p \in A
    BY <1>2, <2>1, Zenon
  <2>2. CASE p \in B
    BY <1>3, <2>2, Zenon
  <2>3. CASE p \in C
    <3>1. PICK i \in 0..calendar.m_nBuckets-1 : p \in F(i)
      BY <1>5, <2>3, Zenon
    <3>2. \E k \in 1..Len(calendar.m_buckets[i]) : p = BucketPlace(i, k)
      BY <1>4, <3>1, Zenon
    <3> QED BY <3>2, Zenon
  <2> QED BY <1>6, <2>1, <2>2, <2>3, Zenon
<1>8. ASSUME NEW k \in 1..Len(m_list) PROVE ListPlace(k) \in Places
  BY <1>2, <1>6, Zenon
<1>9. ASSUME NEW k \in 1..Len(m_heap) PROVE HeapPlace(k) \in Places
  BY <1>3, <1>6, Zenon
<1>10. ASSUME NEW i \in 0..calendar.m_nBuckets-1, NEW k \in 1..Len(calendar.m_buckets[i])
       PROVE  BucketPlace(i, k) \in Places
  <2>1. BucketPlace(i, k) \in F(i)
    BY <1>4, Zenon
  <2>2. BucketPlace(i, k) \in C
    BY <1>5, <2>1, Zenon
  <2> QED BY <1>6, <2>2, Zenon
<1> QED BY <1>7, <1>8, <1>9, <1>10, Zenon

LEMMA HeldIs ==
    /\ \A k : Held(ListPlace(k)) = m_list[k] /\ Held(HeapPlace(k)) = m_heap[k]
    /\ \A i, k : Held(BucketPlace(i, k)) = calendar.m_buckets[i][k]
<1>1. ASSUME NEW k PROVE Held(ListPlace(k)) = m_list[k] /\ Held(HeapPlace(k)) = m_heap[k]
  <2>1. /\ ListPlace(k)[1][1] = "list" /\ ListPlace(k)[2] = k
        /\ HeapPlace(k)[1][1] = "heap" /\ HeapPlace(k)[2] = k
    BY DEF ListPlace, HeapPlace
  <2> QED BY <2>1 DEF Held
<1>2. ASSUME NEW i, NEW k PROVE Held(BucketPlace(i, k)) = calendar.m_buckets[i][k]
  <2>1. /\ BucketPlace(i, k)[1][1] = "calendar" /\ BucketPlace(i, k)[1][2] = i
        /\ BucketPlace(i, k)[2] = k
    BY DEF BucketPlace
  <2> QED BY <2>1 DEF Held
<1> QED BY <1>1, <1>2

(* One place of each event, in the container that has it. *)
LEMMA OnePlace ==
    ASSUME NEW L, NEW H, NEW C, Distinct(C),
           ContainsNow("list", L), ContainsNow("heap", H), ContainsNow("calendar", C),
           L \cap H = {}, L \cap C = {}, H \cap C = {}
    PROVE  /\ \A p \in Places : Held(p) \in L \cup H \cup C
           /\ \A ev \in L \cup H \cup C : \E p \in Places : Held(p) = ev
           /\ \A p, q \in Places : p # q => Held(p) # Held(q)
<1> DEFINE n == calendar.m_nBuckets
           q(i) == calendar.m_buckets[i]
<1>1. Holds(m_list, L) /\ Holds(m_heap, H) /\ Buckets(calendar, C)
  BY DEF ContainsNow, Contains, CalendarOf, IsSorted, IsCalendar, Buckets
<1>2. ASSUME NEW k \in 1..Len(m_list) PROVE m_list[k] \in L
  BY <1>1, HoldsIn
<1>3. ASSUME NEW k \in 1..Len(m_heap) PROVE m_heap[k] \in H
  BY <1>1, HoldsIn
<1>4. ASSUME NEW i \in 0..n-1
      PROVE  /\ Holds(q(i), OfBucket(calendar, i, C))
             /\ \A k \in 1..Len(q(i)) :
                   q(i)[k] \in C /\ Calendar!Hash(calendar, q(i)[k].ts) = i
  <2>1. IsSorted(calendar.m_reverse, q(i), OfBucket(calendar, i, C))
    BY <1>1, BucketHolds
  <2> QED BY <1>1, <2>1, BucketHolds DEF IsSorted
<1>5. ASSUME NEW p \in Places
      PROVE  \/ \E k \in 1..Len(m_list) : p = ListPlace(k) /\ Held(p) = m_list[k]
             \/ \E k \in 1..Len(m_heap) : p = HeapPlace(k) /\ Held(p) = m_heap[k]
             \/ \E i \in 0..n-1 : \E k \in 1..Len(q(i)) :
                   p = BucketPlace(i, k) /\ Held(p) = q(i)[k]
  <2>1. CASE \E k \in 1..Len(m_list) : p = ListPlace(k)
    BY <2>1, HeldIs
  <2>2. CASE \E k \in 1..Len(m_heap) : p = HeapPlace(k)
    BY <2>2, HeldIs
  <2>3. CASE \E i \in 0..n-1 : \E k \in 1..Len(q(i)) : p = BucketPlace(i, k)
    BY <2>3, HeldIs
  <2> QED BY <2>1, <2>2, <2>3, PlaceKinds
<1>6. ASSUME NEW ev \in L PROVE \E p \in Places : Held(p) = ev
  <2>1. PICK k \in 1..Len(m_list) : m_list[k] = ev
    BY <1>1 DEF Holds
  <2> QED BY <2>1, PlaceKinds, HeldIs
<1>7. ASSUME NEW ev \in H PROVE \E p \in Places : Held(p) = ev
  <2>1. PICK k \in 1..Len(m_heap) : m_heap[k] = ev
    BY <1>1 DEF Holds
  <2> QED BY <2>1, PlaceKinds, HeldIs
<1>8. ASSUME NEW ev \in C PROVE \E p \in Places : Held(p) = ev
  <2> DEFINE i == Calendar!Hash(calendar, ev.ts)
  <2>1. i \in 0..n-1
    <3>1. ev.ts \in Nat /\ calendar \in Calendars
      BY <1>1 DEF Distinct, Event, Buckets
    <3> QED BY <3>1, HashIn
  <2>2. ev \in OfBucket(calendar, i, C)
    BY DEF OfBucket
  <2> HIDE DEF i
  <2>3. PICK k \in 1..Len(q(i)) : q(i)[k] = ev
    BY <1>4, <2>1, <2>2 DEF Holds
  <2> QED BY <2>1, <2>3, PlaceKinds, HeldIs
<1>9. ASSUME NEW p \in Places, NEW r \in Places, Held(p) = Held(r) PROVE p = r
  <2> HIDE DEF q, n
  <2>1. CASE \E k \in 1..Len(m_list) : p = ListPlace(k) /\ Held(p) = m_list[k]
    <3>1. PICK k \in 1..Len(m_list) : p = ListPlace(k) /\ Held(p) = m_list[k]
      BY <2>1
    <3>2. Held(r) \notin H /\ Held(r) \notin C
      BY <1>2, <1>9, <3>1
    <3>3. PICK j \in 1..Len(m_list) : r = ListPlace(j) /\ Held(r) = m_list[j]
      BY <1>3, <1>4, <1>5, <3>2
    <3>4. k = j
      <4>1. m_list[k] = m_list[j]
        BY <1>9, <3>1, <3>3
      <4> QED BY <1>1, <4>1 DEF Holds
    <3> QED BY <3>1, <3>3, <3>4
  <2>2. CASE \E k \in 1..Len(m_heap) : p = HeapPlace(k) /\ Held(p) = m_heap[k]
    <3>1. PICK k \in 1..Len(m_heap) : p = HeapPlace(k) /\ Held(p) = m_heap[k]
      BY <2>2
    <3>2. Held(r) \notin L /\ Held(r) \notin C
      BY <1>3, <1>9, <3>1
    <3>3. PICK j \in 1..Len(m_heap) : r = HeapPlace(j) /\ Held(r) = m_heap[j]
      BY <1>2, <1>4, <1>5, <3>2
    <3>4. k = j
      <4>1. m_heap[k] = m_heap[j]
        BY <1>9, <3>1, <3>3
      <4> QED BY <1>1, <4>1 DEF Holds
    <3> QED BY <3>1, <3>3, <3>4
  <2>3. CASE \E i \in 0..n-1 : \E k \in 1..Len(q(i)) :
                p = BucketPlace(i, k) /\ Held(p) = q(i)[k]
    <3>1. PICK i \in 0..n-1 : \E k \in 1..Len(q(i)) :
                p = BucketPlace(i, k) /\ Held(p) = q(i)[k]
      BY <2>3
    <3>2. PICK k \in 1..Len(q(i)) : p = BucketPlace(i, k) /\ Held(p) = q(i)[k]
      BY <3>1
    <3>3. Held(r) \notin L /\ Held(r) \notin H /\ Calendar!Hash(calendar, Held(r).ts) = i
      BY <1>4, <1>9, <3>2
    <3>4. PICK j \in 0..n-1 : \E m \in 1..Len(q(j)) :
                r = BucketPlace(j, m) /\ Held(r) = q(j)[m]
      BY <1>2, <1>3, <1>5, <3>3
    <3>5. PICK m \in 1..Len(q(j)) : r = BucketPlace(j, m) /\ Held(r) = q(j)[m]
      BY <3>4
    <3>6. j = i
      BY <1>4, <3>3, <3>5
    <3>7. m = k
      BY <1>4, <1>9, <3>2, <3>5, <3>6, SMTT(30) DEF Holds
    <3> QED BY <3>2, <3>5, <3>6, <3>7
  <2> QED BY <1>5, <2>1, <2>2, <2>3
<1>10. \A p \in Places : Held(p) \in L \cup H \cup C
  BY <1>2, <1>3, <1>4, <1>5
<1> QED BY <1>6, <1>7, <1>8, <1>9, <1>10

LEMMA InvNoEventLost ==
    ASSUME IInv
    PROVE  NoEventLost
<1>1. PICK moved : SharesNow(moved)
  BY Sharing DEF IInv
<1> DEFINE Of(t) == IF t = type THEN pending \ moved ELSE IF t = newType THEN moved ELSE {}
           L == Of("list")
           H == Of("heap")
           C == Of("calendar")
<1>2. /\ type \in Schedulers /\ newType \in Schedulers /\ moved \in SUBSET pending
      /\ type = newType => moved = {}
      /\ \A t \in Schedulers : ContainsNow(t, Of(t))
  BY <1>1, TypeNames DEF SharesNow, IInv
<1>3. L \cap H = {} /\ L \cap C = {} /\ H \cap C = {}
  BY <1>2 DEF Schedulers
<1>4. L \cup H \cup C = pending
  BY <1>2 DEF Schedulers
<1>5. ContainsNow("list", L) /\ ContainsNow("heap", H) /\ ContainsNow("calendar", C)
  <2> HIDE DEF Of
  <2> QED BY <1>2 DEF Schedulers
<1>6. Distinct(C)
  <2>1. C \subseteq pending
    BY <1>4
  <2> HIDE DEF C
  <2> QED BY <2>1 DEF IInv, PendingInv, Distinct
<1> HIDE DEF L, H, C
<1>7. /\ \A p \in Places : Held(p) \in L \cup H \cup C
      /\ \A ev \in L \cup H \cup C : \E p \in Places : Held(p) = ev
      /\ \A p, q \in Places : p # q => Held(p) # Held(q)
  BY <1>3, <1>5, <1>6, OnePlace
<1>8. {Held(p) : p \in Places} = pending
  BY <1>4, <1>7
<1> QED BY <1>7, <1>8 DEF NoEventLost

LEMMA InvEarliest ==
    ASSUME IInv
    PROVE  EarliestUnlessRemoved
<1> SUFFICES ASSUME newType = type, pending # {}, ~(type = "heap" /\ removed)
             PROVE  PeekNext(type) = EarliestOf(pending)
  BY DEF EarliestUnlessRemoved
<1>1. /\ type \in Schedulers /\ ContainsNow(type, pending) /\ Distinct(pending)
  BY SettledShares
<1>2. type = "heap" => IsHeap(m_heap)
  BY DEF IInv, HeapInv
<1>3. IsEarliest(PeekNext(type), pending)
  BY <1>1, <1>2, NextIsEarliest
<1> QED BY <1>1, <1>3, EarliestIs

LEMMA NextInv == IInv /\ [Next]_vars => IInv'
<1> SUFFICES ASSUME IInv, [Next]_vars PROVE IInv'
  OBVIOUS
<1>1. ASSUME NEW ts \in Times, Schedule(ts) PROVE IInv'
  BY <1>1, ScheduleInv
<1>2. CASE ProcessOneEvent
  BY <1>2, ProcessOneEventInv
<1>3. ASSUME NEW ev \in pending, RemoveEvent(ev) PROVE IInv'
  BY <1>3, RemoveEventInv
<1>4. ASSUME NEW t \in Types, SetScheduler(t) PROVE IInv'
  BY <1>4, SetSchedulerInv
<1>5. CASE MoveOne
  BY <1>5, MoveOneInv
<1>6. CASE Switch
  BY <1>6, SwitchInv
<1>7. CASE UNCHANGED vars
  <2>1. /\ type' = type /\ newType' = newType /\ m_list' = m_list /\ m_heap' = m_heap
        /\ calendar' = calendar /\ now' = now /\ made' = made /\ pending' = pending
        /\ removed' = removed
    BY <1>7 DEF vars, containers, history
  <2>2. \A moved : SharesNow(moved) => SharesNext(moved)
    BY <2>1 DEF SharesNow, SharesNext, ContainsNow, ContainsNext, Contains
  <2>3. (\E moved \in SUBSET pending : ContainersInv(moved))'
    BY <2>2, Sharing DEF IInv
  <2>4. PendingInv' /\ HeapInv' /\ ClockInv'
    BY <2>1 DEF IInv, PendingInv, HeapInv, ClockInv
  <2> QED BY <2>1, <2>3, <2>4 DEF IInv
<1> QED BY <1>1, <1>2, <1>3, <1>4, <1>5, <1>6, <1>7 DEF Next

---------------------------------------------------------------------------
(* What the schedulers hold is what the code means them to hold: the list  *)
(* is sorted, the heap ordered unless Remove has taken an event out of its *)
(* middle, each bucket of the calendar has the events of its days in order *)
(* and the cursor is not past any event, in every state between two calls, *)
(* a resize and a move to another scheduler included.                      *)
THEOREM EventListInvariant == Spec => []IInv
  BY InitInv, NextInv, PTL DEF Spec

(* No scheduler loses an event or holds one twice, whatever is inserted,   *)
(* taken out, resized or moved to a scheduler of another type.             *)
THEOREM NoEventIsLost == Spec => []NoEventLost
<1>1. IInv => NoEventLost
  BY InvNoEventLost
<1> QED BY <1>1, EventListInvariant, PTL

(* PeekNext and RemoveNext of every scheduler return the earliest event,   *)
(* but for a heap out of whose middle Remove took an event.                *)
THEOREM EarliestIsNext == Spec => []EarliestUnlessRemoved
<1>1. IInv => EarliestUnlessRemoved
  BY InvEarliest
<1> QED BY <1>1, EventListInvariant, PTL
=============================================================================
