-------------------------- MODULE ScenarioProofs ---------------------------
(***************************************************************************)
(* Proofs about the way of a scenario from its file to the scene:          *)
(* TransmitParser makes its events, SceneReplay applies and undoes them.   *)
(* First SceneReplay, for any scenarios, any time steps and any length of  *)
(* the trails.                                                             *)
(***************************************************************************)
EXTENDS SceneReplay, TransmitParser, SequenceTheorems, FiniteSetTheorems,
        WellFoundedInduction, TLAPS

---------------------------------------------------------------------------
(* Sequences. *)

LEMMA MoveToLeft ==
    ASSUME NEW S, NEW s \in Seq(S), NEW t \in Seq(S), t # << >>
    PROVE  Append(s, Head(t)) \o Tail(t) = s \o t
<1> DEFINE a == Append(s, Head(t))
           b == Tail(t)
<1>1. /\ a \in Seq(S) /\ b \in Seq(S)
      /\ Len(a) = Len(s) + 1 /\ Len(b) = Len(t) - 1
      /\ Len(s) \in Nat /\ Len(t) \in Nat \ {0}
  OBVIOUS
<1>2. /\ \A i \in 1..Len(s)+1 : a[i] = IF i <= Len(s) THEN s[i] ELSE t[1]
      /\ \A i \in 1..Len(t)-1 : b[i] = t[i+1]
  BY <1>1
<1> HIDE DEF a, b
<1>3. /\ Len(a \o b) = Len(s) + Len(t)
      /\ \A i \in 1..Len(s)+Len(t) : (a \o b)[i] = (s \o t)[i]
  BY <1>1, <1>2 DEF a, b
<1>4. a \o b \in Seq(S) /\ s \o t \in Seq(S) /\ Len(s \o t) = Len(s) + Len(t)
  BY <1>1
<1> QED BY <1>3, <1>4, SeqEqual DEF a, b

LEMMA FrontProperties ==
    ASSUME NEW S, NEW s \in Seq(S), s # << >>
    PROVE  /\ Seqs!Front(s) \in Seq(S) /\ Len(Seqs!Front(s)) = Len(s) - 1
           /\ \A i \in 1..Len(s)-1 : Seqs!Front(s)[i] = s[i]
<1>1. Len(s) \in Nat \ {0} /\ \A i \in 1..Len(s)-1 : s[i] \in S
  OBVIOUS
<1>2. PICK n : n = Len(s) - 1 /\ n \in Nat
  <2>1. Len(s) - 1 \in Nat
    BY <1>1
  <2> QED BY <2>1
<1>3. /\ SubSeq(s, 1, n) \in Seq(S)
      /\ Len(SubSeq(s, 1, n)) = IF 1 <= n THEN n - 1 + 1 ELSE 0
      /\ \A i \in 1..n-1+1 : SubSeq(s, 1, n)[i] = s[1 + i - 1]
  BY <1>1, <1>2, SubSeqProperties, 1 \in Int
<1>4. /\ SubSeq(s, 1, n) \in Seq(S) /\ Len(SubSeq(s, 1, n)) = n
      /\ \A i \in 1..n : SubSeq(s, 1, n)[i] = s[i]
  <2>1. n - 1 + 1 = n
    BY <1>2
  <2>2. \A i \in 1..n : 1 + i - 1 = i
    BY <1>2
  <2> QED BY <1>2, <1>3, <2>1, <2>2
<1>5. Seqs!Front(s) = SubSeq(s, 1, n)
  BY <1>2 DEF Seqs!Front
<1> QED BY <1>2, <1>4, <1>5

LEMMA MoveToRight ==
    ASSUME NEW S, NEW s \in Seq(S), NEW t \in Seq(S), s # << >>
    PROVE  Seqs!Front(s) \o (<<Seqs!Last(s)>> \o t) = s \o t
<1> DEFINE a == Seqs!Front(s)
           b == <<Seqs!Last(s)>> \o t
<1>1. Seqs!Front(s) = SubSeq(s, 1, Len(s) - 1) /\ Seqs!Last(s) = s[Len(s)]
  BY DEF Seqs!Front, Seqs!Last
<1>2. Len(s) \in Nat \ {0} /\ s[Len(s)] \in S /\ Len(t) \in Nat
  OBVIOUS
<1>3. /\ a \in Seq(S) /\ Len(a) = Len(s) - 1
      /\ \A i \in 1..Len(s)-1 : a[i] = s[i]
  BY <1>1, <1>2, FrontProperties
<1>4. /\ b \in Seq(S) /\ Len(b) = Len(t) + 1
      /\ \A i \in 1..Len(t)+1 : b[i] = IF i = 1 THEN s[Len(s)] ELSE t[i-1]
  BY <1>1, <1>2
<1> HIDE DEF a, b
<1>5. /\ Len(a \o b) = Len(s) + Len(t)
      /\ \A i \in 1..Len(s)+Len(t) : (a \o b)[i] = (s \o t)[i]
  <2>1. /\ Len(a \o b) = Len(a) + Len(b)
        /\ \A i \in 1..Len(a)+Len(b) : (a \o b)[i] = IF i <= Len(a) THEN a[i] ELSE b[i - Len(a)]
    BY <1>3, <1>4, ConcatProperties
  <2>2. \A i \in 1..Len(s)+Len(t) : (s \o t)[i] = IF i <= Len(s) THEN s[i] ELSE t[i - Len(s)]
    BY ConcatProperties
  <2>3. Len(a) + Len(b) = Len(s) + Len(t)
    BY <1>2, <1>3, <1>4
  <2>4. ASSUME NEW i \in 1..Len(s)+Len(t) PROVE (a \o b)[i] = (s \o t)[i]
    <3>1. CASE i < Len(s)
      BY <1>2, <1>3, <2>1, <2>2, <2>3, <3>1
    <3>2. CASE i >= Len(s)
      <4>1. i - Len(a) \in 1..Len(t)+1 /\ ~(i <= Len(a))
        BY <1>2, <1>3, <3>2
      <4>2. (a \o b)[i] = b[i - Len(a)]
        BY <2>1, <2>3, <4>1
      <4>3. b[i - Len(a)] = IF i - Len(a) = 1 THEN s[Len(s)] ELSE t[i - Len(a) - 1]
        BY <1>4, <4>1
      <4>4. i - Len(a) - 1 = i - Len(s) /\ (i - Len(a) = 1 <=> i = Len(s))
        BY <1>2, <1>3
      <4>5. (s \o t)[i] = IF i = Len(s) THEN s[Len(s)] ELSE t[i - Len(s)]
        BY <1>2, <2>2, <3>2
      <4>6. CASE i = Len(s)
        BY <4>2, <4>3, <4>4, <4>5, <4>6
      <4>7. CASE i # Len(s)
        <5>1. b[i - Len(a)] = t[i - Len(a) - 1]
          BY <4>3, <4>4, <4>7
        <5>2. (s \o t)[i] = t[i - Len(s)]
          BY <4>5, <4>7
        <5>3. t[i - Len(a) - 1] = t[i - Len(s)]
          BY <4>4
        <5> QED BY <4>2, <5>1, <5>2, <5>3, Zenon
      <4> QED BY <4>6, <4>7
    <3>3. i < Len(s) \/ i >= Len(s)
      BY <1>2
    <3> QED BY <3>1, <3>2, <3>3, Zenon
  <2> QED BY <2>1, <2>3, <2>4
<1>6. a \o b \in Seq(S) /\ s \o t \in Seq(S) /\ Len(s \o t) = Len(s) + Len(t)
  BY <1>3, <1>4
<1> QED BY <1>5, <1>6, SeqEqual DEF a, b

---------------------------------------------------------------------------
(* Nodes. *)

IsNode(x) ==
    DOMAIN x = {"position", "rotate", "model", "color", "isTransmitting",
                "startTime", "duration", "trail"}

LEMMA HandleCases ==
    ASSUME NEW x, NEW e, e.kind \in Kinds
    PROVE  /\ e.kind = "move" => Handle(x, e) =
                [x EXCEPT !.position = e.value, !.trail = MovedTrail(x, e.value)]
           /\ e.kind = "orientation" => Handle(x, e) = [x EXCEPT !.rotate = RotateTo(e.value)]
           /\ e.kind = "model" => Handle(x, e) = WithModel(x, e.value)
           /\ e.kind = "color" => Handle(x, e) = [x EXCEPT !.color = e.value]
           /\ e.kind = "transmit" => Handle(x, e) =
                [Transmits(x, e) EXCEPT !.isTransmitting = TRUE]
           /\ e.kind = "transmitEnd" => Handle(x, e) = [x EXCEPT !.isTransmitting = FALSE]
  BY Zenon DEF Handle, Kinds

LEMMA HandleUndoCases ==
    ASSUME NEW x, NEW u, u.event.kind \in Kinds
    PROVE  /\ u.event.kind = "move" => HandleUndo(x, u) =
                [x EXCEPT !.position = u.before, !.trail = TrailPop(x.trail)]
           /\ u.event.kind = "orientation" => HandleUndo(x, u) =
                [x EXCEPT !.rotate = RotateBack(u.before)]
           /\ u.event.kind = "model" => HandleUndo(x, u) = WithModel(x, u.before)
           /\ u.event.kind = "color" => HandleUndo(x, u) = [x EXCEPT !.color = u.before]
           /\ u.event.kind = "transmit" => HandleUndo(x, u) = Transmits(x, u.event)
           /\ u.event.kind = "transmitEnd" => HandleUndo(x, u) = Transmits(x, u.event.value)
  BY Zenon DEF HandleUndo, Kinds

LEMMA ValueCases ==
    ASSUME NEW x
    PROVE  Value(x, "move") = x.position /\ Value(x, "model") = x.model
  BY Zenon DEF Value

(* The fields that the properties look at. *)
Fields(y, position, model, trail) ==
    IsNode(y) /\ y.position = position /\ y.model = model /\ y.trail = trail

LEMMA NodeMoved ==
    ASSUME NEW x, IsNode(x), NEW a, NEW b, NEW y, y = [x EXCEPT !.position = a, !.trail = b]
    PROVE  Fields(y, a, x.model, b)
  BY DEF IsNode, Fields

LEMMA NodeExcept ==
    ASSUME NEW x, IsNode(x), NEW a, NEW y,
           \/ y = [x EXCEPT !.rotate = a]
           \/ y = [x EXCEPT !.color = a]
           \/ y = [x EXCEPT !.isTransmitting = a]
           \/ y = Transmits(x, a)
    PROVE  Fields(y, x.position, x.model, x.trail)
<1>1. CASE y = [x EXCEPT !.rotate = a]
  BY <1>1 DEF IsNode, Fields
<1>2. CASE y = [x EXCEPT !.color = a]
  BY <1>2 DEF IsNode, Fields
<1>3. CASE y = [x EXCEPT !.isTransmitting = a]
  BY <1>3 DEF IsNode, Fields
<1>4. CASE y = Transmits(x, a)
  BY <1>4 DEF IsNode, Fields, Transmits
<1> QED BY <1>1, <1>2, <1>3, <1>4

LEMMA NodeWithModel ==
    ASSUME NEW x, IsNode(x), NEW a, NEW y, y = WithModel(x, a)
    PROVE  Fields(y, x.position, a, x.trail)
  BY DEF IsNode, Fields, WithModel

LEMMA HandleFacts ==
    ASSUME NEW x, IsNode(x), NEW e, e.kind \in Kinds
    PROVE  Fields(Handle(x, e),
                   IF e.kind = "move" THEN e.value ELSE x.position,
                   IF e.kind = "model" THEN e.value ELSE x.model,
                   IF e.kind = "move" THEN MovedTrail(x, e.value) ELSE x.trail)
<1>1. CASE e.kind = "move"
  <2>1. Fields(Handle(x, e), e.value, x.model, MovedTrail(x, e.value))
    BY <1>1, HandleCases, NodeMoved, Zenon
  <2> QED BY <1>1, <2>1
<1>2. CASE e.kind = "model"
  <2>1. Fields(Handle(x, e), x.position, e.value, x.trail)
    BY <1>2, HandleCases, NodeWithModel, Zenon
  <2> QED BY <1>2, <2>1
<1>3. CASE e.kind = "transmit"
  <2>1. PICK y : y = Transmits(x, e)
    OBVIOUS
  <2>2. Fields(y, x.position, x.model, x.trail)
    BY <2>1, NodeExcept, Zenon
  <2>3. PICK z : z = [y EXCEPT !.isTransmitting = TRUE]
    OBVIOUS
  <2>4. IsNode(y)
    BY <2>2 DEF Fields
  <2>5. Fields(z, y.position, y.model, y.trail)
    BY <2>3, <2>4, NodeExcept, Zenon
  <2>6. Handle(x, e) = z
    <3>1. Handle(x, e) = [Transmits(x, e) EXCEPT !.isTransmitting = TRUE]
      BY <1>3, HandleCases, Zenon
    <3> QED BY <3>1, <2>1, <2>3
  <2> QED BY <1>3, <2>2, <2>5, <2>6 DEF Fields
<1>4. CASE e.kind \in {"orientation", "color", "transmitEnd"}
  <2>1. Fields(Handle(x, e), x.position, x.model, x.trail)
    <3>1. CASE e.kind = "orientation"
      BY <3>1, HandleCases, NodeExcept, Zenon
    <3>2. CASE e.kind = "color"
      <4>1. PICK z : z = [x EXCEPT !.color = e.value]
        OBVIOUS
      <4>2. Handle(x, e) = z
        <5>1. Handle(x, e) = [x EXCEPT !.color = e.value]
          BY <3>2, HandleCases, Zenon
        <5> QED BY <4>1, <5>1
      <4>3. Fields(z, x.position, x.model, x.trail)
        BY <4>1, NodeExcept
      <4> QED BY <4>2, <4>3
    <3>3. CASE e.kind = "transmitEnd"
      <4>1. PICK z : z = [x EXCEPT !.isTransmitting = FALSE]
        OBVIOUS
      <4>2. Handle(x, e) = z
        <5>1. Handle(x, e) = [x EXCEPT !.isTransmitting = FALSE]
          BY <3>3, HandleCases, Zenon
        <5> QED BY <4>1, <5>1
      <4>3. Fields(z, x.position, x.model, x.trail)
        BY <4>1, NodeExcept
      <4> QED BY <4>2, <4>3
    <3> QED BY <1>4, <3>1, <3>2, <3>3
  <2> QED BY <1>4, <2>1
<1> QED BY <1>1, <1>2, <1>3, <1>4 DEF Kinds

LEMMA HandleUndoFacts ==
    ASSUME NEW x, IsNode(x), NEW u, u.event.kind \in Kinds
    PROVE  Fields(HandleUndo(x, u),
                   IF u.event.kind = "move" THEN u.before ELSE x.position,
                   IF u.event.kind = "model" THEN u.before ELSE x.model,
                   IF u.event.kind = "move" THEN TrailPop(x.trail) ELSE x.trail)
<1>1. CASE u.event.kind = "move"
  <2>1. Fields(HandleUndo(x, u), u.before, x.model, TrailPop(x.trail))
    BY <1>1, HandleUndoCases, NodeMoved, Zenon
  <2> QED BY <1>1, <2>1
<1>2. CASE u.event.kind = "model"
  <2>1. Fields(HandleUndo(x, u), x.position, u.before, x.trail)
    BY <1>2, HandleUndoCases, NodeWithModel, Zenon
  <2> QED BY <1>2, <2>1
<1>3. CASE u.event.kind \in {"orientation", "color", "transmit", "transmitEnd"}
  <2>1. Fields(HandleUndo(x, u), x.position, x.model, x.trail)
    <3>1. CASE u.event.kind = "orientation"
      BY <3>1, HandleUndoCases, NodeExcept, Zenon
    <3>2. CASE u.event.kind = "color"
      BY <3>2, HandleUndoCases, NodeExcept, Zenon
    <3>3. CASE u.event.kind = "transmit"
      BY <3>3, HandleUndoCases, NodeExcept, Zenon
    <3>4. CASE u.event.kind = "transmitEnd"
      BY <3>4, HandleUndoCases, NodeExcept, Zenon
    <3> QED BY <1>3, <3>1, <3>2, <3>3, <3>4
  <2> QED BY <1>3, <2>1
<1> QED BY <1>1, <1>2, <1>3 DEF Kinds

---------------------------------------------------------------------------
(* What happened to a node before: the undo events u up to the k-th.       *)

IsHit(u, i, kind, n) == u[i].event.kind = kind /\ u[i].event.node = n
Hits(u, k, kind, n) == {i \in 1..k : IsHit(u, i, kind, n)}
NoHit(u, i, k, kind, n) == \A j \in i+1..k : ~IsHit(u, j, kind, n)

(* The target of the last hit, LastTarget for a part of the undo events.   *)
Latest(u, k, kind, n, first) ==
    LET hits == Hits(u, k, kind, n)
    IN  IF hits = {}
        THEN first
        ELSE u[CHOOSE i \in hits : \A j \in hits : j <= i].event.value

LEMMA Greatest ==
    ASSUME NEW k \in Nat, NEW S, S \subseteq 1..k, S # {}
    PROVE  \E i \in S : \A j \in S : j <= i
<1> DEFINE greater == {ss \in Nat \X Nat : ss[1] < ss[2]}
           rest == {k - i : i \in S}
<1>1. IsWellFoundedOn(greater, Nat)
  BY NatLessThanWellFounded DEF OpToRel
<1>2. rest \subseteq Nat /\ rest # {}
  <2>1. \A i \in S : k - i \in Nat
    OBVIOUS
  <2> QED BY <2>1
<1>3. PICK m \in rest : \A n \in rest : <<n, m>> \notin greater
  <2> HIDE DEF greater, rest
  <2> QED BY <1>1, <1>2, WFMin
<1>4. PICK i \in S : m = k - i
  BY <1>3
<1>5. ASSUME NEW j \in S PROVE j <= i
  <2>1. k - j \in rest /\ k - j \in Nat /\ m \in Nat
    BY <1>2, <1>3
  <2>2. ~(k - j < m)
    BY <1>3, <2>1
  <2> QED BY <1>4, <2>1, <2>2
<1> QED BY <1>4, <1>5

LEMMA LastHit ==
    ASSUME NEW u, NEW k \in Nat, NEW kind, NEW n
    PROVE  \E j \in 0..k : /\ j = 0 \/ IsHit(u, j, kind, n)
                           /\ NoHit(u, j, k, kind, n)
<1>1. CASE Hits(u, k, kind, n) = {}
  <2>1. NoHit(u, 0, k, kind, n)
    BY <1>1 DEF Hits, NoHit
  <2> QED BY <2>1
<1>2. CASE Hits(u, k, kind, n) # {}
  <2>1. PICK i \in Hits(u, k, kind, n) : \A j \in Hits(u, k, kind, n) : j <= i
    BY <1>2, Greatest DEF Hits
  <2>2. NoHit(u, i, k, kind, n)
    BY <2>1 DEF Hits, NoHit
  <2> QED BY <2>1, <2>2 DEF Hits
<1> QED BY <1>1, <1>2

LEMMA LatestAtHit ==
    ASSUME NEW u, NEW k \in Nat \ {0}, NEW kind, NEW n, NEW first, IsHit(u, k, kind, n)
    PROVE  Latest(u, k, kind, n, first) = u[k].event.value
<1>1. k \in Hits(u, k, kind, n) /\ \A j \in Hits(u, k, kind, n) : j <= k
  BY DEF Hits
<1>2. PICK c : c = CHOOSE i \in Hits(u, k, kind, n) : \A j \in Hits(u, k, kind, n) : j <= i
  OBVIOUS
<1>3. c \in Hits(u, k, kind, n) /\ \A j \in Hits(u, k, kind, n) : j <= c
  BY <1>1, <1>2, Zenon
<1>4. c = k
  BY <1>1, <1>3 DEF Hits
<1>5. Latest(u, k, kind, n, first) = u[c].event.value
  BY <1>1, <1>2 DEF Latest
<1> QED BY <1>4, <1>5

LEMMA LatestSkips ==
    ASSUME NEW u, NEW k \in Nat, NEW j \in 0..k, NEW kind, NEW n, NEW first,
           NoHit(u, j, k, kind, n)
    PROVE  Latest(u, k, kind, n, first) = Latest(u, j, kind, n, first)
<1>1. Hits(u, k, kind, n) = Hits(u, j, kind, n)
  BY DEF Hits, NoHit
<1> QED BY <1>1 DEF Latest

LEMMA LatestSame ==
    ASSUME NEW u, NEW v, NEW k \in Nat, NEW kind, NEW n, NEW first,
           \A i \in 1..k : u[i] = v[i]
    PROVE  Latest(u, k, kind, n, first) = Latest(v, k, kind, n, first)
<1>1. PICK j \in 0..k : (j = 0 \/ IsHit(u, j, kind, n)) /\ NoHit(u, j, k, kind, n)
  BY LastHit
<1>2. (j = 0 \/ IsHit(v, j, kind, n)) /\ NoHit(v, j, k, kind, n)
  <2>1. NoHit(v, j, k, kind, n)
    BY <1>1 DEF NoHit, IsHit
  <2>2. CASE j = 0
    BY <2>1, <2>2
  <2>3. CASE j # 0
    <3>1. j \in 1..k
      BY <2>3
    <3> QED BY <1>1, <2>1, <2>3, <3>1 DEF IsHit
  <2> QED BY <2>2, <2>3
<1>3. /\ Latest(u, k, kind, n, first) = Latest(u, j, kind, n, first)
      /\ Latest(v, k, kind, n, first) = Latest(v, j, kind, n, first)
  BY <1>1, <1>2, LatestSkips
<1>4. CASE j = 0
  <2>1. Hits(u, 0, kind, n) = {} /\ Hits(v, 0, kind, n) = {}
    BY DEF Hits
  <2>2. Latest(u, 0, kind, n, first) = first /\ Latest(v, 0, kind, n, first) = first
    BY <2>1 DEF Latest
  <2> QED BY <1>3, <1>4, <2>2
<1>5. CASE j # 0
  <2>1. j \in 1..k /\ j \in Nat \ {0}
    BY <1>5
  <2>2. /\ Latest(u, j, kind, n, first) = u[j].event.value
        /\ Latest(v, j, kind, n, first) = v[j].event.value
    BY <1>1, <1>2, <1>5, <2>1, LatestAtHit
  <2> QED BY <1>3, <2>1, <2>2
<1> QED BY <1>4, <1>5

---------------------------------------------------------------------------
(* Trails. *)

(* The points of the trail of node n are where its last moves put it: h[i] *)
(* is the move that put it at point i, or 0 for where it was first.        *)
Trailing(trail, u, n, h) ==
    /\ h \in [1..Len(trail) -> 0..Len(u)]
    /\ \A i \in 1..Len(trail) :
          /\ trail[i] = Latest(u, h[i], "move", n, FirstPosition)
          /\ h[i] = 0 \/ IsHit(u, h[i], "move", n)
    /\ \A i, j \in 1..Len(trail) : i < j => h[i] < h[j]
    /\ \A i \in 1..Len(trail)-1 : NoHit(u, h[i], h[i+1]-1, "move", n)
    /\ Len(trail) > 0 => NoHit(u, h[Len(trail)], Len(u), "move", n)

LEMMA TrailEnds ==
    ASSUME NEW P, NEW trail \in Seq(P), trail # << >>, NEW S, NEW u \in Seq(S), NEW n, NEW h,
           Trailing(trail, u, n, h)
    PROVE  trail[Len(trail)] = Latest(u, Len(u), "move", n, FirstPosition)
<1>1. Len(trail) \in Nat \ {0} /\ Len(u) \in Nat
  OBVIOUS
<1>2. PICK j \in 0..Len(u) : j = h[Len(trail)]
  BY <1>1 DEF Trailing
<1>3. trail[Len(trail)] = Latest(u, j, "move", n, FirstPosition)
  BY <1>1, <1>2 DEF Trailing
<1>4. NoHit(u, j, Len(u), "move", n)
  BY <1>1, <1>2 DEF Trailing
<1> QED BY <1>1, <1>3, <1>4, LatestSkips

(* Trailing depends on the part of u that the trail has come along. *)
LEMMA TrailingSame ==
    ASSUME NEW P, NEW trail \in Seq(P), NEW n, NEW h,
           NEW u, NEW v, NEW k \in Nat, Len(u) \in Nat, Len(v) \in Nat,
           k <= Len(u), k <= Len(v),
           \A i \in 1..k : u[i] = v[i],
           Trailing(trail, u, n, h),
           NoHit(u, k, Len(u), "move", n), NoHit(v, k, Len(v), "move", n)
    PROVE  Trailing(trail, v, n, h)
<1>1. Len(trail) \in Nat
  OBVIOUS
<1>2. ASSUME NEW i \in 1..Len(trail) PROVE h[i] \in 0..k
  <2>1. h[i] \in 0..Len(u) /\ (h[i] = 0 \/ IsHit(u, h[i], "move", n))
    BY DEF Trailing
  <2>2. ASSUME h[i] > k PROVE FALSE
    <3>1. h[i] \in k+1..Len(u)
      BY <2>1, <2>2
    <3>2. ~IsHit(u, h[i], "move", n)
      BY <3>1 DEF NoHit
    <3> QED BY <2>1, <2>2, <3>2
  <2> QED BY <2>1, <2>2
<1>3. h \in [1..Len(trail) -> 0..Len(v)]
  <2>1. h \in [1..Len(trail) -> 0..Len(u)]
    BY DEF Trailing
  <2>2. \A i \in 1..Len(trail) : h[i] \in 0..Len(v)
    BY <1>2
  <2> QED BY <2>1, <2>2
<1>4. ASSUME NEW i \in 1..Len(trail)
      PROVE  /\ trail[i] = Latest(v, h[i], "move", n, FirstPosition)
             /\ h[i] = 0 \/ IsHit(v, h[i], "move", n)
  <2>1. PICK j \in 0..k : j = h[i]
    BY <1>2
  <2>2. /\ trail[i] = Latest(u, j, "move", n, FirstPosition)
        /\ j = 0 \/ IsHit(u, j, "move", n)
    BY <2>1 DEF Trailing
  <2>3. j \in Nat /\ \A l \in 1..j : u[l] = v[l]
    OBVIOUS
  <2>4. Latest(u, j, "move", n, FirstPosition) = Latest(v, j, "move", n, FirstPosition)
    BY <2>3, LatestSame
  <2>5. j = 0 \/ IsHit(v, j, "move", n)
    BY <2>2, <2>3 DEF IsHit
  <2> QED BY <2>1, <2>2, <2>4, <2>5
<1>5. ASSUME NEW i \in 1..Len(trail)-1 PROVE NoHit(v, h[i], h[i+1]-1, "move", n)
  <2>1. i \in 1..Len(trail) /\ i + 1 \in 1..Len(trail)
    BY <1>1
  <2>2. NoHit(u, h[i], h[i+1]-1, "move", n)
    BY DEF Trailing
  <2>3. \A l \in h[i]+1..h[i+1]-1 : l \in 1..k
    BY <1>2, <2>1
  <2> QED BY <2>2, <2>3 DEF NoHit, IsHit
<1>6. ASSUME Len(trail) > 0 PROVE NoHit(v, h[Len(trail)], Len(v), "move", n)
  <2>1. Len(trail) \in 1..Len(trail)
    BY <1>1, <1>6
  <2>2. PICK j \in 0..k : j = h[Len(trail)]
    BY <1>2, <2>1
  <2>3. NoHit(u, j, Len(u), "move", n)
    BY <1>6, <2>2 DEF Trailing
  <2>4. ASSUME NEW l \in j+1..Len(v) PROVE ~IsHit(v, l, "move", n)
    <3>1. CASE l <= k
      <4>1. l \in 1..k /\ l \in j+1..Len(u)
        BY <3>1
      <4> QED BY <2>3, <4>1 DEF NoHit, IsHit
    <3>2. CASE l > k
      <4>1. l \in k+1..Len(v)
        BY <3>2
      <4> QED BY <4>1 DEF NoHit
    <3> QED BY <3>1, <3>2
  <2> QED BY <2>2, <2>4 DEF NoHit
<1>7. \A i, j \in 1..Len(trail) : i < j => h[i] < h[j]
  BY DEF Trailing
<1> QED BY <1>3, <1>4, <1>5, <1>6, <1>7 DEF Trailing

(* The trail of a node and the last part of its moves. *)
LEMMA TrailStart ==
    ASSUME NEW S, NEW u \in Seq(S), NEW n, NEW p,
           p = Latest(u, Len(u), "move", n, FirstPosition)
    PROVE  \E h : Trailing(<<p>>, u, n, h)
<1>1. Len(u) \in Nat
  OBVIOUS
<1>2. PICK j \in 0..Len(u) : (j = 0 \/ IsHit(u, j, "move", n)) /\ NoHit(u, j, Len(u), "move", n)
  BY <1>1, LastHit
<1>3. p = Latest(u, j, "move", n, FirstPosition)
  BY <1>1, <1>2, LatestSkips
<1>4. PICK h : h = [i \in 1..1 |-> j]
  OBVIOUS
<1>5. /\ Len(<<p>>) = 1 /\ <<p>>[1] = p
      /\ h \in [1..1 -> 0..Len(u)] /\ h[1] = j
  BY <1>4
<1>6. \A i \in 1..1 : i = 1
  OBVIOUS
<1> QED BY <1>2, <1>3, <1>5, <1>6 DEF Trailing

LEMMA TrailGrows ==
    ASSUME NEW P, NEW trail \in Seq(P), trail # << >>, NEW p,
           NEW S, NEW u \in Seq(S), NEW x, NEW n, NEW h,
           x.event.kind = "move" /\ x.event.node = n /\ p = x.event.value,
           Trailing(trail, u, n, h)
    PROVE  \E g : Trailing(Append(trail, p), Append(u, x), n, g)
<1> DEFINE L == Len(trail)
           K == Len(u)
           v == Append(u, x)
           longer == Append(trail, p)
<1>1. L \in Nat \ {0} /\ K \in Nat
  OBVIOUS
<1>2. /\ Len(v) = K + 1 /\ v[K + 1] = x
      /\ \A i \in 1..K : v[i] = u[i]
  BY <1>1
<1>3. /\ Len(longer) = L + 1 /\ longer[L + 1] = p
      /\ \A i \in 1..L : longer[i] = trail[i]
  BY <1>1
<1>4. PICK g : g = [i \in 1..L+1 |-> IF i = L + 1 THEN K + 1 ELSE h[i]]
  OBVIOUS
<1> HIDE DEF v, longer, L, K
<1>5. /\ h \in [1..L -> 0..K]
      /\ \A i \in 1..L : /\ trail[i] = Latest(u, h[i], "move", n, FirstPosition)
                         /\ h[i] = 0 \/ IsHit(u, h[i], "move", n)
      /\ \A i, j \in 1..L : i < j => h[i] < h[j]
      /\ \A i \in 1..L-1 : NoHit(u, h[i], h[i+1]-1, "move", n)
      /\ NoHit(u, h[L], K, "move", n)
  BY <1>1 DEF Trailing, L, K
<1>6. IsHit(v, K + 1, "move", n)
  BY <1>2 DEF IsHit
<1>7. g \in [1..L+1 -> 0..K+1] /\ g[L+1] = K + 1 /\ \A i \in 1..L : g[i] = h[i]
  BY <1>1, <1>4, <1>5
<1>8. ASSUME NEW i \in 1..L+1
      PROVE  /\ longer[i] = Latest(v, g[i], "move", n, FirstPosition)
             /\ g[i] = 0 \/ IsHit(v, g[i], "move", n)
  <2>1. CASE i = L + 1
    <3>1. Latest(v, K + 1, "move", n, FirstPosition) = p
      BY <1>1, <1>2, <1>6, LatestAtHit
    <3> QED BY <1>3, <1>6, <1>7, <2>1, <3>1
  <2>2. CASE i # L + 1
    <3>1. i \in 1..L
      BY <1>1, <2>2
    <3>2. PICK j \in 0..K : j = h[i]
      BY <1>5, <3>1
    <3>3. /\ trail[i] = Latest(u, j, "move", n, FirstPosition)
          /\ j = 0 \/ IsHit(u, j, "move", n)
      BY <1>5, <3>1, <3>2
    <3>4. j \in Nat /\ \A l \in 1..j : u[l] = v[l]
      BY <1>1, <1>2
    <3>5. Latest(u, j, "move", n, FirstPosition) = Latest(v, j, "move", n, FirstPosition)
      BY <3>4, LatestSame
    <3>6. j = 0 \/ IsHit(v, j, "move", n)
      BY <3>3, <3>4 DEF IsHit
    <3> QED BY <1>3, <1>7, <3>1, <3>2, <3>3, <3>5, <3>6
  <2> QED BY <2>1, <2>2
<1>9. ASSUME NEW i \in 1..L+1, NEW j \in 1..L+1, i < j PROVE g[i] < g[j]
  <2>1. i \in 1..L
    BY <1>1, <1>9
  <2>2. CASE j = L + 1
    <3>1. h[i] \in 0..K
      BY <1>5, <2>1
    <3> QED BY <1>1, <1>7, <2>1, <2>2, <3>1
  <2>3. CASE j # L + 1
    <3>1. j \in 1..L
      BY <1>1, <2>3
    <3> QED BY <1>5, <1>7, <1>9, <2>1, <3>1
  <2> QED BY <2>2, <2>3
<1>10. ASSUME NEW i \in 1..L PROVE NoHit(v, g[i], g[i+1]-1, "move", n)
  <2>1. h[i] \in 0..K /\ g[i] = h[i]
    BY <1>5, <1>7
  <2>2. CASE i = L
    <3>1. g[i+1] - 1 = K
      BY <1>1, <1>7, <2>2
    <3>2. NoHit(u, g[i], K, "move", n)
      BY <1>5, <2>1, <2>2
    <3> QED BY <1>2, <2>1, <3>1, <3>2 DEF NoHit, IsHit
  <2>3. CASE i # L
    <3>1. i \in 1..L-1 /\ i + 1 \in 1..L
      BY <1>1, <2>3
    <3>2. NoHit(u, h[i], h[i+1]-1, "move", n) /\ h[i+1] \in 0..K /\ g[i+1] = h[i+1]
      BY <1>5, <1>7, <3>1
    <3>3. \A l \in h[i]+1..h[i+1]-1 : l \in 1..K
      BY <1>1, <2>1, <3>2
    <3> QED BY <1>2, <2>1, <3>2, <3>3 DEF NoHit, IsHit
  <2> QED BY <2>2, <2>3
<1>11. NoHit(v, g[L+1], K+1, "move", n)
  BY <1>1, <1>7 DEF NoHit
<1>12. (L + 1) - 1 = L /\ L + 1 > 0
  BY <1>1
<1>13. Trailing(longer, v, n, g)
  BY <1>2, <1>3, <1>7, <1>8, <1>9, <1>10, <1>11, <1>12 DEF Trailing
<1> QED BY <1>13 DEF longer, v

LEMMA TrailForgets ==
    ASSUME NEW P, NEW trail \in Seq(P), trail # << >>, NEW S, NEW u \in Seq(S), NEW n, NEW h,
           Trailing(trail, u, n, h)
    PROVE  \E g : Trailing(Tail(trail), u, n, g)
<1> DEFINE L == Len(trail)
           rest == Tail(trail)
<1>1. L \in Nat \ {0} /\ Len(u) \in Nat
  OBVIOUS
<1>2. Len(rest) = L - 1 /\ \A i \in 1..L-1 : rest[i] = trail[i+1]
  BY <1>1
<1>3. PICK g : g = [i \in 1..L-1 |-> h[i+1]]
  OBVIOUS
<1> HIDE DEF L, rest
<1>4. /\ h \in [1..L -> 0..Len(u)]
      /\ \A i \in 1..L : /\ trail[i] = Latest(u, h[i], "move", n, FirstPosition)
                         /\ h[i] = 0 \/ IsHit(u, h[i], "move", n)
      /\ \A i, j \in 1..L : i < j => h[i] < h[j]
      /\ \A i \in 1..L-1 : NoHit(u, h[i], h[i+1]-1, "move", n)
      /\ NoHit(u, h[L], Len(u), "move", n)
  BY <1>1 DEF Trailing, L
<1>5. \A i \in 1..L-1 : i + 1 \in 1..L
  BY <1>1
<1>6. g \in [1..L-1 -> 0..Len(u)] /\ \A i \in 1..L-1 : g[i] = h[i+1]
  BY <1>3, <1>4, <1>5
<1>7. ASSUME NEW i \in 1..L-1
      PROVE  /\ rest[i] = Latest(u, g[i], "move", n, FirstPosition)
             /\ g[i] = 0 \/ IsHit(u, g[i], "move", n)
  <2>1. i + 1 \in 1..L
    BY <1>5
  <2> QED BY <1>2, <1>4, <1>6, <2>1
<1>8. ASSUME NEW i \in 1..L-1, NEW j \in 1..L-1, i < j PROVE g[i] < g[j]
  <2>1. i + 1 \in 1..L /\ j + 1 \in 1..L /\ i + 1 < j + 1
    BY <1>5, <1>8
  <2> QED BY <1>4, <1>6, <2>1
<1>9. ASSUME NEW i \in 1..(L-1)-1 PROVE NoHit(u, g[i], g[i+1]-1, "move", n)
  <2>1. i \in 1..L-1 /\ i + 1 \in 1..L-1
    BY <1>1
  <2>2. NoHit(u, h[i+1], h[i+1+1]-1, "move", n)
    BY <1>4, <2>1
  <2> QED BY <1>6, <2>1, <2>2
<1>10. ASSUME L - 1 > 0 PROVE NoHit(u, g[L-1], Len(u), "move", n)
  <2>1. L - 1 \in 1..L-1 /\ L - 1 + 1 = L
    BY <1>1, <1>10
  <2> QED BY <1>4, <1>6, <2>1
<1>11. Trailing(rest, u, n, g)
  BY <1>2, <1>6, <1>7, <1>8, <1>9, <1>10 DEF Trailing
<1> QED BY <1>11 DEF rest

LEMMA TrailGoesBack ==
    ASSUME NEW P, NEW trail \in Seq(P), trail # << >>, NEW S, NEW u \in Seq(S), u # << >>,
           NEW n, NEW h,
           IsHit(u, Len(u), "move", n),
           Trailing(trail, u, n, h)
    PROVE  \E g : Trailing(Seqs!Front(trail), Seqs!Front(u), n, g)
<1> DEFINE L == Len(trail)
           K == Len(u)
           v == Seqs!Front(u)
           rest == Seqs!Front(trail)
<1>1. L \in Nat \ {0} /\ K \in Nat \ {0}
  OBVIOUS
<1>2. Len(rest) = L - 1 /\ \A i \in 1..L-1 : rest[i] = trail[i]
  BY FrontProperties
<1>3. Len(v) = K - 1 /\ \A i \in 1..K-1 : v[i] = u[i]
  BY FrontProperties
<1>4. PICK g : g = [i \in 1..L-1 |-> h[i]]
  OBVIOUS
<1> HIDE DEF L, K, v, rest
<1>5. /\ h \in [1..L -> 0..K]
      /\ \A i \in 1..L : /\ trail[i] = Latest(u, h[i], "move", n, FirstPosition)
                         /\ h[i] = 0 \/ IsHit(u, h[i], "move", n)
      /\ \A i, j \in 1..L : i < j => h[i] < h[j]
      /\ \A i \in 1..L-1 : NoHit(u, h[i], h[i+1]-1, "move", n)
      /\ NoHit(u, h[L], K, "move", n)
  BY <1>1 DEF Trailing, L, K
<1>6. h[L] = K
  <2>1. h[L] \in 0..K
    BY <1>1, <1>5
  <2>2. ASSUME h[L] # K PROVE FALSE
    <3>1. K \in h[L]+1..K
      BY <1>1, <2>1, <2>2
    <3> QED BY <1>5, <3>1 DEF NoHit, K
  <2> QED BY <2>2
<1>7. ASSUME NEW i \in 1..L-1 PROVE g[i] = h[i] /\ h[i] \in 0..K-1 /\ i \in 1..L
  <2>1. i \in 1..L /\ L \in 1..L /\ i < L
    BY <1>1
  <2>2. h[i] \in 0..K /\ h[i] < h[L]
    BY <1>5, <2>1
  <2> QED BY <1>1, <1>4, <1>6, <2>1, <2>2
<1>8. g \in [1..L-1 -> 0..K-1]
  BY <1>4, <1>7
<1>9. ASSUME NEW i \in 1..L-1
      PROVE  /\ rest[i] = Latest(v, g[i], "move", n, FirstPosition)
             /\ g[i] = 0 \/ IsHit(v, g[i], "move", n)
  <2>1. PICK j \in 0..K-1 : j = h[i] /\ j = g[i] /\ i \in 1..L
    BY <1>7
  <2>2. /\ trail[i] = Latest(u, j, "move", n, FirstPosition)
        /\ j = 0 \/ IsHit(u, j, "move", n)
    BY <1>5, <2>1
  <2>3. j \in Nat /\ \A l \in 1..j : u[l] = v[l]
    BY <1>1, <1>3
  <2>4. Latest(u, j, "move", n, FirstPosition) = Latest(v, j, "move", n, FirstPosition)
    BY <2>3, LatestSame
  <2>5. j = 0 \/ IsHit(v, j, "move", n)
    BY <2>2, <2>3 DEF IsHit
  <2> QED BY <1>2, <2>1, <2>2, <2>4, <2>5
<1>10. ASSUME NEW i \in 1..L-1, NEW j \in 1..L-1, i < j PROVE g[i] < g[j]
  BY <1>5, <1>7, <1>10
<1>11. ASSUME NEW i \in 1..(L-1)-1 PROVE NoHit(v, g[i], g[i+1]-1, "move", n)
  <2>1. i \in 1..L-1 /\ i + 1 \in 1..L-1
    BY <1>1
  <2>2. NoHit(u, g[i], g[i+1]-1, "move", n) /\ g[i] \in 0..K-1 /\ g[i+1] \in 0..K-1
    BY <1>5, <1>7, <2>1
  <2>3. \A l \in g[i]+1..g[i+1]-1 : l \in 1..K-1
    BY <1>1, <2>2
  <2> QED BY <1>3, <2>2, <2>3 DEF NoHit, IsHit
<1>12. ASSUME L - 1 > 0 PROVE NoHit(v, g[L-1], K-1, "move", n)
  <2>1. L - 1 \in 1..L-1 /\ L - 1 + 1 = L
    BY <1>1, <1>12
  <2>2. NoHit(u, g[L-1], K-1, "move", n) /\ g[L-1] \in 0..K-1
    BY <1>5, <1>6, <1>7, <2>1
  <2> QED BY <1>1, <1>3, <2>2 DEF NoHit, IsHit
<1>13. Trailing(rest, v, n, g)
  BY <1>2, <1>3, <1>8, <1>9, <1>10, <1>11, <1>12 DEF Trailing
<1> QED BY <1>13 DEF rest, v

---------------------------------------------------------------------------
(* The events applied. *)

EventsOf(u) == [i \in 1..Len(u) |-> u[i].event]

LEMMA EventsOfType ==
    ASSUME NEW E, NEW u, Len(u) \in Nat, \A i \in 1..Len(u) : u[i].event \in E
    PROVE  /\ EventsOf(u) \in Seq(E) /\ Len(EventsOf(u)) = Len(u)
           /\ \A i \in 1..Len(u) : EventsOf(u)[i] = u[i].event
<1>1. Len(u) \in Nat
  OBVIOUS
<1>2. EventsOf(u) \in [1..Len(u) -> E]
  BY DEF EventsOf
<1>3. EventsOf(u) \in Seq(E)
  BY <1>1, <1>2, SeqDef
<1>4. Len(EventsOf(u)) = Len(u)
  BY <1>1, <1>2, <1>3
<1> QED BY <1>1, <1>3, <1>4 DEF EventsOf

LEMMA EventsOfAppend ==
    ASSUME NEW E, NEW S, NEW u \in Seq(S), \A i \in 1..Len(u) : u[i].event \in E,
           NEW x, x.event \in E
    PROVE  EventsOf(Append(u, x)) = Append(EventsOf(u), x.event)
<1>1. Len(u) \in Nat
  OBVIOUS
<1>2. PICK v : v = Append(u, x)
  OBVIOUS
<1>3. /\ v \in Seq(S \cup {x}) /\ Len(v) = Len(u) + 1
      /\ v[Len(u) + 1] = x /\ \A i \in 1..Len(u) : v[i] = u[i]
  BY <1>1, <1>2
<1>4. \A i \in 1..Len(v) : v[i].event \in E
  BY <1>1, <1>3
<1>5. /\ EventsOf(v) \in Seq(E) /\ Len(EventsOf(v)) = Len(u) + 1
      /\ \A i \in 1..Len(u)+1 : EventsOf(v)[i] = v[i].event
  <2>1. /\ EventsOf(v) \in Seq(E) /\ Len(EventsOf(v)) = Len(v)
        /\ \A i \in 1..Len(v) : EventsOf(v)[i] = v[i].event
    <3>1. Len(v) \in Nat
      BY <1>1, <1>3
    <3> QED BY <1>4, <3>1, EventsOfType
  <2> QED BY <2>1, <1>3, <1>4
<1>6. /\ EventsOf(u) \in Seq(E) /\ Len(EventsOf(u)) = Len(u)
      /\ \A i \in 1..Len(u) : EventsOf(u)[i] = u[i].event
  BY <1>1, EventsOfType
<1>7. PICK w : w = Append(EventsOf(u), x.event)
  OBVIOUS
<1>8. /\ w \in Seq(E) /\ Len(w) = Len(u) + 1 /\ w[Len(u) + 1] = x.event
      /\ \A i \in 1..Len(u) : w[i] = EventsOf(u)[i]
  BY <1>6, <1>7, AppendProperties
<1>9. \A i \in 1..Len(u)+1 : EventsOf(v)[i] = w[i]
  BY <1>1, <1>3, <1>5, <1>6, <1>8
<1>10. EventsOf(v) = w
  BY <1>5, <1>8, <1>9, SeqEqual
<1> QED BY <1>2, <1>7, <1>10

LEMMA EventsOfFront ==
    ASSUME NEW E, NEW S, NEW u \in Seq(S), \A i \in 1..Len(u) : u[i].event \in E, u # << >>
    PROVE  /\ EventsOf(u) # << >>
           /\ EventsOf(Seqs!Front(u)) = Seqs!Front(EventsOf(u))
           /\ Seqs!Last(EventsOf(u)) = Seqs!Last(u).event
<1>1. Len(u) \in Nat \ {0}
  OBVIOUS
<1>2. /\ EventsOf(u) \in Seq(E) /\ Len(EventsOf(u)) = Len(u)
      /\ \A i \in 1..Len(u) : EventsOf(u)[i] = u[i].event
  BY <1>1, EventsOfType
<1>3. EventsOf(u) # << >>
  BY <1>1, <1>2
<1>4. PICK v : v = Seqs!Front(u)
  OBVIOUS
<1>5. v \in Seq(S) /\ Len(v) = Len(u) - 1 /\ \A i \in 1..Len(u)-1 : v[i] = u[i]
  BY <1>4, FrontProperties
<1>6. \A i \in 1..Len(v) : v[i].event \in E
  BY <1>1, <1>5
<1>7. /\ EventsOf(v) \in Seq(E) /\ Len(EventsOf(v)) = Len(u) - 1
      /\ \A i \in 1..Len(u)-1 : EventsOf(v)[i] = v[i].event
  <2>1. /\ EventsOf(v) \in Seq(E) /\ Len(EventsOf(v)) = Len(v)
        /\ \A i \in 1..Len(v) : EventsOf(v)[i] = v[i].event
    <3>1. Len(v) \in Nat
      BY <1>1, <1>5
    <3> QED BY <1>6, <3>1, EventsOfType
  <2> QED BY <2>1, <1>5, <1>6
<1>8. PICK w : w = Seqs!Front(EventsOf(u))
  OBVIOUS
<1>9. /\ w \in Seq(E) /\ Len(w) = Len(u) - 1
      /\ \A i \in 1..Len(u)-1 : w[i] = EventsOf(u)[i]
  BY <1>2, <1>3, <1>8, FrontProperties
<1>10. ASSUME NEW i \in 1..Len(u)-1 PROVE EventsOf(v)[i] = w[i]
  <2>1. i \in 1..Len(u)
    BY <1>1
  <2>2. EventsOf(v)[i] = u[i].event
    BY <1>5, <1>7
  <2>3. w[i] = u[i].event
    BY <1>2, <1>9, <2>1
  <2> QED BY <2>2, <2>3
<1>11. EventsOf(v) = w
  BY <1>7, <1>9, <1>10, SeqEqual
<1>12. Seqs!Last(EventsOf(u)) = Seqs!Last(u).event
  BY <1>1, <1>2 DEF Seqs!Last
<1> QED BY <1>3, <1>4, <1>8, <1>11, <1>12

---------------------------------------------------------------------------
(* The inductive invariant of TapeIsWhole. *)

TypeOK ==
    /\ \A n \in DOMAIN nodes : IsNode(nodes[n])
    /\ events \in Seq(SceneEvents)
    /\ undoEvents \in Seq(Range(undoEvents))
    /\ \A i \in 1..Len(undoEvents) : undoEvents[i].event \in SceneEvents
    /\ simulationTime \in Int /\ timeStep \in TimeSteps /\ endTime \in Nat
    /\ pc \in {"idle", "handle", "undo", "advance"} /\ return \in {"idle", "advance"}

(* While a file is loaded the scene is empty; all events that were applied *)
(* are of nodes that the scene has.                                        *)
FileInv ==
    /\ loading => events = << >> /\ undoEvents = << >>
    /\ scenario \in Scenarios \/ scenario = << >>
    /\ events # << >> \/ undoEvents # << >> => DOMAIN nodes = Nodes
    /\ \A i \in 1..Len(undoEvents) : undoEvents[i].event.node \in DOMAIN nodes

IInv == TypeOK /\ FileInv /\ TapeIsWhole

LEMMA AppliedFacts ==
    ASSUME IInv
    PROVE  /\ Applied = EventsOf(undoEvents)
           /\ Applied \in Seq(SceneEvents) /\ Len(Applied) = Len(undoEvents)
           /\ Len(undoEvents) \in Nat
           /\ \A i \in 1..Len(undoEvents) : Applied[i] = undoEvents[i].event
<1>1. Applied = EventsOf(undoEvents)
  BY DEF Applied, EventsOf
<1>2. /\ undoEvents \in Seq(Range(undoEvents))
      /\ \A i \in 1..Len(undoEvents) : undoEvents[i].event \in SceneEvents
  BY DEF IInv, TypeOK
<1>3. Len(undoEvents) \in Nat
  BY <1>2
<1> QED BY <1>1, <1>2, <1>3, EventsOfType

LEMMA EventFacts ==
    ASSUME NEW e \in SceneEvents
    PROVE  e.kind \in Kinds /\ e.time \in Nat
  BY ScenariosAssumption

LEMMA NewNodeFacts ==
    /\ IsNode(NewNode) /\ NewNode.position = FirstPosition
    /\ NewNode.model = FirstModel /\ NewNode.trail = << >>
  BY DEF NewNode, IsNode

LEMMA NoneApplied == EventsOf(<< >>) = << >>
  BY DEF EventsOf

LEMMA InitTape == Init => IInv
<1> SUFFICES ASSUME Init PROVE IInv
  OBVIOUS
<1>1. TypeOK
  BY TimesAssumption DEF Init, TypeOK, Range
<1>2. FileInv
  BY DEF Init, FileInv
<1>3. EventsOf(<< >>) \o << >> = << >>
  BY NoneApplied
<1>4. TapeIsWhole
  BY <1>3 DEF Init, TapeIsWhole, Applied, EventsOf
<1> QED BY <1>1, <1>2, <1>4 DEF IInv

(* What HandleEvent does, ... *)
LEMMA HandleEventFacts ==
    ASSUME IInv, HandleEvent
    PROVE  \E e, u :
              /\ e \in SceneEvents
              /\ e = Head(events) /\ events # << >> /\ events' = Tail(events)
              /\ e.time <= simulationTime /\ e.node \in DOMAIN nodes
              /\ u = Undo(nodes[e.node], e) /\ u.event = e
              /\ u.before = Value(nodes[e.node], e.kind)
              /\ undoEvents' = Append(undoEvents, u)
              /\ DOMAIN nodes' = DOMAIN nodes
              /\ \A n \in DOMAIN nodes :
                    nodes'[n] = IF n = e.node THEN Handle(nodes[n], e) ELSE nodes[n]
              /\ Applied' = Append(Applied, e)
<1>1. events # << >> /\ IsNext(Head(events))
  BY DEF HandleEvent, EventIsDue
<1>2. PICK e : e = Head(events)
  OBVIOUS
<1>3. e \in SceneEvents
  BY <1>1, <1>2 DEF IInv, TypeOK
<1>4. PICK u : u = Undo(nodes[e.node], e)
  OBVIOUS
<1>5. u.event = e /\ u.before = Value(nodes[e.node], e.kind)
  BY <1>4 DEF Undo
<1>6. undoEvents' = Append(undoEvents, u) /\ events' = Tail(events)
      /\ nodes' = [nodes EXCEPT ![e.node] = Handle(@, e)]
  BY <1>2, <1>4 DEF HandleEvent
<1>7. Applied' = Append(Applied, e)
  <2>1. Applied' = EventsOf(Append(undoEvents, u))
    BY <1>6 DEF Applied, EventsOf
  <2>2. /\ undoEvents \in Seq(Range(undoEvents))
        /\ \A i \in 1..Len(undoEvents) : undoEvents[i].event \in SceneEvents
    BY DEF IInv, TypeOK
  <2>3. EventsOf(Append(undoEvents, u)) = Append(EventsOf(undoEvents), u.event)
    BY <1>3, <1>5, <2>2, EventsOfAppend
  <2> QED BY <1>5, <2>1, <2>3, AppliedFacts
<1>8. \A n \in DOMAIN nodes :
         nodes'[n] = IF n = e.node THEN Handle(nodes[n], e) ELSE nodes[n]
  BY <1>6
<1>9. DOMAIN nodes' = DOMAIN nodes
  BY <1>6
<1>10. e.time <= simulationTime /\ e.node \in DOMAIN nodes
  BY <1>1, <1>2 DEF IsNext
<1> QED BY <1>1, <1>2, <1>3, <1>4, <1>5, <1>6, <1>7, <1>8, <1>9, <1>10

(* ... and HandleUndoEvent. *)
LEMMA HandleUndoEventFacts ==
    ASSUME IInv, HandleUndoEvent
    PROVE  \E u :
              /\ u = undoEvents[Len(undoEvents)] /\ undoEvents # << >>
              /\ undoEvents' = Seqs!Front(undoEvents)
              /\ u.event \in SceneEvents /\ events' = <<u.event>> \o events
              /\ ~(simulationTime > u.event.time) /\ u.event.node \in DOMAIN nodes
              /\ DOMAIN nodes' = DOMAIN nodes
              /\ \A n \in DOMAIN nodes :
                    nodes'[n] = IF n = u.event.node THEN HandleUndo(nodes[n], u) ELSE nodes[n]
              /\ Applied # << >>
              /\ Applied' = Seqs!Front(Applied) /\ Seqs!Last(Applied) = u.event
<1>1. undoEvents # << >> /\ IsUndone(Seqs!Last(undoEvents))
  BY DEF HandleUndoEvent, UndoIsDue
<1>2. PICK u : u = Seqs!Last(undoEvents)
  OBVIOUS
<1>3. u = undoEvents[Len(undoEvents)]
  BY <1>2 DEF Seqs!Last
<1>4. u.event \in SceneEvents
  <2>1. Len(undoEvents) \in 1..Len(undoEvents)
    BY <1>1 DEF IInv, TypeOK
  <2> QED BY <1>3, <2>1 DEF IInv, TypeOK
<1>5. undoEvents' = Seqs!Front(undoEvents) /\ events' = <<u.event>> \o events
      /\ nodes' = [nodes EXCEPT ![u.event.node] = HandleUndo(@, u)]
  BY <1>2 DEF HandleUndoEvent
<1>6. /\ Applied # << >> /\ Applied' = Seqs!Front(Applied)
      /\ Seqs!Last(Applied) = u.event
  <2>1. Applied' = EventsOf(Seqs!Front(undoEvents))
    BY <1>5 DEF Applied, EventsOf
  <2>2. /\ undoEvents \in Seq(Range(undoEvents))
        /\ \A i \in 1..Len(undoEvents) : undoEvents[i].event \in SceneEvents
    BY DEF IInv, TypeOK
  <2>3. /\ EventsOf(undoEvents) # << >>
        /\ EventsOf(Seqs!Front(undoEvents)) = Seqs!Front(EventsOf(undoEvents))
        /\ Seqs!Last(EventsOf(undoEvents)) = Seqs!Last(undoEvents).event
    BY <1>1, <2>2, EventsOfFront
  <2> QED BY <1>2, <2>1, <2>3, AppliedFacts
<1>7. \A n \in DOMAIN nodes :
         nodes'[n] = IF n = u.event.node THEN HandleUndo(nodes[n], u) ELSE nodes[n]
  BY <1>5
<1>8. DOMAIN nodes' = DOMAIN nodes
  BY <1>5
<1>9. ~(simulationTime > u.event.time) /\ u.event.node \in DOMAIN nodes
  BY <1>1, <1>2 DEF IsUndone
<1> QED BY <1>1, <1>3, <1>4, <1>5, <1>6, <1>7, <1>8, <1>9

---------------------------------------------------------------------------

LEMMA HandleEventTape == ASSUME IInv, HandleEvent PROVE IInv'
<1>1. PICK e, u :
         /\ e \in SceneEvents
         /\ e = Head(events) /\ events # << >> /\ events' = Tail(events)
         /\ e.node \in DOMAIN nodes
         /\ u.event = e
         /\ undoEvents' = Append(undoEvents, u)
         /\ DOMAIN nodes' = DOMAIN nodes
         /\ \A n \in DOMAIN nodes :
               nodes'[n] = IF n = e.node THEN Handle(nodes[n], e) ELSE nodes[n]
         /\ Applied' = Append(Applied, e)
  BY HandleEventFacts
<1>2. UNCHANGED <<simulationTime, playback, control, file, started>>
  BY DEF HandleEvent
<1>3. \A n \in DOMAIN nodes' : IsNode(nodes'[n])
  <2>1. IsNode(Handle(nodes[e.node], e))
    BY <1>1, EventFacts, HandleFacts DEF IInv, TypeOK, Fields
  <2> QED BY <1>1, <2>1 DEF IInv, TypeOK
<1>4. undoEvents' \in Seq(Range(undoEvents'))
  <2>1. undoEvents' \in Seq(Range(undoEvents) \cup {u})
    BY <1>1 DEF IInv, TypeOK
  <2> QED BY <2>1, SeqOfRange
<1>5. \A i \in 1..Len(undoEvents') : undoEvents'[i].event \in SceneEvents
  <2>1. undoEvents \in Seq(Range(undoEvents))
    BY DEF IInv, TypeOK
  <2>2. /\ Len(undoEvents) \in Nat /\ Len(undoEvents') = Len(undoEvents) + 1
        /\ undoEvents'[Len(undoEvents) + 1] = u
        /\ \A i \in 1..Len(undoEvents) : undoEvents'[i] = undoEvents[i]
    BY <1>1, <2>1
  <2> QED BY <1>1, <2>2 DEF IInv, TypeOK
<1>6. events' \in Seq(SceneEvents)
  BY <1>1 DEF IInv, TypeOK
<1>7. TypeOK'
  BY <1>2, <1>3, <1>4, <1>5, <1>6 DEF IInv, TypeOK, playback, control, file
<1>8. FileInv'
  BY <1>1, <1>2 DEF IInv, FileInv, file
<1>9. TapeIsWhole'
  <2>1. Append(Applied, Head(events)) \o Tail(events) = Applied \o events
    BY <1>1, AppliedFacts, MoveToLeft DEF IInv, TypeOK
  <2> QED BY <1>1, <1>2, <2>1 DEF IInv, TapeIsWhole, file
<1> QED BY <1>7, <1>8, <1>9 DEF IInv

LEMMA HandleUndoEventTape == ASSUME IInv, HandleUndoEvent PROVE IInv'
<1>1. PICK u :
         /\ u = undoEvents[Len(undoEvents)] /\ undoEvents # << >>
         /\ undoEvents' = Seqs!Front(undoEvents)
         /\ u.event \in SceneEvents /\ events' = <<u.event>> \o events
         /\ u.event.node \in DOMAIN nodes
         /\ DOMAIN nodes' = DOMAIN nodes
         /\ \A n \in DOMAIN nodes :
               nodes'[n] = IF n = u.event.node THEN HandleUndo(nodes[n], u) ELSE nodes[n]
         /\ Applied # << >>
         /\ Applied' = Seqs!Front(Applied) /\ Seqs!Last(Applied) = u.event
  BY HandleUndoEventFacts
<1>2. UNCHANGED <<simulationTime, playback, control, file, started>>
  BY DEF HandleUndoEvent
<1>3. \A n \in DOMAIN nodes' : IsNode(nodes'[n])
  <2>1. IsNode(HandleUndo(nodes[u.event.node], u))
    BY <1>1, EventFacts, HandleUndoFacts DEF IInv, TypeOK, Fields
  <2> QED BY <1>1, <2>1 DEF IInv, TypeOK
<1>4. /\ undoEvents' \in Seq(Range(undoEvents)) /\ Len(undoEvents') = Len(undoEvents) - 1
      /\ \A i \in 1..Len(undoEvents)-1 : undoEvents'[i] = undoEvents[i]
  BY <1>1, FrontProperties DEF IInv, TypeOK
<1>5. undoEvents' \in Seq(Range(undoEvents'))
  BY <1>4, SeqOfRange
<1>6. \A i \in 1..Len(undoEvents') : undoEvents'[i].event \in SceneEvents
  <2>1. Len(undoEvents) \in Nat
    BY AppliedFacts
  <2> QED BY <1>4, <2>1 DEF IInv, TypeOK
<1>7. events' \in Seq(SceneEvents)
  BY <1>1 DEF IInv, TypeOK
<1>8. TypeOK'
  BY <1>2, <1>3, <1>5, <1>6, <1>7 DEF IInv, TypeOK, playback, control, file
<1>9. FileInv'
  <2>1. \A i \in 1..Len(undoEvents') : undoEvents'[i].event.node \in DOMAIN nodes'
    <3>1. /\ Len(undoEvents) \in Nat
          /\ \A i \in 1..Len(undoEvents) : undoEvents[i].event.node \in DOMAIN nodes
      BY AppliedFacts DEF IInv, FileInv
    <3>2. ASSUME NEW i \in 1..Len(undoEvents')
          PROVE  undoEvents'[i] = undoEvents[i] /\ i \in 1..Len(undoEvents)
      BY <1>4, <3>1, <3>2
    <3>3. DOMAIN nodes' = DOMAIN nodes
      BY <1>1
    <3> QED BY <3>1, <3>2, <3>3
  <2>2. DOMAIN nodes' = Nodes
    BY <1>1 DEF IInv, FileInv
  <2> QED BY <1>1, <1>2, <2>1, <2>2 DEF IInv, FileInv, file
<1>10. TapeIsWhole'
  <2>1. Seqs!Front(Applied) \o (<<Seqs!Last(Applied)>> \o events) = Applied \o events
    BY <1>1, AppliedFacts, MoveToRight DEF IInv, TypeOK
  <2> QED BY <1>1, <1>2, <2>1 DEF IInv, TapeIsWhole, file
<1> QED BY <1>8, <1>9, <1>10 DEF IInv

LEMMA ResetTape == ASSUME IInv, NEW isLoading, Reset(isLoading) PROVE IInv'
<1>1. /\ nodes' = << >> /\ events' = << >> /\ undoEvents' = << >> /\ scenario' = << >>
      /\ simulationTime' = 0
      /\ UNCHANGED <<playback, control, endTime>>
  BY DEF Reset
<1>2. TypeOK'
  BY <1>1 DEF IInv, TypeOK, playback, control, Range
<1>3. FileInv'
  BY <1>1 DEF FileInv
<1>4. TapeIsWhole'
  <2>1. Applied' = << >>
    BY <1>1, NoneApplied DEF Applied, EventsOf
  <2> QED BY <1>1, <2>1 DEF TapeIsWhole
<1> QED BY <1>2, <1>3, <1>4 DEF IInv

LEMMA FinishLoadingTape ==
    ASSUME IInv, NEW s \in Scenarios, NEW end \in 0..MaxTime, FinishLoading(s, end)
    PROVE  /\ IInv' /\ undoEvents = << >> /\ undoEvents' = << >> /\ events' = s
           /\ Applied' = << >>
<1>1. /\ loading /\ undoEvents' = undoEvents /\ events' = events \o s /\ scenario' = s
      /\ ~loading' /\ nodes' = [n \in Nodes |-> NewNode]
      /\ endTime' = end /\ timeStep' \in TimeSteps
      /\ UNCHANGED <<simulationTime, playMode, control>>
  BY DEF FinishLoading
<1>2. events = << >> /\ undoEvents = << >>
  BY <1>1 DEF IInv, FileInv
<1>3. s \in Seq(SceneEvents)
  BY ScenariosAssumption
<1>4. events' = s
  BY <1>1, <1>2, <1>3, ConcatEmptySeq
<1>5. end \in Nat
  BY TimesAssumption
<1>6. \A n \in DOMAIN nodes' : IsNode(nodes'[n])
  BY <1>1, NewNodeFacts
<1>7. TypeOK'
  BY <1>1, <1>2, <1>3, <1>4, <1>5, <1>6 DEF IInv, TypeOK, control, Range
<1>8. FileInv'
  <2>1. 1..Len(undoEvents') = {}
    BY <1>1, <1>2
  <2> QED BY <1>1, <2>1 DEF FileInv
<1>9. Applied' = << >>
  BY <1>1, <1>2, NoneApplied DEF Applied, EventsOf
<1>10. TapeIsWhole'
  BY <1>1, <1>3, <1>4, <1>9, ConcatEmptySeq DEF TapeIsWhole
<1> QED BY <1>1, <1>2, <1>4, <1>7, <1>8, <1>9, <1>10 DEF IInv

(* The actions that leave the scene alone. *)
SceneStays ==
    /\ UNCHANGED <<scene, scenario, endTime>>
    /\ loading' => loading
    /\ simulationTime' \in Int /\ timeStep' \in TimeSteps
    /\ pc' \in {"idle", "handle", "undo", "advance"} /\ return' \in {"idle", "advance"}

LEMMA SceneStaysTape == ASSUME IInv, SceneStays PROVE IInv'
<1>1. UNCHANGED <<nodes, events, undoEvents, scenario, endTime>>
  BY DEF SceneStays, scene
<1>2. TypeOK'
  BY <1>1 DEF IInv, TypeOK, SceneStays
<1>3. FileInv'
  BY <1>1 DEF IInv, FileInv, SceneStays
<1>4. TapeIsWhole'
  BY <1>1 DEF IInv, TapeIsWhole, Applied
<1> QED BY <1>2, <1>3, <1>4 DEF IInv

LEMMA SceneStaysActions ==
    ASSUME IInv
    PROVE  /\ Paint \/ EventsHandled \/ EventsUndone \/ Advance => SceneStays
           /\ Play \/ Pause \/ ErrorLoading => SceneStays
           /\ \A value \in 0..endTime : SetTime(value) => SceneStays
           /\ \A value \in TimeSteps : SetTimeStep(value) => SceneStays
           /\ UNCHANGED vars => SceneStays
<1> USE DEF SceneStays, IInv, TypeOK, scene, playback, control, file, Goto
<1>1. Paint => SceneStays
  BY DEF Paint
<1>2. EventsHandled => SceneStays
  BY DEF EventsHandled
<1>3. EventsUndone => SceneStays
  BY DEF EventsUndone
<1>4. Advance => SceneStays
  BY TimesAssumption DEF Advance, Seek
<1>5. Play \/ Pause \/ ErrorLoading => SceneStays
  BY DEF Play, Pause, ErrorLoading
<1>6. \A value \in 0..endTime : SetTime(value) => SceneStays
  BY DEF SetTime, Seek
<1>7. \A value \in TimeSteps : SetTimeStep(value) => SceneStays
  BY DEF SetTimeStep
<1>8. UNCHANGED vars => SceneStays
  BY DEF vars
<1> QED BY <1>1, <1>2, <1>3, <1>4, <1>5, <1>6, <1>7, <1>8

(* The kinds of steps. *)
LEMMA NextKinds ==
    ASSUME IInv, [Next]_vars
    PROVE  \/ SceneStays
           \/ HandleEvent
           \/ HandleUndoEvent
           \/ \E isLoading : Reset(isLoading)
           \/ \E s \in Scenarios, end \in 0..MaxTime : FinishLoading(s, end)
  BY SceneStaysActions DEF Next, GuiThread, UserCall, Load, PreviewModel

LEMMA NextTape == IInv /\ [Next]_vars => IInv'
  BY NextKinds, SceneStaysTape, HandleEventTape, HandleUndoEventTape, ResetTape,
     FinishLoadingTape

(* However the user goes back and forth, the events that can be undone and *)
(* those to come are together the scenario: handleEvents and               *)
(* handleUndoEvents never lose, double or reorder an event.                *)
THEOREM TapeIsWholeHolds == Spec => []TapeIsWhole
<1>1. IInv => TapeIsWhole
  BY DEF IInv
<1> QED BY InitTape, NextTape, <1>1, PTL DEF Spec

---------------------------------------------------------------------------
(* One more undo event, or one less. *)

LEMMA LatestStep ==
    ASSUME NEW u, NEW k \in Nat \ {0}, NEW kind, NEW n, NEW first
    PROVE  Latest(u, k, kind, n, first) =
              IF IsHit(u, k, kind, n) THEN u[k].event.value
                                      ELSE Latest(u, k - 1, kind, n, first)
<1>1. CASE IsHit(u, k, kind, n)
  BY <1>1, LatestAtHit
<1>2. CASE ~IsHit(u, k, kind, n)
  <2>1. PICK j : j = k - 1 /\ j \in 0..k /\ k \in Nat
    <3>1. k - 1 \in 0..k
      OBVIOUS
    <3> QED BY <3>1
  <2>2. NoHit(u, j, k, kind, n)
    BY <1>2, <2>1 DEF NoHit
  <2>3. Latest(u, k, kind, n, first) = Latest(u, j, kind, n, first)
    BY <2>1, <2>2, LatestSkips
  <2> QED BY <1>2, <2>1, <2>3
<1> QED BY <1>1, <1>2

LEMMA AppendFacts ==
    ASSUME NEW S, NEW u \in Seq(S), NEW x, NEW v, v = Append(u, x)
    PROVE  /\ Len(u) \in Nat /\ Len(v) = Len(u) + 1 /\ v[Len(u) + 1] = x
           /\ \A i \in 1..Len(u) : v[i] = u[i]
  OBVIOUS

LEMMA FrontFacts ==
    ASSUME NEW S, NEW u \in Seq(S), u # << >>, NEW v, v = Seqs!Front(u)
    PROVE  /\ Len(u) \in Nat \ {0} /\ Len(v) = Len(u) - 1
           /\ \A i \in 1..Len(u)-1 : v[i] = u[i]
  BY FrontProperties

LEMMA MovedTrailFollows ==
    ASSUME NEW x, NEW P, x.trail \in Seq(P), NEW S, NEW u \in Seq(S), NEW n, NEW h,
           Trailing(x.trail, u, n, h),
           x.position = Latest(u, Len(u), "move", n, FirstPosition),
           NEW y, y.event.kind = "move" /\ y.event.node = n
    PROVE  /\ MovedTrail(x, y.event.value) \in Seq(P \cup {x.position, y.event.value})
           /\ \E g : Trailing(MovedTrail(x, y.event.value), Append(u, y), n, g)
<1> DEFINE Q == P \cup {x.position, y.event.value}
<1>1. PICK base : base = IF x.trail = << >> THEN <<x.position>> ELSE x.trail
  OBVIOUS
<1>2. base \in Seq(Q) /\ base # << >>
  <2>1. CASE x.trail = << >>
    <3>1. base = <<x.position>> /\ x.position \in Q
      BY <1>1, <2>1
    <3> HIDE DEF Q
    <3> QED BY <3>1
  <2>2. CASE x.trail # << >>
    <3>1. base = x.trail /\ P \subseteq Q
      BY <1>1, <2>2
    <3> HIDE DEF Q
    <3> QED BY <3>1, <2>2
  <2> QED BY <2>1, <2>2
<1>3. \E g : Trailing(base, u, n, g)
  <2>1. CASE x.trail = << >>
    BY <1>1, <2>1, TrailStart
  <2>2. CASE x.trail # << >>
    BY <1>1, <2>2
  <2> QED BY <2>1, <2>2
<1>4. MovedTrail(x, y.event.value) =
         IF Len(base) = TrailLength THEN Append(Tail(base), y.event.value)
                                    ELSE Append(base, y.event.value)
  BY <1>1 DEF MovedTrail, TrailAppend
<1> HIDE DEF Q
<1>5. PICK old : /\ old = IF Len(base) = TrailLength THEN Tail(base) ELSE base
                 /\ old \in Seq(Q) /\ old # << >>
                 /\ \E g : Trailing(old, u, n, g)
  <2>1. CASE Len(base) = TrailLength
    <3>1. Len(base) \in Nat /\ Len(base) > 1
      BY <1>2, <2>1, TrailAssumption
    <3>2. Tail(base) \in Seq(Q) /\ Len(Tail(base)) = Len(base) - 1
      BY <1>2
    <3>3. Tail(base) # << >>
      <4>1. Len(Tail(base)) # 0 /\ Len(<< >>) = 0
        BY <3>1, <3>2, SMTT(30)
      <4> QED BY <4>1
    <3>4. \E g : Trailing(Tail(base), u, n, g)
      BY <1>2, <1>3, TrailForgets
    <3> QED BY <2>1, <3>2, <3>3, <3>4
  <2>2. CASE Len(base) # TrailLength
    BY <1>2, <1>3, <2>2
  <2> QED BY <2>1, <2>2
<1>6. MovedTrail(x, y.event.value) = Append(old, y.event.value)
  BY <1>4, <1>5
<1>7. PICK g : Trailing(old, u, n, g)
  BY <1>5
<1>8. \E f : Trailing(Append(old, y.event.value), Append(u, y), n, f)
  BY <1>5, <1>7, TrailGrows
<1>9. Append(old, y.event.value) \in Seq(Q)
  BY <1>5 DEF Q
<1> QED BY <1>6, <1>8, <1>9 DEF Q

LEMMA PoppedTrailFollows ==
    ASSUME NEW P, NEW trail \in Seq(P), NEW S, NEW u \in Seq(S), u # << >>, NEW n, NEW h,
           Trailing(trail, u, n, h),
           IsHit(u, Len(u), "move", n)
    PROVE  /\ TrailPop(trail) \in Seq(P)
           /\ \E g : Trailing(TrailPop(trail), Seqs!Front(u), n, g)
<1>1. CASE trail = << >>
  <2>1. PICK g : g = [i \in 1..0 |-> 0]
    OBVIOUS
  <2>2. g \in [1..0 -> 0..Len(Seqs!Front(u))] /\ \A i \in 1..0 : FALSE
    BY <2>1
  <2>3. Len(<< >>) = 0 /\ \A i \in 1..0-1 : FALSE
    OBVIOUS
  <2>4. Trailing(<< >>, Seqs!Front(u), n, g)
    BY <2>2, <2>3 DEF Trailing
  <2> QED BY <1>1, <2>4 DEF TrailPop
<1>2. CASE trail # << >>
  <2>1. TrailPop(trail) = Seqs!Front(trail)
    BY <1>2 DEF TrailPop
  <2> QED BY <1>2, <2>1, TrailGoesBack, FrontProperties
<1> QED BY <1>1, <1>2

LEMMA TrailStays ==
    ASSUME NEW P, NEW trail \in Seq(P), NEW S, NEW u \in Seq(S), NEW n, NEW h,
           Trailing(trail, u, n, h), NEW x
    PROVE  /\ ~(x.event.kind = "move" /\ x.event.node = n) =>
                 Trailing(trail, Append(u, x), n, h)
           /\ u # << >> /\ ~IsHit(u, Len(u), "move", n) =>
                 Trailing(trail, Seqs!Front(u), n, h)
<1>1. ASSUME ~(x.event.kind = "move" /\ x.event.node = n)
      PROVE  Trailing(trail, Append(u, x), n, h)
  <2>1. PICK v : v = Append(u, x)
    OBVIOUS
  <2>2. /\ Len(u) \in Nat /\ Len(v) = Len(u) + 1 /\ v[Len(u) + 1] = x
        /\ \A i \in 1..Len(u) : u[i] = v[i]
    BY <2>1
  <2>3. NoHit(u, Len(u), Len(u), "move", n) /\ NoHit(v, Len(u), Len(v), "move", n)
    BY <1>1, <2>2 DEF NoHit, IsHit
  <2>4. Len(v) \in Nat /\ Len(u) <= Len(v) /\ Len(u) <= Len(u)
    BY <2>2
  <2> QED BY <2>1, <2>2, <2>3, <2>4, TrailingSame
<1>2. ASSUME u # << >>, ~IsHit(u, Len(u), "move", n)
      PROVE  Trailing(trail, Seqs!Front(u), n, h)
  <2>1. PICK v : v = Seqs!Front(u)
    OBVIOUS
  <2>2. /\ Len(u) \in Nat \ {0} /\ Len(v) = Len(u) - 1
        /\ \A i \in 1..Len(u)-1 : v[i] = u[i]
    BY <1>2, <2>1, FrontProperties
  <2>3. NoHit(u, Len(v), Len(u), "move", n) /\ NoHit(v, Len(v), Len(v), "move", n)
    BY <1>2, <2>2 DEF NoHit
  <2>4. /\ Len(v) \in Nat /\ Len(v) <= Len(u) /\ Len(v) <= Len(v) /\ Len(u) \in Nat
        /\ \A i \in 1..Len(v) : u[i] = v[i]
    BY <2>2
  <2> QED BY <2>1, <2>3, <2>4, TrailingSame
<1> QED BY <1>1, <1>2

---------------------------------------------------------------------------
(* The inductive invariant of PositionIsReplayed and TrailShowsPath. *)

(* Where a node is and what it looks like is what the last hits made of    *)
(* it, and its trail is the last part of its moves; ...                    *)
Follows(x, u, n) ==
    /\ x.position = Latest(u, Len(u), "move", n, FirstPosition)
    /\ x.model = Latest(u, Len(u), "model", n, FirstModel)
    /\ x.trail \in Seq(Range(x.trail))
    /\ \E h \in [1..Len(x.trail) -> 0..Len(u)] : Trailing(x.trail, u, n, h)

(* ... and each undo event keeps what the hits before it had made. *)
Remembers(u) ==
    \A k \in 1..Len(u) :
        /\ u[k].event.kind = "move" =>
              u[k].before = Latest(u, k - 1, "move", u[k].event.node, FirstPosition)
        /\ u[k].event.kind = "model" =>
              u[k].before = Latest(u, k - 1, "model", u[k].event.node, FirstModel)

NodesInv == \A n \in DOMAIN nodes : Follows(nodes[n], undoEvents, n)

ReplayInv == IInv /\ Remembers(undoEvents) /\ NodesInv

LEMMA RemembersAppend ==
    ASSUME NEW S, NEW u \in Seq(S), Remembers(u), NEW x,
           x.event.kind = "move" =>
              x.before = Latest(u, Len(u), "move", x.event.node, FirstPosition),
           x.event.kind = "model" =>
              x.before = Latest(u, Len(u), "model", x.event.node, FirstModel)
    PROVE  Remembers(Append(u, x))
<1>1. PICK v : v = Append(u, x)
  OBVIOUS
<1>2. /\ Len(u) \in Nat /\ Len(v) = Len(u) + 1 /\ v[Len(u) + 1] = x
      /\ \A i \in 1..Len(u) : v[i] = u[i]
  BY <1>1
<1>3. ASSUME NEW k \in 0..Len(u), NEW kind, NEW n, NEW first
      PROVE  Latest(v, k, kind, n, first) = Latest(u, k, kind, n, first)
  <2>1. k \in Nat /\ \A i \in 1..k : v[i] = u[i]
    BY <1>2
  <2> QED BY <2>1, LatestSame
<1>4. ASSUME NEW k \in 1..Len(v)
      PROVE  /\ v[k].event.kind = "move" =>
                   v[k].before = Latest(v, k - 1, "move", v[k].event.node, FirstPosition)
             /\ v[k].event.kind = "model" =>
                   v[k].before = Latest(v, k - 1, "model", v[k].event.node, FirstModel)
  <2>1. PICK j \in 0..Len(u) : j = k - 1
    <3>1. k - 1 \in 0..Len(u)
      BY <1>2
    <3> QED BY <3>1
  <2>2. PICK z : z = v[k]
    OBVIOUS
  <2>3. /\ Latest(v, j, "move", z.event.node, FirstPosition) =
              Latest(u, j, "move", z.event.node, FirstPosition)
        /\ Latest(v, j, "model", z.event.node, FirstModel) =
              Latest(u, j, "model", z.event.node, FirstModel)
    BY <1>3
  <2>4. CASE k = Len(u) + 1
    <3>1. j = Len(u) /\ z = x
      BY <1>2, <2>1, <2>2, <2>4
    <3>2. /\ z.event.kind = "move" =>
                z.before = Latest(v, j, "move", z.event.node, FirstPosition)
          /\ z.event.kind = "model" =>
                z.before = Latest(v, j, "model", z.event.node, FirstModel)
      BY <2>3, <3>1
    <3> QED BY <2>1, <2>2, <3>2
  <2>5. CASE k # Len(u) + 1
    <3>1. k \in 1..Len(u) /\ z = u[k]
      BY <1>2, <2>2, <2>5
    <3>2. /\ z.event.kind = "move" =>
                z.before = Latest(u, k - 1, "move", z.event.node, FirstPosition)
          /\ z.event.kind = "model" =>
                z.before = Latest(u, k - 1, "model", z.event.node, FirstModel)
      BY <3>1 DEF Remembers
    <3>3. /\ z.event.kind = "move" =>
                z.before = Latest(v, j, "move", z.event.node, FirstPosition)
          /\ z.event.kind = "model" =>
                z.before = Latest(v, j, "model", z.event.node, FirstModel)
      BY <2>1, <2>3, <3>2, Zenon
    <3> QED BY <2>1, <2>2, <3>3, Zenon
  <2> QED BY <2>4, <2>5
<1>5. Remembers(v)
  BY <1>4 DEF Remembers
<1> QED BY <1>1, <1>5

LEMMA RemembersFront ==
    ASSUME NEW S, NEW u \in Seq(S), u # << >>, Remembers(u)
    PROVE  Remembers(Seqs!Front(u))
<1>1. PICK v : v = Seqs!Front(u)
  OBVIOUS
<1>2. /\ Len(u) \in Nat \ {0} /\ Len(v) = Len(u) - 1
      /\ \A i \in 1..Len(u)-1 : v[i] = u[i]
  BY <1>1, FrontProperties
<1>3. ASSUME NEW k \in 1..Len(v)
      PROVE  /\ v[k].event.kind = "move" =>
                   v[k].before = Latest(v, k - 1, "move", v[k].event.node, FirstPosition)
             /\ v[k].event.kind = "model" =>
                   v[k].before = Latest(v, k - 1, "model", v[k].event.node, FirstModel)
  <2>1. PICK j \in 0..Len(u)-1 : j = k - 1
    <3>1. k - 1 \in 0..Len(u)-1
      BY <1>2
    <3> QED BY <3>1
  <2>2. PICK z : z = v[k]
    OBVIOUS
  <2>3. j \in Nat /\ \A i \in 1..j : v[i] = u[i]
    BY <1>2
  <2>4. /\ Latest(v, j, "move", z.event.node, FirstPosition) =
              Latest(u, j, "move", z.event.node, FirstPosition)
        /\ Latest(v, j, "model", z.event.node, FirstModel) =
              Latest(u, j, "model", z.event.node, FirstModel)
    BY <2>3, LatestSame
  <2>5. k \in 1..Len(u) /\ z = u[k]
    BY <1>2, <2>2
  <2> QED BY <2>1, <2>2, <2>4, <2>5 DEF Remembers
<1>4. Remembers(v)
  BY <1>3 DEF Remembers
<1> QED BY <1>1, <1>4

LEMMA NewNodeFollows ==
    ASSUME NEW n, NEW u, u = << >>
    PROVE  Follows(NewNode, u, n)
<1>1. \A kind, first : Latest(u, Len(u), kind, n, first) = first
  <2>1. Len(u) = 0 /\ 1..0 = {}
    OBVIOUS
  <2> QED BY <2>1 DEF Latest, Hits
<1>2. PICK trail : trail = NewNode.trail
  OBVIOUS
<1>3. trail = << >> /\ Len(trail) = 0 /\ Len(u) = 0
  BY <1>2, NewNodeFacts
<1>4. PICK h : h = [i \in 1..0 |-> 0]
  OBVIOUS
<1>5. h \in [1..0 -> 0..0] /\ \A i \in 1..0 : FALSE
  BY <1>4
<1>6. \A i \in 1..0-1 : FALSE
  OBVIOUS
<1>7. Trailing(trail, u, n, h)
  BY <1>3, <1>5, <1>6 DEF Trailing
<1>8. trail \in Seq(Range(trail))
  BY <1>3
<1>9. \E g \in [1..Len(trail) -> 0..Len(u)] : Trailing(trail, u, n, g)
  BY <1>3, <1>5, <1>7
<1> QED BY <1>1, <1>2, <1>8, <1>9, NewNodeFacts DEF Follows

LEMMA HandleFollows ==
    ASSUME NEW x, IsNode(x), NEW S, NEW u \in Seq(S), NEW n, Follows(x, u, n),
           NEW y, y.event.kind \in Kinds
    PROVE  /\ y.event.node = n => Follows(Handle(x, y.event), Append(u, y), n)
           /\ y.event.node # n => Follows(x, Append(u, y), n)
<1>1. PICK v : v = Append(u, y)
  OBVIOUS
<1>2. /\ Latest(v, Len(v), "move", n, FirstPosition) =
            IF y.event.kind = "move" /\ y.event.node = n
            THEN y.event.value
            ELSE Latest(u, Len(u), "move", n, FirstPosition)
      /\ Latest(v, Len(v), "model", n, FirstModel) =
            IF y.event.kind = "model" /\ y.event.node = n
            THEN y.event.value
            ELSE Latest(u, Len(u), "model", n, FirstModel)
  <2>1. PICK k \in Nat : k = Len(u)
    OBVIOUS
  <2>2. /\ Len(v) = k + 1 /\ v[k + 1] = y /\ \A i \in 1..k : v[i] = u[i]
        /\ k + 1 \in Nat \ {0} /\ (k + 1) - 1 = k
    BY <1>1, <2>1, AppendFacts
  <2>3. ASSUME NEW kind, NEW first
        PROVE  Latest(v, k + 1, kind, n, first) =
                  IF y.event.kind = kind /\ y.event.node = n
                  THEN y.event.value ELSE Latest(u, k, kind, n, first)
    <3>1. Latest(v, k, kind, n, first) = Latest(u, k, kind, n, first)
      BY <2>2, LatestSame
    <3>2. Latest(v, k + 1, kind, n, first) =
             IF IsHit(v, k + 1, kind, n) THEN v[k + 1].event.value
                                         ELSE Latest(v, (k + 1) - 1, kind, n, first)
      BY <2>2, LatestStep
    <3> QED BY <2>2, <3>1, <3>2 DEF IsHit
  <2> QED BY <2>1, <2>2, <2>3
<1>3. PICK h : Trailing(x.trail, u, n, h)
  BY DEF Follows
<1>4. PICK P : P = Range(x.trail) /\ x.trail \in Seq(P)
  BY DEF Follows
<1>5. ~(y.event.kind = "move" /\ y.event.node = n) => Trailing(x.trail, v, n, h)
  BY <1>1, <1>3, <1>4, TrailStays
<1>6. ASSUME y.event.node = n PROVE Follows(Handle(x, y.event), v, n)
  <2>1. PICK z : z = Handle(x, y.event)
    OBVIOUS
  <2>2. Fields(z, IF y.event.kind = "move" THEN y.event.value ELSE x.position,
                  IF y.event.kind = "model" THEN y.event.value ELSE x.model,
                  IF y.event.kind = "move" THEN MovedTrail(x, y.event.value) ELSE x.trail)
    BY <2>1, HandleFacts, Zenon
  <2>3. z.position = Latest(v, Len(v), "move", n, FirstPosition)
    BY <1>2, <1>6, <2>2 DEF Fields, Follows
  <2>4. z.model = Latest(v, Len(v), "model", n, FirstModel)
    BY <1>2, <1>6, <2>2 DEF Fields, Follows
  <2>5. CASE y.event.kind = "move"
    <3>1. z.trail = MovedTrail(x, y.event.value)
      BY <2>2, <2>5 DEF Fields
    <3>2. x.position = Latest(u, Len(u), "move", n, FirstPosition)
      BY DEF Follows
    <3>3. /\ MovedTrail(x, y.event.value) \in Seq(P \cup {x.position, y.event.value})
          /\ \E g : Trailing(MovedTrail(x, y.event.value), v, n, g)
      BY <1>1, <1>3, <1>4, <1>6, <2>5, <3>2, MovedTrailFollows
    <3>4. z.trail \in Seq(Range(z.trail))
      BY <3>1, <3>3, SeqOfRange
    <3>5. PICK g : Trailing(z.trail, v, n, g)
      BY <3>1, <3>3
    <3>6. g \in [1..Len(z.trail) -> 0..Len(v)]
      BY <3>5 DEF Trailing
    <3> QED BY <2>1, <2>3, <2>4, <3>4, <3>5, <3>6 DEF Follows
  <2>6. CASE y.event.kind # "move"
    <3>1. z.trail = x.trail
      BY <2>2, <2>6 DEF Fields
    <3>2. Trailing(z.trail, v, n, h) /\ z.trail \in Seq(Range(z.trail))
      BY <1>4, <1>5, <2>6, <3>1
    <3>3. h \in [1..Len(z.trail) -> 0..Len(v)]
      BY <3>2 DEF Trailing
    <3> QED BY <2>1, <2>3, <2>4, <3>2, <3>3 DEF Follows
  <2> QED BY <2>5, <2>6
<1>7. ASSUME y.event.node # n PROVE Follows(x, v, n)
  <2>1. Trailing(x.trail, v, n, h)
    BY <1>5, <1>7
  <2>2. h \in [1..Len(x.trail) -> 0..Len(v)]
    BY <2>1 DEF Trailing
  <2> QED BY <1>2, <1>7, <2>1, <2>2 DEF Follows
<1> QED BY <1>1, <1>6, <1>7

LEMMA HandleUndoFollows ==
    ASSUME NEW x, IsNode(x), NEW S, NEW u \in Seq(S), u # << >>, Remembers(u),
           NEW n, Follows(x, u, n),
           NEW y, y = u[Len(u)], y.event.kind \in Kinds
    PROVE  /\ y.event.node = n => Follows(HandleUndo(x, y), Seqs!Front(u), n)
           /\ y.event.node # n => Follows(x, Seqs!Front(u), n)
<1>1. PICK v : v = Seqs!Front(u)
  OBVIOUS
<1>2. /\ Len(u) \in Nat \ {0} /\ Len(v) = Len(u) - 1
      /\ \A i \in 1..Len(u)-1 : v[i] = u[i]
  BY <1>1, FrontFacts
<1>3. ASSUME NEW kind, NEW first
      PROVE  /\ Latest(v, Len(u) - 1, kind, n, first) = Latest(u, Len(u) - 1, kind, n, first)
             /\ ~(y.event.kind = kind /\ y.event.node = n) =>
                   Latest(u, Len(u), kind, n, first) = Latest(u, Len(u) - 1, kind, n, first)
  <2>1. PICK k \in Nat : k = Len(u) - 1
    <3>1. Len(u) - 1 \in Nat
      BY <1>2
    <3> QED BY <3>1
  <2>2. \A i \in 1..k : v[i] = u[i]
    BY <1>2, <2>1
  <2>3. Latest(v, k, kind, n, first) = Latest(u, k, kind, n, first)
    BY <2>2, LatestSame
  <2>4. Latest(u, Len(u), kind, n, first) =
           IF IsHit(u, Len(u), kind, n) THEN u[Len(u)].event.value
                                        ELSE Latest(u, Len(u) - 1, kind, n, first)
    BY <1>2, LatestStep
  <2> QED BY <2>1, <2>3, <2>4 DEF IsHit
<1>4. /\ y.event.kind = "move" =>
            y.before = Latest(u, Len(u) - 1, "move", y.event.node, FirstPosition)
      /\ y.event.kind = "model" =>
            y.before = Latest(u, Len(u) - 1, "model", y.event.node, FirstModel)
  <2>1. Len(u) \in 1..Len(u)
    BY <1>2
  <2> QED BY <2>1 DEF Remembers
<1>5. PICK h : Trailing(x.trail, u, n, h)
  BY DEF Follows
<1>6. PICK P : P = Range(x.trail) /\ x.trail \in Seq(P)
  BY DEF Follows
<1>7. ~(y.event.kind = "move" /\ y.event.node = n) => Trailing(x.trail, v, n, h)
  BY <1>1, <1>5, <1>6, TrailStays DEF IsHit
<1>8. ASSUME y.event.node = n PROVE Follows(HandleUndo(x, y), v, n)
  <2>1. PICK z : z = HandleUndo(x, y)
    OBVIOUS
  <2>2. Fields(z, IF y.event.kind = "move" THEN y.before ELSE x.position,
                  IF y.event.kind = "model" THEN y.before ELSE x.model,
                  IF y.event.kind = "move" THEN TrailPop(x.trail) ELSE x.trail)
    BY <2>1, HandleUndoFacts, Zenon
  <2>3. z.position = Latest(v, Len(v), "move", n, FirstPosition)
    BY <1>2, <1>3, <1>4, <1>8, <2>2 DEF Fields, Follows
  <2>4. z.model = Latest(v, Len(v), "model", n, FirstModel)
    BY <1>2, <1>3, <1>4, <1>8, <2>2 DEF Fields, Follows
  <2>5. CASE y.event.kind = "move"
    <3>1. z.trail = TrailPop(x.trail)
      BY <2>2, <2>5 DEF Fields
    <3>2. IsHit(u, Len(u), "move", n)
      BY <1>8, <2>5 DEF IsHit
    <3>3. TrailPop(x.trail) \in Seq(P) /\ \E g : Trailing(TrailPop(x.trail), v, n, g)
      BY <1>1, <1>5, <1>6, <3>2, PoppedTrailFollows
    <3>4. z.trail \in Seq(Range(z.trail))
      BY <3>1, <3>3, SeqOfRange
    <3>5. PICK g : Trailing(z.trail, v, n, g)
      BY <3>1, <3>3
    <3>6. g \in [1..Len(z.trail) -> 0..Len(v)]
      BY <3>5 DEF Trailing
    <3> QED BY <2>1, <2>3, <2>4, <3>4, <3>5, <3>6 DEF Follows
  <2>6. CASE y.event.kind # "move"
    <3>1. z.trail = x.trail
      BY <2>2, <2>6 DEF Fields
    <3>2. Trailing(z.trail, v, n, h) /\ z.trail \in Seq(Range(z.trail))
      BY <1>6, <1>7, <2>6, <3>1
    <3>3. h \in [1..Len(z.trail) -> 0..Len(v)]
      BY <3>2 DEF Trailing
    <3> QED BY <2>1, <2>3, <2>4, <3>2, <3>3 DEF Follows
  <2> QED BY <2>5, <2>6
<1>9. ASSUME y.event.node # n PROVE Follows(x, v, n)
  <2>1. Trailing(x.trail, v, n, h)
    BY <1>7, <1>9
  <2>2. h \in [1..Len(x.trail) -> 0..Len(v)]
    BY <2>1 DEF Trailing
  <2> QED BY <1>2, <1>3, <1>9, <2>1, <2>2 DEF Follows
<1> QED BY <1>1, <1>8, <1>9

LEMMA InitReplay == Init => ReplayInv
<1> SUFFICES ASSUME Init PROVE ReplayInv
  OBVIOUS
<1>1. IInv
  BY InitTape
<1>2. undoEvents = << >> /\ nodes = << >>
  BY DEF Init
<1>3. Remembers(undoEvents)
  <2>1. 1..Len(undoEvents) = {}
    BY <1>2
  <2> QED BY <2>1 DEF Remembers
<1>4. NodesInv
  <2>1. DOMAIN nodes = {}
    BY <1>2
  <2> QED BY <2>1 DEF NodesInv
<1> QED BY <1>1, <1>3, <1>4 DEF ReplayInv

LEMMA HandleEventReplay == ASSUME ReplayInv, HandleEvent PROVE ReplayInv'
<1>1. IInv'
  BY HandleEventTape DEF ReplayInv
<1>2. PICK e, u :
         /\ e \in SceneEvents
         /\ e.node \in DOMAIN nodes
         /\ u.event = e /\ u.before = Value(nodes[e.node], e.kind)
         /\ undoEvents' = Append(undoEvents, u)
         /\ DOMAIN nodes' = DOMAIN nodes
         /\ \A n \in DOMAIN nodes :
               nodes'[n] = IF n = e.node THEN Handle(nodes[n], e) ELSE nodes[n]
  BY HandleEventFacts DEF ReplayInv
<1>3. undoEvents \in Seq(Range(undoEvents)) /\ \A n \in DOMAIN nodes : IsNode(nodes[n])
  BY DEF ReplayInv, IInv, TypeOK
<1>4. Remembers(undoEvents) /\ \A n \in DOMAIN nodes : Follows(nodes[n], undoEvents, n)
  BY DEF ReplayInv, NodesInv
<1>5. u.event.kind \in Kinds
  BY <1>2, EventFacts
<1>6. Remembers(undoEvents')
  <2>1. u.event.kind = "move" =>
           u.before = Latest(undoEvents, Len(undoEvents), "move", u.event.node, FirstPosition)
    BY <1>2, <1>4, ValueCases DEF Follows
  <2>2. u.event.kind = "model" =>
           u.before = Latest(undoEvents, Len(undoEvents), "model", u.event.node, FirstModel)
    BY <1>2, <1>4, ValueCases DEF Follows
  <2> QED BY <1>2, <1>3, <1>4, <2>1, <2>2, RemembersAppend
<1>7. ASSUME NEW n \in DOMAIN nodes' PROVE Follows(nodes'[n], undoEvents', n)
  <2>1. PICK x : x = nodes[n] /\ IsNode(x) /\ Follows(x, undoEvents, n)
    BY <1>2, <1>3, <1>4
  <2>2. /\ u.event.node = n => Follows(Handle(x, u.event), Append(undoEvents, u), n)
        /\ u.event.node # n => Follows(x, Append(undoEvents, u), n)
    BY <1>3, <1>5, <2>1, HandleFollows
  <2>3. nodes'[n] = IF n = e.node THEN Handle(x, e) ELSE x
    BY <1>2, <2>1
  <2> QED BY <1>2, <2>2, <2>3
<1> QED BY <1>1, <1>6, <1>7 DEF ReplayInv, NodesInv

LEMMA HandleUndoEventReplay == ASSUME ReplayInv, HandleUndoEvent PROVE ReplayInv'
<1>1. IInv'
  BY HandleUndoEventTape DEF ReplayInv
<1>2. PICK u :
         /\ u = undoEvents[Len(undoEvents)] /\ undoEvents # << >>
         /\ undoEvents' = Seqs!Front(undoEvents)
         /\ u.event \in SceneEvents
         /\ DOMAIN nodes' = DOMAIN nodes
         /\ \A n \in DOMAIN nodes :
               nodes'[n] = IF n = u.event.node THEN HandleUndo(nodes[n], u) ELSE nodes[n]
  BY HandleUndoEventFacts DEF ReplayInv
<1>3. undoEvents \in Seq(Range(undoEvents)) /\ \A n \in DOMAIN nodes : IsNode(nodes[n])
  BY DEF ReplayInv, IInv, TypeOK
<1>4. Remembers(undoEvents) /\ \A n \in DOMAIN nodes : Follows(nodes[n], undoEvents, n)
  BY DEF ReplayInv, NodesInv
<1>5. u.event.kind \in Kinds
  BY <1>2, EventFacts
<1>6. Remembers(undoEvents')
  BY <1>2, <1>3, <1>4, RemembersFront
<1>7. ASSUME NEW n \in DOMAIN nodes' PROVE Follows(nodes'[n], undoEvents', n)
  <2>1. PICK x : x = nodes[n] /\ IsNode(x) /\ Follows(x, undoEvents, n)
    BY <1>2, <1>3, <1>4
  <2>2. /\ u.event.node = n => Follows(HandleUndo(x, u), Seqs!Front(undoEvents), n)
        /\ u.event.node # n => Follows(x, Seqs!Front(undoEvents), n)
    BY <1>2, <1>3, <1>4, <1>5, <2>1, HandleUndoFollows
  <2>3. nodes'[n] = IF n = u.event.node THEN HandleUndo(x, u) ELSE x
    BY <1>2, <2>1
  <2> QED BY <1>2, <2>2, <2>3
<1> QED BY <1>1, <1>6, <1>7 DEF ReplayInv, NodesInv

LEMMA NextReplay == ReplayInv /\ [Next]_vars => ReplayInv'
<1> SUFFICES ASSUME ReplayInv, [Next]_vars PROVE ReplayInv'
  OBVIOUS
<1>1. IInv /\ IInv'
  BY NextTape DEF ReplayInv
<1>2. CASE SceneStays
  <2>1. UNCHANGED <<nodes, undoEvents>>
    BY <1>2 DEF SceneStays, scene
  <2> QED BY <1>1, <2>1 DEF ReplayInv, NodesInv
<1>3. CASE \E isLoading : Reset(isLoading)
  <2>1. nodes' = << >> /\ undoEvents' = << >>
    BY <1>3 DEF Reset
  <2>2. 1..Len(undoEvents') = {} /\ DOMAIN nodes' = {}
    BY <2>1
  <2> QED BY <1>1, <2>2 DEF ReplayInv, NodesInv, Remembers
<1>4. CASE \E s \in Scenarios, end \in 0..MaxTime : FinishLoading(s, end)
  <2>1. PICK s \in Scenarios, end \in 0..MaxTime : FinishLoading(s, end)
    BY <1>4
  <2>2. undoEvents' = << >> /\ nodes' = [n \in Nodes |-> NewNode]
    BY <1>1, <2>1, FinishLoadingTape DEF FinishLoading
  <2>3. 1..Len(undoEvents') = {}
    BY <2>2
  <2>4. \A n \in DOMAIN nodes' : Follows(nodes'[n], undoEvents', n)
    BY <2>2, NewNodeFollows
  <2> QED BY <1>1, <2>3, <2>4 DEF ReplayInv, NodesInv, Remembers
<1> QED BY <1>1, <1>2, <1>3, <1>4, NextKinds, HandleEventReplay, HandleUndoEventReplay

LEMMA LastTargetIsLatest ==
    ASSUME IInv, NEW kind, NEW n, NEW first
    PROVE  LastTarget(kind, n, first) = Latest(undoEvents, Len(undoEvents), kind, n, first)
<1>1. DOMAIN undoEvents = 1..Len(undoEvents)
  BY DEF IInv, TypeOK
<1>2. {i \in DOMAIN undoEvents : undoEvents[i].event.kind = kind /\ undoEvents[i].event.node = n}
        = Hits(undoEvents, Len(undoEvents), kind, n)
  BY <1>1 DEF Hits, IsHit
<1>3. CASE Hits(undoEvents, Len(undoEvents), kind, n) = {}
  BY <1>2, <1>3 DEF LastTarget, Latest
<1>4. CASE Hits(undoEvents, Len(undoEvents), kind, n) # {}
  <2> DEFINE hits == {i \in DOMAIN undoEvents : undoEvents[i].event.kind = kind
                                               /\ undoEvents[i].event.node = n}
             all == Hits(undoEvents, Len(undoEvents), kind, n)
  <2>1. PICK k \in all : \A j \in all : j <= k
    BY <1>4, AppliedFacts, Greatest DEF Hits
  <2>2. PICK a : a = CHOOSE i \in hits : \A j \in hits : j <= i
    OBVIOUS
  <2>3. PICK b : b = CHOOSE i \in all : \A j \in all : j <= i
    OBVIOUS
  <2>4. LastTarget(kind, n, first) = undoEvents[a].event.value
    BY <1>2, <1>4, <2>2 DEF LastTarget
  <2>5. Latest(undoEvents, Len(undoEvents), kind, n, first) = undoEvents[b].event.value
    BY <1>4, <2>3 DEF Latest
  <2>6. hits = all /\ all \subseteq Nat
    BY <1>2 DEF Hits
  <2> HIDE DEF hits, all
  <2>7. b \in all /\ \A j \in all : j <= b
    BY <2>1, <2>3, Zenon
  <2>8. a \in hits /\ \A j \in hits : j <= a
    <3>1. k \in hits /\ \A j \in hits : j <= k
      BY <2>1, <2>6
    <3> QED BY <2>2, <3>1, Zenon
  <2>9. a = b
    BY <2>6, <2>7, <2>8
  <2> QED BY <2>4, <2>5, <2>9
<1> QED BY <1>3, <1>4

(* Whatever was applied and undone before, a node is where the last event  *)
(* applied to it put it, with the model that event gave it: the undo event *)
(* keeps what an event overwrote, and the node goes back to it.            *)
THEOREM PositionIsReplayedHolds == Spec => []PositionIsReplayed
<1>1. ReplayInv => PositionIsReplayed
  BY LastTargetIsLatest DEF ReplayInv, NodesInv, Follows, PositionIsReplayed
<1> QED BY InitReplay, NextReplay, <1>1, PTL DEF Spec

(* The h of Trailing names all moves of n that come after one of them. *)
LEMMA LaterMoves ==
    ASSUME NEW P, NEW trail \in Seq(P), NEW S, NEW u \in Seq(S), NEW n, NEW h,
           Trailing(trail, u, n, h),
           NEW i \in 1..Len(trail), NEW k \in 1..Len(u), h[i] < k, IsHit(u, k, "move", n)
    PROVE  \E j \in i+1..Len(trail) : k = h[j]
<1>1. Len(trail) \in Nat /\ Len(u) \in Nat
  OBVIOUS
<1>2. \A j \in 1..Len(trail) : h[j] \in 0..Len(u)
  BY DEF Trailing
<1> DEFINE below == {j \in 1..Len(trail) : h[j] <= k}
<1>3. i \in below /\ below \subseteq 1..Len(trail)
  BY <1>1, <1>2
<1>4. PICK m \in below : \A j \in below : j <= m
  <2> HIDE DEF below
  <2> QED BY <1>1, <1>3, Greatest
<1>5. m \in 1..Len(trail) /\ h[m] <= k /\ i <= m
  BY <1>3, <1>4
<1>6. h[m] = k
  <2>1. CASE h[m] < k /\ m = Len(trail)
    <3>1. NoHit(u, h[m], Len(u), "move", n)
      BY <1>1, <1>5, <2>1 DEF Trailing
    <3>2. k \in h[m]+1..Len(u)
      BY <1>1, <1>2, <1>5, <2>1
    <3> QED BY <3>1, <3>2 DEF NoHit
  <2>2. CASE h[m] < k /\ m # Len(trail)
    <3>1. m \in 1..Len(trail)-1 /\ m + 1 \in 1..Len(trail) /\ ~(m + 1 <= m)
      BY <1>1, <1>5, <2>2
    <3>2. NoHit(u, h[m], h[m+1]-1, "move", n)
      BY <3>1 DEF Trailing
    <3>3. ~(h[m+1] <= k)
      BY <1>4, <3>1
    <3>4. k \in h[m]+1..h[m+1]-1
      BY <1>1, <1>2, <1>5, <2>2, <3>1, <3>3
    <3> QED BY <3>2, <3>4 DEF NoHit
  <2> QED BY <1>1, <1>2, <1>5, <2>1, <2>2
<1>7. m \in i+1..Len(trail)
  BY <1>1, <1>2, <1>5, <1>6
<1> QED BY <1>6, <1>7

(* The points of the trail but the last are where its moves began. *)
LEMMA DrawnPoints ==
    ASSUME NEW P, NEW trail \in Seq(P), NEW S, NEW u \in Seq(S), Remembers(u), NEW n, NEW h,
           Trailing(trail, u, n, h),
           NEW i \in 1..Len(trail)-1
    PROVE  /\ h[i+1] \in 1..Len(u) /\ IsHit(u, h[i+1], "move", n)
           /\ trail[i] = u[h[i+1]].before
<1>1. Len(trail) \in Nat /\ Len(u) \in Nat /\ i \in 1..Len(trail) /\ i+1 \in 1..Len(trail)
  OBVIOUS
<1>2. PICK j \in 0..Len(u) : j = h[i]
  BY <1>1 DEF Trailing
<1>3. PICK k \in 0..Len(u) : k = h[i+1]
  BY <1>1 DEF Trailing
<1>4. j < k
  BY <1>1, <1>2, <1>3 DEF Trailing
<1>5. k \in 1..Len(u) /\ k - 1 \in 0..Len(u) /\ j \in 0..k-1
  BY <1>1, <1>2, <1>3, <1>4
<1>6. IsHit(u, k, "move", n)
  BY <1>1, <1>3, <1>5 DEF Trailing
<1>7. u[k].before = Latest(u, k - 1, "move", n, FirstPosition)
  BY <1>5, <1>6 DEF Remembers, IsHit
<1>8. trail[i] = Latest(u, j, "move", n, FirstPosition)
  BY <1>1, <1>2 DEF Trailing
<1>9. NoHit(u, j, k - 1, "move", n)
  BY <1>1, <1>2, <1>3 DEF Trailing
<1>10. Latest(u, k - 1, "move", n, FirstPosition) = Latest(u, j, "move", n, FirstPosition)
  BY <1>1, <1>5, <1>9, LatestSkips
<1> QED BY <1>3, <1>5, <1>6, <1>7, <1>8, <1>10

(* The trail drawn behind a node is the path of its last moves, one move   *)
(* behind the node, although the oldest points fall off a full trail and   *)
(* going back only takes points off its end.                               *)
THEOREM TrailShowsPathHolds == Spec => []TrailShowsPath
<1>1. ASSUME ReplayInv, NEW n \in DOMAIN nodes
      PROVE  LET drawn == Drawn(nodes[n].trail)
             IN  \E move \in [DOMAIN drawn -> Moves(n)] :
                    \A i \in DOMAIN drawn :
                       /\ drawn[i] = undoEvents[move[i]].before
                       /\ {k \in Moves(n) : k > move[i]}
                             = {move[j] : j \in i+1..Len(drawn)}
  <2> DEFINE drawn == Drawn(nodes[n].trail)
  <2>1. drawn = Drawn(nodes[n].trail)
    OBVIOUS
  <2> HIDE DEF drawn
  <2>2. PICK trail : trail = nodes[n].trail
    OBVIOUS
  <2>3. PICK u : u = undoEvents
    OBVIOUS
  <2>4. PICK h : Trailing(trail, u, n, h)
    <3>1. Follows(nodes[n], undoEvents, n)
      BY <1>1 DEF ReplayInv, NodesInv
    <3> QED BY <2>2, <2>3, <3>1 DEF Follows
  <2>5. trail \in Seq(Range(trail)) /\ u \in Seq(Range(u)) /\ Remembers(u)
    BY <1>1, <2>2, <2>3 DEF ReplayInv, NodesInv, Follows, IInv, TypeOK
  <2>6. PICK len : len = Len(trail) - 1 /\ (len \in Nat \/ len = -1)
    BY <2>5
  <2>7. /\ DOMAIN drawn = 1..len
        /\ (len \in Nat => Len(drawn) = len)
        /\ \A i \in 1..len : drawn[i] = trail[i]
    BY <2>1, <2>2, <2>5, <2>6 DEF Drawn
  <2>8. Moves(n) = {k \in 1..Len(u) : IsHit(u, k, "move", n)}
    BY <2>3, <2>5 DEF Moves, IsHit
  <2>9. PICK move : move = [i \in 1..len |-> h[i+1]]
    OBVIOUS
  <2>10. ASSUME NEW i \in 1..len
        PROVE  /\ i + 1 \in 1..Len(trail) /\ move[i] = h[i+1]
               /\ move[i] \in Moves(n) /\ drawn[i] = u[move[i]].before
    <3>1. i \in 1..Len(trail)-1 /\ i + 1 \in 1..Len(trail)
      BY <2>5, <2>6
    <3>2. /\ h[i+1] \in 1..Len(u) /\ IsHit(u, h[i+1], "move", n)
          /\ trail[i] = u[h[i+1]].before
      BY <2>4, <2>5, <3>1, DrawnPoints
    <3> QED BY <2>7, <2>8, <2>9, <3>1, <3>2
  <2>11. ASSUME NEW i \in 1..len
         PROVE  {k \in Moves(n) : k > move[i]} = {move[j] : j \in i+1..len}
    <3>1. i + 1 \in 1..Len(trail) /\ len \in Nat /\ Len(trail) = len + 1
      BY <2>5, <2>6, <2>10
    <3>2. ASSUME NEW k \in Moves(n), k > move[i]
          PROVE  \E j \in i+1..len : k = move[j]
      <4>1. k \in 1..Len(u) /\ IsHit(u, k, "move", n) /\ h[i+1] \in 1..Len(u) /\ h[i+1] < k
        <5>1. k \in 1..Len(u) /\ IsHit(u, k, "move", n) /\ h[i+1] \in 1..Len(u)
          BY <2>8, <2>10
        <5> QED BY <2>10, <3>2, <5>1
      <4>2. PICK m \in i+1+1..Len(trail) : k = h[m]
        BY <2>4, <2>5, <3>1, <4>1, LaterMoves
      <4>3. m - 1 \in i+1..len /\ m - 1 \in 1..len /\ m - 1 + 1 = m
        BY <3>1, <4>2
      <4>4. move[m - 1] = k
        BY <2>9, <4>2, <4>3
      <4> QED BY <4>3, <4>4
    <3>3. ASSUME NEW j \in i+1..len
          PROVE  move[j] \in Moves(n) /\ move[j] > move[i]
      <4>1. j \in 1..len /\ i + 1 < j + 1
        BY <3>1
      <4>2. h[i+1] < h[j+1]
        BY <2>4, <2>10, <4>1 DEF Trailing
      <4>3. move[j] \in Moves(n) /\ move[j] = h[j+1] /\ move[i] = h[i+1]
        BY <2>10, <4>1
      <4>4. move[i] \in Int /\ move[j] \in Int
        BY <2>8, <2>10, <4>1
      <4> QED BY <4>2, <4>3, <4>4
    <3> QED BY <3>2, <3>3
  <2>12. move \in [DOMAIN drawn -> Moves(n)]
    BY <2>7, <2>9, <2>10
  <2>13. ASSUME NEW i \in DOMAIN drawn
         PROVE  /\ drawn[i] = undoEvents[move[i]].before
                /\ {k \in Moves(n) : k > move[i]} = {move[j] : j \in i+1..Len(drawn)}
    <3>1. i \in 1..len /\ len \in Nat
      BY <2>6, <2>7
    <3>2. Len(drawn) = len
      BY <2>7, <3>1
    <3> QED BY <2>3, <2>10, <2>11, <3>1, <3>2
  <2>14. \E m \in [DOMAIN drawn -> Moves(n)] :
            \A i \in DOMAIN drawn :
               /\ drawn[i] = undoEvents[m[i]].before
               /\ {k \in Moves(n) : k > m[i]} = {m[j] : j \in i+1..Len(drawn)}
    BY <2>12, <2>13
  <2> QED BY <2>14 DEF drawn
<1>2. ReplayInv => TrailShowsPath
  BY <1>1 DEF TrailShowsPath
<1> QED BY InitReplay, NextReplay, <1>2, PTL DEF Spec

---------------------------------------------------------------------------
(* The inductive invariant of LagIsOneFrame. *)

(* The events before the first one that names a node that the scenario     *)
(* does not have.                                                          *)
Reachable(s) == {i \in DOMAIN s : \A j \in 1..i : s[j].node \in Nodes}

EventsNear(s, t) ==
    \A i \in Reachable(s) : \/ s[i].time >= t
                            \/ \E step \in TimeSteps : s[i].time > t - step
AppliedNear(s, t) ==
    \A i \in DOMAIN s : \/ s[i].time <= t
                        \/ \E step \in TimeSteps : s[i].time < t - step
After(s, t) == \A i \in Reachable(s) : s[i].time > t
Before(s, t) == \A i \in DOMAIN s : s[i].time < t

(* Whoever has been through handleEvents has no event left that is due and *)
(* that it reaches,                                                        *)
(* whoever has been through handleUndoEvents none that is to be undone;    *)
(* the step that follows in the frame goes the same way as the handler.    *)
LagInv ==
    /\ pc \in {"idle", "handle"} => AppliedNear(Applied, simulationTime)
    /\ pc \in {"idle", "undo"} => (started => EventsNear(events, simulationTime))
    /\ pc = "handle" => (return = "advance" => timeStep > 0)
    /\ pc = "undo" => (return = "advance" => ~(timeStep > 0))
    /\ pc = "advance" =>
          IF timeStep > 0
          THEN AppliedNear(Applied, simulationTime) /\ After(events, simulationTime)
          ELSE /\ Before(Applied, simulationTime)
               /\ started => EventsNear(events, simulationTime)

LagIInv == IInv /\ LagInv

LEMMA EventsNearDown ==
    ASSUME NEW s \in Seq(SceneEvents), NEW t \in Int, NEW u \in Int, u <= t, EventsNear(s, t)
    PROVE  EventsNear(s, u)
<1> SUFFICES ASSUME NEW i \in Reachable(s)
             PROVE  s[i].time >= u \/ \E step \in TimeSteps : s[i].time > u - step
  BY DEF EventsNear
<1>1. PICK x : x = s[i].time
  OBVIOUS
<1>2. x \in Int
  BY <1>1, EventFacts DEF Reachable
<1>3. x >= t \/ \E step \in TimeSteps : x > t - step
  BY <1>1 DEF EventsNear
<1> QED BY <1>1, <1>2, <1>3, TimesAssumption

LEMMA AppliedNearUp ==
    ASSUME NEW s \in Seq(SceneEvents), NEW t \in Int, NEW u \in Int, t <= u, AppliedNear(s, t)
    PROVE  AppliedNear(s, u)
<1> SUFFICES ASSUME NEW i \in DOMAIN s
             PROVE  s[i].time <= u \/ \E step \in TimeSteps : s[i].time < u - step
  BY DEF AppliedNear
<1>1. PICK x : x = s[i].time
  OBVIOUS
<1>2. x \in Int
  BY <1>1, EventFacts
<1>3. x <= t \/ \E step \in TimeSteps : x < t - step
  BY <1>1 DEF AppliedNear
<1> QED BY <1>1, <1>2, <1>3, TimesAssumption

LEMMA AfterIsNear ==
    ASSUME NEW s \in Seq(SceneEvents), NEW t \in Int, After(s, t)
    PROVE  /\ EventsNear(s, t)
           /\ \A step \in TimeSteps, u \in Int : u <= t + step => EventsNear(s, u)
<1>1. ASSUME NEW i \in Reachable(s) PROVE s[i].time \in Int /\ s[i].time > t
  <2>1. s[i] \in SceneEvents
    BY DEF Reachable
  <2> QED BY <2>1, EventFacts DEF After
<1>2. ASSUME NEW step \in TimeSteps, NEW u \in Int, u <= t + step
      PROVE  EventsNear(s, u)
  <2>1. ASSUME NEW i \in Reachable(s) PROVE s[i].time > u - step
    BY <1>1, <1>2, TimesAssumption
  <2> QED BY <2>1 DEF EventsNear
<1>3. EventsNear(s, t)
  BY <1>1 DEF EventsNear
<1> QED BY <1>2, <1>3

LEMMA BeforeIsNear ==
    ASSUME NEW s \in Seq(SceneEvents), NEW t \in Int, Before(s, t)
    PROVE  /\ AppliedNear(s, t)
           /\ \A step \in TimeSteps, u \in Int : t + step <= u => AppliedNear(s, u)
<1>1. ASSUME NEW i \in DOMAIN s PROVE s[i].time \in Int /\ s[i].time < t
  <2>1. s[i] \in SceneEvents
    OBVIOUS
  <2> QED BY <2>1, EventFacts DEF Before
<1>2. ASSUME NEW step \in TimeSteps, NEW u \in Int, t + step <= u
      PROVE  AppliedNear(s, u)
  <2>1. ASSUME NEW i \in DOMAIN s PROVE s[i].time < u - step
    BY <1>1, <1>2, TimesAssumption
  <2> QED BY <2>1 DEF AppliedNear
<1>3. AppliedNear(s, t)
  BY <1>1 DEF AppliedNear
<1> QED BY <1>2, <1>3

(* The scenario is in the order of its times, and so are its two parts. *)
LEMMA InOrder ==
    ASSUME IInv
    PROVE  /\ events \in Seq(SceneEvents) /\ Applied \in Seq(SceneEvents)
           /\ \A i, j \in 1..Len(events) : i <= j => events[i].time <= events[j].time
           /\ \A i, j \in 1..Len(Applied) : i <= j => Applied[i].time <= Applied[j].time
<1>1. PICK a : a = Applied
  OBVIOUS
<1>2. PICK b : b = events
  OBVIOUS
<1>3. a \in Seq(SceneEvents) /\ b \in Seq(SceneEvents)
  BY <1>1, <1>2, AppliedFacts DEF IInv, TypeOK
<1>4. PICK s : s = a \o b
  OBVIOUS
<1>5. s = scenario
  BY <1>1, <1>2, <1>4 DEF IInv, TapeIsWhole
<1>6. /\ Len(a) \in Nat /\ Len(b) \in Nat /\ Len(s) = Len(a) + Len(b)
      /\ DOMAIN s = 1..Len(s)
      /\ \A i \in 1..Len(a) : s[i] = a[i]
      /\ \A i \in 1..Len(b) : s[i + Len(a)] = b[i]
  BY <1>3, <1>4
<1>7. \A i, j \in DOMAIN s : i <= j => s[i].time <= s[j].time
  <2>1. \A i \in DOMAIN s : s[i].time \in Nat
    <3>1. s \in Seq(SceneEvents)
      BY <1>3, <1>4
    <3> QED BY <3>1, EventFacts
  <2>2. CASE s = << >>
    BY <2>2
  <2>3. CASE s \in Scenarios
    <3>1. \A i, j \in DOMAIN s : i < j => s[i].time <= s[j].time
      BY <2>3, ScenariosAssumption
    <3>2. \A i, j \in DOMAIN s : i \in Int /\ j \in Int
      BY <1>6
    <3> QED BY <2>1, <3>1, <3>2
  <2> QED BY <1>5, <2>2, <2>3 DEF IInv, FileInv
<1>8. ASSUME NEW i \in 1..Len(a), NEW j \in 1..Len(a), i <= j
      PROVE  a[i].time <= a[j].time
  <2>1. i \in DOMAIN s /\ j \in DOMAIN s
    BY <1>6
  <2> QED BY <1>6, <1>7, <1>8, <2>1
<1>9. ASSUME NEW i \in 1..Len(b), NEW j \in 1..Len(b), i <= j
      PROVE  b[i].time <= b[j].time
  <2>1. i + Len(a) \in DOMAIN s /\ j + Len(a) \in DOMAIN s /\ i + Len(a) <= j + Len(a)
    BY <1>6, <1>9
  <2> QED BY <1>6, <1>7, <2>1
<1> QED BY <1>1, <1>2, <1>3, <1>8, <1>9

(* What is left when the handlers end. *)
LEMMA HandledAll ==
    ASSUME IInv, ~EventIsDue
    PROVE  After(events, simulationTime)
<1> SUFFICES ASSUME NEW i \in Reachable(events)
             PROVE  events[i].time > simulationTime
  BY DEF After
<1>1. events \in Seq(SceneEvents) /\ simulationTime \in Int
  BY DEF IInv, TypeOK
<1>2. events # << >> /\ i \in 1..Len(events) /\ 1 \in 1..Len(events) /\ 1 <= i
      /\ events[1].node \in Nodes
  BY <1>1 DEF Reachable
<1>3. Head(events) = events[1] /\ events[1] \in SceneEvents /\ events[i] \in SceneEvents
  BY <1>1, <1>2
<1>4. events[1].node \in DOMAIN nodes
  BY <1>2 DEF IInv, FileInv
<1>5. ~(events[1].time <= simulationTime)
  BY <1>2, <1>3, <1>4 DEF EventIsDue, IsNext
<1>6. events[1].time \in Nat /\ events[i].time \in Nat
  BY <1>3, EventFacts
<1>7. events[1].time <= events[i].time
  BY <1>2, InOrder
<1> QED BY <1>1, <1>5, <1>6, <1>7

LEMMA UndoneAll ==
    ASSUME IInv, ~UndoIsDue
    PROVE  Before(Applied, simulationTime)
<1> SUFFICES ASSUME NEW i \in DOMAIN Applied
             PROVE  Applied[i].time < simulationTime
  BY DEF Before
<1>1. /\ Applied \in Seq(SceneEvents) /\ Len(Applied) = Len(undoEvents)
      /\ Len(undoEvents) \in Nat
      /\ \A k \in 1..Len(undoEvents) : Applied[k] = undoEvents[k].event
      /\ simulationTime \in Int
  BY AppliedFacts DEF IInv, TypeOK
<1>2. PICK k : k = Len(undoEvents)
  OBVIOUS
<1>3. i \in 1..k /\ k \in 1..k /\ i <= k /\ k \in Nat \ {0}
  BY <1>1, <1>2
<1>4. undoEvents # << >>
  BY <1>2, <1>3
<1>5. Applied[k] = undoEvents[k].event /\ Applied[k] \in SceneEvents /\ Applied[i] \in SceneEvents
  BY <1>1, <1>2, <1>3
<1>6. Applied[k].node \in DOMAIN nodes
  BY <1>1, <1>2, <1>3, <1>5 DEF IInv, FileInv
<1>7. simulationTime > Applied[k].time
  BY <1>2, <1>4, <1>5, <1>6 DEF UndoIsDue, IsUndone, Seqs!Last
<1>8. Applied[k].time \in Nat /\ Applied[i].time \in Nat
  BY <1>5, EventFacts
<1>9. Applied[i].time <= Applied[k].time
  BY <1>1, <1>2, <1>3, InOrder
<1> QED BY <1>1, <1>7, <1>8, <1>9

LEMMA InitLag == Init => LagIInv
<1> SUFFICES ASSUME Init PROVE LagIInv
  OBVIOUS
<1>1. IInv
  BY InitTape
<1>2. Applied = << >> /\ events = << >> /\ pc = "idle"
  BY NoneApplied DEF Init, Applied, EventsOf
<1>3. DOMAIN << >> = {} /\ Reachable(<< >>) = {}
  BY DEF Reachable
<1> QED BY <1>1, <1>2, <1>3 DEF LagIInv, LagInv, AppliedNear, EventsNear

(* setTime, from where the playback is. *)
LEMMA SeekLag ==
    ASSUME IInv, NEW from \in Int, NEW to \in Int, Seek(from, to),
           UNCHANGED <<events, undoEvents, started>>,
           to > from => AppliedNear(Applied, to),
           ~(to > from) => (started => EventsNear(events, to))
    PROVE  LagInv'
<1>1. Applied' = Applied
  BY DEF Applied
<1> QED BY <1>1 DEF LagInv, Seek, Goto

LEMMA HandlersLag ==
    ASSUME LagIInv, HandleEvent \/ EventsHandled \/ HandleUndoEvent \/ EventsUndone
    PROVE  LagInv'
<1>1. CASE HandleEvent
  <2>1. PICK e \in SceneEvents : e.time <= simulationTime /\ Applied' = Append(Applied, e)
    BY <1>1, HandleEventFacts DEF LagIInv
  <2>2. pc = "handle" /\ UNCHANGED <<pc, return, timeStep, simulationTime>>
    BY <1>1 DEF HandleEvent, control, playback
  <2>3. AppliedNear(Applied, simulationTime)
    BY <2>2 DEF LagIInv, LagInv
  <2>4. AppliedNear(Applied', simulationTime)
    <3>1. PICK a : a = Applied /\ a \in Seq(SceneEvents)
      BY AppliedFacts DEF LagIInv
    <3>2. PICK b : b = Append(a, e)
      OBVIOUS
    <3>3. /\ DOMAIN a = 1..Len(a) /\ DOMAIN b = 1..Len(a)+1 /\ b[Len(a)+1] = e
          /\ \A i \in 1..Len(a) : b[i] = a[i]
          /\ Len(a) \in Nat
      BY <3>1, <3>2
    <3>4. ASSUME NEW i \in DOMAIN b
          PROVE  b[i].time <= simulationTime
                 \/ \E step \in TimeSteps : b[i].time < simulationTime - step
      <4>1. CASE i = Len(a) + 1
        BY <2>1, <3>3, <4>1
      <4>2. CASE i # Len(a) + 1
        <5>1. i \in DOMAIN a /\ b[i] = a[i]
          BY <3>3, <4>2
        <5> QED BY <2>3, <3>1, <5>1 DEF AppliedNear
      <4> QED BY <4>1, <4>2
    <3> QED BY <2>1, <3>1, <3>2, <3>4 DEF AppliedNear
  <2> QED BY <2>2, <2>4 DEF LagIInv, LagInv
<1>2. CASE HandleUndoEvent
  <2>1. PICK u : u.event \in SceneEvents /\ events' = <<u.event>> \o events
                 /\ ~(simulationTime > u.event.time)
    BY <1>2, HandleUndoEventFacts DEF LagIInv
  <2>2. pc = "undo" /\ UNCHANGED <<pc, return, timeStep, simulationTime, started>>
    BY <1>2 DEF HandleUndoEvent, control, playback
  <2>3. ASSUME started PROVE EventsNear(events', simulationTime)
    <3>1. EventsNear(events, simulationTime) /\ events \in Seq(SceneEvents)
      BY <2>2, <2>3 DEF LagIInv, LagInv, IInv, TypeOK
    <3>2. PICK b : b = <<u.event>> \o events
      OBVIOUS
    <3>3. /\ DOMAIN events = 1..Len(events) /\ DOMAIN b = 1..Len(events)+1
          /\ b[1] = u.event /\ Len(events) \in Nat
          /\ \A i \in 2..Len(events)+1 : b[i] = events[i-1]
      BY <2>1, <3>1, <3>2
    <3>4. ASSUME NEW i \in Reachable(b)
          PROVE  b[i].time >= simulationTime
                 \/ \E step \in TimeSteps : b[i].time > simulationTime - step
      <4>1. CASE i = 1
        <5>1. u.event.time \in Int /\ simulationTime \in Int
          BY <2>1, EventFacts DEF LagIInv, IInv, TypeOK
        <5> QED BY <2>1, <3>3, <4>1, <5>1
      <4>2. CASE i # 1
        <5>1. i \in 2..Len(events)+1 /\ \A j \in 1..i : b[j].node \in Nodes
          BY <3>3, <4>2 DEF Reachable
        <5>2. i - 1 \in DOMAIN events /\ b[i] = events[i-1]
          BY <3>3, <5>1
        <5>3. ASSUME NEW j \in 1..i-1 PROVE events[j].node \in Nodes
          <6>1. j + 1 \in 1..i /\ j + 1 \in 2..Len(events)+1 /\ j + 1 - 1 = j
            BY <3>3, <5>1
          <6>2. b[j + 1] = events[j]
            BY <3>3, <6>1
          <6> QED BY <5>1, <6>1, <6>2
        <5>4. i - 1 \in Reachable(events)
          BY <5>2, <5>3 DEF Reachable
        <5> QED BY <3>1, <5>2, <5>4 DEF EventsNear
      <4> QED BY <4>1, <4>2
    <3> QED BY <2>1, <3>2, <3>4 DEF EventsNear
  <2> QED BY <2>2, <2>3 DEF LagIInv, LagInv
<1>3. CASE EventsHandled
  <2>1. /\ pc = "handle" /\ ~EventIsDue /\ pc' = return /\ return' = "idle"
        /\ UNCHANGED <<events, undoEvents, timeStep, simulationTime>>
    BY <1>3 DEF EventsHandled, Goto, scene, playback
  <2>2. Applied' = Applied
    BY <2>1 DEF Applied
  <2>3. After(events, simulationTime)
    BY <2>1, HandledAll DEF LagIInv
  <2>4. EventsNear(events, simulationTime)
    BY <2>3, AfterIsNear DEF LagIInv, IInv, TypeOK
  <2> QED BY <2>1, <2>2, <2>3, <2>4 DEF LagIInv, LagInv, IInv, TypeOK
<1>4. CASE EventsUndone
  <2>1. /\ pc = "undo" /\ ~UndoIsDue /\ pc' = return /\ return' = "idle"
        /\ UNCHANGED <<events, undoEvents, timeStep, simulationTime, started>>
    BY <1>4 DEF EventsUndone, Goto, scene, playback
  <2>2. Applied' = Applied
    BY <2>1 DEF Applied
  <2>3. Before(Applied, simulationTime)
    BY <2>1, UndoneAll DEF LagIInv
  <2>4. AppliedNear(Applied, simulationTime)
    BY <2>3, BeforeIsNear, AppliedFacts DEF LagIInv, IInv, TypeOK
  <2> QED BY <2>1, <2>2, <2>3, <2>4 DEF LagIInv, LagInv, IInv, TypeOK
<1> QED BY <1>1, <1>2, <1>3, <1>4

LEMMA AdvanceLag == ASSUME LagIInv, Advance PROVE LagInv'
<1>1. PICK t \in Int : t = simulationTime
  BY DEF LagIInv, IInv, TypeOK
<1>2. /\ pc = "advance" /\ UNCHANGED <<events, undoEvents, started, timeStep>>
      /\ timeStep \in TimeSteps /\ timeStep \in Int
      /\ endTime \in Int
  BY TimesAssumption DEF LagIInv, IInv, TypeOK, Advance, scene
<1>3. Applied' = Applied /\ events \in Seq(SceneEvents) /\ Applied \in Seq(SceneEvents)
  BY <1>2, AppliedFacts DEF Applied, LagIInv, IInv, TypeOK
<1>4. PICK next \in Int : next = t + timeStep
  BY <1>2
<1>5. CASE timeStep > 0
  <2>1. AppliedNear(Applied, t) /\ After(events, t)
    BY <1>1, <1>2, <1>5 DEF LagIInv, LagInv
  <2>2. CASE next >= endTime
    <3>1. Seek(next, endTime)
      BY <1>1, <1>2, <1>4, <1>5, <2>2 DEF Advance
    <3>2. EventsNear(events, endTime)
      BY <1>2, <1>3, <1>4, <2>1, <2>2, AfterIsNear
    <3>3. ~(endTime > next)
      BY <1>2, <2>2
    <3> QED BY <1>2, <3>1, <3>2, <3>3, SeekLag DEF LagIInv
  <2>3. CASE ~(next >= endTime)
    <3>1. simulationTime' = next /\ pc' = "idle"
      BY <1>1, <1>2, <1>4, <1>5, <2>3 DEF Advance, Goto
    <3>2. EventsNear(events, next)
      BY <1>2, <1>3, <1>4, <2>1, AfterIsNear
    <3>3. AppliedNear(Applied, next)
      <4>1. t <= next
        BY <1>2, <1>4, <1>5
      <4> QED BY <1>3, <2>1, <4>1, AppliedNearUp
    <3> QED BY <1>2, <1>3, <3>1, <3>2, <3>3 DEF LagInv
  <2> QED BY <2>2, <2>3
<1>6. CASE ~(timeStep > 0)
  <2>1. Before(Applied, t) /\ (started => EventsNear(events, t))
    BY <1>1, <1>2, <1>6 DEF LagIInv, LagInv
  <2>2. CASE timeStep < 0 /\ next < 0
    <3>1. Seek(next, 0)
      BY <1>1, <1>2, <1>4, <1>6, <2>2 DEF Advance
    <3>2. AppliedNear(Applied, 0)
      <4>1. t + timeStep <= 0 /\ 0 \in Int
        BY <1>2, <1>4, <2>2
      <4> QED BY <1>2, <1>3, <2>1, <4>1, BeforeIsNear
    <3>3. 0 > next /\ 0 \in Int
      BY <2>2
    <3> QED BY <1>2, <3>1, <3>2, <3>3, SeekLag DEF LagIInv
  <2>3. CASE ~(timeStep < 0 /\ next < 0)
    <3>1. simulationTime' = next /\ pc' = "idle"
      BY <1>1, <1>2, <1>4, <1>6, <2>3 DEF Advance, Goto
    <3>2. AppliedNear(Applied, next)
      BY <1>2, <1>3, <1>4, <2>1, BeforeIsNear
    <3>3. started => EventsNear(events, next)
      <4>1. next <= t
        BY <1>2, <1>4, <1>6
      <4> QED BY <1>3, <2>1, <4>1, EventsNearDown
    <3> QED BY <1>2, <1>3, <3>1, <3>2, <3>3 DEF LagInv
  <2> QED BY <2>2, <2>3
<1> QED BY <1>5, <1>6

LEMMA UserCallLag ==
    ASSUME LagIInv, Paint \/ UserCall \/ UNCHANGED vars
    PROVE  LagInv'
<1>1. CASE Paint
  <2>1. /\ pc = "idle" /\ pc' = IF timeStep > 0 THEN "handle" ELSE "undo"
        /\ UNCHANGED <<events, undoEvents, simulationTime, timeStep, started>>
    BY <1>1 DEF Paint, Goto, scene, playback
  <2>2. Applied' = Applied
    BY <2>1 DEF Applied
  <2> QED BY <2>1, <2>2 DEF LagIInv, LagInv
<1>2. CASE Play \/ Pause \/ ErrorLoading \/ \E value \in TimeSteps : SetTimeStep(value)
  <2>1. /\ pc = "idle" /\ pc' = "idle"
        /\ UNCHANGED <<events, undoEvents, simulationTime, started>>
    BY <1>2 DEF Play, Pause, ErrorLoading, SetTimeStep, scene, control
  <2>2. Applied' = Applied
    BY <2>1 DEF Applied
  <2> QED BY <2>1, <2>2 DEF LagIInv, LagInv
<1>3. CASE Load \/ PreviewModel
  <2>1. pc' = "idle" /\ events' = << >> /\ undoEvents' = << >>
    BY <1>3 DEF Load, PreviewModel, Reset, control
  <2>2. Applied' = << >>
    BY <2>1, NoneApplied DEF Applied, EventsOf
  <2>3. DOMAIN << >> = {} /\ Reachable(<< >>) = {}
    BY DEF Reachable
  <2> QED BY <2>1, <2>2, <2>3 DEF LagInv, AppliedNear, EventsNear
<1>4. CASE \E value \in 0..endTime : SetTime(value)
  <2>1. PICK value \in 0..endTime : SetTime(value)
    BY <1>4
  <2>2. /\ pc = "idle" /\ Seek(simulationTime, value)
        /\ UNCHANGED <<events, undoEvents, started>>
    BY <2>1 DEF SetTime, scene
  <2>3. /\ value \in Int /\ simulationTime \in Int /\ events \in Seq(SceneEvents)
        /\ Applied \in Seq(SceneEvents)
    BY AppliedFacts DEF LagIInv, IInv, TypeOK
  <2>4. /\ AppliedNear(Applied, simulationTime)
        /\ started => EventsNear(events, simulationTime)
    BY <2>2 DEF LagIInv, LagInv
  <2>5. ASSUME value > simulationTime PROVE AppliedNear(Applied, value)
    <3>1. simulationTime <= value
      BY <2>3, <2>5
    <3> QED BY <2>3, <2>4, <3>1, AppliedNearUp
  <2>6. ASSUME ~(value > simulationTime), started PROVE EventsNear(events, value)
    <3>1. value <= simulationTime
      BY <2>3, <2>6
    <3> QED BY <2>3, <2>4, <2>6, <3>1, EventsNearDown
  <2> QED BY <2>2, <2>3, <2>5, <2>6, SeekLag DEF LagIInv
<1>5. CASE \E s \in Scenarios, end \in 0..MaxTime : FinishLoading(s, end)
  <2>1. PICK s \in Scenarios, end \in 0..MaxTime : FinishLoading(s, end)
    BY <1>5
  <2>2. events' = s /\ Applied' = << >>
    BY <2>1, FinishLoadingTape DEF LagIInv
  <2>3. /\ pc' = "idle" /\ simulationTime' = simulationTime
        /\ started' = (simulationTime = 0)
    BY <2>1 DEF FinishLoading, control
  <2>4. ASSUME started' PROVE EventsNear(s, simulationTime)
    <3>1. simulationTime = 0 /\ s \in Seq(SceneEvents)
      BY <2>3, <2>4, ScenariosAssumption
    <3>2. \A i \in DOMAIN s : s[i].time \in Nat
      BY <3>1, EventFacts
    <3> QED BY <3>1, <3>2 DEF EventsNear, Reachable
  <2>5. DOMAIN << >> = {}
    OBVIOUS
  <2> QED BY <2>2, <2>3, <2>4, <2>5 DEF LagInv, AppliedNear
<1>6. CASE UNCHANGED vars
  <2>1. UNCHANGED <<pc, return, events, undoEvents, simulationTime, timeStep, started>>
    BY <1>6 DEF vars, scene, control, playback
  <2>2. Applied' = Applied
    BY <2>1 DEF Applied
  <2> QED BY <2>1, <2>2 DEF LagIInv, LagInv
<1> QED BY <1>1, <1>2, <1>3, <1>4, <1>5, <1>6 DEF UserCall

LEMMA NextLag == LagIInv /\ [Next]_vars => LagIInv'
<1> SUFFICES ASSUME LagIInv, [Next]_vars PROVE LagIInv'
  OBVIOUS
<1>1. IInv'
  BY NextTape DEF LagIInv
<1>2. LagInv'
  BY HandlersLag, AdvanceLag, UserCallLag DEF Next, GuiThread
<1> QED BY <1>1, <1>2 DEF LagIInv

(* Between frames the scene lags behind the time shown by less than one    *)
(* time step, in either direction, whichever way the user has gone through *)
(* the scenario and however the time step was changed: paintGL, setTime    *)
(* and the corrections at both ends always run the handler of the          *)
(* direction they go.                                                      *)
THEOREM LagIsOneFrameHolds == Spec => []LagIsOneFrame
<1>1. ASSUME LagIInv PROVE LagIsOneFrame
  <2>1. Reached = Reachable(events)
    BY <1>1 DEF LagIInv, IInv, FileInv, Reached, Reachable
  <2> QED BY <1>1, <2>1 DEF LagIInv, LagInv, LagIsOneFrame, EventsNear, AppliedNear
<1> QED BY InitLag, NextLag, <1>1, PTL DEF Spec

---------------------------------------------------------------------------
(***************************************************************************)
(* TransmitParser: the scene events that JsonHandler makes of a file of    *)
(* any length, with any nodes and any durations, whatever the order in     *)
(* which the hash map yields the nodes.                                    *)
(***************************************************************************)

TransmitEvent == [kind : {"transmit"}, time : Nat, nodeId : Nat, what : Nat]
TransmitEndEvent ==
    [kind : {"transmitEnd"}, time : Nat, nodeId : Nat, what : TransmitEvent]
OtherEvent == [kind : {"other"}, time : Nat, nodeId : Nat, what : {None}]
SceneEvent == TransmitEvent \cup TransmitEndEvent \cup OtherEvent

---------------------------------------------------------------------------
(* The state of the handler: which transmissions it takes to go on.        *)

IsOpen(open) ==
    /\ DOMAIN open \subseteq Nat /\ IsFiniteSet(DOMAIN open)
    /\ \A n \in DOMAIN open :
          open[n] # None => open[n] \in TransmitEvent /\ open[n].nodeId = n

(* The events of s are in the order of their times, t at most. *)
Sorted(s, t) ==
    /\ \A i \in 1..Len(s) : s[i].time <= t
    /\ \A i, j \in 1..Len(s) : i < j => s[i].time <= s[j].time

About(e, n) == \/ e.kind = "transmit" /\ e.nodeId = n
               \/ e.kind = "transmitEnd" /\ e.what.nodeId = n

(* j is the last of the first m events of s that is about node n. *)
LastAbout(s, m, n, j) ==
    j \in 1..m /\ About(s[j], n) /\ \A k \in 1..m : About(s[k], n) => k <= j

EndsTheLast(s, i) ==
    \E j \in 1..i-1 : LastAbout(s, i - 1, s[i].what.nodeId, j) /\ s[j] = s[i].what

IsEnded(s, i) ==
    \E j \in 1..Len(s) : j > i /\ s[j].kind = "transmitEnd" /\ s[j].what = s[i]

(* A transmission that the handler takes to go on is the last that its     *)
(* node has begun and has not been ended; all others have been.            *)
TakeTurns(s, open) ==
    /\ \A n \in DOMAIN open :
          open[n] # None => \E j \in 1..Len(s) : LastAbout(s, Len(s), n, j) /\ s[j] = open[n]
    /\ \A i \in 1..Len(s) : s[i].kind = "transmitEnd" => EndsTheLast(s, i)
    /\ \A i \in 1..Len(s) : s[i].kind = "transmit" =>
          IsEnded(s, i) \/ (s[i].nodeId \in DOMAIN open /\ open[s[i].nodeId] = s[i])

ParserInv == /\ sceneEvents \in Seq(SceneEvent)
        /\ time \in Nat /\ fileEndTime \in Nat /\ time <= fileEndTime
        /\ IsOpen(transmittingNodes)
        /\ Sorted(sceneEvents, time)
        /\ TakeTurns(sceneEvents, transmittingNodes)

---------------------------------------------------------------------------

(* r is s followed by x. *)
Joined(s, x, r) ==
    /\ Len(s) \in Nat /\ Len(x) \in Nat /\ Len(r) = Len(s) + Len(x)
    /\ \A i \in 1..Len(s) : r[i] = s[i]
    /\ \A i \in 1..Len(x) : r[Len(s) + i] = x[i]
    /\ \A i \in 1..Len(r) : i \in 1..Len(s) \/ \E j \in 1..Len(x) : i = Len(s) + j

LEMMA Concatenated ==
    ASSUME NEW S, NEW s \in Seq(S), NEW x \in Seq(S)
    PROVE  s \o x \in Seq(S) /\ Joined(s, x, s \o x)
<1>1. PICK r \in Seq(S) : r = s \o x
  <2>1. s \o x \in Seq(S)
    OBVIOUS
  <2> QED BY <2>1
<1>2. Len(s) \in Nat /\ Len(x) \in Nat /\ Len(r) = Len(s) + Len(x)
  BY <1>1
<1>3. \A i \in 1..Len(s) : r[i] = s[i]
  BY <1>1
<1>4. ASSUME NEW i \in 1..Len(x) PROVE r[Len(s) + i] = x[i]
  BY <1>1, <1>2
<1>5. ASSUME NEW i \in 1..Len(r), i \notin 1..Len(s)
      PROVE  \E j \in 1..Len(x) : i = Len(s) + j
  <2>1. i - Len(s) \in 1..Len(x) /\ i = Len(s) + (i - Len(s))
    BY <1>2, <1>5
  <2> QED BY <2>1
<1>6. Joined(s, x, r)
  BY <1>2, <1>3, <1>4, <1>5 DEF Joined
<1> QED BY <1>1, <1>6

LEMMA SortedStays ==
    ASSUME NEW s \in Seq(SceneEvent), NEW t \in Nat, NEW u \in Nat, t <= u, Sorted(s, t),
           NEW x \in Seq(SceneEvent), \A i \in 1..Len(x) : x[i].time = u
    PROVE  Sorted(s \o x, u)
<1>1. PICK r \in Seq(SceneEvent) : r = s \o x /\ Joined(s, x, r)
  BY Concatenated
<1>2. \A i \in 1..Len(r) : r[i].time \in Nat
  BY DEF SceneEvent, TransmitEvent, TransmitEndEvent, OtherEvent
<1>3. \A i \in 1..Len(s) : r[i].time <= t
  BY <1>1 DEF Sorted, Joined
<1>4. ASSUME NEW i \in 1..Len(r), i \notin 1..Len(s) PROVE r[i].time = u
  BY <1>1, <1>4 DEF Joined
<1>5. ASSUME NEW i \in 1..Len(r) PROVE r[i].time <= u
  <2>1. i \in 1..Len(s) => r[i].time <= t
    BY <1>3
  <2> QED BY <1>2, <1>4, <2>1
<1>6. ASSUME NEW i \in 1..Len(r), NEW j \in 1..Len(r), i < j PROVE r[i].time <= r[j].time
  <2>1. CASE j \in 1..Len(s)
    <3>1. i \in 1..Len(s)
      BY <1>1, <1>6, <2>1 DEF Joined
    <3> QED BY <1>1, <1>6, <2>1, <3>1 DEF Sorted, Joined
  <2>2. CASE j \notin 1..Len(s)
    BY <1>4, <1>5, <2>2
  <2> QED BY <2>1, <2>2
<1> QED BY <1>1, <1>5, <1>6 DEF Sorted

---------------------------------------------------------------------------
(* What later events leave as it was. *)

LEMMA EndsTheLastStays ==
    ASSUME NEW s, NEW x, NEW r, Joined(s, x, r), NEW i \in 1..Len(s), EndsTheLast(s, i)
    PROVE  EndsTheLast(r, i)
<1>1. PICK j \in 1..i-1 : LastAbout(s, i - 1, s[i].what.nodeId, j) /\ s[j] = s[i].what
  BY DEF EndsTheLast
<1>2. \A k \in 1..i : k \in 1..Len(s) /\ r[k] = s[k]
  BY DEF Joined
<1>3. i \in 1..i /\ \A k \in 1..i-1 : k \in 1..i
  OBVIOUS
<1>4. LastAbout(r, i - 1, r[i].what.nodeId, j)
  BY <1>1, <1>2, <1>3 DEF LastAbout
<1> QED BY <1>1, <1>2, <1>3, <1>4 DEF EndsTheLast

LEMMA IsEndedStays ==
    ASSUME NEW s, NEW x, NEW r, Joined(s, x, r), NEW i \in 1..Len(s), IsEnded(s, i)
    PROVE  IsEnded(r, i)
<1>1. PICK j \in 1..Len(s) : j > i /\ s[j].kind = "transmitEnd" /\ s[j].what = s[i]
  BY DEF IsEnded
<1>2. j \in 1..Len(r) /\ r[j] = s[j] /\ r[i] = s[i]
  BY DEF Joined
<1> QED BY <1>1, <1>2 DEF IsEnded

LEMMA LastAboutStays ==
    ASSUME NEW s, NEW x, NEW r, Joined(s, x, r), NEW n, NEW j, LastAbout(s, Len(s), n, j),
           NEW m \in Nat, m <= Len(x), NEW q, q = Len(s) + m,
           \A k \in 1..m : ~About(x[k], n)
    PROVE  LastAbout(r, q, n, j)
<1>1. j \in 1..Len(s) /\ j \in 1..Len(s)+m /\ r[j] = s[j]
  BY DEF LastAbout, Joined
<1>2. ASSUME NEW k \in 1..Len(s)+m, About(r[k], n) PROVE k <= j
  <2>1. CASE k \in 1..Len(s)
    BY <1>2, <2>1 DEF LastAbout, Joined
  <2>2. CASE k \notin 1..Len(s)
    <3>1. k \in 1..Len(r) /\ Len(s) \in Nat
      BY DEF Joined
    <3>2. PICK l \in 1..Len(x) : k = Len(s) + l
      BY <2>2, <3>1 DEF Joined
    <3>3. l \in 1..m /\ r[k] = x[l]
      BY <3>1, <3>2 DEF Joined
    <3> QED BY <1>2, <3>3
  <2> QED BY <2>1, <2>2
<1>3. \A k \in 1..q : k \in 1..Len(s)+m
  OBVIOUS
<1> QED BY <1>1, <1>2, <1>3 DEF LastAbout, Joined

---------------------------------------------------------------------------
(* next is open without the transmissions of the nodes E, and x are their  *)
(* ends.                                                                   *)
EndsAll(s, open, E, x, next) ==
    /\ s \in Seq(SceneEvent) /\ IsOpen(open) /\ TakeTurns(s, open)
    /\ E \in Seq(DOMAIN open) /\ \A i, j \in 1..Len(E) : i # j => E[i] # E[j]
    /\ \A i \in 1..Len(E) : open[E[i]] # None
    /\ x \in Seq(SceneEvent) /\ Len(x) = Len(E)
    /\ \A i \in 1..Len(E) : x[i].kind = "transmitEnd" /\ x[i].what = open[E[i]]
    /\ DOMAIN next = DOMAIN open
    /\ \A n \in DOMAIN open :
          next[n] = IF \E i \in 1..Len(E) : E[i] = n THEN None ELSE open[n]

LEMMA EndsAdded ==
    ASSUME NEW s, NEW open, NEW E, NEW x, NEW next, EndsAll(s, open, E, x, next)
    PROVE  IsOpen(next) /\ TakeTurns(s \o x, next)
<1> USE DEF EndsAll
<1>1. PICK r \in Seq(SceneEvent) : r = s \o x /\ Joined(s, x, r)
  BY Concatenated
<1>2. ASSUME NEW i \in 1..Len(E)
      PROVE  /\ E[i] \in DOMAIN open /\ open[E[i]] \in TransmitEvent /\ open[E[i]].nodeId = E[i]
             /\ \A n : About(x[i], n) <=> n = E[i]
  <2>1. E[i] \in DOMAIN open
    OBVIOUS
  <2>2. open[E[i]] \in TransmitEvent /\ open[E[i]].nodeId = E[i]
    BY <2>1 DEF IsOpen
  <2>3. x[i].kind = "transmitEnd" /\ x[i].what = open[E[i]]
    OBVIOUS
  <2> QED BY <2>1, <2>2, <2>3 DEF About
<1>3. IsOpen(next)
  BY DEF IsOpen
<1>4. ASSUME NEW n \in DOMAIN next, next[n] # None
      PROVE  \E j \in 1..Len(r) : LastAbout(r, Len(r), n, j) /\ r[j] = next[n]
  <2>1. n \in DOMAIN open /\ open[n] # None /\ next[n] = open[n]
        /\ \A i \in 1..Len(E) : E[i] # n
    BY <1>4
  <2>2. PICK j \in 1..Len(s) : LastAbout(s, Len(s), n, j) /\ s[j] = open[n]
    BY <2>1 DEF TakeTurns
  <2>3. \A k \in 1..Len(x) : ~About(x[k], n)
    BY <1>2, <2>1
  <2>4. Len(x) \in Nat /\ Len(x) <= Len(x) /\ Len(r) = Len(s) + Len(x)
    BY <1>1 DEF Joined
  <2>5. PICK m, q : m \in Nat /\ m = Len(x) /\ q = Len(r)
    BY <2>4
  <2>6. LastAbout(r, q, n, j)
    BY <1>1, <2>2, <2>3, <2>4, <2>5, LastAboutStays, ZenonT(30)
  <2> QED BY <1>1, <2>1, <2>2, <2>5, <2>6 DEF Joined
<1>5. ASSUME NEW i \in 1..Len(r), r[i].kind = "transmitEnd" PROVE EndsTheLast(r, i)
  <2>1. CASE i \in 1..Len(s)
    <3>1. r[i] = s[i]
      BY <1>1, <2>1 DEF Joined
    <3>2. EndsTheLast(s, i)
      BY <1>5, <2>1, <3>1 DEF TakeTurns
    <3> QED BY <1>1, <2>1, <3>2, EndsTheLastStays
  <2>2. CASE i \notin 1..Len(s)
    <3>1. PICK l \in 1..Len(x) : i = Len(s) + l
      BY <1>1, <2>2 DEF Joined
    <3>2. PICK n : n = E[l]
      OBVIOUS
    <3>3. /\ n \in DOMAIN open /\ open[n] # None /\ open[n] \in TransmitEvent
          /\ open[n].nodeId = n
      BY <1>2, <3>2
    <3>4. PICK j \in 1..Len(s) : LastAbout(s, Len(s), n, j) /\ s[j] = open[n]
      BY <3>3 DEF TakeTurns
    <3>5. Len(s) \in Nat /\ Len(x) \in Nat
      BY <1>1 DEF Joined
    <3>6. \A k \in 1..l-1 : k \in 1..Len(E) /\ k # l
      BY <3>5
    <3>7. ASSUME NEW k \in 1..l-1 PROVE ~About(x[k], n)
      <4>1. k \in 1..Len(E) /\ E[k] # E[l]
        BY <3>6
      <4> QED BY <1>2, <3>2, <4>1
    <3>8. l - 1 \in Nat /\ l - 1 <= Len(x) /\ i - 1 = Len(s) + (l - 1)
      BY <3>1, <3>5
    <3>9. LastAbout(r, i - 1, n, j)
      <4>1. PICK m \in Nat : m = l - 1
        BY <3>8
      <4>2. PICK q : q = i - 1
        OBVIOUS
      <4>3. m <= Len(x) /\ q = Len(s) + m
        BY <3>8, <4>1, <4>2
      <4>4. \A k \in 1..m : ~About(x[k], n)
        BY <3>7, <4>1
      <4>5. LastAbout(r, q, n, j)
        BY <1>1, <3>4, <4>3, <4>4, LastAboutStays
      <4> QED BY <4>2, <4>5
    <3>10. /\ r[i] = x[l] /\ x[l].what = open[n] /\ r[j] = s[j]
      BY <1>1, <3>1, <3>2 DEF Joined
    <3>11. j \in 1..i-1
      BY <3>9 DEF LastAbout
    <3> QED BY <3>3, <3>4, <3>9, <3>10, <3>11 DEF EndsTheLast
  <2> QED BY <2>1, <2>2
<1>6. ASSUME NEW i \in 1..Len(r), r[i].kind = "transmit"
      PROVE  IsEnded(r, i) \/ (r[i].nodeId \in DOMAIN next /\ next[r[i].nodeId] = r[i])
  <2>1. i \in 1..Len(s)
    <3>1. ASSUME i \notin 1..Len(s) PROVE FALSE
      <4>1. PICK l \in 1..Len(x) : i = Len(s) + l
        BY <1>1, <3>1 DEF Joined
      <4>2. r[i] = x[l] /\ x[l].kind = "transmitEnd"
        BY <1>1, <4>1 DEF Joined
      <4> QED BY <1>6, <4>2
    <3> QED BY <3>1
  <2>2. r[i] = s[i]
    BY <1>1, <2>1 DEF Joined
  <2>3. CASE IsEnded(s, i)
    BY <1>1, <2>1, <2>3, IsEndedStays
  <2>4. CASE ~IsEnded(s, i)
    <3>1. PICK n \in DOMAIN open : n = s[i].nodeId /\ open[n] = s[i]
      BY <1>6, <2>1, <2>2, <2>4 DEF TakeTurns
    <3>2. CASE \E l \in 1..Len(E) : E[l] = n
      <4>1. PICK l \in 1..Len(E) : E[l] = n
        BY <3>2
      <4>2. x[l].kind = "transmitEnd" /\ x[l].what = s[i]
        BY <3>1, <4>1
      <4>3. Len(s) + l \in 1..Len(r) /\ Len(s) + l > i /\ r[Len(s) + l] = x[l]
        BY <1>1, <2>1, <4>1 DEF Joined
      <4> QED BY <2>2, <4>2, <4>3, SMTT(30) DEF IsEnded
    <3>3. CASE ~\E l \in 1..Len(E) : E[l] = n
      BY <2>2, <3>1, <3>3
    <3> QED BY <3>2, <3>3
  <2> QED BY <2>3, <2>4
<1> QED BY <1>1, <1>3, <1>4, <1>5, <1>6 DEF TakeTurns

LEMMA NoneIsNoEvent == \A e \in TransmitEvent : e # None
<1> SUFFICES ASSUME NEW e \in TransmitEvent, e = None PROVE FALSE
  OBVIOUS
<1>1. DOMAIN e = {"kind", "time", "nodeId", "what"}
  BY DEF TransmitEvent
<1>2. DOMAIN None = 1..0
  BY DEF None
<1>3. "kind" \in 1..0
  BY <1>1, <1>2
<1> QED BY <1>3

LEMMA TransmitKinds == \A e \in SceneEvent : e.kind = "transmit" => e \in TransmitEvent
<1> TAKE e \in SceneEvent
<1>1. e \in TransmitEndEvent => e.kind = "transmitEnd"
  BY DEF TransmitEndEvent
<1>2. e \in OtherEvent => e.kind = "other"
  BY DEF OtherEvent
<1> QED BY <1>1, <1>2 DEF SceneEvent

LEMMA OneEvent ==
    ASSUME NEW S, NEW e \in S
    PROVE  \E x \in Seq(S) : x = <<e>> /\ Len(x) = 1 /\ x[1] = e
<1>1. <<e>> \in Seq(S) /\ Len(<<e>>) = 1 /\ <<e>>[1] = e
  OBVIOUS
<1> QED BY <1>1

(* The transmission e begins at node n, which has none. *)
Begins(open, n, e, next) ==
    /\ n \in Nat /\ e \in TransmitEvent /\ e.nodeId = n
    /\ n \in DOMAIN open => open[n] = None
    /\ DOMAIN next = DOMAIN open \cup {n}
    /\ \A m \in DOMAIN next : next[m] = IF m = n THEN e ELSE open[m]

LEMMA StartAdded ==
    ASSUME NEW s \in Seq(SceneEvent), NEW open, IsOpen(open), TakeTurns(s, open),
           NEW n, NEW e, NEW next, Begins(open, n, e, next)
    PROVE  IsOpen(next) /\ TakeTurns(s \o <<e>>, next)
<1> USE DEF Begins
<1>1. PICK x \in Seq(SceneEvent) : x = <<e>> /\ Len(x) = 1 /\ x[1] = e
  <2>1. e \in SceneEvent
    BY DEF SceneEvent
  <2> QED BY <2>1, OneEvent
<1>2. PICK r \in Seq(SceneEvent) : r = s \o x /\ Joined(s, x, r)
  BY Concatenated
<1>3. /\ Len(s) \in Nat /\ Len(r) = Len(s) + 1 /\ r[Len(r)] = e
      /\ \A i \in 1..Len(s) : i \in 1..Len(r) /\ r[i] = s[i]
      /\ \A i \in 1..Len(r) : i \in 1..Len(s) \/ i = Len(r)
  BY <1>1, <1>2 DEF Joined
<1>4. e.kind = "transmit" /\ \A m : About(e, m) <=> m = n
  BY DEF TransmitEvent, About
<1>5. IsOpen(next)
  <2>1. IsFiniteSet(DOMAIN open \cup {n})
    BY FS_AddElement DEF IsOpen
  <2> QED BY <2>1 DEF IsOpen
<1>6. ASSUME NEW m \in DOMAIN next, next[m] # None
      PROVE  \E j \in 1..Len(r) : LastAbout(r, Len(r), m, j) /\ r[j] = next[m]
  <2>1. CASE m = n
    <3>1. Len(r) \in 1..Len(r) /\ About(r[Len(r)], n)
      BY <1>3, <1>4
    <3>2. LastAbout(r, Len(r), n, Len(r))
      BY <1>3, <3>1 DEF LastAbout
    <3> QED BY <1>3, <2>1, <3>1, <3>2
  <2>2. CASE m # n
    <3>1. PICK j \in 1..Len(s) : LastAbout(s, Len(s), m, j) /\ s[j] = open[m]
      BY <1>6, <2>2 DEF TakeTurns
    <3>2. \A k \in 1..1 : ~About(x[k], m)
      BY <1>1, <1>4, <2>2
    <3>3. PICK q : q = Len(r)
      OBVIOUS
    <3>4. 1 \in Nat /\ 1 <= Len(x) /\ q = Len(s) + 1
      BY <1>1, <1>3, <3>3
    <3>5. LastAbout(r, q, m, j)
      BY <1>2, <3>1, <3>2, <3>4, LastAboutStays
    <3> QED BY <1>3, <2>2, <3>1, <3>3, <3>5
  <2> QED BY <2>1, <2>2
<1>7. ASSUME NEW i \in 1..Len(r), r[i].kind = "transmitEnd" PROVE EndsTheLast(r, i)
  <2>1. i \in 1..Len(s) /\ r[i] = s[i]
    BY <1>3, <1>4, <1>7
  <2>2. EndsTheLast(s, i)
    BY <1>7, <2>1 DEF TakeTurns
  <2> QED BY <1>2, <2>1, <2>2, EndsTheLastStays
<1>8. ASSUME NEW i \in 1..Len(r), r[i].kind = "transmit"
      PROVE  IsEnded(r, i) \/ (r[i].nodeId \in DOMAIN next /\ next[r[i].nodeId] = r[i])
  <2>1. CASE i = Len(r)
    BY <1>3, <2>1
  <2>2. CASE i \in 1..Len(s) /\ IsEnded(s, i)
    BY <1>2, <2>2, IsEndedStays
  <2>3. CASE i \in 1..Len(s) /\ ~IsEnded(s, i)
    <3>1. r[i] = s[i] /\ s[i] \in SceneEvent
      BY <1>3, <2>3
    <3>2. s[i].nodeId \in DOMAIN open /\ open[s[i].nodeId] = s[i]
      BY <1>8, <2>3, <3>1 DEF TakeTurns
    <3>3. s[i] \in TransmitEvent
      BY <1>8, <3>1, TransmitKinds
    <3>4. s[i].nodeId # n
      BY <3>2, <3>3, NoneIsNoEvent
    <3> QED BY <3>1, <3>2, <3>4
  <2> QED BY <1>3, <2>1, <2>2, <2>3
<1> QED BY <1>1, <1>2, <1>5, <1>6, <1>7, <1>8, ZenonT(30) DEF TakeTurns

(* An event that is about no transmission. *)
LEMMA OtherAdded ==
    ASSUME NEW s \in Seq(SceneEvent), NEW open, TakeTurns(s, open),
           NEW e \in OtherEvent
    PROVE  TakeTurns(s \o <<e>>, open)
<1>1. PICK x \in Seq(SceneEvent) : x = <<e>> /\ Len(x) = 1 /\ x[1] = e
  <2>1. e \in SceneEvent
    BY DEF SceneEvent
  <2> QED BY <2>1, OneEvent
<1>2. PICK r \in Seq(SceneEvent) : r = s \o x /\ Joined(s, x, r)
  BY Concatenated
<1>3. /\ Len(s) \in Nat /\ Len(r) = Len(s) + 1 /\ r[Len(r)] = e
      /\ \A i \in 1..Len(s) : i \in 1..Len(r) /\ r[i] = s[i]
      /\ \A i \in 1..Len(r) : i \in 1..Len(s) \/ i = Len(r)
  BY <1>1, <1>2 DEF Joined
<1>4. e.kind = "other" /\ \A m : ~About(e, m)
  BY DEF OtherEvent, About
<1>5. ASSUME NEW m \in DOMAIN open, open[m] # None
      PROVE  \E j \in 1..Len(r) : LastAbout(r, Len(r), m, j) /\ r[j] = open[m]
  <2>1. PICK j \in 1..Len(s) : LastAbout(s, Len(s), m, j) /\ s[j] = open[m]
    BY <1>5 DEF TakeTurns
  <2>2. \A k \in 1..1 : ~About(x[k], m)
    BY <1>1, <1>4
  <2>3. PICK q : q = Len(r)
    OBVIOUS
  <2>4. 1 \in Nat /\ 1 <= Len(x) /\ q = Len(s) + 1
    BY <1>1, <1>3, <2>3
  <2>5. LastAbout(r, q, m, j)
    BY <1>2, <2>1, <2>2, <2>4, LastAboutStays
  <2> QED BY <1>3, <2>1, <2>3, <2>5
<1>6. ASSUME NEW i \in 1..Len(r), r[i].kind = "transmitEnd" PROVE EndsTheLast(r, i)
  <2>1. i \in 1..Len(s) /\ r[i] = s[i]
    BY <1>3, <1>4, <1>6
  <2>2. EndsTheLast(s, i)
    BY <1>6, <2>1 DEF TakeTurns
  <2> QED BY <1>2, <2>1, <2>2, EndsTheLastStays
<1>7. ASSUME NEW i \in 1..Len(r), r[i].kind = "transmit"
      PROVE  IsEnded(r, i) \/ (r[i].nodeId \in DOMAIN open /\ open[r[i].nodeId] = r[i])
  <2>1. i \in 1..Len(s) /\ r[i] = s[i]
    BY <1>3, <1>4, <1>7
  <2>2. CASE IsEnded(s, i)
    BY <1>2, <2>1, <2>2, IsEndedStays
  <2>3. CASE ~IsEnded(s, i)
    BY <1>7, <2>1, <2>3 DEF TakeTurns
  <2> QED BY <2>2, <2>3
<1> QED BY <1>1, <1>2, <1>5, <1>6, <1>7 DEF TakeTurns

---------------------------------------------------------------------------
(* processEndTransmits ends the transmissions of a prefix of the nodes.    *)
LEMMA EndingIsPrefix ==
    ASSUME NEW order, Len(order) \in Nat, NEW t
    PROVE  \E k \in 0..Len(order) :
              /\ Ending(order, t) = SubSeq(order, 1, k)
              /\ \A i \in 1..k : EndsAt(order[i], t)
<1> DEFINE less == {ss \in Nat \X Nat : ss[1] < ss[2]}
           N == Len(order)
           S == {k \in 0..N : \A i \in 1..k : EndsAt(order[i], t)}
           R == {N - k : k \in S}
<1>1. 0 \in S
  OBVIOUS
<1>2. R \subseteq Nat /\ R # {}
  BY <1>1
<1>3. IsWellFoundedOn(less, Nat)
  BY NatLessThanWellFounded DEF OpToRel
<1>4. PICK m \in R : \A n \in R : <<n, m>> \notin less
  <2> HIDE DEF less, R
  <2> QED BY <1>2, <1>3, WFMin
<1>5. PICK k \in S : m = N - k
  OBVIOUS
<1>6. ASSUME NEW l \in S PROVE k >= l
  <2>1. N - l \in R /\ N - l \in Nat /\ m \in Nat
    BY <1>2
  <2>2. ~(N - l < m)
    BY <1>4, <2>1
  <2> QED BY <1>5, <2>2
<1> HIDE DEF S
<1>7. SetExt!Max(S) \in S
  BY <1>6 DEF SetExt!Max
<1>8. Ending(order, t) = SubSeq(order, 1, SetExt!Max(S))
  BY DEF Ending, S
<1> QED BY <1>7, <1>8 DEF S

LEMMA EndingFacts ==
    ASSUME IsOpen(transmittingNodes), NEW t,
           NEW order \in SeqExt!SetToSeqs(DOMAIN transmittingNodes)
    PROVE  \E E \in Seq(DOMAIN transmittingNodes) :
              /\ E = Ending(order, t)
              /\ \A i, j \in 1..Len(E) : i # j => E[i] # E[j]
              /\ \A i \in 1..Len(E) : EndsAt(E[i], t)
<1> DEFINE D == DOMAIN transmittingNodes
           N == Cardinality(D)
<1>1. N \in Nat
  BY FS_CardinalityType DEF IsOpen
<1>2. order \in [1..N -> D] /\ \A i, j \in 1..N : i # j => order[i] # order[j]
  <2>1. SeqExt!Cardinality(D) = Cardinality(D)
    BY DEF SeqExt!Cardinality, Cardinality
  <2> QED BY <2>1 DEF SeqExt!SetToSeqs
<1> HIDE DEF D, N
<1>3. order \in Seq(D) /\ Len(order) = N
  BY <1>1, <1>2
<1>4. PICK k \in 0..N :
         /\ Ending(order, t) = SubSeq(order, 1, k)
         /\ \A i \in 1..k : EndsAt(order[i], t)
  BY <1>1, <1>3, EndingIsPrefix
<1>5. PICK E : E = SubSeq(order, 1, k)
  OBVIOUS
<1>6. /\ E \in Seq(D) /\ Len(E) = k
      /\ \A i \in 1..k : E[i] = order[i] /\ i \in 1..N
  BY <1>1, <1>3, <1>5
<1>7. \A i, j \in 1..Len(E) : i # j => E[i] # E[j]
  BY <1>2, <1>6
<1>8. \A i \in 1..Len(E) : EndsAt(E[i], t)
  BY <1>4, <1>6
<1> QED BY <1>4, <1>5, <1>6, <1>7, <1>8 DEF D

(* processEndTransmits as a whole. *)
Ended(s, open, t) == /\ s \in Seq(SceneEvent)
                     /\ IsOpen(open) /\ TakeTurns(s, open) /\ Sorted(s, t)

LEMMA ProcessEndTransmits ==
    ASSUME ParserInv, NEW t \in Nat, time <= t,
           NEW order \in SeqExt!SetToSeqs(DOMAIN transmittingNodes)
    PROVE  /\ Ended(sceneEvents \o EndEvents(Ending(order, t), t),
                    WithoutEnded(Ending(order, t)), t)
           /\ DOMAIN WithoutEnded(Ending(order, t)) = DOMAIN transmittingNodes
<1> DEFINE open == transmittingNodes
           D == DOMAIN transmittingNodes
<1>1. PICK E \in Seq(D) :
         /\ E = Ending(order, t)
         /\ \A i, j \in 1..Len(E) : i # j => E[i] # E[j]
         /\ \A i \in 1..Len(E) : EndsAt(E[i], t)
  BY EndingFacts DEF ParserInv
<1>2. PICK x : x = EndEvents(E, t)
  OBVIOUS
<1>3. PICK next : next = WithoutEnded(E)
  OBVIOUS
<1>4. Len(E) \in Nat /\ DOMAIN E = 1..Len(E)
  OBVIOUS
<1>5. x = [i \in 1..Len(E) |-> TransmitEnd(t, E[i], open[E[i]])]
  BY <1>2, <1>4 DEF EndEvents
<1>6. ASSUME NEW i \in 1..Len(E)
      PROVE  /\ open[E[i]] # None
             /\ x[i] \in SceneEvent /\ x[i].kind = "transmitEnd"
             /\ x[i].what = open[E[i]] /\ x[i].time = t
  <2>1. E[i] \in D /\ EndsAt(E[i], t)
    BY <1>1
  <2>2. open[E[i]] # None
    BY <2>1 DEF EndsAt
  <2>3. open[E[i]] \in TransmitEvent /\ E[i] \in Nat
    BY <2>1, <2>2 DEF ParserInv, IsOpen
  <2>4. x[i] = TransmitEnd(t, E[i], open[E[i]])
    BY <1>5
  <2>5. x[i] \in TransmitEndEvent
    BY <2>3, <2>4 DEF TransmitEnd, TransmitEndEvent
  <2> QED BY <2>2, <2>4, <2>5 DEF TransmitEnd, SceneEvent
<1>7. x \in Seq(SceneEvent) /\ Len(x) = Len(E)
  BY <1>4, <1>5, <1>6
<1>8. /\ DOMAIN next = D
      /\ \A n \in D : next[n] = IF \E i \in 1..Len(E) : E[i] = n THEN None ELSE open[n]
  BY <1>3, <1>4 DEF WithoutEnded, SeqExt!ToSet
<1>9. /\ sceneEvents \in Seq(SceneEvent) /\ time \in Nat
      /\ IsOpen(open) /\ Sorted(sceneEvents, time) /\ TakeTurns(sceneEvents, open)
  BY DEF ParserInv
<1>10. PICK s \in Seq(SceneEvent), now \in Nat : s = sceneEvents /\ now = time
  BY <1>9
<1>11. PICK op : op = open
  OBVIOUS
<1>12. IsOpen(next) /\ TakeTurns(s \o x, next)
  <2>1. IsOpen(op) /\ TakeTurns(s, op) /\ D = DOMAIN op /\ DOMAIN next = DOMAIN op
    BY <1>8, <1>9, <1>10, <1>11
  <2>2. PICK e \in Seq(DOMAIN op) : e = E
    BY <2>1
  <2>3. \A i, j \in 1..Len(e) : i # j => e[i] # e[j]
    BY <1>1, <2>2
  <2>4. \A i \in 1..Len(e) : op[e[i]] # None
    BY <1>6, <1>11, <2>2
  <2>5. \A i \in 1..Len(e) : x[i].kind = "transmitEnd" /\ x[i].what = op[e[i]]
    BY <1>6, <1>11, <2>2
  <2>6. \A n \in DOMAIN op :
           next[n] = IF \E i \in 1..Len(e) : e[i] = n THEN None ELSE op[n]
    BY <1>8, <1>11, <2>1, <2>2
  <2>7. Len(x) = Len(e)
    BY <1>7, <2>2
  <2>8. EndsAll(s, op, e, x, next)
    BY <1>7, <2>1, <2>3, <2>4, <2>5, <2>6, <2>7 DEF EndsAll
  <2> QED BY <2>8, EndsAdded
<1>13. Sorted(s \o x, t)
  BY <1>6, <1>7, <1>9, <1>10, <1>11, SortedStays
<1>14. s \o x \in Seq(SceneEvent)
  BY <1>7, Concatenated
<1> QED BY <1>1, <1>2, <1>3, <1>8, <1>10, <1>11, <1>12, <1>13, <1>14 DEF Ended

(* mid is open when the transmission of node n has been cut short. *)
WithoutNode(open, n, mid) ==
    /\ DOMAIN mid = DOMAIN open
    /\ n \in DOMAIN mid => mid[n] = None
    /\ \A m \in DOMAIN open : m # n => mid[m] = open[m]

LEMMA CutShortEnds ==
    ASSUME NEW s, NEW open, NEW t \in Nat, Ended(s, open, t), NEW n \in Nat
    PROVE  \E mid : WithoutNode(open, n, mid) /\ Ended(s \o CutShort(open, n, t), mid, t)
<1>1. CASE n \in DOMAIN open /\ open[n] # None
  <2>1. PICK mid : mid = [m \in DOMAIN open |-> IF m = n THEN None ELSE open[m]]
    OBVIOUS
  <2>2. PICK e : e = TransmitEnd(t, DefaultNodeId, open[n])
    OBVIOUS
  <2>3. e \in SceneEvent /\ e.kind = "transmitEnd" /\ e.what = open[n] /\ e.time = t
    <3>1. open[n] \in TransmitEvent /\ DefaultNodeId \in Nat
      BY <1>1 DEF Ended, IsOpen, DefaultNodeId
    <3>2. e \in TransmitEndEvent
      BY <2>2, <3>1 DEF TransmitEnd, TransmitEndEvent
    <3> QED BY <2>2, <3>2 DEF TransmitEnd, SceneEvent
  <2>4. PICK x \in Seq(SceneEvent) : x = <<e>> /\ Len(x) = 1 /\ x[1] = e
    BY <2>3, OneEvent
  <2>5. PICK E \in Seq(DOMAIN open) : E = <<n>> /\ Len(E) = 1 /\ E[1] = n
    BY <1>1, OneEvent
  <2>6. EndsAll(s, open, E, x, mid)
    BY <1>1, <2>1, <2>3, <2>4, <2>5 DEF EndsAll, Ended
  <2>7. IsOpen(mid) /\ TakeTurns(s \o x, mid)
    BY <2>6, EndsAdded
  <2>8. PICK q \in Seq(SceneEvent) : q = s
    BY DEF Ended
  <2>9. Sorted(q \o x, t)
    <3>1. Sorted(q, t) /\ t <= t /\ \A i \in 1..Len(x) : x[i].time = t
      BY <2>3, <2>4, <2>8 DEF Ended
    <3> QED BY <2>4, <2>8, <3>1, SortedStays
  <2>10. q \o x \in Seq(SceneEvent)
    BY <2>4, <2>8, Concatenated
  <2>11. CutShort(open, n, t) = x
    BY <1>1, <2>2, <2>4 DEF CutShort
  <2>12. WithoutNode(open, n, mid)
    BY <2>1 DEF WithoutNode
  <2> QED BY <2>7, <2>8, <2>9, <2>10, <2>11, <2>12 DEF Ended
<1>2. CASE ~(n \in DOMAIN open /\ open[n] # None)
  <2>1. CutShort(open, n, t) = << >>
    BY <1>2 DEF CutShort
  <2>2. s \o << >> = s
    BY DEF Ended
  <2>3. WithoutNode(open, n, open)
    BY <1>2 DEF WithoutNode
  <2> QED BY <2>1, <2>2, <2>3
<1> QED BY <1>1, <1>2

LEMMA ParserInitHolds == ParserInit => ParserInv
<1> SUFFICES ASSUME ParserInit PROVE ParserInv
  OBVIOUS
<1>1. /\ sceneEvents = << >> /\ transmittingNodes = << >> /\ time = 0
      /\ fileEndTime \in Nat /\ time \in Nat /\ time <= fileEndTime
  BY InputAssumption DEF ParserInit
<1>2. sceneEvents \in Seq(SceneEvent) /\ 1..Len(sceneEvents) = {}
  BY <1>1
<1>3. DOMAIN transmittingNodes = {}
  BY <1>1
<1>4. IsOpen(transmittingNodes)
  BY <1>3, FS_EmptySet DEF IsOpen
<1>5. Sorted(sceneEvents, time)
  BY <1>2 DEF Sorted
<1>6. TakeTurns(sceneEvents, transmittingNodes)
  BY <1>2, <1>3 DEF TakeTurns
<1> QED BY <1>1, <1>2, <1>4, <1>5, <1>6 DEF ParserInv

(* What Read does to the times. *)
LEMMA ReadKeeps ==
    ASSUME ParserInv, NEW t \in 0..FileTime, Read(t)
    PROVE  /\ t \in Nat /\ time <= t /\ time' = t
           /\ fileEndTime' \in Nat /\ time' <= fileEndTime'
  BY InputAssumption DEF ParserInv, Read, UpdateEndTime

LEMMA ParseSceneEventKeeps == ParserInv /\ ParseSceneEvent => ParserInv'
<1> SUFFICES ASSUME ParserInv, ParseSceneEvent PROVE ParserInv'
  OBVIOUS
<1>1. PICK t \in 0..FileTime, order \in SeqExt!SetToSeqs(DOMAIN transmittingNodes) :
        /\ Read(t)
        /\ sceneEvents' = sceneEvents \o EndEvents(Ending(order, t), t) \o <<Other(t)>>
        /\ transmittingNodes' = WithoutEnded(Ending(order, t))
  BY DEF ParseSceneEvent
<1>2. t \in Nat /\ time <= t /\ time' = t /\ fileEndTime' \in Nat /\ time' <= fileEndTime'
  BY <1>1, ReadKeeps
<1>3. PICK s, open : /\ s = sceneEvents \o EndEvents(Ending(order, t), t)
                     /\ open = WithoutEnded(Ending(order, t))
  OBVIOUS
<1>4. Ended(s, open, t)
  BY <1>2, <1>3, ProcessEndTransmits
<1>5. PICK q \in Seq(SceneEvent) : q = s
  BY <1>4 DEF Ended
<1>6. PICK e \in OtherEvent : e = Other(t)
  BY <1>2 DEF Other, OtherEvent, DefaultNodeId
<1>7. TakeTurns(q \o <<e>>, open)
  BY <1>4, <1>5, OtherAdded DEF Ended
<1>8. PICK x \in Seq(SceneEvent) : x = <<e>> /\ Len(x) = 1 /\ x[1] = e
  <2>1. e \in SceneEvent
    BY DEF SceneEvent
  <2> QED BY <2>1, OneEvent
<1>9. Sorted(q \o x, t)
  <2>1. Sorted(q, t) /\ t <= t /\ \A i \in 1..Len(x) : x[i].time = t
    BY <1>2, <1>4, <1>5, <1>6, <1>8 DEF Ended, Other
  <2> QED BY <1>2, <1>8, <2>1, SortedStays
<1>10. q \o x \in Seq(SceneEvent)
  BY <1>8, Concatenated
<1>11. sceneEvents' = q \o x /\ transmittingNodes' = open
  BY <1>1, <1>3, <1>5, <1>6, <1>8
<1> QED BY <1>2, <1>4, <1>7, <1>8, <1>9, <1>10, <1>11 DEF ParserInv, Ended

LEMMA ParseTransmitEventKeeps == ParserInv /\ ParseTransmitEvent => ParserInv'
<1> SUFFICES ASSUME ParserInv, ParseTransmitEvent PROVE ParserInv'
  OBVIOUS
<1>1. PICK n \in NodeIds, t \in 0..FileTime, duration \in Durations,
           order \in SeqExt!SetToSeqs(DOMAIN transmittingNodes) :
        LET event == Transmit(t, n, duration)
            ending == Ending(order, t)
            open == WithoutEnded(ending)
        IN  /\ Read(t)
            /\ sceneEvents' = sceneEvents \o EndEvents(ending, t)
                                 \o CutShort(open, n, t) \o <<event>>
            /\ transmittingNodes' =
                  [m \in DOMAIN open \cup {n} |-> IF m = n THEN event ELSE open[m]]
  BY DEF ParseTransmitEvent
<1>2. t \in Nat /\ time <= t /\ time' = t /\ fileEndTime' \in Nat /\ time' <= fileEndTime'
  BY <1>1, ReadKeeps
<1>3. PICK s, open : /\ s = sceneEvents \o EndEvents(Ending(order, t), t)
                     /\ open = WithoutEnded(Ending(order, t))
  OBVIOUS
<1>4. Ended(s, open, t)
  BY <1>2, <1>3, ProcessEndTransmits
<1>5. n \in Nat
  BY InputAssumption
<1>6. PICK mid : WithoutNode(open, n, mid) /\ Ended(s \o CutShort(open, n, t), mid, t)
  BY <1>2, <1>4, <1>5, CutShortEnds
<1>7. PICK q \in Seq(SceneEvent) : q = s \o CutShort(open, n, t)
  BY <1>6 DEF Ended
<1>8. PICK e \in TransmitEvent : e = Transmit(t, n, duration) /\ e.nodeId = n /\ e.time = t
  <2>1. duration \in Nat
    BY InputAssumption
  <2>2. PICK e : e = Transmit(t, n, duration)
    OBVIOUS
  <2>3. e \in TransmitEvent /\ e.nodeId = n /\ e.time = t
    BY <1>2, <1>5, <2>1, <2>2 DEF Transmit, TransmitEvent
  <2> QED BY <2>2, <2>3
<1>9. PICK next : next = [m \in DOMAIN open \cup {n} |-> IF m = n THEN e ELSE open[m]]
  OBVIOUS
<1>10. sceneEvents' = q \o <<e>> /\ transmittingNodes' = next
  BY <1>1, <1>3, <1>7, <1>8, <1>9
<1>11. IsOpen(next) /\ TakeTurns(q \o <<e>>, next)
  <2>1. DOMAIN next = DOMAIN mid \cup {n}
    BY <1>6, <1>9 DEF WithoutNode
  <2>2. \A m \in DOMAIN next : next[m] = IF m = n THEN e ELSE mid[m]
    BY <1>6, <1>9 DEF WithoutNode
  <2>3. n \in DOMAIN mid => mid[n] = None
    BY <1>6 DEF WithoutNode
  <2>4. IsOpen(mid) /\ TakeTurns(q, mid)
    BY <1>6, <1>7 DEF Ended
  <2>5. Begins(mid, n, e, next)
    BY <1>5, <1>8, <2>1, <2>2, <2>3 DEF Begins
  <2> QED BY <2>4, <2>5, StartAdded
<1>12. PICK x \in Seq(SceneEvent) : x = <<e>> /\ Len(x) = 1 /\ x[1] = e
  <2>1. e \in SceneEvent
    BY DEF SceneEvent
  <2> QED BY <2>1, OneEvent
<1>13. Sorted(q \o x, t)
  <2>1. Sorted(q, t) /\ t <= t /\ \A i \in 1..Len(x) : x[i].time = t
    BY <1>2, <1>6, <1>7, <1>8, <1>12 DEF Ended
  <2> QED BY <1>2, <1>12, <2>1, SortedStays
<1>14. q \o x \in Seq(SceneEvent)
  BY <1>12, Concatenated
<1> QED BY <1>2, <1>10, <1>11, <1>12, <1>13, <1>14 DEF ParserInv

LEMMA ParseOtherEventKeeps == ParserInv /\ ParseOtherEvent => ParserInv'
<1> SUFFICES ASSUME ParserInv, ParseOtherEvent PROVE ParserInv'
  OBVIOUS
<1>1. PICK t \in 0..FileTime : Read(t) /\ UNCHANGED <<sceneEvents, transmittingNodes>>
  BY DEF ParseOtherEvent
<1>2. t \in Nat /\ time <= t /\ time' = t /\ fileEndTime' \in Nat /\ time' <= fileEndTime'
  BY <1>1, ReadKeeps
<1>3. Sorted(sceneEvents, t)
  <2>1. PICK s \in Seq(SceneEvent), now \in Nat : s = sceneEvents /\ now = time
    BY DEF ParserInv
  <2>2. \A i \in 1..Len(s) : s[i].time \in Nat
    BY DEF SceneEvent, TransmitEvent, TransmitEndEvent, OtherEvent
  <2>3. Sorted(s, now) /\ now <= t
    BY <1>2, <2>1 DEF ParserInv
  <2>4. Sorted(s, t)
    BY <1>2, <2>1, <2>2, <2>3 DEF Sorted
  <2> QED BY <2>1, <2>4
<1> QED BY <1>1, <1>2, <1>3 DEF ParserInv

LEMMA ParserInvariant == ParserSpec => []ParserInv
<1>1. ParserInv /\ [ParserNext]_parserVars => ParserInv'
  <2>1. ParserInv /\ UNCHANGED parserVars => ParserInv'
    BY DEF ParserInv, parserVars
  <2> QED BY <2>1, ParseSceneEventKeeps, ParseTransmitEventKeeps, ParseOtherEventKeeps
           DEF ParserNext
<1> QED BY <1>1, ParserInitHolds, PTL DEF ParserSpec

---------------------------------------------------------------------------

(* In a file of any length the ends that JsonHandler adds do not break the *)
(* order of the times, and no scene event is after globalConfiguration's   *)
(* endTime.                                                                *)
THEOREM EventsInOrderHolds == ParserSpec => []EventsInOrder
<1>1. ParserInv => EventsInOrder
  <2> SUFFICES ASSUME ParserInv PROVE EventsInOrder
    OBVIOUS
  <2>1. PICK s \in Seq(SceneEvent), now \in Nat, end \in Nat :
           s = sceneEvents /\ now = time /\ end = fileEndTime /\ now <= end
    BY DEF ParserInv
  <2>2. DOMAIN s = 1..Len(s) /\ \A i \in 1..Len(s) : s[i].time \in Nat
    BY DEF SceneEvent, TransmitEvent, TransmitEndEvent, OtherEvent
  <2>3. Sorted(s, now)
    BY <2>1 DEF ParserInv
  <2>4. \A i \in DOMAIN s : s[i].time <= end
    BY <2>1, <2>2, <2>3 DEF Sorted
  <2> QED BY <2>1, <2>2, <2>3, <2>4 DEF EventsInOrder, Sorted
<1> QED BY <1>1, ParserInvariant, PTL

(* Every end that JsonHandler adds ends the last transmission of its node, *)
(* which nothing has ended before, and every transmission is ended or is   *)
(* the one in transmittingNodes, for any number of nodes, for              *)
(* transmissions that are cut short, and whatever order the hash map       *)
(* yields them in.                                                         *)
THEOREM EndsTakeTurnsHolds == ParserSpec => []EndsTakeTurns
<1>1. ParserInv => EndsTakeTurns
  <2> SUFFICES ASSUME ParserInv PROVE EndsTakeTurns
    OBVIOUS
  <2>1. PICK s, open : /\ s \in Seq(SceneEvent)
                       /\ s = sceneEvents /\ open = transmittingNodes
    BY DEF ParserInv
  <2>2. TakeTurns(s, open) /\ DOMAIN s = 1..Len(s)
    BY <2>1 DEF ParserInv
  <2>3. /\ Ends = {i \in 1..Len(s) : s[i].kind = "transmitEnd"}
        /\ Starts = {i \in 1..Len(s) : s[i].kind = "transmit"}
    BY <2>1, <2>2 DEF Ends, Starts
  <2>4. ASSUME NEW i \in Ends
        PROVE  LET n == sceneEvents[i].what.nodeId
                   before == {j \in 1..i-1 :
                                 \/ j \in Starts /\ sceneEvents[j].nodeId = n
                                 \/ j \in Ends /\ sceneEvents[j].what.nodeId = n}
               IN  /\ before # {}
                   /\ \E j \in before :
                         /\ \A k \in before : k <= j
                         /\ sceneEvents[j] = sceneEvents[i].what
    <3>1. PICK n : n = s[i].what.nodeId
      OBVIOUS
    <3>2. PICK before : before = {j \in 1..i-1 : \/ j \in Starts /\ s[j].nodeId = n
                                                 \/ j \in Ends /\ s[j].what.nodeId = n}
      OBVIOUS
    <3>3. i \in 1..Len(s) /\ \A j \in 1..i-1 : j \in 1..Len(s)
      BY <2>3
    <3>4. \A j \in 1..i-1 : j \in before <=> About(s[j], n)
      BY <2>3, <3>2, <3>3 DEF About
    <3>5. PICK j \in 1..i-1 : LastAbout(s, i - 1, n, j) /\ s[j] = s[i].what
      BY <2>2, <2>3, <3>1 DEF TakeTurns, EndsTheLast
    <3>6. j \in before /\ \A k \in before : k <= j
      BY <3>2, <3>4, <3>5 DEF LastAbout
    <3> QED BY <2>1, <3>1, <3>2, <3>5, <3>6
  <2>5. ASSUME NEW i \in Starts
        PROVE  \/ \E j \in Ends : j > i /\ sceneEvents[j].what = sceneEvents[i]
               \/ transmittingNodes[sceneEvents[i].nodeId] = sceneEvents[i]
    BY <2>1, <2>2, <2>3 DEF TakeTurns, IsEnded
  <2> QED BY <2>4, <2>5 DEF EndsTakeTurns
<1> QED BY <1>1, ParserInvariant, PTL
=============================================================================
