------------------------ MODULE TrafficControlProofs ------------------------
(***************************************************************************)
(* Proofs about TrafficControl: the types, that a device whose queue       *)
(* counts packets never has to discard one, and that no packet is lost,    *)
(* doubled or overtaken.                                                   *)
(***************************************************************************)
EXTENDS TrafficControl, FiniteSetTheorems, TLAPS

---------------------------------------------------------------------------
(* Sequences of packets and of their ids. *)

Ids(s) == {s[i].id : i \in 1..Len(s)}
Elements(s) == {s[i] : i \in 1..Len(s)}
Rises(s) == \A i, j \in 1..Len(s) : i < j => s[i].id < s[j].id
Precede(S, T) == \A p \in S, q \in T : p < q

LEMMA AppendIds ==
    ASSUME NEW s \in Seq(Packet), NEW p \in Packet
    PROVE  /\ Append(s, p) \in Seq(Packet) /\ Len(Append(s, p)) = Len(s) + 1
           /\ Len(s) \in Nat
           /\ Ids(Append(s, p)) = Ids(s) \cup {p.id}
           /\ Rises(s) /\ Precede(Ids(s), {p.id}) => Rises(Append(s, p))
<1>1. PICK v : v = Append(s, p)
  OBVIOUS
<1>2. /\ v \in Seq(Packet) /\ Len(v) = Len(s) + 1 /\ Len(s) \in Nat
      /\ v[Len(s) + 1] = p /\ \A i \in 1..Len(s) : v[i] = s[i]
  BY <1>1
<1>3. Ids(v) = Ids(s) \cup {p.id}
  <2>1. ASSUME NEW i \in 1..Len(v) PROVE v[i].id \in Ids(s) \cup {p.id}
    BY <1>2 DEF Ids
  <2>2. p.id \in Ids(v)
    <3>1. Len(s) + 1 \in 1..Len(v)
      BY <1>2
    <3> QED BY <1>2, <3>1 DEF Ids
  <2>3. ASSUME NEW i \in 1..Len(s) PROVE s[i].id \in Ids(v)
    <3>1. i \in 1..Len(v) /\ v[i] = s[i]
      BY <1>2
    <3> QED BY <3>1 DEF Ids
  <2> QED BY <2>1, <2>2, <2>3 DEF Ids
<1>4. ASSUME Rises(s), Precede(Ids(s), {p.id}) PROVE Rises(v)
  <2>1. ASSUME NEW i \in 1..Len(v), NEW j \in 1..Len(v), i < j
        PROVE  v[i].id < v[j].id
    <3>1. i \in 1..Len(s) /\ v[i] = s[i]
      BY <1>2, <2>1
    <3>2. CASE j = Len(s) + 1
      <4>1. s[i].id \in Ids(s)
        BY <3>1 DEF Ids
      <4> QED BY <1>2, <1>4, <3>1, <3>2, <4>1 DEF Precede
    <3>3. CASE j # Len(s) + 1
      <4>1. j \in 1..Len(s) /\ v[j] = s[j]
        BY <1>2, <3>3
      <4> QED BY <1>4, <2>1, <3>1, <4>1 DEF Rises
    <3> QED BY <3>2, <3>3
  <2> QED BY <2>1 DEF Rises
<1> QED BY <1>1, <1>2, <1>3, <1>4

LEMMA TailIds ==
    ASSUME NEW s \in Seq(Packet), s # << >>
    PROVE  /\ Tail(s) \in Seq(Packet) /\ Head(s) \in Packet
           /\ Len(s) \in Nat \ {0} /\ Len(Tail(s)) = Len(s) - 1
           /\ Ids(s) = Ids(Tail(s)) \cup {Head(s).id}
           /\ Rises(s) => Rises(Tail(s)) /\ Precede({Head(s).id}, Ids(Tail(s)))
<1>1. PICK v : v = Tail(s)
  OBVIOUS
<1>2. /\ v \in Seq(Packet) /\ Len(v) = Len(s) - 1 /\ Len(s) \in Nat \ {0}
      /\ Head(s) = s[1] /\ Head(s) \in Packet
      /\ \A i \in 1..Len(s)-1 : v[i] = s[i+1]
  BY <1>1
<1>3. Ids(s) = Ids(v) \cup {Head(s).id}
  <2>1. ASSUME NEW i \in 1..Len(s) PROVE s[i].id \in Ids(v) \cup {Head(s).id}
    <3>1. CASE i = 1
      BY <1>2, <3>1
    <3>2. CASE i # 1
      <4>1. i - 1 \in 1..Len(v) /\ v[i-1] = s[i]
        BY <1>2, <3>2
      <4> QED BY <4>1 DEF Ids
    <3> QED BY <3>1, <3>2
  <2>2. Head(s).id \in Ids(s)
    <3>1. 1 \in 1..Len(s)
      BY <1>2
    <3> QED BY <1>2, <3>1 DEF Ids
  <2>3. ASSUME NEW i \in 1..Len(v) PROVE v[i].id \in Ids(s)
    <3>1. i + 1 \in 1..Len(s) /\ v[i] = s[i+1]
      BY <1>2
    <3> QED BY <3>1 DEF Ids
  <2> QED BY <2>1, <2>2, <2>3 DEF Ids
<1>4. ASSUME Rises(s) PROVE Rises(v) /\ Precede({Head(s).id}, Ids(v))
  <2>1. ASSUME NEW i \in 1..Len(v), NEW j \in 1..Len(v), i < j
        PROVE  v[i].id < v[j].id
    <3>1. /\ i + 1 \in 1..Len(s) /\ j + 1 \in 1..Len(s) /\ i + 1 < j + 1
          /\ v[i] = s[i+1] /\ v[j] = s[j+1]
      BY <1>2, <2>1
    <3> QED BY <1>4, <3>1 DEF Rises
  <2>2. ASSUME NEW i \in 1..Len(v) PROVE Head(s).id < v[i].id
    <3>1. 1 \in 1..Len(s) /\ i + 1 \in 1..Len(s) /\ 1 < i + 1 /\ v[i] = s[i+1]
      BY <1>2
    <3> QED BY <1>2, <1>4, <3>1 DEF Rises
  <2> QED BY <2>1, <2>2 DEF Rises, Precede, Ids
<1> QED BY <1>1, <1>2, <1>3, <1>4

LEMMA NoIds == Ids(<< >>) = {} /\ Rises(<< >>) /\ << >> \in Seq(Packet)
<1>1. Len(<< >>) = 0 /\ 1..0 = {}
  OBVIOUS
<1> QED BY <1>1 DEF Ids, Rises

LEMMA AppendElements ==
    ASSUME NEW s \in Seq(Nat), NEW x \in Nat,
           \A i, j \in 1..Len(s) : i < j => s[i] < s[j],
           Precede(Elements(s), {x})
    PROVE  /\ Append(s, x) \in Seq(Nat) /\ Len(s) \in Nat /\ Len(Append(s, x)) = Len(s) + 1
           /\ Elements(Append(s, x)) = Elements(s) \cup {x}
           /\ \A i, j \in 1..Len(Append(s, x)) : i < j => Append(s, x)[i] < Append(s, x)[j]
<1>1. PICK v : v = Append(s, x)
  OBVIOUS
<1>2. /\ v \in Seq(Nat) /\ Len(v) = Len(s) + 1 /\ Len(s) \in Nat
      /\ v[Len(s) + 1] = x /\ \A i \in 1..Len(s) : v[i] = s[i]
  BY <1>1
<1>3. Elements(v) = Elements(s) \cup {x}
  <2>1. ASSUME NEW i \in 1..Len(v) PROVE v[i] \in Elements(s) \cup {x}
    <3>1. i = Len(s) + 1 \/ i \in 1..Len(s)
      BY <1>2
    <3> QED BY <1>2, <3>1 DEF Elements
  <2>2. x \in Elements(v)
    <3>1. Len(s) + 1 \in 1..Len(v)
      BY <1>2
    <3> QED BY <1>2, <3>1 DEF Elements
  <2>3. ASSUME NEW i \in 1..Len(s) PROVE s[i] \in Elements(v)
    <3>1. i \in 1..Len(v) /\ v[i] = s[i]
      BY <1>2
    <3> QED BY <3>1 DEF Elements
  <2> QED BY <2>1, <2>2, <2>3 DEF Elements
<1>4. ASSUME NEW i \in 1..Len(v), NEW j \in 1..Len(v), i < j
      PROVE  v[i] < v[j]
  <2>1. i \in 1..Len(s) /\ v[i] = s[i]
    BY <1>2, <1>4
  <2>2. CASE j = Len(s) + 1
    <3>1. s[i] \in Elements(s)
      BY <2>1 DEF Elements
    <3> QED BY <1>2, <2>1, <2>2, <3>1 DEF Precede
  <2>3. CASE j # Len(s) + 1
    <3>1. j \in 1..Len(s) /\ v[j] = s[j]
      BY <1>2, <2>3
    <3> QED BY <1>4, <2>1, <3>1
  <2> QED BY <2>2, <2>3
<1> QED BY <1>1, <1>2, <1>3, <1>4

---------------------------------------------------------------------------
(* The order of the packets, and how a packet goes from place to place:    *)
(* R is what has been received, W the events of the packets on the wire, Q *)
(* the queue of the device, D the queue disc, F what was refused, X what   *)
(* was discarded, n the number of packets.                                 *)

Flies(W) == {e.does[2].id : e \in W}

Placed(R, W, Q, D, F, X, n) ==
    /\ R \in Seq(Nat) /\ Q \in Seq(Packet) /\ D \in Seq(Packet) /\ n \in Nat
    /\ IsFiniteSet(W) /\ F \subseteq 1..n /\ X \subseteq 1..n
    /\ Elements(R) \cup Flies(W) \cup Ids(Q) \cup Ids(D) \cup F \cup X = 1..n
    /\ Len(R) + Cardinality(W) + Len(Q) + Len(D) + Cardinality(F) + Cardinality(X) = n
    /\ Ids(D) \cap X = {}

Ordered(R, W, Q, D) ==
    /\ \A i, j \in 1..Len(R) : i < j => R[i] < R[j]
    /\ \A e, f \in W : KeyLess(e, f) => e.does[2].id < f.does[2].id
    /\ Rises(Q) /\ Rises(D)
    /\ Precede(Elements(R), Flies(W)) /\ Precede(Elements(R), Ids(Q))
    /\ Precede(Elements(R), Ids(D))
    /\ Precede(Flies(W), Ids(Q)) /\ Precede(Flies(W), Ids(D))
    /\ Precede(Ids(Q), Ids(D))

LEMMA Counted ==
    ASSUME NEW n \in Nat, NEW S, S \subseteq 1..n
    PROVE  /\ IsFiniteSet(S) /\ Cardinality(S) \in Nat
           /\ \A x : x \notin S => Cardinality(S \cup {x}) = Cardinality(S) + 1
<1>1. IsFiniteSet(1..n)
  BY FS_Interval
<1>2. IsFiniteSet(S)
  BY <1>1, FS_Subset
<1> QED BY <1>2, FS_CardinalityType, FS_AddElement

LEMMA PlacedFacts ==
    ASSUME NEW R, NEW W, NEW Q, NEW D, NEW F, NEW X, NEW n, Placed(R, W, Q, D, F, X, n)
    PROVE  /\ Len(R) \in Nat /\ Len(Q) \in Nat /\ Len(D) \in Nat /\ n \in Nat
           /\ Cardinality(W) \in Nat /\ Cardinality(F) \in Nat /\ Cardinality(X) \in Nat
           /\ Elements(R) \subseteq 1..n /\ Flies(W) \subseteq 1..n
           /\ Ids(Q) \subseteq 1..n /\ Ids(D) \subseteq 1..n
           /\ Len(R) + Cardinality(W) + Len(Q) + Len(D) + Cardinality(F) + Cardinality(X) = n
<1>1. Cardinality(W) \in Nat
  BY FS_CardinalityType DEF Placed
<1>2. Cardinality(F) \in Nat /\ Cardinality(X) \in Nat
  BY Counted DEF Placed
<1>3. Len(R) \in Nat /\ Len(Q) \in Nat /\ Len(D) \in Nat
  BY DEF Placed
<1>4. Elements(R) \cup Flies(W) \cup Ids(Q) \cup Ids(D) \subseteq 1..n
  BY DEF Placed
<1> QED BY <1>1, <1>2, <1>3, <1>4 DEF Placed

LEMMA IsRefused ==
    ASSUME NEW R, NEW W, NEW Q, NEW D, NEW F, NEW X, NEW n, Placed(R, W, Q, D, F, X, n)
    PROVE  Placed(R, W, Q, D, F \cup {n + 1}, X, n + 1)
<1>1. n \in Nat /\ n + 1 \in Nat /\ 1..n+1 = (1..n) \cup {n + 1} /\ n + 1 \notin 1..n
  BY DEF Placed
<1>2. Cardinality(F \cup {n + 1}) = Cardinality(F) + 1
  BY <1>1, Counted DEF Placed
<1>3. Len(R) + Cardinality(W) + Len(Q) + Len(D) + Cardinality(F \cup {n + 1}) + Cardinality(X)
        = n + 1
  <2>1. /\ Len(R) \in Nat /\ Len(Q) \in Nat /\ Len(D) \in Nat /\ n \in Nat
        /\ Cardinality(W) \in Nat /\ Cardinality(F) \in Nat /\ Cardinality(X) \in Nat
        /\ Len(R) + Cardinality(W) + Len(Q) + Len(D) + Cardinality(F) + Cardinality(X) = n
    BY PlacedFacts
  <2> QED BY <2>1, <1>1, <1>2
<1> QED BY <1>1, <1>3 DEF Placed

LEMMA Waits ==
    ASSUME NEW R, NEW W, NEW Q, NEW D, NEW F, NEW X, NEW n, Placed(R, W, Q, D, F, X, n),
           Ordered(R, W, Q, D), NEW p \in Packet, p.id = n + 1
    PROVE  Placed(R, W, Q, Append(D, p), F, X, n + 1) /\ Ordered(R, W, Q, Append(D, p))
<1>1. n \in Nat /\ n + 1 \in Nat /\ 1..n+1 = (1..n) \cup {n + 1} /\ n + 1 \notin 1..n
  BY DEF Placed
<1>2. PICK E : E = Append(D, p)
  OBVIOUS
<1>3. \A S : S \subseteq 1..n => Precede(S, {n + 1})
  BY <1>1 DEF Precede
<1>4. /\ E \in Seq(Packet) /\ Len(E) = Len(D) + 1 /\ Len(D) \in Nat
      /\ Ids(E) = Ids(D) \cup {n + 1}
      /\ Rises(D) => Rises(E)
  BY <1>2, <1>3, AppendIds, PlacedFacts DEF Placed
<1>5. Len(R) + Cardinality(W) + Len(Q) + Len(E) + Cardinality(F) + Cardinality(X) = n + 1
  <2>1. /\ Len(R) \in Nat /\ Len(Q) \in Nat /\ Len(D) \in Nat /\ n \in Nat
        /\ Cardinality(W) \in Nat /\ Cardinality(F) \in Nat /\ Cardinality(X) \in Nat
        /\ Len(R) + Cardinality(W) + Len(Q) + Len(D) + Cardinality(F) + Cardinality(X) = n
    BY PlacedFacts
  <2> QED BY <2>1, <1>1, <1>4
<1>6. Placed(R, W, Q, E, F, X, n + 1)
  BY <1>1, <1>4, <1>5 DEF Placed
<1>7. Ordered(R, W, Q, E)
  <2>1. \A S : S \subseteq 1..n /\ Precede(S, Ids(D)) => Precede(S, Ids(E))
    BY <1>3, <1>4 DEF Precede
  <2> QED BY <1>4, <2>1, PlacedFacts DEF Ordered
<1> QED BY <1>2, <1>6, <1>7

LEMMA IsDiscarded ==
    ASSUME NEW R, NEW W, NEW Q, NEW D, NEW F, NEW X, NEW n, Placed(R, W, Q, D, F, X, n),
           Ordered(R, W, Q, D), D # << >>
    PROVE  /\ Placed(R, W, Q, Tail(D), F, X \cup {Head(D).id}, n)
           /\ Ordered(R, W, Q, Tail(D))
<1>1. PICK E : E = Tail(D)
  OBVIOUS
<1>2. PICK x : x = Head(D).id
  OBVIOUS
<1>3. /\ E \in Seq(Packet) /\ Len(E) = Len(D) - 1 /\ Len(D) \in Nat \ {0}
      /\ Ids(D) = Ids(E) \cup {x} /\ Rises(E) /\ Precede({x}, Ids(E))
  BY <1>1, <1>2, TailIds DEF Placed, Ordered
<1>4. x \in 1..n /\ x \notin X /\ n \in Nat
  BY <1>3, PlacedFacts DEF Placed
<1>5. Cardinality(X \cup {x}) = Cardinality(X) + 1
  BY <1>4, Counted DEF Placed
<1>6. Len(R) + Cardinality(W) + Len(Q) + Len(E) + Cardinality(F) + Cardinality(X \cup {x}) = n
  <2>1. /\ Len(R) \in Nat /\ Len(Q) \in Nat /\ Len(D) \in Nat /\ n \in Nat
        /\ Cardinality(W) \in Nat /\ Cardinality(F) \in Nat /\ Cardinality(X) \in Nat
        /\ Len(R) + Cardinality(W) + Len(Q) + Len(D) + Cardinality(F) + Cardinality(X) = n
    BY PlacedFacts
  <2>2. Len(E) = Len(D) - 1 /\ Len(E) \in Nat
    BY <1>3, <2>1
  <2>3. PICK r \in Nat : r = Len(R) + Cardinality(W) + Len(Q)
    BY <2>1
  <2>4. r + Len(D) + Cardinality(F) + Cardinality(X) = n
    BY <2>1, <2>3
  <2>5. r + (Len(D) - 1) + Cardinality(F) + (Cardinality(X) + 1) = n
    BY <2>1, <2>4
  <2> QED BY <2>2, <2>3, <2>5, <1>5
<1>7. x \notin Ids(E)
  BY <1>3, <1>4 DEF Precede
<1>8. Placed(R, W, Q, E, F, X \cup {x}, n)
  BY <1>3, <1>4, <1>6, <1>7 DEF Placed
<1>9. Ordered(R, W, Q, E)
  <2>1. \A S : Precede(S, Ids(D)) => Precede(S, Ids(E))
    BY <1>3 DEF Precede
  <2> QED BY <1>3, <2>1 DEF Ordered
<1> QED BY <1>1, <1>2, <1>8, <1>9

LEMMA IsQueued ==
    ASSUME NEW R, NEW W, NEW Q, NEW D, NEW F, NEW X, NEW n, Placed(R, W, Q, D, F, X, n),
           Ordered(R, W, Q, D), D # << >>
    PROVE  /\ Placed(R, W, Append(Q, Head(D)), Tail(D), F, X, n)
           /\ Ordered(R, W, Append(Q, Head(D)), Tail(D))
<1>1. PICK E : E = Tail(D)
  OBVIOUS
<1>2. PICK p : p = Head(D)
  OBVIOUS
<1>3. PICK P : P = Append(Q, p)
  OBVIOUS
<1>4. /\ E \in Seq(Packet) /\ Len(E) = Len(D) - 1 /\ Len(D) \in Nat \ {0}
      /\ Ids(D) = Ids(E) \cup {p.id} /\ Rises(E) /\ Precede({p.id}, Ids(E))
      /\ p \in Packet
  BY <1>1, <1>2, TailIds DEF Placed, Ordered
<1>5. \A S : Precede(S, Ids(D)) => Precede(S, Ids(E)) /\ Precede(S, {p.id})
  BY <1>4 DEF Precede
<1>6. /\ P \in Seq(Packet) /\ Len(P) = Len(Q) + 1 /\ Len(Q) \in Nat
      /\ Ids(P) = Ids(Q) \cup {p.id} /\ Rises(P)
  BY <1>3, <1>4, <1>5, AppendIds DEF Placed, Ordered
<1>7. Len(R) + Cardinality(W) + Len(P) + Len(E) + Cardinality(F) + Cardinality(X) = n
  <2>1. /\ Len(R) \in Nat /\ Len(Q) \in Nat /\ Len(D) \in Nat /\ n \in Nat
        /\ Cardinality(W) \in Nat /\ Cardinality(F) \in Nat /\ Cardinality(X) \in Nat
        /\ Len(R) + Cardinality(W) + Len(Q) + Len(D) + Cardinality(F) + Cardinality(X) = n
    BY PlacedFacts
  <2> QED BY <2>1, <1>4, <1>6
<1>8. Placed(R, W, P, E, F, X, n)
  BY <1>4, <1>6, <1>7 DEF Placed
<1>9. Ordered(R, W, P, E)
  <2>1. \A S : Precede(S, Ids(Q)) /\ Precede(S, {p.id}) => Precede(S, Ids(P))
    BY <1>6 DEF Precede
  <2>2. Precede(Ids(Q), Ids(E)) /\ Precede({p.id}, Ids(E)) => Precede(Ids(P), Ids(E))
    BY <1>6 DEF Precede
  <2> QED BY <1>4, <1>5, <1>6, <2>1, <2>2 DEF Ordered
<1> QED BY <1>1, <1>2, <1>3, <1>8, <1>9

LEMMA TakesOff ==
    ASSUME NEW R, NEW W, NEW Q, NEW D, NEW F, NEW X, NEW n, Placed(R, W, Q, D, F, X, n),
           Ordered(R, W, Q, D), Q # << >>,
           NEW g, g \notin W, g.does[2] = Head(Q), ~KeyLess(g, g),
           \A e \in W : ~KeyLess(g, e)
    PROVE  /\ Placed(R, W \cup {g}, Tail(Q), D, F, X, n)
           /\ Ordered(R, W \cup {g}, Tail(Q), D)
<1>1. PICK P : P = Tail(Q)
  OBVIOUS
<1>2. PICK x : x = Head(Q).id
  OBVIOUS
<1>3. PICK V : V = W \cup {g}
  OBVIOUS
<1>4. /\ P \in Seq(Packet) /\ Len(P) = Len(Q) - 1 /\ Len(Q) \in Nat \ {0}
      /\ Ids(Q) = Ids(P) \cup {x} /\ Rises(P) /\ Precede({x}, Ids(P))
  BY <1>1, <1>2, TailIds DEF Placed, Ordered
<1>5. Flies(V) = Flies(W) \cup {x}
  BY <1>2, <1>3 DEF Flies
<1>6. IsFiniteSet(V) /\ Cardinality(V) = Cardinality(W) + 1
  BY <1>3, FS_AddElement DEF Placed
<1>7. Len(R) + Cardinality(V) + Len(P) + Len(D) + Cardinality(F) + Cardinality(X) = n
  <2>1. /\ Len(R) \in Nat /\ Len(Q) \in Nat /\ Len(D) \in Nat /\ n \in Nat
        /\ Cardinality(W) \in Nat /\ Cardinality(F) \in Nat /\ Cardinality(X) \in Nat
        /\ Len(R) + Cardinality(W) + Len(Q) + Len(D) + Cardinality(F) + Cardinality(X) = n
    BY PlacedFacts
  <2> QED BY <2>1, <1>4, <1>6
<1>8. Placed(R, V, P, D, F, X, n)
  BY <1>4, <1>5, <1>6, <1>7 DEF Placed
<1>9. \A S : Precede(S, Ids(Q)) => Precede(S, Ids(P)) /\ Precede(S, {x})
  BY <1>4 DEF Precede
<1>10. Precede(Ids(Q), Ids(D)) => Precede(Ids(P), Ids(D)) /\ Precede({x}, Ids(D))
  BY <1>4 DEF Precede
<1>11. \A S : Precede(S, Flies(W)) /\ Precede(S, {x}) => Precede(S, Flies(V))
  BY <1>5 DEF Precede
<1>12. \A S : Precede(Flies(W), S) /\ Precede({x}, S) => Precede(Flies(V), S)
  BY <1>5 DEF Precede
<1>13. ASSUME NEW e \in V, NEW f \in V, KeyLess(e, f)
       PROVE  e.does[2].id < f.does[2].id
  <2>1. e \in W
    BY <1>3, <1>13
  <2>2. CASE f \in W
    BY <1>13, <2>1, <2>2 DEF Ordered
  <2>3. CASE f = g
    <3>1. e.does[2].id \in Flies(W)
      BY <2>1 DEF Flies
    <3>2. Precede(Flies(W), {x})
      BY <1>9 DEF Ordered
    <3> QED BY <1>2, <2>3, <3>1, <3>2 DEF Precede
  <2> QED BY <1>3, <2>2, <2>3
<1>14. Ordered(R, V, P, D)
  BY <1>4, <1>9, <1>10, <1>11, <1>12, <1>13 DEF Ordered
<1> QED BY <1>1, <1>3, <1>8, <1>14

LEMMA Lands ==
    ASSUME NEW R, NEW W, NEW Q, NEW D, NEW F, NEW X, NEW n, Placed(R, W, Q, D, F, X, n),
           Ordered(R, W, Q, D), NEW e \in W, \A f \in W \ {e} : KeyLess(e, f)
    PROVE  /\ Placed(Append(R, e.does[2].id), W \ {e}, Q, D, F, X, n)
           /\ Ordered(Append(R, e.does[2].id), W \ {e}, Q, D)
<1>1. PICK x : x = e.does[2].id
  OBVIOUS
<1>2. PICK V : V = W \ {e}
  OBVIOUS
<1>3. PICK S : S = Append(R, x)
  OBVIOUS
<1>4. Flies(W) = Flies(V) \cup {x} /\ x \in Flies(W)
  BY <1>1, <1>2 DEF Flies
<1>5. x \in 1..n /\ x \in Nat
  <2>1. x \in 1..n
    BY <1>4, PlacedFacts
  <2> QED BY <2>1
<1>6. Precede({x}, Flies(V))
  BY <1>1, <1>2 DEF Ordered, Precede, Flies
<1>7. \A T : /\ Precede(T, Flies(W)) => Precede(T, Flies(V)) /\ Precede(T, {x})
             /\ Precede(Flies(W), T) => Precede(Flies(V), T) /\ Precede({x}, T)
  BY <1>4 DEF Precede
<1>8. /\ S \in Seq(Nat) /\ Len(R) \in Nat /\ Len(S) = Len(R) + 1
      /\ Elements(S) = Elements(R) \cup {x}
      /\ \A i, j \in 1..Len(S) : i < j => S[i] < S[j]
  <2>1. Precede(Elements(R), {x})
    BY <1>7 DEF Ordered
  <2>2. R \in Seq(Nat) /\ \A i, j \in 1..Len(R) : i < j => R[i] < R[j]
    BY DEF Placed, Ordered
  <2> QED BY <1>3, <1>5, <2>1, <2>2, AppendElements
<1>9. \A T : Precede(Elements(R), T) /\ Precede({x}, T) => Precede(Elements(S), T)
  BY <1>8 DEF Precede
<1>10. IsFiniteSet(V) /\ Cardinality(V) = Cardinality(W) - 1
  BY <1>2, FS_RemoveElement DEF Placed
<1>11. Len(S) + Cardinality(V) + Len(Q) + Len(D) + Cardinality(F) + Cardinality(X) = n
  <2>1. /\ Len(R) \in Nat /\ Len(Q) \in Nat /\ Len(D) \in Nat /\ n \in Nat
        /\ Cardinality(W) \in Nat /\ Cardinality(F) \in Nat /\ Cardinality(X) \in Nat
        /\ Len(R) + Cardinality(W) + Len(Q) + Len(D) + Cardinality(F) + Cardinality(X) = n
    BY PlacedFacts
  <2> QED BY <2>1, <1>8, <1>10
<1>12. Placed(S, V, Q, D, F, X, n)
  BY <1>4, <1>8, <1>10, <1>11 DEF Placed
<1>13. Ordered(S, V, Q, D)
  BY <1>2, <1>6, <1>7, <1>8, <1>9 DEF Ordered
<1> QED BY <1>1, <1>2, <1>3, <1>12, <1>13

---------------------------------------------------------------------------
(* The events of the simulator, and the transmit machine: an idle device   *)
(* has no transmission under way and what it sent is no later than a delay *)
(* from now; what a sending device sent arrives before what it sends next. *)

Of(E, what) == {e \in E : e.does[1] = what}

EventsAt(E, now, u) ==
    \A e \in E : /\ e.ts \in Nat /\ e.uid \in Nat /\ now <= e.ts /\ e.uid < u
                 /\ e.does[1] \in {"complete", "receive", "dequeued"}
                 /\ e.does[1] # "complete" => e.does[2] \in Packet

Idle(E, now) == /\ Of(E, "complete") = {}
                /\ \A e \in Of(E, "receive") : e.ts <= now + Delay

Sending(E) == /\ \A c, d \in Of(E, "complete") : c = d
              /\ \A c \in Of(E, "complete"), e \in Of(E, "receive") :
                     e.ts + Gap <= c.ts + Delay

(* The end of the transmission c, the arrival g and, with flow control,    *)
(* what the queue has put off.                                             *)
Planned(events, now, p) ==
    \E c, g, S :
        /\ m_events' = events \cup {c, g} \cup S
        /\ m_uid' \in Nat /\ m_uid <= m_uid'
        /\ c.does = <<"complete">> /\ c.ts = now + (p.size + PppHeader + Gap)
        /\ g.does = <<"receive", p>> /\ g.ts = now + (p.size + PppHeader + Delay)
        /\ \A d \in S : d.does = <<"dequeued", p>> /\ d.ts = now
        /\ \A e \in {c, g} \cup S : e.uid \in Nat /\ m_uid <= e.uid /\ e.uid < m_uid'
        /\ \A d, f \in S : d = f
        /\ \A d \in S : d.uid < c.uid
        /\ config.flowControl => S # {}

LEMMA Scheduled ==
    ASSUME NEW events, NEW now \in Nat, NEW p \in Packet, m_uid \in Nat,
           ScheduleAll(events, now, PacketDequeued(p) \o TransmitStart(p))
    PROVE  Planned(events, now, p)
<1>1. PICK a : a = [delay |-> p.size + PppHeader + Gap, does |-> <<"complete">>]
  OBVIOUS
<1>2. PICK b : b = [delay |-> p.size + PppHeader + Delay, does |-> <<"receive", p>>]
  OBVIOUS
<1>3. PICK d : d = [delay |-> 0, does |-> <<"dequeued", p>>]
  OBVIOUS
<1>4. TransmitStart(p) = <<a, b>>
  BY <1>1, <1>2 DEF TransmitStart
<1>5. CASE config.flowControl
  <2>1. PacketDequeued(p) = <<d>>
    BY <1>3, <1>5 DEF PacketDequeued
  <2>2. PICK l : l = PacketDequeued(p) \o TransmitStart(p)
    OBVIOUS
  <2>3. PICK s, r : l = s \o r /\ s = <<d>> /\ r = <<a, b>>
    BY <1>4, <2>1, <2>2, Zenon
  <2>4. Len(l) = 3 /\ l[1] = d /\ l[2] = a /\ l[3] = b /\ 1..3 = {1, 2, 3}
    <3>1. Len(s) = 1 /\ Len(r) = 2 /\ s[1] = d /\ r[1] = a /\ r[2] = b
      BY <2>3
    <3>2. s \in Seq({d, a, b}) /\ r \in Seq({d, a, b})
      BY <2>3
    <3>3. \A x, y \in Seq({d, a, b}) :
             /\ Len(x \o y) = Len(x) + Len(y)
             /\ \A i \in 1..Len(x) : (x \o y)[i] = x[i]
             /\ \A i \in Len(x)+1..Len(x)+Len(y) : (x \o y)[i] = y[i - Len(x)]
      OBVIOUS
    <3>4. Len(l) = 3 /\ l[1] = s[1] /\ l[2] = r[1] /\ l[3] = r[2]
      BY <2>3, <3>1, <3>2, <3>3
    <3> QED BY <3>1, <3>4
  <2>5. /\ m_events' = events \cup {[ts |-> now + l[i].delay, uid |-> m_uid + i - 1,
                                     does |-> l[i].does] : i \in 1..Len(l)}
        /\ m_uid' = m_uid + Len(l)
    BY <2>2 DEF ScheduleAll
  <2>6. /\ m_events' = events \cup
             {[ts |-> now + d.delay, uid |-> m_uid + 1 - 1, does |-> d.does],
              [ts |-> now + a.delay, uid |-> m_uid + 2 - 1, does |-> a.does],
              [ts |-> now + b.delay, uid |-> m_uid + 3 - 1, does |-> b.does]}
        /\ m_uid' = m_uid + 3
    <3>1. \A x : x \in 1..Len(l) <=> x = 1 \/ x = 2 \/ x = 3
      BY <2>4
    <3>2. {[ts |-> now + l[i].delay, uid |-> m_uid + i - 1,
            does |-> l[i].does] : i \in 1..Len(l)} =
             {[ts |-> now + l[1].delay, uid |-> m_uid + 1 - 1, does |-> l[1].does],
              [ts |-> now + l[2].delay, uid |-> m_uid + 2 - 1, does |-> l[2].does],
              [ts |-> now + l[3].delay, uid |-> m_uid + 3 - 1, does |-> l[3].does]}
      BY <3>1
    <3> QED BY <2>4, <2>5, <3>2
  <2>7. PICK f : f = [ts |-> now + d.delay, uid |-> m_uid + 1 - 1, does |-> d.does]
    OBVIOUS
  <2>8. PICK c : c = [ts |-> now + a.delay, uid |-> m_uid + 2 - 1, does |-> a.does]
    OBVIOUS
  <2>9. PICK g : g = [ts |-> now + b.delay, uid |-> m_uid + 3 - 1, does |-> b.does]
    OBVIOUS
  <2>10. m_events' = events \cup {c, g} \cup {f} /\ m_uid' = m_uid + 3
    BY <2>6, <2>7, <2>8, <2>9
  <2>11. /\ c.does = <<"complete">> /\ c.ts = now + (p.size + PppHeader + Gap)
         /\ g.does = <<"receive", p>> /\ g.ts = now + (p.size + PppHeader + Delay)
         /\ f.does = <<"dequeued", p>> /\ f.ts = now
    BY <1>1, <1>2, <1>3, <2>7, <2>8, <2>9
  <2>12. f.uid = m_uid /\ c.uid = m_uid + 1 /\ g.uid = m_uid + 2
    BY <2>7, <2>8, <2>9
  <2>13. \A e \in {c, g} \cup {f} : e.uid \in Nat /\ m_uid <= e.uid /\ e.uid < m_uid'
    BY <2>10, <2>12
  <2>14. \A x \in {f} : x.does = <<"dequeued", p>> /\ x.ts = now
    BY <2>11
  <2>15. m_uid' \in Nat /\ m_uid <= m_uid'
    BY <2>10
  <2>16. /\ \A x, y \in {f} : x = y
         /\ \A x \in {f} : x.uid < c.uid
         /\ config.flowControl => {f} # {}
    BY <2>12
  <2> QED BY <2>10, <2>11, <2>13, <2>14, <2>15, <2>16, Zenon DEF Planned
<1>6. CASE ~config.flowControl
  <2>1. PacketDequeued(p) = << >>
    BY <1>6 DEF PacketDequeued
  <2>2. PICK l : l = PacketDequeued(p) \o TransmitStart(p)
    OBVIOUS
  <2>3. l = <<a, b>>
    BY <1>4, <2>1, <2>2
  <2>4. Len(l) = 2 /\ l[1] = a /\ l[2] = b /\ 1..2 = {1, 2}
    BY <2>3
  <2>5. /\ m_events' = events \cup {[ts |-> now + l[i].delay, uid |-> m_uid + i - 1,
                                     does |-> l[i].does] : i \in 1..Len(l)}
        /\ m_uid' = m_uid + Len(l)
    BY <2>2 DEF ScheduleAll
  <2>6. PICK c : c = [ts |-> now + a.delay, uid |-> m_uid + 1 - 1, does |-> a.does]
    OBVIOUS
  <2>7. PICK g : g = [ts |-> now + b.delay, uid |-> m_uid + 2 - 1, does |-> b.does]
    OBVIOUS
  <2>. DEFINE none == {}
  <2>8. m_events' = events \cup {c, g} \cup none /\ m_uid' = m_uid + 2
    BY <2>4, <2>5, <2>6, <2>7
  <2>9. /\ c.does = <<"complete">> /\ c.ts = now + (p.size + PppHeader + Gap)
        /\ g.does = <<"receive", p>> /\ g.ts = now + (p.size + PppHeader + Delay)
    BY <1>1, <1>2, <2>6, <2>7
  <2>10. c.uid = m_uid /\ g.uid = m_uid + 1
    BY <2>6, <2>7
  <2>11. \A e \in {c, g} \cup none : e.uid \in Nat /\ m_uid <= e.uid /\ e.uid < m_uid'
    BY <2>8, <2>10
  <2>12. /\ \A x \in none : x.does = <<"dequeued", p>> /\ x.ts = now
         /\ \A x, y \in none : x = y
         /\ \A x \in none : x.uid < c.uid
    OBVIOUS
  <2>13. m_uid' \in Nat /\ m_uid <= m_uid' /\ (config.flowControl => none # {})
    BY <1>6, <2>8
  <2> HIDE DEF none
  <2> QED BY <2>8, <2>9, <2>11, <2>12, <2>13, Zenon DEF Planned
<1> QED BY <1>5, <1>6

(* The device takes the first packet of its queue and sends it. *)
LEMMA Starts ==
    ASSUME NEW events, NEW now \in Nat, m_uid \in Nat,
           EventsAt(events, now, m_uid), Idle(events, now),
           NEW R, NEW Q, NEW D, NEW F, NEW X, NEW n,
           Placed(R, Of(events, "receive"), Q, D, F, X, n),
           Ordered(R, Of(events, "receive"), Q, D), Q # << >>,
           ScheduleAll(events, now, PacketDequeued(Head(Q)) \o TransmitStart(Head(Q)))
    PROVE  /\ EventsAt(m_events', now, m_uid') /\ Sending(m_events') /\ m_uid' \in Nat
           /\ Placed(R, Of(m_events', "receive"), Tail(Q), D, F, X, n)
           /\ Ordered(R, Of(m_events', "receive"), Tail(Q), D)
<1>1. PICK p \in Packet : p = Head(Q)
  BY TailIds DEF Placed
<1>2. /\ p.size \in Nat /\ PppHeader \in Nat /\ Gap \in Nat /\ Delay \in Nat
      /\ p.size + PppHeader \in Nat
  BY DeviceAssumption DEF Packet
<1>3. PICK c, g, S :
         /\ m_events' = events \cup {c, g} \cup S
         /\ m_uid' \in Nat /\ m_uid <= m_uid'
         /\ c.does = <<"complete">> /\ c.ts = now + (p.size + PppHeader + Gap)
         /\ g.does = <<"receive", p>> /\ g.ts = now + (p.size + PppHeader + Delay)
         /\ \A d \in S : d.does = <<"dequeued", p>> /\ d.ts = now
         /\ \A e \in {c, g} \cup S : e.uid \in Nat /\ m_uid <= e.uid /\ e.uid < m_uid'
  <2>1. ScheduleAll(events, now, PacketDequeued(p) \o TransmitStart(p))
    BY <1>1
  <2>2. Planned(events, now, p)
    BY <2>1, Scheduled
  <2> QED BY <2>2, Zenon DEF Planned
<1>4. /\ c.does[1] = "complete" /\ g.does[1] = "receive" /\ g.does[2] = p
      /\ \A d \in S : d.does[1] = "dequeued" /\ d.does[2] = p
  BY <1>3
<1>5. /\ c.ts \in Nat /\ now <= c.ts /\ g.ts \in Nat /\ now + Delay <= g.ts /\ now <= g.ts
      /\ g.ts + Gap <= c.ts + Delay /\ now + Delay + Gap <= c.ts + Delay
  <2>1. PICK t \in Nat : t = p.size + PppHeader
    BY <1>2
  <2>2. c.ts = now + (t + Gap) /\ g.ts = now + (t + Delay)
    BY <1>3, <2>1
  <2>3. c.ts \in Nat /\ g.ts \in Nat
    BY <1>2, <2>2
  <2>4. now <= c.ts /\ now + Delay <= g.ts /\ now <= g.ts
    BY <1>2, <2>2
  <2>5. g.ts + Gap = c.ts + Delay /\ now + Delay + Gap <= c.ts + Delay
    BY <1>2, <2>2
  <2> QED BY <1>2, <2>3, <2>4, <2>5
<1>6. EventsAt(m_events', now, m_uid')
  <2>1. ASSUME NEW e \in m_events'
        PROVE /\ e.ts \in Nat /\ e.uid \in Nat /\ now <= e.ts /\ e.uid < m_uid'
              /\ e.does[1] \in {"complete", "receive", "dequeued"}
              /\ e.does[1] # "complete" => e.does[2] \in Packet
    <3>1. CASE e \in events
      <4>1. /\ e.ts \in Nat /\ e.uid \in Nat /\ now <= e.ts /\ e.uid < m_uid
            /\ e.does[1] \in {"complete", "receive", "dequeued"}
            /\ e.does[1] # "complete" => e.does[2] \in Packet
        BY <3>1 DEF EventsAt
      <4>2. m_uid' \in Nat /\ m_uid <= m_uid'
        BY <1>3
      <4>3. e.uid < m_uid'
        BY <4>1, <4>2
      <4> QED BY <4>1, <4>3
    <3>2. CASE e = c
      BY <1>3, <1>4, <1>5, <3>2
    <3>3. CASE e = g
      BY <1>3, <1>4, <1>5, <3>3
    <3>4. CASE e \in S
      BY <1>3, <1>4, <3>4
    <3> QED BY <1>3, <2>1, <3>1, <3>2, <3>3, <3>4
  <2> QED BY <2>1 DEF EventsAt
<1>7. Of(m_events', "complete") = {c}
  <2>1. ASSUME NEW e \in m_events', e.does[1] = "complete" PROVE e = c
    BY <1>3, <1>4, <2>1 DEF Idle, Of
  <2> QED BY <1>3, <1>4, <2>1 DEF Of
<1>8. Of(m_events', "receive") = Of(events, "receive") \cup {g}
  <2>1. ASSUME NEW e \in m_events', e.does[1] = "receive" PROVE e \in events \cup {g}
    BY <1>3, <1>4, <2>1
  <2>2. ASSUME NEW e \in events \cup {g} PROVE e \in m_events'
    BY <1>3, <2>2
  <2> QED BY <1>4, <2>1, <2>2 DEF Of
<1>9. Sending(m_events')
  <2>1. ASSUME NEW e \in Of(events, "receive") PROVE e.ts + Gap <= c.ts + Delay
    <3>1. e.ts \in Nat /\ e.ts <= now + Delay
      BY DEF Of, EventsAt, Idle
    <3> QED BY <1>2, <1>5, <3>1
  <2> QED BY <1>5, <1>7, <1>8, <2>1 DEF Sending
<1>10. /\ g \notin Of(events, "receive") /\ ~KeyLess(g, g)
       /\ \A e \in Of(events, "receive") : ~KeyLess(g, e)
  <2>1. g.uid \in Nat /\ m_uid <= g.uid
    BY <1>3
  <2>2. ASSUME NEW e \in Of(events, "receive")
        PROVE  e.ts \in Nat /\ e.uid \in Nat /\ e.uid < m_uid /\ e.ts <= now + Delay
    BY DEF Of, EventsAt, Idle
  <2>3. ASSUME NEW e \in Of(events, "receive")
        PROVE  e.uid < g.uid /\ e.ts <= g.ts
    BY <1>2, <1>5, <2>1, <2>2
  <2> QED BY <1>5, <2>1, <2>2, <2>3 DEF KeyLess
<1>11. g.does[2] = Head(Q)
  BY <1>1, <1>4
<1>12. PICK W : W = Of(events, "receive")
  OBVIOUS
<1>13. /\ Placed(R, W \cup {g}, Tail(Q), D, F, X, n)
       /\ Ordered(R, W \cup {g}, Tail(Q), D)
  BY <1>10, <1>11, <1>12, TakesOff
<1> QED BY <1>3, <1>6, <1>8, <1>9, <1>12, <1>13

(* The simulator takes the next event e from the list. *)
LEMMA Takes ==
    ASSUME EventsAt(m_events, m_currentTs, m_uid), m_currentTs \in Nat,
           Sending(m_events), NEW e, NEW what, IsNext(e, what)
    PROVE  /\ e \in m_events /\ e.ts \in Nat /\ e.does[1] = what
           /\ EventsAt(m_events \ {e}, e.ts, m_uid) /\ Sending(m_events \ {e})
           /\ what = "complete" => Idle(m_events \ {e}, e.ts)
           /\ Idle(m_events, m_currentTs) => Idle(m_events \ {e}, e.ts)
           /\ what # "receive" => Of(m_events \ {e}, "receive") = Of(m_events, "receive")
<1>1. /\ e \in m_events /\ e.does[1] = what
      /\ \A f \in m_events \ {e} : KeyLess(e, f)
  BY DEF IsNext
<1>2. e.ts \in Nat /\ m_currentTs <= e.ts
  BY <1>1 DEF EventsAt
<1>3. EventsAt(m_events \ {e}, e.ts, m_uid)
  <2>1. ASSUME NEW f \in m_events \ {e} PROVE e.ts <= f.ts
    <3>1. f.ts \in Nat
      BY DEF EventsAt
    <3> QED BY <1>1, <1>2, <3>1 DEF KeyLess
  <2> QED BY <2>1 DEF EventsAt
<1>4. Sending(m_events \ {e})
  BY DEF Sending, Of
<1>5. ASSUME what = "complete" PROVE Idle(m_events \ {e}, e.ts)
  <2>1. Of(m_events \ {e}, "complete") = {}
    BY <1>1, <1>5 DEF Sending, Of
  <2>2. ASSUME NEW f \in Of(m_events \ {e}, "receive") PROVE f.ts <= e.ts + Delay
    <3>1. f.ts \in Nat /\ f.ts + Gap <= e.ts + Delay
      BY <1>1, <1>5 DEF Sending, Of, EventsAt
    <3> QED BY <1>2, <3>1, DeviceAssumption
  <2> QED BY <2>1, <2>2 DEF Idle
<1>6. ASSUME Idle(m_events, m_currentTs) PROVE Idle(m_events \ {e}, e.ts)
  <2>1. ASSUME NEW f \in Of(m_events \ {e}, "receive") PROVE f.ts <= e.ts + Delay
    <3>1. f.ts \in Nat /\ f.ts <= m_currentTs + Delay
      BY <1>6 DEF Idle, Of, EventsAt
    <3> QED BY <1>2, <3>1, DeviceAssumption
  <2> QED BY <1>6, <2>1 DEF Idle, Of
<1>7. ASSUME what # "receive"
      PROVE  Of(m_events \ {e}, "receive") = Of(m_events, "receive")
  BY <1>1, <1>7 DEF Of
<1> QED BY <1>1, <1>2, <1>3, <1>4, <1>5, <1>6, <1>7

---------------------------------------------------------------------------
(* The inductive invariant. *)

Wire == Of(m_events, "receive")

DeviceInv ==
    /\ m_currentTs \in Nat /\ m_uid \in Nat
    /\ m_txMachineState \in {"READY", "BUSY"}
    /\ EventsAt(m_events, m_currentTs, m_uid)
    /\ Sending(m_events)
    /\ m_txMachineState = "READY" => m_queue = << >> /\ Idle(m_events, m_currentTs)

FlagsInv ==
    /\ m_stoppedByDevice \in BOOLEAN /\ m_stoppedByQueueLimits \in BOOLEAN
    /\ m_queueLimits \in Limits

RunInv ==
    /\ pc \in {"loop", "run", "wake"} /\ after \in {"loop", "wake"} /\ quota \in 0..Quota
    /\ pc = "run" => quota # 0

ConfigInv == config \in Configs /\ (~config.queueDisc => disc = << >>)

PlacesInv ==
    /\ Placed(received, Wire, m_queue, disc, refused, discarded, made)
    /\ Ordered(received, Wire, m_queue, disc)

IInv == DeviceInv /\ FlagsInv /\ RunInv /\ ConfigInv /\ PlacesInv

LEMMA QueuedType ==
    ASSUME NEW l \in Limits, NEW count \in Nat
    PROVE  /\ Queued(l, count) \in Limits
           /\ Queued(l, count).numQueued = l.numQueued + count
           /\ Queued(l, count).numCompleted = l.numCompleted
           /\ Queued(l, count).adjLimit = l.adjLimit
<1>1. l.numQueued + count \in Nat
  BY DEF Limits
<1>2. PICK m \in Limits : m = [l EXCEPT !.lastObjCnt = count]
  BY DEF Limits
<1>3. Queued(l, count) = [m EXCEPT !.numQueued = l.numQueued + count]
  BY <1>2 DEF Queued, Limits
<1>4. /\ m.numQueued = l.numQueued /\ m.numCompleted = l.numCompleted
      /\ m.adjLimit = l.adjLimit
  BY <1>2 DEF Limits
<1> QED BY <1>1, <1>3, <1>4 DEF Limits

LEMMA CompletedType ==
    ASSUME NEW l \in Limits, NEW count \in Nat, NEW now \in Nat
    PROVE  /\ Completed(l, count, now) \in Limits
           /\ Completed(l, count, now).numQueued = l.numQueued
           /\ Completed(l, count, now).numCompleted = l.numCompleted + count
           /\ Completed(l, count, now).adjLimit >= l.numCompleted + count
<1>1. \A a, b \in Int : Posdiff(a, b) \in Nat
  BY DEF Posdiff, Greatest
<1>2. \A a, b \in Nat : Least(a, b) \in Nat /\ Greatest(a, b) \in Nat
  BY DEF Least, Greatest
<1>3. UINTMAX \in Nat
  BY DEF UINTMAX
<1>4. PICK completed \in Nat : completed = l.numCompleted + count
  BY DEF Limits
<1>5. PICK ovlimit \in Nat : ovlimit = Posdiff(l.numQueued - l.numCompleted, l.limit)
  <2>1. l.numQueued - l.numCompleted \in Int /\ l.limit \in Int
    BY DEF Limits
  <2> QED BY <1>1, <2>1
<1>6. Grown(l, completed, now) \in [limit : Nat, lowestSlack : Nat, slackStartTime : Nat]
  <2>1. Posdiff(completed, l.prevNumQueued) \in Nat /\ l.limit \in Nat /\ l.prevOvlimit \in Nat
    <3>1. l.prevNumQueued \in Int /\ completed \in Int /\ l.limit \in Nat /\ l.prevOvlimit \in Nat
      BY DEF Limits
    <3> QED BY <1>1, <3>1
  <2> QED BY <1>3, <2>1 DEF Grown
<1>7. Shrunk(l, completed, now) \in [limit : Nat, lowestSlack : Nat, slackStartTime : Nat]
  <2>1. PICK a \in Nat :
           a = Posdiff(l.limit + l.prevOvlimit, 2 * (completed - l.numCompleted))
    <3>1. l.limit + l.prevOvlimit \in Int /\ 2 * (completed - l.numCompleted) \in Int
      BY DEF Limits
    <3> QED BY <1>1, <3>1
  <2>2. PICK b \in Nat :
           b = IF l.prevOvlimit = 0 THEN 0 ELSE Posdiff(l.prevLastObjCnt, l.prevOvlimit)
    <3>1. Posdiff(l.prevLastObjCnt, l.prevOvlimit) \in Nat
      BY <1>1 DEF Limits
    <3> QED BY <3>1
  <2>3. PICK lowest \in Nat : lowest = Least(Greatest(a, b), l.lowestSlack)
    <3>1. Greatest(a, b) \in Nat /\ l.lowestSlack \in Nat
      BY <1>2 DEF Limits
    <3> QED BY <1>2, <3>1
  <2>4. Posdiff(l.limit, lowest) \in Nat /\ l.limit \in Nat /\ l.slackStartTime \in Nat
    <3>1. l.limit \in Int /\ lowest \in Int /\ l.limit \in Nat /\ l.slackStartTime \in Nat
      BY DEF Limits
    <3> QED BY <1>1, <3>1
  <2>5. Shrunk(l, completed, now) =
           IF now > l.slackStartTime + HoldTime
           THEN [limit |-> Posdiff(l.limit, lowest),
                 lowestSlack |-> UINTMAX, slackStartTime |-> now]
           ELSE [limit |-> l.limit,
                 lowestSlack |-> lowest, slackStartTime |-> l.slackStartTime]
    BY <2>1, <2>2, <2>3, Zenon DEF Shrunk
  <2>6. CASE now > l.slackStartTime + HoldTime
    BY <1>3, <2>4, <2>5, <2>6
  <2>7. CASE ~(now > l.slackStartTime + HoldTime)
    BY <1>3, <2>4, <2>5, <2>7
  <2> QED BY <2>6, <2>7
<1>8. Kept(l) \in [limit : Nat, lowestSlack : Nat, slackStartTime : Nat]
  BY DEF Kept, Limits
<1>9. PICK starved, busy :
        Completed(l, count, now) =
           LET next == IF starved THEN Grown(l, completed, now)
                       ELSE IF busy THEN Shrunk(l, completed, now) ELSE Kept(l)
               limit == Least(Greatest(next.limit, MinLimit), MaxLimit)
           IN  [limit |-> limit,
                adjLimit |-> limit + completed,
                numQueued |-> l.numQueued,
                numCompleted |-> completed,
                lastObjCnt |-> l.lastObjCnt,
                prevNumQueued |-> l.numQueued,
                prevLastObjCnt |-> l.lastObjCnt,
                prevOvlimit |-> IF limit # l.limit THEN 0 ELSE ovlimit,
                lowestSlack |-> next.lowestSlack,
                slackStartTime |-> next.slackStartTime]
  BY <1>4, <1>5, Zenon DEF Completed
<1>10. PICK next : next = IF starved THEN Grown(l, completed, now)
                          ELSE IF busy THEN Shrunk(l, completed, now) ELSE Kept(l)
  OBVIOUS
<1>11. next \in [limit : Nat, lowestSlack : Nat, slackStartTime : Nat]
  BY <1>6, <1>7, <1>8, <1>10
<1>12. PICK limit \in Nat : limit = Least(Greatest(next.limit, MinLimit), MaxLimit)
  <2>1. MinLimit \in Nat /\ MaxLimit \in Nat /\ next.limit \in Nat
    BY <1>11, LimitsAssumption
  <2>2. Greatest(next.limit, MinLimit) \in Nat
    BY <1>2, <2>1
  <2> QED BY <1>2, <2>1, <2>2
<1>13. PICK over \in Nat : over = IF limit # l.limit THEN 0 ELSE ovlimit
  OBVIOUS
<1>14. Completed(l, count, now) =
          [limit |-> limit,
           adjLimit |-> limit + completed,
           numQueued |-> l.numQueued,
           numCompleted |-> completed,
           lastObjCnt |-> l.lastObjCnt,
           prevNumQueued |-> l.numQueued,
           prevLastObjCnt |-> l.lastObjCnt,
           prevOvlimit |-> over,
           lowestSlack |-> next.lowestSlack,
           slackStartTime |-> next.slackStartTime]
  BY <1>9, <1>10, <1>12, <1>13, Zenon
<1>15. limit + completed \in Nat /\ limit + completed >= completed
  OBVIOUS
<1>16. Completed(l, count, now) \in Limits
  BY <1>11, <1>14, <1>15 DEF Limits
<1>17. /\ Completed(l, count, now).numQueued = l.numQueued
       /\ Completed(l, count, now).numCompleted = completed
       /\ Completed(l, count, now).adjLimit = limit + completed
  BY <1>14
<1> QED BY <1>4, <1>15, <1>16, <1>17

(* PointToPointNetDevice::Send, given the first packet of D. *)
LEMMA SendKeeps ==
    ASSUME DeviceInv, FlagsInv, ConfigInv,
           NEW D, NEW F, NEW n, D # << >>,
           Placed(received, Wire, m_queue, D, F, discarded, n),
           Ordered(received, Wire, m_queue, D),
           Send(Head(D)), m_currentTs' = m_currentTs
    PROVE  /\ DeviceInv' /\ FlagsInv'
           /\ Placed(received, Wire', m_queue', Tail(D), F, discarded', n)
           /\ Ordered(received, Wire', m_queue', Tail(D))
<1>1. PICK p \in Packet : p = Head(D)
  BY TailIds DEF Placed
<1>2. Send(p)
  BY <1>1
<1>3. CASE ~HasRoom(p)
  <2>1. /\ discarded' = discarded \cup {p.id}
        /\ m_stoppedByDevice' = (m_stoppedByDevice \/ config.flowControl)
        /\ UNCHANGED <<device, m_events, m_uid, m_stoppedByQueueLimits, m_queueLimits>>
    BY <1>2, <1>3 DEF Send
  <2>2. DeviceInv'
    BY <2>1 DEF DeviceInv, device
  <2>3. FlagsInv'
    <3>1. m_stoppedByDevice' \in BOOLEAN
      BY <2>1, Zenon DEF FlagsInv, ConfigInv, Configs
    <3> QED BY <2>1, <3>1 DEF FlagsInv
  <2>4. Wire' = Wire /\ m_queue' = m_queue
    BY <2>1 DEF Wire, device
  <2>5. PICK X : X = discarded \cup {Head(D).id}
    OBVIOUS
  <2>6. /\ Placed(received, Wire, m_queue, Tail(D), F, X, n)
        /\ Ordered(received, Wire, m_queue, Tail(D))
    BY <2>5, IsDiscarded
  <2>7. discarded' = X
    BY <1>1, <2>1, <2>5
  <2> QED BY <2>2, <2>3, <2>4, <2>6, <2>7
<1>4. CASE HasRoom(p)
  <2>1. PICK P : P = Append(m_queue, p)
    OBVIOUS
  <2>2. /\ PacketEnqueued(p, P)
        /\ discarded' = discarded
        /\ IF m_txMachineState = "READY"
           THEN /\ m_queue' = Tail(P) /\ m_txMachineState' = "BUSY"
                /\ ScheduleAll(m_events, m_currentTs,
                               PacketDequeued(Head(P)) \o TransmitStart(Head(P)))
           ELSE /\ m_queue' = P
                /\ UNCHANGED <<m_txMachineState, m_events, m_uid>>
    BY <1>2, <1>4, <2>1 DEF Send
  <2>3. FlagsInv'
    <3>1. /\ m_stoppedByQueueLimits' \in BOOLEAN /\ m_stoppedByDevice' \in BOOLEAN
      BY <2>2, Zenon DEF PacketEnqueued, FlagsInv, ConfigInv, Configs
    <3>2. Queued(m_queueLimits, p.size + PppHeader) \in Limits
      BY QueuedType, DeviceAssumption DEF FlagsInv, Packet
    <3>3. m_queueLimits' \in Limits
      BY <2>2, <3>2 DEF PacketEnqueued, FlagsInv
    <3> QED BY <3>1, <3>3 DEF FlagsInv
  <2>4. /\ Placed(received, Wire, P, Tail(D), F, discarded, n)
        /\ Ordered(received, Wire, P, Tail(D))
    BY <1>1, <2>1, IsQueued
  <2>5. P # << >>
    <3>1. Len(P) = Len(m_queue) + 1 /\ Len(m_queue) \in Nat
      BY <2>1, AppendIds DEF Placed
    <3> QED BY <3>1
  <2>6. CASE m_txMachineState = "READY"
    <3>1. /\ m_queue' = Tail(P) /\ m_txMachineState' = "BUSY"
          /\ ScheduleAll(m_events, m_currentTs,
                         PacketDequeued(Head(P)) \o TransmitStart(Head(P)))
      BY <2>2, <2>6
    <3>2. /\ EventsAt(m_events, m_currentTs, m_uid) /\ Idle(m_events, m_currentTs)
          /\ m_currentTs \in Nat /\ m_uid \in Nat
      BY <2>6 DEF DeviceInv
    <3>3. PICK now \in Nat : now = m_currentTs
      BY <3>2
    <3>4. /\ EventsAt(m_events', now, m_uid') /\ Sending(m_events') /\ m_uid' \in Nat
          /\ Placed(received, Of(m_events', "receive"), Tail(P), Tail(D), F, discarded, n)
          /\ Ordered(received, Of(m_events', "receive"), Tail(P), Tail(D))
      BY <2>4, <2>5, <3>1, <3>2, <3>3, Starts DEF Wire
    <3>5. DeviceInv'
      BY <3>1, <3>2, <3>3, <3>4 DEF DeviceInv
    <3> QED BY <2>2, <2>3, <3>1, <3>4, <3>5 DEF Wire
  <2>7. CASE m_txMachineState # "READY"
    <3>1. m_queue' = P /\ UNCHANGED <<m_txMachineState, m_events, m_uid>>
      BY <2>2, <2>7
    <3>2. DeviceInv'
      BY <2>7, <3>1 DEF DeviceInv
    <3>3. Wire' = Wire
      BY <3>1 DEF Wire
    <3> QED BY <2>2, <2>3, <2>4, <3>1, <3>2, <3>3
  <2> QED BY <2>6, <2>7
<1> QED BY <1>3, <1>4

LEMMA InitHolds == Init => IInv
<1> SUFFICES ASSUME Init PROVE IInv
  OBVIOUS
<1>1. Wire = {} /\ Flies({}) = {}
  BY DEF Init, Wire, Of, Flies
<1>2. DeviceInv
  <2>1. EventsAt(m_events, m_currentTs, m_uid) /\ Sending(m_events)
        /\ Idle(m_events, m_currentTs)
    BY DEF Init, EventsAt, Sending, Idle, Of
  <2> QED BY <2>1 DEF Init, DeviceInv
<1>3. FlagsInv
  <2>1. Reset \in Limits
    <3>1. UINTMAX \in Nat
      BY DEF UINTMAX
    <3> QED BY <3>1 DEF Reset, Limits
  <2> QED BY <2>1 DEF Init, FlagsInv
<1>4. RunInv
  BY QueueAssumption DEF Init, RunInv
<1>5. ConfigInv
  BY DEF Init, ConfigInv
<1>6. PlacesInv
  <2>1. Elements(<< >>) = {} /\ << >> \in Seq(Nat) /\ Len(<< >>) = 0 /\ 1..0 = {}
    BY DEF Elements
  <2>2. IsFiniteSet({}) /\ Cardinality({}) = 0
    BY FS_EmptySet
  <2>3. /\ Placed(<< >>, {}, << >>, << >>, {}, {}, 0)
        /\ Ordered(<< >>, {}, << >>, << >>)
    BY <1>1, <2>1, <2>2, NoIds DEF Placed, Ordered, Precede
  <2> QED BY <1>1, <2>3 DEF Init, PlacesInv
<1> QED BY <1>2, <1>3, <1>4, <1>5, <1>6 DEF IInv

LEMMA SendWithoutQueueDiscKeeps ==
    ASSUME IInv, NEW s \in Sizes, SendWithoutQueueDisc(s)
    PROVE  IInv'
<1>1. PICK p : p = NewPacket(s)
  OBVIOUS
<1>2. made \in Nat /\ disc = << >>
  BY DEF IInv, ConfigInv, PlacesInv, Placed, SendWithoutQueueDisc
<1>3. p \in Packet /\ p.id = made + 1
  <2>1. s \in Nat
    BY DeviceAssumption
  <2> QED BY <1>1, <1>2, <2>1 DEF NewPacket, Packet
<1>4. /\ made' = made + 1
      /\ UNCHANGED <<config, m_currentTs, disc, received, run>>
  BY DEF SendWithoutQueueDisc
<1>5. RunInv' /\ ConfigInv'
  BY <1>4 DEF IInv, RunInv, ConfigInv, run
<1>6. CASE config.flowControl /\ IsStopped
  <2>1. /\ refused' = refused \cup {made + 1}
        /\ UNCHANGED <<m_events, m_uid, flags, device, discarded>>
    BY <1>6 DEF SendWithoutQueueDisc
  <2>2. DeviceInv' /\ FlagsInv'
    BY <1>4, <2>1 DEF IInv, DeviceInv, FlagsInv, flags, device
  <2>3. /\ Placed(received, Wire, m_queue, disc, refused \cup {made + 1}, discarded, made + 1)
        /\ Ordered(received, Wire, m_queue, disc)
    BY IsRefused DEF IInv, PlacesInv
  <2>4. PlacesInv'
    BY <1>4, <2>1, <2>3 DEF PlacesInv, Wire, device
  <2> QED BY <1>5, <2>2, <2>4 DEF IInv
<1>7. CASE ~(config.flowControl /\ IsStopped)
  <2>1. Send(p) /\ UNCHANGED refused
    BY <1>1, <1>7 DEF SendWithoutQueueDisc
  <2>2. PICK D : D = Append(disc, p)
    OBVIOUS
  <2>3. PICK n : n = made + 1
    OBVIOUS
  <2>4. /\ Placed(received, Wire, m_queue, D, refused, discarded, n)
        /\ Ordered(received, Wire, m_queue, D)
    BY <1>3, <2>2, <2>3, Waits DEF IInv, PlacesInv
  <2>5. D # << >> /\ Head(D) = p /\ Tail(D) = << >>
    <3>1. D = <<p>>
      BY <1>2, <2>2
    <3> QED BY <3>1
  <2>6. Send(Head(D)) /\ m_currentTs' = m_currentTs
    BY <1>4, <2>1, <2>5
  <2>7. DeviceInv /\ FlagsInv /\ ConfigInv
    BY DEF IInv
  <2>8. PICK F : F = refused
    OBVIOUS
  <2>9. /\ DeviceInv' /\ FlagsInv'
        /\ Placed(received, Wire', m_queue', Tail(D), F, discarded', n)
        /\ Ordered(received, Wire', m_queue', Tail(D))
    BY <2>4, <2>5, <2>6, <2>7, <2>8, SendKeeps
  <2>10. PlacesInv'
    BY <1>2, <1>4, <2>1, <2>3, <2>5, <2>8, <2>9 DEF PlacesInv
  <2> QED BY <1>5, <2>9, <2>10 DEF IInv
<1> QED BY <1>6, <1>7

LEMMA SendToQueueDiscKeeps ==
    ASSUME IInv, NEW s \in Sizes, SendToQueueDisc(s)
    PROVE  IInv'
<1>1. PICK p : p = NewPacket(s)
  OBVIOUS
<1>2. made \in Nat
  BY DEF IInv, PlacesInv, Placed
<1>3. p \in Packet /\ p.id = made + 1
  <2>1. s \in Nat
    BY DeviceAssumption
  <2> QED BY <1>1, <1>2, <2>1 DEF NewPacket, Packet
<1>4. /\ made' = made + 1 /\ config.queueDisc
      /\ pc' = "run" /\ quota' = Quota /\ after' = "loop"
      /\ UNCHANGED <<config, simulator, flags, device, received, discarded>>
  BY DEF SendToQueueDisc, StartRun
<1>5. DeviceInv' /\ FlagsInv'
  BY <1>4 DEF IInv, DeviceInv, FlagsInv, flags, device, simulator
<1>6. RunInv'
  BY <1>4, QueueAssumption DEF RunInv
<1>7. ConfigInv'
  BY <1>4 DEF IInv, ConfigInv
<1>8. PlacesInv'
  <2>1. CASE Len(disc) + 1 > DiscSize
    <3>1. refused' = refused \cup {made + 1} /\ UNCHANGED disc
      BY <2>1 DEF SendToQueueDisc
    <3>2. /\ Placed(received, Wire, m_queue, disc, refused \cup {made + 1}, discarded, made + 1)
          /\ Ordered(received, Wire, m_queue, disc)
      BY IsRefused DEF IInv, PlacesInv
    <3> QED BY <1>4, <3>1, <3>2 DEF PlacesInv, Wire, device, simulator
  <2>2. CASE ~(Len(disc) + 1 > DiscSize)
    <3>1. disc' = Append(disc, p) /\ UNCHANGED refused
      BY <1>1, <2>2 DEF SendToQueueDisc
    <3>2. /\ Placed(received, Wire, m_queue, Append(disc, p), refused, discarded, made + 1)
          /\ Ordered(received, Wire, m_queue, Append(disc, p))
      BY <1>3, Waits DEF IInv, PlacesInv
    <3> QED BY <1>4, <3>1, <3>2 DEF PlacesInv, Wire, device, simulator
  <2> QED BY <2>1, <2>2
<1> QED BY <1>5, <1>6, <1>7, <1>8 DEF IInv

LEMMA DequeuePacketKeeps ==
    ASSUME IInv, DequeuePacket
    PROVE  IInv'
<1>1. /\ pc = "run" /\ disc # << >> /\ Send(Head(disc)) /\ disc' = Tail(disc)
      /\ UNCHANGED <<config, m_currentTs, received, made, refused>>
  BY DEF DequeuePacket
<1>2. RunInv'
  <2>1. CASE disc' = << >> \/ IsStopped' \/ quota = 1
    BY <2>1 DEF DequeuePacket, RunEnd, IInv, RunInv
  <2>2. CASE ~(disc' = << >> \/ IsStopped' \/ quota = 1)
    <3>1. quota' = quota - 1 /\ quota # 1 /\ UNCHANGED <<pc, after>>
      BY <2>2 DEF DequeuePacket
    <3>2. quota \in 0..Quota /\ quota # 0 /\ Quota \in Nat
      BY <1>1, QueueAssumption DEF IInv, RunInv
    <3>3. quota' \in 0..Quota /\ quota' # 0
      BY <3>1, <3>2
    <3> QED BY <3>1, <3>3 DEF IInv, RunInv
  <2> QED BY <2>1, <2>2
<1>3. ConfigInv'
  BY <1>1 DEF IInv, ConfigInv
<1>4. DeviceInv /\ FlagsInv /\ ConfigInv
  BY DEF IInv
<1>5. PICK D, F, n : D = disc /\ F = refused /\ n = made
  OBVIOUS
<1>6. /\ D # << >> /\ Send(Head(D)) /\ m_currentTs' = m_currentTs
      /\ Placed(received, Wire, m_queue, D, F, discarded, n)
      /\ Ordered(received, Wire, m_queue, D)
  BY <1>1, <1>5 DEF IInv, PlacesInv
<1>7. /\ DeviceInv' /\ FlagsInv'
      /\ Placed(received, Wire', m_queue', Tail(D), F, discarded', n)
      /\ Ordered(received, Wire', m_queue', Tail(D))
  BY <1>4, <1>6, SendKeeps
<1>8. PlacesInv'
  BY <1>1, <1>5, <1>7 DEF PlacesInv
<1> QED BY <1>2, <1>3, <1>7, <1>8 DEF IInv

LEMMA TransmitCompleteKeeps ==
    ASSUME IInv, NEW e, TransmitComplete(e)
    PROVE  IInv'
<1>1. /\ IsNext(e, "complete") /\ m_currentTs' = e.ts
      /\ UNCHANGED <<config, disc, flags, received, run, made, refused, discarded>>
  BY DEF TransmitComplete
<1>2. PICK events : events = m_events \ {e}
  OBVIOUS
<1>3. /\ e \in m_events /\ e.ts \in Nat /\ e.does[1] = "complete"
      /\ EventsAt(events, e.ts, m_uid) /\ Sending(events) /\ Idle(events, e.ts)
      /\ Of(events, "receive") = Wire
  BY <1>1, <1>2, Takes DEF IInv, DeviceInv, Wire
<1>4. FlagsInv' /\ RunInv' /\ ConfigInv'
  BY <1>1 DEF IInv, FlagsInv, RunInv, ConfigInv, flags, run
<1>5. m_uid \in Nat /\ m_txMachineState \in {"READY", "BUSY"}
  BY DEF IInv, DeviceInv
<1>6. CASE m_queue = << >>
  <2>1. /\ m_txMachineState' = "READY" /\ m_events' = events
        /\ UNCHANGED <<m_uid, m_queue>>
    BY <1>2, <1>6 DEF TransmitComplete
  <2>2. DeviceInv'
    BY <1>1, <1>3, <1>5, <1>6, <2>1 DEF DeviceInv
  <2>3. Wire' = Wire
    BY <1>3, <2>1 DEF Wire
  <2>4. PlacesInv'
    BY <1>1, <2>1, <2>3 DEF IInv, PlacesInv
  <2> QED BY <1>4, <2>2, <2>4 DEF IInv
<1>7. CASE m_queue # << >>
  <2>1. PICK R, Q, D, F, X, n :
           R = received /\ Q = m_queue /\ D = disc /\ F = refused /\ X = discarded /\ n = made
    OBVIOUS
  <2>2. /\ m_queue' = Tail(Q)
        /\ ScheduleAll(events, e.ts, PacketDequeued(Head(Q)) \o TransmitStart(Head(Q)))
        /\ UNCHANGED m_txMachineState
    BY <1>2, <1>7, <2>1 DEF TransmitComplete
  <2>3. /\ Placed(R, Of(events, "receive"), Q, D, F, X, n)
        /\ Ordered(R, Of(events, "receive"), Q, D) /\ Q # << >>
    BY <1>3, <1>7, <2>1 DEF IInv, PlacesInv
  <2>4. /\ EventsAt(m_events', e.ts, m_uid') /\ Sending(m_events') /\ m_uid' \in Nat
        /\ Placed(R, Of(m_events', "receive"), Tail(Q), D, F, X, n)
        /\ Ordered(R, Of(m_events', "receive"), Tail(Q), D)
    BY <1>3, <1>5, <2>2, <2>3, Starts
  <2>5. m_txMachineState # "READY"
    BY <1>7 DEF IInv, DeviceInv
  <2>6. DeviceInv'
    BY <1>1, <1>3, <1>5, <2>2, <2>4, <2>5 DEF DeviceInv
  <2>7. PlacesInv'
    BY <1>1, <2>1, <2>2, <2>4 DEF PlacesInv, Wire
  <2> QED BY <1>4, <2>6, <2>7 DEF IInv
<1> QED BY <1>6, <1>7

LEMMA ReceiveKeeps ==
    ASSUME IInv, NEW e, Receive(e)
    PROVE  IInv'
<1>1. /\ IsNext(e, "receive") /\ m_currentTs' = e.ts /\ m_events' = m_events \ {e}
      /\ received' = Append(received, e.does[2].id)
      /\ UNCHANGED <<config, m_uid, disc, flags, device, run, made, refused, discarded>>
  BY DEF Receive
<1>2. /\ e \in m_events /\ e.ts \in Nat /\ e.does[1] = "receive"
      /\ EventsAt(m_events', e.ts, m_uid) /\ Sending(m_events')
      /\ Idle(m_events, m_currentTs) => Idle(m_events', e.ts)
  BY <1>1, Takes DEF IInv, DeviceInv
<1>3. FlagsInv' /\ RunInv' /\ ConfigInv'
  BY <1>1 DEF IInv, FlagsInv, RunInv, ConfigInv, flags, run
<1>4. DeviceInv'
  BY <1>1, <1>2 DEF IInv, DeviceInv, device
<1>5. PlacesInv'
  <2>1. e \in Wire /\ Wire' = Wire \ {e}
    BY <1>1, <1>2 DEF Wire, Of
  <2>2. \A f \in Wire \ {e} : KeyLess(e, f)
    BY <1>1 DEF IsNext, Wire, Of
  <2>3. PICK W, R, Q, D, F, X, n :
           W = Wire /\ R = received /\ Q = m_queue /\ D = disc /\ F = refused
           /\ X = discarded /\ n = made
    OBVIOUS
  <2>4. /\ Placed(Append(R, e.does[2].id), W \ {e}, Q, D, F, X, n)
        /\ Ordered(Append(R, e.does[2].id), W \ {e}, Q, D)
    BY <2>1, <2>2, <2>3, Lands DEF IInv, PlacesInv
  <2> QED BY <1>1, <2>1, <2>3, <2>4 DEF PlacesInv, device
<1> QED BY <1>3, <1>4, <1>5 DEF IInv

LEMMA NotifyTransmittedBytesKeeps ==
    ASSUME IInv, NEW e, NotifyTransmittedBytes(e)
    PROVE  IInv'
<1>1. PICK limits, isFreed :
        /\ limits = Completed(m_queueLimits, e.does[2].size + PppHeader, e.ts)
        /\ isFreed = (config.queueLimits /\ Available(limits) >= 0)
        /\ m_queueLimits' = IF config.queueLimits THEN limits ELSE m_queueLimits
        /\ m_stoppedByQueueLimits' = (m_stoppedByQueueLimits /\ ~isFreed)
        /\ IF m_stoppedByQueueLimits /\ isFreed /\ config.queueDisc
           THEN pc' = "run" /\ quota' = Quota /\ after' = "wake"
           ELSE pc' = "wake" /\ UNCHANGED <<quota, after>>
  BY Zenon DEF NotifyTransmittedBytes, StartRun
<1>2. /\ IsNext(e, "dequeued") /\ m_currentTs' = e.ts /\ m_events' = m_events \ {e}
      /\ UNCHANGED <<config, m_uid, disc, m_stoppedByDevice, device, received,
                     made, refused, discarded>>
  BY DEF NotifyTransmittedBytes
<1>3. /\ e \in m_events /\ e.ts \in Nat /\ e.does[1] = "dequeued"
      /\ EventsAt(m_events', e.ts, m_uid) /\ Sending(m_events')
      /\ Idle(m_events, m_currentTs) => Idle(m_events', e.ts)
      /\ Of(m_events', "receive") = Of(m_events, "receive")
  BY <1>2, Takes DEF IInv, DeviceInv
<1>4. DeviceInv'
  BY <1>2, <1>3 DEF IInv, DeviceInv, device
<1>5. FlagsInv'
  <2>1. e.does[2] \in Packet
    BY <1>3 DEF IInv, DeviceInv, EventsAt
  <2>2. e.does[2].size + PppHeader \in Nat
    BY <2>1, DeviceAssumption DEF Packet
  <2>3. limits \in Limits
    BY <1>1, <1>3, <2>2, CompletedType DEF IInv, FlagsInv
  <2>4. m_queueLimits' \in Limits
    BY <1>1, <2>3 DEF IInv, FlagsInv
  <2>5. m_stoppedByQueueLimits' \in BOOLEAN
    BY <1>1, Zenon DEF IInv, FlagsInv
  <2> QED BY <1>2, <2>4, <2>5 DEF IInv, FlagsInv
<1>6. RunInv'
  <2>1. CASE m_stoppedByQueueLimits /\ isFreed /\ config.queueDisc
    BY <1>1, <2>1, QueueAssumption DEF IInv, RunInv
  <2>2. CASE ~(m_stoppedByQueueLimits /\ isFreed /\ config.queueDisc)
    BY <1>1, <2>2 DEF IInv, RunInv
  <2> QED BY <2>1, <2>2
<1>7. ConfigInv'
  BY <1>2 DEF IInv, ConfigInv
<1>8. PlacesInv'
  BY <1>2, <1>3 DEF IInv, PlacesInv, Wire, device
<1> QED BY <1>4, <1>5, <1>6, <1>7, <1>8 DEF IInv

LEMMA StepKeeps == IInv /\ [Next]_vars => IInv'
<1> SUFFICES ASSUME IInv, [Next]_vars PROVE IInv'
  OBVIOUS
<1>1. ASSUME NEW s \in Sizes, SendWithoutQueueDisc(s) PROVE IInv'
  BY <1>1, SendWithoutQueueDiscKeeps
<1>2. ASSUME NEW s \in Sizes, SendToQueueDisc(s) PROVE IInv'
  BY <1>2, SendToQueueDiscKeeps
<1>3. CASE DequeueNothing
  <2>1. RunInv'
    BY <1>3 DEF DequeueNothing, RunEnd, IInv, RunInv
  <2> QED BY <1>3, <2>1 DEF DequeueNothing, IInv, DeviceInv, FlagsInv, ConfigInv,
             PlacesInv, Wire, simulator, flags, device
<1>4. CASE DequeuePacket
  BY <1>4, DequeuePacketKeeps
<1>5. CASE Wake
  <2>1. RunInv'
    BY <1>5, QueueAssumption DEF Wake, StartRun, IInv, RunInv
  <2>2. m_stoppedByDevice' \in BOOLEAN
    BY <1>5 DEF Wake, IInv, FlagsInv
  <2>3. UNCHANGED <<config, simulator, disc, m_stoppedByQueueLimits, m_queueLimits,
                    device, received, made, refused, discarded>>
    BY <1>5 DEF Wake
  <2> QED BY <2>1, <2>2, <2>3 DEF IInv, DeviceInv, FlagsInv, ConfigInv,
             PlacesInv, Wire, simulator, device
<1>6. ASSUME NEW e, TransmitComplete(e) PROVE IInv'
  BY <1>6, TransmitCompleteKeeps
<1>7. ASSUME NEW e, Receive(e) PROVE IInv'
  BY <1>7, ReceiveKeeps
<1>8. ASSUME NEW e, NotifyTransmittedBytes(e) PROVE IInv'
  BY <1>8, NotifyTransmittedBytesKeeps
<1>9. CASE Advance
  <2>1. /\ m_currentTs' = m_currentTs + 1 /\ \A e \in m_events : m_currentTs < e.ts
        /\ UNCHANGED <<config, m_events, m_uid, disc, flags, device, received, run,
                       made, refused, discarded>>
    BY <1>9 DEF Advance
  <2>2. m_currentTs \in Nat
    BY DEF IInv, DeviceInv
  <2>3. EventsAt(m_events, m_currentTs + 1, m_uid)
    <3>1. ASSUME NEW e \in m_events PROVE m_currentTs + 1 <= e.ts
      <4>1. e.ts \in Nat
        BY DEF IInv, DeviceInv, EventsAt
      <4> QED BY <2>1, <2>2, <4>1
    <3> QED BY <3>1 DEF IInv, DeviceInv, EventsAt
  <2>4. ASSUME Idle(m_events, m_currentTs) PROVE Idle(m_events, m_currentTs + 1)
    <3>1. ASSUME NEW e \in Of(m_events, "receive") PROVE e.ts <= m_currentTs + 1 + Delay
      <4>1. e.ts \in Nat /\ e.ts <= m_currentTs + Delay
        BY <2>4 DEF IInv, DeviceInv, EventsAt, Idle, Of
      <4> QED BY <2>2, <4>1, DeviceAssumption
    <3> QED BY <2>4, <3>1 DEF Idle
  <2>5. DeviceInv'
    BY <2>1, <2>2, <2>3, <2>4 DEF IInv, DeviceInv, device
  <2> QED BY <2>1, <2>5 DEF IInv, FlagsInv, RunInv, ConfigInv, PlacesInv, Wire,
             flags, device, run
<1>10. CASE UNCHANGED vars
  BY <1>10 DEF IInv, DeviceInv, FlagsInv, RunInv, ConfigInv, PlacesInv, Wire,
       vars, simulator, flags, device, run
<1> QED BY <1>1, <1>2, <1>3, <1>4, <1>5, <1>6, <1>7, <1>8, <1>9, <1>10
        DEF Next, Simulator, ProcessOneEvent, Finished

LEMMA Invariant == Spec => []IInv
BY InitHolds, StepKeeps, PTL DEF Spec

(* What the fields of every component are; that a packet which the device  *)
(* or the traffic control layer has dropped was sent is part of it.        *)
THEOREM TypeHolds == Spec => []TypeOK
<1>1. IInv => TypeOK
  <2> SUFFICES ASSUME IInv PROVE TypeOK
    OBVIOUS
  <2>1. /\ disc \in Seq(Packet) /\ m_queue \in Seq(Packet)
        /\ made \in Nat /\ refused \subseteq 1..made /\ discarded \subseteq 1..made
    BY DEF IInv, PlacesInv, Placed
  <2>2. /\ m_currentTs \in Nat /\ m_uid \in Nat /\ m_txMachineState \in {"READY", "BUSY"}
        /\ \A e \in m_events : e.ts \in Nat /\ e.uid \in Nat
    BY DEF IInv, DeviceInv, EventsAt
  <2>3. {m_stoppedByDevice, m_stoppedByQueueLimits} \subseteq BOOLEAN
    BY Zenon DEF IInv, FlagsInv
  <2> QED BY <2>1, <2>2, <2>3 DEF IInv, FlagsInv, RunInv, ConfigInv, TypeOK
<1> QED BY Invariant, <1>1, PTL

(* No packet is lost, doubled or overtaken between IP and the other end,   *)
(* however the events of the device, of the wire and of the flow control   *)
(* follow each other: what Send, Run, TransmitComplete and Receive hand on *)
(* is in exactly one place, in the order in which it was sent.             *)
THEOREM PacketsInOrderHolds == Spec => []PacketsInOrder
<1>1. IInv => PacketsInOrder
  <2> SUFFICES ASSUME IInv PROVE PacketsInOrder
    OBVIOUS
  <2>1. OnTheWire = Wire
    BY DEF OnTheWire, Pending, Wire, Of
  <2>2. /\ Placed(received, OnTheWire, m_queue, disc, refused, discarded, made)
        /\ Ordered(received, OnTheWire, m_queue, disc)
    BY <2>1 DEF IInv, PlacesInv
  <2>3. /\ Elements(received) = {received[i] : i \in 1..Len(received)}
        /\ Flies(OnTheWire) = {e.does[2].id : e \in OnTheWire}
        /\ Ids(m_queue) = {m_queue[i].id : i \in 1..Len(m_queue)}
        /\ Ids(disc) = {disc[i].id : i \in 1..Len(disc)}
    BY DEF Elements, Flies, Ids
  <2> QED BY <2>2, <2>3, Zenon DEF PacketsInOrder, Placed, Ordered, Precede, Rises
<1> QED BY Invariant, <1>1, PTL

---------------------------------------------------------------------------
(* A device whose queue counts packets: PacketEnqueued, which the queue    *)
(* calls with the packet in it, stops the queue disc while there is no     *)
(* room for another one.                                                   *)

InPackets == Unit = "packets"

StopInv == config.flowControl =>
    /\ discarded = {}
    /\ Len(m_queue) + 1 > QueueSize => m_stoppedByDevice

LEMMA SendNeverDiscards ==
    ASSUME InPackets, IInv, StopInv, NEW p, Send(p),
           config.flowControl => ~IsStopped, UNCHANGED config
    PROVE  StopInv'
<1> SUFFICES ASSUME config.flowControl PROVE StopInv'
  BY DEF StopInv
<1>1. /\ HasRoom(p) <=> Len(m_queue) + 1 <= QueueSize
      /\ \A q : WouldOverflow(q) <=> Len(q) + 1 > QueueSize
  BY DEF InPackets, HasRoom, WouldOverflow, CurrentSize
<1>2. m_queue \in Seq(Packet) /\ Len(m_queue) \in Nat /\ QueueSize \in Nat \ {0}
  BY QueueAssumption DEF IInv, PlacesInv, Placed
<1>3. HasRoom(p)
  BY <1>1, <1>2 DEF StopInv, IsStopped
<1>4. PICK P : P = Append(m_queue, p)
  OBVIOUS
<1>5. /\ PacketEnqueued(p, P) /\ discarded' = discarded
      /\ m_queue' = IF m_txMachineState = "READY" THEN Tail(P) ELSE P
  BY <1>3, <1>4 DEF Send
<1>6. Len(P) + 1 > QueueSize => m_stoppedByDevice'
  BY <1>1, <1>5 DEF PacketEnqueued
<1>7. Len(P) = Len(m_queue) + 1 /\ Len(Tail(P)) = Len(P) - 1
  BY <1>2, <1>4
<1>8. Len(m_queue') + 1 > QueueSize => m_stoppedByDevice'
  BY <1>2, <1>5, <1>6, <1>7
<1> QED BY <1>5, <1>8 DEF StopInv

(* With flow control a queue that counts packets is never given one that   *)
(* it has no room for.  (One that counts bytes may be: PacketEnqueued asks *)
(* for room for a packet of the size of the MTU, without its header.)      *)
THEOREM DeviceNeverDiscardsHolds ==
    ASSUME InPackets
    PROVE  Spec => []DeviceNeverDiscards
<1>1. Init => StopInv
  BY QueueAssumption DEF Init, StopInv
<1>2. IInv /\ StopInv /\ [Next]_vars => StopInv'
  <2> SUFFICES ASSUME IInv, StopInv, [Next]_vars PROVE StopInv'
    OBVIOUS
  <2>1. ASSUME NEW s \in Sizes, SendWithoutQueueDisc(s) PROVE StopInv'
    <3>1. UNCHANGED config
      BY <2>1 DEF SendWithoutQueueDisc
    <3>2. CASE config.flowControl /\ IsStopped
      BY <2>1, <3>2 DEF SendWithoutQueueDisc, StopInv, flags, device
    <3>3. CASE ~(config.flowControl /\ IsStopped)
      <4>1. Send(NewPacket(s))
        BY <2>1, <3>3 DEF SendWithoutQueueDisc
      <4> QED BY <3>1, <3>3, <4>1, SendNeverDiscards
    <3> QED BY <3>2, <3>3
  <2>2. ASSUME NEW s \in Sizes, SendToQueueDisc(s) PROVE StopInv'
    BY <2>2 DEF SendToQueueDisc, StopInv, flags, device
  <2>3. CASE DequeueNothing
    BY <2>3 DEF DequeueNothing, StopInv, flags, device
  <2>4. CASE DequeuePacket
    <3>1. Send(Head(disc)) /\ ~(config.flowControl /\ IsStopped) /\ UNCHANGED config
      BY <2>4 DEF DequeuePacket
    <3> QED BY <3>1, SendNeverDiscards
  <2>5. CASE Wake
    <3>1. \A q : WouldOverflow(q) <=> Len(q) + 1 > QueueSize
      BY DEF InPackets, WouldOverflow, CurrentSize
    <3> QED BY <2>5, <3>1 DEF Wake, StopInv, device
  <2>6. ASSUME NEW e, TransmitComplete(e) PROVE StopInv'
    <3>1. /\ m_queue' = IF m_queue = << >> THEN m_queue ELSE Tail(m_queue)
          /\ UNCHANGED <<config, flags, discarded>>
      BY <2>6 DEF TransmitComplete
    <3>2. Len(m_queue) \in Nat /\ Len(m_queue') <= Len(m_queue) /\ Len(m_queue') \in Nat
      BY <3>1, TailIds DEF IInv, PlacesInv, Placed
    <3> QED BY <3>1, <3>2, QueueAssumption DEF StopInv, flags
  <2>7. ASSUME NEW e, Receive(e) PROVE StopInv'
    BY <2>7 DEF Receive, StopInv, flags, device
  <2>8. ASSUME NEW e, NotifyTransmittedBytes(e) PROVE StopInv'
    BY <2>8 DEF NotifyTransmittedBytes, StopInv, device
  <2>9. CASE Advance
    BY <2>9 DEF Advance, StopInv, flags, device
  <2>10. CASE UNCHANGED vars
    BY <2>10 DEF StopInv, vars, flags, device
  <2> QED BY <2>1, <2>2, <2>3, <2>4, <2>5, <2>6, <2>7, <2>8, <2>9, <2>10
          DEF Next, Simulator, ProcessOneEvent, Finished
<1>3. StopInv => DeviceNeverDiscards
  BY DEF StopInv, DeviceNeverDiscards
<1> QED BY Invariant, <1>1, <1>2, <1>3, PTL DEF Spec

---------------------------------------------------------------------------
(* Why the link is never idle while packets wait.  The device is busy      *)
(* until the end of a transmission that is to come (RoundInv), and what    *)
(* its queue has put off is done before that end.  What stops the queue    *)
(* disc is undone by what the device still has: its queue or the work that *)
(* it has put off (StopsInv, LimitsInv).  A queue disc that is not stopped *)
(* has been emptied (WaitsInv), when a run may send every packet of it; or *)
(* when the queue of the device counts packets and there are no queue      *)
(* limits, because a run that was woken finds room for one packet          *)
(* (SlotsInv).                                                             *)

Load(p) == p.size + PppHeader

(* The packets of the queue q are a bytes, counted one after the other. *)
Weighs(q, a) ==
    \E b \in [0..Len(q) -> Int] :
        /\ b[0] = 0 /\ b[Len(q)] = a
        /\ \A i \in 1..Len(q) : b[i] = b[i - 1] + Load(q[i])

RoundInv ==
    /\ m_txMachineState = "BUSY" => Of(m_events, "complete") # {}
    /\ \A d \in Of(m_events, "dequeued") :
          /\ d.ts = m_currentTs
          /\ Of(m_events, "complete") # {}
          /\ \A c \in Of(m_events, "complete") : KeyLess(d, c)
    /\ \A d, f \in Of(m_events, "dequeued") : d = f

(* The bytes in the queue and of the packet whose departure has not been   *)
(* notified yet are those that the queue limits count.                     *)
Counts(l, q, E) ==
    /\ \E a, x \in Int : /\ Weighs(q, a)
                         /\ \A d \in Of(E, "dequeued") : x = Load(d.does[2])
                         /\ Of(E, "dequeued") = {} => x = 0
                         /\ l.numQueued = l.numCompleted + a + x
    /\ l.adjLimit >= l.numCompleted

LimitsInv ==
    /\ m_stoppedByQueueLimits => config.queueLimits
    /\ config.queueLimits =>
          /\ config.flowControl
          /\ Counts(m_queueLimits, m_queue, m_events)
          /\ m_stoppedByQueueLimits => m_queueLimits.numQueued > m_queueLimits.numCompleted

StopsInv ==
    m_stoppedByDevice =>
        /\ config.flowControl
        /\ \/ m_queue # << >> \/ Of(m_events, "dequeued") # {}
           \/ pc = "wake" \/ (pc = "run" /\ after = "wake")

(* The work that the queue has put off is being done: Wake is still to     *)
(* come.                                                                   *)
Stalls == pc = "wake" \/ (pc = "run" /\ after = "wake")

(* A device whose queue counts packets stops the queue disc when the queue *)
(* is full; until Wake at most one packet leaves it.                       *)
SlotsInv ==
    InPackets /\ m_stoppedByDevice =>
        /\ Len(m_queue) + 1 >= QueueSize
        /\ Of(m_events, "dequeued") = {} /\ ~Stalls => Len(m_queue) >= QueueSize

(* A run may send every packet of the queue disc; or what a run that is    *)
(* woken finds room for, it sends.                                         *)
QuotaSuffices == Quota >= DiscSize
Enough == QuotaSuffices \/ (InPackets /\ ~config.queueLimits)

AlmostFull ==
    /\ InPackets /\ ~config.queueLimits /\ config.flowControl
    /\ IsStopped \/ Len(m_queue) + 1 >= QueueSize

WaitsInv ==
    /\ \A i \in 1..Len(disc) : disc[i].size <= Mtu
    /\ Len(disc) <= DiscSize
    /\ Enough =>
          /\ pc = "run" => Len(disc) <= quota \/ AlmostFull
          /\ pc # "run" /\ disc # << >> => config.flowControl /\ IsStopped

WorkInv == RoundInv /\ LimitsInv /\ StopsInv /\ SlotsInv /\ WaitsInv

LEMMA NoWeight == Weighs(<< >>, 0) /\ \A a : Weighs(<< >>, a) => a = 0
<1>1. Len(<< >>) = 0 /\ 1..0 = {}
  OBVIOUS
<1>2. PICK b : b = [i \in 0..0 |-> 0]
  OBVIOUS
<1>3. b \in [0..0 -> Int] /\ b[0] = 0
  <2>1. 0 \in 0..0
    OBVIOUS
  <2> QED BY <1>2, <2>1
<1>4. Weighs(<< >>, 0)
  BY <1>1, <1>3 DEF Weighs
<1>5. ASSUME NEW a, Weighs(<< >>, a) PROVE a = 0
  BY <1>1, <1>5 DEF Weighs
<1> QED BY <1>4, <1>5

LEMMA AppendWeighs ==
    ASSUME NEW q \in Seq(Packet), NEW p \in Packet, NEW a \in Int, Weighs(q, a)
    PROVE  Weighs(Append(q, p), a + Load(p)) /\ Load(p) \in Nat
<1>1. PICK r : r = Append(q, p)
  OBVIOUS
<1>2. PICK n \in Nat : n = Len(q)
  OBVIOUS
<1>3. Len(r) = n + 1 /\ r[n + 1] = p /\ \A i \in 1..n : r[i] = q[i]
  BY <1>1, <1>2
<1>4. PICK b \in [0..n -> Int] :
        b[0] = 0 /\ b[n] = a /\ \A i \in 1..n : b[i] = b[i - 1] + Load(q[i])
  BY <1>2 DEF Weighs
<1>5. Load(p) \in Nat
  BY DeviceAssumption DEF Load, Packet
<1>6. PICK z \in Int : z = a + Load(p)
  BY <1>5
<1>7. PICK c : c = [i \in 0..n+1 |-> IF i = n + 1 THEN z ELSE b[i]]
  OBVIOUS
<1>8. /\ c[n + 1] = z /\ \A i \in 0..n : c[i] = b[i] /\ c[i] \in Int
  BY <1>4, <1>6, <1>7
<1>9. c \in [0..n+1 -> Int]
  BY <1>7, <1>4, <1>6
<1>10. ASSUME NEW i \in 1..n+1 PROVE c[i] = c[i - 1] + Load(r[i])
  <2>1. CASE i = n + 1
    <3>1. n \in 0..n /\ i - 1 = n
      BY <2>1
    <3>2. c[i - 1] = a
      BY <1>4, <1>8, <3>1
    <3> QED BY <1>3, <1>6, <1>8, <2>1, <3>2
  <2>2. CASE i # n + 1
    <3>1. i \in 1..n /\ i - 1 \in 0..n /\ i \in 0..n
      BY <2>2
    <3>2. c[i] = b[i] /\ c[i - 1] = b[i - 1] /\ r[i] = q[i]
      BY <1>3, <1>8, <3>1
    <3> QED BY <1>4, <3>1, <3>2
  <2> QED BY <2>1, <2>2
<1>11. c[0] = 0
  <2>1. 0 \in 0..n
    OBVIOUS
  <2> QED BY <1>4, <1>8, <2>1
<1>12. Weighs(r, z)
  BY <1>3, <1>8, <1>9, <1>10, <1>11 DEF Weighs
<1> QED BY <1>1, <1>5, <1>6, <1>12

LEMMA TailWeighs ==
    ASSUME NEW q \in Seq(Packet), q # << >>, NEW a \in Int, Weighs(q, a)
    PROVE  Weighs(Tail(q), a - Load(Head(q))) /\ Load(Head(q)) \in Nat
<1>1. PICK r : r = Tail(q)
  OBVIOUS
<1>2. PICK n \in Nat : n + 1 = Len(q)
  <2>1. Len(q) - 1 \in Nat
    OBVIOUS
  <2> QED BY <2>1
<1>3. PICK p \in Packet : p = Head(q) /\ p = q[1]
  BY TailIds
<1>4. Len(r) = n /\ \A i \in 1..n : r[i] = q[i + 1]
  BY <1>1, <1>2
<1>5. PICK b \in [0..n+1 -> Int] :
        b[0] = 0 /\ b[n + 1] = a /\ \A i \in 1..n+1 : b[i] = b[i - 1] + Load(q[i])
  BY <1>2 DEF Weighs
<1>6. Load(p) \in Nat
  BY DeviceAssumption DEF Load, Packet
<1>7. PICK l \in Int : l = Load(p)
  BY <1>6
<1>8. b[1] = l
  <2>1. 1 \in 1..n+1 /\ 1 - 1 = 0
    OBVIOUS
  <2> QED BY <1>3, <1>5, <1>7, <2>1
<1>9. PICK c : c = [i \in 0..n |-> b[i + 1] - l]
  OBVIOUS
<1>10. \A i \in 0..n : c[i] = b[i + 1] - l /\ c[i] \in Int
  <2>1. ASSUME NEW i \in 0..n PROVE c[i] = b[i + 1] - l /\ c[i] \in Int
    <3>1. i + 1 \in 0..n+1
      OBVIOUS
    <3>2. b[i + 1] \in Int
      BY <1>5, <3>1
    <3> QED BY <1>9, <3>2
  <2> QED BY <2>1
<1>11. c \in [0..n -> Int]
  BY <1>9, <1>10
<1>12. c[0] = 0 /\ c[n] = a - l
  <2>1. 0 \in 0..n /\ n \in 0..n
    OBVIOUS
  <2> QED BY <1>5, <1>8, <1>10, <2>1
<1>13. ASSUME NEW i \in 1..n PROVE c[i] = c[i - 1] + Load(r[i])
  <2>1. /\ i \in 0..n /\ i - 1 \in 0..n /\ i + 1 \in 1..n+1 /\ i - 1 + 1 = i
        /\ i + 1 - 1 = i /\ i \in 0..n+1 /\ i + 1 \in 0..n+1
    OBVIOUS
  <2>2. c[i] = b[i + 1] - l /\ c[i - 1] = b[i] - l
    BY <1>10, <2>1
  <2>3. b[i + 1] = b[i] + Load(q[i + 1]) /\ r[i] = q[i + 1]
    BY <1>4, <1>5, <2>1
  <2>4. b[i] \in Int /\ Load(r[i]) \in Int
    <3>1. q[i + 1] \in Packet
      BY <1>2
    <3>2. \A u \in Packet : Load(u) \in Int
      BY DeviceAssumption DEF Load, Packet
    <3> QED BY <1>5, <2>1, <2>3, <3>1, <3>2
  <2> QED BY <2>2, <2>3, <2>4
<1>14. Weighs(r, a - l)
  BY <1>4, <1>11, <1>12, <1>13 DEF Weighs
<1> QED BY <1>1, <1>3, <1>6, <1>7, <1>14

LEMMA NoBytes == Bytes(<< >>) = 0
<1> DEFINE F(g) == [s \in SUBSET {} |->
         IF s = {} THEN 0
         ELSE LET x == CHOOSE i \in s : TRUE
              IN  (<< >>[x].size + PppHeader) + g[s \ {x}]]
<1> HIDE DEF F
<1>1. DOMAIN << >> = {}
  OBVIOUS
<1>2. Bytes(<< >>) = (CHOOSE g : g = F(g))[{}]
  BY <1>1, Zenon DEF Bytes, MapThenFoldSet, F
<1>3. [s \in SUBSET {} |-> 0] = F([s \in SUBSET {} |-> 0])
  BY DEF F
<1>4. PICK h : h = (CHOOSE g : g = F(g))
  OBVIOUS
<1>5. h = F(h)
  BY <1>3, <1>4, Zenon
<1>6. h[{}] = 0
  BY <1>5 DEF F
<1> QED BY <1>2, <1>4, <1>6

(* An empty queue has room for every packet and does not stop the queue    *)
(* disc.                                                                   *)
LEMMA EmptyHasRoom ==
    ASSUME m_queue = << >>
    PROVE  /\ ~WouldOverflow(m_queue)
           /\ \A p \in Packet : p.size <= Mtu => HasRoom(p)
<1>1. CurrentSize(m_queue) = 0
  <2>1. Len(<< >>) = 0
    OBVIOUS
  <2> QED BY <2>1, NoBytes DEF CurrentSize
<1>2. ~WouldOverflow(m_queue)
  BY <1>1, QueueAssumption, DeviceAssumption DEF WouldOverflow
<1>3. ASSUME NEW p \in Packet, p.size <= Mtu PROVE HasRoom(p)
  BY <1>1, <1>3, QueueAssumption, DeviceAssumption DEF HasRoom, Packet
<1> QED BY <1>2, <1>3

(* The device starts to send when nothing is under way. *)
LEMMA Restarts ==
    ASSUME NEW events, NEW now \in Nat, NEW p \in Packet, m_uid \in Nat,
           Of(events, "complete") = {}, Of(events, "dequeued") = {},
           ScheduleAll(events, now, PacketDequeued(p) \o TransmitStart(p))
    PROVE  /\ Of(m_events', "complete") # {}
           /\ \A d \in Of(m_events', "dequeued") :
                 /\ d.ts = now /\ d.does[2] = p
                 /\ \A c \in Of(m_events', "complete") : KeyLess(d, c)
           /\ \A d, f \in Of(m_events', "dequeued") : d = f
           /\ config.flowControl => Of(m_events', "dequeued") # {}
<1>1. Planned(events, now, p)
  BY Scheduled
<1>2. PICK c, g, S :
        /\ m_events' = events \cup {c, g} \cup S
        /\ m_uid' \in Nat /\ m_uid <= m_uid'
        /\ c.does = <<"complete">> /\ c.ts = now + (p.size + PppHeader + Gap)
        /\ g.does = <<"receive", p>> /\ g.ts = now + (p.size + PppHeader + Delay)
        /\ \A d \in S : d.does = <<"dequeued", p>> /\ d.ts = now
        /\ \A e \in {c, g} \cup S : e.uid \in Nat /\ m_uid <= e.uid /\ e.uid < m_uid'
        /\ \A d, f \in S : d = f
        /\ \A d \in S : d.uid < c.uid
        /\ config.flowControl => S # {}
  BY <1>1, Zenon DEF Planned
<1>3. /\ c.does[1] = "complete" /\ g.does[1] = "receive"
      /\ \A d \in S : d.does[1] = "dequeued" /\ d.does[2] = p
  BY <1>2
<1>4. c.ts \in Nat /\ now <= c.ts
  <2>1. p.size + PppHeader + Gap \in Nat
    BY DeviceAssumption DEF Packet
  <2> QED BY <1>2, <2>1
<1>5. Of(m_events', "complete") = {c}
  <2>1. ASSUME NEW e \in m_events', e.does[1] = "complete" PROVE e = c
    BY <1>2, <1>3, <2>1 DEF Of
  <2> QED BY <1>2, <1>3, <2>1 DEF Of
<1>6. Of(m_events', "dequeued") = S
  <2>1. ASSUME NEW e \in m_events', e.does[1] = "dequeued" PROVE e \in S
    BY <1>2, <1>3, <2>1 DEF Of
  <2> QED BY <1>2, <1>3, <2>1 DEF Of
<1>7. ASSUME NEW d \in S PROVE KeyLess(d, c)
  <2>1. d.ts = now /\ d.uid < c.uid
    BY <1>2
  <2> QED BY <1>4, <2>1 DEF KeyLess
<1> QED BY <1>2, <1>3, <1>5, <1>6, <1>7

(* A packet goes through an empty queue onto the wire, or one leaves the   *)
(* queue for the wire: its bytes are still counted.                        *)
LEMMA LeavesCounted ==
    ASSUME NEW l \in Limits, NEW q \in Seq(Packet), q # << >>, NEW E,
           Of(E, "dequeued") = {}, Counts(l, q, E),
           NEW G, Of(G, "dequeued") # {}, \A d \in Of(G, "dequeued") : d.does[2] = Head(q)
    PROVE  Counts(l, Tail(q), G)
<1>1. PICK a \in Int : Weighs(q, a) /\ l.numQueued = l.numCompleted + a
  BY DEF Counts, Limits
<1>2. Weighs(Tail(q), a - Load(Head(q))) /\ Load(Head(q)) \in Nat
  BY <1>1, TailWeighs
<1>3. PICK x \in Int : x = Load(Head(q))
  BY <1>2
<1>4. l.numCompleted \in Int /\ l.numQueued = l.numCompleted + (a - x) + x /\ a - x \in Int
  BY <1>1 DEF Limits
<1>5. \A d \in Of(G, "dequeued") : x = Load(d.does[2])
  BY <1>3
<1>6. Weighs(Tail(q), a - x)
  BY <1>2, <1>3
<1> QED BY <1>4, <1>5, <1>6 DEF Counts

LEMMA QueuedCounted ==
    ASSUME NEW l \in Limits, NEW q \in Seq(Packet), NEW p \in Packet, NEW E, Counts(l, q, E)
    PROVE  Counts(Queued(l, Load(p)), Append(q, p), E)
<1>1. PICK a \in Int, x \in Int :
         /\ Weighs(q, a)
         /\ \A d \in Of(E, "dequeued") : x = Load(d.does[2])
         /\ Of(E, "dequeued") = {} => x = 0
         /\ l.numQueued = l.numCompleted + a + x
  BY DEF Counts
<1>2. Weighs(Append(q, p), a + Load(p)) /\ Load(p) \in Nat
  BY <1>1, AppendWeighs
<1>3. PICK m : m = Queued(l, Load(p))
  OBVIOUS
<1>4. /\ m.numQueued = l.numQueued + Load(p) /\ m.numCompleted = l.numCompleted
      /\ m.adjLimit = l.adjLimit
  BY <1>2, <1>3, QueuedType
<1>5. PICK b \in Int : b = a + Load(p)
  BY <1>2
<1>6. m.numQueued = m.numCompleted + b + x
  <2>1. l.numQueued \in Int /\ l.numCompleted \in Int /\ Load(p) \in Int
    BY <1>2 DEF Limits
  <2>2. l.numQueued + Load(p) = l.numCompleted + (a + Load(p)) + x
    BY <1>1, <2>1
  <2> QED BY <1>4, <1>5, <2>2
<1>7. m.adjLimit >= m.numCompleted
  BY <1>4 DEF Counts
<1>8. Weighs(Append(q, p), b)
  BY <1>2, <1>5
<1> QED BY <1>1, <1>3, <1>6, <1>7, <1>8 DEF Counts

(* PointToPointNetDevice::Send, when the queue counts packets: it stops    *)
(* the queue disc with the packet that fills the queue, not earlier.       *)
LEMMA SendFills ==
    ASSUME InPackets, IInv, NEW p, Send(p), UNCHANGED config,
           config.flowControl => ~IsStopped, m_stoppedByDevice => config.flowControl
    PROVE  /\ m_stoppedByDevice' =>
                 /\ Len(m_queue') + 1 >= QueueSize
                 /\ m_txMachineState # "READY" => Len(m_queue') >= QueueSize
           /\ config.flowControl /\ Len(m_queue) + 1 >= QueueSize => m_stoppedByDevice'
<1>1. /\ HasRoom(p) <=> Len(m_queue) + 1 <= QueueSize
      /\ \A q : WouldOverflow(q) <=> Len(q) + 1 > QueueSize
  BY DEF InPackets, HasRoom, WouldOverflow, CurrentSize
<1>2. m_queue \in Seq(Packet) /\ Len(m_queue) \in Nat /\ QueueSize \in Nat \ {0}
  BY QueueAssumption DEF IInv, PlacesInv, Placed
<1>3. ~m_stoppedByDevice
  BY DEF IsStopped
<1>4. CASE HasRoom(p)
  <2>1. PICK P : P = Append(m_queue, p)
    OBVIOUS
  <2>2. Len(P) = Len(m_queue) + 1 /\ Len(Tail(P)) = Len(P) - 1
    BY <1>2, <2>1
  <2>3. /\ PacketEnqueued(p, P)
        /\ m_queue' = IF m_txMachineState = "READY" THEN Tail(P) ELSE P
    BY <1>4, <2>1 DEF Send
  <2>4. m_stoppedByDevice' <=> config.flowControl /\ Len(P) + 1 > QueueSize
    BY <1>1, <1>3, <2>3 DEF PacketEnqueued
  <2> QED BY <1>2, <2>2, <2>3, <2>4
<1>5. CASE ~HasRoom(p)
  <2>1. m_queue' = m_queue /\ (config.flowControl => m_stoppedByDevice')
    BY <1>5 DEF Send, device
  <2>2. Len(m_queue) + 1 > QueueSize
    BY <1>1, <1>2, <1>5
  <2>3. Len(m_queue) >= QueueSize
    BY <1>2, <2>2
  <2> QED BY <1>2, <2>1, <2>2, <2>3
<1> QED BY <1>4, <1>5

(* PointToPointNetDevice::Send of a packet of the size of the MTU at most: *)
(* afterwards the device is busy, and what stops the queue disc is undone. *)
LEMMA SendWorks ==
    ASSUME IInv, RoundInv, LimitsInv, StopsInv, config.flowControl => ~IsStopped,
           NEW p \in Packet, p.size <= Mtu, Send(p), UNCHANGED <<config, m_currentTs>>
    PROVE  /\ RoundInv' /\ LimitsInv' /\ SlotsInv' /\ m_txMachineState' = "BUSY"
           /\ m_stoppedByDevice' => /\ config.flowControl
                                    /\ \/ m_queue' # << >>
                                       \/ Of(m_events', "dequeued") # {}
<1>1. /\ m_queue \in Seq(Packet) /\ m_queueLimits \in Limits /\ m_uid \in Nat
      /\ m_txMachineState \in {"READY", "BUSY"}
      /\ m_txMachineState = "READY" => m_queue = << >> /\ Idle(m_events, m_currentTs)
      /\ m_currentTs \in Nat
  BY DEF IInv, DeviceInv, FlagsInv, PlacesInv, Placed
<1>2. ~m_stoppedByDevice
  BY DEF StopsInv, IsStopped
<1>3. m_txMachineState = "READY" =>
        /\ Of(m_events, "complete") = {} /\ Of(m_events, "dequeued") = {}
  BY <1>1 DEF Idle, RoundInv
<1>4. InPackets /\ m_stoppedByDevice' =>
        /\ Len(m_queue') + 1 >= QueueSize
        /\ m_txMachineState # "READY" => Len(m_queue') >= QueueSize
  BY <1>2, SendFills
<1>5. CASE ~HasRoom(p)
  <2>1. m_queue # << >>
    BY <1>5, EmptyHasRoom
  <2>2. m_txMachineState = "BUSY"
    BY <1>1, <2>1
  <2>3. /\ m_stoppedByDevice' = (m_stoppedByDevice \/ config.flowControl)
        /\ UNCHANGED <<device, m_events, m_uid, m_stoppedByQueueLimits, m_queueLimits>>
    BY <1>5 DEF Send
  <2>4. RoundInv' /\ LimitsInv'
    BY <2>3 DEF RoundInv, LimitsInv, device
  <2>5. SlotsInv'
    BY <1>4, <2>2 DEF SlotsInv
  <2> QED BY <1>2, <2>1, <2>2, <2>3, <2>4, <2>5 DEF device
<1>6. CASE HasRoom(p)
  <2>1. PICK P \in Seq(Packet) : P = Append(m_queue, p)
    <3>1. Append(m_queue, p) \in Seq(Packet)
      BY <1>1, AppendIds
    <3> QED BY <3>1
  <2>2. /\ PacketEnqueued(p, P)
        /\ IF m_txMachineState = "READY"
           THEN /\ m_queue' = Tail(P) /\ m_txMachineState' = "BUSY"
                /\ ScheduleAll(m_events, m_currentTs,
                               PacketDequeued(Head(P)) \o TransmitStart(Head(P)))
           ELSE /\ m_queue' = P
                /\ UNCHANGED <<m_txMachineState, m_events, m_uid>>
    BY <1>6, <2>1 DEF Send
  <2>3. /\ m_stoppedByDevice' => config.flowControl
        /\ m_stoppedByQueueLimits' => config.queueLimits
    BY <1>2, <2>2 DEF PacketEnqueued, LimitsInv
  <2>4. P # << >>
    <3>1. Len(P) = Len(m_queue) + 1 /\ Len(m_queue) \in Nat
      BY <1>1, <2>1
    <3> QED BY <3>1
  <2>5. config.queueLimits =>
           /\ Counts(m_queueLimits', P, m_events) /\ m_queueLimits' \in Limits
           /\ m_stoppedByQueueLimits' => m_queueLimits'.numQueued > m_queueLimits'.numCompleted
    <3> SUFFICES ASSUME config.queueLimits
                 PROVE  /\ Counts(m_queueLimits', P, m_events) /\ m_queueLimits' \in Limits
                        /\ m_stoppedByQueueLimits' =>
                               m_queueLimits'.numQueued > m_queueLimits'.numCompleted
      OBVIOUS
    <3>1. PICK l : l = Queued(m_queueLimits, Load(p))
      OBVIOUS
    <3>2. /\ m_queueLimits' = l
          /\ m_stoppedByQueueLimits' = (m_stoppedByQueueLimits \/ Available(l) < 0)
      BY <2>2, <3>1, Zenon DEF PacketEnqueued, Load
    <3>3. Counts(m_queueLimits, m_queue, m_events)
      BY DEF LimitsInv
    <3>4. Counts(l, P, m_events)
      BY <1>1, <2>1, <3>1, <3>3, QueuedCounted
    <3>5. Load(p) \in Nat
      BY DeviceAssumption DEF Load, Packet
    <3>6. /\ l \in Limits /\ l.numQueued = m_queueLimits.numQueued + Load(p)
          /\ l.numCompleted = m_queueLimits.numCompleted
          /\ l.adjLimit = m_queueLimits.adjLimit
      BY <1>1, <3>1, <3>5, QueuedType
    <3>7. l.adjLimit >= l.numCompleted /\ l.adjLimit \in Nat /\ l.numQueued \in Nat
          /\ l.numCompleted \in Nat
      BY <3>4, <3>6 DEF Counts, Limits
    <3>8. Available(l) < 0 => l.numQueued > l.numCompleted
      BY <3>7 DEF Available
    <3>9. m_stoppedByQueueLimits => l.numQueued > l.numCompleted
      <4>1. m_stoppedByQueueLimits => m_queueLimits.numQueued > m_queueLimits.numCompleted
        BY DEF LimitsInv
      <4>2. m_queueLimits.numQueued \in Nat /\ m_queueLimits.numCompleted \in Nat
        BY <1>1 DEF Limits
      <4> QED BY <3>5, <3>6, <4>1, <4>2
    <3> QED BY <3>2, <3>4, <3>6, <3>8, <3>9
  <2>6. CASE m_txMachineState = "READY"
    <3>1. PICK h \in Packet : h = Head(P)
      BY <2>4
    <3>2. PICK now \in Nat : now = m_currentTs
      BY <1>1
    <3>3. ScheduleAll(m_events, now, PacketDequeued(h) \o TransmitStart(h))
      BY <2>2, <2>6, <3>1, <3>2
    <3>4. /\ Of(m_events', "complete") # {}
          /\ \A d \in Of(m_events', "dequeued") :
                /\ d.ts = now /\ d.does[2] = h
                /\ \A c \in Of(m_events', "complete") : KeyLess(d, c)
          /\ \A d, f \in Of(m_events', "dequeued") : d = f
          /\ config.flowControl => Of(m_events', "dequeued") # {}
      BY <1>1, <1>3, <2>6, <3>3, Restarts
    <3>5. RoundInv'
      BY <3>2, <3>4 DEF RoundInv
    <3>6. ASSUME config.queueLimits
          PROVE  Counts(m_queueLimits', m_queue', m_events')
      <4>1. config.flowControl
        BY <3>6 DEF LimitsInv
      <4>2. PICK l \in Limits : l = m_queueLimits'
        BY <2>5, <3>6
      <4>3. PICK E, G : E = m_events /\ G = m_events'
        OBVIOUS
      <4>4. Counts(l, Tail(P), G)
        BY <1>3, <2>4, <2>5, <2>6, <3>1, <3>4, <3>6, <4>1, <4>2, <4>3, LeavesCounted
      <4> QED BY <2>2, <2>6, <4>2, <4>3, <4>4
    <3>7. LimitsInv'
      BY <2>3, <2>5, <3>6 DEF LimitsInv
    <3>8. SlotsInv'
      BY <1>4, <2>3, <3>4 DEF SlotsInv
    <3> QED BY <2>2, <2>3, <2>6, <3>4, <3>5, <3>7, <3>8
  <2>7. CASE m_txMachineState # "READY"
    <3>1. m_queue' = P /\ UNCHANGED <<m_txMachineState, m_events, m_uid>>
      BY <2>2, <2>7
    <3>2. RoundInv'
      BY <3>1 DEF RoundInv
    <3>3. LimitsInv'
      BY <2>3, <2>5, <3>1 DEF LimitsInv
    <3>4. SlotsInv'
      BY <1>4, <2>7 DEF SlotsInv
    <3> QED BY <1>1, <2>3, <2>4, <2>7, <3>1, <3>2, <3>3, <3>4
  <2> QED BY <2>6, <2>7
<1> QED BY <1>5, <1>6

LEMMA WorkInit == Init => WorkInv
<1> SUFFICES ASSUME Init PROVE WorkInv
  OBVIOUS
<1>1. RoundInv
  BY DEF Init, RoundInv, Of
<1>2. LimitsInv
  <2>1. Counts(Reset, << >>, {})
    <3>1. Of({}, "dequeued") = {}
      BY DEF Of
    <3>2. /\ Reset.numQueued = 0 /\ Reset.numCompleted = 0 /\ Reset.adjLimit = 0
      BY DEF Reset
    <3>3. 0 \in Int /\ 0 = 0 + 0 + 0 /\ 0 >= 0
      OBVIOUS
    <3> QED BY <3>1, <3>2, <3>3, NoWeight DEF Counts
  <2> QED BY <2>1 DEF Init, LimitsInv
<1>3. StopsInv
  BY DEF Init, StopsInv
<1>4. WaitsInv
  <2>1. Len(<< >>) = 0 /\ 1..0 = {}
    OBVIOUS
  <2> QED BY <2>1, QueueAssumption DEF Init, WaitsInv
<1>5. SlotsInv
  BY DEF Init, SlotsInv
<1> QED BY <1>1, <1>2, <1>3, <1>4, <1>5 DEF WorkInv

LEMMA SendWithoutQueueDiscWorks ==
    ASSUME IInv, WorkInv, NEW s \in Sizes, SendWithoutQueueDisc(s)
    PROVE  WorkInv'
<1>1. PICK p : p = NewPacket(s)
  OBVIOUS
<1>2. p \in Packet /\ p.size <= Mtu /\ disc = << >>
  <2>1. s \in 1..Mtu /\ Mtu \in Nat /\ made + 1 \in Nat
    BY DeviceAssumption DEF IInv, PlacesInv, Placed
  <2>2. p \in Packet /\ p.size = s
    BY <1>1, <2>1 DEF NewPacket, Packet
  <2> QED BY <2>1, <2>2 DEF IInv, ConfigInv, SendWithoutQueueDisc
<1>3. pc = "loop" /\ UNCHANGED <<config, m_currentTs, disc, received, run>>
  BY DEF SendWithoutQueueDisc
<1>4. WaitsInv'
  BY <1>2, <1>3 DEF WorkInv, WaitsInv, run
<1>5. CASE config.flowControl /\ IsStopped
  <2>1. UNCHANGED <<m_events, m_uid, flags, device, discarded>>
    BY <1>5 DEF SendWithoutQueueDisc
  <2>2. RoundInv' /\ LimitsInv' /\ StopsInv'
    BY <1>3, <2>1 DEF WorkInv, RoundInv, LimitsInv, StopsInv, flags, device, run
  <2>3. SlotsInv'
    BY <1>3, <2>1 DEF WorkInv, SlotsInv, Stalls, flags, device, run
  <2> QED BY <1>4, <2>2, <2>3 DEF WorkInv
<1>6. CASE ~(config.flowControl /\ IsStopped)
  <2>1. Send(p)
    BY <1>1, <1>6 DEF SendWithoutQueueDisc
  <2>2. /\ RoundInv' /\ LimitsInv' /\ SlotsInv'
        /\ m_stoppedByDevice' => /\ config.flowControl
                                 /\ m_queue' # << >> \/ Of(m_events', "dequeued") # {}
    BY <1>2, <1>3, <1>6, <2>1, SendWorks DEF WorkInv
  <2>3. StopsInv'
    BY <1>3, <2>2 DEF StopsInv
  <2> QED BY <1>4, <2>2, <2>3 DEF WorkInv
<1> QED BY <1>5, <1>6

LEMMA SendToQueueDiscWorks ==
    ASSUME IInv, WorkInv, NEW s \in Sizes, SendToQueueDisc(s)
    PROVE  WorkInv'
<1>1. /\ pc = "loop" /\ pc' = "run" /\ quota' = Quota /\ after' = "loop"
      /\ UNCHANGED <<config, simulator, flags, device, received, discarded>>
  BY DEF SendToQueueDisc, StartRun
<1>2. RoundInv' /\ LimitsInv' /\ StopsInv' /\ SlotsInv'
  BY <1>1 DEF WorkInv, RoundInv, LimitsInv, StopsInv, SlotsInv, Stalls, simulator, flags, device
<1>3. /\ disc \in Seq(Packet) /\ Len(disc) \in Nat /\ Quota \in Nat /\ DiscSize \in Nat
      /\ \A i \in 1..Len(disc) : disc[i].size <= Mtu
  BY QueueAssumption DEF IInv, PlacesInv, Placed, WorkInv, WaitsInv
<1>4. /\ \A i \in 1..Len(disc') : disc'[i].size <= Mtu
      /\ Len(disc') <= DiscSize /\ Len(disc') \in Nat /\ Len(disc') <= Len(disc) + 1
  <2>1. CASE Len(disc) + 1 > DiscSize
    <3>1. disc' = disc
      BY <2>1 DEF SendToQueueDisc
    <3> QED BY <1>3, <3>1 DEF WorkInv, WaitsInv
  <2>2. CASE ~(Len(disc) + 1 > DiscSize)
    <3>1. PICK p : p = NewPacket(s)
      OBVIOUS
    <3>2. p \in Packet /\ p.size <= Mtu
      <4>1. s \in 1..Mtu /\ Mtu \in Nat /\ made + 1 \in Nat
        BY DeviceAssumption DEF IInv, PlacesInv, Placed
      <4>2. p \in Packet /\ p.size = s
        BY <3>1, <4>1 DEF NewPacket, Packet
      <4> QED BY <4>1, <4>2
    <3>3. disc' = Append(disc, p)
      BY <2>2, <3>1 DEF SendToQueueDisc
    <3>4. PICK d : d = Append(disc, p)
      OBVIOUS
    <3>5. /\ Len(d) = Len(disc) + 1 /\ d[Len(disc) + 1] = p
          /\ \A i \in 1..Len(disc) : d[i] = disc[i]
      BY <1>3, <3>2, <3>4
    <3>6. ASSUME NEW i \in 1..Len(d) PROVE d[i].size <= Mtu
      <4>1. i \in 1..Len(disc) \/ i = Len(disc) + 1
        BY <1>3, <3>5
      <4> QED BY <1>3, <3>2, <3>5, <4>1
    <3>7. Len(d) <= DiscSize /\ Len(d) \in Nat /\ Len(d) <= Len(disc) + 1
      BY <1>3, <2>2, <3>5
    <3> QED BY <3>3, <3>4, <3>6, <3>7
  <2> QED BY <2>1, <2>2
<1>5. ASSUME Enough PROVE Len(disc') <= Quota \/ AlmostFull'
  <2>1. CASE QuotaSuffices
    BY <1>3, <1>4, <2>1 DEF QuotaSuffices
  <2>2. CASE InPackets /\ ~config.queueLimits /\ disc = << >>
    <3>1. Len(disc) = 0 /\ Quota >= 1
      BY <2>2, QueueAssumption
    <3> QED BY <1>3, <1>4, <3>1
  <2>3. CASE InPackets /\ ~config.queueLimits /\ disc # << >>
    <3>1. config.flowControl /\ IsStopped
      BY <1>1, <1>5, <2>3 DEF WorkInv, WaitsInv
    <3> QED BY <1>1, <2>3, <3>1 DEF AlmostFull, IsStopped, InPackets, flags
  <2> QED BY <1>5, <2>1, <2>2, <2>3 DEF Enough
<1>6. WaitsInv'
  BY <1>1, <1>4, <1>5 DEF WaitsInv, Enough, QuotaSuffices, InPackets
<1> QED BY <1>2, <1>6 DEF WorkInv

LEMMA DequeueNothingWorks ==
    ASSUME IInv, WorkInv, DequeueNothing
    PROVE  WorkInv'
<1>1. /\ pc = "run" /\ (disc = << >> \/ (config.flowControl /\ IsStopped))
      /\ pc' = after /\ UNCHANGED <<quota, after>>
      /\ UNCHANGED <<config, simulator, disc, flags, device, received, made, refused, discarded>>
  BY DEF DequeueNothing, RunEnd
<1>2. RoundInv' /\ LimitsInv'
  BY <1>1 DEF WorkInv, RoundInv, LimitsInv, simulator, flags, device
<1>3. StopsInv'
  BY <1>1 DEF WorkInv, StopsInv, simulator, flags, device
<1>4. WaitsInv'
  <2>1. pc' # "run"
    BY <1>1 DEF IInv, RunInv
  <2> QED BY <1>1, <2>1 DEF WorkInv, WaitsInv, IsStopped, Enough, QuotaSuffices, InPackets, flags
<1>5. SlotsInv'
  BY <1>1 DEF WorkInv, SlotsInv, Stalls, InPackets, IInv, RunInv, simulator, flags, device
<1> QED BY <1>2, <1>3, <1>4, <1>5 DEF WorkInv

LEMMA DequeuePacketWorks ==
    ASSUME IInv, WorkInv, DequeuePacket
    PROVE  WorkInv'
<1>1. /\ pc = "run" /\ disc # << >> /\ ~(config.flowControl /\ IsStopped)
      /\ Send(Head(disc)) /\ disc' = Tail(disc)
      /\ UNCHANGED <<config, m_currentTs, received, made, refused>>
  BY DEF DequeuePacket
<1>2. PICK p \in Packet : p = Head(disc) /\ p = disc[1]
  BY <1>1, TailIds DEF IInv, PlacesInv, Placed
<1>3. PICK d : d = Tail(disc)
  OBVIOUS
<1>4. /\ Len(disc) \in Nat \ {0} /\ Len(d) = Len(disc) - 1 /\ d \in Seq(Packet)
      /\ \A i \in 1..Len(d) : d[i] = disc[i + 1] /\ i + 1 \in 1..Len(disc)
  BY <1>1, <1>3 DEF IInv, PlacesInv, Placed
<1>5. /\ \A i \in 1..Len(disc) : disc[i].size <= Mtu
      /\ Len(disc) <= DiscSize /\ quota \in Nat /\ DiscSize \in Nat
  BY <1>1, QueueAssumption DEF WorkInv, WaitsInv, IInv, RunInv
<1>6. p.size <= Mtu
  <2>1. 1 \in 1..Len(disc)
    BY <1>4
  <2> QED BY <1>2, <1>5, <2>1
<1>7. /\ RoundInv' /\ LimitsInv' /\ SlotsInv'
      /\ m_stoppedByDevice' => /\ config.flowControl
                               /\ m_queue' # << >> \/ Of(m_events', "dequeued") # {}
  BY <1>1, <1>2, <1>6, SendWorks DEF WorkInv
<1>8. StopsInv'
  BY <1>1, <1>7 DEF StopsInv
<1>9. m_stoppedByQueueLimits' => config.flowControl
  BY <1>1, <1>7 DEF LimitsInv
<1>10. IsStopped' => config.flowControl
  BY <1>7, <1>9 DEF IsStopped
<1>11. ASSUME Enough PROVE Len(disc) <= quota \/ IsStopped'
  <2>1. CASE AlmostFull
    <3>1. InPackets /\ config.flowControl /\ Len(m_queue) + 1 >= QueueSize
      BY <1>1, <2>1 DEF AlmostFull
    <3>2. m_stoppedByDevice => config.flowControl
      BY <3>1
    <3>3. m_stoppedByDevice'
      BY <1>1, <1>2, <3>1, <3>2, SendFills
    <3> QED BY <3>3 DEF IsStopped
  <2> QED BY <1>1, <1>11, <2>1 DEF WorkInv, WaitsInv
<1>12. Enough' <=> Enough
  BY <1>1 DEF Enough, QuotaSuffices, InPackets
<1>13. WaitsInv'
  <2>1. /\ \A i \in 1..Len(d) : d[i].size <= Mtu
        /\ Len(d) <= DiscSize
    BY <1>4, <1>5
  <2>2. CASE disc' = << >> \/ IsStopped' \/ quota = 1
    <3>1. pc' = after /\ pc' # "run"
      BY <2>2 DEF DequeuePacket, RunEnd, IInv, RunInv
    <3>2. Enough /\ quota = 1 => Len(d) = 0 \/ IsStopped'
      BY <1>4, <1>5, <1>11
    <3>3. d \in Seq(Packet) /\ Len(d) = 0 => d = << >>
      OBVIOUS
    <3>4. Enough /\ disc' # << >> => IsStopped' /\ config.flowControl'
      BY <1>1, <1>3, <1>4, <1>10, <2>2, <3>2, <3>3
    <3> QED BY <1>1, <1>3, <1>12, <2>1, <3>1, <3>4 DEF WaitsInv
  <2>3. CASE ~(disc' = << >> \/ IsStopped' \/ quota = 1)
    <3>1. quota' = quota - 1 /\ UNCHANGED <<pc, after>>
      BY <2>3 DEF DequeuePacket
    <3>2. Enough => Len(d) <= quota'
      BY <1>4, <1>5, <1>11, <2>3, <3>1
    <3> QED BY <1>1, <1>3, <1>12, <2>1, <3>1, <3>2 DEF WaitsInv
  <2> QED BY <2>2, <2>3
<1> QED BY <1>7, <1>8, <1>13 DEF WorkInv

LEMMA TransmitCompleteWorks ==
    ASSUME IInv, WorkInv, NEW e, TransmitComplete(e)
    PROVE  WorkInv'
<1>1. /\ IsNext(e, "complete") /\ m_currentTs' = e.ts
      /\ UNCHANGED <<config, disc, flags, received, run, made, refused, discarded>>
  BY DEF TransmitComplete
<1>2. PICK events : events = m_events \ {e}
  OBVIOUS
<1>3. /\ e \in m_events /\ e.ts \in Nat /\ e.does[1] = "complete" /\ pc = "loop"
      /\ Idle(events, e.ts) /\ e.uid \in Nat
  BY <1>1, <1>2, Takes DEF IInv, DeviceInv, IsNext, EventsAt
<1>4. Of(m_events, "dequeued") = {} /\ Of(events, "dequeued") = {}
  <2>1. ASSUME NEW d \in Of(m_events, "dequeued") PROVE FALSE
    <3>1. d \in m_events /\ d # e
      BY <1>3 DEF Of
    <3>2. KeyLess(e, d)
      BY <1>1, <3>1 DEF IsNext
    <3>3. KeyLess(d, e)
      BY <1>3 DEF WorkInv, RoundInv, Of
    <3>4. d.ts \in Nat /\ d.uid \in Nat
      BY <3>1 DEF IInv, DeviceInv, EventsAt
    <3> QED BY <1>3, <3>2, <3>3, <3>4 DEF KeyLess
  <2>2. Of(m_events, "dequeued") = {}
    BY <2>1
  <2> QED BY <1>2, <2>2 DEF Of
<1>5. Of(events, "complete") = {}
  BY <1>3 DEF Idle
<1>6. WaitsInv'
  BY <1>1, <1>3 DEF WorkInv, WaitsInv, IsStopped, Enough, QuotaSuffices, InPackets, flags, run
<1>7. /\ m_uid \in Nat /\ m_queue \in Seq(Packet) /\ m_queueLimits \in Limits
      /\ m_txMachineState \in {"READY", "BUSY"}
  BY DEF IInv, DeviceInv, FlagsInv, PlacesInv, Placed
<1>8. CASE m_queue = << >>
  <2>1. /\ m_txMachineState' = "READY" /\ m_events' = events
        /\ UNCHANGED <<m_uid, m_queue>>
    BY <1>2, <1>8 DEF TransmitComplete
  <2>2. RoundInv'
    BY <1>4, <2>1 DEF RoundInv
  <2>3. LimitsInv'
    <3>1. ASSUME Counts(m_queueLimits, m_queue, m_events)
          PROVE  Counts(m_queueLimits, m_queue, events)
      BY <1>4, <3>1 DEF Counts
    <3> QED BY <1>1, <2>1, <3>1 DEF WorkInv, LimitsInv, flags
  <2>4. StopsInv'
    BY <1>1, <1>3, <1>4, <1>8 DEF WorkInv, StopsInv, flags
  <2>5. SlotsInv'
    BY <1>1, <1>3, <1>4, <1>8, <2>4 DEF WorkInv, StopsInv, SlotsInv, flags
  <2> QED BY <1>6, <2>2, <2>3, <2>4, <2>5 DEF WorkInv
<1>9. CASE m_queue # << >>
  <2>1. PICK h \in Packet : h = Head(m_queue)
    BY <1>7, <1>9, TailIds
  <2>2. /\ m_queue' = Tail(m_queue) /\ UNCHANGED m_txMachineState
        /\ ScheduleAll(events, e.ts, PacketDequeued(h) \o TransmitStart(h))
    BY <1>2, <1>9, <2>1 DEF TransmitComplete
  <2>3. PICK now \in Nat : now = e.ts
    BY <1>3
  <2>4. ScheduleAll(events, now, PacketDequeued(h) \o TransmitStart(h))
    BY <2>2, <2>3
  <2>5. /\ Of(m_events', "complete") # {}
        /\ \A d \in Of(m_events', "dequeued") :
              /\ d.ts = now /\ d.does[2] = h
              /\ \A c \in Of(m_events', "complete") : KeyLess(d, c)
        /\ \A d, f \in Of(m_events', "dequeued") : d = f
        /\ config.flowControl => Of(m_events', "dequeued") # {}
    BY <1>4, <1>5, <1>7, <2>4, Restarts
  <2>6. RoundInv'
    BY <1>1, <2>3, <2>5 DEF RoundInv
  <2>7. LimitsInv'
    <3>1. ASSUME config.queueLimits
          PROVE  Counts(m_queueLimits, Tail(m_queue), m_events')
      <4>1. config.flowControl /\ Counts(m_queueLimits, m_queue, m_events)
        BY <3>1 DEF WorkInv, LimitsInv
      <4>2. PICK l \in Limits, q \in Seq(Packet) : l = m_queueLimits /\ q = m_queue
        BY <1>7
      <4>3. PICK E, G : E = m_events /\ G = m_events'
        OBVIOUS
      <4>4. Counts(l, Tail(q), G)
        BY <1>4, <1>9, <2>1, <2>5, <4>1, <4>2, <4>3, LeavesCounted
      <4> QED BY <4>2, <4>3, <4>4
    <3> QED BY <1>1, <2>2, <3>1 DEF WorkInv, LimitsInv, flags
  <2>8. StopsInv'
    BY <1>1, <2>5 DEF WorkInv, StopsInv, flags
  <2>9. SlotsInv'
    <3>1. ASSUME InPackets, m_stoppedByDevice PROVE Len(m_queue') + 1 >= QueueSize
      <4>1. Len(m_queue) >= QueueSize
        BY <1>3, <1>4, <3>1 DEF WorkInv, SlotsInv, Stalls
      <4>2. Len(Tail(m_queue)) = Len(m_queue) - 1 /\ Len(m_queue) \in Nat
        BY <1>7, <1>9
      <4> QED BY <2>2, <4>1, <4>2, QueueAssumption
    <3>2. m_stoppedByDevice => Of(m_events', "dequeued") # {}
      BY <2>5 DEF WorkInv, StopsInv
    <3> QED BY <1>1, <3>1, <3>2 DEF SlotsInv, InPackets, flags
  <2> QED BY <1>6, <2>6, <2>7, <2>8, <2>9 DEF WorkInv
<1> QED BY <1>8, <1>9

LEMMA ReceiveWorks ==
    ASSUME IInv, WorkInv, NEW e, Receive(e)
    PROVE  WorkInv'
<1>1. /\ IsNext(e, "receive") /\ m_currentTs' = e.ts /\ m_events' = m_events \ {e}
      /\ UNCHANGED <<config, m_uid, disc, flags, device, run, made, refused, discarded>>
  BY DEF Receive
<1>2. e \in m_events /\ e.ts \in Nat /\ e.does[1] = "receive" /\ m_currentTs <= e.ts
      /\ m_currentTs \in Nat
  BY <1>1, Takes DEF IInv, DeviceInv, EventsAt
<1>3. /\ Of(m_events', "complete") = Of(m_events, "complete")
      /\ Of(m_events', "dequeued") = Of(m_events, "dequeued")
  BY <1>1, <1>2 DEF Of
<1>4. ASSUME NEW d \in Of(m_events, "dequeued") PROVE d.ts = e.ts
  <2>1. d \in m_events \ {e} /\ d.ts = m_currentTs
    BY <1>2 DEF Of, WorkInv, RoundInv
  <2>2. KeyLess(e, d)
    BY <1>1, <2>1 DEF IsNext
  <2> QED BY <1>2, <2>1, <2>2 DEF KeyLess
<1>5. RoundInv'
  BY <1>1, <1>3, <1>4 DEF WorkInv, RoundInv, device
<1>6. LimitsInv'
  <2>1. ASSUME Counts(m_queueLimits, m_queue, m_events)
        PROVE  Counts(m_queueLimits, m_queue, m_events')
    BY <1>3, <2>1 DEF Counts
  <2> QED BY <1>1, <2>1 DEF WorkInv, LimitsInv, flags, device
<1>7. StopsInv' /\ SlotsInv'
  BY <1>1, <1>3 DEF WorkInv, StopsInv, SlotsInv, Stalls, InPackets, flags, device, run
<1>8. pc = "loop" /\ pc' = pc
  BY <1>1 DEF IsNext, run
<1>9. WaitsInv'
  BY <1>1, <1>8 DEF WorkInv, WaitsInv, IsStopped, Enough, QuotaSuffices, InPackets, flags, run
<1> QED BY <1>5, <1>6, <1>7, <1>9 DEF WorkInv

LEMMA NotifyTransmittedBytesWorks ==
    ASSUME IInv, WorkInv, NEW e, NotifyTransmittedBytes(e)
    PROVE  WorkInv'
<1>1. PICK limits, isFreed :
        /\ limits = Completed(m_queueLimits, e.does[2].size + PppHeader, e.ts)
        /\ isFreed = (config.queueLimits /\ Available(limits) >= 0)
        /\ m_queueLimits' = IF config.queueLimits THEN limits ELSE m_queueLimits
        /\ m_stoppedByQueueLimits' = (m_stoppedByQueueLimits /\ ~isFreed)
        /\ IF m_stoppedByQueueLimits /\ isFreed /\ config.queueDisc
           THEN pc' = "run" /\ quota' = Quota /\ after' = "wake"
           ELSE pc' = "wake" /\ UNCHANGED <<quota, after>>
  BY Zenon DEF NotifyTransmittedBytes, StartRun
<1>2. /\ IsNext(e, "dequeued") /\ m_currentTs' = e.ts /\ m_events' = m_events \ {e}
      /\ UNCHANGED <<config, m_uid, disc, m_stoppedByDevice, device, received,
                     made, refused, discarded>>
  BY DEF NotifyTransmittedBytes
<1>3. e \in m_events /\ e.ts \in Nat /\ e.does[1] = "dequeued" /\ e.does[2] \in Packet
      /\ pc = "loop"
  BY <1>2, Takes DEF IInv, DeviceInv, EventsAt, IsNext
<1>4. /\ Of(m_events', "complete") = Of(m_events, "complete")
      /\ Of(m_events', "dequeued") = {}
      /\ e \in Of(m_events, "dequeued")
  BY <1>2, <1>3 DEF Of, WorkInv, RoundInv
<1>5. RoundInv'
  BY <1>2, <1>4 DEF WorkInv, RoundInv, device
<1>6. Load(e.does[2]) \in Nat /\ Load(e.does[2]) = e.does[2].size + PppHeader
  BY <1>3, DeviceAssumption DEF Load, Packet
<1>7. m_queueLimits \in Limits /\ m_stoppedByQueueLimits \in BOOLEAN
  BY DEF IInv, FlagsInv
<1>8. /\ limits \in Limits /\ limits.numQueued = m_queueLimits.numQueued
      /\ limits.numCompleted = m_queueLimits.numCompleted + Load(e.does[2])
      /\ limits.adjLimit >= limits.numCompleted
  <2>1. PICK l \in Limits, x \in Nat, now \in Nat :
           l = m_queueLimits /\ x = e.does[2].size + PppHeader /\ now = e.ts
    BY <1>3, <1>6, <1>7
  <2>2. PICK m : m = Completed(l, x, now)
    OBVIOUS
  <2>3. /\ m \in Limits /\ m.numQueued = l.numQueued
        /\ m.numCompleted = l.numCompleted + x /\ m.adjLimit >= l.numCompleted + x
    BY <2>2, CompletedType
  <2>4. limits = m
    BY <1>1, <2>1, <2>2
  <2> QED BY <1>6, <2>1, <2>3, <2>4
<1>9. LimitsInv'
  <2>1. m_stoppedByQueueLimits' => config.queueLimits
    BY <1>1 DEF WorkInv, LimitsInv
  <2> SUFFICES ASSUME config.queueLimits
               PROVE  /\ config.flowControl
                      /\ Counts(limits, m_queue, m_events')
                      /\ m_stoppedByQueueLimits' => limits.numQueued > limits.numCompleted
    BY <1>1, <1>2, <2>1 DEF LimitsInv, device
  <2>2. config.flowControl /\ Counts(m_queueLimits, m_queue, m_events)
    BY DEF WorkInv, LimitsInv
  <2>3. PICK a \in Int, x \in Int :
           /\ Weighs(m_queue, a)
           /\ \A d \in Of(m_events, "dequeued") : x = Load(d.does[2])
           /\ m_queueLimits.numQueued = m_queueLimits.numCompleted + a + x
    BY <2>2 DEF Counts
  <2>4. x = Load(e.does[2])
    BY <1>4, <2>3
  <2>5. m_queueLimits.numCompleted \in Int
    BY <1>7 DEF Limits
  <2>6. limits.numQueued = limits.numCompleted + a + 0
    BY <1>8, <2>3, <2>4, <2>5
  <2>7. Counts(limits, m_queue, m_events')
    <3>1. 0 \in Int
      OBVIOUS
    <3> QED BY <1>4, <1>8, <2>3, <2>6, <3>1 DEF Counts
  <2>8. m_stoppedByQueueLimits' => limits.numQueued > limits.numCompleted
    <3>1. limits.numQueued \in Nat /\ limits.numCompleted \in Nat /\ limits.adjLimit \in Nat
      BY <1>8 DEF Limits
    <3>2. m_stoppedByQueueLimits' => ~(Available(limits) >= 0)
      BY <1>1
    <3> QED BY <1>8, <3>1, <3>2 DEF Available
  <2> QED BY <2>2, <2>7, <2>8
<1>10. StopsInv'
  BY <1>1, <1>2 DEF WorkInv, StopsInv
<1>11. WaitsInv'
  <2>1. /\ \A i \in 1..Len(disc) : disc[i].size <= Mtu
        /\ Len(disc) <= DiscSize /\ Len(disc) \in Nat
        /\ Enough /\ disc # << >> => config.flowControl /\ IsStopped
        /\ Enough' <=> Enough
    BY <1>2, <1>3 DEF WorkInv, WaitsInv, IInv, PlacesInv, Placed, Enough, QuotaSuffices, InPackets
  <2>2. CASE m_stoppedByQueueLimits /\ isFreed /\ config.queueDisc
    <3>1. config.queueLimits
      BY <1>1, <2>2
    <3>2. Enough => Len(disc) <= Quota
      BY <2>1, <3>1, QueueAssumption DEF Enough, QuotaSuffices
    <3> QED BY <1>1, <1>2, <2>1, <2>2, <3>2 DEF WaitsInv
  <2>3. CASE ~(m_stoppedByQueueLimits /\ isFreed /\ config.queueDisc)
    <3>1. Enough /\ disc # << >> => IsStopped'
      <4>1. disc # << >> => config.queueDisc
        BY DEF IInv, ConfigInv
      <4> QED BY <1>1, <1>2, <2>1, <2>3, <4>1 DEF IsStopped
    <3>2. pc' = "wake"
      BY <1>1, <2>3
    <3> QED BY <1>2, <2>1, <3>1, <3>2 DEF WaitsInv
  <2> QED BY <2>2, <2>3
<1>12. SlotsInv'
  BY <1>1, <1>2 DEF WorkInv, SlotsInv, Stalls, InPackets, device
<1> QED BY <1>5, <1>9, <1>10, <1>11, <1>12 DEF WorkInv

LEMMA WakeWorks ==
    ASSUME IInv, WorkInv, Wake
    PROVE  WorkInv'
<1>1. /\ pc = "wake"
      /\ UNCHANGED <<config, simulator, disc, m_stoppedByQueueLimits, m_queueLimits,
                     device, received, made, refused, discarded>>
  BY DEF Wake
<1>2. RoundInv' /\ LimitsInv'
  BY <1>1 DEF WorkInv, RoundInv, LimitsInv, simulator, device
<1>3. /\ \A i \in 1..Len(disc) : disc[i].size <= Mtu
      /\ Len(disc) <= DiscSize /\ Len(disc) \in Nat
      /\ Enough /\ disc # << >> => config.flowControl /\ IsStopped
      /\ Enough' <=> Enough
      /\ m_queue \in Seq(Packet)
  BY <1>1 DEF WorkInv, WaitsInv, IInv, PlacesInv, Placed, Enough, QuotaSuffices, InPackets
<1>4. CASE WouldOverflow(m_queue)
  <2>1. pc' = "loop" /\ UNCHANGED <<quota, after, m_stoppedByDevice>>
    BY <1>4 DEF Wake
  <2>2. m_queue # << >>
    BY <1>4, EmptyHasRoom
  <2>3. StopsInv'
    BY <1>1, <2>1, <2>2 DEF WorkInv, StopsInv, device
  <2>4. WaitsInv'
    BY <1>1, <1>3, <2>1 DEF WaitsInv, IsStopped
  <2>5. SlotsInv'
    <3>1. InPackets => Len(m_queue) >= QueueSize
      <4>1. InPackets => Len(m_queue) + 1 > QueueSize
        BY <1>4 DEF InPackets, WouldOverflow, CurrentSize
      <4> QED BY <1>3, <4>1, QueueAssumption
    <3> QED BY <1>1, <1>3, <3>1, QueueAssumption DEF SlotsInv, InPackets, device
  <2> QED BY <1>2, <2>3, <2>4, <2>5 DEF WorkInv
<1>5. CASE ~WouldOverflow(m_queue)
  <2>1. /\ m_stoppedByDevice' = FALSE
        /\ IF m_stoppedByDevice /\ config.queueDisc
           THEN pc' = "run" /\ quota' = Quota
           ELSE pc' = "loop" /\ UNCHANGED <<quota, after>>
    BY <1>5 DEF Wake, StartRun
  <2>2. StopsInv'
    BY <2>1 DEF StopsInv
  <2>3. WaitsInv'
    <3>1. CASE m_stoppedByDevice /\ config.queueDisc
      <4>1. ASSUME Enough, ~QuotaSuffices PROVE AlmostFull'
        <5>1. InPackets /\ ~config.queueLimits /\ config.flowControl
          BY <3>1, <4>1 DEF Enough, WorkInv, StopsInv
        <5>2. Len(m_queue) + 1 >= QueueSize
          BY <3>1, <5>1 DEF WorkInv, SlotsInv
        <5> QED BY <1>1, <5>1, <5>2 DEF AlmostFull, InPackets, device
      <4>2. QuotaSuffices => Len(disc) <= Quota
        BY <1>3, QueueAssumption DEF QuotaSuffices
      <4> QED BY <1>1, <1>3, <2>1, <3>1, <4>1, <4>2 DEF WaitsInv
    <3>2. CASE ~(m_stoppedByDevice /\ config.queueDisc)
      <4>1. Enough /\ disc # << >> => IsStopped'
        <5>1. disc # << >> => config.queueDisc
          BY DEF IInv, ConfigInv
        <5> QED BY <1>1, <1>3, <3>2, <5>1 DEF IsStopped
      <4>2. pc' = "loop"
        BY <2>1, <3>2
      <4> QED BY <1>1, <1>3, <4>1, <4>2 DEF WaitsInv
    <3> QED BY <3>1, <3>2
  <2>4. SlotsInv'
    BY <2>1 DEF SlotsInv
  <2> QED BY <1>2, <2>2, <2>3, <2>4 DEF WorkInv
<1> QED BY <1>4, <1>5

LEMMA WorkStep == IInv /\ WorkInv /\ [Next]_vars => WorkInv'
<1> SUFFICES ASSUME IInv, WorkInv, [Next]_vars PROVE WorkInv'
  OBVIOUS
<1>1. ASSUME NEW s \in Sizes, SendWithoutQueueDisc(s) PROVE WorkInv'
  BY <1>1, SendWithoutQueueDiscWorks
<1>2. ASSUME NEW s \in Sizes, SendToQueueDisc(s) PROVE WorkInv'
  BY <1>2, SendToQueueDiscWorks
<1>3. CASE DequeueNothing
  BY <1>3, DequeueNothingWorks
<1>4. CASE DequeuePacket
  BY <1>4, DequeuePacketWorks
<1>5. CASE Wake
  BY <1>5, WakeWorks
<1>6. ASSUME NEW e, TransmitComplete(e) PROVE WorkInv'
  BY <1>6, TransmitCompleteWorks
<1>7. ASSUME NEW e, Receive(e) PROVE WorkInv'
  BY <1>7, ReceiveWorks
<1>8. ASSUME NEW e, NotifyTransmittedBytes(e) PROVE WorkInv'
  BY <1>8, NotifyTransmittedBytesWorks
<1>9. CASE Advance
  <2>1. /\ \A e \in m_events : m_currentTs < e.ts
        /\ UNCHANGED <<config, m_events, m_uid, disc, flags, device, received, run,
                       made, refused, discarded>>
    BY <1>9 DEF Advance
  <2>2. m_currentTs \in Nat
    BY DEF IInv, DeviceInv
  <2>3. Of(m_events, "dequeued") = {}
    <3>1. ASSUME NEW d \in Of(m_events, "dequeued") PROVE FALSE
      <4>1. d.ts = m_currentTs /\ m_currentTs < d.ts
        BY <2>1 DEF WorkInv, RoundInv, Of
      <4> QED BY <2>2, <4>1
    <3> QED BY <3>1
  <2>4. RoundInv'
    BY <2>1, <2>3 DEF WorkInv, RoundInv, device
  <2>5. LimitsInv' /\ StopsInv' /\ SlotsInv'
    BY <2>1 DEF WorkInv, LimitsInv, StopsInv, SlotsInv, Stalls, InPackets, flags, device, run
  <2>6. WaitsInv'
    BY <1>9, <2>1 DEF Advance, WorkInv, WaitsInv, IsStopped, Enough, QuotaSuffices, InPackets,
       flags, run
  <2> QED BY <2>4, <2>5, <2>6 DEF WorkInv
<1>10. CASE UNCHANGED vars
  BY <1>10 DEF WorkInv, RoundInv, LimitsInv, StopsInv, SlotsInv, Stalls, WaitsInv, IsStopped,
       Enough, QuotaSuffices, InPackets, AlmostFull, vars, simulator, flags, device, run
<1> QED BY <1>1, <1>2, <1>3, <1>4, <1>5, <1>6, <1>7, <1>8, <1>9, <1>10
        DEF Next, Simulator, ProcessOneEvent, Finished

(* The link is never idle while packets wait for it: whatever stops the    *)
(* queue disc, a full device or its queue limits, somebody runs it again   *)
(* before the device has nothing left to send.  A run that uses up its     *)
(* quota is not continued (the \todo in QueueDisc::Run); this harms nobody *)
(* when the quota is as large as the queue disc, and nobody either with a  *)
(* smaller one, such as the default of 64 of 1000, as long as the queue of *)
(* the device counts packets and has no queue limits.                      *)
THEOREM EnoughConserves == Spec => [](Enough => WorkConserving)
<1>1. IInv /\ WorkInv => (Enough => WorkConserving)
  <2> SUFFICES ASSUME IInv, WorkInv, Enough, pc = "loop", m_queue # << >> \/ disc # << >>
               PROVE  m_txMachineState = "BUSY" /\ Pending("complete") # {}
    BY DEF WorkConserving
  <2>1. m_txMachineState = "BUSY" => Pending("complete") # {}
    BY DEF WorkInv, RoundInv, Pending, Of
  <2>2. ASSUME m_txMachineState = "READY" PROVE FALSE
    <3>1. m_queue = << >> /\ Of(m_events, "complete") = {} /\ m_queueLimits \in Limits
      BY <2>2 DEF IInv, DeviceInv, FlagsInv, Idle
    <3>2. Of(m_events, "dequeued") = {}
      BY <3>1 DEF WorkInv, RoundInv
    <3>3. ~m_stoppedByDevice
      BY <3>1, <3>2 DEF WorkInv, StopsInv
    <3>4. ~m_stoppedByQueueLimits
      <4>1. ASSUME m_stoppedByQueueLimits PROVE FALSE
        <5>1. /\ Counts(m_queueLimits, << >>, m_events)
              /\ m_queueLimits.numQueued > m_queueLimits.numCompleted
          BY <3>1, <4>1 DEF WorkInv, LimitsInv
        <5>2. m_queueLimits.numQueued = m_queueLimits.numCompleted + 0 + 0
          BY <3>2, <5>1, NoWeight DEF Counts
        <5> QED BY <3>1, <5>1, <5>2 DEF Limits
      <4> QED BY <4>1
    <3> QED BY <3>1, <3>3, <3>4 DEF WorkInv, WaitsInv, IsStopped
  <2> QED BY <2>1, <2>2 DEF IInv, DeviceInv
<1>2. IInv /\ WorkInv /\ [Next]_vars => WorkInv'
  BY WorkStep
<1> QED BY <1>1, <1>2, WorkInit, Invariant, PTL DEF Spec

(* The same for a quota that is as large as the queue disc, whatever the   *)
(* device counts and limits.                                               *)
THEOREM WorkConservingHolds ==
    ASSUME QuotaSuffices
    PROVE  Spec => []WorkConserving
<1>1. (Enough => WorkConserving) => WorkConserving
  BY DEF Enough
<1> QED BY <1>1, EnoughConserves, PTL
=============================================================================
