-------------------------- MODULE NullMessageProofs --------------------------
(***************************************************************************)
(* Proofs about NullMessage for any number of ranks, any delays and any    *)
(* number of events and packets, when one remote channel joins two         *)
(* neighbours (OneChannel).  With two channels in a bundle the guarantee   *)
(* that a packet carries on one of them may be later than a packet that    *)
(* the same event sends on the other.                                      *)
(***************************************************************************)
EXTENDS NullMessage, SequenceTheorems, FiniteSetTheorems, WellFoundedInduction,
        TLAPS

OneChannel == \A k, l \in Links : k.ends = l.ends => k = l

Actions == {StopEvent, UserEvent} \cup {TransmitComplete(l) : l \in Links}
             \cup {NullMessageEvent(s) : s \in Ranks}
QueuedEvent == [ts : Nat, uid : Nat, does : Actions]
Message == [rxTime : Nat, guarantee : Nat]

TypeOK ==
    /\ m_events \in [Ranks -> SUBSET QueuedEvent]
    /\ m_uid \in [Ranks -> Nat]
    /\ m_currentTs \in [Ranks -> Nat]
    /\ m_stop \in [Ranks -> BOOLEAN]
    /\ m_safeTime \in [Ranks -> Nat]
    /\ pc \in [Ranks -> {"user", "initialize", "loop", "callback", "send", "reschedule",
                         "null", "poll", "done"}]
    /\ DOMAIN m_guaranteeTime = Ranks /\ DOMAIN m_nullEventId = Ranks
    /\ DOMAIN channel = Ranks /\ DOMAIN sending = Ranks
    /\ \A r \in Ranks : /\ m_guaranteeTime[r] \in [Neighbours[r] -> Nat]
                        /\ m_nullEventId[r] \in [Neighbours[r] -> Nat]
                        /\ channel[r] \in [Neighbours[r] -> Seq(Message)]
    /\ made \in Nat

(* The uids of a queue tell its events apart. *)
UidInv(r) == /\ 5 <= m_uid[r]
             /\ \A e \in m_events[r] : 4 <= e.uid /\ e.uid < m_uid[r]
             /\ \A e, f \in m_events[r] : e.uid = f.uid => e = f
             /\ \A s \in Neighbours[r] : m_nullEventId[r][s] < m_uid[r]

(* Before the loop nothing has happened on a rank, and the event of Stop   *)
(* is in its queue until it has run.                                       *)
RunInv(r) == /\ pc[r] = "user" => \A s \in Neighbours[r] : m_nullEventId[r][s] = 0
             /\ pc[r] = "initialize" => Uninitialized(r) # {}
             /\ pc[r] \in {"user", "initialize"} => m_safeTime[r] = 0 /\ m_currentTs[r] = 0
             /\ pc[r] \notin {"user", "initialize"} => Uninitialized(r) = {}
             /\ m_stop[r] => pc[r] \in {"poll", "loop", "done"}
             /\ m_stop[r] \/ \E e \in m_events[r] : e.does = StopEvent

(* The null message of every bundle that is initialized is in the queue,   *)
(* due within a period, or is being sent.                                  *)
IsLive(e, r, s) == e.uid = m_nullEventId[r][s]

LiveInv(r) == \A s \in Neighbours[r] :
    /\ \A e \in m_events[r] : IsLive(e, r, s) =>
          e.does = NullMessageEvent(s) /\ e.ts <= m_currentTs[r] + NullDelay(r, s)
    /\ \/ m_nullEventId[r][s] = 0
       \/ \E e \in m_events[r] : IsLive(e, r, s)
       \/ pc[r] = "null" /\ Due(r) = {s}

(* The packet that a device is about to send. *)
IsCompletion(e, r, s) == \E l \in Links : l.ends = {r, s} /\ e.does = TransmitComplete(l)

SendingInv(r) == pc[r] \in {"send", "reschedule"} =>
    /\ sending[r].to \in Neighbours[r] /\ sending[r].rxTime \in Nat
    /\ m_currentTs[r] + BundleDelay(r, sending[r].to) <= sending[r].rxTime
    /\ \E c \in m_events[r] : IsCompletion(c, r, sending[r].to)

(* A rank is never beyond its safe time, nor an event in the past.         *)
SafeInv(r) == /\ m_currentTs[r] <= m_safeTime[r]
              /\ \A s \in Neighbours[r] : m_safeTime[r] <= m_guaranteeTime[r][s]
              /\ \A e \in m_events[r] : m_currentTs[r] <= e.ts

RankInv(r) == UidInv(r) /\ RunInv(r) /\ LiveInv(r) /\ SendingInv(r) /\ SafeInv(r)

(* The guarantees that s has from r, or that are on their way to it. *)
Promised(r, s) == {m_guaranteeTime[s][r]} \cup
                  {channel[r][s][i].guarantee : i \in 1..Len(channel[r][s])}

(* What r may still send does not come before p: neither what its queue    *)
(* makes it send, nor, when a packet is on the channel, what it sends      *)
(* after the end of the transmission or with the next null message.        *)
Free(r, s, p) == \A e \in m_events[r] : IsLive(e, r, s) \/ p <= e.ts + BundleDelay(r, s)

Busy(r, s, p) == \E c, z \in m_events[r] :
                    /\ IsCompletion(c, r, s) /\ p <= c.ts + BundleDelay(r, s)
                    /\ IsLive(z, r, s) /\ p <= z.ts + BundleDelay(r, s)

Now(r, s, p) == p <= m_currentTs[r] + BundleDelay(r, s)

Keeps(r, s, p) ==
    /\ p <= m_safeTime[r] + BundleDelay(r, s)
    /\ Free(r, s, p) \/ Busy(r, s, p)
    /\ pc[r] \in {"callback", "send", "reschedule"} => Now(r, s, p) \/ Busy(r, s, p)
    /\ pc[r] = "null" /\ s \in Due(r) => Free(r, s, p)
    /\ pc[r] = "null" /\ s \notin Due(r) => Now(r, s, p) \/ Busy(r, s, p)
    /\ pc[r] = "send" /\ sending[r].to = s => Now(r, s, p)
    /\ pc[r] = "reschedule" /\ sending[r].to = s =>
          \E z \in m_events[r] : IsLive(z, r, s) /\ p <= z.ts + BundleDelay(r, s)

PromiseInv(r, s) == \A p \in Promised(r, s) : Keeps(r, s, p)

(* The promises of r to s only grow, and no packet breaks one that was     *)
(* made before it.                                                         *)
Follows(message, p) == p <= message.guarantee /\ (message.rxTime > 0 => p <= message.rxTime)

ChannelInv(r, s) == \A i \in 1..Len(channel[r][s]) :
    /\ Follows(channel[r][s][i], m_guaranteeTime[s][r])
    /\ \A j \in 1..i-1 : Follows(channel[r][s][i], channel[r][s][j].guarantee)

IInv == /\ TypeOK
        /\ \A r \in Ranks : /\ RankInv(r)
                            /\ \A s \in Neighbours[r] : PromiseInv(r, s) /\ ChannelInv(r, s)

---------------------------------------------------------------------------
(* The order of events: every set of natural numbers has a least one, and  *)
(* every set of events with distinct uids one that is before all others.   *)

LEMMA NatMinimum ==
    ASSUME NEW S, S \subseteq Nat, S # {}
    PROVE  \E m \in S : \A n \in S : m <= n
<1> DEFINE less == {ss \in Nat \X Nat : ss[1] < ss[2]}
<1>1. IsWellFoundedOn(less, Nat)
  BY NatLessThanWellFounded DEF OpToRel
<1>2. PICK m \in S : \A n \in S : <<n, m>> \notin less
  <2> HIDE DEF less
  <2> QED BY <1>1, WFMin
<1>3. \A n \in S : n \in Nat /\ m \in Nat /\ ~(n < m)
  BY <1>2
<1> QED BY <1>3

(* KeyLess orders the events totally when no two have the same uid, so     *)
(* EarliestOf is the event that a scheduler's PeekNext is to return.       *)
LEMMA EarliestOfIsFirst ==
    ASSUME NEW S, S # {},
           \A e \in S : e.ts \in Nat /\ e.uid \in Nat,
           \A e, f \in S : e.uid = f.uid => e = f
    PROVE  /\ EarliestOf(S) \in S
           /\ \A f \in S \ {EarliestOf(S)} : KeyLess(EarliestOf(S), f)
           /\ \A f \in S : EarliestOf(S).ts <= f.ts
<1>1. \A e \in S : e.ts \in Nat /\ e.uid \in Nat
  OBVIOUS
<1>2. PICK t \in {e.ts : e \in S} : \A e \in S : t <= e.ts
  <2>1. {e.ts : e \in S} \subseteq Nat /\ {e.ts : e \in S} # {}
    BY <1>1
  <2>2. PICK t \in {e.ts : e \in S} : \A n \in {e.ts : e \in S} : t <= n
    BY <2>1, NatMinimum
  <2> QED BY <2>2
<1> DEFINE First == {e \in S : e.ts = t}
<1>3. PICK u \in {e.uid : e \in First} : \A e \in First : u <= e.uid
  <2>1. {e.uid : e \in First} \subseteq Nat /\ {e.uid : e \in First} # {}
    BY <1>1, <1>2
  <2> HIDE DEF First
  <2>2. PICK u \in {e.uid : e \in First} : \A n \in {e.uid : e \in First} : u <= n
    BY <2>1, NatMinimum
  <2> QED BY <2>2
<1>4. PICK first \in S : first.ts = t /\ first.uid = u
  BY <1>3
<1>5. ASSUME NEW f \in S \ {first} PROVE KeyLess(first, f)
  <2>1. f.uid # first.uid /\ first.ts <= f.ts
    BY <1>2, <1>4
  <2>2. f.ts = t => first.uid <= f.uid
    BY <1>3, <1>4
  <2> QED BY <1>1, <1>4, <2>1, <2>2 DEF KeyLess
<1>6. /\ EarliestOf(S) \in S
      /\ \A f \in S \ {EarliestOf(S)} : KeyLess(EarliestOf(S), f)
  BY <1>5 DEF EarliestOf
<1>7. \A f \in S : EarliestOf(S).ts <= f.ts
  BY <1>1, <1>6 DEF KeyLess
<1> QED BY <1>6, <1>7

---------------------------------------------------------------------------
(* Lemmas about the operators. *)

LEMMA MinIsLeast ==
    ASSUME NEW S, S \subseteq Nat, S # {}
    PROVE  Min(S) \in S /\ \A u \in S : Min(S) <= u
  BY NatMinimum DEF Min

LEMMA NeighbourFacts ==
    ASSUME NEW r \in Ranks
    PROVE  /\ Neighbours[r] \subseteq Ranks /\ r \notin Neighbours[r]
           /\ Neighbours[r] # {}
           /\ \A s \in Neighbours[r] : r \in Neighbours[s]
<1>1. Neighbours[r] = {s \in Ranks \ {r} : \E l \in Links : l.ends = {r, s}}
  BY DEF Neighbours
<1>2. Neighbours[r] \subseteq Ranks /\ r \notin Neighbours[r]
  BY <1>1
<1>3. ASSUME NEW s \in Neighbours[r] PROVE r \in Neighbours[s]
  <2>1. PICK l \in Links : l.ends = {r, s}
    BY <1>1
  <2>2. l.ends = {s, r}
    BY <2>1
  <2>3. s \in Ranks /\ r \in Ranks \ {s}
    BY <1>1
  <2> QED BY <2>2, <2>3 DEF Neighbours
<1> QED BY <1>2, <1>3, NeighboursAssumption

(* The delay of a bundle is positive, the same in both directions and at   *)
(* most that of any of its channels.                                       *)
LEMMA BundleFacts ==
    ASSUME NEW r \in Ranks, NEW s \in Neighbours[r]
    PROVE  /\ BundleDelay(r, s) \in Nat \ {0}
           /\ NullDelay(r, s) \in Nat
           /\ \A l \in Links : l.ends = {r, s} => BundleDelay(r, s) <= l.delay
<1> DEFINE D == {l.delay : l \in {x \in Links : x.ends = {r, s}}}
<1>1. D \subseteq Nat \ {0}
  BY LinksAssumption
<1>2. D # {}
  BY DEF Neighbours
<1>3. BundleDelay(r, s) \in D /\ \A u \in D : BundleDelay(r, s) <= u
  <2>1. BundleDelay(r, s) = Min(D)
    BY DEF BundleDelay
  <2> HIDE DEF D
  <2> QED BY <1>1, <1>2, <2>1, MinIsLeast
<1>4. BundleDelay(r, s) \in Nat \ {0}
  BY <1>1, <1>3
<1>5. \A n \in Nat, t \in 1..100 : (t * n + 50) \div 100 \in Nat
  <2>1. \A n \in Nat, t \in 1..100 : t * n + 50 \in Nat
    OBVIOUS
  <2>2. \A m \in Nat : m \div 100 \in Nat
    OBVIOUS
  <2> QED BY <2>1, <2>2
<1>6. NullDelay(r, s) \in Nat
  BY <1>4, <1>5, TuneAssumption DEF NullDelay
<1> QED BY <1>3, <1>4, <1>6

LEMMA SafeTimeFacts ==
    ASSUME NEW r \in Ranks, NEW g \in [Neighbours[r] -> Nat]
    PROVE  /\ SafeTime(g) \in Nat
           /\ \A s \in Neighbours[r] : SafeTime(g) <= g[s]
           /\ \E s \in Neighbours[r] : SafeTime(g) = g[s]
<1> DEFINE G == {g[s] : s \in DOMAIN g}
<1>1. G \subseteq Nat /\ G # {}
  BY NeighbourFacts
<1>2. SafeTime(g) = Min(G)
  BY DEF SafeTime
<1>3. Min(G) \in G /\ \A u \in G : Min(G) <= u
  <2> HIDE DEF G
  <2> QED BY <1>1, MinIsLeast
<1> QED BY <1>1, <1>2, <1>3

LEMMA EarliestFacts ==
    ASSUME TypeOK, NEW r \in Ranks, UidInv(r), m_events[r] # {}
    PROVE  /\ EarliestOf(m_events[r]) \in m_events[r]
           /\ NextTs(r) \in Nat
           /\ \A e \in m_events[r] : NextTs(r) <= e.ts
<1>1. m_events[r] \subseteq QueuedEvent
  BY DEF TypeOK
<1>2. \A e \in m_events[r] : e.ts \in Nat /\ e.uid \in Nat
  BY <1>1 DEF QueuedEvent
<1>3. \A e, f \in m_events[r] : e.uid = f.uid => e = f
  BY DEF UidInv
<1> QED BY <1>2, <1>3, EarliestOfIsFirst DEF NextTs

(* A guarantee is the latest time that neither the safe time nor an event  *)
(* of the queue forbids.                                                   *)
LEMMA GuaranteeFacts ==
    ASSUME TypeOK, NEW r \in Ranks, UidInv(r), m_events[r] # {}, NEW s \in Neighbours[r]
    PROVE  LET q == CalculateGuaranteeTime(r, s)
           IN  /\ q \in Nat
               /\ q <= m_safeTime[r] + BundleDelay(r, s)
               /\ \A e \in m_events[r] : q <= e.ts + BundleDelay(r, s)
               /\ \A p \in Nat : /\ p <= m_safeTime[r] + BundleDelay(r, s)
                                 /\ \A e \in m_events[r] : p <= e.ts + BundleDelay(r, s)
                                 => p <= q
<1> DEFINE S == {NextTs(r), m_safeTime[r]}
<1>1. NextTs(r) \in Nat /\ m_safeTime[r] \in Nat /\ BundleDelay(r, s) \in Nat
  BY EarliestFacts, BundleFacts DEF TypeOK
<1>2. Min(S) \in S /\ \A u \in S : Min(S) <= u
  BY <1>1, MinIsLeast
<1>3. \A e \in m_events[r] : e.ts \in Nat
  BY DEF TypeOK, QueuedEvent
<1>4. CalculateGuaranteeTime(r, s) = Min(S) + BundleDelay(r, s)
  BY DEF CalculateGuaranteeTime
<1>5. \E e \in m_events[r] : NextTs(r) = e.ts
  BY EarliestFacts DEF NextTs
<1>6. \A e \in m_events[r] : NextTs(r) <= e.ts
  BY EarliestFacts
<1> DEFINE m == Min(S)
<1>7. m \in Nat /\ m <= NextTs(r) /\ m <= m_safeTime[r]
      /\ (m = NextTs(r) \/ m = m_safeTime[r])
  BY <1>1, <1>2
<1> HIDE DEF S, m
<1>8. CalculateGuaranteeTime(r, s) = m + BundleDelay(r, s)
  BY <1>4 DEF m
<1> QED BY <1>1, <1>3, <1>5, <1>6, <1>7, <1>8

---------------------------------------------------------------------------
(* A step of a rank leaves the state of the other ranks alone.             *)
Same(q) == /\ m_events'[q] = m_events[q] /\ m_uid'[q] = m_uid[q]
           /\ m_currentTs'[q] = m_currentTs[q] /\ m_stop'[q] = m_stop[q]
           /\ m_safeTime'[q] = m_safeTime[q] /\ pc'[q] = pc[q]
           /\ m_guaranteeTime'[q] = m_guaranteeTime[q]
           /\ m_nullEventId'[q] = m_nullEventId[q] /\ sending'[q] = sending[q]

LEMMA SameKeeps ==
    ASSUME NEW q \in Ranks, Same(q)
    PROVE  /\ RankInv(q) => RankInv(q)'
           /\ \A s, p : Keeps(q, s, p) => Keeps(q, s, p)'
<1>1. Uninitialized(q)' = Uninitialized(q) /\ Due(q)' = Due(q)
  BY DEF Same, Uninitialized, Due
<1>2. UidInv(q) => UidInv(q)'
  BY DEF Same, UidInv
<1>3. RunInv(q) => RunInv(q)'
  BY <1>1 DEF Same, RunInv
<1>4. LiveInv(q) => LiveInv(q)'
  BY <1>1 DEF Same, LiveInv, IsLive
<1>5. SendingInv(q) => SendingInv(q)'
  BY DEF Same, SendingInv, IsCompletion
<1>6. SafeInv(q) => SafeInv(q)'
  BY DEF Same, SafeInv
<1>7. ASSUME NEW s, NEW p, Keeps(q, s, p) PROVE Keeps(q, s, p)'
  BY <1>1, <1>7 DEF Same, Keeps, Free, Busy, Now, IsLive, IsCompletion
<1> QED BY <1>2, <1>3, <1>4, <1>5, <1>6, <1>7 DEF RankInv

LEMMA PromisedIsNat ==
    ASSUME TypeOK, NEW r \in Ranks, NEW s \in Neighbours[r]
    PROVE  /\ Promised(r, s) \subseteq Nat
           /\ channel[r][s] \in Seq(Message)
           /\ m_guaranteeTime[s][r] \in Nat
<1>1. s \in Ranks /\ r \in Neighbours[s]
  BY NeighbourFacts
<1>2. channel[r][s] \in Seq(Message) /\ m_guaranteeTime[s][r] \in Nat
  BY <1>1 DEF TypeOK
<1>3. \A i \in 1..Len(channel[r][s]) : channel[r][s][i] \in Message
  BY <1>2
<1>4. \A i \in 1..Len(channel[r][s]) : channel[r][s][i].guarantee \in Nat
  BY <1>3 DEF Message
<1> QED BY <1>2, <1>4 DEF Promised

(* A step without a message keeps the invariant when it keeps that of its  *)
(* rank and the promises of its rank.                                      *)
LEMMA QuietStep ==
    ASSUME IInv, NEW r \in Ranks, TypeOK', \A q \in Ranks \ {r} : Same(q),
           channel' = channel, m_guaranteeTime' = m_guaranteeTime,
           RankInv(r)',
           \A s \in Neighbours[r] : \A p \in Nat : Keeps(r, s, p) => Keeps(r, s, p)'
    PROVE  IInv'
<1>1. ASSUME NEW q \in Ranks PROVE RankInv(q)'
  BY SameKeeps DEF IInv
<1>2. ASSUME NEW q \in Ranks, NEW s \in Neighbours[q] PROVE ChannelInv(q, s)'
  BY DEF IInv, ChannelInv, Follows
<1>3. ASSUME NEW q \in Ranks, NEW s \in Neighbours[q] PROVE PromiseInv(q, s)'
  <2>1. Promised(q, s)' = Promised(q, s) /\ Promised(q, s) \subseteq Nat
    BY PromisedIsNat DEF Promised, IInv
  <2>2. \A p \in Promised(q, s) : Keeps(q, s, p)
    BY DEF IInv, PromiseInv
  <2>3. \A p \in Promised(q, s) : Keeps(q, s, p)'
    BY <2>1, <2>2, SameKeeps
  <2> QED BY <2>1, <2>3 DEF PromiseInv
<1> QED BY <1>1, <1>2, <1>3 DEF IInv

(* A message that comes after the promises made before it.                 *)
LEMMA SendStep ==
    ASSUME IInv, NEW r \in Ranks, NEW s \in Neighbours[r], NEW message \in Message,
           TypeOK', \A q \in Ranks \ {r} : Same(q),
           channel' = [channel EXCEPT ![r][s] = Append(@, message)],
           m_guaranteeTime' = m_guaranteeTime,
           RankInv(r)',
           \A t \in Neighbours[r] : \A p \in Promised(r, t) : Keeps(r, t, p)',
           Keeps(r, s, message.guarantee)',
           \A p \in Promised(r, s) : Follows(message, p)
    PROVE  IInv'
<1>1. ASSUME NEW q \in Ranks PROVE RankInv(q)'
  BY SameKeeps DEF IInv
<1>2. \A q \in Ranks : \A t \in Neighbours[q] : q # r \/ t # s =>
         channel'[q][t] = channel[q][t]
  BY DEF IInv, TypeOK
<1>3. channel'[r][s] = Append(channel[r][s], message)
  BY DEF IInv, TypeOK
<1> DEFINE c == channel[r][s]
<1>4. /\ c \in Seq(Message) /\ Len(channel'[r][s]) = Len(c) + 1
      /\ channel'[r][s][Len(c) + 1] = message
      /\ \A i \in 1..Len(c) : channel'[r][s][i] = c[i]
  BY <1>3, PromisedIsNat DEF IInv
<1>5. ASSUME NEW q \in Ranks, NEW t \in Neighbours[q], q # r \/ t # s
      PROVE  PromiseInv(q, t)' /\ ChannelInv(q, t)'
  <2>1. channel'[q][t] = channel[q][t]
    BY <1>2, <1>5
  <2>2. ChannelInv(q, t)'
    BY <2>1 DEF IInv, ChannelInv, Follows
  <2>3. Promised(q, t)' = Promised(q, t) /\ Promised(q, t) \subseteq Nat
    BY <2>1, PromisedIsNat DEF Promised, IInv
  <2>4. \A p \in Promised(q, t) : Keeps(q, t, p)
    BY DEF IInv, PromiseInv
  <2>5. \A p \in Promised(q, t) : Keeps(q, t, p)'
    BY <2>3, <2>4, SameKeeps
  <2> QED BY <2>2, <2>3, <2>5 DEF PromiseInv
<1>6. PromiseInv(r, s)'
  <2>1. ASSUME NEW p \in Promised(r, s)' PROVE p \in Promised(r, s) \/ p = message.guarantee
    <3>1. CASE p = m_guaranteeTime[s][r]
      BY <3>1 DEF Promised
    <3>2. CASE \E i \in 1..Len(channel'[r][s]) : p = channel'[r][s][i].guarantee
      <4>1. PICK i \in 1..Len(channel'[r][s]) : p = channel'[r][s][i].guarantee
        BY <3>2
      <4>2. Len(c) \in Nat
        BY <1>4
      <4>3. i \in 1..Len(c) \/ i = Len(c) + 1
        BY <1>4, <4>2
      <4> QED BY <1>4, <4>1, <4>3 DEF Promised
    <3> QED BY <3>1, <3>2 DEF Promised
  <2> QED BY <2>1 DEF PromiseInv
<1>7. ChannelInv(r, s)'
  <2>1. Len(c) \in Nat
    BY <1>4
  <2>2. /\ m_guaranteeTime[s][r] \in Promised(r, s)
        /\ \A j \in 1..Len(c) : c[j].guarantee \in Promised(r, s)
    BY DEF Promised
  <2>3. SUFFICES ASSUME NEW i \in 1..Len(channel'[r][s])
                 PROVE  /\ Follows(channel'[r][s][i], m_guaranteeTime[s][r])
                        /\ \A j \in 1..i-1 :
                              Follows(channel'[r][s][i], channel'[r][s][j].guarantee)
    BY DEF ChannelInv, Follows
  <2>4. CASE i = Len(c) + 1
    <3>1. 1..i-1 = 1..Len(c)
      BY <2>1, <2>4
    <3> QED BY <1>4, <2>2, <2>4, <3>1
  <2>5. CASE i \in 1..Len(c)
    <3>1. \A j \in 1..i-1 : j \in 1..Len(c)
      BY <2>1, <2>5
    <3>2. /\ Follows(c[i], m_guaranteeTime[s][r])
          /\ \A j \in 1..i-1 : Follows(c[i], c[j].guarantee)
      BY <2>5 DEF IInv, ChannelInv
    <3> QED BY <1>4, <2>5, <3>1, <3>2
  <2> QED BY <1>4, <2>1, <2>4, <2>5
<1> QED BY <1>1, <1>5, <1>6, <1>7 DEF IInv

(* A message is taken off a channel.                                       *)
LEMMA TakeStep ==
    ASSUME IInv, NEW r \in Ranks, NEW s \in Neighbours[r], channel[s][r] # << >>,
           TypeOK', \A q \in Ranks \ {r} : Same(q),
           m_guaranteeTime' = [m_guaranteeTime EXCEPT ![r][s] = Head(channel[s][r]).guarantee],
           channel' = [channel EXCEPT ![s][r] = Tail(@)],
           RankInv(r)',
           \A t \in Neighbours[r] : \A p \in Nat : Keeps(r, t, p) => Keeps(r, t, p)'
    PROVE  IInv'
<1> DEFINE c == channel[s][r]
<1>1. s \in Ranks /\ r \in Neighbours[s]
  BY NeighbourFacts
<1>2. /\ c \in Seq(Message) /\ Len(c) \in Nat \ {0}
      /\ Len(Tail(c)) = Len(c) - 1
      /\ \A i \in 1..Len(Tail(c)) : Tail(c)[i] = c[i + 1] /\ i + 1 \in 1..Len(c)
      /\ Head(c) = c[1] /\ 1 \in 1..Len(c)
  BY <1>1, PromisedIsNat DEF IInv
<1>3. channel'[s][r] = Tail(c) /\ m_guaranteeTime'[r][s] = c[1].guarantee
  <2>1. /\ DOMAIN channel = Ranks /\ channel[s] \in [Neighbours[s] -> Seq(Message)]
        /\ DOMAIN m_guaranteeTime = Ranks /\ m_guaranteeTime[r] \in [Neighbours[r] -> Nat]
    BY <1>1 DEF IInv, TypeOK
  <2>2. channel'[s][r] = Tail(c)
    BY <1>1, <2>1
  <2>3. m_guaranteeTime'[r][s] = Head(c).guarantee
    BY <2>1
  <2> QED BY <1>2, <2>2, <2>3
<1>4. \A q \in Ranks : \A t \in Neighbours[q] : q # s \/ t # r =>
         channel'[q][t] = channel[q][t] /\ m_guaranteeTime'[t][q] = m_guaranteeTime[t][q]
  <2>1. \A q \in Ranks : \A t \in Neighbours[q] : q # s \/ t # r =>
           channel'[q][t] = channel[q][t]
    BY DEF IInv, TypeOK
  <2>2. ASSUME NEW q \in Ranks, NEW t \in Neighbours[q], q # s \/ t # r
        PROVE  m_guaranteeTime'[t][q] = m_guaranteeTime[t][q]
    <3>1. t \in Ranks /\ q \in Neighbours[t]
      BY NeighbourFacts
    <3> QED BY <2>2, <3>1 DEF IInv, TypeOK
  <2> QED BY <2>1, <2>2
<1>5. ASSUME NEW q \in Ranks PROVE RankInv(q)'
  BY SameKeeps DEF IInv
<1>6. ASSUME NEW q \in Ranks, NEW t \in Neighbours[q] PROVE Promised(q, t)' \subseteq Promised(q, t)
  <2>1. CASE q # s \/ t # r
    BY <1>4, <2>1 DEF Promised
  <2>2. CASE q = s /\ t = r
    <3>1. Promised(s, r)' = {c[1].guarantee} \cup {Tail(c)[i].guarantee : i \in 1..Len(Tail(c))}
      BY <1>3 DEF Promised
    <3>2. \A i \in 1..Len(c) : c[i].guarantee \in Promised(s, r)
      BY DEF Promised
    <3> QED BY <1>2, <2>2, <3>1, <3>2
  <2> QED BY <2>1, <2>2
<1>7. ASSUME NEW q \in Ranks, NEW t \in Neighbours[q] PROVE PromiseInv(q, t)'
  <2>1. \A p \in Promised(q, t) : p \in Nat /\ Keeps(q, t, p)
    BY PromisedIsNat DEF IInv, PromiseInv
  <2>2. \A p \in Promised(q, t) : Keeps(q, t, p)'
    BY <2>1, SameKeeps
  <2> QED BY <1>6, <2>2 DEF PromiseInv
<1>8. ASSUME NEW q \in Ranks, NEW t \in Neighbours[q] PROVE ChannelInv(q, t)'
  <2>1. ChannelInv(q, t)
    BY DEF IInv
  <2>2. CASE q # s \/ t # r
    BY <1>4, <2>1, <2>2 DEF ChannelInv, Follows
  <2>3. CASE q = s /\ t = r
    <3>1. SUFFICES ASSUME NEW i \in 1..Len(Tail(c))
                   PROVE  /\ Follows(Tail(c)[i], c[1].guarantee)
                          /\ \A j \in 1..i-1 : Follows(Tail(c)[i], Tail(c)[j].guarantee)
      BY <1>3, <2>3 DEF ChannelInv, Follows
    <3>2. Tail(c)[i] = c[i + 1] /\ i + 1 \in 1..Len(c) /\ i \in Nat \ {0}
      BY <1>2
    <3>3. \A j \in 1..i : Follows(c[i + 1], c[j].guarantee)
      BY <2>1, <2>3, <3>2 DEF ChannelInv
    <3>4. \A j \in 1..i-1 : Tail(c)[j] = c[j + 1] /\ j + 1 \in 1..i
      BY <1>2
    <3> QED BY <3>2, <3>3, <3>4
  <2> QED BY <2>2, <2>3
<1> QED BY <1>5, <1>7, <1>8 DEF IInv

(* Scheduling an event inserts it into the queue of its rank.              *)
LEMMA InsertFacts ==
    ASSUME TypeOK, NEW r \in Ranks, UidInv(r), NEW ts \in Nat, NEW does \in Actions,
           Insert(r, ts, does)
    PROVE  /\ m_events' \in [Ranks -> SUBSET QueuedEvent]
           /\ m_uid' \in [Ranks -> Nat]
           /\ m_uid'[r] = m_uid[r] + 1
           /\ \A q \in Ranks \ {r} : m_events'[q] = m_events[q] /\ m_uid'[q] = m_uid[q]
           /\ \E new \in QueuedEvent :
                 /\ new.ts = ts /\ new.uid = m_uid[r] /\ new.does = does
                 /\ new \notin m_events[r]
                 /\ m_events'[r] = m_events[r] \cup {new}
<1>1. PICK new \in QueuedEvent : new = [ts |-> ts, uid |-> m_uid[r], does |-> does]
  BY DEF TypeOK, QueuedEvent
<1>2. m_events' = [m_events EXCEPT ![r] = m_events[r] \cup {new}]
  BY <1>1 DEF Insert
<1>3. m_uid' = [m_uid EXCEPT ![r] = m_uid[r] + 1]
  BY DEF Insert
<1>4. new.ts = ts /\ new.uid = m_uid[r] /\ new.does = does
  BY <1>1
<1>5. new \notin m_events[r]
  <2>1. \A e \in m_events[r] : e.uid \in Nat /\ e.uid < m_uid[r]
    BY DEF TypeOK, UidInv, QueuedEvent
  <2>2. m_uid[r] \in Nat
    BY DEF TypeOK
  <2> QED BY <1>4, <2>1, <2>2
<1>6. m_events' \in [Ranks -> SUBSET QueuedEvent] /\ m_events'[r] = m_events[r] \cup {new}
      /\ \A q \in Ranks \ {r} : m_events'[q] = m_events[q]
  BY <1>2 DEF TypeOK
<1>7. m_uid' \in [Ranks -> Nat] /\ m_uid'[r] = m_uid[r] + 1
      /\ \A q \in Ranks \ {r} : m_uid'[q] = m_uid[q]
  BY <1>3 DEF TypeOK
<1> QED BY <1>4, <1>5, <1>6, <1>7

(* The events of a queue, and what they do.                                *)
LEMMA EventFacts ==
    ASSUME TypeOK, NEW r \in Ranks
    PROVE  /\ \A e \in m_events[r] : e.ts \in Nat /\ e.uid \in Nat /\ e.does \in Actions
           /\ m_currentTs[r] \in Nat /\ m_safeTime[r] \in Nat /\ m_uid[r] \in Nat
           /\ \A s \in Neighbours[r] : m_nullEventId[r][s] \in Nat /\ m_guaranteeTime[r][s] \in Nat
  BY DEF TypeOK, QueuedEvent

LEMMA ActionFacts ==
    /\ StopEvent \in Actions /\ UserEvent \in Actions
    /\ \A l \in Links : TransmitComplete(l) \in Actions
    /\ \A s \in Ranks : NullMessageEvent(s) \in Actions
    /\ UserEvent # StopEvent
    /\ \A l : TransmitComplete(l) # StopEvent /\ TransmitComplete(l) # UserEvent
    /\ \A s : /\ NullMessageEvent(s) # StopEvent /\ NullMessageEvent(s) # UserEvent
              /\ \A l : NullMessageEvent(s) # TransmitComplete(l)
    /\ \A k, l : TransmitComplete(k) = TransmitComplete(l) => k = l
    /\ \A s, t : NullMessageEvent(s) = NullMessageEvent(t) => s = t
<1>1. StopEvent[1] = "stop" /\ UserEvent[1] = "user"
      /\ \A l : TransmitComplete(l)[1] = "complete" /\ TransmitComplete(l)[2] = l
      /\ \A s : NullMessageEvent(s)[1] = "null" /\ NullMessageEvent(s)[2] = s
  BY DEF StopEvent, UserEvent, TransmitComplete, NullMessageEvent
<1>2. /\ StopEvent \in Actions /\ UserEvent \in Actions
      /\ \A l \in Links : TransmitComplete(l) \in Actions
      /\ \A s \in Ranks : NullMessageEvent(s) \in Actions
  BY DEF Actions
<1> QED BY <1>1, <1>2

(* What a rank could send now is not before the events of its queue.       *)
LEMMA NowIsFree ==
    ASSUME TypeOK, NEW r \in Ranks, SafeInv(r), NEW s \in Neighbours[r], NEW p \in Nat,
           Now(r, s, p)
    PROVE  \A e \in m_events[r] : p <= e.ts + BundleDelay(r, s)
<1>1. \A e \in m_events[r] : m_currentTs[r] <= e.ts
  BY DEF SafeInv
<1> QED BY <1>1, EventFacts, BundleFacts DEF Now

(* An event is inserted that is not a null message, not before the clock.  *)
LEMMA InsertOther ==
    ASSUME IInv, NEW r \in Ranks, NEW ts \in Nat, NEW does \in Actions,
           Insert(r, ts, does), m_currentTs[r] <= ts, pc[r] # "null",
           m_nullEventId' = m_nullEventId, m_currentTs' = m_currentTs,
           m_stop' = m_stop
    PROVE  /\ m_events' \in [Ranks -> SUBSET QueuedEvent] /\ m_uid' \in [Ranks -> Nat]
           /\ \A q \in Ranks \ {r} : m_events'[q] = m_events[q] /\ m_uid'[q] = m_uid[q]
           /\ UidInv(r)' /\ LiveInv(r)'
           /\ \A e \in m_events'[r] : m_currentTs[r] <= e.ts
           /\ m_stop[r] \/ \E e \in m_events'[r] : e.does = StopEvent
           /\ \E e \in m_events'[r] : e.does = does
           /\ m_events[r] \subseteq m_events'[r]
           /\ \A s \in Neighbours[r], p \in Nat :
                 /\ Busy(r, s, p) => Busy(r, s, p)'
                 /\ Now(r, s, p) => Now(r, s, p)' /\ Free(r, s, p)'
                 /\ Free(r, s, p) /\ p <= ts + BundleDelay(r, s) => Free(r, s, p)'
<1>1. TypeOK /\ UidInv(r) /\ RunInv(r) /\ LiveInv(r) /\ SafeInv(r)
  BY DEF IInv, RankInv
<1>2. /\ m_events' \in [Ranks -> SUBSET QueuedEvent] /\ m_uid' \in [Ranks -> Nat]
      /\ m_uid'[r] = m_uid[r] + 1
      /\ \A q \in Ranks \ {r} : m_events'[q] = m_events[q] /\ m_uid'[q] = m_uid[q]
  BY <1>1, InsertFacts
<1>3. PICK new \in QueuedEvent : /\ new.ts = ts /\ new.uid = m_uid[r] /\ new.does = does
                                 /\ m_events'[r] = m_events[r] \cup {new}
  BY <1>1, InsertFacts
<1>4. /\ \A e \in m_events[r] : e.ts \in Nat /\ e.uid \in Nat
      /\ m_currentTs[r] \in Nat /\ m_uid[r] \in Nat
      /\ \A s \in Neighbours[r] : m_nullEventId[r][s] \in Nat
  BY <1>1, EventFacts
<1>5. \A s \in Neighbours[r] : ~IsLive(new, r, s)
  BY <1>1, <1>3, <1>4 DEF UidInv, IsLive
<1>6. UidInv(r)'
  <2>1. \A e \in m_events[r] : 4 <= e.uid /\ e.uid < m_uid[r]
    BY <1>1 DEF UidInv
  <2>2. \A e \in m_events'[r] : 4 <= e.uid /\ e.uid < m_uid'[r]
    BY <1>1, <1>2, <1>3, <1>4, <2>1 DEF UidInv
  <2>3. \A e, f \in m_events'[r] : e.uid = f.uid => e = f
    BY <1>1, <1>3, <1>4, <2>1 DEF UidInv
  <2>4. 5 <= m_uid'[r] /\ \A s \in Neighbours[r] : m_nullEventId[r][s] < m_uid'[r]
    BY <1>1, <1>2, <1>4 DEF UidInv
  <2> QED BY <2>2, <2>3, <2>4 DEF UidInv
<1>7. LiveInv(r)'
  <2>1. SUFFICES ASSUME NEW s \in Neighbours[r]
                 PROVE  /\ \A e \in m_events'[r] : IsLive(e, r, s) =>
                              /\ e.does = NullMessageEvent(s)
                              /\ e.ts <= m_currentTs[r] + NullDelay(r, s)
                        /\ \/ m_nullEventId[r][s] = 0
                           \/ \E e \in m_events'[r] : IsLive(e, r, s)
    BY DEF LiveInv, IsLive
  <2> QED BY <1>1, <1>3, <1>5 DEF LiveInv
<1>8. \A e \in m_events'[r] : m_currentTs[r] <= e.ts
  BY <1>1, <1>3 DEF SafeInv
<1>9. m_stop[r] \/ \E e \in m_events'[r] : e.does = StopEvent
  BY <1>1, <1>3 DEF RunInv
<1>10. ASSUME NEW s \in Neighbours[r], NEW p \in Nat
       PROVE  /\ Busy(r, s, p) => Busy(r, s, p)'
              /\ Now(r, s, p) => Now(r, s, p)' /\ Free(r, s, p)'
              /\ Free(r, s, p) /\ p <= ts + BundleDelay(r, s) => Free(r, s, p)'
  <2>1. Busy(r, s, p) => Busy(r, s, p)'
    BY <1>3 DEF Busy, IsLive, IsCompletion
  <2>2. Now(r, s, p) => Now(r, s, p)'
    BY DEF Now
  <2>3. Now(r, s, p) => p <= ts + BundleDelay(r, s)
    BY <1>4, BundleFacts DEF Now
  <2>4. Now(r, s, p) => Free(r, s, p)
    BY <1>1, NowIsFree DEF Free
  <2>5. Free(r, s, p) /\ p <= ts + BundleDelay(r, s) => Free(r, s, p)'
    BY <1>3 DEF Free, IsLive
  <2> QED BY <2>1, <2>2, <2>3, <2>4, <2>5
<1> QED BY <1>2, <1>3, <1>6, <1>7, <1>8, <1>9, <1>10

(* The next null message to s is scheduled, and takes the place of its     *)
(* predecessor.                                                            *)
LEMMA InsertNull ==
    ASSUME IInv, NEW r \in Ranks, NEW s \in Neighbours[r],
           ScheduleNullMessageEvent(r, s), pc[r] = "null" => Due(r) = {s},
           m_currentTs' = m_currentTs, m_stop'[r] = m_stop[r]
    PROVE  /\ m_events' \in [Ranks -> SUBSET QueuedEvent] /\ m_uid' \in [Ranks -> Nat]
           /\ \A q \in Ranks \ {r} : /\ m_events'[q] = m_events[q] /\ m_uid'[q] = m_uid[q]
                                     /\ m_nullEventId'[q] = m_nullEventId[q]
           /\ DOMAIN m_nullEventId' = Ranks
           /\ m_nullEventId'[r] \in [Neighbours[r] -> Nat]
           /\ m_nullEventId'[r][s] # 0
           /\ \A t \in Neighbours[r] \ {s} : m_nullEventId'[r][t] = m_nullEventId[r][t]
           /\ UidInv(r)' /\ LiveInv(r)'
           /\ \A e \in m_events'[r] : m_currentTs[r] <= e.ts
           /\ m_stop[r] \/ \E e \in m_events'[r] : e.does = StopEvent
           /\ \E z \in m_events'[r] : /\ IsLive(z, r, s)'
                                      /\ z.ts = m_currentTs[r] + NullDelay(r, s)
           /\ m_events[r] \subseteq m_events'[r]
           /\ \A p \in Nat : (\A e \in m_events[r] : p <= e.ts + BundleDelay(r, s))
                               => Free(r, s, p)'
           /\ \A t \in Neighbours[r] \ {s}, p \in Nat :
                 /\ Busy(r, t, p) => Busy(r, t, p)'
                 /\ Now(r, t, p) => Now(r, t, p)' /\ Free(r, t, p)'
<1> DEFINE ts == m_currentTs[r] + NullDelay(r, s)
<1>1. TypeOK /\ UidInv(r) /\ RunInv(r) /\ LiveInv(r) /\ SafeInv(r)
  BY DEF IInv, RankInv
<1>2. /\ \A e \in m_events[r] : e.ts \in Nat /\ e.uid \in Nat
      /\ m_currentTs[r] \in Nat /\ m_uid[r] \in Nat
      /\ \A t \in Neighbours[r] : m_nullEventId[r][t] \in Nat
  BY <1>1, EventFacts
<1>3. ts \in Nat /\ m_currentTs[r] <= ts
  BY <1>2, BundleFacts
<1>4. s \in Ranks /\ NullMessageEvent(s) \in Actions
  BY NeighbourFacts, ActionFacts
<1>5. Insert(r, ts, NullMessageEvent(s))
  BY DEF ScheduleNullMessageEvent
<1> HIDE DEF ts
<1>6. /\ m_events' \in [Ranks -> SUBSET QueuedEvent] /\ m_uid' \in [Ranks -> Nat]
      /\ m_uid'[r] = m_uid[r] + 1
      /\ \A q \in Ranks \ {r} : m_events'[q] = m_events[q] /\ m_uid'[q] = m_uid[q]
  BY <1>1, <1>3, <1>4, <1>5, InsertFacts
<1>7. PICK new \in QueuedEvent :
         /\ new.ts = ts /\ new.uid = m_uid[r] /\ new.does = NullMessageEvent(s)
         /\ m_events'[r] = m_events[r] \cup {new}
  BY <1>1, <1>3, <1>4, <1>5, InsertFacts
<1>8. /\ DOMAIN m_nullEventId' = Ranks
      /\ m_nullEventId'[r] \in [Neighbours[r] -> Nat]
      /\ m_nullEventId'[r][s] = m_uid[r]
      /\ \A t \in Neighbours[r] \ {s} : m_nullEventId'[r][t] = m_nullEventId[r][t]
      /\ \A q \in Ranks \ {r} : m_nullEventId'[q] = m_nullEventId[q]
  <2>1. m_nullEventId' = [m_nullEventId EXCEPT ![r][s] = m_uid[r]]
    BY DEF ScheduleNullMessageEvent
  <2>2. DOMAIN m_nullEventId = Ranks /\ m_nullEventId[r] \in [Neighbours[r] -> Nat]
    BY <1>1 DEF TypeOK
  <2> QED BY <1>2, <2>1, <2>2
<1>9. \A e \in m_events[r] : 4 <= e.uid /\ e.uid < m_uid[r]
  BY <1>1 DEF UidInv
<1>10. 5 <= m_uid[r] /\ \A t \in Neighbours[r] : m_nullEventId[r][t] < m_uid[r]
  BY <1>1 DEF UidInv
<1>11. /\ IsLive(new, r, s)' /\ \A e \in m_events[r] : ~IsLive(e, r, s)'
       /\ \A t \in Neighbours[r] \ {s} : /\ ~IsLive(new, r, t)'
                                         /\ \A e : IsLive(e, r, t)' <=> IsLive(e, r, t)
  BY <1>2, <1>7, <1>8, <1>9, <1>10 DEF IsLive
<1>12. UidInv(r)'
  <2>1. \A e \in m_events'[r] : 4 <= e.uid /\ e.uid < m_uid'[r]
    BY <1>2, <1>6, <1>7, <1>9, <1>10
  <2>2. \A e, f \in m_events'[r] : e.uid = f.uid => e = f
    BY <1>1, <1>2, <1>7, <1>9 DEF UidInv
  <2>3. 5 <= m_uid'[r] /\ \A t \in Neighbours[r] : m_nullEventId'[r][t] < m_uid'[r]
    BY <1>2, <1>6, <1>8, <1>10
  <2> QED BY <2>1, <2>2, <2>3 DEF UidInv
<1>13. LiveInv(r)'
  <2>1. SUFFICES ASSUME NEW t \in Neighbours[r]
                 PROVE  /\ \A e \in m_events'[r] : IsLive(e, r, t)' =>
                              /\ e.does = NullMessageEvent(t)
                              /\ e.ts <= m_currentTs[r] + NullDelay(r, t)
                        /\ \/ m_nullEventId'[r][t] = 0
                           \/ \E e \in m_events'[r] : IsLive(e, r, t)'
    BY DEF LiveInv, IsLive
  <2>2. CASE t = s
    <3>1. ts <= m_currentTs[r] + NullDelay(r, s)
      BY <1>3 DEF ts
    <3> QED BY <1>7, <1>11, <2>2, <3>1
  <2>3. CASE t # s
    <3>1. \/ m_nullEventId[r][t] = 0
          \/ \E e \in m_events[r] : IsLive(e, r, t)
      BY <1>1, <2>3 DEF LiveInv
    <3>2. \A e \in m_events[r] : IsLive(e, r, t) =>
             /\ e.does = NullMessageEvent(t)
             /\ e.ts <= m_currentTs[r] + NullDelay(r, t)
      BY <1>1 DEF LiveInv
    <3> QED BY <1>7, <1>8, <1>11, <2>3, <3>1, <3>2
  <2> QED BY <2>2, <2>3
<1>14. \A e \in m_events'[r] : m_currentTs[r] <= e.ts
  BY <1>1, <1>3, <1>7 DEF SafeInv
<1>15. m_stop[r] \/ \E e \in m_events'[r] : e.does = StopEvent
  BY <1>1, <1>7 DEF RunInv
<1>16. ASSUME NEW p \in Nat, \A e \in m_events[r] : p <= e.ts + BundleDelay(r, s)
       PROVE  Free(r, s, p)'
  BY <1>7, <1>11, <1>16 DEF Free
<1>17. ASSUME NEW t \in Neighbours[r] \ {s}, NEW p \in Nat
       PROVE  /\ Busy(r, t, p) => Busy(r, t, p)'
              /\ Now(r, t, p) => Now(r, t, p)' /\ Free(r, t, p)'
  <2>1. Busy(r, t, p) => Busy(r, t, p)'
    BY <1>7, <1>11 DEF Busy, IsCompletion
  <2>2. Now(r, t, p) => Now(r, t, p)'
    BY DEF Now
  <2>3. Now(r, t, p) => p <= ts + BundleDelay(r, t)
    BY <1>2, <1>3, BundleFacts DEF Now
  <2>4. Now(r, t, p) => \A e \in m_events[r] : p <= e.ts + BundleDelay(r, t)
    BY <1>1, NowIsFree
  <2>5. Now(r, t, p) => Free(r, t, p)'
    BY <1>7, <2>3, <2>4 DEF Free
  <2> QED BY <2>1, <2>2, <2>5
<1>18. m_nullEventId'[r][s] # 0
  BY <1>2, <1>8, <1>10
<1>19. \E z \in m_events'[r] : IsLive(z, r, s)' /\ z.ts = m_currentTs[r] + NullDelay(r, s)
  BY <1>7, <1>11 DEF ts
<1> QED BY <1>6, <1>7, <1>8, <1>12, <1>13, <1>14, <1>15, <1>16, <1>17, <1>18, <1>19

---------------------------------------------------------------------------
(* The steps of user code. *)

LEMMA ScheduleKeeps ==
    ASSUME IInv, NEW r \in Ranks, NEW d \in Delays, Schedule(r, d)
    PROVE  IInv'
<1>1. TypeOK /\ RankInv(r)
  BY DEF IInv
<1>2. m_currentTs[r] \in Nat /\ m_safeTime[r] \in Nat /\ d \in Nat
  BY <1>1, EventFacts, TimesAssumption
<1> DEFINE ts == m_currentTs[r] + d
<1>3. ts \in Nat /\ m_currentTs[r] <= ts /\ pc[r] \in {"user", "callback"}
  BY <1>2 DEF Schedule
<1>4. Insert(r, ts, UserEvent) /\ UserEvent \in Actions
      /\ UNCHANGED <<clock, m_safeTime, pc, bundles, channel, sending>> /\ made' \in Nat
  BY <1>1, ActionFacts DEF Schedule, TypeOK
<1> HIDE DEF ts
<1>5. /\ m_events' \in [Ranks -> SUBSET QueuedEvent] /\ m_uid' \in [Ranks -> Nat]
      /\ \A q \in Ranks \ {r} : m_events'[q] = m_events[q] /\ m_uid'[q] = m_uid[q]
      /\ UidInv(r)' /\ LiveInv(r)'
      /\ \A e \in m_events'[r] : m_currentTs[r] <= e.ts
      /\ m_stop[r] \/ \E e \in m_events'[r] : e.does = StopEvent
      /\ \A s \in Neighbours[r], p \in Nat :
            /\ Busy(r, s, p) => Busy(r, s, p)'
            /\ Now(r, s, p) => Now(r, s, p)' /\ Free(r, s, p)'
  BY <1>3, <1>4, InsertOther DEF clock, bundles
<1>6. TypeOK'
  BY <1>1, <1>4, <1>5 DEF TypeOK, clock, bundles
<1>7. \A q \in Ranks \ {r} : Same(q)
  BY <1>4, <1>5 DEF Same, clock, bundles
<1>8. RankInv(r)'
  <2>1. RunInv(r)'
    BY <1>1, <1>4, <1>5 DEF RankInv, RunInv, Uninitialized, clock, bundles
  <2>2. SendingInv(r)'
    BY <1>3, <1>4 DEF SendingInv
  <2>3. SafeInv(r)'
    BY <1>1, <1>4, <1>5 DEF RankInv, SafeInv, clock, bundles
  <2> QED BY <1>5, <2>1, <2>2, <2>3 DEF RankInv
<1>9. ASSUME NEW s \in Neighbours[r], NEW p \in Nat, Keeps(r, s, p) PROVE Keeps(r, s, p)'
  <2>1. Now(r, s, p) \/ Busy(r, s, p)
    <3>1. CASE pc[r] = "callback"
      BY <1>9, <3>1 DEF Keeps
    <3>2. CASE pc[r] = "user"
      BY <1>1, <1>9, <3>2 DEF Keeps, RankInv, RunInv, Now
    <3> QED BY <1>3, <3>1, <3>2
  <2>2. p <= m_safeTime[r] + BundleDelay(r, s)
    BY <1>9 DEF Keeps
  <2> QED BY <1>3, <1>4, <1>5, <2>1, <2>2 DEF Keeps
<1>10. channel' = channel /\ m_guaranteeTime' = m_guaranteeTime
  BY <1>4 DEF bundles
<1> QED BY <1>6, <1>7, <1>8, <1>9, <1>10, QuietStep

(* Only here it matters that one channel joins two neighbours: a ready     *)
(* device finds no transmission under way to the same neighbour.           *)
LEMMA TransmitStartKeeps ==
    ASSUME OneChannel, IInv, NEW r \in Ranks, NEW link \in Links, NEW tx \in TxTimes,
           TransmitStart(r, link, tx)
    PROVE  IInv'
<1>1. TypeOK /\ RankInv(r)
  BY DEF IInv
<1>2. m_currentTs[r] \in Nat /\ m_safeTime[r] \in Nat /\ tx \in Nat /\ link.delay \in Nat
  BY <1>1, EventFacts, TimesAssumption, LinksAssumption
<1> DEFINE ts == m_currentTs[r] + tx
<1>3. /\ ts \in Nat /\ m_currentTs[r] <= ts /\ pc[r] = "callback" /\ r \in link.ends
      /\ IsReady(r, link)
  BY <1>2 DEF TransmitStart
<1>4. Insert(r, ts, TransmitComplete(link)) /\ TransmitComplete(link) \in Actions
      /\ UNCHANGED <<clock, m_safeTime, bundles, channel>> /\ made' \in Nat
      /\ pc' = [pc EXCEPT ![r] = "send"]
  BY <1>1, ActionFacts DEF TransmitStart, TypeOK, Goto
<1>5. PICK to \in link.ends \ {r} :
         sending' = [sending EXCEPT ![r] = [to |-> to, rxTime |-> ts + link.delay]]
  BY DEF TransmitStart
<1> HIDE DEF ts
<1>6. to \in Neighbours[r] /\ link.ends = {r, to}
  <2>1. PICK a, b \in Ranks : a # b /\ link.ends = {a, b}
    BY LinksAssumption
  <2>2. to \in Ranks \ {r} /\ link.ends = {r, to}
    BY <1>3, <2>1
  <2> QED BY <2>2 DEF Neighbours
<1>7. /\ pc'[r] = "send" /\ sending'[r].to = to /\ sending'[r].rxTime = ts + link.delay
      /\ DOMAIN sending' = Ranks
      /\ \A q \in Ranks \ {r} : pc'[q] = pc[q] /\ sending'[q] = sending[q]
  BY <1>1, <1>4, <1>5 DEF TypeOK
<1>8. /\ m_events' \in [Ranks -> SUBSET QueuedEvent] /\ m_uid' \in [Ranks -> Nat]
      /\ \A q \in Ranks \ {r} : m_events'[q] = m_events[q] /\ m_uid'[q] = m_uid[q]
      /\ UidInv(r)' /\ LiveInv(r)'
      /\ \A e \in m_events'[r] : m_currentTs[r] <= e.ts
      /\ m_stop[r] \/ \E e \in m_events'[r] : e.does = StopEvent
      /\ \E e \in m_events'[r] : e.does = TransmitComplete(link)
      /\ \A s \in Neighbours[r], p \in Nat :
            /\ Busy(r, s, p) => Busy(r, s, p)'
            /\ Now(r, s, p) => Now(r, s, p)' /\ Free(r, s, p)'
  BY <1>3, <1>4, InsertOther DEF clock, bundles
<1>9. TypeOK'
  <2>1. pc' \in [Ranks -> {"user", "initialize", "loop", "callback", "send", "reschedule",
                           "null", "poll", "done"}]
    BY <1>1, <1>4 DEF TypeOK
  <2> QED BY <1>1, <1>4, <1>7, <1>8, <2>1 DEF TypeOK, clock, bundles
<1>10. \A q \in Ranks \ {r} : Same(q)
  BY <1>4, <1>7, <1>8 DEF Same, clock, bundles
<1>11. RankInv(r)'
  <2>1. RunInv(r)'
    <3>1. Uninitialized(r)' = Uninitialized(r) /\ Uninitialized(r) = {} /\ ~m_stop[r]
      BY <1>1, <1>3, <1>4 DEF RankInv, RunInv, Uninitialized, bundles
    <3>2. m_stop'[r] = m_stop[r]
      BY <1>4 DEF clock
    <3> QED BY <1>7, <1>8, <3>1, <3>2 DEF RunInv
  <2>2. SendingInv(r)'
    <3>1. m_currentTs[r] + BundleDelay(r, to) <= ts + link.delay /\ ts + link.delay \in Nat
      BY <1>2, <1>3, <1>6, BundleFacts
    <3>2. m_currentTs' = m_currentTs
      BY <1>4 DEF clock
    <3> QED BY <1>6, <1>7, <1>8, <3>1, <3>2 DEF SendingInv, IsCompletion
  <2>3. SafeInv(r)'
    BY <1>1, <1>4, <1>8 DEF RankInv, SafeInv, clock, bundles
  <2> QED BY <1>8, <2>1, <2>2, <2>3 DEF RankInv
<1>12. ASSUME NEW s \in Neighbours[r], NEW p \in Nat, Keeps(r, s, p) PROVE Keeps(r, s, p)'
  <2>1. Now(r, s, p) \/ Busy(r, s, p)
    BY <1>3, <1>12 DEF Keeps
  <2>2. s = to => ~Busy(r, s, p)
    BY <1>3, <1>6 DEF OneChannel, IsReady, Busy, IsCompletion
  <2>3. p <= m_safeTime[r] + BundleDelay(r, s)
    BY <1>12 DEF Keeps
  <2> QED BY <1>4, <1>7, <1>8, <2>1, <2>2, <2>3 DEF Keeps
<1>13. channel' = channel /\ m_guaranteeTime' = m_guaranteeTime
  BY <1>4 DEF bundles
<1> QED BY <1>9, <1>10, <1>11, <1>12, <1>13, QuietStep

(* A rank that is inside an event has an event in its queue: the one of    *)
(* Stop, at least.                                                         *)
LEMMA NotStopped ==
    ASSUME IInv, NEW r \in Ranks, pc[r] \in {"send", "reschedule", "null", "initialize"}
    PROVE  ~m_stop[r] /\ m_events[r] # {}
  BY DEF IInv, RankInv, RunInv

LEMMA SendPacketKeeps ==
    ASSUME IInv, NEW r \in Ranks, SendPacket(r)
    PROVE  IInv'
<1>1. TypeOK /\ RankInv(r) /\ UidInv(r) /\ RunInv(r) /\ LiveInv(r) /\ SendingInv(r)
      /\ SafeInv(r) /\ pc[r] = "send"
  BY DEF IInv, RankInv, SendPacket
<1>s. PICK s \in Neighbours[r] : s = sending[r].to
  BY <1>1 DEF SendingInv
<1>D. PICK D \in Nat : D = BundleDelay(r, s)
  BY BundleFacts
<1>q. PICK q \in Nat : q = CalculateGuaranteeTime(r, s)
  BY <1>1, NotStopped, GuaranteeFacts
<1>2. /\ s \in Neighbours[r] /\ sending[r].rxTime \in Nat
      /\ m_currentTs[r] + D <= sending[r].rxTime
      /\ \E c \in m_events[r] : IsCompletion(c, r, s)
  BY <1>1, <1>s, <1>D DEF SendingInv
<1>3. /\ UNCHANGED <<queue, clock, m_safeTime, bundles, sending, made>>
      /\ pc' = [pc EXCEPT ![r] = "reschedule"]
  BY DEF SendPacket, Goto
<1>4. PICK message \in {[rxTime |-> sending[r].rxTime, guarantee |-> q]} :
         channel' = [channel EXCEPT ![r][s] = Append(@, message)]
  BY <1>s, <1>q DEF SendPacket, Send
<1>5. D \in Nat /\ BundleDelay(r, s) = D
  BY <1>D
<1>6. /\ q \in Nat
      /\ q <= m_safeTime[r] + D
      /\ \A e \in m_events[r] : q <= e.ts + D
      /\ \A p \in Nat : /\ p <= m_safeTime[r] + D
                        /\ \A e \in m_events[r] : p <= e.ts + D
                        => p <= q
  BY <1>1, <1>2, <1>5, <1>q, NotStopped, GuaranteeFacts
<1>7. message \in Message /\ message.guarantee = q /\ message.rxTime = sending[r].rxTime
  BY <1>2, <1>4, <1>6 DEF Message
<1>8. pc'[r] = "reschedule" /\ \A x \in Ranks \ {r} : pc'[x] = pc[x]
  BY <1>1, <1>3 DEF TypeOK
<1>9. PICK z \in m_events[r] : IsLive(z, r, s)
  <2>1. Uninitialized(r) = {}
    BY <1>1 DEF RunInv
  <2>2. m_nullEventId[r][s] # 0
    BY <1>2, <2>1 DEF Uninitialized
  <2> QED BY <1>1, <1>2, <2>2 DEF LiveInv
<1>10. TypeOK'
  <2>1. channel'[r] \in [Neighbours[r] -> Seq(Message)] /\ DOMAIN channel' = Ranks
        /\ \A x \in Ranks \ {r} : channel'[x] = channel[x]
    <3>1. DOMAIN channel = Ranks /\ channel[r] \in [Neighbours[r] -> Seq(Message)]
      BY <1>1 DEF TypeOK
    <3>2. Append(channel[r][s], message) \in Seq(Message)
      BY <1>2, <1>7, <3>1
    <3> QED BY <1>4, <3>1, <3>2
  <2>2. pc' \in [Ranks -> {"user", "initialize", "loop", "callback", "send", "reschedule",
                           "null", "poll", "done"}]
    BY <1>1, <1>3 DEF TypeOK
  <2> QED BY <1>1, <1>3, <2>1, <2>2 DEF TypeOK, queue, clock, bundles
<1>11. \A x \in Ranks \ {r} : Same(x)
  BY <1>3, <1>8 DEF Same, queue, clock, bundles
<1>12. /\ m_events' = m_events /\ m_currentTs' = m_currentTs /\ m_safeTime' = m_safeTime
       /\ m_nullEventId' = m_nullEventId /\ m_guaranteeTime' = m_guaranteeTime
       /\ sending' = sending /\ m_stop' = m_stop /\ m_uid' = m_uid
  BY <1>3 DEF queue, clock, bundles
<1>13. RankInv(r)'
  <2>1. UidInv(r)' /\ LiveInv(r)' /\ SafeInv(r)'
    BY <1>1, <1>12 DEF UidInv, LiveInv, SafeInv, IsLive
  <2>2. RunInv(r)'
    BY <1>1, <1>8, <1>12 DEF RunInv, Uninitialized
  <2>3. SendingInv(r)'
    BY <1>1, <1>12 DEF SendingInv, IsCompletion
  <2> QED BY <2>1, <2>2, <2>3 DEF RankInv
<1>14. \A t \in Neighbours[r], p \in Nat :
          /\ Free(r, t, p) => Free(r, t, p)'
          /\ Busy(r, t, p) => Busy(r, t, p)'
          /\ Now(r, t, p) => Now(r, t, p)'
  BY <1>12 DEF Free, Busy, Now, IsLive, IsCompletion
<1>15. ASSUME NEW t \in Neighbours[r], NEW p \in Promised(r, t)
       PROVE  /\ Keeps(r, t, p) /\ p \in Nat
              /\ t = s => \A e \in m_events[r] : p <= e.ts + D
  <2>1. Keeps(r, t, p) /\ p \in Nat
    BY <1>1, PromisedIsNat DEF IInv, PromiseInv
  <2>2. t = s => Now(r, s, p)
    BY <1>1, <1>s, <2>1 DEF Keeps
  <2> QED BY <1>1, <1>2, <1>5, <2>1, <2>2, NowIsFree
<1>16. ASSUME NEW t \in Neighbours[r], NEW p \in Promised(r, t) PROVE Keeps(r, t, p)'
  <2>1. Keeps(r, t, p) /\ p \in Nat
    BY <1>15
  <2>2. t = s => \E e \in m_events'[r] : IsLive(e, r, s)' /\ p <= e.ts + D
    BY <1>9, <1>12, <1>15 DEF IsLive
  <2>3. sending'[r].to = s
    BY <1>s, <1>12
  <2> QED BY <1>1, <1>5, <1>8, <1>12, <1>14, <2>1, <2>2, <2>3 DEF Keeps
<1>17. Keeps(r, s, q)'
  <2>1. Free(r, s, q) /\ Busy(r, s, q)
    BY <1>2, <1>5, <1>6, <1>9 DEF Free, Busy
  <2>2. \E e \in m_events'[r] : IsLive(e, r, s)' /\ q <= e.ts + D
    BY <1>6, <1>9, <1>12 DEF IsLive
  <2> QED BY <1>2, <1>5, <1>6, <1>8, <1>12, <1>14, <2>1, <2>2 DEF Keeps
<1>18. ASSUME NEW p \in Promised(r, s) PROVE Follows(message, p)
  <2>1. p \in Nat /\ Keeps(r, s, p) /\ \A e \in m_events[r] : p <= e.ts + D
    BY <1>2, <1>15
  <2>2. p <= m_safeTime[r] + D /\ Now(r, s, p)
    BY <1>1, <1>s, <1>5, <2>1 DEF Keeps
  <2>3. p <= m_currentTs[r] + D /\ m_currentTs[r] \in Nat
    BY <1>1, <1>5, <2>2, EventFacts DEF Now
  <2>4. p <= sending[r].rxTime
    BY <1>2, <1>5, <2>1, <2>3
  <2>5. p <= q
    BY <1>6, <2>1, <2>2
  <2> QED BY <1>7, <2>4, <2>5 DEF Follows
<1> QED BY <1>2, <1>4, <1>7, <1>10, <1>11, <1>12, <1>13, <1>16, <1>17, <1>18, SendStep

LEMMA RescheduleKeeps ==
    ASSUME IInv, NEW r \in Ranks, RescheduleNullMessageEvent(r)
    PROVE  IInv'
<1>1. TypeOK /\ RankInv(r) /\ UidInv(r) /\ RunInv(r) /\ LiveInv(r) /\ SendingInv(r)
      /\ SafeInv(r) /\ pc[r] = "reschedule"
  BY DEF IInv, RankInv, RescheduleNullMessageEvent
<1>2. PICK s \in Neighbours[r] : s = sending[r].to
  BY <1>1 DEF SendingInv
<1>3. /\ ScheduleNullMessageEvent(r, s)
      /\ UNCHANGED <<clock, m_safeTime, m_guaranteeTime, channel, made>>
      /\ sending' = [sending EXCEPT ![r] = NoPacket]
      /\ pc' = [pc EXCEPT ![r] = "callback"]
  BY <1>2 DEF RescheduleNullMessageEvent, Goto
<1>4. /\ m_events' \in [Ranks -> SUBSET QueuedEvent] /\ m_uid' \in [Ranks -> Nat]
      /\ \A q \in Ranks \ {r} : /\ m_events'[q] = m_events[q] /\ m_uid'[q] = m_uid[q]
                                /\ m_nullEventId'[q] = m_nullEventId[q]
      /\ DOMAIN m_nullEventId' = Ranks
      /\ m_nullEventId'[r] \in [Neighbours[r] -> Nat]
      /\ m_nullEventId'[r][s] # 0
      /\ \A t \in Neighbours[r] \ {s} : m_nullEventId'[r][t] = m_nullEventId[r][t]
      /\ UidInv(r)' /\ LiveInv(r)'
      /\ \A e \in m_events'[r] : m_currentTs[r] <= e.ts
      /\ m_stop[r] \/ \E e \in m_events'[r] : e.does = StopEvent
      /\ \E z \in m_events'[r] : /\ IsLive(z, r, s)'
                                 /\ z.ts = m_currentTs[r] + NullDelay(r, s)
      /\ m_events[r] \subseteq m_events'[r]
      /\ \A p \in Nat : (\A e \in m_events[r] : p <= e.ts + BundleDelay(r, s))
                          => Free(r, s, p)'
      /\ \A t \in Neighbours[r] \ {s}, p \in Nat :
            /\ Busy(r, t, p) => Busy(r, t, p)'
            /\ Now(r, t, p) => Now(r, t, p)' /\ Free(r, t, p)'
  BY <1>1, <1>3, InsertNull DEF clock
<1>5. /\ pc'[r] = "callback" /\ DOMAIN sending' = Ranks
      /\ \A q \in Ranks \ {r} : pc'[q] = pc[q] /\ sending'[q] = sending[q]
  BY <1>1, <1>3 DEF TypeOK
<1>6. TypeOK'
  <2>1. pc' \in [Ranks -> {"user", "initialize", "loop", "callback", "send", "reschedule",
                           "null", "poll", "done"}]
    BY <1>1, <1>3 DEF TypeOK
  <2> QED BY <1>1, <1>3, <1>4, <1>5, <2>1 DEF TypeOK, clock
<1>7. \A q \in Ranks \ {r} : Same(q)
  BY <1>3, <1>4, <1>5 DEF Same, clock
<1>8. RankInv(r)'
  <2>1. RunInv(r)'
    <3>1. Uninitialized(r) = {} /\ ~m_stop[r]
      BY <1>1 DEF RunInv
    <3>2. Uninitialized(r)' = {}
      BY <1>4, <3>1 DEF Uninitialized
    <3>3. m_stop'[r] = m_stop[r]
      BY <1>3 DEF clock
    <3> QED BY <1>4, <1>5, <3>1, <3>2, <3>3 DEF RunInv
  <2>2. SendingInv(r)'
    BY <1>5 DEF SendingInv
  <2>3. SafeInv(r)'
    BY <1>1, <1>3, <1>4 DEF SafeInv, clock
  <2> QED BY <1>4, <2>1, <2>2, <2>3 DEF RankInv
<1>9. ASSUME NEW t \in Neighbours[r], NEW p \in Nat, Keeps(r, t, p) PROVE Keeps(r, t, p)'
  <2>1. p <= m_safeTime[r] + BundleDelay(r, t) /\ (Now(r, t, p) \/ Busy(r, t, p))
    BY <1>1, <1>9 DEF Keeps
  <2>2. CASE t # s
    BY <1>3, <1>4, <1>5, <2>1, <2>2 DEF Keeps
  <2>3. CASE t = s
    <3>1. CASE Now(r, s, p)
      <4>1. Now(r, s, p)' /\ Free(r, s, p)'
        BY <1>1, <1>3, <1>4, <3>1, NowIsFree DEF Now, clock
      <4> QED BY <1>3, <1>5, <2>1, <2>3, <4>1 DEF Keeps
    <3>2. CASE Busy(r, s, p)
      <4>1. PICK c, z \in m_events[r] :
               /\ IsCompletion(c, r, s) /\ p <= c.ts + BundleDelay(r, s)
               /\ IsLive(z, r, s) /\ p <= z.ts + BundleDelay(r, s)
        BY <3>2 DEF Busy
      <4>2. PICK y \in m_events'[r] : /\ IsLive(y, r, s)'
                                      /\ y.ts = m_currentTs[r] + NullDelay(r, s)
        BY <1>4
      <4>3. z.ts <= m_currentTs[r] + NullDelay(r, s)
        BY <1>1, <4>1 DEF LiveInv
      <4>4. /\ m_currentTs[r] + NullDelay(r, s) \in Nat /\ z.ts \in Nat
            /\ BundleDelay(r, s) \in Nat
        BY <1>1, EventFacts, BundleFacts
      <4>5. p <= y.ts + BundleDelay(r, s)
        BY <4>1, <4>2, <4>3, <4>4
      <4>6. Busy(r, s, p)'
        BY <1>4, <4>1, <4>2, <4>5 DEF Busy, IsCompletion
      <4> QED BY <1>3, <1>5, <2>1, <2>3, <4>6 DEF Keeps
    <3> QED BY <2>1, <2>3, <3>1, <3>2
  <2> QED BY <2>2, <2>3
<1>10. channel' = channel /\ m_guaranteeTime' = m_guaranteeTime
  BY <1>3
<1> QED BY <1>6, <1>7, <1>8, <1>9, <1>10, QuietStep

---------------------------------------------------------------------------
(* The steps of Run before the loop. *)

LEMMA RunKeeps ==
    ASSUME IInv, NEW r \in Ranks, Run(r)
    PROVE  IInv'
<1>1. TypeOK /\ RankInv(r) /\ UidInv(r) /\ RunInv(r) /\ LiveInv(r) /\ SafeInv(r)
      /\ pc[r] = "user"
  BY DEF IInv, RankInv, Run
<1>2. /\ UNCHANGED <<queue, clock, bundles, channel, sending, made>>
      /\ m_safeTime' = [m_safeTime EXCEPT ![r] = 0]
      /\ pc' = [pc EXCEPT ![r] = "initialize"]
  BY DEF Run, Goto
<1>3. /\ pc'[r] = "initialize" /\ m_safeTime'[r] = m_safeTime[r] /\ m_safeTime[r] = 0
      /\ \A q \in Ranks \ {r} : pc'[q] = pc[q] /\ m_safeTime'[q] = m_safeTime[q]
  BY <1>1, <1>2 DEF TypeOK, RunInv
<1>4. TypeOK'
  BY <1>1, <1>2 DEF TypeOK, queue, clock, bundles
<1>5. \A q \in Ranks \ {r} : Same(q)
  BY <1>2, <1>3 DEF Same, queue, clock, bundles
<1>6. RankInv(r)'
  <2>1. Uninitialized(r)' # {}
    BY <1>1, <1>2, NeighbourFacts DEF RunInv, Uninitialized, bundles
  <2>2. RunInv(r)'
    BY <1>1, <1>2, <1>3, <2>1 DEF RunInv, queue, clock
  <2>3. UidInv(r)' /\ LiveInv(r)' /\ SafeInv(r)'
    BY <1>1, <1>2, <1>3 DEF UidInv, LiveInv, SafeInv, IsLive, queue, clock, bundles
  <2>4. SendingInv(r)'
    BY <1>3 DEF SendingInv
  <2> QED BY <2>2, <2>3, <2>4 DEF RankInv
<1>7. ASSUME NEW s \in Neighbours[r], NEW p \in Nat, Keeps(r, s, p) PROVE Keeps(r, s, p)'
  BY <1>1, <1>2, <1>3, <1>7
     DEF Keeps, Free, Busy, Now, IsLive, IsCompletion, queue, clock, bundles
<1> QED BY <1>2, <1>4, <1>5, <1>6, <1>7, QuietStep DEF bundles

LEMMA InitializeKeeps ==
    ASSUME IInv, NEW r \in Ranks, InitializeNullMessageEvent(r)
    PROVE  IInv'
<1>1. TypeOK /\ RankInv(r) /\ UidInv(r) /\ RunInv(r) /\ LiveInv(r) /\ SafeInv(r)
      /\ pc[r] = "initialize" /\ m_safeTime[r] = 0 /\ m_currentTs[r] = 0
      /\ Uninitialized(r) # {}
  BY DEF IInv, RankInv, RunInv, InitializeNullMessageEvent
<1>2. PICK s \in Uninitialized(r) : s = Min(Uninitialized(r))
  <2>1. Uninitialized(r) \subseteq Nat
    BY NeighbourFacts, LinksAssumption DEF Uninitialized
  <2> QED BY <1>1, <2>1, MinIsLeast
<1>3. s \in Neighbours[r]
  BY DEF Uninitialized
<1>4. PICK message \in {[rxTime |-> 0, guarantee |-> BundleDelay(r, s)]} :
         channel' = [channel EXCEPT ![r][s] = Append(@, message)]
  BY <1>2 DEF InitializeNullMessageEvent
<1>5. ScheduleNullMessageEvent(r, s)
      /\ UNCHANGED <<m_currentTs, m_safeTime, m_guaranteeTime, sending, made>>
  BY <1>2 DEF InitializeNullMessageEvent
<1>6. /\ pc' \in [Ranks -> {"user", "initialize", "loop", "callback", "send", "reschedule",
                            "null", "poll", "done"}]
      /\ \A q \in Ranks \ {r} : pc'[q] = pc[q]
      /\ Uninitialized(r) = {s} => pc'[r] = "loop"
      /\ Uninitialized(r) # {s} => pc'[r] = "initialize"
  <2>1. IF Uninitialized(r) = {s} THEN pc' = [pc EXCEPT ![r] = "loop"] ELSE pc' = pc
    BY <1>2 DEF InitializeNullMessageEvent, Goto
  <2>2. pc \in [Ranks -> {"user", "initialize", "loop", "callback", "send", "reschedule",
                          "null", "poll", "done"}]
    BY <1>1 DEF TypeOK
  <2>3. CASE Uninitialized(r) = {s}
    BY <2>1, <2>2, <2>3
  <2>4. CASE Uninitialized(r) # {s}
    BY <1>1, <2>1, <2>2, <2>4
  <2> QED BY <2>3, <2>4
<1>7. m_stop' = m_stop
  <2>1. m_stop' = [m_stop EXCEPT ![r] = FALSE] \/ m_stop' = m_stop
    BY <1>2 DEF InitializeNullMessageEvent
  <2>2. m_stop \in [Ranks -> BOOLEAN] /\ ~m_stop[r]
    BY <1>1 DEF TypeOK, RunInv
  <2> QED BY <2>1, <2>2
<1>8. BundleDelay(r, s) \in Nat /\ message \in Message
      /\ message.rxTime = 0 /\ message.guarantee = BundleDelay(r, s)
  BY <1>3, <1>4, BundleFacts DEF Message
<1>9. /\ m_events' \in [Ranks -> SUBSET QueuedEvent] /\ m_uid' \in [Ranks -> Nat]
      /\ \A q \in Ranks \ {r} : /\ m_events'[q] = m_events[q] /\ m_uid'[q] = m_uid[q]
                                /\ m_nullEventId'[q] = m_nullEventId[q]
      /\ DOMAIN m_nullEventId' = Ranks
      /\ m_nullEventId'[r] \in [Neighbours[r] -> Nat]
      /\ m_nullEventId'[r][s] # 0
      /\ \A t \in Neighbours[r] \ {s} : m_nullEventId'[r][t] = m_nullEventId[r][t]
      /\ UidInv(r)' /\ LiveInv(r)'
      /\ \A e \in m_events'[r] : m_currentTs[r] <= e.ts
      /\ m_stop[r] \/ \E e \in m_events'[r] : e.does = StopEvent
  BY <1>1, <1>3, <1>5, <1>7, InsertNull
<1>10. TypeOK'
  <2>1. channel'[r] \in [Neighbours[r] -> Seq(Message)] /\ DOMAIN channel' = Ranks
        /\ \A x \in Ranks \ {r} : channel'[x] = channel[x]
    <3>1. DOMAIN channel = Ranks /\ channel[r] \in [Neighbours[r] -> Seq(Message)]
      BY <1>1 DEF TypeOK
    <3>2. Append(channel[r][s], message) \in Seq(Message)
      BY <1>3, <1>8, <3>1
    <3> QED BY <1>4, <3>1, <3>2
  <2> QED BY <1>1, <1>5, <1>6, <1>7, <1>9, <2>1 DEF TypeOK
<1>11. \A q \in Ranks \ {r} : Same(q)
  BY <1>5, <1>6, <1>7, <1>9 DEF Same
<1>12. RankInv(r)'
  <2>1. Uninitialized(r)' = Uninitialized(r) \ {s}
    BY <1>3, <1>9 DEF Uninitialized
  <2>2. RunInv(r)'
    <3>1. ~m_stop'[r] /\ \E e \in m_events'[r] : e.does = StopEvent
      BY <1>1, <1>7, <1>9 DEF RunInv
    <3>2. m_safeTime'[r] = 0 /\ m_currentTs'[r] = 0
      BY <1>1, <1>5
    <3> QED BY <1>6, <2>1, <3>1, <3>2 DEF RunInv
  <2>3. SafeInv(r)'
    BY <1>1, <1>5, <1>9 DEF SafeInv
  <2>4. SendingInv(r)'
    BY <1>6 DEF SendingInv
  <2> QED BY <1>9, <2>2, <2>3, <2>4 DEF RankInv
<1>13. ASSUME NEW t \in Neighbours[r], NEW p \in Nat, p <= BundleDelay(r, t)
       PROVE  Keeps(r, t, p)'
  <2>1. \A e \in m_events'[r] : e.ts \in Nat
    BY <1>10 DEF TypeOK, QueuedEvent
  <2>2. Free(r, t, p)'
    BY <1>13, <2>1, BundleFacts DEF Free
  <2>3. p <= m_safeTime'[r] + BundleDelay(r, t)
    BY <1>1, <1>5, <1>13, BundleFacts
  <2> QED BY <1>6, <2>2, <2>3 DEF Keeps
<1>14. ASSUME NEW t \in Neighbours[r], NEW p \in Promised(r, t)
       PROVE  p \in Nat /\ p <= BundleDelay(r, t)
  <2>1. p \in Nat /\ Keeps(r, t, p)
    BY <1>1, PromisedIsNat DEF IInv, PromiseInv
  <2> QED BY <1>1, <2>1, BundleFacts DEF Keeps
<1>15. \A p \in Promised(r, s) : Follows(message, p)
  BY <1>3, <1>8, <1>14 DEF Follows
<1>16. \A t \in Neighbours[r] : \A p \in Promised(r, t) : Keeps(r, t, p)'
  BY <1>13, <1>14
<1>17. Keeps(r, s, message.guarantee)'
  <2>1. \A p \in Nat : p <= BundleDelay(r, s) => Keeps(r, s, p)'
    BY <1>3, <1>13
  <2> QED BY <1>8, <2>1
<1> QED BY <1>3, <1>4, <1>5, <1>8, <1>10, <1>11, <1>12, <1>15, <1>16, <1>17, SendStep

LEMMA LeaveLoopKeeps ==
    ASSUME IInv, NEW r \in Ranks, LeaveLoop(r)
    PROVE  IInv'
<1>1. TypeOK /\ RankInv(r) /\ UidInv(r) /\ RunInv(r) /\ LiveInv(r) /\ SafeInv(r)
      /\ pc[r] = "loop"
  BY DEF IInv, RankInv, LeaveLoop
<1>2. /\ UNCHANGED <<queue, clock, m_safeTime, bundles, channel, sending, made>>
      /\ pc' = [pc EXCEPT ![r] = "done"]
  BY DEF LeaveLoop, Goto
<1>3. pc'[r] = "done" /\ \A q \in Ranks \ {r} : pc'[q] = pc[q]
  BY <1>1, <1>2 DEF TypeOK
<1>4. TypeOK'
  BY <1>1, <1>2 DEF TypeOK, queue, clock, bundles
<1>5. \A q \in Ranks \ {r} : Same(q)
  BY <1>2, <1>3 DEF Same, queue, clock, bundles
<1>6. RankInv(r)'
  <2>1. RunInv(r)'
    BY <1>1, <1>2, <1>3 DEF RunInv, Uninitialized, queue, clock, bundles
  <2>2. UidInv(r)' /\ LiveInv(r)' /\ SafeInv(r)'
    BY <1>1, <1>2, <1>3 DEF UidInv, LiveInv, SafeInv, IsLive, queue, clock, bundles
  <2>3. SendingInv(r)'
    BY <1>3 DEF SendingInv
  <2> QED BY <2>1, <2>2, <2>3 DEF RankInv
<1>7. ASSUME NEW s \in Neighbours[r], NEW p \in Nat, Keeps(r, s, p) PROVE Keeps(r, s, p)'
  BY <1>1, <1>2, <1>3, <1>7
     DEF Keeps, Free, Busy, Now, IsLive, IsCompletion, queue, clock, bundles
<1> QED BY <1>2, <1>4, <1>5, <1>6, <1>7, QuietStep DEF bundles

---------------------------------------------------------------------------
(* The steps of the loop. *)

LEMMA InvokedFacts ==
    ASSUME NEW r, NEW next, next.does \in Actions
    PROVE  /\ Invoked(r, next) \in {"callback", "poll", "null"}
           /\ next.does = StopEvent => Invoked(r, next) = "poll"
           /\ \A l : next.does = TransmitComplete(l) => Invoked(r, next) = "callback"
           /\ \A s : next.does = NullMessageEvent(s) =>
                 /\ Invoked(r, next) # "callback"
                 /\ m_nullEventId[r][s] = next.uid => Invoked(r, next) = "null"
<1> DEFINE kind == next.does[1]
           live == m_nullEventId[r][next.does[2]] = next.uid
<1>1. kind \in {"user", "complete", "stop", "null"}
  BY DEF Actions, StopEvent, UserEvent, TransmitComplete, NullMessageEvent
<1>2. /\ next.does = StopEvent => kind = "stop"
      /\ \A l : next.does = TransmitComplete(l) => kind = "complete"
      /\ \A s : next.does = NullMessageEvent(s) => kind = "null" /\ next.does[2] = s
  BY DEF StopEvent, TransmitComplete, NullMessageEvent
<1>3. Invoked(r, next) = CASE kind \in {"user", "complete"} -> "callback"
                           [] kind = "stop" -> "poll"
                           [] kind = "null" -> IF live THEN "null" ELSE "poll"
  BY DEF Invoked
<1> HIDE DEF kind, live
<1>4. kind \in {"user", "complete"} => Invoked(r, next) = "callback"
  BY <1>3, Zenon
<1>5. kind = "stop" => Invoked(r, next) = "poll"
  <2>1. "stop" \notin {"user", "complete"} /\ "stop" # "null"
    OBVIOUS
  <2> QED BY <1>3, <2>1, Zenon
<1>6. kind = "null" => Invoked(r, next) = IF live THEN "null" ELSE "poll"
  <2>1. "null" \notin {"user", "complete"} /\ "stop" # "null"
    OBVIOUS
  <2> QED BY <1>3, <2>1, Zenon
<1>7. ASSUME NEW s, next.does = NullMessageEvent(s), m_nullEventId[r][s] = next.uid
      PROVE  live
  BY <1>2, <1>7 DEF live
<1> QED BY <1>1, <1>2, <1>4, <1>5, <1>6, <1>7

LEMMA ProcessOneEventKeeps ==
    ASSUME IInv, NEW r \in Ranks, ProcessOneEvent(r)
    PROVE  IInv'
<1>1. TypeOK /\ RankInv(r) /\ UidInv(r) /\ RunInv(r) /\ LiveInv(r) /\ SafeInv(r)
      /\ pc[r] = "loop" /\ m_events[r] # {} /\ ~m_stop[r] /\ Uninitialized(r) = {}
  BY DEF IInv, RankInv, RunInv, ProcessOneEvent, IsFinished
<1>2. PICK next \in m_events[r] : next = EarliestOf(m_events[r])
  BY <1>1, EarliestFacts
<1>3. /\ UNCHANGED <<m_uid, m_safeTime, bundles, channel, sending, made>>
      /\ m_events' = [m_events EXCEPT ![r] = m_events[r] \ {next}]
      /\ m_currentTs' = [m_currentTs EXCEPT ![r] = next.ts]
      /\ pc' = [pc EXCEPT ![r] = Invoked(r, next)]
  BY <1>2 DEF ProcessOneEvent, Goto
<1>4. /\ next.ts \in Nat /\ next.does \in Actions /\ m_safeTime[r] \in Nat
      /\ m_currentTs[r] \in Nat /\ \A e \in m_events[r] : e.ts \in Nat
  BY <1>1, EventFacts
<1>5. next.ts <= m_safeTime[r] /\ \A e \in m_events[r] : next.ts <= e.ts
  BY <1>1, <1>2, EarliestFacts DEF ProcessOneEvent, IsSafe, NextTs
<1>6. m_stop' \in [Ranks -> BOOLEAN] /\ m_stop'[r] = (next.does = StopEvent)
      /\ \A q \in Ranks \ {r} : m_stop'[q] = m_stop[q]
  <2>1. m_stop' = [m_stop EXCEPT ![r] = m_stop[r] \/ next.does = StopEvent]
    BY <1>2 DEF ProcessOneEvent
  <2>2. m_stop \in [Ranks -> BOOLEAN]
    BY <1>1 DEF TypeOK
  <2>3. (m_stop[r] \/ next.does = StopEvent) = (next.does = StopEvent)
    BY <1>1
  <2>4. m_stop' = [m_stop EXCEPT ![r] = (next.does = StopEvent)]
    BY <2>1, <2>3
  <2>5. (next.does = StopEvent) \in BOOLEAN
    OBVIOUS
  <2> QED BY <2>2, <2>4, <2>5
<1>7. /\ Invoked(r, next) \in {"callback", "poll", "null"}
      /\ next.does = StopEvent => Invoked(r, next) = "poll"
      /\ \A l : next.does = TransmitComplete(l) => Invoked(r, next) = "callback"
      /\ \A s : next.does = NullMessageEvent(s) /\ m_nullEventId[r][s] = next.uid =>
            Invoked(r, next) = "null"
  BY <1>4, InvokedFacts
<1>8. /\ m_events'[r] = m_events[r] \ {next} /\ m_currentTs'[r] = next.ts
      /\ pc'[r] = Invoked(r, next)
      /\ \A q \in Ranks \ {r} : /\ m_events'[q] = m_events[q] /\ pc'[q] = pc[q]
                                /\ m_currentTs'[q] = m_currentTs[q]
  BY <1>1, <1>3 DEF TypeOK
<1>9. TypeOK'
  <2>1. pc' \in [Ranks -> {"user", "initialize", "loop", "callback", "send", "reschedule",
                           "null", "poll", "done"}]
    BY <1>1, <1>3, <1>7 DEF TypeOK
  <2>2. m_events' \in [Ranks -> SUBSET QueuedEvent]
    BY <1>1, <1>3 DEF TypeOK
  <2>3. m_currentTs' \in [Ranks -> Nat]
    BY <1>1, <1>3, <1>4 DEF TypeOK
  <2> QED BY <1>1, <1>3, <1>6, <2>1, <2>2, <2>3 DEF TypeOK, bundles
<1>10. \A q \in Ranks \ {r} : Same(q)
  BY <1>3, <1>6, <1>8 DEF Same, bundles
<1>11. m_uid' = m_uid /\ m_safeTime' = m_safeTime /\ m_guaranteeTime' = m_guaranteeTime
       /\ m_nullEventId' = m_nullEventId /\ channel' = channel
  BY <1>3 DEF bundles
<1>12. ASSUME NEW s \in Neighbours[r], IsLive(next, r, s)
       PROVE  pc'[r] = "null" /\ Due(r)' = {s}
  <2>1. next.does = NullMessageEvent(s)
    BY <1>1, <1>12 DEF LiveInv
  <2>2. pc'[r] = "null"
    BY <1>7, <1>8, <1>12, <2>1 DEF IsLive
  <2>3. \A e \in m_events'[r] : e.uid # m_nullEventId[r][s]
    BY <1>1, <1>8, <1>12 DEF UidInv, IsLive
  <2>4. ASSUME NEW t \in Neighbours[r] \ {s}
        PROVE  \E f \in m_events'[r] : f.uid = m_nullEventId[r][t]
    <3>1. m_nullEventId[r][t] # 0
      BY <1>1 DEF Uninitialized
    <3>2. PICK f \in m_events[r] : IsLive(f, r, t)
      BY <1>1, <3>1 DEF LiveInv
    <3>3. f.does = NullMessageEvent(t)
      BY <1>1, <3>2 DEF LiveInv
    <3>4. f # next
      BY <2>1, <3>3, ActionFacts
    <3> QED BY <1>8, <3>2, <3>4 DEF IsLive
  <2> QED BY <1>11, <2>2, <2>3, <2>4 DEF Due
<1>13. RankInv(r)'
  <2>1. UidInv(r)'
    BY <1>1, <1>8, <1>11 DEF UidInv
  <2>2. RunInv(r)'
    <3>1. m_stop'[r] \/ \E e \in m_events'[r] : e.does = StopEvent
      BY <1>1, <1>6, <1>8 DEF RunInv
    <3>2. Uninitialized(r)' = {}
      BY <1>1, <1>11 DEF Uninitialized
    <3>3. m_stop'[r] => pc'[r] = "poll"
      BY <1>6, <1>7, <1>8
    <3>4. pc'[r] \in {"callback", "poll", "null"}
      BY <1>7, <1>8
    <3> QED BY <3>1, <3>2, <3>3, <3>4 DEF RunInv
  <2>3. LiveInv(r)'
    <3>1. SUFFICES ASSUME NEW s \in Neighbours[r]
                   PROVE  /\ \A e \in m_events'[r] : IsLive(e, r, s) =>
                                /\ e.does = NullMessageEvent(s)
                                /\ e.ts <= m_currentTs'[r] + NullDelay(r, s)
                          /\ \/ m_nullEventId[r][s] = 0
                             \/ \E e \in m_events'[r] : IsLive(e, r, s)
                             \/ pc'[r] = "null" /\ Due(r)' = {s}
      BY <1>11 DEF LiveInv, IsLive
    <3>2. m_currentTs[r] <= next.ts /\ NullDelay(r, s) \in Nat
      BY <1>1, BundleFacts DEF SafeInv
    <3>3. ASSUME NEW e \in m_events'[r], IsLive(e, r, s)
          PROVE  e.does = NullMessageEvent(s) /\ e.ts <= m_currentTs'[r] + NullDelay(r, s)
      <4>1. /\ e.does = NullMessageEvent(s) /\ e.ts <= m_currentTs[r] + NullDelay(r, s)
            /\ e.ts \in Nat
        BY <1>1, <1>4, <1>8, <3>3 DEF LiveInv
      <4> QED BY <1>4, <1>8, <3>2, <4>1
    <3>4. \/ m_nullEventId[r][s] = 0
          \/ \E e \in m_events[r] : IsLive(e, r, s)
      BY <1>1 DEF LiveInv
    <3> QED BY <1>8, <1>12, <3>3, <3>4
  <2>4. SendingInv(r)'
    BY <1>7, <1>8 DEF SendingInv
  <2>5. SafeInv(r)'
    BY <1>1, <1>5, <1>8, <1>11 DEF SafeInv
  <2> QED BY <2>1, <2>2, <2>3, <2>4, <2>5 DEF RankInv
<1>14. ASSUME NEW s \in Neighbours[r], NEW p \in Nat, Keeps(r, s, p) PROVE Keeps(r, s, p)'
  <2>1. p <= m_safeTime'[r] + BundleDelay(r, s) /\ (Free(r, s, p) \/ Busy(r, s, p))
    BY <1>11, <1>14 DEF Keeps
  <2>2. pc'[r] \in {"callback", "poll", "null"}
    BY <1>7, <1>8
  <2>3. CASE p <= next.ts + BundleDelay(r, s)
    <3>1. Now(r, s, p)'
      BY <1>8, <2>3 DEF Now
    <3>2. \A e \in m_events'[r] : p <= e.ts + BundleDelay(r, s)
      BY <1>4, <1>5, <1>8, <2>3, BundleFacts
    <3>3. Free(r, s, p)'
      BY <3>2 DEF Free
    <3> QED BY <2>1, <2>2, <3>1, <3>3 DEF Keeps
  <2>4. CASE ~(p <= next.ts + BundleDelay(r, s)) /\ Free(r, s, p)
    <3>1. IsLive(next, r, s)
      BY <2>4 DEF Free
    <3>2. pc'[r] = "null" /\ Due(r)' = {s}
      BY <1>12, <3>1
    <3>3. Free(r, s, p)'
      BY <1>8, <1>11, <2>4 DEF Free, IsLive
    <3> QED BY <2>1, <3>2, <3>3 DEF Keeps
  <2>5. CASE ~(p <= next.ts + BundleDelay(r, s)) /\ Busy(r, s, p)
    <3>1. PICK c, z \in m_events[r] :
             /\ IsCompletion(c, r, s) /\ p <= c.ts + BundleDelay(r, s)
             /\ IsLive(z, r, s) /\ p <= z.ts + BundleDelay(r, s)
      BY <2>5 DEF Busy
    <3>2. c \in m_events'[r] /\ z \in m_events'[r]
      BY <1>8, <2>5, <3>1
    <3>3. Busy(r, s, p)'
      BY <1>11, <3>1, <3>2 DEF Busy, IsLive, IsCompletion
    <3>4. s \notin Due(r)'
      BY <1>11, <3>1, <3>2 DEF Due, IsLive
    <3> QED BY <2>1, <2>2, <3>3, <3>4 DEF Keeps
  <2> QED BY <2>1, <2>3, <2>4, <2>5
<1> QED BY <1>9, <1>10, <1>11, <1>13, <1>14, QuietStep

LEMMA NullMessageEventHandlerKeeps ==
    ASSUME IInv, NEW r \in Ranks, NullMessageEventHandler(r)
    PROVE  IInv'
<1>1. TypeOK /\ RankInv(r) /\ UidInv(r) /\ RunInv(r) /\ LiveInv(r) /\ SafeInv(r)
      /\ pc[r] = "null" /\ Uninitialized(r) = {}
  BY DEF IInv, RankInv, RunInv, NullMessageEventHandler
<1>2. PICK s \in Due(r) : Send(r, s, 0) /\ ScheduleNullMessageEvent(r, s)
  BY DEF NullMessageEventHandler
<1>3. s \in Neighbours[r] /\ \A e \in m_events[r] : ~IsLive(e, r, s)
  BY DEF Due, IsLive
<1>4. Due(r) = {s}
  <2>1. m_nullEventId[r][s] # 0
    BY <1>1, <1>3 DEF Uninitialized
  <2> QED BY <1>1, <1>3, <2>1 DEF LiveInv
<1>5. PICK D \in Nat : D = BundleDelay(r, s)
  BY <1>3, BundleFacts
<1>6. PICK q \in Nat : q = CalculateGuaranteeTime(r, s)
  BY <1>1, <1>3, NotStopped, GuaranteeFacts
<1>7. /\ q <= m_safeTime[r] + D
      /\ \A e \in m_events[r] : q <= e.ts + D
      /\ \A p \in Nat : /\ p <= m_safeTime[r] + D
                        /\ \A e \in m_events[r] : p <= e.ts + D
                        => p <= q
  BY <1>1, <1>3, <1>5, <1>6, NotStopped, GuaranteeFacts
<1>8. /\ UNCHANGED <<clock, m_safeTime, m_guaranteeTime, sending, made>>
      /\ pc' = [pc EXCEPT ![r] = "poll"]
  BY DEF NullMessageEventHandler, Goto
<1>9. PICK message \in {[rxTime |-> 0, guarantee |-> q]} :
         channel' = [channel EXCEPT ![r][s] = Append(@, message)]
  BY <1>2, <1>6 DEF Send
<1>10. message \in Message /\ message.guarantee = q /\ message.rxTime = 0
  BY <1>9 DEF Message
<1>11. /\ m_events' \in [Ranks -> SUBSET QueuedEvent] /\ m_uid' \in [Ranks -> Nat]
       /\ \A x \in Ranks \ {r} : /\ m_events'[x] = m_events[x] /\ m_uid'[x] = m_uid[x]
                                 /\ m_nullEventId'[x] = m_nullEventId[x]
       /\ DOMAIN m_nullEventId' = Ranks
       /\ m_nullEventId'[r] \in [Neighbours[r] -> Nat]
       /\ m_nullEventId'[r][s] # 0
       /\ \A t \in Neighbours[r] \ {s} : m_nullEventId'[r][t] = m_nullEventId[r][t]
       /\ UidInv(r)' /\ LiveInv(r)'
       /\ \A e \in m_events'[r] : m_currentTs[r] <= e.ts
       /\ m_stop[r] \/ \E e \in m_events'[r] : e.does = StopEvent
       /\ \A p \in Nat : (\A e \in m_events[r] : p <= e.ts + D) => Free(r, s, p)'
       /\ \A t \in Neighbours[r] \ {s}, p \in Nat :
             /\ Busy(r, t, p) => Busy(r, t, p)'
             /\ Now(r, t, p) => Now(r, t, p)' /\ Free(r, t, p)'
  BY <1>2, <1>3, <1>4, <1>5, <1>8, InsertNull DEF clock
<1>12. /\ pc'[r] = "poll" /\ \A x \in Ranks \ {r} : pc'[x] = pc[x]
       /\ m_safeTime' = m_safeTime /\ m_currentTs' = m_currentTs /\ m_stop' = m_stop
  BY <1>1, <1>8 DEF TypeOK, clock
<1>13. TypeOK'
  <2>1. channel'[r] \in [Neighbours[r] -> Seq(Message)] /\ DOMAIN channel' = Ranks
        /\ \A x \in Ranks \ {r} : channel'[x] = channel[x]
    <3>1. DOMAIN channel = Ranks /\ channel[r] \in [Neighbours[r] -> Seq(Message)]
      BY <1>1 DEF TypeOK
    <3>2. Append(channel[r][s], message) \in Seq(Message)
      BY <1>3, <1>10, <3>1
    <3> QED BY <1>9, <3>1, <3>2
  <2>2. pc' \in [Ranks -> {"user", "initialize", "loop", "callback", "send", "reschedule",
                           "null", "poll", "done"}]
    BY <1>1, <1>8 DEF TypeOK
  <2> QED BY <1>1, <1>8, <1>11, <2>1, <2>2 DEF TypeOK, clock
<1>14. \A x \in Ranks \ {r} : Same(x)
  BY <1>8, <1>11, <1>12 DEF Same
<1>15. RankInv(r)'
  <2>1. Uninitialized(r)' = {}
    BY <1>1, <1>11 DEF Uninitialized
  <2>2. RunInv(r)'
    BY <1>1, <1>11, <1>12, <2>1 DEF RunInv
  <2>3. SafeInv(r)'
    BY <1>1, <1>8, <1>11, <1>12 DEF SafeInv
  <2>4. SendingInv(r)'
    BY <1>12 DEF SendingInv
  <2> QED BY <1>11, <2>2, <2>3, <2>4 DEF RankInv
<1>16. ASSUME NEW p \in Promised(r, s)
       PROVE  /\ p \in Nat /\ p <= m_safeTime[r] + D
              /\ \A e \in m_events[r] : p <= e.ts + D
  <2>1. p \in Nat /\ Keeps(r, s, p)
    BY <1>1, <1>3, PromisedIsNat DEF IInv, PromiseInv
  <2>2. Free(r, s, p) /\ p <= m_safeTime[r] + D
    BY <1>1, <1>4, <1>5, <2>1 DEF Keeps
  <2> QED BY <1>3, <1>5, <2>1, <2>2 DEF Free
<1>17. ASSUME NEW t \in Neighbours[r], NEW p \in Promised(r, t) PROVE Keeps(r, t, p)'
  <2>1. p \in Nat /\ Keeps(r, t, p)
    BY <1>1, PromisedIsNat DEF IInv, PromiseInv
  <2>2. p <= m_safeTime'[r] + BundleDelay(r, t)
    BY <1>12, <2>1 DEF Keeps
  <2>3. Free(r, t, p)' \/ Busy(r, t, p)'
    <3>1. CASE t = s
      BY <1>11, <1>16, <3>1
    <3>2. CASE t # s
      <4>1. Now(r, t, p) \/ Busy(r, t, p)
        BY <1>1, <1>4, <2>1, <3>2 DEF Keeps
      <4> QED BY <1>11, <2>1, <3>2, <4>1
    <3> QED BY <3>1, <3>2
  <2> QED BY <1>12, <2>2, <2>3 DEF Keeps
<1>18. Keeps(r, s, message.guarantee)'
  <2>1. Free(r, s, q)'
    BY <1>7, <1>11
  <2>2. q <= m_safeTime'[r] + BundleDelay(r, s)
    BY <1>5, <1>7, <1>12
  <2>3. Keeps(r, s, q)'
    BY <1>12, <2>1, <2>2 DEF Keeps
  <2> QED BY <1>10, <2>3
<1>19. \A p \in Promised(r, s) : Follows(message, p)
  BY <1>7, <1>10, <1>16 DEF Follows
<1> QED BY <1>3, <1>8, <1>9, <1>10, <1>13, <1>14, <1>15, <1>17, <1>18, <1>19, SendStep

(* A received packet is scheduled after the safe time, a received          *)
(* guarantee is not before it.                                             *)
LEMMA TakeMessageFacts ==
    ASSUME IInv, NEW r \in Ranks, NEW s \in Neighbours[r], channel[s][r] # << >>,
           TakeMessage(r, s), pc[r] # "null",
           m_nullEventId' = m_nullEventId, m_currentTs' = m_currentTs, m_stop' = m_stop
    PROVE  /\ m_events' \in [Ranks -> SUBSET QueuedEvent] /\ m_uid' \in [Ranks -> Nat]
           /\ DOMAIN m_guaranteeTime' = Ranks
           /\ m_guaranteeTime'[r] \in [Neighbours[r] -> Nat]
           /\ DOMAIN channel' = Ranks
           /\ \A q \in Ranks : channel'[q] \in [Neighbours[q] -> Seq(Message)]
           /\ \A q \in Ranks \ {r} : /\ m_events'[q] = m_events[q] /\ m_uid'[q] = m_uid[q]
                                     /\ m_guaranteeTime'[q] = m_guaranteeTime[q]
           /\ UidInv(r)' /\ LiveInv(r)'
           /\ \A e \in m_events'[r] : m_currentTs[r] <= e.ts
           /\ m_stop[r] \/ \E e \in m_events'[r] : e.does = StopEvent
           /\ \A t \in Neighbours[r] : m_safeTime[r] <= m_guaranteeTime'[r][t]
           /\ \A t \in Neighbours[r], p \in Nat :
                 /\ Busy(r, t, p) => Busy(r, t, p)'
                 /\ Free(r, t, p) /\ p <= m_safeTime[r] + BundleDelay(r, t)
                      => Free(r, t, p)'
<1> DEFINE c == channel[s][r]
<1>1. TypeOK /\ RankInv(r) /\ UidInv(r) /\ RunInv(r) /\ LiveInv(r) /\ SafeInv(r)
  BY DEF IInv, RankInv
<1>2. s \in Ranks /\ r \in Neighbours[s]
  BY NeighbourFacts
<1>3. c \in Seq(Message) /\ 1 \in 1..Len(c) /\ Head(c) = c[1] /\ Tail(c) \in Seq(Message)
      /\ m_guaranteeTime[r][s] \in Nat
  BY <1>1, <1>2, PromisedIsNat
<1>4. PICK message \in Message : message = Head(c)
  BY <1>3
<1>5. message.guarantee \in Nat /\ message.rxTime \in Nat
  BY DEF Message
<1>6. /\ m_guaranteeTime[r][s] <= message.guarantee
      /\ message.rxTime > 0 => m_guaranteeTime[r][s] <= message.rxTime
  BY <1>2, <1>3, <1>4 DEF IInv, ChannelInv, Follows
<1>7. /\ m_safeTime[r] \in Nat /\ m_currentTs[r] \in Nat /\ m_currentTs[r] <= m_safeTime[r]
      /\ \A t \in Neighbours[r] : /\ m_guaranteeTime[r][t] \in Nat
                                  /\ m_safeTime[r] <= m_guaranteeTime[r][t]
  BY <1>1, EventFacts DEF SafeInv
<1>8. /\ IF message.rxTime > 0 THEN Insert(r, message.rxTime, UserEvent)
                               ELSE UNCHANGED queue
      /\ m_guaranteeTime' = [m_guaranteeTime EXCEPT ![r][s] = message.guarantee]
      /\ channel' = [channel EXCEPT ![s][r] = Tail(@)]
  BY <1>4 DEF TakeMessage
<1>9. /\ DOMAIN channel' = Ranks
      /\ \A q \in Ranks : channel'[q] \in [Neighbours[q] -> Seq(Message)]
  <2>1. DOMAIN channel = Ranks /\ \A q \in Ranks : channel[q] \in [Neighbours[q] -> Seq(Message)]
    BY <1>1 DEF TypeOK
  <2>2. channel'[s] = [channel[s] EXCEPT ![r] = Tail(c)] /\ DOMAIN channel' = Ranks
        /\ \A q \in Ranks \ {s} : channel'[q] = channel[q]
    BY <1>2, <1>8, <2>1
  <2>3. channel'[s] \in [Neighbours[s] -> Seq(Message)]
    BY <1>2, <1>3, <2>1, <2>2
  <2> QED BY <2>1, <2>2, <2>3
<1>10. /\ DOMAIN m_guaranteeTime' = Ranks
       /\ m_guaranteeTime'[r] \in [Neighbours[r] -> Nat]
       /\ m_guaranteeTime'[r][s] = message.guarantee
       /\ \A t \in Neighbours[r] \ {s} : m_guaranteeTime'[r][t] = m_guaranteeTime[r][t]
       /\ \A q \in Ranks \ {r} : m_guaranteeTime'[q] = m_guaranteeTime[q]
  <2>1. DOMAIN m_guaranteeTime = Ranks /\ m_guaranteeTime[r] \in [Neighbours[r] -> Nat]
    BY <1>1 DEF TypeOK
  <2> QED BY <1>5, <1>8, <2>1
<1>11. \A t \in Neighbours[r] : m_safeTime[r] <= m_guaranteeTime'[r][t]
  BY <1>5, <1>6, <1>7, <1>10
<1>12. CASE message.rxTime > 0
  <2> DEFINE ts == message.rxTime
  <2>1. ts \in Nat /\ m_safeTime[r] <= ts /\ m_currentTs[r] <= ts
    BY <1>5, <1>6, <1>7, <1>12
  <2>2. Insert(r, ts, UserEvent) /\ UserEvent \in Actions
    BY <1>8, <1>12, ActionFacts
  <2> HIDE DEF ts
  <2>3. /\ m_events' \in [Ranks -> SUBSET QueuedEvent] /\ m_uid' \in [Ranks -> Nat]
        /\ \A q \in Ranks \ {r} : m_events'[q] = m_events[q] /\ m_uid'[q] = m_uid[q]
        /\ UidInv(r)' /\ LiveInv(r)'
        /\ \A e \in m_events'[r] : m_currentTs[r] <= e.ts
        /\ m_stop[r] \/ \E e \in m_events'[r] : e.does = StopEvent
        /\ \A t \in Neighbours[r], p \in Nat :
              /\ Busy(r, t, p) => Busy(r, t, p)'
              /\ Free(r, t, p) /\ p <= ts + BundleDelay(r, t) => Free(r, t, p)'
    BY <2>1, <2>2, InsertOther
  <2>4. ASSUME NEW t \in Neighbours[r], NEW p \in Nat,
               p <= m_safeTime[r] + BundleDelay(r, t)
        PROVE  p <= ts + BundleDelay(r, t)
    BY <1>7, <2>1, <2>4, BundleFacts
  <2> QED BY <1>9, <1>10, <1>11, <2>3, <2>4
<1>13. CASE ~(message.rxTime > 0)
  <2>1. m_events' = m_events /\ m_uid' = m_uid
    BY <1>8, <1>13 DEF queue
  <2>2. UidInv(r)'
    BY <1>1, <2>1 DEF UidInv
  <2>3. LiveInv(r)'
    BY <1>1, <2>1 DEF LiveInv, IsLive
  <2>4. \A t \in Neighbours[r], p \in Nat :
           /\ Busy(r, t, p) => Busy(r, t, p)'
           /\ Free(r, t, p) => Free(r, t, p)'
    BY <2>1 DEF Busy, Free, IsLive, IsCompletion
  <2>5. /\ \A e \in m_events'[r] : m_currentTs[r] <= e.ts
        /\ m_stop[r] \/ \E e \in m_events'[r] : e.does = StopEvent
    BY <1>1, <2>1 DEF SafeInv, RunInv
  <2>6. m_events' \in [Ranks -> SUBSET QueuedEvent] /\ m_uid' \in [Ranks -> Nat]
    BY <1>1, <2>1 DEF TypeOK
  <2> QED BY <1>9, <1>10, <1>11, <2>1, <2>2, <2>3, <2>4, <2>5, <2>6
<1> QED BY <1>12, <1>13

LEMMA ReceiveMessagesNonBlockingKeeps ==
    ASSUME IInv, NEW r \in Ranks, NEW s \in Neighbours[r], ReceiveMessagesNonBlocking(r, s)
    PROVE  IInv'
<1>1. TypeOK /\ RankInv(r) /\ UidInv(r) /\ RunInv(r) /\ LiveInv(r) /\ SafeInv(r)
      /\ pc[r] \in {"callback", "poll"} /\ channel[s][r] # << >> /\ Uninitialized(r) = {}
  BY DEF IInv, RankInv, RunInv, ReceiveMessagesNonBlocking
<1>2. /\ TakeMessage(r, s)
      /\ UNCHANGED <<clock, m_safeTime, m_nullEventId, sending, made>>
      /\ pc' = [pc EXCEPT ![r] = "poll"]
  BY DEF ReceiveMessagesNonBlocking, Goto
<1>3. m_currentTs' = m_currentTs /\ m_stop' = m_stop
  BY <1>2 DEF clock
<1>4. /\ m_events' \in [Ranks -> SUBSET QueuedEvent] /\ m_uid' \in [Ranks -> Nat]
      /\ DOMAIN m_guaranteeTime' = Ranks
      /\ m_guaranteeTime'[r] \in [Neighbours[r] -> Nat]
      /\ DOMAIN channel' = Ranks
      /\ \A q \in Ranks : channel'[q] \in [Neighbours[q] -> Seq(Message)]
      /\ \A q \in Ranks \ {r} : /\ m_events'[q] = m_events[q] /\ m_uid'[q] = m_uid[q]
                                /\ m_guaranteeTime'[q] = m_guaranteeTime[q]
      /\ UidInv(r)' /\ LiveInv(r)'
      /\ \A e \in m_events'[r] : m_currentTs[r] <= e.ts
      /\ m_stop[r] \/ \E e \in m_events'[r] : e.does = StopEvent
      /\ \A t \in Neighbours[r] : m_safeTime[r] <= m_guaranteeTime'[r][t]
      /\ \A t \in Neighbours[r], p \in Nat :
            /\ Busy(r, t, p) => Busy(r, t, p)'
            /\ Free(r, t, p) /\ p <= m_safeTime[r] + BundleDelay(r, t)
                 => Free(r, t, p)'
  BY <1>1, <1>2, <1>3, TakeMessageFacts
<1>5. pc'[r] = "poll" /\ \A q \in Ranks \ {r} : pc'[q] = pc[q]
  BY <1>1, <1>2 DEF TypeOK
<1>6. TypeOK'
  <2>1. pc' \in [Ranks -> {"user", "initialize", "loop", "callback", "send", "reschedule",
                           "null", "poll", "done"}]
    BY <1>1, <1>2 DEF TypeOK
  <2>2. \A q \in Ranks : m_guaranteeTime'[q] \in [Neighbours[q] -> Nat]
    BY <1>1, <1>4 DEF TypeOK
  <2> QED BY <1>1, <1>2, <1>3, <1>4, <2>1, <2>2 DEF TypeOK
<1>7. \A q \in Ranks \ {r} : Same(q)
  BY <1>2, <1>3, <1>4, <1>5 DEF Same
<1>8. RankInv(r)'
  <2>1. Uninitialized(r)' = {}
    BY <1>1, <1>2 DEF Uninitialized
  <2>2. RunInv(r)'
    BY <1>3, <1>4, <1>5, <2>1 DEF RunInv
  <2>3. SendingInv(r)'
    BY <1>5 DEF SendingInv
  <2>4. SafeInv(r)'
    BY <1>1, <1>2, <1>3, <1>4 DEF SafeInv
  <2> QED BY <1>4, <2>2, <2>3, <2>4 DEF RankInv
<1>9. ASSUME NEW t \in Neighbours[r], NEW p \in Nat, Keeps(r, t, p) PROVE Keeps(r, t, p)'
  <2>1. p <= m_safeTime[r] + BundleDelay(r, t) /\ (Free(r, t, p) \/ Busy(r, t, p))
    BY <1>9 DEF Keeps
  <2> QED BY <1>2, <1>4, <1>5, <2>1 DEF Keeps
<1>10. /\ m_guaranteeTime' = [m_guaranteeTime EXCEPT ![r][s] = Head(channel[s][r]).guarantee]
       /\ channel' = [channel EXCEPT ![s][r] = Tail(@)]
  BY <1>2 DEF TakeMessage
<1> QED BY <1>1, <1>6, <1>7, <1>8, <1>9, <1>10, TakeStep

LEMMA CalculateSafeTimeKeeps ==
    ASSUME IInv, NEW r \in Ranks, CalculateSafeTime(r)
    PROVE  IInv'
<1>1. TypeOK /\ RankInv(r) /\ UidInv(r) /\ RunInv(r) /\ LiveInv(r) /\ SafeInv(r)
      /\ pc[r] \in {"callback", "poll"} /\ Uninitialized(r) = {}
  BY DEF IInv, RankInv, RunInv, CalculateSafeTime
<1>2. PICK safe \in Nat : safe = SafeTime(m_guaranteeTime[r])
  BY <1>1, SafeTimeFacts DEF TypeOK
<1>3. /\ m_safeTime[r] <= safe /\ m_safeTime[r] \in Nat
      /\ \A s \in Neighbours[r] : safe <= m_guaranteeTime[r][s]
  <2>1. m_guaranteeTime[r] \in [Neighbours[r] -> Nat] /\ m_safeTime[r] \in Nat
    BY <1>1 DEF TypeOK
  <2>2. /\ \A s \in Neighbours[r] : safe <= m_guaranteeTime[r][s]
        /\ \E s \in Neighbours[r] : safe = m_guaranteeTime[r][s]
    BY <1>2, <2>1, SafeTimeFacts
  <2> QED BY <1>1, <2>1, <2>2 DEF SafeInv
<1>4. /\ UNCHANGED <<queue, clock, bundles, channel, sending, made>>
      /\ m_safeTime' = [m_safeTime EXCEPT ![r] = safe]
      /\ pc' = [pc EXCEPT ![r] = "loop"]
  BY <1>2 DEF CalculateSafeTime, Goto
<1>5. /\ pc'[r] = "loop" /\ m_safeTime'[r] = safe
      /\ \A q \in Ranks \ {r} : pc'[q] = pc[q] /\ m_safeTime'[q] = m_safeTime[q]
  BY <1>1, <1>4 DEF TypeOK
<1>6. TypeOK'
  BY <1>1, <1>4 DEF TypeOK, queue, clock, bundles
<1>7. \A q \in Ranks \ {r} : Same(q)
  BY <1>4, <1>5 DEF Same, queue, clock, bundles
<1>8. RankInv(r)'
  <2>1. RunInv(r)'
    BY <1>1, <1>4, <1>5 DEF RunInv, Uninitialized, queue, clock, bundles
  <2>2. UidInv(r)' /\ LiveInv(r)'
    BY <1>1, <1>4 DEF UidInv, LiveInv, IsLive, queue, clock, bundles
  <2>3. SafeInv(r)'
    <3>1. m_currentTs[r] <= safe
      BY <1>1, <1>3, EventFacts DEF SafeInv
    <3> QED BY <1>1, <1>3, <1>4, <1>5, <3>1 DEF SafeInv, queue, clock, bundles
  <2>4. SendingInv(r)'
    BY <1>5 DEF SendingInv
  <2> QED BY <2>1, <2>2, <2>3, <2>4 DEF RankInv
<1>9. ASSUME NEW s \in Neighbours[r], NEW p \in Nat, Keeps(r, s, p) PROVE Keeps(r, s, p)'
  <2>1. p <= safe + BundleDelay(r, s)
    <3>1. p <= m_safeTime[r] + BundleDelay(r, s)
      BY <1>9 DEF Keeps
    <3> QED BY <1>3, <3>1, BundleFacts
  <2>2. Free(r, s, p)' \/ Busy(r, s, p)'
    BY <1>4, <1>9 DEF Keeps, Free, Busy, IsLive, IsCompletion, queue, bundles
  <2> QED BY <1>5, <2>1, <2>2 DEF Keeps
<1> QED BY <1>4, <1>6, <1>7, <1>8, <1>9, QuietStep DEF bundles

LEMMA HandleArrivingMessagesBlockingKeeps ==
    ASSUME IInv, NEW r \in Ranks, NEW s \in Neighbours[r],
           HandleArrivingMessagesBlocking(r, s)
    PROVE  IInv'
<1>1. TypeOK /\ RankInv(r) /\ UidInv(r) /\ RunInv(r) /\ LiveInv(r) /\ SafeInv(r)
      /\ pc[r] = "loop" /\ channel[s][r] # << >> /\ Uninitialized(r) = {}
  BY DEF IInv, RankInv, RunInv, HandleArrivingMessagesBlocking
<1>2. /\ TakeMessage(r, s)
      /\ UNCHANGED <<clock, pc, m_nullEventId, sending, made>>
      /\ m_safeTime' = [m_safeTime EXCEPT ![r] = SafeTime(m_guaranteeTime'[r])]
  BY DEF HandleArrivingMessagesBlocking
<1>3. m_currentTs' = m_currentTs /\ m_stop' = m_stop
  BY <1>2 DEF clock
<1>4. /\ m_events' \in [Ranks -> SUBSET QueuedEvent] /\ m_uid' \in [Ranks -> Nat]
      /\ DOMAIN m_guaranteeTime' = Ranks
      /\ m_guaranteeTime'[r] \in [Neighbours[r] -> Nat]
      /\ DOMAIN channel' = Ranks
      /\ \A q \in Ranks : channel'[q] \in [Neighbours[q] -> Seq(Message)]
      /\ \A q \in Ranks \ {r} : /\ m_events'[q] = m_events[q] /\ m_uid'[q] = m_uid[q]
                                /\ m_guaranteeTime'[q] = m_guaranteeTime[q]
      /\ UidInv(r)' /\ LiveInv(r)'
      /\ \A e \in m_events'[r] : m_currentTs[r] <= e.ts
      /\ m_stop[r] \/ \E e \in m_events'[r] : e.does = StopEvent
      /\ \A t \in Neighbours[r] : m_safeTime[r] <= m_guaranteeTime'[r][t]
      /\ \A t \in Neighbours[r], p \in Nat :
            /\ Busy(r, t, p) => Busy(r, t, p)'
            /\ Free(r, t, p) /\ p <= m_safeTime[r] + BundleDelay(r, t)
                 => Free(r, t, p)'
  BY <1>1, <1>2, <1>3, TakeMessageFacts
<1>5. PICK g \in [Neighbours[r] -> Nat] : g = m_guaranteeTime'[r]
  BY <1>4
<1>6. PICK safe \in Nat : safe = SafeTime(g)
  BY SafeTimeFacts
<1>7. /\ m_safeTime[r] <= safe /\ m_safeTime[r] \in Nat
      /\ \A t \in Neighbours[r] : safe <= m_guaranteeTime'[r][t]
  <2>1. /\ \A t \in Neighbours[r] : safe <= g[t]
        /\ \E t \in Neighbours[r] : safe = g[t]
    BY <1>6, SafeTimeFacts
  <2> QED BY <1>1, <1>4, <1>5, <2>1 DEF TypeOK
<1>8. m_safeTime' = [m_safeTime EXCEPT ![r] = safe]
  BY <1>2, <1>5, <1>6
<1>9. m_safeTime'[r] = safe /\ \A q \in Ranks \ {r} : m_safeTime'[q] = m_safeTime[q]
  BY <1>1, <1>8 DEF TypeOK
<1>10. TypeOK'
  <2>1. \A q \in Ranks : m_guaranteeTime'[q] \in [Neighbours[q] -> Nat]
    BY <1>1, <1>4 DEF TypeOK
  <2>2. m_safeTime' \in [Ranks -> Nat]
    BY <1>1, <1>8 DEF TypeOK
  <2> QED BY <1>1, <1>2, <1>3, <1>4, <2>1, <2>2 DEF TypeOK
<1>11. \A q \in Ranks \ {r} : Same(q)
  BY <1>2, <1>3, <1>4, <1>9 DEF Same
<1>12. RankInv(r)'
  <2>1. Uninitialized(r)' = {}
    BY <1>1, <1>2 DEF Uninitialized
  <2>2. RunInv(r)'
    BY <1>1, <1>2, <1>3, <1>4, <2>1 DEF RunInv
  <2>3. SendingInv(r)'
    BY <1>1, <1>2 DEF SendingInv
  <2>4. SafeInv(r)'
    <3>1. m_currentTs[r] <= safe
      BY <1>1, <1>7, EventFacts DEF SafeInv
    <3> QED BY <1>3, <1>4, <1>7, <1>9, <3>1 DEF SafeInv
  <2> QED BY <1>4, <2>2, <2>3, <2>4 DEF RankInv
<1>13. ASSUME NEW t \in Neighbours[r], NEW p \in Nat, Keeps(r, t, p) PROVE Keeps(r, t, p)'
  <2>1. p <= m_safeTime[r] + BundleDelay(r, t) /\ (Free(r, t, p) \/ Busy(r, t, p))
    BY <1>13 DEF Keeps
  <2>2. p <= safe + BundleDelay(r, t)
    BY <1>7, <2>1, BundleFacts
  <2> QED BY <1>1, <1>2, <1>4, <1>9, <2>1, <2>2 DEF Keeps
<1>14. /\ m_guaranteeTime' = [m_guaranteeTime EXCEPT ![r][s] = Head(channel[s][r]).guarantee]
       /\ channel' = [channel EXCEPT ![s][r] = Tail(@)]
  BY <1>2 DEF TakeMessage
<1> QED BY <1>1, <1>10, <1>11, <1>12, <1>13, <1>14, TakeStep

---------------------------------------------------------------------------
(* The invariant is inductive. *)

LEMMA InitKeeps == Init => IInv
<1> SUFFICES ASSUME Init PROVE IInv
  OBVIOUS
<1>1. \A r \in Ranks :
         /\ m_uid[r] = 5 /\ m_currentTs[r] = 0 /\ ~m_stop[r] /\ m_safeTime[r] = 0
         /\ pc[r] = "user"
         /\ \A s \in Neighbours[r] : /\ m_guaranteeTime[r][s] = 0 /\ m_nullEventId[r][s] = 0
                                     /\ channel[r][s] = << >>
  BY DEF Init
<1>2. TypeOK
  <2>1. [ts |-> StopTime, uid |-> 4, does |-> StopEvent] \in QueuedEvent
    BY TimesAssumption, ActionFacts DEF QueuedEvent
  <2>2. << >> \in Seq(Message)
    OBVIOUS
  <2>3. m_events \in [Ranks -> SUBSET QueuedEvent]
    BY <2>1 DEF Init
  <2> QED BY <2>2, <2>3 DEF Init, TypeOK
<1>3. ASSUME NEW r \in Ranks PROVE RankInv(r)
  <2>1. PICK stop \in QueuedEvent : /\ m_events[r] = {stop} /\ stop.ts \in Nat
                                    /\ stop.uid = 4 /\ stop.does = StopEvent
    <3>1. PICK stop \in QueuedEvent : stop = [ts |-> StopTime, uid |-> 4, does |-> StopEvent]
      BY TimesAssumption, ActionFacts DEF QueuedEvent
    <3>2. m_events[r] = {stop}
      BY <3>1 DEF Init
    <3>3. stop.ts \in Nat /\ stop.uid = 4 /\ stop.does = StopEvent
      BY <3>1, TimesAssumption
    <3> QED BY <3>2, <3>3
  <2>2. UidInv(r)
    BY <1>1, <2>1 DEF UidInv
  <2>3. RunInv(r)
    BY <1>1, <2>1 DEF RunInv
  <2>4. LiveInv(r)
    BY <1>1, <2>1 DEF LiveInv, IsLive
  <2>5. SendingInv(r)
    BY <1>1 DEF SendingInv
  <2>6. SafeInv(r)
    BY <1>1, <2>1 DEF SafeInv
  <2> QED BY <2>2, <2>3, <2>4, <2>5, <2>6 DEF RankInv
<1>4. ASSUME NEW r \in Ranks, NEW s \in Neighbours[r]
      PROVE  PromiseInv(r, s) /\ ChannelInv(r, s)
  <2>1. channel[r][s] = << >> /\ m_guaranteeTime[s][r] = 0
    BY <1>1, NeighbourFacts
  <2>2. Promised(r, s) = {0} /\ ChannelInv(r, s)
    BY <2>1 DEF Promised, ChannelInv
  <2>3. Free(r, s, 0)
    BY <1>2, EventFacts, BundleFacts DEF Free
  <2>4. 0 <= m_safeTime[r] + BundleDelay(r, s)
    BY <1>1, BundleFacts
  <2>5. Keeps(r, s, 0)
    BY <1>1, <2>3, <2>4 DEF Keeps
  <2> QED BY <2>2, <2>5 DEF PromiseInv
<1> QED BY <1>2, <1>3, <1>4 DEF IInv

LEMMA StutterKeeps ==
    ASSUME IInv, UNCHANGED vars
    PROVE  IInv'
<1>1. /\ m_events' = m_events /\ m_uid' = m_uid /\ m_currentTs' = m_currentTs
      /\ m_stop' = m_stop /\ m_safeTime' = m_safeTime /\ pc' = pc
      /\ m_guaranteeTime' = m_guaranteeTime /\ m_nullEventId' = m_nullEventId
      /\ channel' = channel /\ sending' = sending /\ made' = made
  BY DEF vars, queue, clock, bundles
<1>2. TypeOK'
  BY <1>1 DEF IInv, TypeOK
<1>3. \A q \in Ranks : Same(q)
  BY <1>1 DEF Same
<1>4. \A q \in Ranks : RankInv(q)'
  BY <1>3, SameKeeps DEF IInv
<1>5. ASSUME NEW q \in Ranks, NEW s \in Neighbours[q]
      PROVE  PromiseInv(q, s)' /\ ChannelInv(q, s)'
  <2>1. Promised(q, s)' = Promised(q, s)
    BY <1>1 DEF Promised
  <2>2. ChannelInv(q, s)'
    BY <1>1 DEF IInv, ChannelInv, Follows
  <2> QED BY <1>3, <2>1, <2>2, SameKeeps DEF IInv, PromiseInv
<1> QED BY <1>2, <1>4, <1>5 DEF IInv

LEMMA NextKeeps ==
    ASSUME OneChannel, IInv, [Next]_vars
    PROVE  IInv'
<1>1. CASE UNCHANGED vars
  BY <1>1, StutterKeeps
<1>2. CASE Finished
  BY <1>2, StutterKeeps DEF Finished
<1>3. ASSUME NEW r \in Ranks, UserCall(r) PROVE IInv'
  BY <1>3, ScheduleKeeps, TransmitStartKeeps DEF UserCall
<1>4. ASSUME NEW r \in Ranks, Run(r) PROVE IInv'
  BY <1>4, RunKeeps
<1>5. ASSUME NEW r \in Ranks, Receive(r) PROVE IInv'
  BY <1>5, ReceiveMessagesNonBlockingKeeps, HandleArrivingMessagesBlockingKeeps DEF Receive
<1>6. ASSUME NEW r \in Ranks, Simulator(r) PROVE IInv'
  BY <1>5, <1>6, SendPacketKeeps, RescheduleKeeps, InitializeKeeps, LeaveLoopKeeps,
     ProcessOneEventKeeps, NullMessageEventHandlerKeeps, CalculateSafeTimeKeeps
     DEF Simulator
<1> QED BY <1>1, <1>2, <1>3, <1>4, <1>6 DEF Next

LEMMA IInvHolds ==
    ASSUME OneChannel
    PROVE  Spec => []IInv
<1>1. Init => IInv
  BY InitKeeps
<1>2. IInv /\ [Next]_vars => IInv'
  BY NextKeeps
<1> QED BY <1>1, <1>2, PTL DEF Spec

---------------------------------------------------------------------------
(* Promises(r, s) lists the promises of PromiseInv in their order.         *)
LEMMA PromisesFacts ==
    ASSUME NEW n \in Nat, NEW a, NEW f
    PROVE  LET promises == <<a>> \o [i \in 1..n |-> f[i]]
           IN  /\ promises[1] = a
               /\ \A i \in 1..n : promises[i + 1] = f[i]
<1> DEFINE t == [i \in 1..n |-> f[i]]
           S == {f[i] : i \in 1..n}
<1>1. t \in Seq(S) /\ Len(t) = n /\ \A i \in 1..n : t[i] = f[i]
  <2>1. t \in [1..n -> S]
    OBVIOUS
  <2> QED BY <2>1
<1>2. <<a>> \in Seq({a}) /\ Len(<<a>>) = 1 /\ <<a>>[1] = a
  OBVIOUS
<1> HIDE DEF t
<1>3. /\ (<<a>> \o t)[1] = a
      /\ \A i \in 1..n : (<<a>> \o t)[i + 1] = t[i]
  BY <1>1, <1>2
<1> QED BY <1>1, <1>3 DEF t

(* Every queue, every message and every guarantee has the type that the    *)
(* model gives it.                                                         *)
THEOREM TypeHolds ==
    ASSUME OneChannel
    PROVE  Spec => []TypeOK
<1>1. IInv => TypeOK
  BY DEF IInv
<1> QED BY <1>1, IInvHolds, PTL

(* No event and no packet is ever late for the rank it is for, whatever    *)
(* the other ranks do meanwhile: ProcessOneEvent, Schedule and             *)
(* ScheduleWithContext never find a time before the clock.                 *)
THEOREM NeverLateHolds ==
    ASSUME OneChannel
    PROVE  Spec => []NeverLate
<1>1. ASSUME IInv PROVE NeverLate
  <2>1. ASSUME NEW r \in Ranks PROVE \A e \in m_events[r] : e.ts >= m_currentTs[r]
    <3>1. SafeInv(r)
      BY <1>1 DEF IInv, RankInv
    <3>2. m_currentTs[r] \in Nat /\ \A e \in m_events[r] : e.ts \in Nat
      BY <1>1, EventFacts DEF IInv
    <3> QED BY <3>1, <3>2 DEF SafeInv
  <2>2. ASSUME NEW r \in Ranks, NEW s \in Neighbours[r], NEW i \in 1..Len(channel[s][r]),
               channel[s][r][i].rxTime > 0
        PROVE  channel[s][r][i].rxTime >= m_currentTs[r]
    <3>1. s \in Ranks /\ r \in Neighbours[s]
      BY NeighbourFacts
    <3>2. channel[s][r][i] \in Message /\ m_guaranteeTime[r][s] \in Nat
      BY <1>1, <3>1, PromisedIsNat DEF IInv
    <3>3. m_guaranteeTime[r][s] <= channel[s][r][i].rxTime
      BY <1>1, <2>2, <3>1 DEF IInv, ChannelInv, Follows
    <3>4. m_currentTs[r] <= m_safeTime[r] /\ m_safeTime[r] <= m_guaranteeTime[r][s]
      BY <1>1 DEF IInv, RankInv, SafeInv
    <3>5. m_currentTs[r] \in Nat /\ m_safeTime[r] \in Nat /\ channel[s][r][i].rxTime \in Nat
      BY <1>1, <3>2, EventFacts DEF IInv, Message
    <3> QED BY <3>2, <3>3, <3>4, <3>5
  <2> QED BY <2>1, <2>2 DEF NeverLate
<1> QED BY <1>1, IInvHolds, PTL

(* No packet has a receive time before a guarantee that its receiver has   *)
(* or gets before the packet: what CalculateGuaranteeTime promises with    *)
(* the next event of the queue is kept by everything that is put into the  *)
(* queue later.                                                            *)
THEOREM GuaranteeAlwaysHolds ==
    ASSUME OneChannel
    PROVE  Spec => []GuaranteeHolds
<1>1. ASSUME IInv PROVE GuaranteeHolds
  <2>1. SUFFICES ASSUME NEW r \in Ranks, NEW s \in Neighbours[r],
                        NEW i \in 1..Len(channel[s][r]), channel[s][r][i].rxTime > 0
                 PROVE  channel[s][r][i].rxTime >= Promises(s, r)[i]
    BY DEF GuaranteeHolds
  <2>2. s \in Ranks /\ r \in Neighbours[s]
    BY NeighbourFacts
  <2>3. /\ Len(channel[s][r]) \in Nat /\ channel[s][r] \in Seq(Message)
        /\ m_guaranteeTime[r][s] \in Nat
    BY <1>1, <2>2, PromisedIsNat DEF IInv
  <2>4. \A j \in 1..Len(channel[s][r]) :
           channel[s][r][j].guarantee \in Nat /\ channel[s][r][j].rxTime \in Nat
    <3>1. \A j \in 1..Len(channel[s][r]) : channel[s][r][j] \in Message
      BY <2>3
    <3> QED BY <3>1 DEF Message
  <2> DEFINE f == [j \in 1..Len(channel[s][r]) |-> channel[s][r][j].guarantee]
  <2>5. Promises(s, r) = <<m_guaranteeTime[r][s]>> \o [j \in 1..Len(channel[s][r]) |-> f[j]]
    BY DEF Promises
  <2> HIDE DEF f
  <2>6. /\ Promises(s, r)[1] = m_guaranteeTime[r][s]
        /\ \A j \in 1..Len(channel[s][r]) : Promises(s, r)[j + 1] = f[j]
    BY <2>3, <2>5, PromisesFacts
  <2>7. /\ m_guaranteeTime[r][s] <= channel[s][r][i].rxTime
        /\ \A j \in 1..i-1 : channel[s][r][j].guarantee <= channel[s][r][i].rxTime
    BY <1>1, <2>1, <2>2 DEF IInv, ChannelInv, Follows
  <2>8. CASE i = 1
    BY <2>3, <2>4, <2>6, <2>7, <2>8
  <2>9. CASE i > 1
    <3>1. i - 1 \in 1..Len(channel[s][r]) /\ i - 1 \in 1..i-1 /\ (i - 1) + 1 = i
      BY <2>3, <2>9
    <3>2. Promises(s, r)[i] = channel[s][r][i - 1].guarantee
      BY <2>6, <3>1 DEF f
    <3> QED BY <2>4, <2>7, <3>1, <3>2
  <2> QED BY <2>3, <2>8, <2>9
<1> QED BY <1>1, IInvHolds, PTL

(* A rank never runs beyond its safe time, which is never beyond what its  *)
(* neighbours have guaranteed, and the guarantees of a neighbour only      *)
(* grow: the assertions of SetGuaranteeTime and CalculateSafeTime hold.    *)
THEOREM SafeTimeGrowsHolds ==
    ASSUME OneChannel
    PROVE  Spec => []SafeTimeGrows
<1>1. ASSUME IInv PROVE SafeTimeGrows
  <2>1. SUFFICES ASSUME NEW r \in Ranks, NEW s \in Neighbours[r]
                 PROVE  /\ m_currentTs[r] <= m_safeTime[r]
                        /\ m_safeTime[r] <= m_guaranteeTime[r][s]
                        /\ \A i \in 1..Len(channel[s][r]) :
                              Promises(s, r)[i] <= Promises(s, r)[i + 1]
    BY DEF SafeTimeGrows
  <2>2. s \in Ranks /\ r \in Neighbours[s]
    BY NeighbourFacts
  <2>3. /\ Len(channel[s][r]) \in Nat /\ m_guaranteeTime[r][s] \in Nat
    BY <1>1, <2>2, PromisedIsNat DEF IInv
  <2> DEFINE f == [j \in 1..Len(channel[s][r]) |-> channel[s][r][j].guarantee]
  <2>4. Promises(s, r) = <<m_guaranteeTime[r][s]>> \o [j \in 1..Len(channel[s][r]) |-> f[j]]
    BY DEF Promises
  <2> HIDE DEF f
  <2>5. /\ Promises(s, r)[1] = m_guaranteeTime[r][s]
        /\ \A j \in 1..Len(channel[s][r]) : Promises(s, r)[j + 1] = f[j]
    BY <2>3, <2>4, PromisesFacts
  <2>6. ASSUME NEW i \in 1..Len(channel[s][r])
        PROVE  Promises(s, r)[i] <= Promises(s, r)[i + 1]
    <3>1. Promises(s, r)[i + 1] = channel[s][r][i].guarantee
      BY <2>5 DEF f
    <3>2. /\ m_guaranteeTime[r][s] <= channel[s][r][i].guarantee
          /\ \A j \in 1..i-1 : channel[s][r][j].guarantee <= channel[s][r][i].guarantee
      BY <1>1, <2>2 DEF IInv, ChannelInv, Follows
    <3>3. CASE i = 1
      BY <2>5, <3>1, <3>2, <3>3
    <3>4. CASE i > 1
      <4>1. i - 1 \in 1..Len(channel[s][r]) /\ i - 1 \in 1..i-1 /\ (i - 1) + 1 = i
        BY <2>3, <3>4
      <4>2. Promises(s, r)[i] = channel[s][r][i - 1].guarantee
        BY <2>5, <4>1 DEF f
      <4> QED BY <3>1, <3>2, <4>1, <4>2
    <3> QED BY <2>3, <3>3, <3>4
  <2>7. m_currentTs[r] <= m_safeTime[r] /\ m_safeTime[r] <= m_guaranteeTime[r][s]
    BY <1>1 DEF IInv, RankInv, SafeInv
  <2> QED BY <2>6, <2>7
<1> QED BY <1>1, IInvHolds, PTL

---------------------------------------------------------------------------
(* The refinement counts events and packets in flight, so it needs that    *)
(* they are finitely many, and that no rank goes beyond StopTime.          *)

Slots(r, t) == {x \in Coming(r) : channel[x[1]][r][x[2]].rxTime = t}

CountableInv == \A r \in Ranks :
    /\ IsFiniteSet(m_events[r])
    /\ \A e \in m_events[r] : e.does = StopEvent => e.ts = StopTime
    /\ \A t \in Nat : IsFiniteSet(Slots(r, t))

Count(S, t) == Cardinality({e \in S : e.ts = t})
Total(r, t) == DueAt(r, t) + ComingAt(r, t)

LEMMA CountType == ASSUME NEW S, IsFiniteSet(S), NEW t PROVE Count(S, t) \in Nat
<1>1. IsFiniteSet({x \in S : x.ts = t})
  BY FS_Subset
<1> QED BY <1>1, FS_CardinalityType DEF Count

LEMMA CountAdd ==
    ASSUME NEW S, IsFiniteSet(S), NEW x, x \notin S, NEW t
    PROVE  Count(S \cup {x}, t) = IF x.ts = t THEN Count(S, t) + 1 ELSE Count(S, t)
<1>1. IsFiniteSet({y \in S : y.ts = t})
  BY FS_Subset
<1>2. CASE x.ts = t
  <2>1. {y \in S \cup {x} : y.ts = t} = {y \in S : y.ts = t} \cup {x}
    BY <1>2
  <2>2. Cardinality({y \in S : y.ts = t} \cup {x}) = Cardinality({y \in S : y.ts = t}) + 1
    BY <1>1, FS_AddElement
  <2> QED BY <1>2, <2>1, <2>2 DEF Count
<1>3. CASE x.ts # t
  <2>1. {y \in S \cup {x} : y.ts = t} = {y \in S : y.ts = t}
    BY <1>3
  <2> QED BY <1>3, <2>1 DEF Count
<1> QED BY <1>2, <1>3

LEMMA CountRemove ==
    ASSUME NEW S, IsFiniteSet(S), NEW x \in S, NEW t
    PROVE  Count(S \ {x}, t) = IF x.ts = t THEN Count(S, t) - 1 ELSE Count(S, t)
<1>1. IsFiniteSet(S \ {x}) /\ x \notin S \ {x} /\ (S \ {x}) \cup {x} = S
  BY FS_Subset
<1>2. Count(S, t) = IF x.ts = t THEN Count(S \ {x}, t) + 1 ELSE Count(S \ {x}, t)
  BY <1>1, CountAdd
<1>3. Count(S \ {x}, t) \in Nat
  BY <1>1, CountType
<1> QED BY <1>2, <1>3

LEMMA CountZero ==
    ASSUME NEW S, IsFiniteSet(S), NEW t
    PROVE  Count(S, t) = 0 <=> \A x \in S : x.ts # t
<1>1. IsFiniteSet({x \in S : x.ts = t})
  BY FS_Subset
<1>2. Cardinality({x \in S : x.ts = t}) = 0 <=> {x \in S : x.ts = t} = {}
  BY <1>1, FS_EmptySet
<1> QED BY <1>2 DEF Count

LEMMA TotalFacts ==
    ASSUME CountableInv, NEW r \in Ranks, NEW t \in Nat
    PROVE  /\ Total(r, t) = Count(m_events[r], t) + Cardinality(Slots(r, t))
           /\ Count(m_events[r], t) \in Nat /\ Cardinality(Slots(r, t)) \in Nat
<1>1. IsFiniteSet(m_events[r]) /\ IsFiniteSet(Slots(r, t))
  BY DEF CountableInv
<1> QED BY <1>1, CountType, FS_CardinalityType DEF Total, DueAt, ComingAt, Count, Slots

(* The packets on their way to r that are due at t. *)
LEMMA InSlots ==
    ASSUME NEW r, NEW t, NEW x
    PROVE  x \in Slots(r, t) <=>
              \E s \in Neighbours[r] : \E i \in 1..Len(channel[s][r]) :
                 x = <<s, i>> /\ channel[s][r][i].rxTime > 0 /\ channel[s][r][i].rxTime = t
<1>1. Slots(r, t) = {y \in Coming(r) : channel[y[1]][r][y[2]].rxTime = t}
  BY DEF Slots
<1>2. Coming(r) = UNION {{<<s, i>> : i \in {j \in 1..Len(channel[s][r]) :
                             channel[s][r][j].rxTime > 0}} : s \in Neighbours[r]}
  BY DEF Coming
<1>3. ASSUME x \in Slots(r, t)
      PROVE  \E s \in Neighbours[r] : \E i \in 1..Len(channel[s][r]) :
                x = <<s, i>> /\ channel[s][r][i].rxTime > 0 /\ channel[s][r][i].rxTime = t
  <2>1. x \in Coming(r) /\ channel[x[1]][r][x[2]].rxTime = t
    BY <1>1, <1>3
  <2>2. PICK s \in Neighbours[r] : x \in {<<s, i>> : i \in {j \in 1..Len(channel[s][r]) :
                                             channel[s][r][j].rxTime > 0}}
    BY <1>2, <2>1
  <2>3. PICK i \in 1..Len(channel[s][r]) : x = <<s, i>> /\ channel[s][r][i].rxTime > 0
    BY <2>2
  <2> QED BY <2>1, <2>3
<1>4. ASSUME NEW s \in Neighbours[r], NEW i \in 1..Len(channel[s][r]),
             x = <<s, i>>, channel[s][r][i].rxTime > 0, channel[s][r][i].rxTime = t
      PROVE  x \in Slots(r, t)
  <2>1. x \in Coming(r)
    BY <1>2, <1>4
  <2> QED BY <1>1, <1>4, <2>1
<1> QED BY <1>3, <1>4

LEMMA InSlotsNext ==
    ASSUME NEW r, NEW t, NEW x
    PROVE  x \in Slots(r, t)' <=>
              \E s \in Neighbours[r] : \E i \in 1..Len(channel'[s][r]) :
                 x = <<s, i>> /\ channel'[s][r][i].rxTime > 0 /\ channel'[s][r][i].rxTime = t
<1>1. Slots(r, t)' = {y \in Coming(r)' : channel'[y[1]][r][y[2]].rxTime = t}
  BY DEF Slots
<1>2. Coming(r)' = UNION {{<<s, i>> : i \in {j \in 1..Len(channel'[s][r]) :
                             channel'[s][r][j].rxTime > 0}} : s \in Neighbours[r]}
  BY DEF Coming
<1>3. ASSUME x \in Slots(r, t)'
      PROVE  \E s \in Neighbours[r] : \E i \in 1..Len(channel'[s][r]) :
                x = <<s, i>> /\ channel'[s][r][i].rxTime > 0 /\ channel'[s][r][i].rxTime = t
  <2>1. x \in Coming(r)' /\ channel'[x[1]][r][x[2]].rxTime = t
    BY <1>1, <1>3
  <2>2. PICK s \in Neighbours[r] : x \in {<<s, i>> : i \in {j \in 1..Len(channel'[s][r]) :
                                             channel'[s][r][j].rxTime > 0}}
    BY <1>2, <2>1
  <2>3. PICK i \in 1..Len(channel'[s][r]) : x = <<s, i>> /\ channel'[s][r][i].rxTime > 0
    BY <2>2
  <2> QED BY <2>1, <2>3
<1>4. ASSUME NEW s \in Neighbours[r], NEW i \in 1..Len(channel'[s][r]),
             x = <<s, i>>, channel'[s][r][i].rxTime > 0, channel'[s][r][i].rxTime = t
      PROVE  x \in Slots(r, t)'
  <2>1. x \in Coming(r)'
    BY <1>2, <1>4
  <2> QED BY <1>1, <1>4, <2>1
<1> QED BY <1>3, <1>4

LEMMA SlotsFrame ==
    ASSUME NEW r, \A s \in Neighbours[r] : channel'[s][r] = channel[s][r], NEW t
    PROVE  Slots(r, t)' = Slots(r, t)
<1>1. \A x : x \in Slots(r, t)' <=> x \in Slots(r, t)
  BY InSlots, InSlotsNext
<1>2. \A x \in Slots(r, t)' : x \in Slots(r, t)
  BY <1>1
<1>3. \A x \in Slots(r, t) : x \in Slots(r, t)'
  BY <1>1
<1> QED BY <1>2, <1>3

(* A packet that is sent is one more on its way, a null message is not. *)
LEMMA SlotsSend ==
    ASSUME TypeOK, NEW r \in Ranks, NEW s \in Neighbours[r], NEW message \in Message,
           channel'[r][s] = Append(channel[r][s], message),
           \A x \in Ranks : \A y \in Neighbours[x] :
              x # r \/ y # s => channel'[x][y] = channel[x][y],
           CountableInv, NEW q \in Ranks, NEW t \in Nat
    PROVE  /\ IsFiniteSet(Slots(q, t)')
           /\ Cardinality(Slots(q, t)') =
                IF q = s /\ message.rxTime > 0 /\ message.rxTime = t
                THEN Cardinality(Slots(q, t)) + 1 ELSE Cardinality(Slots(q, t))
<1> DEFINE c == channel[r][s]
<1>1. c \in Seq(Message) /\ Len(c) \in Nat /\ s \in Ranks /\ r \in Neighbours[s]
  BY PromisedIsNat, NeighbourFacts
<1>2. channel'[r][s] = Append(c, message)
      /\ \A x \in Ranks : \A y \in Neighbours[x] : x # r \/ y # s => channel'[x][y] = channel[x][y]
  OBVIOUS
<1>3. /\ Len(channel'[r][s]) = Len(c) + 1
      /\ channel'[r][s][Len(c) + 1] = message
      /\ \A i \in 1..Len(c) : channel'[r][s][i] = c[i]
  BY <1>1, <1>2
<1>4. IsFiniteSet(Slots(q, t))
  BY DEF CountableInv
<1>5. \A x \in Neighbours[q] : x \in Ranks /\ q \in Neighbours[x]
  BY NeighbourFacts
<1>6. CASE q # s
  <2>1. \A x \in Neighbours[q] : channel'[x][q] = channel[x][q]
    BY <1>2, <1>5, <1>6
  <2> QED BY <1>4, <1>6, <2>1, SlotsFrame
<1>7. CASE q = s
  <2> DEFINE new == <<r, Len(c) + 1>>
  <2>1. new \notin Slots(s, t)
    <3>1. ASSUME new \in Slots(s, t) PROVE FALSE
      <4>1. PICK x \in Neighbours[s] : \E i \in 1..Len(channel[x][s]) : new = <<x, i>>
        BY <3>1, InSlots
      <4>2. PICK i \in 1..Len(channel[x][s]) : new = <<x, i>>
        BY <4>1
      <4>3. x = r /\ i = Len(c) + 1
        BY <4>2
      <4> QED BY <1>1, <4>3
    <3> QED BY <3>1
  <2>2. \A x \in Neighbours[s] \ {r} : channel'[x][s] = channel[x][s]
    BY <1>2, NeighbourFacts, <1>5, <1>7
  <2> HIDE DEF c
  <2>3. ASSUME NEW y PROVE y \in Slots(s, t)' <=>
              \/ y \in Slots(s, t)
              \/ y = new /\ message.rxTime > 0 /\ message.rxTime = t
    <3>1. ASSUME y \in Slots(s, t)'
          PROVE  \/ y \in Slots(s, t)
                 \/ y = new /\ message.rxTime > 0 /\ message.rxTime = t
      <4>1. PICK x \in Neighbours[s] : \E i \in 1..Len(channel'[x][s]) :
               y = <<x, i>> /\ channel'[x][s][i].rxTime > 0 /\ channel'[x][s][i].rxTime = t
        BY <3>1, InSlotsNext
      <4>2. PICK i \in 1..Len(channel'[x][s]) :
               y = <<x, i>> /\ channel'[x][s][i].rxTime > 0 /\ channel'[x][s][i].rxTime = t
        BY <4>1
      <4>3. CASE x # r
        BY <2>2, <4>2, <4>3, InSlots
      <4>4. CASE x = r /\ i = Len(c) + 1
        BY <1>3, <4>2, <4>4
      <4>5. CASE x = r /\ i # Len(c) + 1
        <5>1. i \in 1..Len(c) /\ channel'[r][s][i] = channel[r][s][i] /\ Len(c) = Len(channel[r][s])
          BY <1>1, <1>3, <4>5 DEF c
        <5> QED BY <1>1, <4>2, <4>5, <5>1, InSlots
      <4> QED BY <4>3, <4>4, <4>5
    <3>2. ASSUME y \in Slots(s, t) PROVE y \in Slots(s, t)'
      <4>1. PICK x \in Neighbours[s] : \E i \in 1..Len(channel[x][s]) :
               y = <<x, i>> /\ channel[x][s][i].rxTime > 0 /\ channel[x][s][i].rxTime = t
        BY <3>2, InSlots
      <4>2. PICK i \in 1..Len(channel[x][s]) :
               y = <<x, i>> /\ channel[x][s][i].rxTime > 0 /\ channel[x][s][i].rxTime = t
        BY <4>1
      <4>3. CASE x # r
        BY <2>2, <4>2, <4>3, InSlotsNext
      <4>4. CASE x = r
        <5>1. i \in 1..Len(channel'[r][s]) /\ channel'[r][s][i] = channel[r][s][i]
          BY <1>1, <1>3, <4>4 DEF c
        <5> QED BY <1>1, <4>2, <4>4, <5>1, InSlotsNext
      <4> QED BY <4>3, <4>4
    <3>3. ASSUME y = new, message.rxTime > 0, message.rxTime = t PROVE y \in Slots(s, t)'
      <4>1. Len(c) + 1 \in 1..Len(channel'[r][s])
        BY <1>1, <1>3
      <4> QED BY <1>1, <1>3, <3>3, <4>1, InSlotsNext
    <3> QED BY <3>1, <3>2, <3>3
  <2>4. Slots(s, t)' = IF message.rxTime > 0 /\ message.rxTime = t
                       THEN Slots(s, t) \cup {new} ELSE Slots(s, t)
    <3> HIDE DEF new
    <3>1. CASE message.rxTime > 0 /\ message.rxTime = t
      <4>1. \A y \in Slots(s, t)' : y \in Slots(s, t) \cup {new}
        BY <2>3
      <4>2. \A y \in Slots(s, t) \cup {new} : y \in Slots(s, t)'
        BY <2>3, <3>1
      <4> QED BY <3>1, <4>1, <4>2
    <3>2. CASE ~(message.rxTime > 0 /\ message.rxTime = t)
      <4>1. \A y \in Slots(s, t)' : y \in Slots(s, t)
        BY <2>3, <3>2
      <4>2. \A y \in Slots(s, t) : y \in Slots(s, t)'
        BY <2>3
      <4> QED BY <3>2, <4>1, <4>2
    <3> QED BY <3>1, <3>2
  <2>5. /\ IsFiniteSet(Slots(s, t) \cup {new})
        /\ Cardinality(Slots(s, t) \cup {new}) = Cardinality(Slots(s, t)) + 1
    BY <1>4, <1>7, <2>1, FS_AddElement
  <2> HIDE DEF new
  <2> QED BY <1>4, <1>7, <2>4, <2>5
<1> QED BY <1>6, <1>7

(* A packet that is taken is one less on its way. *)
LEMMA SlotsTake ==
    ASSUME TypeOK, NEW r \in Ranks, NEW s \in Neighbours[r], channel[s][r] # << >>,
           NEW message, message = Head(channel[s][r]),
           channel'[s][r] = Tail(channel[s][r]),
           \A x \in Ranks : \A y \in Neighbours[x] :
              x # s \/ y # r => channel'[x][y] = channel[x][y],
           CountableInv, NEW q \in Ranks, NEW t \in Nat
    PROVE  /\ IsFiniteSet(Slots(q, t)')
           /\ Cardinality(Slots(q, t)') =
                IF q = r /\ message.rxTime > 0 /\ message.rxTime = t
                THEN Cardinality(Slots(q, t)) - 1 ELSE Cardinality(Slots(q, t))
<1> DEFINE c == channel[s][r]
           first == <<s, 1>>
<1>1. s \in Ranks /\ r \in Neighbours[s] /\ c \in Seq(Message)
  BY NeighbourFacts, PromisedIsNat
<1>2. /\ Len(c) \in Nat \ {0} /\ Len(Tail(c)) = Len(c) - 1 /\ message = c[1]
      /\ \A i \in 1..Len(Tail(c)) : Tail(c)[i] = c[i + 1]
  BY <1>1
<1>3. /\ channel'[s][r] = Tail(c)
      /\ \A x \in Ranks : \A y \in Neighbours[x] : x # s \/ y # r => channel'[x][y] = channel[x][y]
  OBVIOUS
<1>4. IsFiniteSet(Slots(q, t))
  BY DEF CountableInv
<1>5. \A x \in Neighbours[q] : x \in Ranks /\ q \in Neighbours[x]
  BY NeighbourFacts
<1>6. CASE q # r
  <2>1. \A x \in Neighbours[q] : channel'[x][q] = channel[x][q]
    BY <1>3, <1>5, <1>6
  <2> QED BY <1>4, <1>6, <2>1, SlotsFrame
<1>7. CASE q = r
  <2>1. \A x \in Neighbours[r] \ {s} : channel'[x][r] = channel[x][r]
    BY <1>3, <1>5, <1>7
  <2>2. first \in Slots(r, t) <=> message.rxTime > 0 /\ message.rxTime = t
    <3>1. 1 \in 1..Len(channel[s][r]) /\ channel[s][r][1] = message
      BY <1>2
    <3>2. ASSUME first \in Slots(r, t) PROVE message.rxTime > 0 /\ message.rxTime = t
      <4>1. PICK x \in Neighbours[r] : \E i \in 1..Len(channel[x][r]) :
               first = <<x, i>> /\ channel[x][r][i].rxTime > 0 /\ channel[x][r][i].rxTime = t
        BY <3>2, InSlots
      <4>2. PICK i \in 1..Len(channel[x][r]) :
               first = <<x, i>> /\ channel[x][r][i].rxTime > 0 /\ channel[x][r][i].rxTime = t
        BY <4>1
      <4>3. x = s /\ i = 1
        BY <4>2
      <4> QED BY <3>1, <4>2, <4>3
    <3>3. ASSUME message.rxTime > 0, message.rxTime = t PROVE first \in Slots(r, t)
      BY <3>1, <3>3, InSlots
    <3> QED BY <3>2, <3>3
  <2> DEFINE A == Slots(r, t) \ {first}
             B == Slots(r, t)'
             shift(x) == IF x[1] = s THEN <<s, x[2] - 1>> ELSE x
             f == [x \in A |-> shift(x)]
  <2> HIDE DEF c
  <2>3. ASSUME NEW y \in A
        PROVE  /\ shift(y) \in B
               /\ y[1] \in Neighbours[r] /\ y[2] \in Nat /\ y = <<y[1], y[2]>>
    <3>1. PICK x \in Neighbours[r] : \E i \in 1..Len(channel[x][r]) :
             y = <<x, i>> /\ channel[x][r][i].rxTime > 0 /\ channel[x][r][i].rxTime = t
      BY InSlots
    <3>2. PICK i \in 1..Len(channel[x][r]) :
             y = <<x, i>> /\ channel[x][r][i].rxTime > 0 /\ channel[x][r][i].rxTime = t
      BY <3>1
    <3>3. y[1] = x /\ y[2] = i
      BY <3>2
    <3>4. CASE x # s
      <4>1. shift(y) = <<x, i>> /\ channel'[x][r] = channel[x][r]
        BY <2>1, <3>2, <3>3, <3>4
      <4> QED BY <3>2, <3>3, <4>1, InSlotsNext
    <3>5. CASE x = s
      <4>1. i # 1 /\ c = channel[s][r]
        BY <3>2, <3>5 DEF c
      <4>2. /\ i - 1 \in 1..Len(channel'[s][r]) /\ (i - 1) + 1 = i
            /\ channel'[s][r][i - 1] = channel[s][r][i]
        BY <1>2, <1>3, <3>5, <4>1
      <4>3. shift(y) = <<s, i - 1>>
        BY <3>3, <3>5
      <4>4. <<s, i - 1>> \in B
        BY <3>2, <3>5, <4>2, InSlotsNext
      <4> QED BY <3>2, <3>3, <4>3, <4>4
    <3> QED BY <3>4, <3>5
  <2>4. \A y, z \in A : f[y] = f[z] => y = z
    <3>1. SUFFICES ASSUME NEW y \in A, NEW z \in A, shift(y) = shift(z) PROVE y = z
      OBVIOUS
    <3>2. shift(y)[1] = y[1] /\ shift(z)[1] = z[1]
      OBVIOUS
    <3>3. y[1] = z[1]
      BY <3>1, <3>2
    <3>4. CASE y[1] = s
      <4>1. shift(y)[2] = y[2] - 1 /\ shift(z)[2] = z[2] - 1
        BY <3>3, <3>4
      <4>2. y[2] \in Nat /\ z[2] \in Nat
        BY <2>3
      <4>3. y[2] = z[2]
        BY <3>1, <4>1, <4>2
      <4> QED BY <2>3, <3>3, <4>3
    <3>5. CASE y[1] # s
      BY <3>1, <3>3, <3>5
    <3> QED BY <3>4, <3>5
  <2>5. ASSUME NEW y \in B PROVE \E x \in A : f[x] = y
    <3>1. PICK x \in Neighbours[r] : \E i \in 1..Len(channel'[x][r]) :
             y = <<x, i>> /\ channel'[x][r][i].rxTime > 0 /\ channel'[x][r][i].rxTime = t
      BY InSlotsNext
    <3>2. PICK i \in 1..Len(channel'[x][r]) :
             y = <<x, i>> /\ channel'[x][r][i].rxTime > 0 /\ channel'[x][r][i].rxTime = t
      BY <3>1
    <3>3. CASE x # s
      <4>1. y \in Slots(r, t)
        BY <2>1, <3>2, <3>3, InSlots
      <4>2. y[1] = x /\ first[1] = s
        BY <3>2
      <4>3. y \in A /\ shift(y) = y
        BY <3>3, <4>1, <4>2
      <4> QED BY <4>3
    <3>4. CASE x = s
      <4> DEFINE z == <<s, i + 1>>
      <4>1. i + 1 \in 1..Len(channel[s][r]) /\ channel'[s][r][i] = channel[s][r][i + 1]
        <5>1. i \in 1..Len(Tail(c)) /\ Len(c) \in Nat
          BY <1>2, <1>3, <3>4
        <5>2. i + 1 \in 1..Len(c) /\ Tail(c)[i] = c[i + 1]
          BY <1>2, <5>1
        <5> QED BY <1>3, <5>2 DEF c
      <4>2. z \in Slots(r, t)
        BY <3>2, <3>4, <4>1, InSlots
      <4>3. z[1] = s /\ z[2] = i + 1 /\ first[2] = 1 /\ i \in Nat \ {0}
        BY <1>2, <1>3, <3>4
      <4>4. z \in A
        BY <4>2, <4>3
      <4>5. shift(z) = <<s, i>>
        BY <4>3
      <4>6. f[z] = y
        BY <3>2, <3>4, <4>4, <4>5
      <4> QED BY <4>4, <4>6
    <3> QED BY <3>3, <3>4
  <2>6. f \in [A -> B]
    BY <2>3
  <2>7. IsFiniteSet(A) /\ Cardinality(A) = IF first \in Slots(r, t)
                                           THEN Cardinality(Slots(r, t)) - 1
                                           ELSE Cardinality(Slots(r, t))
    BY <1>4, <1>7, FS_RemoveElement
  <2> HIDE DEF f, A, B, first, shift
  <2>8. f \in Bijection(A, B)
    BY <2>4, <2>5, <2>6 DEF Bijection, Injection, Surjection, IsInjective
  <2>9. IsFiniteSet(B) /\ Cardinality(B) = Cardinality(A)
    BY <2>7, <2>8, FS_Bijection DEF ExistsBijection
  <2> QED BY <1>7, <2>2, <2>7, <2>9 DEF B
<1> QED BY <1>6, <1>7

(* A message is appended to one channel. *)
Appends(r, s, message) ==
    /\ channel'[r][s] = Append(channel[r][s], message)
    /\ \A x \in Ranks : \A y \in Neighbours[x] :
          x # r \/ y # s => channel'[x][y] = channel[x][y]

LEMMA AppendsFact ==
    ASSUME TypeOK, NEW r \in Ranks, NEW s \in Neighbours[r], NEW message,
           channel' = [channel EXCEPT ![r][s] = Append(@, message)]
    PROVE  Appends(r, s, message)
  BY DEF Appends, TypeOK

(* One event more is due on a rank. *)
LEMMA InsertCounts ==
    ASSUME TypeOK, NEW r \in Ranks, UidInv(r), NEW ts \in Nat, NEW does \in Actions,
           does # StopEvent, Insert(r, ts, does), CountableInv, NEW q \in Ranks, NEW t \in Nat
    PROVE  /\ IsFiniteSet(m_events'[q])
           /\ \A e \in m_events'[q] : e.does = StopEvent => e.ts = StopTime
           /\ Count(m_events'[q], t) = IF q = r /\ t = ts THEN Count(m_events[q], t) + 1
                                       ELSE Count(m_events[q], t)
<1>1. PICK new \in QueuedEvent : /\ new.ts = ts /\ new.does = does /\ new \notin m_events[r]
                                 /\ m_events'[r] = m_events[r] \cup {new}
  BY InsertFacts
<1>2. \A x \in Ranks \ {r} : m_events'[x] = m_events[x]
  BY InsertFacts
<1>3. /\ IsFiniteSet(m_events[q])
      /\ \A e \in m_events[q] : e.does = StopEvent => e.ts = StopTime
  BY DEF CountableInv
<1>4. CASE q # r
  BY <1>2, <1>3, <1>4
<1>5. CASE q = r
  <2>1. IsFiniteSet(m_events[r] \cup {new})
    BY <1>3, <1>5, FS_AddElement
  <2>2. Count(m_events[r] \cup {new}, t) = IF new.ts = t THEN Count(m_events[r], t) + 1
                                           ELSE Count(m_events[r], t)
    BY <1>1, <1>3, <1>5, CountAdd
  <2> QED BY <1>1, <1>3, <1>5, <2>1, <2>2
<1> QED BY <1>4, <1>5

LEMMA TotalNext ==
    ASSUME NEW r \in Ranks, NEW t \in Nat
    PROVE  Total(r, t)' = Count(m_events'[r], t) + Cardinality(Slots(r, t)')
  BY DEF Total, DueAt, ComingAt, Count, Slots

LEMMA PendingFacts ==
    /\ Pending = [r \in Ranks |-> [t \in 0..MaxTime |-> Total(r, t)]]
    /\ Pending' = [r \in Ranks |-> [t \in 0..MaxTime |-> Total(r, t)']]
  BY DEF Pending, Total

(* What a step may do to the events of the ranks. *)
KeepsContract == [Contract!Next]_(Contract!vars)

LEMMA AcceptStep ==
    ASSUME m_currentTs' = m_currentTs, NEW r \in Ranks, NEW t \in Nat, m_currentTs[r] <= t,
           \A q \in Ranks : \A u \in Nat :
              Total(q, u)' = IF q = r /\ u = t THEN Total(q, u) + 1 ELSE Total(q, u)
    PROVE  KeepsContract
<1>1. MaxTime \in Nat
  BY TimesAssumption
<1>2. CASE t \in 0..MaxTime
  <2>1. Pending'[r][t] = Pending[r][t] + 1
    BY <1>1, <1>2, PendingFacts
  <2>2. ASSUME NEW q \in Ranks, NEW u \in 0..MaxTime, <<q, u>> # <<r, t>>
        PROVE  Pending'[q][u] = Pending[q][u]
    BY <1>1, <2>2, PendingFacts
  <2>3. Contract!Accept(r, t)
    BY <2>1, <2>2 DEF Contract!Accept
  <2> QED BY <1>2, <2>3 DEF Contract!Next, KeepsContract
<1>3. CASE t \notin 0..MaxTime
  <2>1. \A q \in Ranks : \A u \in 0..MaxTime : Total(q, u)' = Total(q, u)
    BY <1>1, <1>3
  <2>2. Pending' = Pending
    BY <2>1, PendingFacts
  <2> QED BY <2>2 DEF KeepsContract, Contract!vars
<1> QED BY <1>2, <1>3

LEMMA QuietContract ==
    ASSUME m_currentTs' = m_currentTs,
           \A q \in Ranks : \A u \in Nat : Total(q, u)' = Total(q, u)
    PROVE  KeepsContract
<1>1. \A u \in 0..MaxTime : u \in Nat
  BY TimesAssumption
<1>2. Pending' = Pending
  BY <1>1, PendingFacts
<1> QED BY <1>2 DEF KeepsContract, Contract!vars

(* An event is scheduled; the message that goes with it is a null message. *)
Accepts == \E r \in Ranks, ts \in Nat, does \in Actions \ {StopEvent} :
              /\ m_currentTs[r] <= ts /\ m_currentTs' = m_currentTs
              /\ Insert(r, ts, does)
              /\ \/ channel' = channel
                 \/ \E s \in Neighbours[r] : \E message \in Message :
                       message.rxTime = 0 /\ Appends(r, s, message)

Sends == \E r \in Ranks : \E s \in Neighbours[r] : \E message \in Message :
            /\ Appends(r, s, message) /\ m_currentTs[s] <= message.rxTime
            /\ m_events' = m_events /\ m_currentTs' = m_currentTs

Takes == \E r \in Ranks : \E s \in Neighbours[r] :
            /\ channel[s][r] # << >> /\ TakeMessage(r, s) /\ m_currentTs' = m_currentTs

Executes == \E r \in Ranks : ProcessOneEvent(r)

LEMMA AcceptsKeeps ==
    ASSUME IInv, CountableInv, Accepts
    PROVE  CountableInv' /\ KeepsContract
<1>1. PICK r \in Ranks, ts \in Nat, does \in Actions \ {StopEvent} :
         /\ m_currentTs[r] <= ts /\ m_currentTs' = m_currentTs
         /\ Insert(r, ts, does)
         /\ \/ channel' = channel
            \/ \E s \in Neighbours[r] : \E message \in Message :
                  message.rxTime = 0 /\ Appends(r, s, message)
  BY DEF Accepts
<1>2. TypeOK /\ UidInv(r)
  BY DEF IInv, RankInv
<1>3. ASSUME NEW q \in Ranks, NEW t \in Nat
      PROVE  /\ IsFiniteSet(Slots(q, t)')
             /\ Cardinality(Slots(q, t)') = Cardinality(Slots(q, t))
  <2>1. CASE channel' = channel
    BY <2>1, SlotsFrame DEF CountableInv
  <2>2. CASE channel' # channel
    <3>1. PICK s \in Neighbours[r], message \in Message :
             message.rxTime = 0 /\ Appends(r, s, message)
      BY <1>1, <2>2
    <3>2. ~(message.rxTime > 0)
      BY <3>1
    <3> QED BY <1>2, <3>1, <3>2, SlotsSend DEF Appends
  <2> QED BY <2>1, <2>2
<1>4. ASSUME NEW q \in Ranks, NEW t \in Nat
      PROVE  /\ IsFiniteSet(m_events'[q])
             /\ \A e \in m_events'[q] : e.does = StopEvent => e.ts = StopTime
             /\ Count(m_events'[q], t) = IF q = r /\ t = ts THEN Count(m_events[q], t) + 1
                                         ELSE Count(m_events[q], t)
  BY <1>1, <1>2, InsertCounts
<1>5. CountableInv'
  <2>1. 0 \in Nat
    OBVIOUS
  <2> QED BY <1>3, <1>4, <2>1 DEF CountableInv
<1>6. ASSUME NEW q \in Ranks, NEW t \in Nat
      PROVE  Total(q, t)' = IF q = r /\ t = ts THEN Total(q, t) + 1 ELSE Total(q, t)
  <2>1. /\ Total(q, t)' = Count(m_events'[q], t) + Cardinality(Slots(q, t)')
        /\ Total(q, t) = Count(m_events[q], t) + Cardinality(Slots(q, t))
        /\ Count(m_events[q], t) \in Nat /\ Cardinality(Slots(q, t)) \in Nat
    BY TotalFacts, TotalNext
  <2>2. Cardinality(Slots(q, t)') = Cardinality(Slots(q, t))
    BY <1>3
  <2>3. Count(m_events'[q], t) = IF q = r /\ t = ts THEN Count(m_events[q], t) + 1
                                 ELSE Count(m_events[q], t)
    BY <1>4
  <2> QED BY <2>1, <2>2, <2>3
<1> QED BY <1>1, <1>5, <1>6, AcceptStep

LEMMA SendsKeeps ==
    ASSUME IInv, CountableInv, Sends
    PROVE  CountableInv' /\ KeepsContract
<1>1. PICK r \in Ranks, s \in Ranks, message \in Message :
         /\ s \in Neighbours[r]
         /\ Appends(r, s, message) /\ m_currentTs[s] <= message.rxTime
         /\ m_events' = m_events /\ m_currentTs' = m_currentTs
  BY NeighbourFacts DEF Sends
<1>2. TypeOK
  BY DEF IInv
<1>3. ASSUME NEW q \in Ranks, NEW t \in Nat
      PROVE  /\ IsFiniteSet(Slots(q, t)')
             /\ Cardinality(Slots(q, t)') =
                  IF q = s /\ message.rxTime > 0 /\ message.rxTime = t
                  THEN Cardinality(Slots(q, t)) + 1 ELSE Cardinality(Slots(q, t))
  BY <1>1, <1>2, SlotsSend DEF Appends
<1>4. CountableInv'
  BY <1>1, <1>3 DEF CountableInv
<1>5. ASSUME NEW q \in Ranks, NEW t \in Nat
      PROVE  /\ Total(q, t)' = Count(m_events[q], t) + Cardinality(Slots(q, t)')
             /\ Total(q, t) = Count(m_events[q], t) + Cardinality(Slots(q, t))
             /\ Count(m_events[q], t) \in Nat /\ Cardinality(Slots(q, t)) \in Nat
  BY <1>1, TotalFacts, TotalNext
<1>6. message.rxTime \in Nat
  BY DEF Message
<1>7. CASE message.rxTime > 0
  <2>1. ASSUME NEW q \in Ranks, NEW t \in Nat
        PROVE  Total(q, t)' = IF q = s /\ t = message.rxTime THEN Total(q, t) + 1
                              ELSE Total(q, t)
    <3>1. Cardinality(Slots(q, t)') = IF q = s /\ t = message.rxTime
                                      THEN Cardinality(Slots(q, t)) + 1
                                      ELSE Cardinality(Slots(q, t))
      BY <1>3, <1>7
    <3> QED BY <1>5, <3>1
  <2> QED BY <1>1, <1>4, <1>6, <2>1, AcceptStep
<1>8. CASE ~(message.rxTime > 0)
  <2>1. \A q \in Ranks : \A t \in Nat : Total(q, t)' = Total(q, t)
    BY <1>3, <1>5, <1>8
  <2> QED BY <1>1, <1>4, <2>1, QuietContract
<1> QED BY <1>7, <1>8

(* A packet that is received was due before and is after. *)
LEMMA TakesKeeps ==
    ASSUME IInv, CountableInv, Takes
    PROVE  CountableInv' /\ KeepsContract
<1>1. PICK r \in Ranks, s \in Ranks :
         /\ s \in Neighbours[r]
         /\ channel[s][r] # << >> /\ TakeMessage(r, s) /\ m_currentTs' = m_currentTs
  BY NeighbourFacts DEF Takes
<1>2. TypeOK /\ UidInv(r) /\ r \in Neighbours[s]
  BY <1>1, NeighbourFacts DEF IInv, RankInv
<1>3. PICK message \in Message : message = Head(channel[s][r])
  BY <1>1, <1>2, PromisedIsNat
<1>4. /\ IF message.rxTime > 0 THEN Insert(r, message.rxTime, UserEvent)
                               ELSE UNCHANGED queue
      /\ channel' = [channel EXCEPT ![s][r] = Tail(@)]
  BY <1>1, <1>3 DEF TakeMessage
<1>5. /\ channel'[s][r] = Tail(channel[s][r])
      /\ \A x \in Ranks : \A y \in Neighbours[x] :
            x # s \/ y # r => channel'[x][y] = channel[x][y]
  BY <1>2, <1>4 DEF TypeOK
<1>6. ASSUME NEW q \in Ranks, NEW t \in Nat
      PROVE  /\ IsFiniteSet(Slots(q, t)')
             /\ Cardinality(Slots(q, t)') =
                  IF q = r /\ message.rxTime > 0 /\ message.rxTime = t
                  THEN Cardinality(Slots(q, t)) - 1 ELSE Cardinality(Slots(q, t))
  BY <1>1, <1>2, <1>3, <1>5, SlotsTake
<1>7. ASSUME NEW q \in Ranks, NEW t \in Nat
      PROVE  /\ IsFiniteSet(m_events'[q])
             /\ \A e \in m_events'[q] : e.does = StopEvent => e.ts = StopTime
             /\ Count(m_events'[q], t) =
                  IF q = r /\ message.rxTime > 0 /\ message.rxTime = t
                  THEN Count(m_events[q], t) + 1 ELSE Count(m_events[q], t)
  <2>1. CASE message.rxTime > 0
    <3>1. /\ message.rxTime \in Nat /\ UserEvent \in Actions /\ UserEvent # StopEvent
          /\ Insert(r, message.rxTime, UserEvent)
      BY <1>4, <2>1, ActionFacts DEF Message
    <3> QED BY <1>2, <2>1, <3>1, InsertCounts
  <2>2. CASE ~(message.rxTime > 0)
    <3>1. m_events' = m_events
      BY <1>4, <2>2 DEF queue
    <3> QED BY <2>2, <3>1 DEF CountableInv
  <2> QED BY <2>1, <2>2
<1>8. CountableInv'
  <2>1. 0 \in Nat
    OBVIOUS
  <2> QED BY <1>6, <1>7, <2>1 DEF CountableInv
<1>9. ASSUME NEW q \in Ranks, NEW t \in Nat PROVE Total(q, t)' = Total(q, t)
  <2>1. /\ Total(q, t)' = Count(m_events'[q], t) + Cardinality(Slots(q, t)')
        /\ Total(q, t) = Count(m_events[q], t) + Cardinality(Slots(q, t))
        /\ Count(m_events[q], t) \in Nat /\ Cardinality(Slots(q, t)) \in Nat
    BY TotalFacts, TotalNext
  <2> DEFINE here == q = r /\ message.rxTime > 0 /\ message.rxTime = t
  <2>2. Cardinality(Slots(q, t)') = IF here THEN Cardinality(Slots(q, t)) - 1
                                    ELSE Cardinality(Slots(q, t))
    BY <1>6
  <2>3. Count(m_events'[q], t) = IF here THEN Count(m_events[q], t) + 1
                                 ELSE Count(m_events[q], t)
    BY <1>7
  <2> HIDE DEF here
  <2> QED BY <2>1, <2>2, <2>3
<1> QED BY <1>1, <1>8, <1>9, QuietContract

LEMMA ExecutesKeeps ==
    ASSUME IInv, CountableInv, Executes
    PROVE  CountableInv' /\ KeepsContract
<1>1. PICK r \in Ranks : ProcessOneEvent(r)
  BY DEF Executes
<1>2. /\ TypeOK /\ UidInv(r) /\ RunInv(r) /\ SafeInv(r)
      /\ m_events[r] # {} /\ ~m_stop[r]
  BY <1>1 DEF IInv, RankInv, ProcessOneEvent, IsFinished
<1>3. PICK next \in m_events[r] :
         /\ m_events' = [m_events EXCEPT ![r] = m_events[r] \ {next}]
         /\ m_currentTs' = [m_currentTs EXCEPT ![r] = next.ts]
         /\ channel' = channel
         /\ next.ts <= m_safeTime[r] /\ \A e \in m_events[r] : next.ts <= e.ts
  <2>1. EarliestOf(m_events[r]) \in m_events[r]
    BY <1>2, EarliestFacts
  <2>2. /\ EarliestOf(m_events[r]).ts <= m_safeTime[r]
        /\ \A e \in m_events[r] : EarliestOf(m_events[r]).ts <= e.ts
    BY <1>1, <1>2, EarliestFacts DEF ProcessOneEvent, IsSafe, NextTs
  <2> QED BY <1>1, <2>1, <2>2 DEF ProcessOneEvent
<1>4. PICK t \in Nat : t = next.ts
  BY <1>2, EventFacts
<1>5. t \in 0..MaxTime
  <2>1. PICK e \in m_events[r] : e.does = StopEvent
    BY <1>2 DEF RunInv
  <2>2. t <= StopTime
    BY <1>3, <1>4, <2>1 DEF CountableInv
  <2>3. PICK l \in Links : TRUE
    BY NeighbourFacts DEF Neighbours
  <2>4. StopTime + l.delay <= MaxTime /\ StopTime \in Nat /\ MaxTime \in Nat /\ l.delay \in Nat
    BY TimesAssumption, LinksAssumption
  <2> QED BY <2>2, <2>4
<1>6. /\ m_events'[r] = m_events[r] \ {next}
      /\ \A q \in Ranks \ {r} : m_events'[q] = m_events[q]
  BY <1>2, <1>3 DEF TypeOK
<1>7. \A q \in Ranks : \A u \in Nat : Slots(q, u)' = Slots(q, u)
  BY <1>3, SlotsFrame
<1>8. ASSUME NEW q \in Ranks, NEW u \in Nat
      PROVE  /\ IsFiniteSet(m_events'[q])
             /\ Count(m_events'[q], u) = IF q = r /\ u = t THEN Count(m_events[q], u) - 1
                                         ELSE Count(m_events[q], u)
  <2>1. IsFiniteSet(m_events[q])
    BY DEF CountableInv
  <2>2. CASE q # r
    BY <1>6, <2>1, <2>2
  <2>3. CASE q = r
    BY <1>4, <1>6, <2>1, <2>3, CountRemove, FS_Subset
  <2> QED BY <2>2, <2>3
<1>9. CountableInv'
  <2>1. \A q \in Ranks : m_events'[q] \subseteq m_events[q]
    BY <1>6
  <2>2. 0 \in Nat
    OBVIOUS
  <2> QED BY <1>7, <1>8, <2>1, <2>2 DEF CountableInv
<1>10. ASSUME NEW q \in Ranks, NEW u \in Nat
       PROVE  /\ Total(q, u)' = IF q = r /\ u = t THEN Total(q, u) - 1 ELSE Total(q, u)
              /\ Total(q, u) \in Nat
  <2>1. /\ Total(q, u)' = Count(m_events'[q], u) + Cardinality(Slots(q, u))
        /\ Total(q, u) = Count(m_events[q], u) + Cardinality(Slots(q, u))
        /\ Count(m_events[q], u) \in Nat /\ Cardinality(Slots(q, u)) \in Nat
    BY <1>7, TotalFacts, TotalNext
  <2> QED BY <1>8, <2>1
<1>11. Pending[r][t] > 0
  <2>1. Count(m_events[r], t) # 0
    BY <1>4, CountZero DEF CountableInv
  <2>2. Total(r, t) > 0
    BY <2>1, TotalFacts
  <2> QED BY <1>5, <2>2, PendingFacts
<1>12. ASSUME NEW u \in 0..t-1 PROVE Pending[r][u] = 0
  <2>1. u \in Nat /\ u \in 0..MaxTime /\ u < t
    BY <1>5, TimesAssumption
  <2>2. \A e \in m_events[r] : e.ts # u
    BY <1>2, <1>3, <1>4, <2>1, EventFacts
  <2>3. Slots(r, u) = {}
    <3>1. ASSUME NEW x \in Slots(r, u) PROVE FALSE
      <4>1. PICK s \in Neighbours[r] : \E i \in 1..Len(channel[s][r]) :
               channel[s][r][i].rxTime > 0 /\ channel[s][r][i].rxTime = u
        BY InSlots
      <4>2. PICK i \in 1..Len(channel[s][r]) :
               channel[s][r][i].rxTime > 0 /\ channel[s][r][i].rxTime = u
        BY <4>1
      <4>3. s \in Ranks /\ r \in Neighbours[s]
        BY NeighbourFacts
      <4>4. m_guaranteeTime[r][s] <= u
        BY <4>2, <4>3 DEF IInv, ChannelInv, Follows
      <4>5. m_safeTime[r] <= m_guaranteeTime[r][s]
        BY <1>2 DEF SafeInv
      <4>6. m_safeTime[r] \in Nat /\ m_guaranteeTime[r][s] \in Nat
        BY <1>2, EventFacts
      <4> QED BY <1>3, <1>4, <2>1, <4>4, <4>5, <4>6
    <3> QED BY <3>1
  <2>4. Count(m_events[r], u) = 0
    BY <2>2, CountZero DEF CountableInv
  <2>5. Total(r, u) = 0
    <3>1. Cardinality(Slots(r, u)) = 0
      BY <2>3, FS_EmptySet
    <3>2. Total(r, u) = Count(m_events[r], u) + Cardinality(Slots(r, u))
      BY <2>1, TotalFacts
    <3> QED BY <2>4, <3>1, <3>2
  <2> QED BY <2>1, <2>5, PendingFacts
<1>13. Pending' = [Pending EXCEPT ![r][t] = @ - 1]
  <2>1. \A q \in Ranks : \A u \in 0..MaxTime :
           Total(q, u)' = IF q = r /\ u = t THEN Total(q, u) - 1 ELSE Total(q, u)
    BY <1>10, TimesAssumption
  <2>2. /\ Pending' = [q \in Ranks |-> [u \in 0..MaxTime |-> Total(q, u)']]
        /\ Pending = [q \in Ranks |-> [u \in 0..MaxTime |-> Total(q, u)]]
    BY PendingFacts
  <2>3. \A q \in Ranks : Pending'[q] = IF q = r THEN [Pending[q] EXCEPT ![t] = @ - 1]
                                       ELSE Pending[q]
    BY <1>5, <2>1, <2>2
  <2>4. \A q \in Ranks : [u \in 0..MaxTime |-> Total(q, u)'] = Pending'[q]
    BY <2>2
  <2>5. Pending' = [q \in Ranks |-> Pending'[q]] /\ Pending = [q \in Ranks |-> Pending[q]]
    BY <2>2
  <2> QED BY <2>3, <2>5
<1>14. Contract!Execute(r, t)
  BY <1>3, <1>4, <1>11, <1>12, <1>13 DEF Contract!Execute
<1>15. KeepsContract
  BY <1>5, <1>14 DEF KeepsContract, Contract!Next
<1> QED BY <1>9, <1>15

LEMMA SendPacketSends ==
    ASSUME IInv, IInv', NEW r \in Ranks, SendPacket(r)
    PROVE  Sends
<1>1. TypeOK /\ SendingInv(r) /\ pc[r] = "send" /\ UidInv(r)
  BY DEF IInv, RankInv, SendPacket
<1>2. PICK s \in Neighbours[r] : s = sending[r].to
  BY <1>1 DEF SendingInv
<1>3. PICK message \in Message :
         /\ message.rxTime = sending[r].rxTime
         /\ message = [rxTime |-> sending[r].rxTime, guarantee |-> CalculateGuaranteeTime(r, s)]
  <2>1. sending[r].rxTime \in Nat
    BY <1>1 DEF SendingInv
  <2>2. CalculateGuaranteeTime(r, s) \in Nat
    BY <1>1, NotStopped, GuaranteeFacts
  <2> QED BY <2>1, <2>2 DEF Message
<1>4. channel' = [channel EXCEPT ![r][s] = Append(@, message)]
  BY <1>2, <1>3 DEF SendPacket, Send
<1>5. Appends(r, s, message)
  BY <1>1, <1>4, AppendsFact
<1>6. /\ m_events' = m_events /\ m_currentTs' = m_currentTs
      /\ m_guaranteeTime' = m_guaranteeTime
  BY DEF SendPacket, queue, clock, bundles
<1>7. s \in Ranks /\ r \in Neighbours[s]
  BY NeighbourFacts
<1>8. m_currentTs[s] <= message.rxTime
  <2> DEFINE n == Len(channel[r][s])
  <2>1. channel[r][s] \in Seq(Message) /\ n \in Nat
    BY <1>1, PromisedIsNat
  <2>2. n + 1 \in 1..Len(channel'[r][s]) /\ channel'[r][s][n + 1] = message
    BY <1>5, <2>1 DEF Appends
  <2>3. ChannelInv(r, s)'
    BY <1>7 DEF IInv
  <2>4. message.rxTime > 0 => m_guaranteeTime[s][r] <= message.rxTime
    <3> HIDE DEF n
    <3> QED BY <1>6, <2>2, <2>3 DEF ChannelInv, Follows
  <2>5. m_currentTs[s] <= m_safeTime[s] /\ m_safeTime[s] <= m_guaranteeTime[s][r]
    BY <1>7 DEF IInv, RankInv, SafeInv
  <2>6. /\ m_currentTs[s] \in Nat /\ m_safeTime[s] \in Nat /\ m_guaranteeTime[s][r] \in Nat
        /\ message.rxTime \in Nat
    BY <1>1, <1>7, EventFacts DEF Message
  <2>7. message.rxTime > 0
    <3>1. m_currentTs[r] + BundleDelay(r, s) <= message.rxTime
      BY <1>1, <1>2, <1>3 DEF SendingInv
    <3> QED BY <1>1, <2>6, <3>1, EventFacts, BundleFacts
  <2> QED BY <2>4, <2>5, <2>6, <2>7
<1> QED BY <1>5, <1>6, <1>8 DEF Sends

(* Every step is of one of these kinds or does not touch events, packets   *)
(* and clocks.                                                             *)
LEMMA NextKinds ==
    ASSUME IInv, IInv', [Next]_vars
    PROVE  \/ Accepts \/ Sends \/ Takes \/ Executes
           \/ m_events' = m_events /\ channel' = channel /\ m_currentTs' = m_currentTs
<1> DEFINE Untouched == /\ m_events' = m_events /\ channel' = channel
                        /\ m_currentTs' = m_currentTs
<1>1. CASE UNCHANGED vars
  BY <1>1 DEF vars, queue, clock
<1>2. ASSUME NEW r \in Ranks, NEW d \in Delays, Schedule(r, d) PROVE Accepts
  <2> DEFINE ts == m_currentTs[r] + d
  <2>1. ts \in Nat /\ m_currentTs[r] <= ts
    BY EventFacts, TimesAssumption DEF IInv
  <2>2. /\ Insert(r, ts, UserEvent) /\ UserEvent \in Actions \ {StopEvent}
        /\ channel' = channel /\ m_currentTs' = m_currentTs
    BY <1>2, ActionFacts DEF Schedule, clock
  <2> HIDE DEF ts
  <2> QED BY <2>1, <2>2 DEF Accepts
<1>3. ASSUME NEW r \in Ranks, NEW l \in Links, NEW tx \in TxTimes, TransmitStart(r, l, tx)
      PROVE  Accepts
  <2> DEFINE ts == m_currentTs[r] + tx
  <2>1. ts \in Nat /\ m_currentTs[r] <= ts
    BY EventFacts, TimesAssumption DEF IInv
  <2>2. /\ Insert(r, ts, TransmitComplete(l)) /\ TransmitComplete(l) \in Actions \ {StopEvent}
        /\ channel' = channel /\ m_currentTs' = m_currentTs
    BY <1>3, ActionFacts DEF TransmitStart, clock
  <2> HIDE DEF ts
  <2> QED BY <2>1, <2>2 DEF Accepts
<1>4. ASSUME NEW r \in Ranks, NEW s \in Neighbours[r], ScheduleNullMessageEvent(r, s)
      PROVE  \E ts \in Nat, does \in Actions \ {StopEvent} :
                m_currentTs[r] <= ts /\ Insert(r, ts, does)
  <2> DEFINE ts == m_currentTs[r] + NullDelay(r, s)
  <2>1. ts \in Nat /\ m_currentTs[r] <= ts
    BY EventFacts, BundleFacts DEF IInv
  <2>2. s \in Ranks
    BY NeighbourFacts
  <2>3. Insert(r, ts, NullMessageEvent(s)) /\ NullMessageEvent(s) \in Actions \ {StopEvent}
    BY <1>4, <2>2, ActionFacts DEF ScheduleNullMessageEvent
  <2> HIDE DEF ts
  <2> QED BY <2>1, <2>3
<1>5. ASSUME NEW r \in Ranks, RescheduleNullMessageEvent(r) PROVE Accepts
  <2>1. PICK s \in Neighbours[r] : s = sending[r].to
    BY <1>5 DEF IInv, RankInv, SendingInv, RescheduleNullMessageEvent
  <2>2. ScheduleNullMessageEvent(r, s) /\ channel' = channel /\ m_currentTs' = m_currentTs
    BY <1>5, <2>1 DEF RescheduleNullMessageEvent, clock
  <2> QED BY <1>4, <2>2 DEF Accepts
<1>6. ASSUME NEW r \in Ranks, InitializeNullMessageEvent(r) PROVE Accepts
  <2>1. TypeOK /\ Uninitialized(r) # {}
    BY <1>6 DEF IInv, RankInv, RunInv, InitializeNullMessageEvent
  <2>2. PICK s \in Neighbours[r] : s = Min(Uninitialized(r))
    <3>1. Uninitialized(r) \subseteq Neighbours[r] /\ Uninitialized(r) \subseteq Nat
      BY NeighbourFacts, LinksAssumption DEF Uninitialized
    <3> QED BY <2>1, <3>1, MinIsLeast
  <2>3. PICK message \in Message :
           message.rxTime = 0 /\ channel' = [channel EXCEPT ![r][s] = Append(@, message)]
    <3>1. PICK m \in Message : m.rxTime = 0 /\ m = [rxTime |-> 0, guarantee |-> BundleDelay(r, s)]
      BY BundleFacts DEF Message
    <3> QED BY <1>6, <2>2, <3>1 DEF InitializeNullMessageEvent
  <2>4. Appends(r, s, message)
    BY <2>1, <2>3, AppendsFact
  <2>5. ScheduleNullMessageEvent(r, s) /\ m_currentTs' = m_currentTs
    BY <1>6, <2>2 DEF InitializeNullMessageEvent
  <2> QED BY <1>4, <2>3, <2>4, <2>5 DEF Accepts
<1>7. ASSUME NEW r \in Ranks, NullMessageEventHandler(r) PROVE Accepts
  <2>1. TypeOK /\ UidInv(r) /\ m_events[r] # {}
    BY <1>7, NotStopped DEF IInv, RankInv, NullMessageEventHandler
  <2>2. PICK s \in Neighbours[r] : Send(r, s, 0) /\ ScheduleNullMessageEvent(r, s)
    BY <1>7 DEF NullMessageEventHandler, Due
  <2>3. PICK message \in Message :
           message.rxTime = 0 /\ channel' = [channel EXCEPT ![r][s] = Append(@, message)]
    <3>1. PICK m \in Message : /\ m.rxTime = 0
                               /\ m = [rxTime |-> 0, guarantee |-> CalculateGuaranteeTime(r, s)]
      BY <2>1, GuaranteeFacts DEF Message
    <3> QED BY <2>2, <3>1 DEF Send
  <2>4. Appends(r, s, message)
    BY <2>1, <2>3, AppendsFact
  <2>5. m_currentTs' = m_currentTs
    BY <1>7 DEF NullMessageEventHandler, clock
  <2> QED BY <1>4, <2>2, <2>3, <2>4, <2>5 DEF Accepts
<1>8. ASSUME NEW r \in Ranks, NEW s \in Neighbours[r],
             ReceiveMessagesNonBlocking(r, s) \/ HandleArrivingMessagesBlocking(r, s)
      PROVE  Takes
  BY <1>8 DEF Takes, ReceiveMessagesNonBlocking, HandleArrivingMessagesBlocking, clock
<1>9. ASSUME NEW r \in Ranks, Run(r) \/ LeaveLoop(r) \/ CalculateSafeTime(r) PROVE Untouched
  BY <1>9 DEF Run, LeaveLoop, CalculateSafeTime, queue, clock
<1>10. ASSUME NEW r \in Ranks, UserCall(r) \/ Run(r) \/ Simulator(r)
       PROVE  Accepts \/ Sends \/ Takes \/ Executes \/ Untouched
  <2>1. CASE UserCall(r)
    BY <1>2, <1>3, <2>1 DEF UserCall
  <2>2. CASE Receive(r)
    BY <1>8, <2>2 DEF Receive
  <2>3. CASE SendPacket(r)
    BY <2>3, SendPacketSends
  <2>4. CASE ProcessOneEvent(r)
    BY <2>4 DEF Executes
  <2> QED BY <1>5, <1>6, <1>7, <1>9, <1>10, <2>1, <2>2, <2>3, <2>4 DEF Simulator
<1> QED BY <1>1, <1>10 DEF Next, Finished

(* On every rank events run in the order of their time stamps, and none    *)
(* that a neighbour has sent is overtaken: every step of the ranks is a    *)
(* step of ParallelContract, in which a packet is scheduled at its         *)
(* receiver when it is sent, or leaves it unchanged.                       *)
THEOREM StepsKeepContractHolds ==
    ASSUME OneChannel
    PROVE  Spec => StepsKeepContract
<1>1. Init => CountableInv
  <2> SUFFICES ASSUME Init PROVE CountableInv
    OBVIOUS
  <2>1. ASSUME NEW r \in Ranks
        PROVE  /\ IsFiniteSet(m_events[r])
               /\ \A e \in m_events[r] : e.does = StopEvent => e.ts = StopTime
    <3>1. PICK stop : stop = [ts |-> StopTime, uid |-> 4, does |-> StopEvent]
      OBVIOUS
    <3>2. m_events[r] = {stop}
      BY <3>1 DEF Init
    <3>3. stop.ts = StopTime
      BY <3>1
    <3> QED BY <3>2, <3>3, FS_Singleton
  <2>2. ASSUME NEW r \in Ranks, NEW t \in Nat PROVE IsFiniteSet(Slots(r, t))
    <3>1. \A s \in Neighbours[r] : Len(channel[s][r]) = 0
      BY NeighbourFacts DEF Init
    <3>2. Slots(r, t) = {}
      BY <3>1, InSlots
    <3> QED BY <3>2, FS_EmptySet
  <2> QED BY <2>1, <2>2 DEF CountableInv
<1>2. ASSUME IInv, IInv', CountableInv, [Next]_vars
      PROVE  CountableInv' /\ [Contract!Next]_<<m_currentTs, Pending>>
  <2>1. CASE m_events' = m_events /\ channel' = channel /\ m_currentTs' = m_currentTs
    <3>1. \A q \in Ranks : \A t \in Nat : Slots(q, t)' = Slots(q, t)
      BY <2>1, SlotsFrame
    <3>2. CountableInv'
      BY <1>2, <2>1, <3>1 DEF CountableInv
    <3>3. Pending' = Pending
      BY <2>1 DEF Pending, DueAt, ComingAt, Coming
    <3> QED BY <2>1, <3>2, <3>3
  <2> QED BY <1>2, <2>1, NextKinds, AcceptsKeeps, SendsKeeps, TakesKeeps, ExecutesKeeps
          DEF KeepsContract, Contract!vars
<1>3. Spec => []IInv
  BY IInvHolds
<1> QED BY <1>1, <1>2, <1>3, PTL DEF Spec, StepsKeepContract
=============================================================================
