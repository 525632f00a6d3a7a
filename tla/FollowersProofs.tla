-------------------------- MODULE FollowersProofs ---------------------------
(***************************************************************************)
(* Proofs about Followers for any scenarios, series, streams, time steps   *)
(* and units, whatever the user does.                                      *)
(***************************************************************************)
EXTENDS Followers, FiniteSetTheorems, SequenceTheorems, WellFoundedInduction, TLAPS

---------------------------------------------------------------------------
(* Loops.  All of them are folds over a sequence; their bodies, by name.   *)

Body(loop, acc, e) ==
    CASE loop.body = "split" ->
            IF e = NewLine THEN Append(acc, << >>)
                           ELSE [acc EXCEPT ![Len(acc)] = Append(@, e)]
      [] loop.body = "line" -> Log!PrintLine(acc, loop.arg, Append(e, NewLine))
      [] loop.body = "message" -> Log!HandleEvent(acc, e)
      [] loop.body = "undo message" -> Log!HandleUndo(acc, e)
      [] loop.body = "point" -> Charts!AddPoint(acc, loop.arg, e)
      [] loop.body = "chart" -> Charts!HandleEvent(acc, e, loop.arg)
      [] loop.body = "fake" -> Charts!KeepMoving(acc, e, loop.arg)
      [] loop.body = "undo chart" -> Charts!HandleUndo(acc, e)
      [] loop.body = "real" -> IF e.fake THEN acc ELSE Append(acc, e)
      [] loop.body = "applied" ->
            IF e.seriesId # loop.arg THEN acc
            ELSE IF e.kind = "XYSeriesClear" THEN << >>
            ELSE acc \o e.points
      [] loop.body = "printed" -> Log!PrintToUnifiedLog(acc, e.streamId, e.value)
      [] loop.body = "messages" -> IF e.streamId = loop.arg THEN acc \o e.value ELSE acc

Loop(body, arg) == [body |-> body, arg |-> arg]

(* From b, the loop gets to v by the first n elements of s. *)
Leads(loop, b, s, n, v) ==
    \E run : /\ run[0] = b /\ run[n] = v
             /\ \A i \in 0..n-1 : run[i + 1] = Body(loop, run[i], s[i + 1])

Top(t) == CHOOSE x \in t : \A y \in t : x >= y

IsIteration(loop, b, s, n, g) ==
    g = [t \in SUBSET (1..n) |-> IF t = {} THEN b
                                 ELSE Body(loop, g[t \ {Top(t)}], s[Top(t)])]

LEMMA Induction ==
    ASSUME NEW P, 0 \in P, \A n \in Nat : n \in P => n + 1 \in P
    PROVE  Nat \subseteq P
<1> DEFINE less == {ss \in Nat \X Nat : ss[1] < ss[2]}
           R == Nat \ P
<1> SUFFICES ASSUME R # {} PROVE FALSE
  OBVIOUS
<1>1. IsWellFoundedOn(less, Nat)
  BY NatLessThanWellFounded DEF OpToRel
<1>2. PICK m \in R : \A n \in R : <<n, m>> \notin less
  <2> HIDE DEF less
  <2> QED BY <1>1, WFMin
<1>3. m # 0 /\ m - 1 \in Nat /\ m - 1 < m /\ m = (m - 1) + 1
  BY <1>2
<1>4. m - 1 \in P
  BY <1>2, <1>3
<1> QED BY <1>2, <1>3, <1>4

(* What holds at the beginning of a run and is kept by each of its steps   *)
(* holds at every one of its states.                                       *)
LEMMA RunInduction ==
    ASSUME NEW n \in Nat, NEW T, NEW run, run[0] \in T[0],
           \A i \in 0..n-1 : run[i] \in T[i] => run[i + 1] \in T[i + 1]
    PROVE  \A i \in 0..n : run[i] \in T[i]
<1> DEFINE P == {i \in Nat : i <= n => run[i] \in T[i]}
<1>1. 0 \in P
  OBVIOUS
<1>2. \A i \in Nat : i \in P => i + 1 \in P
  OBVIOUS
<1> HIDE DEF P
<1>3. Nat \subseteq P
  BY <1>1, <1>2, Induction
<1> QED BY <1>3 DEF P

LEMMA LeadsInduction ==
    ASSUME NEW loop, NEW b, NEW s, NEW n \in Nat, NEW v, Leads(loop, b, s, n, v),
           NEW T, b \in T[0],
           \A i \in 0..n-1 : \A a \in T[i] : Body(loop, a, s[i + 1]) \in T[i + 1]
    PROVE  v \in T[n]
<1>1. PICK run : /\ run[0] = b /\ run[n] = v
                 /\ \A i \in 0..n-1 : run[i + 1] = Body(loop, run[i], s[i + 1])
  BY DEF Leads
<1>2. \A i \in 0..n : run[i] \in T[i]
  <2>1. \A i \in 0..n-1 : run[i] \in T[i] => run[i + 1] \in T[i + 1]
    BY <1>1
  <2> QED BY <1>1, <2>1, RunInduction
<1> QED BY <1>1, <1>2

LEMMA LeadsNowhere ==
    ASSUME NEW loop, NEW b, NEW s, NEW v
    PROVE  Leads(loop, b, s, 0, v) <=> v = b
<1>1. Leads(loop, b, s, 0, v) => v = b
  BY DEF Leads
<1>2. ASSUME v = b PROVE Leads(loop, b, s, 0, v)
  <2> DEFINE run == [i \in {0} |-> b]
  <2>1. /\ run[0] = b /\ run[0] = v
        /\ \A i \in 0..0-1 : run[i + 1] = Body(loop, run[i], s[i + 1])
    BY <1>2
  <2> QED BY <2>1 DEF Leads
<1> QED BY <1>1, <1>2

LEMMA LeadsOn ==
    ASSUME NEW loop, NEW b, NEW s, NEW n \in Nat, NEW v, Leads(loop, b, s, n, v),
           NEW r, \A i \in 1..n : r[i] = s[i],
           NEW w, Leads(loop, b, r, n + 1, w)
    PROVE  w = Body(loop, v, r[n + 1])
<1>1. PICK run : /\ run[0] = b /\ run[n] = v
                 /\ \A i \in 0..n-1 : run[i + 1] = Body(loop, run[i], s[i + 1])
  BY DEF Leads
<1>2. PICK on : /\ on[0] = b /\ on[n + 1] = w
                /\ \A i \in 0..(n+1)-1 : on[i + 1] = Body(loop, on[i], r[i + 1])
  BY DEF Leads
<1> DEFINE T == [i \in 0..n |-> {run[i]}]
<1>3. \A i \in 0..n-1 : on[i] \in T[i] => on[i + 1] \in T[i + 1]
  <2> SUFFICES ASSUME NEW i \in 0..n-1, on[i] \in T[i] PROVE on[i + 1] \in T[i + 1]
    OBVIOUS
  <2>1. on[i] = run[i] /\ i \in 0..(n+1)-1 /\ i + 1 \in 1..n /\ i + 1 \in 0..n
    OBVIOUS
  <2>2. on[i + 1] = Body(loop, on[i], r[i + 1]) /\ r[i + 1] = s[i + 1]
    BY <1>2, <2>1
  <2>3. run[i + 1] = Body(loop, run[i], s[i + 1])
    BY <1>1
  <2> QED BY <2>1, <2>2, <2>3
<1>4. on[0] \in T[0]
  BY <1>1, <1>2
<1>5. on[n] \in T[n]
  <2> HIDE DEF T
  <2> QED BY <1>3, <1>4, RunInduction
<1>6. on[n] = v
  BY <1>1, <1>5
<1>7. n \in 0..(n+1)-1
  OBVIOUS
<1> QED BY <1>2, <1>6, <1>7

LEMMA Tops ==
    ASSUME NEW k \in Nat
    PROVE  /\ \A t \in SUBSET (1..k+1) : k + 1 \in t => Top(t) = k + 1
           /\ Top(1..k+1) = k + 1 /\ (1..k+1) \ {k + 1} = 1..k
<1>1. ASSUME NEW t \in SUBSET (1..k+1), k + 1 \in t PROVE Top(t) = k + 1
  <2>1. \A y \in t : k + 1 >= y
    OBVIOUS
  <2>2. PICK x : x = Top(t)
    OBVIOUS
  <2>3. x \in t /\ \A y \in t : x >= y
    BY <1>1, <2>1, <2>2, Zenon DEF Top
  <2>4. x >= k + 1 /\ x \in 1..k+1
    BY <1>1, <2>3
  <2>5. x = k + 1
    BY <2>4
  <2> QED BY <2>2, <2>5
<1>2. 1..k+1 \in SUBSET (1..k+1) /\ k + 1 \in 1..k+1
  OBVIOUS
<1>3. Top(1..k+1) = k + 1
  BY <1>1, <1>2
<1>4. (1..k+1) \ {k + 1} = 1..k
  OBVIOUS
<1> QED BY <1>1, <1>3, <1>4

(* The recursive function by which folds are defined exists. *)
LEMMA IterationExists ==
    ASSUME NEW loop, NEW b, NEW s, NEW n \in Nat
    PROVE  \E g : IsIteration(loop, b, s, n, g)
<1> DEFINE P == {k \in Nat : \E g : IsIteration(loop, b, s, k, g)}
<1>1. 0 \in P
  <2>1. IsIteration(loop, b, s, 0, [t \in SUBSET (1..0) |-> b])
    BY DEF IsIteration
  <2> QED BY <2>1, Zenon
<1>2. ASSUME NEW k \in Nat, k \in P PROVE k + 1 \in P
  <2>1. PICK g : IsIteration(loop, b, s, k, g)
    BY <1>2
  <2> DEFINE h == [t \in SUBSET (1..k+1) |->
                      IF t \in SUBSET (1..k) THEN g[t]
                      ELSE Body(loop, g[t \ {k + 1}], s[k + 1])]
  <2>2. ASSUME NEW t \in SUBSET (1..k+1)
        PROVE  h[t] = IF t = {} THEN b ELSE Body(loop, h[t \ {Top(t)}], s[Top(t)])
    <3>1. CASE k + 1 \in t
      <4>1. Top(t) = k + 1
        BY <3>1, Tops
      <4>2. t \ {k + 1} \in SUBSET (1..k) /\ t \notin SUBSET (1..k) /\ t # {}
            /\ t \ {k + 1} \in SUBSET (1..k+1)
        BY <3>1
      <4>3. h[t \ {k + 1}] = g[t \ {k + 1}]
        BY <4>2
      <4>4. h[t] = Body(loop, g[t \ {k + 1}], s[k + 1])
        BY <4>2
      <4> QED BY <4>1, <4>2, <4>3, <4>4
    <3>2. CASE k + 1 \notin t
      <4>1. t \in SUBSET (1..k) /\ h[t] = g[t]
        BY <3>2
      <4>2. t \ {Top(t)} \in SUBSET (1..k) /\ h[t \ {Top(t)}] = g[t \ {Top(t)}]
        BY <4>1
      <4>3. g[t] = IF t = {} THEN b ELSE Body(loop, g[t \ {Top(t)}], s[Top(t)])
        BY <2>1, <4>1 DEF IsIteration
      <4> QED BY <4>1, <4>2, <4>3
    <3> QED BY <3>1, <3>2
  <2>3. IsIteration(loop, b, s, k + 1, h)
    BY <2>2, Zenon DEF IsIteration
  <2> HIDE DEF h
  <2>4. \E f : IsIteration(loop, b, s, k + 1, f)
    BY <2>3
  <2> QED BY <2>4
<1>3. n \in P
  <2> HIDE DEF P
  <2> QED BY <1>1, <1>2, Induction
<1> QED BY <1>3

LEMMA IterationLeads ==
    ASSUME NEW loop, NEW b, NEW s, NEW n \in Nat, NEW g, IsIteration(loop, b, s, n, g)
    PROVE  Leads(loop, b, s, n, g[1..n])
<1> DEFINE run == [i \in 0..n |-> g[1..i]]
<1>1. run[0] = b /\ run[n] = g[1..n]
  <2>1. 1..0 = {} /\ {} \in SUBSET (1..n)
    OBVIOUS
  <2>2. g[{}] = b
    BY <2>1 DEF IsIteration
  <2>3. 0 \in 0..n /\ n \in 0..n
    OBVIOUS
  <2> QED BY <2>1, <2>2, <2>3
<1>2. ASSUME NEW i \in 0..n-1 PROVE run[i + 1] = Body(loop, run[i], s[i + 1])
  <2>1. i \in Nat /\ i + 1 \in 0..n /\ i \in 0..n
    OBVIOUS
  <2>2. (1..i+1) \in SUBSET (1..n) /\ 1..i+1 # {}
    BY <2>1
  <2>3. Top(1..i+1) = i + 1 /\ (1..i+1) \ {i + 1} = 1..i
    BY <2>1, Tops
  <2>4. g[1..i+1] = Body(loop, g[1..i], s[i + 1])
    BY <2>2, <2>3 DEF IsIteration
  <2> QED BY <2>1, <2>4
<1> HIDE DEF run
<1> QED BY <1>1, <1>2 DEF Leads

---------------------------------------------------------------------------
(* Each of the loops, as it stands in its module. *)

NothingPrinted == [text |-> << >>, writer |-> NoStream, characterTotal |-> 0]

PrintLines(log, id, lines) ==
    Log!Seqs!FoldLeft(LAMBDA acc, line : Log!PrintLine(acc, id, Append(line, NewLine)),
                      log, lines)
HandleMessages(state, due) == Log!Seqs!FoldLeft(Log!HandleEvent, state, due)
UndoMessages(state, undone) == Log!Seqs!FoldLeft(Log!HandleUndo, state, undone)

HandleCharts(state, due, time) ==
    Charts!Seqs!FoldLeft(LAMBDA acc, e : Charts!HandleEvent(acc, e, time), state, due)
KeepAllMoving(state, ids, time) ==
    Charts!Seqs!FoldLeft(LAMBDA acc, id : Charts!KeepMoving(acc, id, time), state, ids)
UndoCharts(s, undone) == Charts!Seqs!FoldLeft(Charts!HandleUndo, s, undone)

LEMMA PrintedLeads ==
    ASSUME NEW n \in Nat, NEW s, DOMAIN s = 1..n
    PROVE  Leads(Loop("printed", 0), NothingPrinted, s, n, Printed(s))
<1> DEFINE loop == Loop("printed", 0)
           b == NothingPrinted
           Op(acc, e) == Log!PrintToUnifiedLog(acc, e.streamId, e.value)
           Is(g) == g = [t \in SUBSET (1..n) |->
                            IF t = {} THEN b ELSE Op(g[t \ {Top(t)}], s[Top(t)])]
<1>1. \A acc, e : Body(loop, acc, e) = Op(acc, e)
  BY DEF Body, Loop
<1>2. \A g : IsIteration(loop, b, s, n, g) <=> Is(g)
  <2> HIDE DEF loop, b, Op
  <2> QED BY <1>1, Zenon DEF IsIteration
<1>3. PICK g : Is(g) /\ Printed(s) = g[1..n]
  <2>1. \A t : Seqs!Max(t) = Top(t)
    BY DEF Seqs!Max, Top
  <2>2. Printed(s) = (CHOOSE g : Is(g))[1..n]
    BY <2>1 DEF Printed, NothingPrinted, Seqs!FoldLeft, Seqs!MapThenFoldSet
  <2>3. \E g : Is(g)
    BY <1>2, IterationExists
  <2> HIDE DEF Is
  <2> QED BY <2>2, <2>3
<1>4. Leads(loop, b, s, n, g[1..n])
  BY <1>2, <1>3, IterationLeads
<1> QED BY <1>3, <1>4

LEMMA MessagesLead ==
    ASSUME NEW n \in Nat, NEW s, DOMAIN s = 1..n, NEW id
    PROVE  Leads(Loop("messages", id), << >>, s, n, Messages(s, id))
<1> DEFINE loop == Loop("messages", id)
           b == << >>
           Op(acc, e) == IF e.streamId = id THEN acc \o e.value ELSE acc
           Is(g) == g = [t \in SUBSET (1..n) |->
                            IF t = {} THEN b ELSE Op(g[t \ {Top(t)}], s[Top(t)])]
<1>1. \A acc, e : Body(loop, acc, e) = Op(acc, e)
  BY DEF Body, Loop
<1>2. \A g : IsIteration(loop, b, s, n, g) <=> Is(g)
  <2> HIDE DEF loop, b, Op
  <2> QED BY <1>1, Zenon DEF IsIteration
<1>3. PICK g : Is(g) /\ Messages(s, id) = g[1..n]
  <2>1. \A t : Seqs!Max(t) = Top(t)
    BY DEF Seqs!Max, Top
  <2>2. Messages(s, id) = (CHOOSE g : Is(g))[1..n]
    BY <2>1 DEF Messages, Seqs!FoldLeft, Seqs!MapThenFoldSet
  <2>3. \E g : Is(g)
    BY <1>2, IterationExists
  <2> HIDE DEF Is
  <2> QED BY <2>2, <2>3
<1>4. Leads(loop, b, s, n, g[1..n])
  BY <1>2, <1>3, IterationLeads
<1> QED BY <1>3, <1>4

LEMMA RealLeads ==
    ASSUME NEW n \in Nat, NEW s, DOMAIN s = 1..n
    PROVE  Leads(Loop("real", 0), << >>, s, n, Real(s))
<1> DEFINE loop == Loop("real", 0)
           b == << >>
           Op(acc, e) == IF e.fake THEN acc ELSE Append(acc, e)
           Is(g) == g = [t \in SUBSET (1..n) |->
                            IF t = {} THEN b ELSE Op(g[t \ {Top(t)}], s[Top(t)])]
<1>1. \A acc, e : Body(loop, acc, e) = Op(acc, e)
  BY DEF Body, Loop
<1>2. \A g : IsIteration(loop, b, s, n, g) <=> Is(g)
  <2> HIDE DEF loop, b, Op
  <2> QED BY <1>1, Zenon DEF IsIteration
<1>3. PICK g : Is(g) /\ Real(s) = g[1..n]
  <2>1. \A t : Seqs!Max(t) = Top(t)
    BY DEF Seqs!Max, Top
  <2>2. Real(s) = (CHOOSE g : Is(g))[1..n]
    BY <2>1 DEF Real, Seqs!FoldLeft, Seqs!MapThenFoldSet
  <2>3. \E g : Is(g)
    BY <1>2, IterationExists
  <2> HIDE DEF Is
  <2> QED BY <2>2, <2>3
<1>4. Leads(loop, b, s, n, g[1..n])
  BY <1>2, <1>3, IterationLeads
<1> QED BY <1>3, <1>4

LEMMA PointsLead ==
    ASSUME NEW n \in Nat, NEW s, DOMAIN s = 1..n, NEW id
    PROVE  Leads(Loop("applied", id), << >>, s, n, PointsApplied(s, id))
<1> DEFINE loop == Loop("applied", id)
           b == << >>
           Op(acc, e) == IF e.seriesId # id THEN acc
                            ELSE IF e.kind = "XYSeriesClear" THEN << >>
                            ELSE acc \o e.points
           Is(g) == g = [t \in SUBSET (1..n) |->
                            IF t = {} THEN b ELSE Op(g[t \ {Top(t)}], s[Top(t)])]
<1>1. \A acc, e : Body(loop, acc, e) = Op(acc, e)
  BY DEF Body, Loop
<1>2. \A g : IsIteration(loop, b, s, n, g) <=> Is(g)
  <2> HIDE DEF loop, b, Op
  <2> QED BY <1>1, Zenon DEF IsIteration
<1>3. PICK g : Is(g) /\ PointsApplied(s, id) = g[1..n]
  <2>1. \A t : Seqs!Max(t) = Top(t)
    BY DEF Seqs!Max, Top
  <2>2. PointsApplied(s, id) = (CHOOSE g : Is(g))[1..n]
    BY <2>1 DEF PointsApplied, Seqs!FoldLeft, Seqs!MapThenFoldSet
  <2>3. \E g : Is(g)
    BY <1>2, IterationExists
  <2> HIDE DEF Is
  <2> QED BY <2>2, <2>3
<1>4. Leads(loop, b, s, n, g[1..n])
  BY <1>2, <1>3, IterationLeads
<1> QED BY <1>3, <1>4

LEMMA LinesLead ==
    ASSUME NEW n \in Nat, NEW s, DOMAIN s = 1..n
    PROVE  Leads(Loop("split", 0), << << >> >>, s, n, Log!Lines(s))
<1> DEFINE loop == Loop("split", 0)
           b == << << >> >>
           Op(acc, e) == IF e = NewLine THEN Append(acc, << >>)
                            ELSE [acc EXCEPT ![Len(acc)] = Append(@, e)]
           Is(g) == g = [t \in SUBSET (1..n) |->
                            IF t = {} THEN b ELSE Op(g[t \ {Top(t)}], s[Top(t)])]
<1>1. \A acc, e : Body(loop, acc, e) = Op(acc, e)
  BY DEF Body, Loop
<1>2. \A g : IsIteration(loop, b, s, n, g) <=> Is(g)
  <2> HIDE DEF loop, b, Op
  <2> QED BY <1>1, Zenon DEF IsIteration
<1>3. PICK g : Is(g) /\ Log!Lines(s) = g[1..n]
  <2>1. \A t : Log!Seqs!Max(t) = Top(t)
    BY DEF Log!Seqs!Max, Top
  <2>2. Log!Lines(s) = (CHOOSE g : Is(g))[1..n]
    BY <2>1, ZenonT(30) DEF Log!Lines, Log!Seqs!FoldLeft, Log!Seqs!MapThenFoldSet
  <2>3. \E g : Is(g)
    BY <1>2, IterationExists
  <2> HIDE DEF Is
  <2> QED BY <2>2, <2>3
<1>4. Leads(loop, b, s, n, g[1..n])
  BY <1>2, <1>3, IterationLeads
<1> QED BY <1>3, <1>4

LEMMA PrintLinesLead ==
    ASSUME NEW n \in Nat, NEW s, DOMAIN s = 1..n, NEW log, NEW id
    PROVE  Leads(Loop("line", id), log, s, n, PrintLines(log, id, s))
<1> DEFINE loop == Loop("line", id)
           b == log
           Op(acc, e) == Log!PrintLine(acc, id, Append(e, NewLine))
           Is(g) == g = [t \in SUBSET (1..n) |->
                            IF t = {} THEN b ELSE Op(g[t \ {Top(t)}], s[Top(t)])]
<1>1. \A acc, e : Body(loop, acc, e) = Op(acc, e)
  BY DEF Body, Loop
<1>2. \A g : IsIteration(loop, b, s, n, g) <=> Is(g)
  <2> HIDE DEF loop, b, Op
  <2> QED BY <1>1, Zenon DEF IsIteration
<1>3. PICK g : Is(g) /\ PrintLines(log, id, s) = g[1..n]
  <2>1. \A t : Log!Seqs!Max(t) = Top(t)
    BY DEF Log!Seqs!Max, Top
  <2>2. PrintLines(log, id, s) = (CHOOSE g : Is(g))[1..n]
    BY <2>1 DEF PrintLines, Log!Seqs!FoldLeft, Log!Seqs!MapThenFoldSet
  <2>3. \E g : Is(g)
    BY <1>2, IterationExists
  <2> HIDE DEF Is
  <2> QED BY <2>2, <2>3
<1>4. Leads(loop, b, s, n, g[1..n])
  BY <1>2, <1>3, IterationLeads
<1> QED BY <1>3, <1>4

LEMMA HandleMessagesLead ==
    ASSUME NEW n \in Nat, NEW s, DOMAIN s = 1..n, NEW state
    PROVE  Leads(Loop("message", 0), state, s, n, HandleMessages(state, s))
<1> DEFINE loop == Loop("message", 0)
           b == state
           Op(acc, e) == Log!HandleEvent(acc, e)
           Is(g) == g = [t \in SUBSET (1..n) |->
                            IF t = {} THEN b ELSE Op(g[t \ {Top(t)}], s[Top(t)])]
<1>1. \A acc, e : Body(loop, acc, e) = Op(acc, e)
  BY DEF Body, Loop
<1>2. \A g : IsIteration(loop, b, s, n, g) <=> Is(g)
  <2> HIDE DEF loop, b, Op
  <2> QED BY <1>1, Zenon DEF IsIteration
<1>3. PICK g : Is(g) /\ HandleMessages(state, s) = g[1..n]
  <2>1. \A t : Log!Seqs!Max(t) = Top(t)
    BY DEF Log!Seqs!Max, Top
  <2>2. HandleMessages(state, s) = (CHOOSE g : Is(g))[1..n]
    BY <2>1 DEF HandleMessages, Log!Seqs!FoldLeft, Log!Seqs!MapThenFoldSet
  <2>3. \E g : Is(g)
    BY <1>2, IterationExists
  <2> HIDE DEF Is
  <2> QED BY <2>2, <2>3
<1>4. Leads(loop, b, s, n, g[1..n])
  BY <1>2, <1>3, IterationLeads
<1> QED BY <1>3, <1>4

LEMMA UndoMessagesLead ==
    ASSUME NEW n \in Nat, NEW s, DOMAIN s = 1..n, NEW state
    PROVE  Leads(Loop("undo message", 0), state, s, n, UndoMessages(state, s))
<1> DEFINE loop == Loop("undo message", 0)
           b == state
           Op(acc, e) == Log!HandleUndo(acc, e)
           Is(g) == g = [t \in SUBSET (1..n) |->
                            IF t = {} THEN b ELSE Op(g[t \ {Top(t)}], s[Top(t)])]
<1>1. \A acc, e : Body(loop, acc, e) = Op(acc, e)
  BY DEF Body, Loop
<1>2. \A g : IsIteration(loop, b, s, n, g) <=> Is(g)
  <2> HIDE DEF loop, b, Op
  <2> QED BY <1>1, Zenon DEF IsIteration
<1>3. PICK g : Is(g) /\ UndoMessages(state, s) = g[1..n]
  <2>1. \A t : Log!Seqs!Max(t) = Top(t)
    BY DEF Log!Seqs!Max, Top
  <2>2. UndoMessages(state, s) = (CHOOSE g : Is(g))[1..n]
    BY <2>1 DEF UndoMessages, Log!Seqs!FoldLeft, Log!Seqs!MapThenFoldSet
  <2>3. \E g : Is(g)
    BY <1>2, IterationExists
  <2> HIDE DEF Is
  <2> QED BY <2>2, <2>3
<1>4. Leads(loop, b, s, n, g[1..n])
  BY <1>2, <1>3, IterationLeads
<1> QED BY <1>3, <1>4

LEMMA AddPointsLead ==
    ASSUME NEW n \in Nat, NEW s, DOMAIN s = 1..n, NEW state, NEW id
    PROVE  Leads(Loop("point", id), state, s, n, Charts!AddPoints(state, id, s))
<1> DEFINE loop == Loop("point", id)
           b == state
           Op(acc, e) == Charts!AddPoint(acc, id, e)
           Is(g) == g = [t \in SUBSET (1..n) |->
                            IF t = {} THEN b ELSE Op(g[t \ {Top(t)}], s[Top(t)])]
<1>1. \A acc, e : Body(loop, acc, e) = Op(acc, e)
  BY DEF Body, Loop
<1>2. \A g : IsIteration(loop, b, s, n, g) <=> Is(g)
  <2> HIDE DEF loop, b, Op
  <2> QED BY <1>1, Zenon DEF IsIteration
<1>3. PICK g : Is(g) /\ Charts!AddPoints(state, id, s) = g[1..n]
  <2>1. \A t : Charts!Seqs!Max(t) = Top(t)
    BY DEF Charts!Seqs!Max, Top
  <2>2. Charts!AddPoints(state, id, s) = (CHOOSE g : Is(g))[1..n]
    BY <2>1 DEF Charts!AddPoints, Charts!Seqs!FoldLeft, Charts!Seqs!MapThenFoldSet
  <2>3. \E g : Is(g)
    BY <1>2, IterationExists
  <2> HIDE DEF Is
  <2> QED BY <2>2, <2>3
<1>4. Leads(loop, b, s, n, g[1..n])
  BY <1>2, <1>3, IterationLeads
<1> QED BY <1>3, <1>4

LEMMA HandleChartsLead ==
    ASSUME NEW n \in Nat, NEW s, DOMAIN s = 1..n, NEW state, NEW time
    PROVE  Leads(Loop("chart", time), state, s, n, HandleCharts(state, s, time))
<1> DEFINE loop == Loop("chart", time)
           b == state
           Op(acc, e) == Charts!HandleEvent(acc, e, time)
           Is(g) == g = [t \in SUBSET (1..n) |->
                            IF t = {} THEN b ELSE Op(g[t \ {Top(t)}], s[Top(t)])]
<1>1. \A acc, e : Body(loop, acc, e) = Op(acc, e)
  BY DEF Body, Loop
<1>2. \A g : IsIteration(loop, b, s, n, g) <=> Is(g)
  <2> HIDE DEF loop, b, Op
  <2> QED BY <1>1, Zenon DEF IsIteration
<1>3. PICK g : Is(g) /\ HandleCharts(state, s, time) = g[1..n]
  <2>1. \A t : Charts!Seqs!Max(t) = Top(t)
    BY DEF Charts!Seqs!Max, Top
  <2>2. HandleCharts(state, s, time) = (CHOOSE g : Is(g))[1..n]
    BY <2>1 DEF HandleCharts, Charts!Seqs!FoldLeft, Charts!Seqs!MapThenFoldSet
  <2>3. \E g : Is(g)
    BY <1>2, IterationExists
  <2> HIDE DEF Is
  <2> QED BY <2>2, <2>3
<1>4. Leads(loop, b, s, n, g[1..n])
  BY <1>2, <1>3, IterationLeads
<1> QED BY <1>3, <1>4

LEMMA KeepMovingLeads ==
    ASSUME NEW n \in Nat, NEW s, DOMAIN s = 1..n, NEW state, NEW time
    PROVE  Leads(Loop("fake", time), state, s, n, KeepAllMoving(state, s, time))
<1> DEFINE loop == Loop("fake", time)
           b == state
           Op(acc, e) == Charts!KeepMoving(acc, e, time)
           Is(g) == g = [t \in SUBSET (1..n) |->
                            IF t = {} THEN b ELSE Op(g[t \ {Top(t)}], s[Top(t)])]
<1>1. \A acc, e : Body(loop, acc, e) = Op(acc, e)
  BY DEF Body, Loop
<1>2. \A g : IsIteration(loop, b, s, n, g) <=> Is(g)
  <2> HIDE DEF loop, b, Op
  <2> QED BY <1>1, Zenon DEF IsIteration
<1>3. PICK g : Is(g) /\ KeepAllMoving(state, s, time) = g[1..n]
  <2>1. \A t : Charts!Seqs!Max(t) = Top(t)
    BY DEF Charts!Seqs!Max, Top
  <2>2. KeepAllMoving(state, s, time) = (CHOOSE g : Is(g))[1..n]
    BY <2>1 DEF KeepAllMoving, Charts!Seqs!FoldLeft, Charts!Seqs!MapThenFoldSet
  <2>3. \E g : Is(g)
    BY <1>2, IterationExists
  <2> HIDE DEF Is
  <2> QED BY <2>2, <2>3
<1>4. Leads(loop, b, s, n, g[1..n])
  BY <1>2, <1>3, IterationLeads
<1> QED BY <1>3, <1>4

LEMMA UndoChartsLead ==
    ASSUME NEW n \in Nat, NEW s, DOMAIN s = 1..n, NEW state
    PROVE  Leads(Loop("undo chart", 0), state, s, n, UndoCharts(state, s))
<1> DEFINE loop == Loop("undo chart", 0)
           b == state
           Op(acc, e) == Charts!HandleUndo(acc, e)
           Is(g) == g = [t \in SUBSET (1..n) |->
                            IF t = {} THEN b ELSE Op(g[t \ {Top(t)}], s[Top(t)])]
<1>1. \A acc, e : Body(loop, acc, e) = Op(acc, e)
  BY DEF Body, Loop
<1>2. \A g : IsIteration(loop, b, s, n, g) <=> Is(g)
  <2> HIDE DEF loop, b, Op
  <2> QED BY <1>1, Zenon DEF IsIteration
<1>3. PICK g : Is(g) /\ UndoCharts(state, s) = g[1..n]
  <2>1. \A t : Charts!Seqs!Max(t) = Top(t)
    BY DEF Charts!Seqs!Max, Top
  <2>2. UndoCharts(state, s) = (CHOOSE g : Is(g))[1..n]
    BY <2>1 DEF UndoCharts, Charts!Seqs!FoldLeft, Charts!Seqs!MapThenFoldSet
  <2>3. \E g : Is(g)
    BY <1>2, IterationExists
  <2> HIDE DEF Is
  <2> QED BY <2>2, <2>3
<1>4. Leads(loop, b, s, n, g[1..n])
  BY <1>2, <1>3, IterationLeads
<1> QED BY <1>3, <1>4

---------------------------------------------------------------------------
(* Sequences. *)

LEMMA Firsts ==
    ASSUME NEW S, NEW s \in Seq(S), NEW i \in 0..Len(s)
    PROVE  /\ SubSeq(s, 1, i) \in Seq(S) /\ Len(SubSeq(s, 1, i)) = i
           /\ \A j \in 1..i : SubSeq(s, 1, i)[j] = s[j]
           /\ i < Len(s) => SubSeq(s, 1, i + 1) = Append(SubSeq(s, 1, i), s[i + 1])
           /\ i = Len(s) => SubSeq(s, 1, i) = s
<1>1. \A j \in 1..Len(s) : s[j] \in S
  BY ElementOfSeq
<1>2. ASSUME NEW j \in 0..Len(s)
      PROVE  /\ SubSeq(s, 1, j) \in Seq(S) /\ Len(SubSeq(s, 1, j)) = j
             /\ \A k \in 1..j : SubSeq(s, 1, j)[k] = s[k]
  BY <1>1, SubSeqProperties
<1>3. ASSUME i < Len(s)
      PROVE  SubSeq(s, 1, i + 1) = Append(SubSeq(s, 1, i), s[i + 1])
  <2>1. i + 1 \in 0..Len(s) /\ s[i + 1] \in S
    BY <1>1, <1>3
  <2>2. /\ Append(SubSeq(s, 1, i), s[i + 1]) \in Seq(S)
        /\ Len(Append(SubSeq(s, 1, i), s[i + 1])) = i + 1
        /\ \A j \in 1..i : Append(SubSeq(s, 1, i), s[i + 1])[j] = SubSeq(s, 1, i)[j]
        /\ Append(SubSeq(s, 1, i), s[i + 1])[i + 1] = s[i + 1]
    BY <1>2, <2>1, AppendProperties
  <2>3. \A j \in 1..i+1 : SubSeq(s, 1, i + 1)[j] = Append(SubSeq(s, 1, i), s[i + 1])[j]
    BY <1>2, <2>1, <2>2
  <2> QED BY <1>2, <2>1, <2>2, <2>3, SeqEqual
<1>4. SubSeq(s, 1, Len(s)) = s
  BY SubSeqFull
<1> QED BY <1>2, <1>3, <1>4

LEMMA Appended ==
    ASSUME NEW S, NEW s \in Seq(S), NEW e \in S
    PROVE  /\ Append(s, e) \in Seq(S) /\ Len(Append(s, e)) = Len(s) + 1
           /\ Len(s) + 1 \in Nat /\ DOMAIN Append(s, e) = 1..Len(s)+1
           /\ \A j \in 1..Len(s) : Append(s, e)[j] = s[j]
           /\ Append(s, e)[Len(s) + 1] = e
           /\ \A i \in 0..Len(s) : SubSeq(Append(s, e), 1, i) = SubSeq(s, 1, i)
           /\ SubSeq(Append(s, e), 1, Len(s) + 1) = Append(s, e)
<1>1. /\ Append(s, e) \in Seq(S) /\ Len(Append(s, e)) = Len(s) + 1
      /\ \A j \in 1..Len(s) : Append(s, e)[j] = s[j]
      /\ Append(s, e)[Len(s) + 1] = e
  BY AppendProperties
<1>2. Len(s) \in Nat /\ Len(s) + 1 \in Nat /\ DOMAIN Append(s, e) = 1..Len(s)+1
  BY <1>1, LenProperties
<1>3. ASSUME NEW i \in 0..Len(s) PROVE SubSeq(Append(s, e), 1, i) = SubSeq(s, 1, i)
  <2>1. i \in 0..Len(Append(s, e)) /\ \A j \in 1..i : j \in 1..Len(s)
    BY <1>1, <1>2
  <2>2. /\ SubSeq(s, 1, i) \in Seq(S) /\ Len(SubSeq(s, 1, i)) = i
        /\ \A j \in 1..i : SubSeq(s, 1, i)[j] = s[j]
    BY Firsts
  <2>3. /\ SubSeq(Append(s, e), 1, i) \in Seq(S) /\ Len(SubSeq(Append(s, e), 1, i)) = i
        /\ \A j \in 1..i : SubSeq(Append(s, e), 1, i)[j] = Append(s, e)[j]
    BY <1>1, <2>1, Firsts
  <2> QED BY <1>1, <2>1, <2>2, <2>3, SeqEqual
<1>4. SubSeq(Append(s, e), 1, Len(s) + 1) = Append(s, e)
  BY <1>1, SubSeqFull
<1> QED BY <1>1, <1>2, <1>3, <1>4

LEMMA LeadsNext ==
    ASSUME NEW S, NEW s \in Seq(S), NEW e \in S, NEW loop, NEW b,
           NEW v, Leads(loop, b, s, Len(s), v),
           NEW w, Leads(loop, b, Append(s, e), Len(s) + 1, w)
    PROVE  w = Body(loop, v, e)
<1> DEFINE n == Len(s)
           r == Append(s, e)
<1>1. n \in Nat /\ (\A i \in 1..n : r[i] = s[i]) /\ r[n + 1] = e
  BY Appended, LenProperties
<1>2. Leads(loop, b, s, n, v) /\ Leads(loop, b, r, n + 1, w)
  OBVIOUS
<1> HIDE DEF n, r
<1>3. w = Body(loop, v, r[n + 1])
  BY <1>1, <1>2, LeadsOn
<1> QED BY <1>1, <1>3

(* What the histories become with one more event. *)
LEMMA PrintedNext ==
    ASSUME NEW S, NEW s \in Seq(S), NEW e \in S
    PROVE  Printed(Append(s, e)) = Log!PrintToUnifiedLog(Printed(s), e.streamId, e.value)
<1>1. /\ Len(s) \in Nat /\ DOMAIN s = 1..Len(s)
      /\ Len(s) + 1 \in Nat /\ DOMAIN Append(s, e) = 1..Len(s)+1
  BY Appended, LenProperties
<1>2. Leads(Loop("printed", 0), NothingPrinted, s, Len(s), Printed(s))
  BY <1>1, PrintedLeads, Zenon
<1>3. Leads(Loop("printed", 0), NothingPrinted, Append(s, e), Len(s) + 1,
            Printed(Append(s, e)))
  BY <1>1, PrintedLeads, Zenon
<1>4. Printed(Append(s, e)) = Body(Loop("printed", 0), Printed(s), e)
  BY <1>2, <1>3, LeadsNext, Zenon
<1> QED BY <1>4 DEF Body, Loop

LEMMA MessagesNext ==
    ASSUME NEW S, NEW s \in Seq(S), NEW e \in S, NEW id
    PROVE  Messages(Append(s, e), id) =
               IF e.streamId = id THEN Messages(s, id) \o e.value ELSE Messages(s, id)
<1>1. /\ Len(s) \in Nat /\ DOMAIN s = 1..Len(s)
      /\ Len(s) + 1 \in Nat /\ DOMAIN Append(s, e) = 1..Len(s)+1
  BY Appended, LenProperties
<1>2. Leads(Loop("messages", id), << >>, s, Len(s), Messages(s, id))
  BY <1>1, MessagesLead, Zenon
<1>3. Leads(Loop("messages", id), << >>, Append(s, e), Len(s) + 1,
            Messages(Append(s, e), id))
  BY <1>1, MessagesLead, Zenon
<1>4. Messages(Append(s, e), id) = Body(Loop("messages", id), Messages(s, id), e)
  BY <1>2, <1>3, LeadsNext, Zenon
<1> QED BY <1>4 DEF Body, Loop

LEMMA RealNext ==
    ASSUME NEW S, NEW s \in Seq(S), NEW e \in S
    PROVE  Real(Append(s, e)) = IF e.fake THEN Real(s) ELSE Append(Real(s), e)
<1>1. /\ Len(s) \in Nat /\ DOMAIN s = 1..Len(s)
      /\ Len(s) + 1 \in Nat /\ DOMAIN Append(s, e) = 1..Len(s)+1
  BY Appended, LenProperties
<1>2. Leads(Loop("real", 0), << >>, s, Len(s), Real(s))
  BY <1>1, RealLeads, Zenon
<1>3. Leads(Loop("real", 0), << >>, Append(s, e), Len(s) + 1, Real(Append(s, e)))
  BY <1>1, RealLeads, Zenon
<1>4. Real(Append(s, e)) = Body(Loop("real", 0), Real(s), e)
  BY <1>2, <1>3, LeadsNext, Zenon
<1> QED BY <1>4 DEF Body, Loop

LEMMA PointsNext ==
    ASSUME NEW S, NEW s \in Seq(S), NEW e \in S, NEW id
    PROVE  PointsApplied(Append(s, e), id) =
               IF e.seriesId # id THEN PointsApplied(s, id)
               ELSE IF e.kind = "XYSeriesClear" THEN << >>
               ELSE PointsApplied(s, id) \o e.points
<1>1. /\ Len(s) \in Nat /\ DOMAIN s = 1..Len(s)
      /\ Len(s) + 1 \in Nat /\ DOMAIN Append(s, e) = 1..Len(s)+1
  BY Appended, LenProperties
<1>2. Leads(Loop("applied", id), << >>, s, Len(s), PointsApplied(s, id))
  BY <1>1, PointsLead, Zenon
<1>3. Leads(Loop("applied", id), << >>, Append(s, e), Len(s) + 1,
            PointsApplied(Append(s, e), id))
  BY <1>1, PointsLead, Zenon
<1>4. PointsApplied(Append(s, e), id) = Body(Loop("applied", id), PointsApplied(s, id), e)
  BY <1>2, <1>3, LeadsNext, Zenon
<1> QED BY <1>4 DEF Body, Loop

(* And with none. *)
LEMMA NoHistory ==
    /\ Printed(<< >>) = NothingPrinted /\ Real(<< >>) = << >>
    /\ \A id : Messages(<< >>, id) = << >> /\ PointsApplied(<< >>, id) = << >>
<1>1. DOMAIN << >> = 1..0 /\ 0 \in Nat
  OBVIOUS
<1>2. Printed(<< >>) = NothingPrinted
  BY <1>1, PrintedLeads, LeadsNowhere
<1>3. Real(<< >>) = << >>
  BY <1>1, RealLeads, LeadsNowhere
<1>4. ASSUME NEW id PROVE Messages(<< >>, id) = << >> /\ PointsApplied(<< >>, id) = << >>
  BY <1>1, MessagesLead, PointsLead, LeadsNowhere
<1> QED BY <1>2, <1>3, <1>4

---------------------------------------------------------------------------
(* The two queues. *)

LEMMA Smallest ==
    ASSUME NEW t \in SUBSET Nat, t # {}
    PROVE  \E x \in t : \A y \in t : x <= y
<1> DEFINE less == {ss \in Nat \X Nat : ss[1] < ss[2]}
<1>1. IsWellFoundedOn(less, Nat)
  BY NatLessThanWellFounded DEF OpToRel
<1>2. PICK x \in t : \A y \in t : <<y, x>> \notin less
  <2> HIDE DEF less
  <2> QED BY <1>1, WFMin
<1>3. ASSUME NEW y \in t PROVE x <= y
  <2>1. x \in Nat /\ y \in Nat /\ <<y, x>> \notin less
    BY <1>2
  <2>2. <<y, x>> \in Nat \X Nat /\ <<y, x>>[1] = y /\ <<y, x>>[2] = x
    BY <2>1
  <2> QED BY <2>1, <2>2
<1> QED BY <1>3

LEMMA DueIsFront ==
    ASSUME NEW S, NEW events \in Seq(S), NEW time
    PROVE  \E d \in 0..Len(events) :
              /\ Due(events, time) = SubSeq(events, 1, d)
              /\ \A i \in 1..d : ~(events[i].time > time)
              /\ d < Len(events) => events[d + 1].time > time
<1> DEFINE I == {i \in 1..Len(events) : events[i].time > time}
<1>1. Len(events) \in Nat
  BY LenProperties
<1>2. Due(events, time) =
         SubSeq(events, 1, IF (IF I # {} THEN Seqs!Min(I) ELSE 0) = 0 THEN Len(events)
                           ELSE (IF I # {} THEN Seqs!Min(I) ELSE 0) - 1)
  BY DEF Due, FrontRun, Seqs!SelectInSeq
<1>3. CASE I = {}
  BY <1>1, <1>2, <1>3
<1>4. CASE I # {}
  <2>1. I \in SUBSET Nat
    BY <1>1
  <2>2. PICK m : m = Seqs!Min(I)
    OBVIOUS
  <2>3. m \in I /\ \A i \in I : m <= i
    <3> HIDE DEF I
    <3>1. \E x \in I : \A y \in I : x <= y
      BY <1>4, <2>1, Smallest
    <3> QED BY <2>2, <3>1, Zenon DEF Seqs!Min
  <2>4. m \in 1..Len(events) /\ events[m].time > time
    BY <2>3
  <2>5. \A i \in 1..m-1 : ~(events[i].time > time)
    BY <1>1, <2>3, <2>4
  <2>6. Due(events, time) = SubSeq(events, 1, m - 1)
    <3> HIDE DEF I
    <3> QED BY <1>2, <1>4, <2>2, <2>4
  <2> QED BY <1>1, <2>4, <2>5, <2>6
<1> QED BY <1>3, <1>4

LEMMA UndueIsBack ==
    ASSUME NEW S, NEW u \in Seq(S), NEW time
    PROVE  \E k \in 0..Len(u) :
              /\ Undue(u, time) = [i \in 1..k |-> u[Len(u) + 1 - i]]
              /\ Undue(u, time) \in Seq(S) /\ Len(Undue(u, time)) = k
              /\ \A i \in Len(u)-k+1..Len(u) : ~(time > u[i].event.time)
              /\ k < Len(u) => time > u[Len(u) - k].event.time
<1> DEFINE n == Len(u)
           b == [i \in 1..n |-> u[(n - i) + 1]]
           I == {i \in 1..Len(b) : time > b[i].event.time}
           d == IF (IF I # {} THEN Seqs!Min(I) ELSE 0) = 0 THEN Len(b)
                ELSE (IF I # {} THEN Seqs!Min(I) ELSE 0) - 1
<1>1. n \in Nat /\ b \in Seq(S) /\ Len(b) = n /\ \A i \in 1..n : u[i] \in S
  <2>1. n \in Nat /\ \A i \in 1..n : u[i] \in S
    BY LenProperties, ElementOfSeq
  <2>2. b \in [1..n -> S]
    BY <2>1
  <2> QED BY <2>1, <2>2
<1>2. Undue(u, time) = SubSeq(b, 1, d)
  BY DEF Undue, FrontRun, Seqs!SelectInSeq, Seqs!Reverse
<1>3. /\ d \in 0..n /\ \A i \in 1..d : ~(time > b[i].event.time)
      /\ d < n => time > b[d + 1].event.time
  <2>1. CASE I = {}
    <3>1. d = n
      BY <1>1, <2>1
    <3>2. \A i \in 1..n : ~(time > b[i].event.time)
      <4> HIDE DEF b
      <4> QED BY <1>1, <2>1
    <3> HIDE DEF d, b
    <3> QED BY <1>1, <3>1, <3>2
  <2>2. CASE I # {}
    <3>1. I \in SUBSET Nat
      BY <1>1
    <3>2. PICK m : m = Seqs!Min(I)
      OBVIOUS
    <3>3. m \in I /\ \A i \in I : m <= i
      <4> HIDE DEF I
      <4>1. \E x \in I : \A y \in I : x <= y
        BY <2>2, <3>1, Smallest
      <4> QED BY <3>2, <4>1, Zenon DEF Seqs!Min
    <3>4. m \in 1..n /\ time > b[m].event.time
      BY <1>1, <3>3
    <3>5. \A i \in 1..m-1 : ~(time > b[i].event.time)
      <4> SUFFICES ASSUME NEW i \in 1..m-1, time > b[i].event.time PROVE FALSE
        OBVIOUS
      <4> HIDE DEF b
      <4>1. i \in I
        BY <1>1, <3>4
      <4> QED BY <3>3, <3>4, <4>1
    <3>6. d = m - 1
      <4> HIDE DEF I
      <4> QED BY <2>2, <3>2, <3>4
    <3> HIDE DEF d, b
    <3> QED BY <1>1, <3>4, <3>5, <3>6
  <2> QED BY <2>1, <2>2
<1> HIDE DEF d
<1>4. /\ SubSeq(b, 1, d) \in Seq(S) /\ Len(SubSeq(b, 1, d)) = d
      /\ \A i \in 1..d : SubSeq(b, 1, d)[i] = b[i]
  <2> HIDE DEF b
  <2> QED BY <1>1, <1>3, Firsts
<1>5. SubSeq(b, 1, d) = [i \in 1..d |-> u[n + 1 - i]]
  <2>1. SubSeq(b, 1, d) = [i \in 1..d |-> SubSeq(b, 1, d)[i]]
    BY <1>4, LenProperties
  <2>2. \A i \in 1..d : b[i] = u[n + 1 - i]
    BY <1>1, <1>3
  <2> HIDE DEF b
  <2> QED BY <1>4, <2>1, <2>2
<1>6. \A i \in n-d+1..n : ~(time > u[i].event.time)
  <2> SUFFICES ASSUME NEW i \in n-d+1..n PROVE ~(time > u[i].event.time)
    OBVIOUS
  <2>1. n + 1 - i \in 1..d /\ b[n + 1 - i] = u[i]
    BY <1>1, <1>3
  <2> HIDE DEF b
  <2> QED BY <1>3, <2>1
<1>7. d < n => time > u[n - d].event.time
  <2>1. d < n => b[d + 1] = u[n - d]
    BY <1>1, <1>3
  <2> HIDE DEF b
  <2> QED BY <1>3, <2>1
<1> HIDE DEF b
<1> QED BY <1>2, <1>3, <1>4, <1>5, <1>6, <1>7

(* The operators of Tape as the charts and the log use them. *)
LEMMA SameTape ==
    /\ \A s, time : /\ Charts!Due(s, time) = Due(s, time)
                    /\ Log!Due(s, time) = Due(s, time)
                    /\ Charts!Undue(s, time) = Undue(s, time)
                    /\ Log!Undue(s, time) = Undue(s, time)
    /\ \A s, n : /\ Charts!Rest(s, n) = Rest(s, n) /\ Log!Rest(s, n) = Rest(s, n)
                 /\ Charts!Without(s, n) = Without(s, n) /\ Log!Without(s, n) = Without(s, n)
    /\ \A s : /\ Charts!Events(Charts!Seqs!Reverse(s)) = Events(Seqs!Reverse(s))
              /\ Log!Events(Log!Seqs!Reverse(s)) = Events(Seqs!Reverse(s))
<1>1. \A s, time : Charts!Due(s, time) = Due(s, time) /\ Log!Due(s, time) = Due(s, time)
  BY DEF Charts!Due, Log!Due, Due, Charts!FrontRun, Log!FrontRun, FrontRun,
         Charts!Seqs!SelectInSeq, Log!Seqs!SelectInSeq, Seqs!SelectInSeq,
         Charts!Seqs!Min, Log!Seqs!Min, Seqs!Min
<1>2. \A s, time : Charts!Undue(s, time) = Undue(s, time) /\ Log!Undue(s, time) = Undue(s, time)
  BY DEF Charts!Undue, Log!Undue, Undue, Charts!FrontRun, Log!FrontRun, FrontRun,
         Charts!Seqs!SelectInSeq, Log!Seqs!SelectInSeq, Seqs!SelectInSeq,
         Charts!Seqs!Min, Log!Seqs!Min, Seqs!Min,
         Charts!Seqs!Reverse, Log!Seqs!Reverse, Seqs!Reverse
<1>3. \A s, n : /\ Charts!Rest(s, n) = Rest(s, n) /\ Log!Rest(s, n) = Rest(s, n)
                /\ Charts!Without(s, n) = Without(s, n) /\ Log!Without(s, n) = Without(s, n)
  BY DEF Charts!Rest, Log!Rest, Rest, Charts!Without, Log!Without, Without
<1>4. \A s : /\ Charts!Events(Charts!Seqs!Reverse(s)) = Events(Seqs!Reverse(s))
             /\ Log!Events(Log!Seqs!Reverse(s)) = Events(Seqs!Reverse(s))
  BY DEF Charts!Events, Log!Events, Events, Charts!Seqs!Reverse, Log!Seqs!Reverse,
         Seqs!Reverse
<1> QED BY <1>1, <1>2, <1>3, <1>4

LEMMA EventsOf ==
    ASSUME NEW S, NEW U, NEW u \in Seq(U), \A x \in U : x.event \in S
    PROVE  /\ Events(u) \in Seq(S) /\ Len(Events(u)) = Len(u)
           /\ \A i \in 1..Len(u) : Events(u)[i] = u[i].event
<1>1. Len(u) \in Nat /\ DOMAIN u = 1..Len(u) /\ \A i \in 1..Len(u) : u[i] \in U
  BY LenProperties, ElementOfSeq
<1>2. Events(u) \in [1..Len(u) -> S]
  BY <1>1 DEF Events
<1>3. Events(u) \in Seq(S) /\ Len(Events(u)) = Len(u)
  BY <1>1, <1>2
<1> QED BY <1>1, <1>3 DEF Events

(* The events to come after d of them were handled. *)
LEMMA Advanced ==
    ASSUME NEW S, NEW e \in Seq(S), NEW d \in 0..Len(e)
    PROVE  /\ Rest(e, d) \in Seq(S) /\ Len(Rest(e, d)) = Len(e) - d
           /\ \A i \in 1..Len(e)-d : Rest(e, d)[i] = e[d + i]
           /\ SubSeq(e, 1, d) \o Rest(e, d) = e
<1>1. Len(e) \in Nat /\ \A i \in 1..Len(e) : e[i] \in S
  BY LenProperties, ElementOfSeq
<1>2. /\ SubSeq(e, d + 1, Len(e)) \in Seq(S) /\ Len(SubSeq(e, d + 1, Len(e))) = Len(e) - d
      /\ \A i \in 1..Len(e)-d : SubSeq(e, d + 1, Len(e))[i] = e[d + i]
  <2>1. d + 1 \in Int /\ Len(e) \in Int /\ \A i \in d+1..Len(e) : e[i] \in S
    BY <1>1
  <2> QED BY <1>1, <2>1, SubSeqProperties
<1>3. SubSeq(e, 1, d) \o SubSeq(e, d + 1, Len(e)) = SubSeq(e, 1, Len(e))
  <2>1. 1 \in 1..Len(e)+1 /\ d \in 1-1..Len(e) /\ Len(e) \in d..Len(e)
    BY <1>1
  <2> QED BY <2>1, ConcatAdjacentSubSeq
<1>4. SubSeq(e, 1, Len(e)) = e
  BY SubSeqFull
<1> QED BY <1>2, <1>3, <1>4 DEF Rest

(* The last k undo events in the order they are handled, their events in   *)
(* the order they come again, and the queues after that.                   *)
Undone(u, k) == [i \in 1..k |-> u[Len(u) + 1 - i]]
Back(u, k) == Events(Seqs!Reverse(Undone(u, k)))

LEMMA Returned ==
    ASSUME NEW S, NEW U, NEW u \in Seq(U), \A x \in U : x.event \in S, NEW k \in 0..Len(u)
    PROVE  /\ Back(u, k) \in Seq(S) /\ Len(Back(u, k)) = k
           /\ \A i \in 1..k : Back(u, k)[i] = u[Len(u) - k + i].event
<1> DEFINE n == Len(u)
<1>1. n \in Nat /\ DOMAIN u = 1..n /\ \A i \in 1..n : u[i] \in U
  BY LenProperties, ElementOfSeq
<1>2. Len(Undone(u, k)) = k
  <2>1. Undone(u, k) \in [1..k -> U]
    BY <1>1 DEF Undone
  <2> QED BY <1>1, <2>1
<1>3. Seqs!Reverse(Undone(u, k)) = [i \in 1..k |-> Undone(u, k)[k - i + 1]]
  BY <1>2 DEF Seqs!Reverse
<1>4. \A i \in 1..k : Undone(u, k)[k - i + 1] = u[n - k + i] /\ n - k + i \in 1..n
  BY <1>1 DEF Undone
<1>5. Back(u, k) = [i \in 1..k |-> u[n - k + i].event]
  BY <1>3, <1>4 DEF Back, Events
<1>6. Back(u, k) \in [1..k -> S]
  BY <1>1, <1>4, <1>5
<1> QED BY <1>1, <1>5, <1>6

IsRewound(S, U, u, e, k) ==
    /\ Without(u, k) \in Seq(U) /\ Len(Without(u, k)) = Len(u) - k
    /\ \A i \in 1..Len(u)-k : Without(u, k)[i] = u[i]
    /\ Events(Without(u, k)) = SubSeq(Events(u), 1, Len(u) - k)
    /\ Back(u, k) \o e \in Seq(S) /\ Len(Back(u, k) \o e) = k + Len(e)
    /\ \A i \in 1..k : (Back(u, k) \o e)[i] = u[Len(u) - k + i].event
    /\ \A i \in 1..Len(e) : (Back(u, k) \o e)[k + i] = e[i]
    /\ Events(Without(u, k)) \o (Back(u, k) \o e) = Events(u) \o e

LEMMA Rewound ==
    ASSUME NEW S, NEW U, NEW u \in Seq(U), \A x \in U : x.event \in S,
           NEW e \in Seq(S), NEW k \in 0..Len(u)
    PROVE  IsRewound(S, U, u, e, k)
<1> DEFINE n == Len(u)
           m == n - k
           r == Back(u, k)
           left == Without(u, k)
           E == Events(u)
           D == Events(left)
<1>1. n \in Nat /\ k \in Nat /\ m \in 0..n /\ m \in Nat /\ n = m + k /\ Len(e) \in Nat
  BY LenProperties
<1>2. r \in Seq(S) /\ Len(r) = k /\ \A i \in 1..k : r[i] = u[m + i].event
  BY Returned
<1>3. left \in Seq(U) /\ Len(left) = m /\ \A i \in 1..m : left[i] = u[i]
  <2>1. left = SubSeq(u, 1, m)
    BY DEF Without
  <2> HIDE DEF left, m
  <2> QED BY <1>1, <2>1, Firsts
<1>4. E \in Seq(S) /\ Len(E) = n /\ \A i \in 1..n : E[i] = u[i].event
  BY EventsOf, ZenonT(40)
<1> HIDE DEF left
<1>5. D \in Seq(S) /\ Len(D) = Len(left) /\ \A i \in 1..Len(left) : D[i] = left[i].event
  <2>1. left \in Seq(U)
    BY <1>3
  <2> QED BY <2>1, EventsOf, ZenonT(40)
<1> HIDE DEF r, m, E, D, n
<1>6. Len(D) = m /\ \A i \in 1..m : i \in 1..n /\ D[i] = E[i]
  <2>1. Len(D) = m
    BY <1>3, <1>5
  <2>2. \A i \in 1..m : i \in 1..n /\ i \in 1..Len(left)
    BY <1>1, <1>3
  <2> QED BY <1>3, <1>4, <1>5, <2>1, <2>2, Zenon
<1>7. D = SubSeq(E, 1, m)
  <2>1. /\ SubSeq(E, 1, m) \in Seq(S) /\ Len(SubSeq(E, 1, m)) = m
        /\ \A i \in 1..m : SubSeq(E, 1, m)[i] = E[i]
    BY <1>1, <1>4, Firsts
  <2> QED BY <1>5, <1>6, <2>1, SeqEqual
<1>8. /\ r \o e \in Seq(S) /\ Len(r \o e) = k + Len(e)
      /\ \A i \in 1..k+Len(e) : (r \o e)[i] = IF i <= k THEN r[i] ELSE e[i - k]
  BY <1>2, ConcatProperties
<1>9. /\ \A i \in 1..k : (r \o e)[i] = u[m + i].event
      /\ \A i \in 1..Len(e) : (r \o e)[k + i] = e[i]
  BY <1>1, <1>2, <1>8
<1>10. D \o (r \o e) = E \o e
  <2>1. D \o (r \o e) = (D \o r) \o e
    BY <1>2, <1>5, ConcatAssociative, SMTT(20)
  <2>2. D \o r = E
    <3>1. /\ D \o r \in Seq(S) /\ Len(D \o r) = m + k
          /\ \A i \in 1..m+k : (D \o r)[i] = IF i <= m THEN D[i] ELSE r[i - m]
      <4>1. D \in Seq(S) /\ r \in Seq(S)
        BY <1>2, <1>5
      <4>2. /\ D \o r \in Seq(S) /\ Len(D \o r) = Len(D) + Len(r)
            /\ \A i \in 1..Len(D)+Len(r) :
                  (D \o r)[i] = IF i <= Len(D) THEN D[i] ELSE r[i - Len(D)]
        BY <4>1, ConcatProperties, Zenon
      <4> QED BY <1>2, <1>6, <4>2
    <3>2. ASSUME NEW i \in 1..n PROVE (D \o r)[i] = E[i]
      <4>1. CASE i <= m
        BY <1>1, <1>6, <3>1, <4>1
      <4>2. CASE i > m
        <5>1. i - m \in 1..k /\ m + (i - m) = i
          BY <1>1, <4>2
        <5>2. r[i - m] = u[i].event
          BY <1>2, <5>1
        <5>3. i \in 1..m+k /\ ~(i <= m) /\ E[i] = u[i].event
          BY <1>1, <1>4, <4>2
        <5> QED BY <3>1, <5>2, <5>3, Zenon
      <4>3. i <= m \/ i > m
        BY <1>1
      <4> QED BY <4>1, <4>2, <4>3, Zenon
    <3> QED BY <1>1, <1>4, <3>1, <3>2, SeqEqual
  <2> QED BY <2>1, <2>2
<1> QED BY <1>3, <1>7, <1>8, <1>9, <1>10 DEF n, m, r, left, E, D, IsRewound

---------------------------------------------------------------------------
(* The inductive invariant: first the controls.                            *)

(* The slider shows a time, or what it was rounded up to. *)
IsRounded(time, shown, end) ==
    /\ time <= shown /\ shown <= end
    /\ \E unit \in Units : /\ shown < time + unit
                           /\ shown = time \/ shown = end \/ shown % unit = 0

Widgets == [currentTime : Int, maxTime : Nat, currentUnit : Units,
            playing : BOOLEAN, enabled : BOOLEAN]

ControlsInv ==
    /\ simulationTime \in Int /\ endTime \in Nat
    /\ loading \in BOOLEAN /\ correcting \in BOOLEAN
    /\ told \in Int /\ moment \in Int /\ apart \in BOOLEAN
    /\ playback \in Widgets /\ playMode \in {"Play", "Paused"} /\ ButtonShowsMode
    /\ ~correcting => simulationTime >= 0
    /\ playback.enabled => ~loading /\ playback.maxTime = endTime
    /\ ~playback.enabled => playback.maxTime = 0
    /\ ~playback.enabled /\ ~correcting => playback.currentTime = 0
    /\ playback.enabled =>
          IsRounded(Earlier(told, endTime), playback.currentTime, endTime)
    /\ ~apart => simulationTime = told /\ simulationTime = moment

(* Then the moment at which the two tapes are, while a scenario is shown:  *)
(* no series that moves on has been without a value for more than an       *)
(* interval when an event was applied.  So a time before the moment is too *)
(* early for a fake event, unless all that was applied is before it.       *)
InOrder(u, events) ==
    /\ \A i, j \in DOMAIN u : i < j => u[i].event.time <= u[j].event.time
    /\ \A i \in DOMAIN u, j \in DOMAIN events : u[i].event.time <= events[j].time
    /\ IsOrdered(events)

IsAt(u, events, time) ==
    /\ InOrder(u, events)
    /\ \A i \in DOMAIN u : u[i].event.time <= time
    /\ \A i \in DOMAIN events : time <= events[i].time

IsBefore(u, events) ==
    \A i \in DOMAIN u, j \in DOMAIN events : u[i].event.time < events[j].time

IsRecent(s, time) ==
    s.data # << >> => time - s.lastUpdatedTime <= AutoUpdateInterval

AreRecent(s, time) == \A id \in AutoUpdate \cap DOMAIN s : IsRecent(s[id], time)

UpToDate(s, u) == \A i \in DOMAIN u : AreRecent(s, u[i].event.time)

MomentInv == /\ IsAt(chartUndoEvents, chartEvents, moment)
             /\ IsAt(logUndoEvents, logEvents, moment)
             /\ IsBefore(chartUndoEvents, logEvents)
             /\ IsBefore(logUndoEvents, chartEvents)
             /\ UpToDate(series, chartUndoEvents)

(* The parser takes the interval from the file as it is.                   *)
IntervalIsNatural == AutoUpdateInterval \in Nat

(* Then the log: where it is on its tape ...                               *)
LogTapes == {<< >>} \cup {s.log : s \in Scenarios}

IsOnTape(tape, u, events, ids) ==
    /\ tape \in LogTapes
    /\ u \in Seq(Range(u)) /\ Len(u) \in 0..Len(tape)
    /\ \A i \in 1..Len(u) : u[i].event = tape[i]
    /\ events = Rest(tape, Len(u))
    /\ tape # << >> => ids = Streams

LogTapeInv ==
    /\ scenario = [charts |-> scenario.charts, log |-> scenario.log]
    /\ IsOnTape(scenario.log, logUndoEvents, logEvents, DOMAIN streams)

(* ... and what it shows after the first n messages of the tape, before    *)
(* which the last writer was w.                                            *)
PrintedBy(tape, n) == Printed(SubSeq(tape, 1, n))
Writer(tape, n, w) == IF n = 0 THEN w ELSE PrintedBy(tape, n).writer
Documents(tape, n, ids) == [id \in ids |-> Messages(SubSeq(tape, 1, n), id)]

LogUndo(tape, i, w) ==
    [event |-> tape[i],
     unifiedLogEraseCount |-> Len(PrintedBy(tape, i).text) - Len(PrintedBy(tape, i - 1).text),
     lastUnifiedWriter |-> Writer(tape, i - 1, w)]
LogUndos(tape, n, w) == [i \in 1..n |-> LogUndo(tape, i, w)]

IsShown(tape, u, documents, text, writer, w) ==
    /\ u = LogUndos(tape, Len(u), w)
    /\ documents = Documents(tape, Len(u), DOMAIN documents)
    /\ text = PrintedBy(tape, Len(u)).text
    /\ writer = Writer(tape, Len(u), w)

FirstWriter(u, writer) == IF u = << >> THEN writer ELSE u[1].lastUnifiedWriter

LogDocsInv == IsShown(scenario.log, logUndoEvents, streams, unified, lastUnifiedWriter,
                      FirstWriter(logUndoEvents, lastUnifiedWriter))

(* And the charts: what a series shows after the first i events of a tape, *)
(* and that the axes span the points of every event applied.               *)
AllIds == XYSeries \cup Seqs!ToSet(CategoryOrder) \cup DOMAIN Members
IndexedPoint == [t : Nat, x : Int, y : Int]
Axis == [lower : Int, upper : Int]
Series == [data : Seq(IndexedPoint), x : Axis, y : Axis, lastUpdatedTime : Int]
ChartUndo == [event : ChartEvent, range : [first : Nat, second : Nat],
              oldData : Seq(IndexedPoint)]

EventOn(ids) == {e \in ChartEvent : e.seriesId \in ids /\ FitsKind(e)}
Shown(tape, i, id) == Indexed(PointsApplied(SubSeq(tape, 1, i), id))

AxesSpan(s, id, p) ==
    /\ id \in HighestValue \cap XYSeries => Spans(s[id], p)
    /\ \A c \in Charts!InCollections(id) : c \in HighestValue => Spans(s[c], p)

ChartsShow(s, u) ==
    /\ s \in [DOMAIN s -> Series] /\ DOMAIN s \in {{}, AllIds}
    /\ u \in Seq(ChartUndo)
    /\ \A i \in DOMAIN u : u[i].event \in EventOn(DOMAIN s)
    /\ \A i \in DOMAIN u :
          LET e == u[i].event
          IN  /\ u[i] = Charts!Undo(e, Shown(Events(u), i - 1, e.seriesId),
                                       Shown(Events(u), i, e.seriesId))
              /\ \A j \in DOMAIN e.points : AxesSpan(s, e.seriesId, e.points[j])
    /\ \A id \in DOMAIN s : s[id].data = Shown(Events(u), Len(u), id)

(* The charts are on a tape, between what was applied and what is to come. *)
ChartsAt(tape, s, u, events) ==
    /\ ChartsShow(s, u)
    /\ events \in Seq(EventOn(DOMAIN s))
    /\ Real(Events(u) \o events) = tape

ChartsInv ==
    /\ ChartsAt(scenario.charts, series, chartUndoEvents, chartEvents)
    /\ ~playback.enabled => DOMAIN series = {}

Followed == LogTapeInv /\ ChartsInv /\ (IntervalIsNatural => MomentInv)

IInv == ControlsInv /\ Followed

---------------------------------------------------------------------------
(* The moment of a tape as the time goes forward and backward. *)

(* The d events that are due are handled, whatever follows them. *)
IsFront(e, d, time) == /\ d \in 0..Len(e)
                       /\ \A i \in 1..d : ~(e[i].time > time)
                       /\ d < Len(e) => e[d + 1].time > time

IsAdvanced(u, e, v, d, time) ==
    /\ Len(v) >= Len(u) + d
    /\ \A i \in 1..Len(u) : v[i].event = u[i].event
    /\ \A i \in 1..d : v[Len(u) + i].event = e[i]
    /\ \A i \in Len(u)+d+1..Len(v) : v[i].event.time = time

IsBack(u, k, time) == /\ k \in 0..Len(u)
                      /\ \A i \in Len(u)-k+1..Len(u) : ~(time > u[i].event.time)
                      /\ k < Len(u) => time > u[Len(u) - k].event.time

AllBy(u, time) == \A i \in DOMAIN u : u[i].event.time <= time
AllUntil(u, time) == \A i \in DOMAIN u : u[i].event.time < time
AllAfter(events, time) == \A i \in DOMAIN events : time < events[i].time
AllFrom(events, time) == \A i \in DOMAIN events : time <= events[i].time

LEMMA MomentAdvances ==
    ASSUME NEW S, NEW U, NEW u \in Seq(U), NEW e \in Seq(S), NEW V, NEW v \in Seq(V),
           \A x \in S : x.time \in Int,
           \A x \in U : x.event \in S, \A x \in V : x.event \in S,
           NEW now \in Int, IsAt(u, e, now),
           NEW time \in Int, now <= time,
           NEW d, IsFront(e, d, time), IsAdvanced(u, e, v, d, time)
    PROVE  IsAt(v, Rest(e, d), time) /\ AllBy(v, time) /\ AllAfter(Rest(e, d), time)
<1> SUFFICES ASSUME d \in 0..Len(e),
                    \A i \in 1..d : ~(e[i].time > time), d < Len(e) => e[d + 1].time > time,
                    Len(v) >= Len(u) + d, \A i \in 1..Len(u) : v[i].event = u[i].event,
                    \A i \in 1..d : v[Len(u) + i].event = e[i],
                    \A i \in Len(u)+d+1..Len(v) : v[i].event.time = time
             PROVE  IsAt(v, Rest(e, d), time) /\ AllBy(v, time)
                    /\ AllAfter(Rest(e, d), time)
  BY DEF IsFront, IsAdvanced
<1> DEFINE n == Len(u)
           r == Rest(e, d)
<1>1. /\ n \in Nat /\ DOMAIN u = 1..n /\ (\A i \in 1..n : u[i].event.time \in Int)
      /\ Len(e) \in Nat /\ DOMAIN e = 1..Len(e) /\ (\A i \in 1..Len(e) : e[i].time \in Int)
      /\ Len(v) \in Nat /\ DOMAIN v = 1..Len(v) /\ (\A i \in 1..Len(v) : v[i].event.time \in Int)
      /\ d \in Nat /\ d <= Len(e)
  BY LenProperties, ElementOfSeq
<1>2. DOMAIN r = 1..Len(e)-d /\ \A i \in 1..Len(e)-d : r[i] = e[d + i]
  BY Advanced, LenProperties
<1> HIDE DEF n, r
<1>3. /\ \A i, j \in 1..n : i < j => u[i].event.time <= u[j].event.time
      /\ \A i \in 1..n, j \in 1..Len(e) : u[i].event.time <= e[j].time
      /\ \A i, j \in 1..Len(e) : i < j => e[i].time <= e[j].time
      /\ \A i \in 1..n : u[i].event.time <= now
  BY <1>1 DEF IsAt, InOrder, IsOrdered
<1>4. ASSUME NEW i \in 1..Len(v)
      PROVE  \/ i \in 1..n /\ v[i].event = u[i].event
             \/ i - n \in 1..d /\ i - n \in 1..Len(e) /\ v[i].event = e[i - n]
             \/ i > n + d /\ v[i].event.time = time
  <2>1. CASE i <= n
    BY <1>1, <2>1 DEF n
  <2>2. CASE i > n /\ i <= n + d
    <3> DEFINE j == i - n
               l == Len(e)
    <3>1. j \in Int /\ l \in Nat /\ j > 0 /\ j <= d /\ d <= l /\ n + j = i
      BY <1>1, <2>2
    <3> HIDE DEF j, l
    <3>2. j \in 1..d /\ j \in 1..l
      BY <1>1, <3>1
    <3>3. v[n + j].event = e[j]
      BY <3>2 DEF n
    <3>4. v[i].event = e[j]
      BY <3>1, <3>3
    <3> QED BY <3>2, <3>4 DEF j, l
  <2>3. CASE i > n + d
    BY <1>1, <2>3 DEF n
  <2>4. i <= n \/ (i > n /\ i <= n + d) \/ i > n + d
    BY <1>1
  <2> QED BY <2>1, <2>2, <2>3, <2>4, Zenon
<1>5. AllBy(v, time)
  <2> SUFFICES ASSUME NEW i \in 1..Len(v) PROVE v[i].event.time <= time
    BY <1>1 DEF AllBy
  <2>1. CASE i \in 1..n /\ v[i].event = u[i].event
    BY <1>1, <1>3, <2>1
  <2>2. CASE i - n \in 1..d /\ i - n \in 1..Len(e) /\ v[i].event = e[i - n]
    BY <1>1, <2>2
  <2>3. CASE v[i].event.time = time
    BY <2>3
  <2> QED BY <1>4, <2>1, <2>2, <2>3
<1>6. AllAfter(r, time)
  <2> SUFFICES ASSUME NEW i \in 1..Len(e)-d PROVE time < e[d + i].time
    BY <1>2 DEF AllAfter
  <2>1. d + 1 \in 1..Len(e) /\ d + i \in 1..Len(e) /\ d < Len(e)
    BY <1>1
  <2>2. e[d + 1].time <= e[d + i].time
    <3>1. CASE i = 1
      BY <1>1, <2>1, <3>1
    <3>2. CASE i # 1
      <4>1. d + 1 < d + i
        BY <1>1, <3>2
      <4> QED BY <1>3, <2>1, <4>1
    <3> QED BY <3>1, <3>2
  <2> QED BY <1>1, <2>1, <2>2
<1>7. \A i, j \in 1..Len(v) : i < j => v[i].event.time <= v[j].event.time
  <2> SUFFICES ASSUME NEW i \in 1..Len(v), NEW j \in 1..Len(v), i < j
               PROVE  v[i].event.time <= v[j].event.time
    OBVIOUS
  <2>1. CASE j > n + d /\ v[j].event.time = time
    BY <1>1, <1>5, <2>1 DEF AllBy
  <2>2. CASE j \in 1..n /\ v[j].event = u[j].event
    <3>1. i \in 1..n /\ v[i].event = u[i].event
      BY <1>1, <1>4, <2>2
    <3> QED BY <1>3, <2>2, <3>1
  <2>3. CASE j - n \in 1..d /\ j - n \in 1..Len(e) /\ v[j].event = e[j - n]
    <3>1. CASE i \in 1..n /\ v[i].event = u[i].event
      BY <1>3, <2>3, <3>1
    <3>2. CASE i - n \in 1..d /\ i - n \in 1..Len(e) /\ v[i].event = e[i - n]
      <4>1. i - n < j - n
        BY <1>1
      <4> QED BY <1>3, <2>3, <3>2, <4>1
    <3>3. ~(i > n + d)
      BY <1>1, <2>3
    <3> QED BY <1>4, <3>1, <3>2, <3>3
  <2> QED BY <1>4, <2>1, <2>2, <2>3
<1>8. \A i \in 1..Len(v), j \in DOMAIN r : v[i].event.time <= r[j].time
  <2> SUFFICES ASSUME NEW i \in 1..Len(v), NEW j \in DOMAIN r
               PROVE  v[i].event.time <= r[j].time
    OBVIOUS
  <2>1. v[i].event.time <= time /\ time < r[j].time
    BY <1>1, <1>5, <1>6 DEF AllBy, AllAfter
  <2>2. v[i].event.time \in Int /\ r[j].time \in Int
    <3>1. d + j \in 1..Len(e)
      BY <1>1, <1>2
    <3> QED BY <1>1, <1>2, <3>1
  <2> QED BY <2>1, <2>2
<1>9. \A i, j \in DOMAIN r : i < j => r[i].time <= r[j].time
  <2> SUFFICES ASSUME NEW i \in DOMAIN r, NEW j \in DOMAIN r, i < j
               PROVE  r[i].time <= r[j].time
    OBVIOUS
  <2>1. d + i \in 1..Len(e) /\ d + j \in 1..Len(e) /\ d + i < d + j
    <3> DEFINE l == Len(e)
    <3>1. l \in Nat /\ d \in Nat /\ i \in 1..l-d /\ j \in 1..l-d
      BY <1>1, <1>2
    <3> HIDE DEF l
    <3> QED BY <3>1, SMTT(20) DEF l
  <2>2. r[i] = e[d + i] /\ r[j] = e[d + j]
    BY <1>2
  <2> QED BY <1>3, <2>1, <2>2
<1>10. \A i \in DOMAIN r : time <= r[i].time
  <2> SUFFICES ASSUME NEW i \in DOMAIN r PROVE time <= r[i].time
    OBVIOUS
  <2>1. r[i].time \in Int
    <3>1. d + i \in 1..Len(e)
      BY <1>1, <1>2
    <3> QED BY <1>1, <1>2, <3>1
  <2> QED BY <1>6, <2>1 DEF AllAfter
<1> QED BY <1>1, <1>5, <1>6, <1>7, <1>8, <1>9, <1>10 DEF IsAt, InOrder, IsOrdered, AllBy, r

LEMMA MomentRewinds ==
    ASSUME NEW S, NEW U, NEW u \in Seq(U), NEW e \in Seq(S),
           \A x \in S : x.time \in Int, \A x \in U : x.event \in S,
           NEW now \in Int, IsAt(u, e, now),
           NEW time \in Int, time <= now, NEW k \in 0..Len(u),
           \A i \in Len(u)-k+1..Len(u) : ~(time > u[i].event.time),
           k < Len(u) => time > u[Len(u) - k].event.time
    PROVE  /\ IsAt(Without(u, k), Back(u, k) \o e, time)
           /\ AllUntil(Without(u, k), time)
           /\ AllFrom(Back(u, k) \o e, time)
<1> DEFINE n == Len(u)
           m == n - k
           v == Without(u, k)
           b == Back(u, k) \o e
<1>1. /\ n \in Nat /\ k \in Nat /\ m \in Nat /\ n = m + k
      /\ DOMAIN u = 1..n /\ (\A i \in 1..n : u[i].event.time \in Int)
      /\ Len(e) \in Nat /\ DOMAIN e = 1..Len(e) /\ (\A i \in 1..Len(e) : e[i].time \in Int)
  BY LenProperties, ElementOfSeq
<1>2. /\ DOMAIN v = 1..m /\ (\A i \in 1..m : v[i] = u[i])
      /\ DOMAIN b = 1..k+Len(e) /\ (\A i \in 1..k : b[i] = u[m + i].event)
      /\ \A i \in 1..Len(e) : b[k + i] = e[i]
  <2>1. IsRewound(S, U, u, e, k)
    BY Rewound
  <2> QED BY <2>1, LenProperties DEF IsRewound
<1>3. /\ \A i \in m+1..n : ~(time > u[i].event.time)
      /\ k < n => time > u[m].event.time
  OBVIOUS
<1> HIDE DEF n, m, v, b
<1>4. /\ \A i, j \in 1..n : i < j => u[i].event.time <= u[j].event.time
      /\ \A i \in 1..n, j \in 1..Len(e) : u[i].event.time <= e[j].time
      /\ \A i, j \in 1..Len(e) : i < j => e[i].time <= e[j].time
      /\ \A i \in 1..Len(e) : now <= e[i].time
  BY <1>1 DEF IsAt, InOrder, IsOrdered
<1>5. \A i \in 1..m : i \in 1..n
  BY <1>1
<1>6. ASSUME NEW i \in 1..k+Len(e)
      PROVE  \/ i \in 1..k /\ m + i \in 1..n /\ m + i \in m+1..n /\ b[i] = u[m + i].event
             \/ i > k /\ i - k \in 1..Len(e) /\ b[i] = e[i - k]
  <2>1. CASE i <= k
    <3>1. i \in 1..k /\ m + i \in 1..n /\ m + i \in m+1..n
      BY <1>1, <2>1
    <3> QED BY <1>2, <3>1
  <2>2. CASE i > k
    <3>1. i - k \in 1..Len(e) /\ k + (i - k) = i
      BY <1>1, <2>2
    <3> QED BY <1>2, <2>2, <3>1
  <2>3. i <= k \/ i > k
    BY <1>1
  <2> QED BY <2>1, <2>2, <2>3, Zenon
<1>7. AllUntil(v, time)
  <2> SUFFICES ASSUME NEW i \in 1..m PROVE u[i].event.time < time
    BY <1>2 DEF AllUntil
  <2>1. m \in 1..n /\ i \in 1..n /\ k < n
    BY <1>1
  <2>2. u[i].event.time <= u[m].event.time
    <3>1. CASE i = m
      BY <1>1, <2>1, <3>1
    <3>2. CASE i # m
      <4>1. i < m
        BY <1>1, <3>2
      <4> QED BY <1>4, <2>1, <4>1
    <3> QED BY <3>1, <3>2
  <2>3. /\ u[m].event.time < time
        /\ u[i].event.time \in Int /\ u[m].event.time \in Int
    <3>1. time > u[m].event.time
      BY <1>3, <2>1
    <3> QED BY <1>1, <2>1, <3>1
  <2> QED BY <2>2, <2>3
<1>8. AllFrom(b, time)
  <2> SUFFICES ASSUME NEW i \in 1..k+Len(e) PROVE time <= b[i].time
    BY <1>2 DEF AllFrom
  <2>1. CASE m + i \in 1..n /\ m + i \in m+1..n /\ b[i] = u[m + i].event
    BY <1>1, <1>3, <2>1
  <2>2. CASE i - k \in 1..Len(e) /\ b[i] = e[i - k]
    <3>1. now <= e[i - k].time /\ e[i - k].time \in Int
      BY <1>1, <1>4, <2>2
    <3> QED BY <2>2, <3>1
  <2> QED BY <1>6, <2>1, <2>2
<1>9. \A i, j \in 1..m : i < j => v[i].event.time <= v[j].event.time
  BY <1>2, <1>4, <1>5
<1>10. \A i \in 1..m, j \in 1..k+Len(e) : v[i].event.time <= b[j].time
  <2> SUFFICES ASSUME NEW i \in 1..m, NEW j \in 1..k+Len(e)
               PROVE  u[i].event.time <= b[j].time
    BY <1>2
  <2>1. CASE m + j \in 1..n /\ m + j \in m+1..n /\ b[j] = u[m + j].event
    <3>1. i < m + j /\ i \in 1..n
      BY <1>1, <2>1
    <3> QED BY <1>4, <2>1, <3>1
  <2>2. CASE j - k \in 1..Len(e) /\ b[j] = e[j - k]
    BY <1>4, <1>5, <2>2
  <2> QED BY <1>6, <2>1, <2>2
<1>11. \A i, j \in 1..k+Len(e) : i < j => b[i].time <= b[j].time
  <2> SUFFICES ASSUME NEW i \in 1..k+Len(e), NEW j \in 1..k+Len(e), i < j
               PROVE  b[i].time <= b[j].time
    OBVIOUS
  <2>1. CASE m + i \in 1..n /\ b[i] = u[m + i].event
    <3>1. CASE m + j \in 1..n /\ b[j] = u[m + j].event
      <4>1. m + i < m + j
        BY <1>1
      <4> QED BY <1>4, <2>1, <3>1, <4>1
    <3>2. CASE j - k \in 1..Len(e) /\ b[j] = e[j - k]
      BY <1>4, <2>1, <3>2
    <3> QED BY <1>6, <3>1, <3>2
  <2>2. CASE i > k /\ i - k \in 1..Len(e) /\ b[i] = e[i - k]
    <3>1. ~(j \in 1..k) /\ i - k < j - k
      BY <1>1, <2>2
    <3>2. j - k \in 1..Len(e) /\ b[j] = e[j - k]
      BY <1>6, <3>1
    <3> QED BY <1>4, <2>2, <3>1, <3>2
  <2> QED BY <1>6, <2>1, <2>2
<1>12. \A i \in 1..m : v[i].event.time <= time
  <2> SUFFICES ASSUME NEW i \in 1..m PROVE v[i].event.time <= time
    OBVIOUS
  <2>1. v[i].event.time < time /\ v[i].event.time \in Int
    BY <1>1, <1>2, <1>5, <1>7 DEF AllUntil
  <2> QED BY <2>1
<1> QED BY <1>2, <1>7, <1>8, <1>9, <1>10, <1>11, <1>12
        DEF IsAt, InOrder, IsOrdered, AllFrom, v, b

---------------------------------------------------------------------------
(* The log: printing a message adds to the document, and what it adds      *)
(* depends on the document and on who wrote last.                          *)

Logs(C, W) == [text : Seq(C), writer : W, characterTotal : Int]

Extends(C, a, b) == \E t \in Seq(C) : /\ b.text = a.text \o t
                                      /\ b.characterTotal = a.characterTotal + Len(t)

Alike(a, b) == a.text = b.text /\ (a.text = << >> \/ a.writer = b.writer)

LEMMA ExtendsItself ==
    ASSUME NEW C, NEW W, NEW a \in Logs(C, W)
    PROVE  Extends(C, a, a)
<1>1. a.text \in Seq(C) /\ a.characterTotal \in Int
  BY DEF Logs
<1>2. << >> \in Seq(C) /\ Len(<< >>) = 0 /\ a.text \o << >> = a.text
  BY <1>1, ConcatEmptySeq
<1>3. a.characterTotal = a.characterTotal + Len(<< >>)
  BY <1>1, <1>2
<1> QED BY <1>2, <1>3 DEF Extends

LEMMA ExtendsFurther ==
    ASSUME NEW C, NEW W, NEW a \in Logs(C, W), NEW b \in Logs(C, W), NEW c \in Logs(C, W),
           Extends(C, a, b), Extends(C, b, c)
    PROVE  Extends(C, a, c)
<1>1. PICK t \in Seq(C) : /\ b.text = a.text \o t
                          /\ b.characterTotal = a.characterTotal + Len(t)
  BY DEF Extends
<1>2. PICK u \in Seq(C) : /\ c.text = b.text \o u
                          /\ c.characterTotal = b.characterTotal + Len(u)
  BY DEF Extends
<1>3. a.text \in Seq(C) /\ a.characterTotal \in Int
  BY DEF Logs
<1>4. t \o u \in Seq(C) /\ Len(t \o u) = Len(t) + Len(u)
  BY ConcatProperties
<1>5. c.text = a.text \o (t \o u)
  <2> DEFINE x == a.text
  <2>1. x \in Seq(C)
    BY <1>3
  <2> HIDE DEF x
  <2>2. (x \o t) \o u = x \o (t \o u)
    BY <2>1, ConcatAssociative
  <2> QED BY <1>1, <1>2, <2>2 DEF x
<1>6. c.characterTotal = a.characterTotal + Len(t \o u)
  <2>1. Len(t) \in Nat /\ Len(u) \in Nat
    BY LenProperties
  <2> QED BY <1>1, <1>2, <1>3, <1>4, <2>1
<1> QED BY <1>4, <1>5, <1>6 DEF Extends

LEMMA InsertExtends ==
    ASSUME NEW C, NEW W, NEW a \in Logs(C, W), NEW t \in Seq(C)
    PROVE  /\ Log!Insert(a, t) \in Logs(C, W) /\ Extends(C, a, Log!Insert(a, t))
           /\ Log!Insert(a, t).text = a.text \o t
<1>1. a.text \in Seq(C) /\ a.characterTotal \in Int /\ Len(t) \in Nat
  BY LenProperties DEF Logs
<1>2. a.text \o t \in Seq(C) /\ a.characterTotal + Len(t) \in Int
  BY <1>1, ConcatProperties
<1>3. Log!Insert(a, t) \in Logs(C, W)
  BY <1>2 DEF Logs, Log!Insert
<1>4. /\ Log!Insert(a, t).text = a.text \o t
      /\ Log!Insert(a, t).characterTotal = a.characterTotal + Len(t)
  BY DEF Logs, Log!Insert
<1> QED BY <1>3, <1>4 DEF Extends

LEMMA PrintLineExtends ==
    ASSUME NEW C, NEW W, NewLine \in C, NEW id \in W, Log!Prompt(id) \in C,
           NEW a \in Logs(C, W), NEW value \in Seq(C)
    PROVE  /\ Log!PrintLine(a, id, value) \in Logs(C, W)
           /\ Extends(C, a, Log!PrintLine(a, id, value))
           /\ Log!PrintLine(a, id, value).writer = id
<1> DEFINE broken == IF id # a.writer /\ ~Log!AtBlockStart(a.text)
                     THEN Log!Insert(a, <<NewLine>>) ELSE a
           prompted == IF Log!AtBlockStart(broken.text)
                       THEN Log!Insert(broken, <<Log!Prompt(id)>>) ELSE broken
           line == Log!Insert(prompted, value)
<1>1. broken \in Logs(C, W) /\ Extends(C, a, broken)
  <2>1. <<NewLine>> \in Seq(C)
    OBVIOUS
  <2> QED BY <2>1, InsertExtends, ExtendsItself
<1>2. prompted \in Logs(C, W) /\ Extends(C, a, prompted)
  <2> HIDE DEF broken
  <2>1. <<Log!Prompt(id)>> \in Seq(C)
    OBVIOUS
  <2>2. prompted \in Logs(C, W) /\ Extends(C, broken, prompted)
    BY <1>1, <2>1, InsertExtends, ExtendsItself
  <2> HIDE DEF prompted
  <2> QED BY <1>1, <2>2, ExtendsFurther
<1> HIDE DEF prompted
<1>3. line \in Logs(C, W) /\ Extends(C, a, line)
  <2>1. line \in Logs(C, W) /\ Extends(C, prompted, line)
    BY <1>2, InsertExtends
  <2> HIDE DEF line
  <2> QED BY <1>2, <2>1, ExtendsFurther
<1>4. Log!PrintLine(a, id, value) = [line EXCEPT !.writer = id]
  BY DEF Log!PrintLine, prompted
<1> HIDE DEF line
<1>5. /\ [line EXCEPT !.writer = id] \in Logs(C, W)
      /\ [line EXCEPT !.writer = id].text = line.text
      /\ [line EXCEPT !.writer = id].characterTotal = line.characterTotal
      /\ [line EXCEPT !.writer = id].writer = id
  BY <1>3 DEF Logs
<1> QED BY <1>3, <1>4, <1>5 DEF Extends

LEMMA PrintLineAlike ==
    ASSUME NEW C, NEW W, NewLine \in C, NEW id \in W, Log!Prompt(id) \in C,
           NEW a \in Logs(C, W), NEW b \in Logs(C, W), Alike(a, b), NEW value \in Seq(C)
    PROVE  Log!PrintLine(a, id, value).text = Log!PrintLine(b, id, value).text
<1> DEFINE Breaks(l) == id # l.writer /\ ~Log!AtBlockStart(l.text)
           Broken(l) == IF Breaks(l) THEN Log!Insert(l, <<NewLine>>) ELSE l
           Prompted(l) == IF Log!AtBlockStart(Broken(l).text)
                          THEN Log!Insert(Broken(l), <<Log!Prompt(id)>>) ELSE Broken(l)
           Line(l) == Log!Insert(Prompted(l), value)
<1>1. \A l : Log!PrintLine(l, id, value) = [Line(l) EXCEPT !.writer = id]
  BY DEF Log!PrintLine
<1>2. a.text = b.text /\ (Breaks(a) <=> Breaks(b))
  BY DEF Alike, Log!AtBlockStart
<1>3. ASSUME NEW l \in Logs(C, W)
      PROVE  /\ Broken(l) \in Logs(C, W)
             /\ Broken(l).text = IF Breaks(l) THEN l.text \o <<NewLine>> ELSE l.text
  <2>1. <<NewLine>> \in Seq(C)
    OBVIOUS
  <2> HIDE DEF Breaks
  <2> QED BY <2>1, InsertExtends
<1> HIDE DEF Breaks, Broken
<1>4. Broken(a).text = Broken(b).text
  BY <1>2, <1>3
<1>5. ASSUME NEW l \in Logs(C, W)
      PROVE  /\ Prompted(l) \in Logs(C, W)
             /\ Prompted(l).text = IF Log!AtBlockStart(Broken(l).text)
                                   THEN Broken(l).text \o <<Log!Prompt(id)>>
                                   ELSE Broken(l).text
  <2>1. <<Log!Prompt(id)>> \in Seq(C)
    OBVIOUS
  <2> QED BY <1>3, <2>1, InsertExtends
<1> HIDE DEF Prompted
<1>6. Prompted(a).text = Prompted(b).text
  BY <1>4, <1>5
<1>7. ASSUME NEW l \in Logs(C, W)
      PROVE  Log!PrintLine(l, id, value).text = Prompted(l).text \o value
  <2>1. Line(l) \in Logs(C, W) /\ Line(l).text = Prompted(l).text \o value
    BY <1>5, InsertExtends
  <2> HIDE DEF Line
  <2>2. [Line(l) EXCEPT !.writer = id].text = Line(l).text
    BY <2>1 DEF Logs
  <2> QED BY <1>1, <2>1, <2>2
<1> QED BY <1>6, <1>7

LEMMA LinesOfText ==
    ASSUME NEW C, NEW value \in Seq(C)
    PROVE  Log!Lines(value) \in Seq(Seq(C))
<1> DEFINE n == Len(value)
           T == [i \in 0..n |-> {acc \in Seq(Seq(C)) : Len(acc) > 0}]
<1>1. n \in Nat /\ DOMAIN value = 1..n /\ \A i \in 1..n : value[i] \in C
  BY LenProperties, ElementOfSeq
<1>2. Leads(Loop("split", 0), << << >> >>, value, n, Log!Lines(value))
  BY <1>1, LinesLead
<1>3. << << >> >> \in T[0]
  <2>1. 0 \in 0..n
    BY <1>1
  <2>2. << >> \in Seq(C)
    OBVIOUS
  <2>3. << << >> >> \in Seq(Seq(C)) /\ Len(<< << >> >>) = 1
    BY <2>2
  <2> QED BY <2>1, <2>3
<1>4. ASSUME NEW i \in 0..n-1, NEW acc \in T[i]
      PROVE  Body(Loop("split", 0), acc, value[i + 1]) \in T[i + 1]
  <2>1. i \in 0..n /\ i + 1 \in 0..n /\ value[i + 1] \in C
    BY <1>1
  <2>2. acc \in Seq(Seq(C)) /\ Len(acc) \in Nat /\ Len(acc) > 0
    BY <2>1, LenProperties
  <2> DEFINE c == value[i + 1]
             last == Len(acc)
  <2>3. << >> \in Seq(C) /\ acc[last] \in Seq(C)
    BY <2>2, ElementOfSeq
  <2>4. Append(acc[last], c) \in Seq(C)
    BY <2>1, <2>3, AppendProperties
  <2>5. Append(acc, << >>) \in Seq(Seq(C)) /\ Len(Append(acc, << >>)) > 0
    BY <2>2, <2>3, AppendProperties
  <2>6. /\ [acc EXCEPT ![last] = Append(acc[last], c)] \in Seq(Seq(C))
        /\ Len([acc EXCEPT ![last] = Append(acc[last], c)]) = Len(acc)
    BY <2>2, <2>4, ExceptSeq
  <2>7. Body(Loop("split", 0), acc, c) =
           IF c = NewLine THEN Append(acc, << >>)
           ELSE [acc EXCEPT ![last] = Append(acc[last], c)]
    BY DEF Body, Loop
  <2> HIDE DEF c, last
  <2>8. Body(Loop("split", 0), acc, c) \in {s \in Seq(Seq(C)) : Len(s) > 0}
    BY <2>2, <2>5, <2>6, <2>7
  <2> QED BY <2>1, <2>8 DEF c
<1>5. Log!Lines(value) \in T[n]
  <2> HIDE DEF n, T
  <2> QED BY <1>1, <1>2, <1>3, <1>4, LeadsInduction
<1> QED BY <1>1, <1>5

LEMMA PrintLinesNext ==
    ASSUME NEW S, NEW s \in Seq(S), NEW e \in S, NEW a, NEW id
    PROVE  PrintLines(a, id, Append(s, e)) =
               Log!PrintLine(PrintLines(a, id, s), id, Append(e, NewLine))
<1>1. /\ Len(s) \in Nat /\ DOMAIN s = 1..Len(s)
      /\ Len(s) + 1 \in Nat /\ DOMAIN Append(s, e) = 1..Len(s)+1
  BY Appended, LenProperties
<1>2. Leads(Loop("line", id), a, s, Len(s), PrintLines(a, id, s))
  BY <1>1, PrintLinesLead, Zenon
<1>3. Leads(Loop("line", id), a, Append(s, e), Len(s) + 1, PrintLines(a, id, Append(s, e)))
  BY <1>1, PrintLinesLead, Zenon
<1>4. PrintLines(a, id, Append(s, e)) = Body(Loop("line", id), PrintLines(a, id, s), e)
  BY <1>2, <1>3, LeadsNext, Zenon
<1> QED BY <1>4 DEF Body, Loop

LEMMA PrintLinesExtends ==
    ASSUME NEW C, NEW W, NewLine \in C, NEW id \in W, Log!Prompt(id) \in C,
           NEW a \in Logs(C, W), NEW lines \in Seq(Seq(C))
    PROVE  /\ PrintLines(a, id, lines) \in Logs(C, W)
           /\ Extends(C, a, PrintLines(a, id, lines))
           /\ lines # << >> => PrintLines(a, id, lines).writer = id
<1> DEFINE n == Len(lines)
           T == [i \in 0..n |-> {r \in Logs(C, W) : /\ Extends(C, a, r)
                                                    /\ i > 0 => r.writer = id}]
<1>1. n \in Nat /\ DOMAIN lines = 1..n /\ (\A i \in 1..n : lines[i] \in Seq(C))
      /\ (lines # << >> => n > 0)
  BY LenProperties, ElementOfSeq, EmptySeq
<1>2. Leads(Loop("line", id), a, lines, n, PrintLines(a, id, lines))
  BY <1>1, PrintLinesLead
<1>3. a \in T[0]
  <2>1. 0 \in 0..n /\ ~(0 > 0)
    BY <1>1
  <2> QED BY <2>1, ExtendsItself
<1>4. ASSUME NEW i \in 0..n-1, NEW r \in T[i]
      PROVE  Body(Loop("line", id), r, lines[i + 1]) \in T[i + 1]
  <2>1. i \in 0..n /\ i + 1 \in 0..n /\ lines[i + 1] \in Seq(C) /\ i + 1 > 0
    BY <1>1
  <2>2. r \in Logs(C, W) /\ Extends(C, a, r)
    BY <2>1
  <2> DEFINE line == Append(lines[i + 1], NewLine)
             q == Log!PrintLine(r, id, line)
  <2>3. line \in Seq(C)
    BY <2>1, AppendProperties
  <2>4. Body(Loop("line", id), r, lines[i + 1]) = q
    BY DEF Body, Loop
  <2> HIDE DEF line
  <2>5. q \in Logs(C, W) /\ Extends(C, r, q) /\ q.writer = id
    BY <2>2, <2>3, PrintLineExtends
  <2> HIDE DEF q
  <2>6. Extends(C, a, q)
    BY <2>2, <2>5, ExtendsFurther
  <2> QED BY <2>1, <2>4, <2>5, <2>6
<1>5. PrintLines(a, id, lines) \in T[n]
  <2> HIDE DEF n, T
  <2> QED BY <1>1, <1>2, <1>3, <1>4, LeadsInduction
<1> QED BY <1>1, <1>5

LEMMA PrintLinesAlike ==
    ASSUME NEW C, NEW W, NewLine \in C, NEW id \in W, Log!Prompt(id) \in C,
           NEW a \in Logs(C, W), NEW b \in Logs(C, W), Alike(a, b),
           NEW lines \in Seq(Seq(C))
    PROVE  PrintLines(a, id, lines).text = PrintLines(b, id, lines).text
<1> DEFINE n == Len(lines)
           First(i) == SubSeq(lines, 1, i)
           T == [i \in 0..n |-> {r \in Logs(C, W) : Alike(r, PrintLines(b, id, First(i)))}]
<1>1. n \in Nat /\ DOMAIN lines = 1..n /\ \A i \in 1..n : lines[i] \in Seq(C)
  BY LenProperties, ElementOfSeq
<1>2. Leads(Loop("line", id), a, lines, n, PrintLines(a, id, lines))
  BY <1>1, PrintLinesLead
<1>3. a \in T[0]
  <2>1. 0 \in 0..n /\ First(0) = << >>
    BY <1>1
  <2>2. DOMAIN << >> = 1..0 /\ 0 \in Nat
    OBVIOUS
  <2>3. PrintLines(b, id, << >>) = b
    BY <2>2, PrintLinesLead, LeadsNowhere
  <2> QED BY <2>1, <2>3
<1>4. ASSUME NEW i \in 0..n-1, NEW r \in T[i]
      PROVE  Body(Loop("line", id), r, lines[i + 1]) \in T[i + 1]
  <2>1. i \in 0..n /\ i + 1 \in 0..n /\ lines[i + 1] \in Seq(C)
    BY <1>1
  <2>2. r \in Logs(C, W) /\ Alike(r, PrintLines(b, id, First(i)))
    BY <2>1
  <2> DEFINE line == Append(lines[i + 1], NewLine)
             before == PrintLines(b, id, First(i))
             after == PrintLines(b, id, First(i + 1))
             q == Log!PrintLine(r, id, line)
  <2>3. line \in Seq(C)
    BY <2>1, AppendProperties
  <2>4. Body(Loop("line", id), r, lines[i + 1]) = q
    BY DEF Body, Loop
  <2>5. First(i) \in Seq(Seq(C)) /\ First(i + 1) = Append(First(i), lines[i + 1])
    BY <1>1, <2>1, Firsts
  <2> HIDE DEF First
  <2>6. before \in Logs(C, W)
    BY <2>5, PrintLinesExtends
  <2>7. after = Log!PrintLine(before, id, line)
    BY <2>1, <2>5, PrintLinesNext
  <2> HIDE DEF before, after, line
  <2>8. /\ q \in Logs(C, W) /\ q.writer = id
        /\ Log!PrintLine(before, id, line).writer = id
        /\ q.text = Log!PrintLine(before, id, line).text
    BY <2>2, <2>3, <2>6, PrintLineExtends, PrintLineAlike DEF before
  <2>9. Alike(q, after)
    BY <2>7, <2>8 DEF Alike
  <2> HIDE DEF q
  <2> QED BY <2>1, <2>4, <2>8, <2>9 DEF after
<1>5. PrintLines(a, id, lines) \in T[n]
  <2> HIDE DEF n, T
  <2> QED BY <1>1, <1>2, <1>3, <1>4, LeadsInduction
<1>6. First(n) = lines /\ n \in 0..n
  BY <1>1, Firsts
<1> QED BY <1>5, <1>6 DEF Alike

LEMMA PrintExtends ==
    ASSUME NEW C, NEW W, NewLine \in C, NEW id \in W, Log!Prompt(id) \in C,
           NEW a \in Logs(C, W), NEW value \in Seq(C)
    PROVE  /\ Log!PrintToUnifiedLog(a, id, value) \in Logs(C, W)
           /\ Extends(C, a, Log!PrintToUnifiedLog(a, id, value))
           /\ Log!PrintToUnifiedLog(a, id, value).writer = id
<1> DEFINE lines == Log!Lines(value)
<1>1. lines \in Seq(Seq(C))
  BY LinesOfText
<1>2. Log!PrintToUnifiedLog(a, id, value) = IF Len(lines) > 2
                                            THEN PrintLines(a, id, lines)
                                            ELSE Log!PrintLine(a, id, value)
  BY DEF Log!PrintToUnifiedLog, PrintLines
<1>3. Len(lines) > 2 => lines # << >>
  BY <1>1
<1> HIDE DEF lines
<1> QED BY <1>1, <1>2, <1>3, PrintLinesExtends, PrintLineExtends

LEMMA PrintAlike ==
    ASSUME NEW C, NEW W, NewLine \in C, NEW id \in W, Log!Prompt(id) \in C,
           NEW a \in Logs(C, W), NEW b \in Logs(C, W), Alike(a, b), NEW value \in Seq(C)
    PROVE  Log!PrintToUnifiedLog(a, id, value).text = Log!PrintToUnifiedLog(b, id, value).text
<1> DEFINE lines == Log!Lines(value)
<1>1. lines \in Seq(Seq(C))
  BY LinesOfText
<1>2. \A l : Log!PrintToUnifiedLog(l, id, value) = IF Len(lines) > 2
                                                   THEN PrintLines(l, id, lines)
                                                   ELSE Log!PrintLine(l, id, value)
  BY DEF Log!PrintToUnifiedLog, PrintLines
<1> HIDE DEF lines
<1> QED BY <1>1, <1>2, PrintLinesAlike, PrintLineAlike

---------------------------------------------------------------------------
(* The log goes along its tape, whatever it shows. *)

LEMMA LogTape ==
    ASSUME NEW tape \in LogTapes
    PROVE  /\ tape \in Seq(Range(tape)) /\ IsOrdered(tape)
           /\ \A e \in Range(tape) : /\ e.time \in Nat /\ e.streamId \in Streams
                                     /\ e.value \in Seq(Range(e.value))
<1>1. CASE tape = << >>
  BY <1>1 DEF Range, IsOrdered
<1>2. CASE tape # << >>
  <2>1. PICK s \in Scenarios : tape = s.log
    BY <1>2 DEF LogTapes
  <2>2. \A t : Seqs!ToSet(t) = Range(t)
    BY DEF Seqs!ToSet, Range
  <2>3. /\ s.log \in Seq(Seqs!ToSet(s.log)) /\ IsOrdered(s.log)
        /\ \A i \in DOMAIN s.log :
              /\ s.log[i].time \in Nat /\ s.log[i].streamId \in Streams
              /\ s.log[i].value \in Seq(Seqs!ToSet(s.log[i].value))
    BY ScenariosAssumption
  <2>4. \A e \in Range(s.log) : \E i \in DOMAIN s.log : e = s.log[i]
    BY DEF Range
  <2> QED BY <2>1, <2>2, <2>3, <2>4
<1> QED BY <1>1, <1>2

IsTapeAdvanced(tape, u, e, d, s) ==
    /\ IsOnTape(tape, s.undo, Rest(e, d), DOMAIN s.streams)
    /\ Len(s.undo) = Len(u) + d
    /\ \A i \in 1..d : s.undo[Len(u) + i].event = e[i]
    /\ \A i \in 1..Len(u) : s.undo[i].event = u[i].event

LEMMA LogTapeAdvances ==
    ASSUME NEW tape, NEW u, NEW e, NEW documents, NEW log,
           IsOnTape(tape, u, e, DOMAIN documents), NEW d \in 0..Len(e),
           NEW s, s = HandleMessages([streams |-> documents, undo |-> u, log |-> log],
                                     SubSeq(e, 1, d))
    PROVE  IsTapeAdvanced(tape, u, e, d, s)
<1> DEFINE n == Len(u)
           b == [streams |-> documents, undo |-> u, log |-> log]
           due == SubSeq(e, 1, d)
           P(a, i) == /\ DOMAIN a.streams = DOMAIN documents
                      /\ a.undo \in Seq(Range(a.undo)) /\ Len(a.undo) = n + i
                      /\ \A j \in 1..n+i : a.undo[j].event = tape[j]
<1>1. /\ tape \in LogTapes /\ tape \in Seq(Range(tape)) /\ Len(tape) \in Nat
      /\ u \in Seq(Range(u)) /\ n \in 0..Len(tape) /\ n \in Nat
      /\ \A i \in 1..n : u[i].event = tape[i]
      /\ e = Rest(tape, n) /\ (tape # << >> => DOMAIN documents = Streams)
  <2>1. tape \in LogTapes
    BY DEF IsOnTape
  <2> QED BY <2>1, LogTape, LenProperties DEF IsOnTape
<1>2. /\ e \in Seq(Range(tape)) /\ Len(e) = Len(tape) - n
      /\ \A i \in 1..Len(tape)-n : e[i] = tape[n + i]
  BY <1>1, Advanced
<1>3. d \in Nat /\ DOMAIN due = 1..d /\ \A i \in 1..d : due[i] = tape[n + i]
  <2>1. due \in Seq(Range(tape)) /\ Len(due) = d /\ \A i \in 1..d : due[i] = e[i]
    BY <1>2, Firsts
  <2>2. \A i \in 1..d : i \in 1..Len(tape)-n
    BY <1>1, <1>2
  <2> QED BY <1>1, <1>2, <2>1, <2>2, LenProperties
<1>4. PICK run : /\ run[0] = b /\ run[d] = s
                 /\ \A i \in 0..d-1 : run[i + 1] = Body(Loop("message", 0), run[i], due[i + 1])
  <2>1. Leads(Loop("message", 0), b, due, d, s)
    <3> HIDE DEF b, due
    <3> QED BY <1>3, HandleMessagesLead DEF b, due
  <2> QED BY <2>1 DEF Leads
<1>5. P(run[0], 0)
  BY <1>1, <1>4
<1>6. ASSUME NEW i \in 0..d-1, P(run[i], i) PROVE P(run[i + 1], i + 1)
  <2> DEFINE a == run[i]
             m == due[i + 1]
  <2>1. i + 1 \in 1..d /\ i \in Nat /\ n + i + 1 \in 1..Len(tape) /\ n + i \in Nat
    BY <1>1, <1>2, <1>3
  <2>2. m = tape[n + i + 1] /\ m \in Range(tape) /\ tape # << >>
    <3>1. tape[n + i + 1] \in Range(tape) /\ tape # << >>
      BY <1>1, <2>1, LenProperties DEF Range
    <3> QED BY <1>1, <1>3, <2>1, <3>1
  <2>3. m.streamId \in DOMAIN a.streams
    BY <1>1, <1>6, <2>2, LogTape
  <2>4. run[i + 1] = Log!HandleEvent(a, m)
    BY <1>4 DEF Body, Loop
  <2> HIDE DEF m, a
  <2> DEFINE printed == Log!PrintToUnifiedLog([a.log EXCEPT !.characterTotal = 0],
                                              m.streamId, m.value)
             x == [event |-> m, unifiedLogEraseCount |-> printed.characterTotal,
                   lastUnifiedWriter |-> a.log.writer]
  <2>5. run[i + 1] = [streams |-> [a.streams EXCEPT ![m.streamId] = @ \o m.value],
                      log |-> printed, undo |-> Append(a.undo, x)]
    BY <2>3, <2>4 DEF Log!HandleEvent
  <2>6. x.event = m
    OBVIOUS
  <2> HIDE DEF printed, x
  <2>7. /\ run[i + 1].undo = Append(a.undo, x)
        /\ DOMAIN run[i + 1].streams = DOMAIN documents
    BY <1>6, <2>5 DEF a
  <2> DEFINE A == Range(a.undo) \cup {x}
  <2>8. a.undo \in Seq(A) /\ x \in A
    BY <1>6, SeqMonotonic DEF a
  <2>9. /\ Append(a.undo, x) \in Seq(A) /\ Len(Append(a.undo, x)) = n + i + 1
        /\ \A j \in 1..n+i : Append(a.undo, x)[j] = a.undo[j]
        /\ Append(a.undo, x)[n + i + 1] = x
    <3> DEFINE y == a.undo
    <3>1. y \in Seq(A) /\ Len(y) = n + i
      BY <1>6, <2>8 DEF a
    <3> HIDE DEF A, y
    <3>2. /\ Append(y, x) \in Seq(A) /\ Len(Append(y, x)) = Len(y) + 1
          /\ \A j \in 1..Len(y) : Append(y, x)[j] = y[j]
          /\ Append(y, x)[Len(y) + 1] = x
      BY <2>8, <3>1, Appended
    <3> QED BY <3>1, <3>2 DEF y
  <2>10. Append(a.undo, x) \in Seq(Range(Append(a.undo, x)))
    BY <2>9, SeqOfRange
  <2>11. \A j \in 1..n+(i+1) : Append(a.undo, x)[j].event = tape[j]
    <3> SUFFICES ASSUME NEW j \in 1..n+(i+1) PROVE Append(a.undo, x)[j].event = tape[j]
      OBVIOUS
    <3>1. j \in 1..n+i \/ j = n + i + 1
      BY <2>1
    <3> QED BY <1>6, <2>2, <2>6, <2>9, <3>1 DEF a
  <2>12. n + i + 1 = n + (i + 1)
    BY <2>1
  <2> QED BY <2>7, <2>9, <2>10, <2>11, <2>12
<1>7. P(s, d)
  <2> DEFINE T == [i \in 0..d |-> {a \in {run[i]} : P(a, i)}]
  <2>1. run[0] \in T[0]
    BY <1>3, <1>5
  <2>2. \A i \in 0..d-1 : run[i] \in T[i] => run[i + 1] \in T[i + 1]
    <3> SUFFICES ASSUME NEW i \in 0..d-1, run[i] \in T[i] PROVE run[i + 1] \in T[i + 1]
      OBVIOUS
    <3>1. i \in 0..d /\ i + 1 \in 0..d
      OBVIOUS
    <3> HIDE DEF P
    <3> QED BY <1>6, <3>1
  <2>3. d \in 0..d
    BY <1>3
  <2>4. run[d] \in T[d]
    <3> HIDE DEF T, P
    <3> QED BY <1>3, <2>1, <2>2, <2>3, RunInduction
  <2> HIDE DEF P
  <2> QED BY <1>4, <2>3, <2>4
<1>8. Rest(e, d) = Rest(tape, n + d) /\ n + d \in 0..Len(tape)
  <2>1. n + d \in 0..Len(tape) /\ Len(tape) - n - d = Len(tape) - (n + d)
    BY <1>1, <1>2
  <2>2. /\ Rest(e, d) \in Seq(Range(tape)) /\ Len(Rest(e, d)) = Len(tape) - n - d
        /\ \A i \in 1..Len(tape)-n-d : Rest(e, d)[i] = e[d + i]
    <3>1. /\ Rest(e, d) \in Seq(Range(tape)) /\ Len(Rest(e, d)) = Len(e) - d
          /\ \A i \in 1..Len(e)-d : Rest(e, d)[i] = e[d + i]
      BY <1>2, Advanced, ZenonT(40)
    <3> QED BY <1>2, <3>1
  <2>3. /\ Rest(tape, n + d) \in Seq(Range(tape))
        /\ Len(Rest(tape, n + d)) = Len(tape) - (n + d)
        /\ \A i \in 1..Len(tape)-(n+d) : Rest(tape, n + d)[i] = tape[(n + d) + i]
    BY <1>1, <2>1, Advanced
  <2>4. ASSUME NEW i \in 1..Len(tape)-n-d PROVE Rest(e, d)[i] = Rest(tape, n + d)[i]
    <3>1. /\ d + i \in 1..Len(tape)-n /\ n + (d + i) = (n + d) + i
          /\ i \in 1..Len(tape)-(n+d)
      BY <1>1, <1>3
    <3> QED BY <1>2, <2>2, <2>3, <3>1
  <2> QED BY <2>1, <2>2, <2>3, <2>4, SeqEqual
<1>9. \A i \in 1..d : s.undo[n + i].event = e[i]
  <2> SUFFICES ASSUME NEW i \in 1..d PROVE s.undo[n + i].event = e[i]
    OBVIOUS
  <2>1. n + i \in 1..n+d /\ i \in 1..Len(tape)-n
    BY <1>1, <1>2
  <2> QED BY <1>2, <1>7, <2>1
<1>10. \A i \in 1..n : s.undo[i].event = u[i].event
  <2>1. \A i \in 1..n : i \in 1..n+d
    BY <1>1, <1>3
  <2> QED BY <1>1, <1>7, <2>1
<1>11. IsOnTape(tape, s.undo, Rest(e, d), DOMAIN s.streams)
  BY <1>1, <1>7, <1>8 DEF IsOnTape
<1>12. Len(s.undo) = n + d
  BY <1>7
<1> QED BY <1>9, <1>10, <1>11, <1>12 DEF IsTapeAdvanced

LEMMA LogTapeRewinds ==
    ASSUME NEW tape, NEW u, NEW e, NEW documents, NEW log,
           IsOnTape(tape, u, e, DOMAIN documents), NEW k \in 0..Len(u),
           NEW s, s = UndoMessages([streams |-> documents, undo |-> u, log |-> log],
                                   Undone(u, k))
    PROVE  IsOnTape(tape, Without(u, k), Back(u, k) \o e, DOMAIN s.streams)
<1> DEFINE n == Len(u)
           b == [streams |-> documents, undo |-> u, log |-> log]
           S == Range(tape)
           left == Without(u, k)
           back == Back(u, k) \o e
<1>1. /\ tape \in LogTapes /\ tape \in Seq(S) /\ Len(tape) \in Nat
      /\ u \in Seq(Range(u)) /\ n \in 0..Len(tape) /\ n \in Nat
      /\ \A i \in 1..n : u[i].event = tape[i]
      /\ e = Rest(tape, n) /\ (tape # << >> => DOMAIN documents = Streams)
  <2>1. tape \in LogTapes
    BY DEF IsOnTape
  <2> QED BY <2>1, LogTape, LenProperties DEF IsOnTape
<1>2. /\ e \in Seq(S) /\ Len(e) = Len(tape) - n
      /\ \A i \in 1..Len(tape)-n : e[i] = tape[n + i]
  BY <1>1, Advanced
<1>3. \A x \in Range(u) : x.event \in S
  <2>1. \A i \in 1..n : u[i].event \in S
    BY <1>1, ElementOfSeq
  <2>2. DOMAIN u = 1..n
    BY <1>1, LenProperties
  <2> QED BY <2>1, <2>2 DEF Range
<1>4. /\ left \in Seq(Range(u)) /\ Len(left) = n - k
      /\ \A i \in 1..n-k : left[i] = u[i]
      /\ back \in Seq(S) /\ Len(back) = k + Len(e)
      /\ \A i \in 1..k : back[i] = u[n - k + i].event
      /\ \A i \in 1..Len(e) : back[k + i] = e[i]
  <2> HIDE DEF S
  <2>1. u \in Seq(Range(u)) /\ e \in Seq(S)
    BY <1>1, <1>2
  <2>2. IsRewound(S, Range(u), u, e, k)
    BY <1>3, <2>1, Rewound
  <2> QED BY <2>2 DEF IsRewound
<1> HIDE DEF S, left, back
<1>5. left \in Seq(Range(left))
  BY <1>4, SeqOfRange
<1>6. n - k \in 0..Len(tape) /\ k \in Nat
  BY <1>1
<1>7. \A i \in 1..n-k : left[i].event = tape[i]
  <2>1. \A i \in 1..n-k : i \in 1..n
    BY <1>1
  <2> QED BY <1>1, <1>4, <2>1
<1>8. back = Rest(tape, n - k)
  <2>1. /\ Rest(tape, n - k) \in Seq(S) /\ Len(Rest(tape, n - k)) = Len(tape) - (n - k)
        /\ \A i \in 1..Len(tape)-(n-k) : Rest(tape, n - k)[i] = tape[(n - k) + i]
    BY <1>1, <1>6, Advanced, Zenon
  <2>2. Len(back) = Len(tape) - (n - k)
    BY <1>1, <1>2, <1>4, <1>6
  <2>3. ASSUME NEW i \in 1..Len(tape)-(n-k) PROVE back[i] = tape[(n - k) + i]
    <3>1. CASE i <= k
      <4>1. i \in 1..k /\ n - k + i \in 1..n
        BY <1>1, <1>6, <3>1
      <4> QED BY <1>1, <1>4, <4>1
    <3>2. CASE i > k
      <4>1. i - k \in 1..Len(e) /\ i - k \in 1..Len(tape)-n /\ k + (i - k) = i
            /\ n + (i - k) = (n - k) + i
        BY <1>1, <1>2, <1>6, <3>2
      <4> QED BY <1>2, <1>4, <4>1
    <3>3. i <= k \/ i > k
      BY <1>6
    <3> QED BY <3>1, <3>2, <3>3, Zenon
  <2> QED BY <1>4, <2>1, <2>2, <2>3, SeqEqual
<1>9. DOMAIN s.streams = DOMAIN documents
  <2> DEFINE P(a) == DOMAIN a = {"streams", "undo", "log"}
                     /\ DOMAIN a.streams = DOMAIN documents
             q == Undone(u, k)
  <2>1. DOMAIN q = 1..k
    BY DEF Undone
  <2>2. Leads(Loop("undo message", 0), b, q, k, s)
    <3> HIDE DEF b, q
    <3> QED BY <1>6, <2>1, UndoMessagesLead DEF b, q
  <2>3. PICK run :
          /\ run[0] = b /\ run[k] = s
          /\ \A i \in 0..k-1 : run[i + 1] = Body(Loop("undo message", 0), run[i], q[i + 1])
    BY <2>2 DEF Leads
  <2>4. P(run[0])
    <3>1. DOMAIN b = {"streams", "undo", "log"} /\ b.streams = documents
      OBVIOUS
    <3> HIDE DEF b
    <3> QED BY <2>3, <3>1
  <2>5. ASSUME NEW i \in 0..k-1, P(run[i]) PROVE P(run[i + 1])
    <3>1. run[i + 1] = Log!HandleUndo(run[i], q[i + 1])
      BY <2>3 DEF Body, Loop
    <3> QED BY <2>5, <3>1 DEF Log!HandleUndo
  <2> DEFINE T == [i \in 0..k |-> {a \in {run[i]} : P(a)}]
  <2>6. run[0] \in T[0]
    <3>1. 0 \in 0..k
      BY <1>6
    <3> HIDE DEF P
    <3> QED BY <2>4, <3>1
  <2>7. \A i \in 0..k-1 : run[i] \in T[i] => run[i + 1] \in T[i + 1]
    <3> SUFFICES ASSUME NEW i \in 0..k-1, run[i] \in T[i] PROVE run[i + 1] \in T[i + 1]
      OBVIOUS
    <3>1. i \in 0..k /\ i + 1 \in 0..k
      OBVIOUS
    <3> HIDE DEF P
    <3> QED BY <2>5, <3>1
  <2>8. k \in 0..k
    BY <1>6
  <2>9. run[k] \in T[k]
    <3> HIDE DEF T, P
    <3> QED BY <1>6, <2>6, <2>7, <2>8, RunInduction
  <2> QED BY <2>3, <2>8, <2>9
<1> QED BY <1>1, <1>4, <1>5, <1>6, <1>7, <1>8, <1>9 DEF IsOnTape, left, back

---------------------------------------------------------------------------
(* What the log shows at each point of its tape. *)

Chars(tape) == (UNION {Range(e.value) : e \in Range(tape)})
               \cup {NewLine} \cup {Log!Prompt(id) : id \in Streams}
Writers(w) == Streams \cup {NoStream, w}

LEMMA Message ==
    ASSUME NEW tape \in LogTapes, NEW i \in 1..Len(tape)
    PROVE  /\ tape[i].streamId \in Streams /\ tape[i].value \in Seq(Chars(tape))
           /\ Log!Prompt(tape[i].streamId) \in Chars(tape) /\ NewLine \in Chars(tape)
<1>1. tape \in Seq(Range(tape)) /\ tape[i] \in Range(tape)
  BY LogTape, ElementOfSeq
<1>2. tape[i].streamId \in Streams /\ tape[i].value \in Seq(Range(tape[i].value))
  BY <1>1, LogTape
<1>3. Range(tape[i].value) \subseteq Chars(tape)
  <2> DEFINE R == {Range(e.value) : e \in Range(tape)}
  <2>1. Range(tape[i].value) \in R
    BY <1>1
  <2>2. Range(tape[i].value) \subseteq UNION R
    <3> HIDE DEF R
    <3> QED BY <2>1
  <2> QED BY <2>2 DEF Chars
<1>4. tape[i].value \in Seq(Chars(tape))
  BY <1>2, <1>3, SeqMonotonic
<1>5. Log!Prompt(tape[i].streamId) \in Chars(tape) /\ NewLine \in Chars(tape)
  <2>1. Log!Prompt(tape[i].streamId) \in {Log!Prompt(id) : id \in Streams}
    BY <1>2
  <2>2. NewLine \in {NewLine}
    OBVIOUS
  <2> QED BY <2>1, <2>2, Zenon DEF Chars
<1> QED BY <1>2, <1>4, <1>5

LEMMA PrintedOn ==
    ASSUME NEW tape \in LogTapes, NEW i \in 0..Len(tape)-1
    PROVE  PrintedBy(tape, i + 1) =
               Log!PrintToUnifiedLog(PrintedBy(tape, i), tape[i + 1].streamId,
                                     tape[i + 1].value)
<1>1. tape \in Seq(Range(tape)) /\ Len(tape) \in Nat
  BY LogTape, LenProperties
<1>2. i \in 0..Len(tape) /\ i < Len(tape) /\ tape[i + 1] \in Range(tape)
  <2>1. i + 1 \in 1..Len(tape)
    BY <1>1
  <2> QED BY <1>1, <2>1, ElementOfSeq
<1>3. /\ SubSeq(tape, 1, i) \in Seq(Range(tape))
      /\ SubSeq(tape, 1, i + 1) = Append(SubSeq(tape, 1, i), tape[i + 1])
  BY <1>1, <1>2, Firsts
<1>4. Printed(Append(SubSeq(tape, 1, i), tape[i + 1])) =
         Log!PrintToUnifiedLog(Printed(SubSeq(tape, 1, i)), tape[i + 1].streamId,
                               tape[i + 1].value)
  BY <1>2, <1>3, PrintedNext
<1> QED BY <1>3, <1>4 DEF PrintedBy

LEMMA PrintedIsLog ==
    ASSUME NEW tape \in LogTapes, NEW w, NEW n \in 0..Len(tape)
    PROVE  PrintedBy(tape, n) \in Logs(Chars(tape), Writers(w))
<1> DEFINE C == Chars(tape)
           W == Writers(w)
           P == {i \in Nat : i <= Len(tape) => PrintedBy(tape, i) \in Logs(C, W)}
<1>1. Len(tape) \in Nat
  BY LogTape, LenProperties
<1>2. PrintedBy(tape, 0) \in Logs(C, W)
  <2>1. PrintedBy(tape, 0) = NothingPrinted
    <3>1. SubSeq(tape, 1, 0) = << >>
      BY SubSeqEmpty
    <3> QED BY <3>1, NoHistory DEF PrintedBy
  <2>2. NothingPrinted \in Logs(C, W)
    BY DEF NothingPrinted, Logs, Writers
  <2> QED BY <2>1, <2>2
<1>3. ASSUME NEW i \in Nat, i \in P PROVE i + 1 \in P
  <2> SUFFICES ASSUME i + 1 <= Len(tape) PROVE PrintedBy(tape, i + 1) \in Logs(C, W)
    OBVIOUS
  <2>1. i \in 0..Len(tape)-1 /\ i + 1 \in 1..Len(tape)
    BY <1>1
  <2>2. PrintedBy(tape, i) \in Logs(C, W)
    BY <1>3, <2>1
  <2> DEFINE id == tape[i + 1].streamId
  <2>3. /\ id \in Streams /\ tape[i + 1].value \in Seq(C)
        /\ Log!Prompt(id) \in C /\ NewLine \in C
    BY <2>1, Message
  <2>4. id \in W
    BY <2>3 DEF Writers
  <2>5. PrintedBy(tape, i + 1) = Log!PrintToUnifiedLog(PrintedBy(tape, i), id,
                                                       tape[i + 1].value)
    BY <2>1, PrintedOn
  <2> HIDE DEF C, W, id
  <2> QED BY <2>2, <2>3, <2>4, <2>5, PrintExtends
<1>4. n \in P
  <2>1. 0 \in P
    BY <1>2
  <2> HIDE DEF P
  <2> QED BY <1>1, <1>3, <2>1, Induction
<1> QED BY <1>4

(* One more message adds to the document, under the name of its stream.    *)
LEMMA PrintedMore ==
    ASSUME NEW tape \in LogTapes, NEW i \in 0..Len(tape)-1
    PROVE  /\ Extends(Chars(tape), PrintedBy(tape, i), PrintedBy(tape, i + 1))
           /\ PrintedBy(tape, i + 1).writer = tape[i + 1].streamId
<1> DEFINE C == Chars(tape)
           W == Writers(NoStream)
           id == tape[i + 1].streamId
<1>1. Len(tape) \in Nat /\ i \in 0..Len(tape) /\ i + 1 \in 1..Len(tape)
  BY LogTape, LenProperties
<1>2. PrintedBy(tape, i) \in Logs(C, W)
  BY <1>1, PrintedIsLog
<1>3. /\ id \in Streams /\ tape[i + 1].value \in Seq(C)
      /\ Log!Prompt(id) \in C /\ NewLine \in C
  BY <1>1, Message
<1>4. id \in W
  BY <1>3 DEF Writers
<1>5. PrintedBy(tape, i + 1) = Log!PrintToUnifiedLog(PrintedBy(tape, i), id,
                                                     tape[i + 1].value)
  BY PrintedOn
<1> HIDE DEF C, W, id
<1>6. /\ Extends(C, PrintedBy(tape, i), PrintedBy(tape, i + 1))
      /\ PrintedBy(tape, i + 1).writer = id
  BY <1>2, <1>3, <1>4, <1>5, PrintExtends
<1> QED BY <1>6 DEF C, id

LEMMA MessagesOn ==
    ASSUME NEW tape \in LogTapes, NEW i \in 0..Len(tape)-1, NEW id
    PROVE  Messages(SubSeq(tape, 1, i + 1), id) =
               IF tape[i + 1].streamId = id
               THEN Messages(SubSeq(tape, 1, i), id) \o tape[i + 1].value
               ELSE Messages(SubSeq(tape, 1, i), id)
<1>1. tape \in Seq(Range(tape)) /\ Len(tape) \in Nat
  BY LogTape, LenProperties
<1>2. i \in 0..Len(tape) /\ i < Len(tape) /\ tape[i + 1] \in Range(tape)
  <2>1. i + 1 \in 1..Len(tape)
    BY <1>1
  <2> QED BY <1>1, <2>1, ElementOfSeq
<1>3. /\ SubSeq(tape, 1, i) \in Seq(Range(tape))
      /\ SubSeq(tape, 1, i + 1) = Append(SubSeq(tape, 1, i), tape[i + 1])
  BY <1>1, <1>2, Firsts
<1> DEFINE s == SubSeq(tape, 1, i)
           e == tape[i + 1]
<1>4. Messages(Append(s, e), id) =
          IF e.streamId = id THEN Messages(s, id) \o e.value ELSE Messages(s, id)
  <2> HIDE DEF s, e
  <2> QED BY <1>2, <1>3, MessagesNext DEF s, e
<1> QED BY <1>3, <1>4

LEMMA MessagesAreText ==
    ASSUME NEW tape \in LogTapes, NEW n \in 0..Len(tape), NEW id
    PROVE  Messages(SubSeq(tape, 1, n), id) \in Seq(Chars(tape))
<1> DEFINE C == Chars(tape)
           M(i) == Messages(SubSeq(tape, 1, i), id)
           P == {i \in Nat : i <= Len(tape) => M(i) \in Seq(C)}
<1>1. Len(tape) \in Nat
  BY LogTape, LenProperties
<1>2. 0 \in P
  <2>1. SubSeq(tape, 1, 0) = << >>
    BY SubSeqEmpty
  <2>2. M(0) = << >>
    BY <2>1, NoHistory
  <2>3. << >> \in Seq(C)
    OBVIOUS
  <2> HIDE DEF M
  <2> QED BY <2>2, <2>3
<1>3. ASSUME NEW i \in Nat, i \in P PROVE i + 1 \in P
  <2> SUFFICES ASSUME i + 1 <= Len(tape) PROVE M(i + 1) \in Seq(C)
    OBVIOUS
  <2>1. i \in 0..Len(tape)-1 /\ i + 1 \in 1..Len(tape)
    BY <1>1
  <2>2. M(i) \in Seq(C)
    BY <1>3, <2>1
  <2>3. tape[i + 1].value \in Seq(C)
    BY <2>1, Message
  <2>4. M(i + 1) = IF tape[i + 1].streamId = id THEN M(i) \o tape[i + 1].value ELSE M(i)
    BY <2>1, MessagesOn
  <2> HIDE DEF M, C
  <2> QED BY <2>2, <2>3, <2>4, ConcatProperties
<1>4. n \in P
  <2> HIDE DEF P
  <2> QED BY <1>1, <1>2, <1>3, Induction
<1> QED BY <1>4

(* A message is read back as it was written: std::string::size counts its  *)
(* characters only if none of them takes two bytes.                        *)
NarrowMessages ==
    \A s \in Scenarios : \A i \in DOMAIN s.log : \A j \in DOMAIN s.log[i].value :
        s.log[i].value[j] \notin WideCharacters

(* The states of the loops over messages at point i of the tape, with the  *)
(* undo events of the first k messages.                                    *)
LogStates(tape, w, i, k) ==
    {s \in [streams : {Documents(tape, i, Streams)},
            log : Logs(Chars(tape), Writers(w)),
            undo : {LogUndos(tape, k, w)}] :
        s.log.text = PrintedBy(tape, i).text /\ s.log.writer = Writer(tape, i, w)}

LEMMA UndoSequence ==
    ASSUME NEW tape, NEW w, NEW k \in Nat
    PROVE  /\ Len(LogUndos(tape, k, w)) = k
           /\ \A i \in 1..k : LogUndos(tape, k, w)[i] = LogUndo(tape, i, w)
           /\ LogUndos(tape, k, w) \in Seq({LogUndo(tape, i, w) : i \in 1..k})
           /\ LogUndos(tape, k + 1, w) = Append(LogUndos(tape, k, w), LogUndo(tape, k + 1, w))
<1> DEFINE S == {LogUndo(tape, i, w) : i \in 1..k+1}
<1>1. ASSUME NEW m \in Nat
      PROVE  /\ Len(LogUndos(tape, m, w)) = m
             /\ \A i \in 1..m : LogUndos(tape, m, w)[i] = LogUndo(tape, i, w)
             /\ LogUndos(tape, m, w) \in Seq({LogUndo(tape, i, w) : i \in 1..m})
  <2> DEFINE R == {LogUndo(tape, i, w) : i \in 1..m}
  <2>1. LogUndos(tape, m, w) \in [1..m -> R]
    BY DEF LogUndos
  <2> HIDE DEF R
  <2>2. LogUndos(tape, m, w) \in Seq(R) /\ Len(LogUndos(tape, m, w)) = m
    BY <2>1
  <2> QED BY <2>2 DEF R, LogUndos
<1>2. k + 1 \in Nat /\ \A i \in 1..k : i \in 1..k+1
  OBVIOUS
<1>3. LogUndos(tape, k, w) \in Seq(S) /\ LogUndos(tape, k + 1, w) \in Seq(S)
      /\ LogUndo(tape, k + 1, w) \in S
  <2>1. {LogUndo(tape, i, w) : i \in 1..k} \subseteq S /\ LogUndo(tape, k + 1, w) \in S
    BY <1>2
  <2> HIDE DEF S
  <2>2. LogUndos(tape, k, w) \in Seq(S)
    BY <1>1, <2>1, SeqMonotonic
  <2>3. LogUndos(tape, k + 1, w) \in Seq(S)
    BY <1>1, <1>2 DEF S
  <2> QED BY <2>1, <2>2, <2>3
<1> HIDE DEF S
<1> DEFINE a == LogUndos(tape, k, w)
           b == LogUndos(tape, k + 1, w)
           x == LogUndo(tape, k + 1, w)
<1>4. /\ Len(a) = k /\ (\A i \in 1..k : a[i] = LogUndo(tape, i, w))
      /\ Len(b) = k + 1 /\ (\A i \in 1..k+1 : b[i] = LogUndo(tape, i, w))
  BY <1>1, <1>2
<1>5. b = Append(a, x)
  <2>1. a \in Seq(S) /\ b \in Seq(S) /\ x \in S
    BY <1>3
  <2>2. b[k + 1] = x
    BY <1>4
  <2> HIDE DEF a, b, x
  <2>3. /\ Append(a, x) \in Seq(S) /\ Len(Append(a, x)) = k + 1
        /\ \A i \in 1..k : Append(a, x)[i] = a[i]
        /\ Append(a, x)[k + 1] = x
    BY <1>4, <2>1, AppendProperties
  <2>4. ASSUME NEW i \in 1..k+1 PROVE b[i] = Append(a, x)[i]
    <3>1. i \in 1..k \/ i = k + 1
      OBVIOUS
    <3> QED BY <1>2, <1>4, <2>2, <2>3, <3>1
  <2> QED BY <1>4, <2>1, <2>3, <2>4, SeqEqual
<1> QED BY <1>1, <1>5

LEMMA HandleMessage ==
    ASSUME NEW tape \in LogTapes, NEW w, NEW i \in 0..Len(tape)-1,
           NEW s \in LogStates(tape, w, i, i)
    PROVE  Log!HandleEvent(s, tape[i + 1]) \in LogStates(tape, w, i + 1, i + 1)
<1> DEFINE C == Chars(tape)
           W == Writers(w)
           e == tape[i + 1]
           id == e.streamId
           p == PrintedBy(tape, i)
           q == PrintedBy(tape, i + 1)
           a == [s.log EXCEPT !.characterTotal = 0]
           r == Log!PrintToUnifiedLog(a, id, e.value)
<1>1. Len(tape) \in Nat /\ i \in Nat /\ i \in 0..Len(tape) /\ i + 1 \in 1..Len(tape)
      /\ i + 1 \in 0..Len(tape)
  BY LogTape, LenProperties
<1>2. /\ id \in Streams /\ id \in W /\ e.value \in Seq(C)
      /\ Log!Prompt(id) \in C /\ NewLine \in C
  BY <1>1, Message DEF Writers
<1>3. p \in Logs(C, W) /\ q \in Logs(C, W)
  BY <1>1, PrintedIsLog
<1>4. /\ s.streams = Documents(tape, i, Streams) /\ s.undo = LogUndos(tape, i, w)
      /\ s.log \in Logs(C, W) /\ s.log.text = p.text /\ s.log.writer = Writer(tape, i, w)
  BY DEF LogStates
<1>5. q = Log!PrintToUnifiedLog(p, id, e.value)
  BY PrintedOn
<1>6. Extends(C, p, q) /\ q.writer = id
  BY PrintedMore
<1> HIDE DEF C, W, e, id, p, q
<1>7. /\ a \in Logs(C, W) /\ a.text = p.text /\ a.writer = s.log.writer
      /\ a.characterTotal = 0
  BY <1>4 DEF Logs
<1> HIDE DEF a
<1>8. Alike(a, p)
  <2>1. CASE i = 0
    <3>1. SubSeq(tape, 1, 0) = << >>
      BY SubSeqEmpty
    <3>2. p = Printed(<< >>)
      BY <2>1, <3>1 DEF p, PrintedBy
    <3>3. p = NothingPrinted
      BY <3>2, NoHistory
    <3>4. p.text = << >>
      BY <3>3 DEF NothingPrinted
    <3> QED BY <1>7, <3>4 DEF Alike
  <2>2. CASE i # 0
    BY <1>4, <1>7, <2>2 DEF Alike, Writer, p
  <2> QED BY <2>1, <2>2
<1>9. r \in Logs(C, W) /\ r.writer = id /\ r.text = q.text /\ Extends(C, a, r)
  BY <1>2, <1>3, <1>5, <1>7, <1>8, PrintExtends, PrintAlike
<1> HIDE DEF r
<1>10. r.characterTotal = Len(q.text) - Len(p.text)
  <2>1. PICK t \in Seq(C) : r.text = a.text \o t
                            /\ r.characterTotal = a.characterTotal + Len(t)
    BY <1>9 DEF Extends
  <2>2. p.text \in Seq(C)
    BY <1>3 DEF Logs
  <2>3. q.text = p.text \o t
    BY <1>7, <1>9, <2>1
  <2> DEFINE x == p.text
             y == q.text
  <2>4. x \in Seq(C) /\ y = x \o t
    BY <2>2, <2>3
  <2> HIDE DEF x, y
  <2>5. Len(y) = Len(x) + Len(t) /\ Len(x) \in Nat /\ Len(t) \in Nat
    BY <2>4, ConcatProperties, LenProperties
  <2>6. r.characterTotal = 0 + Len(t)
    BY <1>7, <2>1
  <2> QED BY <2>5, <2>6 DEF x, y
<1>11. Writer(tape, i + 1, w) = id
  BY <1>1, <1>6 DEF Writer, q
<1> DEFINE u == [event |-> e, unifiedLogEraseCount |-> r.characterTotal,
                 lastUnifiedWriter |-> s.log.writer]
<1>12. u = LogUndo(tape, i + 1, w)
  <2>1. (i + 1) - 1 = i
    BY <1>1
  <2> QED BY <1>4, <1>10, <2>1 DEF LogUndo, e, p, q
<1>13. Log!HandleEvent(s, e) = [streams |-> [s.streams EXCEPT ![id] = @ \o e.value],
                                log |-> r, undo |-> Append(s.undo, u)]
  <2>1. id \in DOMAIN s.streams
    BY <1>2, <1>4 DEF Documents
  <2> QED BY <2>1 DEF Log!HandleEvent, r, a, id
<1>14. [s.streams EXCEPT ![id] = @ \o e.value] = Documents(tape, i + 1, Streams)
  <2>1. \A stream : Messages(SubSeq(tape, 1, i + 1), stream) =
            IF id = stream THEN Messages(SubSeq(tape, 1, i), stream) \o e.value
            ELSE Messages(SubSeq(tape, 1, i), stream)
    BY MessagesOn DEF e, id
  <2> QED BY <1>2, <1>4, <2>1 DEF Documents
<1>15. Append(s.undo, u) = LogUndos(tape, i + 1, w)
  <2> HIDE DEF u
  <2> QED BY <1>1, <1>4, <1>12, UndoSequence
<1> HIDE DEF u
<1> QED BY <1>9, <1>11, <1>13, <1>14, <1>15 DEF LogStates, C, W, e, q

LEMMA EraseAgain ==
    ASSUME NEW C, NEW x \in Seq(C), NEW t \in Seq(C)
    PROVE  Log!Erase(x \o t, Len(t)) = x
<1>1. /\ x \o t \in Seq(C) /\ Len(x \o t) = Len(x) + Len(t)
      /\ \A i \in 1..Len(x)+Len(t) : (x \o t)[i] = IF i <= Len(x) THEN x[i] ELSE t[i - Len(x)]
  BY ConcatProperties
<1>2. Len(x) \in Nat /\ Len(t) \in Nat
  BY LenProperties
<1> DEFINE y == x \o t
<1> HIDE DEF y
<1>3. Log!Erase(y, Len(t)) = SubSeq(y, 1, Len(x))
  BY <1>1, <1>2 DEF Log!Erase, y
<1>4. /\ SubSeq(y, 1, Len(x)) \in Seq(C) /\ Len(SubSeq(y, 1, Len(x))) = Len(x)
      /\ \A i \in 1..Len(x) : SubSeq(y, 1, Len(x))[i] = y[i]
  <2>1. y \in Seq(C) /\ Len(x) \in 0..Len(y)
    BY <1>1, <1>2 DEF y
  <2> QED BY <2>1, Firsts
<1>5. \A i \in 1..Len(x) : y[i] = x[i]
  BY <1>1, <1>2 DEF y
<1>6. SubSeq(y, 1, Len(x)) = x
  BY <1>4, <1>5, SeqEqual
<1> QED BY <1>3, <1>6 DEF y

LEMMA SizeOfNarrow ==
    ASSUME NarrowMessages, NEW tape \in LogTapes, NEW i \in 1..Len(tape)
    PROVE  Log!Size(tape[i].value) = Len(tape[i].value)
<1> DEFINE value == tape[i].value
<1>1. value \in Seq(Chars(tape))
  BY Message
<1>2. {j \in DOMAIN value : value[j] \in WideCharacters} = {}
  <2>1. tape \in Seq(Range(tape))
    BY LogTape
  <2>2. i \in DOMAIN tape /\ tape # << >>
    BY <2>1, LenProperties
  <2>3. PICK s \in Scenarios : tape = s.log
    BY <2>2 DEF LogTapes
  <2> QED BY <2>2, <2>3 DEF NarrowMessages
<1> HIDE DEF value
<1>3. Len(value) \in Nat /\ Cardinality({}) = 0
  BY <1>1, LenProperties, FS_EmptySet
<1>4. Log!Size(value) = Len(value)
  <2>1. Log!Cardinality({}) = Cardinality({})
    BY DEF Log!Cardinality, Log!IsFiniteSet, Cardinality, IsFiniteSet
  <2>2. Log!Size(value) = Len(value) + Log!Cardinality({})
    BY <1>2, Zenon DEF Log!Size
  <2> QED BY <1>3, <2>1, <2>2
<1> QED BY <1>4 DEF value

LEMMA UndoMessage ==
    ASSUME NarrowMessages, NEW tape \in LogTapes, NEW w, NEW i \in 1..Len(tape), NEW k,
           NEW s \in LogStates(tape, w, i, k)
    PROVE  Log!HandleUndo(s, LogUndo(tape, i, w)) \in LogStates(tape, w, i - 1, k)
<1> DEFINE C == Chars(tape)
           W == Writers(w)
           e == tape[i]
           id == e.streamId
           p == PrintedBy(tape, i - 1)
           q == PrintedBy(tape, i)
           u == LogUndo(tape, i, w)
           M(j, stream) == Messages(SubSeq(tape, 1, j), stream)
           d == [s.streams EXCEPT ![id] = Log!Erase(@, Log!Size(e.value))]
           text == Log!Erase(s.log.text, u.unifiedLogEraseCount)
           writer == u.lastUnifiedWriter
           n == s.log.characterTotal
<1>1. Len(tape) \in Nat /\ i - 1 \in 0..Len(tape)-1 /\ i - 1 \in 0..Len(tape)
      /\ i \in 0..Len(tape) /\ (i - 1) + 1 = i
  BY LogTape, LenProperties
<1>2. id \in Streams /\ e.value \in Seq(C)
  BY Message
<1>3. p \in Logs(C, W) /\ q \in Logs(C, W)
  BY <1>1, PrintedIsLog
<1>4. Extends(C, p, q)
  BY <1>1, PrintedMore
<1>5. /\ s.streams = Documents(tape, i, Streams) /\ s.undo = LogUndos(tape, k, w)
      /\ s.log \in Logs(C, W) /\ s.log.text = q.text
      /\ s = [streams |-> s.streams, log |-> s.log, undo |-> s.undo]
  BY DEF LogStates
<1>6. /\ u.event = e /\ u.unifiedLogEraseCount = Len(q.text) - Len(p.text)
      /\ u.lastUnifiedWriter = Writer(tape, i - 1, w)
  BY DEF LogUndo
<1>7. /\ \A stream : M(i, stream) = IF id = stream THEN M(i - 1, stream) \o e.value
                                    ELSE M(i - 1, stream)
      /\ \A stream : M(i - 1, stream) \in Seq(C)
  BY <1>1, MessagesOn, MessagesAreText
<1>8. Log!Size(e.value) = Len(e.value)
  BY SizeOfNarrow
<1> HIDE DEF C, W, e, id, p, q, u, M
<1>9. Log!HandleUndo(s, u) =
         [streams |-> d, log |-> [text |-> text, writer |-> writer, characterTotal |-> n],
          undo |-> s.undo]
  <2> DEFINE l == s.log
             s1 == [s EXCEPT !.streams = d]
             s2 == [s1 EXCEPT !.log.text = text]
             s3 == [s2 EXCEPT !.log.writer = writer]
  <2>1. Log!HandleUndo(s, u) = s3
    BY <1>6 DEF Log!HandleUndo, id
  <2>2. l = [text |-> l.text, writer |-> l.writer, characterTotal |-> n]
    BY <1>5 DEF Logs
  <2> HIDE DEF d, text, writer, n, l
  <2> DEFINE l1 == [l EXCEPT !.text = text]
             l2 == [l1 EXCEPT !.writer = writer]
             undo == s.undo
             t0 == l.text
             w0 == l.writer
  <2>3. s1 = [streams |-> d, log |-> l, undo |-> undo]
    BY <1>5 DEF l
  <2>4. s2 = [s1 EXCEPT !.log = l1] /\ s3 = [s2 EXCEPT !.log = [@ EXCEPT !.writer = writer]]
    BY <2>3
  <2>5. l2 = [text |-> text, writer |-> writer, characterTotal |-> n]
    <3>1. l = [text |-> t0, writer |-> w0, characterTotal |-> n]
      BY <2>2
    <3> HIDE DEF t0, w0
    <3>2. l1 = [text |-> text, writer |-> w0, characterTotal |-> n]
      BY <3>1
    <3> HIDE DEF l1
    <3> QED BY <3>2
  <2> HIDE DEF l1, s1, undo, s2, s3
  <2>6. s2 = [streams |-> d, log |-> l1, undo |-> undo]
    BY <2>3, <2>4
  <2>7. s3 = [streams |-> d, log |-> l2, undo |-> undo]
    <3>1. s2.log = l1
      BY <2>6
    <3>2. s3 = [s2 EXCEPT !.log = l2]
      BY <2>4, <3>1 DEF l2
    <3> HIDE DEF l2
    <3> QED BY <2>6, <3>2
  <2> QED BY <2>1, <2>5, <2>7 DEF undo
<1>10. d = Documents(tape, i - 1, Streams)
  <2>1. s.streams = [stream \in Streams |-> M(i, stream)]
    BY <1>5 DEF Documents, M
  <2>2. Log!Erase(M(i, id), Log!Size(e.value)) = M(i - 1, id)
    <3>1. M(i, id) = M(i - 1, id) \o e.value
      BY <1>7
    <3> QED BY <1>2, <1>7, <1>8, <3>1, EraseAgain
  <2>3. [s.streams EXCEPT ![id] = Log!Erase(@, Log!Size(e.value))]
           = [stream \in Streams |-> M(i - 1, stream)]
    BY <1>2, <1>7, <2>1, <2>2
  <2> QED BY <2>3 DEF Documents, M
<1>11. text = p.text
  <2>1. PICK t \in Seq(C) : q.text = p.text \o t
    BY <1>4 DEF Extends
  <2> DEFINE x == p.text
             y == q.text
  <2>2. x \in Seq(C) /\ y = x \o t
    BY <1>3, <2>1 DEF Logs
  <2> HIDE DEF x, y
  <2>3. Len(y) = Len(x) + Len(t) /\ Len(x) \in Nat /\ Len(t) \in Nat
    BY <2>2, ConcatProperties, LenProperties
  <2>4. Len(y) - Len(x) = Len(t)
    BY <2>3
  <2>5. Log!Erase(y, Len(y) - Len(x)) = x
    BY <2>2, <2>4, EraseAgain
  <2> QED BY <1>5, <1>6, <2>5 DEF x, y
<1>12. [text |-> p.text, writer |-> Writer(tape, i - 1, w), characterTotal |-> n]
           \in Logs(C, W)
  <2>1. Writer(tape, i - 1, w) \in W
    BY <1>3 DEF Writer, Logs, Writers, W, p
  <2> QED BY <1>3, <1>5, <2>1 DEF Logs
<1> DEFINE log == [text |-> p.text, writer |-> Writer(tape, i - 1, w), characterTotal |-> n]
           r == [streams |-> d, log |-> log, undo |-> s.undo]
<1>13. Log!HandleUndo(s, u) = r
  BY <1>6, <1>9, <1>11
<1>14. log.text = p.text /\ log.writer = Writer(tape, i - 1, w)
  OBVIOUS
<1> HIDE DEF d, log
<1>15. r.log = log /\ r \in [streams : {d}, log : {log}, undo : {s.undo}]
  OBVIOUS
<1> HIDE DEF r
<1>16. r \in LogStates(tape, w, i - 1, k)
  BY <1>5, <1>10, <1>12, <1>14, <1>15 DEF LogStates, C, W, p, log
<1> QED BY <1>13, <1>16 DEF u

MessageLoop == Loop("message", 0)
UndoMessageLoop == Loop("undo message", 0)

(* The states of the loops show the log at their point of the tape. *)
LEMMA LogIsShown ==
    ASSUME NEW tape, NEW w, NEW n \in Nat, NEW s \in LogStates(tape, w, n, n)
    PROVE  IsShown(tape, s.undo, s.streams, s.log.text, s.log.writer, w)
<1>1. /\ s.streams = Documents(tape, n, Streams) /\ s.undo = LogUndos(tape, n, w)
      /\ s.log.text = PrintedBy(tape, n).text /\ s.log.writer = Writer(tape, n, w)
  BY DEF LogStates
<1>2. Len(s.undo) = n
  <2>1. Len(LogUndos(tape, n, w)) = n
    BY UndoSequence, ZenonT(40)
  <2> QED BY <1>1, <2>1
<1>3. DOMAIN s.streams = Streams
  BY <1>1 DEF Documents
<1> QED BY <1>1, <1>2, <1>3 DEF IsShown

LogState(documents, u, text, writer) ==
    [streams |-> documents, undo |-> u,
     log |-> [text |-> text, writer |-> writer, characterTotal |-> 0]]

LEMMA LogShowsState ==
    ASSUME NEW tape, NEW u, NEW e, NEW documents, NEW text, NEW writer, NEW w,
           IsOnTape(tape, u, e, DOMAIN documents), tape # << >>,
           IsShown(tape, u, documents, text, writer, w)
    PROVE  LogState(documents, u, text, writer) \in LogStates(tape, w, Len(u), Len(u))
<1> DEFINE n == Len(u)
           C == Chars(tape)
           W == Writers(w)
           log == [text |-> text, writer |-> writer, characterTotal |-> 0]
           b == [streams |-> documents, undo |-> u, log |-> log]
<1>1. tape \in LogTapes /\ n \in 0..Len(tape) /\ DOMAIN documents = Streams
  BY DEF IsOnTape
<1>2. /\ u = LogUndos(tape, n, w) /\ documents = Documents(tape, n, Streams)
      /\ text = PrintedBy(tape, n).text /\ writer = Writer(tape, n, w)
  BY <1>1 DEF IsShown
<1>3. PrintedBy(tape, n) \in Logs(C, W)
  BY <1>1, PrintedIsLog
<1>4. text \in Seq(C) /\ writer \in W
  BY <1>2, <1>3 DEF Logs, Writer, Writers
<1>5. log \in Logs(C, W) /\ log.text = text /\ log.writer = writer
  <2> HIDE DEF C, W
  <2> QED BY <1>4 DEF Logs
<1> HIDE DEF log
<1>6. b \in [streams : {documents}, undo : {u}, log : {log}] /\ b.log = log
  OBVIOUS
<1> HIDE DEF b
<1>7. b \in LogStates(tape, w, n, n)
  BY <1>2, <1>5, <1>6 DEF LogStates, C, W
<1> QED BY <1>7 DEF LogState, b, log

LEMMA LogDocsAdvance ==
    ASSUME NEW tape, NEW u, NEW e, NEW documents, NEW text, NEW writer, NEW w,
           IsOnTape(tape, u, e, DOMAIN documents),
           IsShown(tape, u, documents, text, writer, w), NEW d \in 0..Len(e),
           NEW s, Leads(MessageLoop, LogState(documents, u, text, writer),
                        SubSeq(e, 1, d), d, s)
    PROVE  IsShown(tape, s.undo, s.streams, s.log.text, s.log.writer, w)
<1> DEFINE n == Len(u)
           b == LogState(documents, u, text, writer)
           due == SubSeq(e, 1, d)
<1>1. /\ tape \in LogTapes /\ tape \in Seq(Range(tape)) /\ Len(tape) \in Nat
      /\ n \in 0..Len(tape) /\ n \in Nat /\ e = Rest(tape, n)
  <2>1. tape \in LogTapes
    BY DEF IsOnTape
  <2> QED BY <2>1, LogTape, LenProperties DEF IsOnTape
<1>2. /\ e \in Seq(Range(tape)) /\ Len(e) = Len(tape) - n
      /\ \A i \in 1..Len(tape)-n : e[i] = tape[n + i]
  BY <1>1, Advanced
<1>3. d \in Nat /\ DOMAIN due = 1..d /\ \A i \in 1..d : due[i] = tape[n + i]
  <2>1. due \in Seq(Range(tape)) /\ Len(due) = d /\ \A i \in 1..d : due[i] = e[i]
    BY <1>2, Firsts
  <2>2. \A i \in 1..d : i \in 1..Len(tape)-n
    BY <1>1, <1>2
  <2> QED BY <1>1, <1>2, <2>1, <2>2, LenProperties
<1>4. Leads(MessageLoop, b, due, d, s)
  OBVIOUS
<1>5. CASE d = 0
  <2>1. s = b
    BY <1>4, <1>5, LeadsNowhere
  <2>2. s.undo = u /\ s.streams = documents /\ s.log.text = text /\ s.log.writer = writer
    BY <2>1 DEF LogState
  <2> QED BY <2>2
<1>6. CASE d # 0
  <2> DEFINE T == [i \in 0..d |-> LogStates(tape, w, n + i, n + i)]
  <2>1. tape # << >>
    BY <1>1, <1>2, <1>6
  <2>2. b \in T[0]
    <3>1. 0 \in 0..d /\ n + 0 = n
      BY <1>1, <1>3
    <3>2. b \in LogStates(tape, w, n, n)
      <4> HIDE DEF n, b
      <4> QED BY <2>1, LogShowsState DEF n, b
    <3> HIDE DEF b
    <3> QED BY <3>1, <3>2
  <2>3. ASSUME NEW i \in 0..d-1, NEW a \in T[i] PROVE Body(MessageLoop, a, due[i + 1]) \in T[i + 1]
    <3>1. /\ i \in 0..d /\ i + 1 \in 0..d /\ i + 1 \in 1..d
          /\ n + i \in 0..Len(tape)-1 /\ (n + i) + 1 = n + (i + 1)
      BY <1>1, <1>2, <1>3
    <3>2. due[i + 1] = tape[(n + i) + 1]
      BY <1>3, <3>1
    <3>3. a \in LogStates(tape, w, n + i, n + i)
      BY <3>1
    <3>4. Log!HandleEvent(a, tape[(n + i) + 1]) \in LogStates(tape, w, (n + i) + 1, (n + i) + 1)
      <4> DEFINE m == n + i
      <4>1. m \in 0..Len(tape)-1 /\ a \in LogStates(tape, w, m, m)
        BY <3>1, <3>3
      <4> HIDE DEF m
      <4>2. Log!HandleEvent(a, tape[m + 1]) \in LogStates(tape, w, m + 1, m + 1)
        BY <1>1, <4>1, HandleMessage
      <4> QED BY <4>2 DEF m
    <3>5. Body(MessageLoop, a, due[i + 1]) = Log!HandleEvent(a, due[i + 1])
      BY DEF Body, Loop, MessageLoop
    <3> QED BY <3>1, <3>2, <3>4, <3>5
  <2>4. s \in T[d]
    <3>1. \A i \in 0..d-1 : \A x \in T[i] : Body(MessageLoop, x, due[i + 1]) \in T[i + 1]
      BY <2>3
    <3> HIDE DEF T, b, due
    <3> QED BY <1>3, <1>4, <2>2, <3>1, LeadsInduction, Zenon
  <2>5. s \in LogStates(tape, w, n + d, n + d) /\ n + d \in Nat
    <3>1. d \in 0..d
      BY <1>3
    <3> QED BY <1>1, <1>3, <2>4, <3>1
  <2> QED BY <2>5, LogIsShown
<1> QED BY <1>5, <1>6

LEMMA LogDocsRewind ==
    ASSUME NarrowMessages,
           NEW tape, NEW u, NEW e, NEW documents, NEW text, NEW writer, NEW w,
           IsOnTape(tape, u, e, DOMAIN documents),
           IsShown(tape, u, documents, text, writer, w), NEW k \in 0..Len(u),
           NEW s, Leads(UndoMessageLoop, LogState(documents, u, text, writer),
                        Undone(u, k), k, s)
    PROVE  IsShown(tape, Without(u, k), s.streams, s.log.text, s.log.writer, w)
<1> DEFINE n == Len(u)
           b == LogState(documents, u, text, writer)
           undone == Undone(u, k)
<1>1. /\ tape \in LogTapes /\ Len(tape) \in Nat /\ u \in Seq(Range(u))
      /\ n \in 0..Len(tape) /\ n \in Nat /\ k \in Nat /\ n - k \in Nat
  <2>1. tape \in LogTapes
    BY DEF IsOnTape
  <2> QED BY <2>1, LogTape, LenProperties DEF IsOnTape
<1>2. DOMAIN undone = 1..k /\ \A i \in 1..k : undone[i] = u[n + 1 - i]
  BY DEF Undone
<1>3. Leads(UndoMessageLoop, b, undone, k, s)
  OBVIOUS
<1>4. u = LogUndos(tape, n, w)
  BY DEF IsShown
<1>5. \A i \in 1..n : u[i] = LogUndo(tape, i, w)
  BY <1>1, <1>4, UndoSequence
<1>6. Without(u, k) = LogUndos(tape, n - k, w) /\ Len(Without(u, k)) = n - k
  <2> DEFINE left == Without(u, k)
             o == LogUndos(tape, n - k, w)
             A == Range(u) \cup {LogUndo(tape, i, w) : i \in 1..n-k}
  <2>1. /\ left \in Seq(Range(u)) /\ Len(left) = n - k
        /\ \A i \in 1..n-k : left[i] = u[i]
    <3>1. n - k \in 0..n
      BY <1>1
    <3> QED BY <1>1, <3>1, Firsts DEF Without
  <2>2. /\ o \in Seq({LogUndo(tape, i, w) : i \in 1..n-k}) /\ Len(o) = n - k
        /\ \A i \in 1..n-k : o[i] = LogUndo(tape, i, w)
    <3> DEFINE m == n - k
    <3>1. m \in Nat
      BY <1>1
    <3> HIDE DEF m
    <3>2. /\ LogUndos(tape, m, w) \in Seq({LogUndo(tape, i, w) : i \in 1..m})
          /\ Len(LogUndos(tape, m, w)) = m
          /\ \A i \in 1..m : LogUndos(tape, m, w)[i] = LogUndo(tape, i, w)
      BY <3>1, UndoSequence, ZenonT(40)
    <3> QED BY <3>2 DEF m
  <2>3. left \in Seq(A) /\ o \in Seq(A)
    BY <2>1, <2>2, SeqMonotonic
  <2>4. \A i \in 1..n-k : i \in 1..n
    BY <1>1
  <2> HIDE DEF left, o, A
  <2>5. left = o
    BY <1>5, <2>1, <2>2, <2>3, <2>4, SeqEqual
  <2> QED BY <2>1, <2>5 DEF left, o
<1>7. CASE k = 0
  <2>1. s = b
    <3> HIDE DEF b, undone
    <3>1. Leads(UndoMessageLoop, b, undone, 0, s)
      BY <1>3, <1>7
    <3> QED BY <3>1, LeadsNowhere, Zenon
  <2>2. s.undo = u /\ s.streams = documents /\ s.log.text = text /\ s.log.writer = writer
    BY <2>1 DEF LogState
  <2>3. Without(u, k) = u
    <3>1. n - k = n
      BY <1>1, <1>7
    <3> QED BY <1>4, <1>6, <3>1
  <2> QED BY <2>2, <2>3
<1>8. CASE k # 0
  <2> DEFINE T == [i \in 0..k |-> LogStates(tape, w, n - i, n)]
  <2>1. tape # << >>
    BY <1>1, <1>8
  <2>2. b \in T[0]
    <3>1. 0 \in 0..k /\ n - 0 = n
      BY <1>1
    <3>2. b \in LogStates(tape, w, n, n)
      <4> HIDE DEF n, b
      <4> QED BY <2>1, LogShowsState DEF n, b
    <3> HIDE DEF b
    <3> QED BY <3>1, <3>2
  <2>3. ASSUME NEW i \in 0..k-1, NEW a \in T[i]
        PROVE  Body(UndoMessageLoop, a, undone[i + 1]) \in T[i + 1]
    <3> DEFINE m == n - i
    <3>1. /\ i \in 0..k /\ i + 1 \in 0..k /\ i + 1 \in 1..k
          /\ m \in 1..Len(tape) /\ m \in 1..n /\ n + 1 - (i + 1) = m /\ m - 1 = n - (i + 1)
      BY <1>1
    <3>2. undone[i + 1] = LogUndo(tape, m, w)
      BY <1>2, <1>5, <3>1
    <3>3. a \in LogStates(tape, w, m, n)
      BY <3>1
    <3>4. Log!HandleUndo(a, LogUndo(tape, m, w)) \in LogStates(tape, w, m - 1, n)
      <4> HIDE DEF m
      <4> QED BY <1>1, <3>1, <3>3, UndoMessage
    <3>5. Body(UndoMessageLoop, a, undone[i + 1]) = Log!HandleUndo(a, undone[i + 1])
      BY DEF Body, Loop, UndoMessageLoop
    <3>6. T[i + 1] = LogStates(tape, w, m - 1, n)
      BY <3>1
    <3> QED BY <3>2, <3>4, <3>5, <3>6
  <2>4. s \in T[k]
    <3>1. \A i \in 0..k-1 : \A x \in T[i] : Body(UndoMessageLoop, x, undone[i + 1]) \in T[i + 1]
      BY <2>3
    <3> HIDE DEF T, b, undone
    <3> QED BY <1>1, <1>3, <2>2, <3>1, LeadsInduction, Zenon
  <2>5. s \in LogStates(tape, w, n - k, n)
    <3>1. k \in 0..k
      BY <1>1
    <3> QED BY <2>4, <3>1
  <2>6. /\ s.streams = Documents(tape, n - k, Streams)
        /\ s.log.text = PrintedBy(tape, n - k).text /\ s.log.writer = Writer(tape, n - k, w)
    BY <2>5 DEF LogStates
  <2>7. DOMAIN s.streams = Streams
    BY <2>6 DEF Documents
  <2> QED BY <1>6, <2>6, <2>7 DEF IsShown
<1> QED BY <1>7, <1>8

---------------------------------------------------------------------------
(* The charts: points under their t indices, and their removal. *)

LEMMA IndexedPoints ==
    ASSUME NEW p \in Seq(Point)
    PROVE  /\ Indexed(p) \in Seq(IndexedPoint) /\ Len(Indexed(p)) = Len(p)
           /\ \A i \in 1..Len(p) :
                 /\ Indexed(p)[i] = [t |-> i - 1, x |-> p[i].x, y |-> p[i].y]
                 /\ Indexed(p)[i].t = i - 1
<1> DEFINE n == Len(p)
<1>1. n \in Nat /\ DOMAIN p = 1..n /\ \A i \in 1..n : p[i].x \in Int /\ p[i].y \in Int
  <2>1. \A i \in 1..n : p[i] \in Point
    BY ElementOfSeq
  <2> QED BY <2>1, LenProperties DEF Point
<1>2. ASSUME NEW i \in 1..n PROVE [t |-> i - 1, x |-> p[i].x, y |-> p[i].y] \in IndexedPoint
  <2>1. i - 1 \in Nat
    OBVIOUS
  <2> QED BY <1>1, <2>1 DEF IndexedPoint
<1>3. Indexed(p) \in [1..n -> IndexedPoint]
  BY <1>1, <1>2 DEF Indexed
<1>4. Indexed(p) \in Seq(IndexedPoint) /\ Len(Indexed(p)) = n
  BY <1>1, <1>3
<1>5. \A i \in 1..n : Indexed(p)[i] = [t |-> i - 1, x |-> p[i].x, y |-> p[i].y]
  BY <1>1 DEF Indexed
<1> QED BY <1>4, <1>5

LEMMA CountUpTo ==
    ASSUME NEW n \in Nat
    PROVE  Charts!Cardinality(1..n) = n
<1>1. Charts!Cardinality(1..n) = Cardinality(1..n)
  BY DEF Charts!Cardinality, Charts!IsFiniteSet, Cardinality, IsFiniteSet
<1>2. Cardinality(1..n) = IF 1 > n THEN 0 ELSE n - 1 + 1
  BY FS_Interval
<1> QED BY <1>1, <1>2

LEMMA BoundsOfIndexed ==
    ASSUME NEW p \in Seq(Point), NEW n \in 0..Len(p)
    PROVE  /\ Charts!LowerBound(Indexed(p), n) = n
           /\ n = Len(p) => Charts!UpperBound(Indexed(p), n) = n
<1> DEFINE d == Indexed(p)
<1>1. n \in Nat /\ Len(p) \in Nat /\ DOMAIN d = 1..Len(p) /\ \A i \in 1..Len(p) : d[i].t = i - 1
  <2>1. d \in Seq(IndexedPoint) /\ Len(d) = Len(p) /\ \A i \in 1..Len(p) : d[i].t = i - 1
    BY IndexedPoints
  <2>2. n \in Nat /\ Len(p) \in Nat
    BY LenProperties
  <2> HIDE DEF d
  <2>3. DOMAIN d = 1..Len(d)
    BY <2>1, LenProperties
  <2> QED BY <2>1, <2>2, <2>3
<1> HIDE DEF d
<1>2. {i \in DOMAIN d : d[i].t < n} = 1..n
  BY <1>1
<1>3. n = Len(p) => {i \in DOMAIN d : d[i].t <= n} = 1..n
  BY <1>1
<1>4. Charts!Cardinality(1..n) = n
  BY <1>1, CountUpTo
<1>5. Charts!LowerBound(d, n) = n
  BY <1>2, <1>4, Zenon DEF Charts!LowerBound
<1>6. n = Len(p) => Charts!UpperBound(d, n) = n
  BY <1>3, <1>4, Zenon DEF Charts!UpperBound
<1> QED BY <1>5, <1>6 DEF d

(* The front of the indexed points are the indexed points of the front. *)
LEMMA FrontOfIndexed ==
    ASSUME NEW p \in Seq(Point), NEW q \in Seq(Point)
    PROVE  /\ p \o q \in Seq(Point) /\ Len(p \o q) = Len(p) + Len(q)
           /\ Len(p) \in 0..Len(p \o q) /\ Len(q) \in Nat
           /\ SubSeq(Indexed(p \o q), 1, Len(p)) = Indexed(p)
           /\ Rest(Indexed(p \o q), Len(p \o q)) = << >>
<1> DEFINE r == p \o q
           d == Indexed(r)
           n == Len(p)
<1>1. /\ r \in Seq(Point) /\ Len(r) = n + Len(q) /\ n \in Nat /\ Len(q) \in Nat
      /\ \A i \in 1..n : r[i] = p[i]
  BY ConcatProperties, LenProperties
<1>2. n \in 0..Len(r)
  BY <1>1
<1> HIDE DEF r, n
<1>3. /\ d \in Seq(IndexedPoint) /\ Len(d) = Len(r)
      /\ \A i \in 1..Len(r) : d[i] = [t |-> i - 1, x |-> r[i].x, y |-> r[i].y]
  BY <1>1, IndexedPoints
<1>4. /\ Indexed(p) \in Seq(IndexedPoint) /\ Len(Indexed(p)) = n
      /\ \A i \in 1..n : Indexed(p)[i] = [t |-> i - 1, x |-> p[i].x, y |-> p[i].y]
  BY IndexedPoints DEF n
<1> HIDE DEF d
<1>5. SubSeq(d, 1, n) = Indexed(p)
  <2>1. /\ SubSeq(d, 1, n) \in Seq(IndexedPoint) /\ Len(SubSeq(d, 1, n)) = n
        /\ \A i \in 1..n : SubSeq(d, 1, n)[i] = d[i]
    BY <1>2, <1>3, Firsts
  <2>2. \A i \in 1..n : SubSeq(d, 1, n)[i] = Indexed(p)[i]
    <3>1. \A i \in 1..n : i \in 1..Len(r)
      BY <1>1, <1>2
    <3> QED BY <1>1, <1>3, <1>4, <2>1, <3>1, ZenonT(30)
  <2> QED BY <1>4, <2>1, <2>2, SeqEqual
<1>6. Rest(d, Len(r)) = << >>
  <2>1. Len(d) \in 0..Len(d)
    BY <1>3, LenProperties
  <2>2. Rest(d, Len(d)) \in Seq(IndexedPoint) /\ Len(Rest(d, Len(d))) = Len(d) - Len(d)
    BY <1>3, <2>1, Advanced
  <2>3. Len(Rest(d, Len(d))) = 0
    BY <2>1, <2>2
  <2> QED BY <1>3, <2>2, <2>3, EmptySeq
<1> QED BY <1>1, <1>2, <1>5, <1>6 DEF r, d, n

LEMMA PointsRemoved ==
    ASSUME NEW p \in Seq(Point), NEW q \in Seq(Point)
    PROVE  /\ Charts!RemoveRange(Indexed(p \o q), [first |-> Len(Indexed(p)),
                                                   second |-> Len(Indexed(p \o q))])
                 = Indexed(p)
           /\ Len(q) = 1 => Charts!RemovePoint(Indexed(p \o q), Len(Indexed(p))) = Indexed(p)
<1> DEFINE d == Indexed(p \o q)
           n == Len(p)
           m == Len(p \o q)
           range == [first |-> n, second |-> m]
<1>1. /\ p \o q \in Seq(Point) /\ m = n + Len(q) /\ n \in Nat /\ Len(q) \in Nat
      /\ n \in 0..m /\ m \in 0..m
      /\ SubSeq(d, 1, n) = Indexed(p) /\ Rest(d, m) = << >>
  BY FrontOfIndexed, LenProperties
<1>2. /\ d \in Seq(IndexedPoint) /\ Len(d) = m /\ DOMAIN d = 1..m
      /\ (\A i \in 1..m : d[i].t = i - 1) /\ Len(Indexed(p)) = n
  BY <1>1, IndexedPoints, LenProperties
<1>3. /\ Charts!LowerBound(d, n) = n /\ Charts!UpperBound(d, m) = m
  BY <1>1, BoundsOfIndexed
<1>4. Charts!Rest(d, m) = << >>
  BY <1>1, SameTape
<1>5. Indexed(p) \in Seq(IndexedPoint) /\ Indexed(p) \o << >> = Indexed(p)
  BY IndexedPoints, ConcatEmptySeq
<1> HIDE DEF d, m
<1>6. Charts!RemoveRange(d, range) = Indexed(p)
  <2>1. range.first = n /\ range.second = m
    OBVIOUS
  <2> HIDE DEF range, n
  <2>2. CASE n >= m
    <3>1. n = m
      BY <1>1, <2>2
    <3>2. d = Indexed(p)
      BY <1>1, <1>2, <3>1, SubSeqFull
    <3> QED BY <2>1, <2>2, <3>2 DEF Charts!RemoveRange
  <2>3. CASE ~(n >= m)
    BY <1>1, <1>3, <1>4, <1>5, <2>1, <2>3 DEF Charts!RemoveRange
  <2> QED BY <2>2, <2>3
<1>7. ASSUME Len(q) = 1 PROVE Charts!RemovePoint(d, n) = Indexed(p)
  <2>1. m = n + 1 /\ m \in DOMAIN d /\ d[m].t = n
    BY <1>1, <1>2, <1>7
  <2> HIDE DEF n
  <2> QED BY <1>1, <1>3, <1>4, <1>5, <2>1 DEF Charts!RemovePoint
<1> QED BY <1>2, <1>6, <1>7 DEF d, m

---------------------------------------------------------------------------
(* What the charts show at each point of a tape. *)

LEMMA ChartEventFields ==
    ASSUME NEW e \in ChartEvent
    PROVE  /\ e.time \in Int /\ e.points \in Seq(Point)
           /\ e.seriesId \in XYSeries \cup Seqs!ToSet(CategoryOrder)
           /\ e.kind = "XYSeriesClear" => e.seriesId \in XYSeries
           /\ e.kind \in {"XYSeriesAddValue", "XYSeriesAddValues", "XYSeriesClear",
                          "CategorySeriesAddValue"}
  BY DEF ChartEvent

PointsLoop(id) == Loop("applied", id)

PointsOf(E, id) ==
    {p \in Point : \E i \in DOMAIN E : E[i].seriesId = id /\ p \in Range(E[i].points)}

LEMMA PointsOfEvents ==
    ASSUME NEW E \in Seq(ChartEvent), NEW id
    PROVE  PointsApplied(E, id) \in Seq(PointsOf(E, id))
<1> DEFINE P == PointsOf(E, id)
           n == Len(E)
           T == [i \in 0..n |-> Seq(P)]
<1>1. n \in Nat /\ DOMAIN E = 1..n /\ \A i \in 1..n : E[i] \in ChartEvent
  BY LenProperties, ElementOfSeq
<1>2. Leads(PointsLoop(id), << >>, E, n, PointsApplied(E, id))
  BY <1>1, PointsLead DEF PointsLoop
<1>3. << >> \in T[0]
  BY <1>1
<1>4. \A i \in 0..n-1 : \A a \in T[i] : Body(PointsLoop(id), a, E[i + 1]) \in T[i + 1]
  <2> SUFFICES ASSUME NEW i \in 0..n-1, NEW a \in T[i]
               PROVE  Body(PointsLoop(id), a, E[i + 1]) \in T[i + 1]
    OBVIOUS
  <2> DEFINE e == E[i + 1]
             r == IF e.seriesId # id THEN a ELSE IF e.kind = "XYSeriesClear" THEN << >>
                  ELSE a \o e.points
  <2>1. i \in 0..n /\ i + 1 \in 0..n /\ i + 1 \in 1..n
    BY <1>1
  <2> HIDE DEF P
  <2>2. e \in ChartEvent /\ a \in Seq(P)
    BY <1>1, <2>1
  <2>3. e.seriesId = id => e.points \in Seq(P)
    <3> SUFFICES ASSUME e.seriesId = id PROVE e.points \in Seq(P)
      OBVIOUS
    <3>1. e.points \in Seq(Point)
      BY <2>2, ChartEventFields
    <3>2. Range(e.points) \subseteq Point
      BY <3>1, RangeOfSeq
    <3>3. Range(e.points) \subseteq P
      BY <1>1, <2>1, <3>2 DEF P, PointsOf
    <3>4. e.points \in Seq(Range(e.points))
      BY <3>1, SeqOfRange
    <3> HIDE DEF e
    <3> QED BY <3>3, <3>4, SeqMonotonic
  <2> HIDE DEF e
  <2>4. r \in Seq(P)
    BY <2>2, <2>3, ConcatProperties
  <2>5. Body(PointsLoop(id), a, e) = r
    BY DEF Body, Loop, PointsLoop
  <2> QED BY <2>1, <2>4, <2>5 DEF e
<1>5. PointsApplied(E, id) \in T[n]
  <2> HIDE DEF n, T
  <2> QED BY <1>1, <1>2, <1>3, <1>4, LeadsInduction, Zenon
<1>6. n \in 0..n
  BY <1>1
<1> QED BY <1>5, <1>6

LEMMA PointsArePoints ==
    ASSUME NEW E \in Seq(ChartEvent), NEW id
    PROVE  PointsApplied(E, id) \in Seq(Point)
<1>1. PointsOf(E, id) \subseteq Point
  BY DEF PointsOf
<1> QED BY <1>1, PointsOfEvents, SeqMonotonic

LEMMA ShownOn ==
    ASSUME NEW E \in Seq(ChartEvent), NEW i \in 1..Len(E), NEW id,
           NEW p, p = PointsApplied(SubSeq(E, 1, i - 1), id)
    PROVE  /\ p \in Seq(Point) /\ Shown(E, i - 1, id) = Indexed(p)
           /\ Shown(E, i, id) = IF E[i].seriesId # id THEN Indexed(p)
                                ELSE IF E[i].kind = "XYSeriesClear" THEN Indexed(<< >>)
                                ELSE Indexed(p \o E[i].points)
<1> DEFINE F == SubSeq(E, 1, i - 1)
           e == E[i]
<1>1. Len(E) \in Nat /\ i - 1 \in 0..Len(E) /\ i - 1 < Len(E) /\ (i - 1) + 1 = i
  BY LenProperties
<1>2. F \in Seq(ChartEvent) /\ SubSeq(E, 1, i) = Append(F, e) /\ e \in ChartEvent
  BY <1>1, Firsts, ElementOfSeq
<1> HIDE DEF F, e
<1>3. PointsApplied(F, id) \in Seq(Point)
  BY <1>2, PointsArePoints
<1>4. PointsApplied(Append(F, e), id) =
          IF e.seriesId # id THEN PointsApplied(F, id)
          ELSE IF e.kind = "XYSeriesClear" THEN << >>
          ELSE PointsApplied(F, id) \o e.points
  BY <1>2, PointsNext
<1>5. p = PointsApplied(F, id)
  BY DEF F
<1> QED BY <1>2, <1>3, <1>4, <1>5 DEF Shown, F, e

NothingShown == Indexed(<< >>)

LEMMA NothingIsShown ==
    NothingShown = << >> /\ \A E, id : Shown(E, 0, id) = << >>
<1>1. NothingShown = << >>
  <2>1. << >> \in Seq(Point) /\ Len(<< >>) = 0
    OBVIOUS
  <2>2. Indexed(<< >>) \in Seq(IndexedPoint) /\ Len(Indexed(<< >>)) = 0
    BY <2>1, IndexedPoints
  <2> QED BY <2>2, EmptySeq DEF NothingShown
<1>2. ASSUME NEW E, NEW id PROVE Shown(E, 0, id) = << >>
  <2>1. SubSeq(E, 1, 0) = << >>
    BY SubSeqEmpty
  <2>2. PointsApplied(SubSeq(E, 1, 0), id) = << >>
    BY <2>1, NoHistory
  <2> QED BY <1>1, <2>2 DEF Shown, NothingShown
<1> QED BY <1>1, <1>2

(* What a tape shows does not depend on what comes later. *)
LEMMA ShownFirst ==
    ASSUME NEW E \in Seq(ChartEvent), NEW m \in 0..Len(E), NEW i \in 0..m, NEW id
    PROVE  Shown(SubSeq(E, 1, m), i, id) = Shown(E, i, id)
<1> DEFINE F == SubSeq(E, 1, m)
<1>1. Len(E) \in Nat /\ i \in 0..Len(E)
  BY LenProperties
<1>2. F \in Seq(ChartEvent) /\ Len(F) = m /\ \A j \in 1..m : F[j] = E[j]
  BY Firsts
<1> HIDE DEF F
<1>3. /\ SubSeq(F, 1, i) \in Seq(ChartEvent) /\ Len(SubSeq(F, 1, i)) = i
      /\ \A j \in 1..i : SubSeq(F, 1, i)[j] = F[j]
  BY <1>2, Firsts
<1>4. /\ SubSeq(E, 1, i) \in Seq(ChartEvent) /\ Len(SubSeq(E, 1, i)) = i
      /\ \A j \in 1..i : SubSeq(E, 1, i)[j] = E[j]
  BY <1>1, Firsts
<1>5. \A j \in 1..i : j \in 1..m
  BY <1>1
<1>6. SubSeq(F, 1, i) = SubSeq(E, 1, i)
  BY <1>2, <1>3, <1>4, <1>5, SeqEqual
<1> QED BY <1>6 DEF Shown, F

(* What HandleUndo makes of the points of the series of an event. *)
PointsUndone(u, data) ==
    CASE u.event.kind = "XYSeriesClear" -> u.oldData
      [] u.event.kind = "XYSeriesAddValues" -> Charts!RemoveRange(data, u.range)
      [] OTHER -> Charts!RemovePoint(data, u.range.first)

LEMMA EventUndone ==
    ASSUME NEW E \in Seq(ChartEvent), NEW i \in 1..Len(E), FitsKind(E[i]),
           NEW id, id = E[i].seriesId,
           NEW u, u = Charts!Undo(E[i], Shown(E, i - 1, id), Shown(E, i, id))
    PROVE  PointsUndone(u, Shown(E, i, id)) = Shown(E, i - 1, id)
<1> DEFINE p == PointsApplied(SubSeq(E, 1, i - 1), id)
           e == E[i]
           before == Shown(E, i - 1, id)
           after == Shown(E, i, id)
           range == [first |-> Len(before), second |-> Len(after)]
<1>1. e \in ChartEvent
  BY ElementOfSeq
<1>2. /\ p \in Seq(Point) /\ before = Indexed(p)
      /\ after = IF e.kind = "XYSeriesClear" THEN Indexed(<< >>) ELSE Indexed(p \o e.points)
  BY ShownOn
<1>3. /\ u.event = e /\ u.range = range
      /\ e.kind = "XYSeriesClear" => u.oldData = before
  BY DEF Charts!Undo
<1>4. /\ e.points \in Seq(Point)
      /\ e.kind \in {"XYSeriesAddValue", "CategorySeriesAddValue"} => Len(e.points) = 1
      /\ e.kind \in {"XYSeriesAddValue", "XYSeriesAddValues", "XYSeriesClear",
                     "CategorySeriesAddValue"}
  BY <1>1, ChartEventFields DEF FitsKind
<1> HIDE DEF p, e, before, after
<1>5. CASE e.kind = "XYSeriesClear"
  BY <1>3, <1>5 DEF PointsUndone, before, after
<1>6. CASE e.kind # "XYSeriesClear"
  <2> DEFINE q == e.points
  <2>1. after = Indexed(p \o q) /\ q \in Seq(Point)
    BY <1>2, <1>4, <1>6
  <2> HIDE DEF q
  <2>2. /\ Charts!RemoveRange(after, range) = before
        /\ Len(q) = 1 => Charts!RemovePoint(after, Len(before)) = before
    BY <1>2, <2>1, PointsRemoved
  <2>3. range.first = Len(before)
    OBVIOUS
  <2> HIDE DEF range
  <2>4. CASE e.kind = "XYSeriesAddValues"
    BY <1>3, <1>6, <2>2, <2>4 DEF PointsUndone, before, after
  <2>5. CASE e.kind \in {"XYSeriesAddValue", "CategorySeriesAddValue"}
    <3>1. Len(q) = 1 /\ e.kind # "XYSeriesAddValues"
      BY <1>4, <2>5 DEF q
    <3> QED BY <1>3, <1>6, <2>2, <2>3, <3>1 DEF PointsUndone, before, after
  <2> QED BY <1>4, <1>6, <2>4, <2>5
<1> QED BY <1>5, <1>6

---------------------------------------------------------------------------
(* Adding points: they come last, and axes only widen. *)

LEMMA ConcatAppend ==
    ASSUME NEW S, NEW a \in Seq(S), NEW b \in Seq(S), NEW x \in S
    PROVE  a \o Append(b, x) = Append(a \o b, x)
<1>1. <<x>> \in Seq(S) /\ a \o b \in Seq(S)
  BY ConcatProperties
<1>2. a \o Append(b, x) = a \o (b \o <<x>>)
  BY AppendIsConcat
<1>3. a \o (b \o <<x>>) = (a \o b) \o <<x>>
  BY <1>1, ConcatAssociative
<1>4. (a \o b) \o <<x>> = Append(a \o b, x)
  BY <1>1, AppendIsConcat
<1> QED BY <1>2, <1>3, <1>4

Wider(a, b) == b.lower <= a.lower /\ a.upper <= b.upper
Within(range, value) == range.lower <= value /\ value <= range.upper

AllSeries == [AllIds -> Series]

AxesWiden(s, r) == \A c \in AllIds : Wider(s[c].x, r[c].x) /\ Wider(s[c].y, r[c].y)

SeriesIds == XYSeries \cup Seqs!ToSet(CategoryOrder)

LEMMA Ids ==
    /\ SeriesIds \subseteq AllIds /\ SeriesIds \cap DOMAIN Members = {}
    /\ \A id : Charts!InCollections(id) \subseteq AllIds \cap DOMAIN Members
    /\ XYSeries \cap Charts!CategorySeries = {} /\ XYSeries \subseteq SeriesIds
<1>1. Charts!Seqs!ToSet(CategoryOrder) = Seqs!ToSet(CategoryOrder)
  BY DEF Charts!Seqs!ToSet, Seqs!ToSet
<1>2. XYSeries \cap Charts!CategorySeries = {}
  BY <1>1, SeriesAssumption DEF Charts!CategorySeries
<1> QED BY <1>2, SeriesAssumption DEF SeriesIds, AllIds, Charts!InCollections, Charts!Collections

LEMMA RangeUpdated ==
    ASSUME NEW range \in Axis, NEW value \in Int
    PROVE  /\ Charts!updateRange(range, value) \in Axis
           /\ Wider(range, Charts!updateRange(range, value))
           /\ Within(Charts!updateRange(range, value), value)
<1> DEFINE l == IF value < range.lower THEN value ELSE range.lower
           u == IF value > range.upper THEN value ELSE range.upper
<1>1. range.lower \in Int /\ range.upper \in Int
  BY DEF Axis
<1>2. l \in Int /\ u \in Int /\ l <= range.lower /\ range.upper <= u /\ l <= value /\ value <= u
  BY <1>1
<1>3. Charts!updateRange(range, value) = [lower |-> l, upper |-> u]
  BY DEF Charts!updateRange
<1> HIDE DEF l, u
<1> QED BY <1>2, <1>3 DEF Axis, Wider, Within

LEMMA AxesStay ==
    ASSUME NEW s \in AllSeries
    PROVE  AxesWiden(s, s)
<1> SUFFICES ASSUME NEW c \in AllIds PROVE Wider(s[c].x, s[c].x) /\ Wider(s[c].y, s[c].y)
  BY DEF AxesWiden
<1>1. s[c] \in Series
  BY DEF AllSeries
<1>2. s[c].x \in Axis /\ s[c].y \in Axis
  BY <1>1 DEF Series
<1> QED BY <1>2 DEF Axis, Wider

LEMMA AxesWidenFurther ==
    ASSUME NEW s \in AllSeries, NEW r \in AllSeries, NEW q \in AllSeries,
           AxesWiden(s, r), AxesWiden(r, q)
    PROVE  AxesWiden(s, q)
<1> SUFFICES ASSUME NEW c \in AllIds PROVE Wider(s[c].x, q[c].x) /\ Wider(s[c].y, q[c].y)
  BY DEF AxesWiden
<1>1. s[c] \in Series /\ r[c] \in Series /\ q[c] \in Series
  BY DEF AllSeries
<1>2. /\ s[c].x \in Axis /\ s[c].y \in Axis /\ r[c].x \in Axis /\ r[c].y \in Axis
      /\ q[c].x \in Axis /\ q[c].y \in Axis
  BY <1>1 DEF Series
<1>3. /\ Wider(s[c].x, r[c].x) /\ Wider(s[c].y, r[c].y)
      /\ Wider(r[c].x, q[c].x) /\ Wider(r[c].y, q[c].y)
  BY DEF AxesWiden
<1> QED BY <1>2, <1>3 DEF Axis, Wider

LEMMA SpansWider ==
    ASSUME NEW a \in Series, NEW b \in Series, Wider(a.x, b.x), Wider(a.y, b.y),
           NEW p \in Point, Spans(a, p)
    PROVE  Spans(b, p)
<1>1. a.x \in Axis /\ a.y \in Axis /\ b.x \in Axis /\ b.y \in Axis /\ p.x \in Int /\ p.y \in Int
  BY DEF Series, Point
<1> QED BY <1>1 DEF Axis, Wider, Spans

LEMMA AxesSpanStill ==
    ASSUME NEW s \in AllSeries, NEW r \in AllSeries, AxesWiden(s, r),
           NEW id \in SeriesIds, NEW p \in Point, AxesSpan(s, id, p)
    PROVE  AxesSpan(r, id, p)
<1>1. ASSUME NEW c \in AllIds, Spans(s[c], p) PROVE Spans(r[c], p)
  <2>1. s[c] \in Series /\ r[c] \in Series
    BY DEF AllSeries
  <2>2. Wider(s[c].x, r[c].x) /\ Wider(s[c].y, r[c].y)
    BY DEF AxesWiden
  <2> QED BY <1>1, <2>1, <2>2, SpansWider
<1>2. id \in AllIds /\ Charts!InCollections(id) \subseteq AllIds
  BY Ids
<1> QED BY <1>1, <1>2 DEF AxesSpan

LEMMA PointIndexed ==
    ASSUME NEW p \in Seq(Point), NEW q \in Point
    PROVE  Append(Indexed(p), [t |-> Len(Indexed(p)), x |-> q.x, y |-> q.y])
               = Indexed(Append(p, q))
<1> DEFINE n == Len(p)
           d == Indexed(p)
           x == [t |-> Len(d), x |-> q.x, y |-> q.y]
           r == Append(p, q)
           D == Indexed(r)
<1>1. /\ r \in Seq(Point) /\ Len(r) = n + 1 /\ n \in Nat /\ n + 1 \in Nat
      /\ (\A i \in 1..n : r[i] = p[i]) /\ r[n + 1] = q
  BY Appended, LenProperties
<1> HIDE DEF r
<1>2. /\ d \in Seq(IndexedPoint) /\ Len(d) = n
      /\ \A i \in 1..n : d[i] = [t |-> i - 1, x |-> p[i].x, y |-> p[i].y]
  BY IndexedPoints
<1>3. /\ D \in Seq(IndexedPoint) /\ Len(D) = n + 1
      /\ \A i \in 1..n+1 : D[i] = [t |-> i - 1, x |-> r[i].x, y |-> r[i].y]
  BY <1>1, IndexedPoints
<1>4. x \in IndexedPoint
  <2>1. q.x \in Int /\ q.y \in Int /\ Len(d) \in Nat
    BY <1>1, <1>2 DEF Point
  <2> QED BY <2>1 DEF IndexedPoint
<1>5. x = D[n + 1]
  <2>1. n + 1 \in 1..n+1 /\ (n + 1) - 1 = n
    BY <1>1
  <2> QED BY <1>1, <1>2, <1>3, <2>1
<1> HIDE DEF n, d, x, D
<1>6. /\ Append(d, x) \in Seq(IndexedPoint) /\ Len(Append(d, x)) = n + 1
      /\ (\A i \in 1..n : Append(d, x)[i] = d[i]) /\ Append(d, x)[n + 1] = x
  BY <1>2, <1>4, Appended
<1>7. ASSUME NEW i \in 1..n+1 PROVE Append(d, x)[i] = D[i]
  <2>1. i \in 1..n \/ i = n + 1
    BY <1>1
  <2> QED BY <1>1, <1>2, <1>3, <1>5, <1>6, <2>1
<1>8. Append(d, x) = D
  BY <1>3, <1>6, <1>7, SeqEqual
<1> QED BY <1>8 DEF d, x, D, r

(* Only the series id has got other data or another lastUpdatedTime, and   *)
(* its axes span the points.                                               *)
IsLike(a, b) == a.data = b.data /\ a.lastUpdatedTime = b.lastUpdatedTime

Changes(s, id, data, points, r) ==
    /\ r \in AllSeries /\ r[id].data = data
    /\ \A c \in AllIds \ {id} : IsLike(r[c], s[c])
    /\ AxesWiden(s, r)
    /\ \A j \in DOMAIN points : AxesSpan(r, id, points[j])

IsChanged(a, d, x, y) ==
    /\ [a EXCEPT !.data = d, !.x = x, !.y = y]
          = [data |-> d, x |-> x, y |-> y, lastUpdatedTime |-> a.lastUpdatedTime]
    /\ [a EXCEPT !.x = x, !.y = y]
          = [data |-> a.data, x |-> x, y |-> y, lastUpdatedTime |-> a.lastUpdatedTime]

LEMMA SeriesChanged ==
    ASSUME NEW a \in Series, NEW d, NEW x, NEW y
    PROVE  IsChanged(a, d, x, y)
<1> DEFINE f == a.data
           g == a.x
           h == a.y
           l == a.lastUpdatedTime
<1>1. a = [data |-> f, x |-> g, y |-> h, lastUpdatedTime |-> l]
  BY DEF Series
<1> HIDE DEF f, g, h, l
<1> DEFINE a1 == [a EXCEPT !.data = d]
           a2 == [a1 EXCEPT !.x = x]
           b2 == [a EXCEPT !.x = x]
<1>2. [a EXCEPT !.data = d, !.x = x, !.y = y] = [a2 EXCEPT !.y = y]
  OBVIOUS
<1>3. [a EXCEPT !.x = x, !.y = y] = [b2 EXCEPT !.y = y]
  OBVIOUS
<1>4. /\ a1 = [data |-> d, x |-> g, y |-> h, lastUpdatedTime |-> l]
      /\ b2 = [data |-> f, x |-> x, y |-> h, lastUpdatedTime |-> l]
  BY <1>1
<1> HIDE DEF a1, b2
<1>5. a2 = [data |-> d, x |-> x, y |-> h, lastUpdatedTime |-> l]
  BY <1>4
<1> HIDE DEF a2
<1>6. /\ [a2 EXCEPT !.y = y] = [data |-> d, x |-> x, y |-> y, lastUpdatedTime |-> l]
      /\ [b2 EXCEPT !.y = y] = [data |-> f, x |-> x, y |-> y, lastUpdatedTime |-> l]
  BY <1>4, <1>5
<1> QED BY <1>2, <1>3, <1>6 DEF f, l, IsChanged

LEMMA AddPointAdds ==
    ASSUME NEW s \in AllSeries, NEW id \in SeriesIds, NEW p \in Seq(Point),
           s[id].data = Indexed(p), NEW q \in Point,
           NEW r, r = Charts!AddPoint(s, id, q)
    PROVE  /\ r \in AllSeries /\ r[id].data = Indexed(Append(p, q))
           /\ \A c \in AllIds \ {id} : IsLike(r[c], s[c])
           /\ AxesWiden(s, r) /\ AxesSpan(r, id, q)
<1> DEFINE widens(c) == Charts!Widens(c, id)
           data == Append(s[id].data, [t |-> Len(s[id].data), x |-> q.x, y |-> q.y])
           x(c) == Charts!updateRange(s[c].x, q.x)
           y(c) == Charts!updateRange(s[c].y, q.y)
           own == [data |-> data,
                   x |-> IF id \in HighestValue THEN x(id) ELSE s[id].x,
                   y |-> IF id \in HighestValue \ Charts!CategorySeries THEN y(id)
                         ELSE s[id].y,
                   lastUpdatedTime |-> s[id].lastUpdatedTime]
           other(c) == [data |-> s[c].data, x |-> x(c), y |-> y(c),
                        lastUpdatedTime |-> s[c].lastUpdatedTime]
           value(c) == IF c = id THEN own ELSE IF widens(c) THEN other(c) ELSE s[c]
<1>1. id \in AllIds /\ id \notin DOMAIN Members
      /\ \A c : Charts!Widens(c, id) => c \in AllIds /\ c # id
  <2>1. id \in AllIds /\ id \notin DOMAIN Members
    BY Ids
  <2>2. \A c : Charts!Widens(c, id) => c \in AllIds \cap DOMAIN Members
    BY Ids DEF Charts!Widens
  <2> QED BY <2>1, <2>2
<1>2. ASSUME NEW c \in AllIds
      PROVE  /\ s[c] \in Series /\ s[c].x \in Axis /\ s[c].y \in Axis
             /\ s[c].data \in Seq(IndexedPoint) /\ s[c].lastUpdatedTime \in Int
             /\ s[c] = [data |-> s[c].data, x |-> s[c].x, y |-> s[c].y,
                        lastUpdatedTime |-> s[c].lastUpdatedTime]
             /\ Wider(s[c].x, s[c].x) /\ Wider(s[c].y, s[c].y)
  <2>1. s[c] \in Series
    BY DEF AllSeries
  <2>2. s[c].x \in Axis /\ s[c].y \in Axis
    BY <2>1 DEF Series
  <2> QED BY <2>1, <2>2 DEF Series, Axis, Wider
<1>3. q.x \in Int /\ q.y \in Int
  BY DEF Point
<1>4. ASSUME NEW c \in AllIds
      PROVE  /\ x(c) \in Axis /\ Wider(s[c].x, x(c)) /\ Within(x(c), q.x)
             /\ y(c) \in Axis /\ Wider(s[c].y, y(c)) /\ Within(y(c), q.y)
  BY <1>2, <1>3, RangeUpdated
<1>5. data = Indexed(Append(p, q)) /\ data \in Seq(IndexedPoint)
  <2>1. data = Indexed(Append(p, q))
    BY PointIndexed
  <2>2. Append(p, q) \in Seq(Point)
    BY Appended
  <2> QED BY <2>1, <2>2, IndexedPoints
<1>6. r = [c \in AllIds |-> value(c)]
  <2>1. DOMAIN s = AllIds
    BY DEF AllSeries
  <2>2. r = [c \in AllIds |->
               IF c = id
               THEN [s[c] EXCEPT
                       !.data = data,
                       !.x = IF id \in HighestValue THEN x(id) ELSE s[id].x,
                       !.y = IF id \in HighestValue \ Charts!CategorySeries THEN y(id)
                             ELSE s[id].y]
               ELSE IF widens(c) THEN [s[c] EXCEPT !.x = x(c), !.y = y(c)] ELSE s[c]]
    BY <1>1, <2>1 DEF Charts!AddPoint
  <2> HIDE DEF widens, data, x, y
  <2>3. ASSUME NEW c \in AllIds
        PROVE  [s[c] EXCEPT !.x = x(c), !.y = y(c)] = other(c)
    <3> DEFINE a == s[c]
               x1 == x(c)
               y1 == y(c)
    <3>1. a \in Series
      BY <1>2
    <3> HIDE DEF a, x1, y1
    <3>2. IsChanged(a, 0, x1, y1)
      BY <3>1, SeriesChanged
    <3> QED BY <3>2 DEF IsChanged, a, x1, y1, other
  <2>4. [s[id] EXCEPT
           !.data = data,
           !.x = IF id \in HighestValue THEN x(id) ELSE s[id].x,
           !.y = IF id \in HighestValue \ Charts!CategorySeries THEN y(id)
                 ELSE s[id].y] = own
    <3> DEFINE a == s[id]
               x1 == IF id \in HighestValue THEN x(id) ELSE s[id].x
               y1 == IF id \in HighestValue \ Charts!CategorySeries THEN y(id) ELSE s[id].y
    <3>1. a \in Series
      BY <1>1, <1>2
    <3> HIDE DEF a, x1, y1
    <3>2. IsChanged(a, data, x1, y1)
      BY <3>1, SeriesChanged
    <3> QED BY <3>2 DEF IsChanged, a, x1, y1, own
  <2> HIDE DEF own, other
  <2> QED BY <1>1, <2>2, <2>3, <2>4
<1> HIDE DEF widens, data, x, y
<1>7. /\ own \in Series /\ own.data = data
      /\ Wider(s[id].x, own.x) /\ Wider(s[id].y, own.y)
      /\ id \in HighestValue => Within(own.x, q.x)
      /\ id \in HighestValue \ Charts!CategorySeries => Within(own.y, q.y)
  BY <1>1, <1>2, <1>4, <1>5 DEF Series
<1>8. ASSUME NEW c \in AllIds
      PROVE  /\ other(c) \in Series /\ IsLike(other(c), s[c])
             /\ Wider(s[c].x, other(c).x) /\ Wider(s[c].y, other(c).y)
             /\ Within(other(c).x, q.x) /\ Within(other(c).y, q.y)
  BY <1>2, <1>4 DEF Series, IsLike
<1> HIDE DEF own, other
<1>9. \A c \in AllIds : r[c] = value(c)
  BY <1>6
<1>10. r \in AllSeries
  <2>1. \A c \in AllIds : value(c) \in Series
    BY <1>2, <1>7, <1>8
  <2> HIDE DEF value
  <2> QED BY <1>6, <2>1 DEF AllSeries
<1>11. r[id].data = Indexed(Append(p, q)) /\ \A c \in AllIds \ {id} : IsLike(r[c], s[c])
  <2>1. \A c \in AllIds : IsLike(s[c], s[c])
    BY DEF IsLike
  <2> QED BY <1>1, <1>5, <1>7, <1>8, <1>9, <2>1
<1>12. AxesWiden(s, r)
  BY <1>2, <1>7, <1>8, <1>9 DEF AxesWiden
<1>13. AxesSpan(r, id, q)
  <2>1. ASSUME id \in HighestValue \cap XYSeries PROVE Spans(r[id], q)
    <3>1. id \in HighestValue \ Charts!CategorySeries
      BY <2>1, Ids
    <3> QED BY <1>1, <1>7, <1>9, <2>1, <3>1 DEF Spans, Within
  <2>2. ASSUME NEW c \in Charts!InCollections(id), c \in HighestValue PROVE Spans(r[c], q)
    <3>1. widens(c) /\ c \in AllIds /\ c # id
      BY <1>1, <2>2 DEF widens, Charts!Widens
    <3>2. r[c] = other(c)
      BY <1>9, <3>1
    <3> QED BY <1>8, <3>1, <3>2 DEF Spans, Within
  <2> QED BY <2>1, <2>2 DEF AxesSpan
<1> QED BY <1>10, <1>11, <1>12, <1>13

AddPointLoop(id) == Loop("point", id)

LEMMA AddPointsAdds ==
    ASSUME NEW s \in AllSeries, NEW id \in SeriesIds, NEW p \in Seq(Point),
           s[id].data = Indexed(p), NEW points \in Seq(Point)
    PROVE  Changes(s, id, Indexed(p \o points), points, Charts!AddPoints(s, id, points))
<1> DEFINE n == Len(points)
           First(i) == SubSeq(points, 1, i)
           Added(r, i) == Changes(s, id, Indexed(p \o First(i)), First(i), r)
           T == [i \in 0..n |-> {r \in AllSeries : Added(r, i)}]
           end == Charts!AddPoints(s, id, points)
<1>1. n \in Nat /\ DOMAIN points = 1..n /\ \A i \in 1..n : points[i] \in Point
  BY LenProperties, ElementOfSeq
<1>2. Leads(AddPointLoop(id), s, points, n, end)
  BY <1>1, AddPointsLead DEF AddPointLoop
<1>3. s \in T[0]
  <2>1. First(0) = << >> /\ DOMAIN << >> = {} /\ 0 \in 0..n
    BY <1>1, SubSeqEmpty
  <2>2. p \o << >> = p
    BY ConcatEmptySeq
  <2>3. AxesWiden(s, s)
    BY AxesStay
  <2>4. Added(s, 0)
    BY <2>1, <2>2, <2>3 DEF Changes, IsLike
  <2> HIDE DEF Added
  <2> QED BY <2>1, <2>4
<1>4. \A i \in 0..n-1 : \A a \in T[i] : Body(AddPointLoop(id), a, points[i + 1]) \in T[i + 1]
  <2> SUFFICES ASSUME NEW i \in 0..n-1, NEW a \in T[i]
               PROVE  Body(AddPointLoop(id), a, points[i + 1]) \in T[i + 1]
    OBVIOUS
  <2> DEFINE q == points[i + 1]
             f == First(i)
             g == First(i + 1)
             r == Charts!AddPoint(a, id, q)
  <2>1. i \in 0..n /\ i + 1 \in 0..n /\ i + 1 \in 1..n /\ i < n
    BY <1>1
  <2>2. a \in AllSeries /\ Added(a, i)
    <3> HIDE DEF Added
    <3> QED BY <2>1
  <2>3. /\ f \in Seq(Point) /\ g = Append(f, q) /\ q \in Point
        /\ Len(f) = i
    BY <1>1, <2>1, Firsts
  <2>4. /\ a[id].data = Indexed(p \o f) /\ AxesWiden(s, a)
        /\ (\A c \in AllIds \ {id} : IsLike(a[c], s[c]))
        /\ \A j \in DOMAIN f : AxesSpan(a, id, f[j])
    BY <2>2 DEF Changes
  <2> HIDE DEF q, f, g, r, First
  <2>5. p \o f \in Seq(Point) /\ p \o g = Append(p \o f, q)
    BY <2>3, ConcatProperties, ConcatAppend
  <2>6. /\ r \in AllSeries /\ r[id].data = Indexed(Append(p \o f, q))
        /\ (\A c \in AllIds \ {id} : IsLike(r[c], a[c]))
        /\ AxesWiden(a, r) /\ AxesSpan(r, id, q)
    <3> DEFINE d == p \o f
    <3>1. d \in Seq(Point) /\ a[id].data = Indexed(d)
      BY <2>4, <2>5
    <3> HIDE DEF d
    <3>2. /\ r \in AllSeries /\ r[id].data = Indexed(Append(d, q))
          /\ (\A c \in AllIds \ {id} : IsLike(r[c], a[c]))
          /\ AxesWiden(a, r) /\ AxesSpan(r, id, q)
      BY <2>2, <2>3, <3>1, AddPointAdds DEF r
    <3> QED BY <3>2 DEF d
  <2>7. AxesWiden(s, r)
    BY <2>2, <2>4, <2>6, AxesWidenFurther
  <2>8. ASSUME NEW j \in DOMAIN g PROVE AxesSpan(r, id, g[j])
    <3>1. /\ g \in Seq(Point) /\ DOMAIN g = 1..i+1 /\ DOMAIN f = 1..i
          /\ (\A k \in 1..i : g[k] = f[k]) /\ g[i + 1] = q
      BY <2>3, Appended, LenProperties
    <3>2. CASE j = i + 1
      BY <2>6, <3>1, <3>2
    <3>3. CASE j # i + 1
      <4>1. j \in 1..i
        BY <2>1, <3>1, <3>3
      <4>2. f[j] \in Point /\ AxesSpan(a, id, f[j])
        BY <2>3, <2>4, <3>1, <4>1, ElementOfSeq
      <4> QED BY <2>2, <2>6, <3>1, <4>1, <4>2, AxesSpanStill
    <3> QED BY <3>2, <3>3
  <2>9. Changes(s, id, Indexed(p \o g), g, r)
    BY <2>4, <2>5, <2>6, <2>7, <2>8 DEF Changes, IsLike
  <2>10. Body(AddPointLoop(id), a, q) = r
    BY DEF Body, Loop, AddPointLoop, r
  <2>11. Added(r, i + 1)
    BY <2>9 DEF g
  <2> HIDE DEF Added
  <2> QED BY <2>1, <2>6, <2>10, <2>11 DEF q
<1>5. end \in T[n]
  <2> HIDE DEF n, T, end
  <2> QED BY <1>1, <1>2, <1>3, <1>4, LeadsInduction, Zenon
<1>6. Added(end, n) /\ First(n) = points
  <2>1. n \in 0..n
    BY <1>1
  <2>2. First(n) = points
    BY SubSeqFull
  <2> HIDE DEF Added, end, First
  <2> QED BY <1>5, <2>1, <2>2
<1> QED BY <1>6

---------------------------------------------------------------------------
(* The charts after the events E have been applied. *)

ChartStates(E) ==
    {a \in [series : AllSeries, undo : Seq(ChartUndo)] :
        ChartsShow(a.series, a.undo) /\ Events(a.undo) = E}

LEMMA UndoEvents ==
    ASSUME NEW u \in Seq(ChartUndo)
    PROVE  /\ Events(u) \in Seq(ChartEvent) /\ Len(Events(u)) = Len(u) /\ Len(u) \in Nat
           /\ DOMAIN u = 1..Len(u)
           /\ \A i \in 1..Len(u) : u[i] \in ChartUndo /\ Events(u)[i] = u[i].event
<1>1. \A x \in ChartUndo : x.event \in ChartEvent
  BY DEF ChartUndo
<1>2. /\ Events(u) \in Seq(ChartEvent) /\ Len(Events(u)) = Len(u)
      /\ \A i \in 1..Len(u) : Events(u)[i] = u[i].event
  BY <1>1, EventsOf
<1> QED BY <1>2, LenProperties, ElementOfSeq

LEMMA EventsAppended ==
    ASSUME NEW u \in Seq(ChartUndo), NEW x \in ChartUndo
    PROVE  Events(Append(u, x)) = Append(Events(u), x.event)
<1> DEFINE v == Append(u, x)
           n == Len(u)
           E == Events(u)
           e == x.event
<1>1. /\ v \in Seq(ChartUndo) /\ Len(v) = n + 1 /\ n \in Nat
      /\ (\A i \in 1..n : v[i] = u[i]) /\ v[n + 1] = x
  BY Appended, LenProperties
<1>2. E \in Seq(ChartEvent) /\ Len(E) = n /\ \A i \in 1..n : E[i] = u[i].event
  BY UndoEvents
<1> HIDE DEF v
<1>3. /\ Events(v) \in Seq(ChartEvent) /\ Len(Events(v)) = n + 1
      /\ \A i \in 1..n+1 : Events(v)[i] = v[i].event
  BY <1>1, UndoEvents
<1>4. e \in ChartEvent
  BY DEF ChartUndo
<1> HIDE DEF n, E
<1>5. /\ Append(E, e) \in Seq(ChartEvent) /\ Len(Append(E, e)) = n + 1
      /\ (\A i \in 1..n : Append(E, e)[i] = E[i]) /\ Append(E, e)[n + 1] = e
  BY <1>2, <1>4, Appended
<1>6. ASSUME NEW i \in 1..n+1 PROVE Events(v)[i] = Append(E, e)[i]
  <2>1. i \in 1..n \/ i = n + 1
    BY <1>1
  <2> QED BY <1>1, <1>2, <1>3, <1>5, <2>1
<1>7. Events(v) = Append(E, e)
  BY <1>3, <1>5, <1>6, SeqEqual
<1> QED BY <1>7 DEF v, E

(* One more event on what is shown. *)
IsMore(s, u, e, data, r, x) ==
    /\ s \in AllSeries /\ u \in Seq(ChartUndo) /\ ChartsShow(s, u)
    /\ e \in EventOn(AllIds) /\ data \in Seq(IndexedPoint)
    /\ Changes(s, e.seriesId, data, e.points, r)
    /\ data = Shown(Append(Events(u), e), Len(u) + 1, e.seriesId)
    /\ x = Charts!Undo(e, s[e.seriesId].data, data)

LEMMA ShowsMore ==
    ASSUME NEW s, NEW u, NEW e, NEW data, NEW r, NEW x, IsMore(s, u, e, data, r, x)
    PROVE  x \in ChartUndo /\ x.event = e /\ ChartsShow(r, Append(u, x))
<1> SUFFICES ASSUME s \in AllSeries, u \in Seq(ChartUndo), ChartsShow(s, u),
                    e \in EventOn(AllIds), data \in Seq(IndexedPoint),
                    Changes(s, e.seriesId, data, e.points, r),
                    data = Shown(Append(Events(u), e), Len(u) + 1, e.seriesId),
                    x = Charts!Undo(e, s[e.seriesId].data, data)
             PROVE  x \in ChartUndo /\ x.event = e /\ ChartsShow(r, Append(u, x))
  BY DEF IsMore
<1> DEFINE n == Len(u)
           E == Events(u)
           F == Append(E, e)
           id == e.seriesId
           v == Append(u, x)
<1>1. e \in ChartEvent /\ id \in AllIds /\ FitsKind(e)
  BY DEF EventOn
<1>2. id \in SeriesIds /\ e.points \in Seq(Point)
  BY <1>1, ChartEventFields DEF SeriesIds
<1>3. /\ E \in Seq(ChartEvent) /\ Len(E) = n /\ n \in Nat /\ DOMAIN u = 1..n
      /\ \A i \in 1..n : u[i] \in ChartUndo /\ E[i] = u[i].event
  BY UndoEvents
<1>4. DOMAIN s = AllIds /\ DOMAIN r = AllIds /\ r \in AllSeries
  BY DEF AllSeries, Changes
<1>5. /\ \A i \in 1..n : u[i].event \in EventOn(AllIds)
      /\ \A i \in 1..n :
            LET o == u[i].event
            IN  /\ u[i] = Charts!Undo(o, Shown(E, i - 1, o.seriesId), Shown(E, i, o.seriesId))
                /\ \A j \in DOMAIN o.points : AxesSpan(s, o.seriesId, o.points[j])
      /\ \A c \in AllIds : s[c].data = Shown(E, n, c)
  BY <1>3, <1>4 DEF ChartsShow
<1>6. x \in ChartUndo /\ x.event = e
  <2> DEFINE before == s[id].data
             old == IF e.kind = "XYSeriesClear" THEN before ELSE << >>
             range == [first |-> Len(before), second |-> Len(data)]
  <2>1. before \in Seq(IndexedPoint)
    BY <1>1 DEF AllSeries, Series
  <2> HIDE DEF before
  <2>2. range \in [first : Nat, second : Nat] /\ old \in Seq(IndexedPoint)
    BY <2>1, LenProperties
  <2>3. x = [event |-> e, range |-> range, oldData |-> old]
    BY DEF Charts!Undo, before
  <2> HIDE DEF range, old
  <2> QED BY <1>1, <2>2, <2>3 DEF ChartUndo
<1>7. /\ v \in Seq(ChartUndo) /\ Len(v) = n + 1 /\ DOMAIN v = 1..n+1
      /\ (\A i \in 1..n : v[i] = u[i]) /\ v[n + 1] = x
  BY <1>6, Appended
<1>8. Events(v) = F
  BY <1>6, EventsAppended
<1>9. /\ F \in Seq(ChartEvent) /\ Len(F) = n + 1 /\ F[n + 1] = e
      /\ \A i \in 0..n : SubSeq(F, 1, i) = SubSeq(E, 1, i)
  BY <1>1, <1>3, Appended
<1>10. \A c : \A i \in 0..n : Shown(F, i, c) = Shown(E, i, c)
  BY <1>9 DEF Shown
<1>11. Changes(s, id, data, e.points, r) /\ data = Shown(F, n + 1, id)
       /\ x = Charts!Undo(e, s[id].data, data)
  OBVIOUS
<1> HIDE DEF n, E, F, id, v
<1>12. \A c \in AllIds : r[c].data = Shown(F, n + 1, c)
  <2> SUFFICES ASSUME NEW c \in AllIds, c # id PROVE r[c].data = Shown(F, n + 1, c)
    BY <1>11 DEF Changes
  <2>1. r[c].data = Shown(E, n, c)
    BY <1>5, <1>11 DEF Changes, IsLike
  <2>2. n + 1 \in 1..Len(F) /\ (n + 1) - 1 = n /\ n \in 0..n
    BY <1>3, <1>9
  <2>3. Shown(F, n + 1, c) = Shown(F, n, c)
    <3> DEFINE k == n + 1
               p == PointsApplied(SubSeq(F, 1, k - 1), c)
    <3>1. k \in 1..Len(F) /\ k - 1 = n
      BY <2>2
    <3>2. F[k].seriesId # c
      BY <1>9 DEF id
    <3> HIDE DEF k
    <3>3. /\ Shown(F, k - 1, c) = Indexed(p)
          /\ Shown(F, k, c) = IF F[k].seriesId # c THEN Indexed(p)
                              ELSE IF F[k].kind = "XYSeriesClear" THEN Indexed(<< >>)
                              ELSE Indexed(p \o F[k].points)
      <4>1. F \in Seq(ChartEvent) /\ p = PointsApplied(SubSeq(F, 1, k - 1), c)
        BY <1>9
      <4> HIDE DEF p
      <4> QED BY <3>1, <4>1, ShownOn
    <3> HIDE DEF p
    <3>4. Shown(F, k - 1, c) = Shown(F, k, c)
      BY <3>2, <3>3
    <3> QED BY <3>1, <3>4 DEF k
  <2> QED BY <1>10, <2>1, <2>2, <2>3
<1>13. ASSUME NEW i \in 1..n+1
       PROVE  LET o == v[i].event
              IN  /\ o \in EventOn(AllIds)
                  /\ v[i] = Charts!Undo(o, Shown(F, i - 1, o.seriesId),
                                           Shown(F, i, o.seriesId))
                  /\ \A j \in DOMAIN o.points : AxesSpan(r, o.seriesId, o.points[j])
  <2>1. CASE i \in 1..n
    <3> DEFINE o == u[i].event
    <3>1. /\ o \in EventOn(AllIds)
          /\ u[i] = Charts!Undo(o, Shown(E, i - 1, o.seriesId), Shown(E, i, o.seriesId))
          /\ \A j \in DOMAIN o.points : AxesSpan(s, o.seriesId, o.points[j])
      BY <1>5, <2>1
    <3>2. v[i] = u[i] /\ i - 1 \in 0..n /\ i \in 0..n
      BY <1>3, <1>7, <2>1
    <3> HIDE DEF o
    <3>3. o.seriesId \in SeriesIds /\ o.points \in Seq(Point)
      BY <3>1, ChartEventFields DEF EventOn, SeriesIds
    <3>4. AxesWiden(s, r)
      BY <1>11 DEF Changes
    <3>5. \A j \in DOMAIN o.points : AxesSpan(r, o.seriesId, o.points[j])
      <4>1. \A j \in DOMAIN o.points : o.points[j] \in Point
        BY <3>3, ElementOfSeq, LenProperties
      <4> QED BY <1>4, <3>1, <3>3, <3>4, <4>1, AxesSpanStill
    <3> QED BY <1>10, <3>1, <3>2, <3>5 DEF o
  <2>2. CASE i = n + 1
    <3>1. v[i] = x /\ x.event = e /\ (n + 1) - 1 = n /\ n \in 0..n
      BY <1>3, <1>6, <1>7, <2>2
    <3>2. s[id].data = Shown(F, n, id)
      BY <1>1, <1>5, <1>10, <3>1 DEF id
    <3>3. \A j \in DOMAIN e.points : AxesSpan(r, id, e.points[j])
      BY <1>11 DEF Changes
    <3> QED BY <1>11, <2>2, <3>1, <3>2, <3>3 DEF id
  <2>3. i \in 1..n \/ i = n + 1
    BY <1>3
  <2> QED BY <2>1, <2>2, <2>3
<1>14. ChartsShow(r, v)
  <2>1. r \in [DOMAIN r -> Series]
    BY <1>4 DEF AllSeries
  <2> QED BY <1>4, <1>7, <1>8, <1>12, <1>13, <2>1 DEF ChartsShow
<1> QED BY <1>6, <1>14 DEF v

ChartLoop(time) == Loop("chart", time)
FakeLoop(time) == Loop("fake", time)

(* All that an event leaves as it was, and when a category series was last *)
(* given a value.                                                          *)
IsRefreshed(s, e, time, r) ==
    /\ \A c \in AllIds \ {e.seriesId} : IsLike(r[c], s[c])
    /\ e.kind = "CategorySeriesAddValue" => r[e.seriesId].lastUpdatedTime = time

LEMMA HandleChartEvent ==
    ASSUME NEW E \in Seq(ChartEvent), NEW a \in ChartStates(E), NEW e \in EventOn(AllIds),
           NEW time \in Int
    PROVE  /\ Charts!HandleEvent(a, e, time) \in ChartStates(Append(E, e))
           /\ IsRefreshed(a.series, e, time, Charts!HandleEvent(a, e, time).series)
<1> DEFINE s == a.series
           u == a.undo
           id == e.seriesId
           p == PointsApplied(E, id)
           data == IF e.kind = "XYSeriesClear" THEN Indexed(<< >>) ELSE Indexed(p \o e.points)
           cleared == IF e.kind = "XYSeriesClear" THEN [s EXCEPT ![id].data = << >>]
                      ELSE Charts!AddPoints(s, id, e.points)
           changed == IF e.kind = "CategorySeriesAddValue"
                      THEN [cleared EXCEPT ![id].lastUpdatedTime = time] ELSE cleared
           n == Len(u)
           F == Append(E, e)
<1>1. e \in ChartEvent /\ id \in AllIds /\ FitsKind(e)
  BY DEF EventOn
<1>2. id \in SeriesIds /\ e.points \in Seq(Point)
  BY <1>1, ChartEventFields DEF SeriesIds
<1>3. /\ s \in AllSeries /\ u \in Seq(ChartUndo) /\ ChartsShow(s, u) /\ Events(u) = E
  BY DEF ChartStates
<1>4. n \in Nat /\ Len(E) = n
  BY <1>3, UndoEvents
<1>5. p \in Seq(Point) /\ s[id].data = Indexed(p)
  <2>1. s[id].data = Shown(E, n, id)
    <3>1. DOMAIN s = AllIds
      BY <1>3 DEF AllSeries
    <3> QED BY <1>1, <1>3, <3>1 DEF ChartsShow
  <2>2. SubSeq(E, 1, n) = E
    BY <1>4, SubSeqFull
  <2> QED BY <2>1, <2>2, PointsArePoints DEF Shown
<1>6. /\ F \in Seq(ChartEvent) /\ Len(F) = n + 1 /\ n + 1 \in 1..Len(F) /\ (n + 1) - 1 = n
      /\ F[n + 1] = e /\ SubSeq(F, 1, n) = E
  <2>1. n \in 0..n /\ SubSeq(E, 1, n) = E
    BY <1>4, SubSeqFull
  <2> QED BY <1>1, <1>4, <2>1, Appended
<1>7. data = Shown(F, n + 1, id)
  <2> DEFINE k == n + 1
  <2>1. k \in 1..Len(F) /\ p = PointsApplied(SubSeq(F, 1, k - 1), id) /\ F[k] = e
    BY <1>6
  <2> HIDE DEF k, F, p
  <2>2. Shown(F, k, id) = IF F[k].seriesId # id THEN Indexed(p)
                          ELSE IF F[k].kind = "XYSeriesClear" THEN Indexed(<< >>)
                          ELSE Indexed(p \o F[k].points)
    BY <1>6, <2>1, ShownOn
  <2> QED BY <2>1, <2>2 DEF k
<1>8. data \in Seq(IndexedPoint)
  <2>1. p \o e.points \in Seq(Point) /\ << >> \in Seq(Point)
    BY <1>2, <1>5, ConcatProperties
  <2> QED BY <2>1, IndexedPoints
<1>9. Changes(s, id, data, e.points, cleared)
  <2>1. CASE e.kind = "XYSeriesClear"
    <3> DEFINE r == [s EXCEPT ![id].data = << >>]
    <3>1. e.points = << >> /\ DOMAIN << >> = {}
      BY <1>1, <2>1 DEF FitsKind
    <3>2. data = << >>
      BY <2>1, NothingIsShown DEF NothingShown
    <3>3. ASSUME NEW c \in AllIds
          PROVE  /\ r[c] \in Series /\ r[c].x = s[c].x /\ r[c].y = s[c].y
                 /\ r[c].data = IF c = id THEN << >> ELSE s[c].data
                 /\ c # id => IsLike(r[c], s[c])
      <4>1. s[c] \in Series
        BY <1>3 DEF AllSeries
      <4>2. r[c] = IF c = id THEN [s[c] EXCEPT !.data = << >>] ELSE s[c]
        BY <1>3 DEF AllSeries
      <4>3. << >> \in Seq(IndexedPoint)
        OBVIOUS
      <4> HIDE DEF r
      <4>4. CASE c = id
        <5> DEFINE a1 == s[c]
                   b1 == [a1 EXCEPT !.data = << >>]
        <5>1. b1 \in Series /\ b1.x = a1.x /\ b1.y = a1.y /\ b1.data = << >>
          <6>1. a1 \in Series
            BY <4>1
          <6> HIDE DEF a1
          <6> QED BY <4>3, <6>1 DEF Series
        <5> HIDE DEF b1
        <5>2. r[c] = b1
          BY <4>2, <4>4 DEF b1
        <5> QED BY <4>4, <5>1, <5>2
      <4>5. CASE c # id
        BY <4>1, <4>2, <4>5 DEF IsLike
      <4> QED BY <4>4, <4>5
    <3>4. r \in AllSeries
      <4>1. r = [c \in AllIds |-> r[c]]
        BY <1>3 DEF AllSeries
      <4> HIDE DEF r
      <4> QED BY <3>3, <4>1 DEF AllSeries
    <3>5. AxesWiden(s, r)
      <4>1. AxesWiden(s, s)
        BY <1>3, AxesStay
      <4> HIDE DEF r
      <4> QED BY <3>3, <4>1 DEF AxesWiden
    <3> HIDE DEF r
    <3>6. Changes(s, id, << >>, << >>, r)
      BY <1>1, <3>1, <3>3, <3>4, <3>5 DEF Changes
    <3> QED BY <2>1, <3>1, <3>2, <3>6 DEF r
  <2>2. CASE e.kind # "XYSeriesClear"
    <3> DEFINE points == e.points
    <3>1. points \in Seq(Point)
      BY <1>2
    <3> HIDE DEF p, points, s, id
    <3>2. Changes(s, id, Indexed(p \o points), points, Charts!AddPoints(s, id, points))
      BY <1>2, <1>3, <1>5, <3>1, AddPointsAdds
    <3> QED BY <2>2, <3>2 DEF points
  <2> QED BY <2>1, <2>2
<1> HIDE DEF s, u, id, p, data, cleared, n, F
<1>10. /\ Changes(s, id, data, e.points, changed)
       /\ e.kind = "CategorySeriesAddValue" => changed[id].lastUpdatedTime = time
  <2>1. CASE e.kind = "CategorySeriesAddValue"
    <3> DEFINE r == [cleared EXCEPT ![id].lastUpdatedTime = time]
    <3>1. cleared \in AllSeries
      BY <1>9 DEF Changes
    <3>2. ASSUME NEW c \in AllIds
          PROVE  /\ r[c] \in Series /\ r[c].data = cleared[c].data
                 /\ r[c].x = cleared[c].x /\ r[c].y = cleared[c].y
                 /\ IF c = id THEN r[c].lastUpdatedTime = time ELSE IsLike(r[c], cleared[c])
      <4>1. cleared[c] \in Series
        BY <3>1 DEF AllSeries
      <4>2. r[c] = IF c = id THEN [cleared[c] EXCEPT !.lastUpdatedTime = time] ELSE cleared[c]
        BY <3>1 DEF AllSeries
      <4> HIDE DEF r
      <4> QED BY <4>1, <4>2 DEF Series, IsLike
    <3>3. r \in AllSeries
      <4>1. r = [c \in AllIds |-> r[c]]
        BY <3>1 DEF AllSeries
      <4> HIDE DEF r
      <4> QED BY <3>2, <4>1 DEF AllSeries
    <3> HIDE DEF r
    <3>4. AxesWiden(cleared, r)
      <4>1. AxesWiden(cleared, cleared)
        BY <3>1, AxesStay
      <4> QED BY <3>2, <4>1 DEF AxesWiden
    <3>5. AxesWiden(s, r)
      <4>1. AxesWiden(s, cleared)
        BY <1>9 DEF Changes
      <4> QED BY <1>3, <3>1, <3>3, <3>4, <4>1, AxesWidenFurther
    <3>6. \A j \in DOMAIN e.points : AxesSpan(r, id, e.points[j])
      <4>1. \A j \in DOMAIN e.points : AxesSpan(cleared, id, e.points[j])
        BY <1>9 DEF Changes
      <4>2. \A j \in DOMAIN e.points : e.points[j] \in Point
        BY <1>2, ElementOfSeq, LenProperties
      <4> QED BY <1>2, <3>1, <3>3, <3>4, <4>1, <4>2, AxesSpanStill
    <3>7. Changes(s, id, data, e.points, r)
      BY <1>1, <1>9, <3>2, <3>3, <3>5, <3>6 DEF Changes, IsLike
    <3> QED BY <1>1, <2>1, <3>2, <3>7 DEF r
  <2>2. CASE e.kind # "CategorySeriesAddValue"
    BY <1>9, <2>2
  <2> QED BY <2>1, <2>2
<1> DEFINE x == Charts!Undo(e, s[id].data, data)
<1>11. changed[id].data = data
  BY <1>10 DEF Changes
<1>12. Charts!HandleEvent(a, e, time) = [series |-> changed, undo |-> Append(u, x)]
  <2>1. Charts!HandleEvent(a, e, time)
           = [series |-> changed,
              undo |-> Append(u, Charts!Undo(e, s[id].data, changed[id].data))]
    BY DEF Charts!HandleEvent, s, u, id, cleared
  <2> QED BY <1>11, <2>1
<1> HIDE DEF changed, x
<1>13. x \in ChartUndo /\ x.event = e /\ ChartsShow(changed, Append(u, x))
  <2>1. IsMore(s, u, e, data, changed, x)
    BY <1>3, <1>7, <1>8, <1>10 DEF id, n, F, x, IsMore
  <2> QED BY <2>1, ShowsMore
<1>14. Append(u, x) \in Seq(ChartUndo) /\ Events(Append(u, x)) = F
  BY <1>3, <1>13, EventsAppended, Appended DEF F
<1>15. changed \in AllSeries
  BY <1>10 DEF Changes
<1> DEFINE v == Append(u, x)
           b == [series |-> changed, undo |-> v]
<1> HIDE DEF v
<1>16. b \in [series : AllSeries, undo : Seq(ChartUndo)] /\ b.series = changed /\ b.undo = v
  BY <1>14, <1>15 DEF v
<1> HIDE DEF b
<1>17. b \in ChartStates(F)
  BY <1>13, <1>14, <1>16 DEF ChartStates, v
<1>18. IsRefreshed(s, e, time, b.series)
  <2>1. \A c \in AllIds \ {id} : IsLike(changed[c], s[c])
    BY <1>10 DEF Changes
  <2> QED BY <1>10, <1>16, <2>1 DEF IsRefreshed, id
<1> QED BY <1>12, <1>17, <1>18 DEF F, b, v, s

LEMMA ChartsHandled ==
    ASSUME NEW E \in Seq(ChartEvent), NEW a \in ChartStates(E),
           NEW due \in Seq(EventOn(AllIds)), NEW time \in Int
    PROVE  HandleCharts(a, due, time) \in ChartStates(E \o due)
<1> DEFINE n == Len(due)
           First(i) == SubSeq(due, 1, i)
           T == [i \in 0..n |-> ChartStates(E \o First(i))]
           end == HandleCharts(a, due, time)
<1>1. n \in Nat /\ DOMAIN due = 1..n /\ \A i \in 1..n : due[i] \in EventOn(AllIds)
  BY LenProperties, ElementOfSeq
<1>2. Leads(ChartLoop(time), a, due, n, end)
  BY <1>1, HandleChartsLead DEF ChartLoop
<1>3. EventOn(AllIds) \subseteq ChartEvent
  BY DEF EventOn
<1>4. a \in T[0]
  <2>1. First(0) = << >> /\ 0 \in 0..n
    BY <1>1, SubSeqEmpty
  <2>2. E \o << >> = E
    BY ConcatEmptySeq
  <2> HIDE DEF First
  <2> QED BY <2>1, <2>2
<1>5. \A i \in 0..n-1 : \A b \in T[i] : Body(ChartLoop(time), b, due[i + 1]) \in T[i + 1]
  <2> SUFFICES ASSUME NEW i \in 0..n-1, NEW b \in T[i]
               PROVE  Body(ChartLoop(time), b, due[i + 1]) \in T[i + 1]
    OBVIOUS
  <2> DEFINE e == due[i + 1]
             f == First(i)
             g == First(i + 1)
             r == Charts!HandleEvent(b, e, time)
             F == E \o f
  <2>1. i \in 0..n /\ i + 1 \in 0..n /\ i + 1 \in 1..n /\ i < n
    BY <1>1
  <2>2. f \in Seq(EventOn(AllIds)) /\ g = Append(f, e) /\ e \in EventOn(AllIds)
    BY <1>1, <2>1, Firsts
  <2>3. b \in ChartStates(F)
    <3> HIDE DEF First
    <3> QED BY <2>1
  <2>4. Body(ChartLoop(time), b, e) = r
    BY DEF Body, Loop, ChartLoop
  <2> HIDE DEF e, f, g, r
  <2>5. f \in Seq(ChartEvent) /\ e \in ChartEvent
    BY <1>3, <2>2, SeqMonotonic
  <2>6. F \in Seq(ChartEvent) /\ E \o g = Append(F, e)
    BY <2>2, <2>5, ConcatProperties, ConcatAppend
  <2> HIDE DEF F
  <2>7. r \in ChartStates(Append(F, e))
    BY <2>2, <2>3, <2>6, HandleChartEvent DEF r
  <2>8. T[i + 1] = ChartStates(E \o g)
    BY <2>1 DEF g
  <2> QED BY <2>4, <2>6, <2>7, <2>8 DEF e
<1>6. end \in T[n]
  <2> HIDE DEF n, T, end
  <2> QED BY <1>1, <1>2, <1>4, <1>5, LeadsInduction, Zenon
<1>7. n \in 0..n /\ First(n) = due
  BY <1>1, SubSeqFull
<1> HIDE DEF First, end
<1>8. end \in ChartStates(E \o due)
  BY <1>6, <1>7
<1> QED BY <1>8 DEF end

(* The fake events of one moment: any number of them comes last. *)
Fakes(time) == {e \in EventOn(AllIds) : e.fake /\ e.time = time}

MovedStates(E, time) == UNION {ChartStates(E \o f) : f \in Seq(Fakes(time))}

SomeIdle(s, time) ==
    \E id \in AutoUpdate \cap DOMAIN s : Charts!IsIdle(s[id], time)

LEMMA KeepMovingOnce ==
    ASSUME NEW E \in Seq(ChartEvent), NEW time \in Int, NEW a \in MovedStates(E, time),
           NEW id \in Seqs!ToSet(CategoryOrder)
    PROVE  LET b == Charts!KeepMoving(a, id, time)
           IN  /\ b \in MovedStates(E, time)
               /\ \A c \in AllIds \ {id} : IsLike(b.series[c], a.series[c])
               /\ IntervalIsNatural /\ id \in AutoUpdate => IsRecent(b.series[id], time)
               /\ b = a \/ (id \in AutoUpdate /\ Charts!IsIdle(a.series[id], time))
<1> DEFINE s == a.series[id]
           data == s.data
           last == Charts!Seqs!Last(data)
           e == Charts!FakeEvent(id, data, time)
           p == [x |-> last.x + AutoUpdateIncrement, y |-> last.y]
<1>1. PICK f \in Seq(Fakes(time)) : a \in ChartStates(E \o f)
  BY DEF MovedStates
<1> DEFINE idle == id \in AutoUpdate /\ Charts!IsIdle(s, time)
<1>2. CASE ~idle
  <2>1. Charts!KeepMoving(a, id, time) = a
    BY <1>2 DEF Charts!KeepMoving
  <2>2. \A c \in AllIds \ {id} : IsLike(a.series[c], a.series[c])
    BY DEF IsLike
  <2>3. id \in AutoUpdate => IsRecent(s, time)
    <3> SUFFICES ASSUME id \in AutoUpdate, s.data # << >>
                 PROVE  time - s.lastUpdatedTime <= AutoUpdateInterval
      BY DEF IsRecent
    <3>1. time - s.lastUpdatedTime < AutoUpdateInterval
      BY <1>2 DEF Charts!IsIdle
    <3>2. s.lastUpdatedTime \in Int /\ AutoUpdateInterval \in Int
      <4>1. id \in AllIds
        BY Ids DEF SeriesIds
      <4> QED BY <1>1, <4>1, SeriesAssumption DEF ChartStates, AllSeries, Series
    <3> HIDE DEF s
    <3> QED BY <3>1, <3>2
  <2> QED BY <2>1, <2>2, <2>3
<1>3. CASE idle
  <2>1. data # << >> /\ Charts!KeepMoving(a, id, time) = Charts!HandleEvent(a, e, time)
    BY <1>3 DEF Charts!KeepMoving, Charts!IsIdle
  <2>2. id \in AllIds
    BY Ids DEF SeriesIds
  <2>3. data \in Seq(IndexedPoint)
    BY <1>1, <2>2 DEF ChartStates, AllSeries, Series
  <2> HIDE DEF idle
  <2>4. last \in IndexedPoint
    <3>1. Charts!Seqs!Last(data) = data[Len(data)]
      BY DEF Charts!Seqs!Last
    <3> HIDE DEF data
    <3>2. Len(data) \in 1..Len(data)
      BY <2>1, <2>3, LenProperties, EmptySeq
    <3> QED BY <2>3, <3>1, <3>2, ElementOfSeq
  <2>5. p \in Point
    <3> HIDE DEF last
    <3>1. last.x \in Int /\ last.y \in Int
      BY <2>4 DEF IndexedPoint
    <3> QED BY <3>1, SeriesAssumption DEF Point
  <2>6. e = [kind |-> "CategorySeriesAddValue", time |-> time, seriesId |-> id,
             fake |-> TRUE, points |-> <<p>>]
    BY DEF Charts!FakeEvent
  <2> HIDE DEF p
  <2>7. <<p>> \in Seq(Point) /\ Len(<<p>>) = 1
    BY <2>5
  <2> DEFINE q == <<p>>
  <2> HIDE DEF q
  <2>8. /\ e \in ChartEvent /\ e.kind = "CategorySeriesAddValue" /\ e.points = q
        /\ e.fake /\ e.time = time /\ e.seriesId = id
    <3>1. e = [kind |-> "CategorySeriesAddValue", time |-> time, seriesId |-> id,
               fake |-> TRUE, points |-> q]
      BY <2>6 DEF q
    <3> HIDE DEF e
    <3> QED BY <2>7, <3>1 DEF ChartEvent, q
  <2> HIDE DEF e
  <2>9. e \in EventOn(AllIds)
    BY <2>2, <2>7, <2>8 DEF EventOn, FitsKind, q
  <2>10. e \in Fakes(time)
    BY <2>8, <2>9 DEF Fakes
  <2>11. /\ Fakes(time) \subseteq ChartEvent /\ f \in Seq(ChartEvent)
         /\ Append(f, e) \in Seq(Fakes(time))
    <3>1. Fakes(time) \subseteq ChartEvent
      BY DEF Fakes, EventOn
    <3> QED BY <2>10, <3>1, SeqMonotonic, Appended
  <2>12. E \o f \in Seq(ChartEvent) /\ E \o Append(f, e) = Append(E \o f, e)
    BY <2>8, <2>11, ConcatProperties, ConcatAppend
  <2> DEFINE F == E \o f
  <2>13. F \in Seq(ChartEvent) /\ a \in ChartStates(F)
    BY <1>1, <2>12
  <2> HIDE DEF F
  <2>14. /\ Charts!HandleEvent(a, e, time) \in ChartStates(Append(F, e))
         /\ IsRefreshed(a.series, e, time, Charts!HandleEvent(a, e, time).series)
    BY <2>9, <2>13, HandleChartEvent
  <2>15. Charts!HandleEvent(a, e, time) \in ChartStates(E \o Append(f, e))
    BY <2>12, <2>14 DEF F
  <2> DEFINE b == Charts!HandleEvent(a, e, time)
  <2>16. b \in MovedStates(E, time)
    BY <2>11, <2>15 DEF MovedStates
  <2> HIDE DEF b
  <2>17. /\ \A c \in AllIds \ {id} : IsLike(b.series[c], a.series[c])
         /\ b.series[id].lastUpdatedTime = time
    BY <2>8, <2>14 DEF IsRefreshed, b
  <2>18. IntervalIsNatural => IsRecent(b.series[id], time)
    <3>1. IntervalIsNatural => time - time <= AutoUpdateInterval
      BY DEF IntervalIsNatural
    <3> QED BY <2>17, <3>1 DEF IsRecent
  <2>19. Charts!KeepMoving(a, id, time) = b
    BY <2>1 DEF b
  <2> QED BY <1>3, <2>16, <2>17, <2>18, <2>19 DEF idle
<1> QED BY <1>2, <1>3

LEMMA ChartsMoved ==
    ASSUME NEW E \in Seq(ChartEvent), NEW time \in Int, NEW a \in ChartStates(E)
    PROVE  LET end == KeepAllMoving(a, CategoryOrder, time)
           IN  /\ end \in MovedStates(E, time)
               /\ IntervalIsNatural => AreRecent(end.series, time)
               /\ end = a \/ SomeIdle(a.series, time)
<1> DEFINE n == Len(CategoryOrder)
           M == MovedStates(E, time)
           Moved(b, i) ==
              /\ IntervalIsNatural =>
                    \A j \in 1..i : CategoryOrder[j] \in AutoUpdate =>
                                       IsRecent(b.series[CategoryOrder[j]], time)
              /\ b = a \/ SomeIdle(a.series, time)
           T == [i \in 0..n |-> {b \in M : Moved(b, i)}]
           end == KeepAllMoving(a, CategoryOrder, time)
<1>1. /\ n \in Nat /\ DOMAIN CategoryOrder = 1..n
      /\ \A i \in 1..n : CategoryOrder[i] \in Seqs!ToSet(CategoryOrder)
      /\ \A i \in 1..n : CategoryOrder[i] \in AllIds
  <2>1. /\ n \in Nat /\ DOMAIN CategoryOrder = 1..n
        /\ \A i \in 1..n : CategoryOrder[i] \in Seqs!ToSet(CategoryOrder)
    BY SeriesAssumption, LenProperties, ElementOfSeq
  <2> QED BY <2>1, Ids DEF SeriesIds
<1>2. Leads(FakeLoop(time), a, CategoryOrder, n, end)
  BY <1>1, KeepMovingLeads DEF FakeLoop
<1>3. a \in M
  <2>1. << >> \in Seq(Fakes(time)) /\ E \o << >> = E
    BY ConcatEmptySeq
  <2>2. ChartStates(E) \in {ChartStates(E \o f) : f \in Seq(Fakes(time))}
    BY <2>1
  <2> QED BY <2>2 DEF MovedStates
<1>4. a.series \in AllSeries
  BY DEF ChartStates
<1> HIDE DEF M, n
<1>5. a \in T[0]
  <2>1. Moved(a, 0)
    OBVIOUS
  <2> HIDE DEF Moved
  <2> QED BY <1>1, <1>3, <2>1
<1>6. \A i \in 0..n-1 : \A b \in T[i] :
          Body(FakeLoop(time), b, CategoryOrder[i + 1]) \in T[i + 1]
  <2> SUFFICES ASSUME NEW i \in 0..n-1, NEW b \in T[i]
               PROVE  Body(FakeLoop(time), b, CategoryOrder[i + 1]) \in T[i + 1]
    OBVIOUS
  <2> DEFINE id == CategoryOrder[i + 1]
             r == Charts!KeepMoving(b, id, time)
  <2>1. i \in 0..n /\ i + 1 \in 0..n /\ i + 1 \in 1..n /\ \A j \in 1..i+1 : j \in 1..n
    BY <1>1
  <2>2. b \in M /\ Moved(b, i) /\ id \in Seqs!ToSet(CategoryOrder)
    <3> HIDE DEF Moved
    <3> QED BY <1>1, <2>1
  <2>3. /\ r \in M
        /\ \A c \in AllIds \ {id} : IsLike(r.series[c], b.series[c])
        /\ IntervalIsNatural /\ id \in AutoUpdate => IsRecent(r.series[id], time)
        /\ r = b \/ (id \in AutoUpdate /\ Charts!IsIdle(b.series[id], time))
    <3> HIDE DEF id, Moved, T
    <3> QED BY <2>2, KeepMovingOnce DEF M
  <2>4. Body(FakeLoop(time), b, id) = r
    BY DEF Body, Loop, FakeLoop
  <2> HIDE DEF r
  <2>5. ASSUME IntervalIsNatural, NEW j \in 1..i+1, CategoryOrder[j] \in AutoUpdate
        PROVE  IsRecent(r.series[CategoryOrder[j]], time)
    <3> DEFINE c == CategoryOrder[j]
    <3>1. CASE c = id
      BY <2>3, <2>5, <3>1
    <3>2. CASE c # id
      <4>1. j \in 1..i
        <5>1. j # i + 1
          BY <3>2
        <5> QED BY <2>1, <5>1
      <4>2. c \in AllIds \ {id} /\ IsRecent(b.series[c], time)
        BY <1>1, <2>1, <2>2, <2>5, <3>2, <4>1
      <4> HIDE DEF c, id
      <4>3. IsLike(r.series[c], b.series[c])
        BY <2>3, <4>2
      <4>4. IsRecent(r.series[c], time)
        BY <4>2, <4>3 DEF IsRecent, IsLike
      <4> QED BY <4>4 DEF c
    <3> QED BY <3>1, <3>2
  <2>6. r = a \/ SomeIdle(a.series, time)
    <3>1. CASE b = a /\ r # b
      <4>1. id \in AutoUpdate /\ Charts!IsIdle(a.series[id], time) /\ id \in DOMAIN a.series
        BY <1>1, <1>4, <2>1, <2>3, <3>1 DEF AllSeries
      <4> QED BY <4>1 DEF SomeIdle
    <3> QED BY <2>2, <3>1
  <2>7. Moved(r, i + 1)
    BY <2>5, <2>6
  <2> HIDE DEF Moved, id
  <2> QED BY <2>1, <2>3, <2>4, <2>7 DEF id
<1>7. end \in T[n]
  <2> HIDE DEF T, end
  <2> QED BY <1>1, <1>2, <1>5, <1>6, LeadsInduction, Zenon
<1>8. end \in M /\ Moved(end, n)
  <2>1. n \in 0..n
    BY <1>1
  <2> HIDE DEF Moved, end
  <2> QED BY <1>7, <2>1
<1> HIDE DEF end
<1>9. ASSUME IntervalIsNatural PROVE AreRecent(end.series, time)
  <2> SUFFICES ASSUME NEW id \in AutoUpdate PROVE IsRecent(end.series[id], time)
    BY DEF AreRecent
  <2>1. id \in Seqs!ToSet(CategoryOrder)
    BY SeriesAssumption
  <2>2. PICK j \in 1..n : id = CategoryOrder[j]
    BY <1>1, <2>1 DEF Seqs!ToSet
  <2> QED BY <1>8, <1>9, <2>2
<1> QED BY <1>8, <1>9 DEF end, M

UndoChartLoop == Loop("undo chart", 0)

LEMMA ShownIsData ==
    ASSUME NEW E \in Seq(ChartEvent), NEW i \in 0..Len(E), NEW id
    PROVE  Shown(E, i, id) \in Seq(IndexedPoint)
<1> DEFINE F == SubSeq(E, 1, i)
<1>1. F \in Seq(ChartEvent)
  BY Firsts
<1> HIDE DEF F
<1>2. PointsApplied(F, id) \in Seq(Point)
  BY <1>1, PointsArePoints
<1> QED BY <1>2, IndexedPoints DEF Shown, F

LEMMA ShownToOthers ==
    ASSUME NEW E \in Seq(ChartEvent), NEW i \in 1..Len(E), NEW c, c # E[i].seriesId
    PROVE  Shown(E, i - 1, c) = Shown(E, i, c)
<1> DEFINE p == PointsApplied(SubSeq(E, 1, i - 1), c)
<1>1. p = PointsApplied(SubSeq(E, 1, i - 1), c)
  OBVIOUS
<1> HIDE DEF p
<1>2. /\ Shown(E, i - 1, c) = Indexed(p)
      /\ Shown(E, i, c) = IF E[i].seriesId # c THEN Indexed(p)
                          ELSE IF E[i].kind = "XYSeriesClear" THEN Indexed(<< >>)
                          ELSE Indexed(p \o E[i].points)
  BY <1>1, ShownOn
<1> QED BY <1>2

(* What undoing leaves of the category series. *)
Keeps(s, r) ==
    \A c \in Seqs!ToSet(CategoryOrder) :
        /\ r[c].lastUpdatedTime = s[c].lastUpdatedTime
        /\ r[c].data # << >> => s[c].data # << >>

(* The series s with the data of an earlier point of the tape E. *)
BackTo(s, E, i) ==
    {r \in AllSeries : /\ \A c \in AllIds : r[c].data = Shown(E, i, c)
                       /\ AxesWiden(s, r)
                       /\ Keeps(s, r)}

LEMMA ChartUndone ==
    ASSUME NEW s \in AllSeries, NEW u \in Seq(ChartUndo), ChartsShow(s, u),
           NEW E, E = Events(u), NEW m \in 1..Len(u), NEW r \in BackTo(s, E, m)
    PROVE  Charts!HandleUndo(r, u[m]) \in BackTo(s, E, m - 1)
<1> DEFINE x == u[m]
           e == x.event
           id == e.seriesId
           d == PointsUndone(x, r[id].data)
           q == [r EXCEPT ![id].data = d]
<1>1. /\ E \in Seq(ChartEvent) /\ Len(E) = Len(u) /\ Len(u) \in Nat /\ DOMAIN u = 1..Len(u)
      /\ x \in ChartUndo /\ E[m] = e
  BY UndoEvents
<1>2. DOMAIN s = AllIds
  BY DEF AllSeries
<1>3. /\ e \in EventOn(AllIds)
      /\ x = Charts!Undo(e, Shown(E, m - 1, id), Shown(E, m, id))
  BY <1>1, <1>2 DEF ChartsShow
<1>4. id \in AllIds /\ FitsKind(e)
  BY <1>3 DEF EventOn
<1>5. r \in AllSeries /\ AxesWiden(s, r) /\ Keeps(s, r)
      /\ \A c \in AllIds : r[c].data = Shown(E, m, c)
  BY DEF BackTo
<1>6. m \in 1..Len(E) /\ m - 1 \in 0..Len(E) /\ m \in 0..Len(E)
  BY <1>1
<1>7. d = Shown(E, m - 1, id)
  <2>1. r[id].data = Shown(E, m, id)
    BY <1>4, <1>5
  <2>2. x = Charts!Undo(E[m], Shown(E, m - 1, id), Shown(E, m, id)) /\ id = E[m].seriesId
        /\ FitsKind(E[m])
    BY <1>1, <1>3, <1>4
  <2> HIDE DEF x, id
  <2>3. PointsUndone(x, Shown(E, m, id)) = Shown(E, m - 1, id)
    BY <1>1, <1>6, <2>2, EventUndone
  <2> QED BY <2>1, <2>3
<1>8. d \in Seq(IndexedPoint)
  <2>1. Shown(E, m - 1, id) \in Seq(IndexedPoint)
    BY <1>1, <1>6, ShownIsData
  <2> QED BY <1>7, <2>1
<1>9. id \in Seqs!ToSet(CategoryOrder) => (d # << >> => r[id].data # << >>)
  <2> SUFFICES ASSUME id \in Seqs!ToSet(CategoryOrder), r[id].data = << >> PROVE d = << >>
    OBVIOUS
  <2>1. id \notin XYSeries
    BY SeriesAssumption
  <2>2. e.kind = "CategorySeriesAddValue"
    BY <1>3, <2>1 DEF EventOn, ChartEvent
  <2>3. d = Charts!RemovePoint(<< >>, x.range.first)
    BY <2>2 DEF PointsUndone
  <2> QED BY <2>3 DEF Charts!RemovePoint
<1>10. Charts!HandleUndo(r, x) = q
  BY DEF Charts!HandleUndo, PointsUndone
<1> HIDE DEF x, e, id, d
<1>11. ASSUME NEW c \in AllIds
       PROVE  /\ q[c] \in Series /\ q[c].x = r[c].x /\ q[c].y = r[c].y
              /\ q[c].lastUpdatedTime = r[c].lastUpdatedTime
              /\ q[c].data = IF c = id THEN d ELSE r[c].data
  <2>1. r[c] \in Series
    BY <1>5 DEF AllSeries
  <2>2. q[c] = IF c = id THEN [r[c] EXCEPT !.data = d] ELSE r[c]
    BY <1>5 DEF AllSeries
  <2> HIDE DEF q
  <2>3. CASE c = id
    <3> DEFINE a1 == r[c]
               b1 == [a1 EXCEPT !.data = d]
    <3>1. /\ b1 \in Series /\ b1.x = a1.x /\ b1.y = a1.y /\ b1.data = d
          /\ b1.lastUpdatedTime = a1.lastUpdatedTime
      <4>1. a1 \in Series
        BY <2>1
      <4> HIDE DEF a1
      <4> QED BY <1>8, <4>1 DEF Series
    <3> HIDE DEF b1
    <3>2. q[c] = b1
      BY <2>2, <2>3 DEF b1
    <3> QED BY <2>3, <3>1, <3>2
  <2>4. CASE c # id
    BY <2>1, <2>2, <2>4
  <2> QED BY <2>3, <2>4
<1>12. q \in AllSeries
  <2>1. q = [c \in AllIds |-> q[c]]
    BY <1>5 DEF AllSeries
  <2> HIDE DEF q
  <2> QED BY <1>11, <2>1 DEF AllSeries
<1> HIDE DEF q
<1>13. AxesWiden(s, q)
  BY <1>5, <1>11 DEF AxesWiden
<1>14. Keeps(s, q)
  <2> SUFFICES ASSUME NEW c \in Seqs!ToSet(CategoryOrder)
               PROVE  /\ q[c].lastUpdatedTime = s[c].lastUpdatedTime
                      /\ q[c].data # << >> => s[c].data # << >>
    BY DEF Keeps
  <2>1. c \in AllIds
    BY Ids DEF SeriesIds
  <2>2. /\ r[c].lastUpdatedTime = s[c].lastUpdatedTime
        /\ r[c].data # << >> => s[c].data # << >>
    BY <1>5 DEF Keeps
  <2> QED BY <1>9, <1>11, <2>1, <2>2
<1>15. ASSUME NEW c \in AllIds PROVE q[c].data = Shown(E, m - 1, c)
  <2>1. CASE c = id
    BY <1>7, <1>11, <2>1
  <2>2. CASE c # id
    <3>1. c # E[m].seriesId
      BY <1>1, <2>2 DEF id
    <3>2. Shown(E, m - 1, c) = Shown(E, m, c)
      BY <1>1, <1>6, <3>1, ShownToOthers
    <3> QED BY <1>5, <1>11, <2>2, <3>2
  <2> QED BY <2>1, <2>2
<1>16. q \in BackTo(s, E, m - 1)
  BY <1>12, <1>13, <1>14, <1>15 DEF BackTo
<1> QED BY <1>10, <1>16 DEF x

LEMMA ChartsUndone ==
    ASSUME NEW s \in AllSeries, NEW u \in Seq(ChartUndo), ChartsShow(s, u),
           NEW k \in 0..Len(u)
    PROVE  /\ UndoCharts(s, Undone(u, k)) \in AllSeries
           /\ ChartsShow(UndoCharts(s, Undone(u, k)), Without(u, k))
           /\ Keeps(s, UndoCharts(s, Undone(u, k)))
<1> DEFINE n == Len(u)
           E == Events(u)
           q == Undone(u, k)
           v == Without(u, k)
           m == n - k
           T == [i \in 0..k |-> BackTo(s, E, n - i)]
           end == UndoCharts(s, q)
<1>1. /\ E \in Seq(ChartEvent) /\ Len(E) = n /\ n \in Nat /\ k \in Nat /\ DOMAIN u = 1..n
      /\ m \in 0..n /\ m \in Nat
  BY UndoEvents
<1>2. DOMAIN s = AllIds
  BY DEF AllSeries
<1>3. DOMAIN q = 1..k /\ \A i \in 1..k : q[i] = u[n + 1 - i]
  BY DEF Undone
<1>4. Leads(UndoChartLoop, s, q, k, end)
  <2> HIDE DEF q
  <2> QED BY <1>1, <1>3, UndoChartsLead DEF UndoChartLoop
<1>5. s \in T[0]
  <2>1. 0 \in 0..k /\ n - 0 = n
    BY <1>1
  <2>2. \A c \in AllIds : s[c].data = Shown(E, n, c)
    BY <1>2 DEF ChartsShow
  <2>3. s \in BackTo(s, E, n)
    BY <2>2, AxesStay DEF BackTo, Keeps
  <2> QED BY <2>1, <2>3
<1>6. \A i \in 0..k-1 : \A r \in T[i] : Body(UndoChartLoop, r, q[i + 1]) \in T[i + 1]
  <2> SUFFICES ASSUME NEW i \in 0..k-1, NEW r \in T[i]
               PROVE  Body(UndoChartLoop, r, q[i + 1]) \in T[i + 1]
    OBVIOUS
  <2> DEFINE j == n - i
  <2>1. /\ i \in 0..k /\ i + 1 \in 0..k /\ i + 1 \in 1..k /\ j \in 1..n
        /\ n + 1 - (i + 1) = j /\ n - (i + 1) = j - 1
    BY <1>1
  <2>2. r \in BackTo(s, E, j) /\ q[i + 1] = u[j] /\ T[i + 1] = BackTo(s, E, j - 1)
    BY <1>3, <2>1
  <2> HIDE DEF j
  <2>3. Charts!HandleUndo(r, u[j]) \in BackTo(s, E, j - 1)
    BY <2>1, <2>2, ChartUndone
  <2>4. Body(UndoChartLoop, r, q[i + 1]) = Charts!HandleUndo(r, q[i + 1])
    BY DEF Body, Loop, UndoChartLoop
  <2> QED BY <2>2, <2>3, <2>4
<1>7. end \in T[k]
  <2> HIDE DEF q, T, end
  <2> QED BY <1>1, <1>4, <1>5, <1>6, LeadsInduction, Zenon
<1>8. end \in BackTo(s, E, m)
  <2>1. k \in 0..k
    BY <1>1
  <2> HIDE DEF end
  <2> QED BY <1>7, <2>1
<1>9. /\ end \in AllSeries /\ DOMAIN end = AllIds /\ AxesWiden(s, end) /\ Keeps(s, end)
      /\ \A c \in AllIds : end[c].data = Shown(E, m, c)
  <2> HIDE DEF end
  <2> QED BY <1>8 DEF BackTo, AllSeries
<1>10. /\ v \in Seq(ChartUndo) /\ Len(v) = m /\ DOMAIN v = 1..m
       /\ (\A i \in 1..m : v[i] = u[i]) /\ Events(v) = SubSeq(E, 1, m)
  <2>1. \A x \in ChartUndo : x.event \in ChartEvent
    BY DEF ChartUndo
  <2>2. << >> \in Seq(ChartEvent)
    OBVIOUS
  <2>3. IsRewound(ChartEvent, ChartUndo, u, << >>, k)
    BY <2>1, <2>2, Rewound
  <2> QED BY <2>3, LenProperties DEF IsRewound
<1> HIDE DEF end, v, m
<1>11. \A c : \A i \in 0..m : Shown(Events(v), i, c) = Shown(E, i, c)
  <2>1. \A c : \A i \in 0..m : Shown(SubSeq(E, 1, m), i, c) = Shown(E, i, c)
    <3> HIDE DEF n, E
    <3> QED BY <1>1, ShownFirst
  <2> QED BY <1>10, <2>1
<1>12. ASSUME NEW i \in 1..m
       PROVE  LET o == v[i].event
              IN  /\ o \in EventOn(AllIds)
                  /\ v[i] = Charts!Undo(o, Shown(Events(v), i - 1, o.seriesId),
                                           Shown(Events(v), i, o.seriesId))
                  /\ \A j \in DOMAIN o.points : AxesSpan(end, o.seriesId, o.points[j])
  <2> DEFINE o == u[i].event
  <2>1. i \in 1..n /\ i - 1 \in 0..m /\ i \in 0..m /\ v[i] = u[i]
    BY <1>1, <1>10
  <2>2. /\ o \in EventOn(AllIds)
        /\ u[i] = Charts!Undo(o, Shown(E, i - 1, o.seriesId), Shown(E, i, o.seriesId))
        /\ \A j \in DOMAIN o.points : AxesSpan(s, o.seriesId, o.points[j])
    BY <1>1, <1>2, <2>1 DEF ChartsShow
  <2> HIDE DEF o
  <2>3. o.seriesId \in SeriesIds /\ o.points \in Seq(Point)
    BY <2>2, ChartEventFields DEF EventOn, SeriesIds
  <2>4. \A j \in DOMAIN o.points : AxesSpan(end, o.seriesId, o.points[j])
    <3>1. \A j \in DOMAIN o.points : o.points[j] \in Point
      BY <2>3, ElementOfSeq, LenProperties
    <3> QED BY <1>9, <2>2, <2>3, <3>1, AxesSpanStill
  <2> QED BY <1>11, <2>1, <2>2, <2>4 DEF o
<1>13. ChartsShow(end, v)
  <2>1. end \in [DOMAIN end -> Series]
    BY <1>9 DEF AllSeries
  <2>2. m \in 0..m
    BY <1>1
  <2>3. \A c \in AllIds : end[c].data = Shown(Events(v), Len(v), c)
    BY <1>9, <1>10, <1>11, <2>2
  <2> QED BY <1>9, <1>10, <1>12, <2>1, <2>3 DEF ChartsShow
<1> QED BY <1>9, <1>13 DEF end, v

---------------------------------------------------------------------------
(* The events of a tape that are not fake. *)

LEMMA RealIsSeq ==
    ASSUME NEW S, NEW s \in Seq(S)
    PROVE  Real(s) \in Seq(S)
<1> DEFINE P == {k \in Nat : k <= Len(s) => Real(SubSeq(s, 1, k)) \in Seq(S)}
<1>1. Len(s) \in Nat
  BY LenProperties
<1>2. 0 \in P
  <2>1. SubSeq(s, 1, 0) = << >> /\ Real(<< >>) = << >>
    BY SubSeqEmpty, NoHistory
  <2>2. << >> \in Seq(S)
    OBVIOUS
  <2>3. Real(SubSeq(s, 1, 0)) \in Seq(S)
    BY <2>1, <2>2
  <2> HIDE DEF P
  <2> QED BY <2>3 DEF P
<1>3. ASSUME NEW k \in Nat, k \in P PROVE k + 1 \in P
  <2> SUFFICES ASSUME k + 1 <= Len(s) PROVE Real(SubSeq(s, 1, k + 1)) \in Seq(S)
    OBVIOUS
  <2> DEFINE f == SubSeq(s, 1, k)
             e == s[k + 1]
  <2>1. k \in 0..Len(s) /\ k < Len(s) /\ k + 1 \in 1..Len(s)
    BY <1>1
  <2>2. f \in Seq(S) /\ SubSeq(s, 1, k + 1) = Append(f, e) /\ e \in S
    BY <2>1, Firsts, ElementOfSeq
  <2>3. Real(f) \in Seq(S)
    BY <1>1, <1>3
  <2> HIDE DEF f, e
  <2>4. Real(Append(f, e)) = IF e.fake THEN Real(f) ELSE Append(Real(f), e)
    BY <2>2, RealNext
  <2>5. Append(Real(f), e) \in Seq(S)
    BY <2>2, <2>3, AppendProperties
  <2> QED BY <2>2, <2>3, <2>4, <2>5
<1>4. Len(s) \in P
  <2> HIDE DEF P
  <2> QED BY <1>1, <1>2, <1>3, Induction
<1>5. SubSeq(s, 1, Len(s)) = s
  BY SubSeqFull
<1>6. Len(s) <= Len(s)
  BY <1>1
<1> QED BY <1>4, <1>5, <1>6

LEMMA RealConcat ==
    ASSUME NEW S, NEW a \in Seq(S), NEW b \in Seq(S)
    PROVE  Real(a \o b) = Real(a) \o Real(b)
<1> DEFINE P == {k \in Nat : k <= Len(b) =>
                    Real(a \o SubSeq(b, 1, k)) = Real(a) \o Real(SubSeq(b, 1, k))}
<1>1. Len(b) \in Nat /\ Real(a) \in Seq(S)
  BY LenProperties, RealIsSeq
<1>2. 0 \in P
  <2>1. SubSeq(b, 1, 0) = << >> /\ Real(<< >>) = << >>
    BY SubSeqEmpty, NoHistory
  <2>2. a \o << >> = a /\ Real(a) \o << >> = Real(a)
    BY <1>1, ConcatEmptySeq
  <2> QED BY <2>1, <2>2
<1>3. ASSUME NEW k \in Nat, k \in P PROVE k + 1 \in P
  <2> SUFFICES ASSUME k + 1 <= Len(b)
               PROVE  Real(a \o SubSeq(b, 1, k + 1)) = Real(a) \o Real(SubSeq(b, 1, k + 1))
    OBVIOUS
  <2> DEFINE f == SubSeq(b, 1, k)
             e == b[k + 1]
             g == a \o f
  <2>1. k \in 0..Len(b) /\ k < Len(b) /\ k + 1 \in 1..Len(b)
    BY <1>1
  <2>2. f \in Seq(S) /\ SubSeq(b, 1, k + 1) = Append(f, e) /\ e \in S
    BY <2>1, Firsts, ElementOfSeq
  <2>3. Real(g) = Real(a) \o Real(f)
    BY <1>1, <1>3
  <2> HIDE DEF f, e
  <2>4. Real(f) \in Seq(S) /\ g \in Seq(S)
    BY <2>2, RealIsSeq, ConcatProperties
  <2>5. a \o Append(f, e) = Append(g, e)
    BY <2>2, ConcatAppend
  <2> HIDE DEF g
  <2>6. /\ Real(Append(f, e)) = IF e.fake THEN Real(f) ELSE Append(Real(f), e)
        /\ Real(Append(g, e)) = IF e.fake THEN Real(g) ELSE Append(Real(g), e)
    BY <2>2, <2>4, RealNext
  <2>7. Real(a) \o Append(Real(f), e) = Append(Real(a) \o Real(f), e)
    BY <1>1, <2>2, <2>4, ConcatAppend
  <2> QED BY <2>2, <2>3, <2>5, <2>6, <2>7
<1>4. Len(b) \in P
  <2> HIDE DEF P
  <2> QED BY <1>1, <1>2, <1>3, Induction
<1>5. SubSeq(b, 1, Len(b)) = b
  BY SubSeqFull
<1>6. Len(b) <= Len(b)
  BY <1>1
<1> QED BY <1>4, <1>5, <1>6

LEMMA RealOfOneKind ==
    ASSUME NEW S, NEW s \in Seq(S)
    PROVE  /\ (\A x \in S : x.fake) => Real(s) = << >>
           /\ (\A x \in S : ~x.fake) => Real(s) = s
<1> DEFINE P == {k \in Nat : k <= Len(s) =>
                    /\ (\A x \in S : x.fake) => Real(SubSeq(s, 1, k)) = << >>
                    /\ (\A x \in S : ~x.fake) => Real(SubSeq(s, 1, k)) = SubSeq(s, 1, k)}
<1>1. Len(s) \in Nat
  BY LenProperties
<1>2. 0 \in P
  <2>1. SubSeq(s, 1, 0) = << >> /\ Real(<< >>) = << >>
    BY SubSeqEmpty, NoHistory
  <2> QED BY <2>1
<1>3. ASSUME NEW k \in Nat, k \in P PROVE k + 1 \in P
  <2> SUFFICES ASSUME k + 1 <= Len(s)
               PROVE  /\ (\A x \in S : x.fake) => Real(SubSeq(s, 1, k + 1)) = << >>
                      /\ (\A x \in S : ~x.fake) =>
                            Real(SubSeq(s, 1, k + 1)) = SubSeq(s, 1, k + 1)
    OBVIOUS
  <2> DEFINE f == SubSeq(s, 1, k)
             e == s[k + 1]
  <2>1. k \in 0..Len(s) /\ k < Len(s) /\ k + 1 \in 1..Len(s)
    BY <1>1
  <2>2. f \in Seq(S) /\ SubSeq(s, 1, k + 1) = Append(f, e) /\ e \in S
    BY <2>1, Firsts, ElementOfSeq
  <2>3. /\ (\A x \in S : x.fake) => Real(f) = << >>
        /\ (\A x \in S : ~x.fake) => Real(f) = f
    BY <1>1, <1>3
  <2> HIDE DEF f, e
  <2>4. Real(Append(f, e)) = IF e.fake THEN Real(f) ELSE Append(Real(f), e)
    BY <2>2, RealNext
  <2> QED BY <2>2, <2>3, <2>4
<1>4. Len(s) \in P
  <2> HIDE DEF P
  <2> QED BY <1>1, <1>2, <1>3, Induction
<1>5. SubSeq(s, 1, Len(s)) = s
  BY SubSeqFull
<1>6. Len(s) <= Len(s)
  BY <1>1
<1> QED BY <1>4, <1>5, <1>6

(* Neither the events that are moved over nor fake ones count. *)
LEMMA RealAdvances ==
    ASSUME NEW S, NEW E \in Seq(S), NEW e \in Seq(S), NEW d \in 0..Len(e),
           NEW f \in Seq({x \in S : x.fake})
    PROVE  Real(((E \o SubSeq(e, 1, d)) \o f) \o Rest(e, d)) = Real(E \o e)
<1> DEFINE due == SubSeq(e, 1, d)
           r == Rest(e, d)
           F == {x \in S : x.fake}
<1>1. due \in Seq(S) /\ r \in Seq(S) /\ due \o r = e
  BY Firsts, Advanced
<1>2. f \in Seq(S) /\ Real(f) = << >>
  <2>1. F \subseteq S /\ \A x \in F : x.fake
    OBVIOUS
  <2>2. f \in Seq(F)
    OBVIOUS
  <2> HIDE DEF F
  <2> QED BY <2>1, <2>2, SeqMonotonic, RealOfOneKind
<1> HIDE DEF due, r
<1>3. /\ E \o due \in Seq(S) /\ (E \o due) \o f \in Seq(S)
      /\ Real(E) \in Seq(S) /\ Real(due) \in Seq(S) /\ Real(r) \in Seq(S)
      /\ Real(E) \o Real(due) \in Seq(S)
  BY <1>1, <1>2, ConcatProperties, RealIsSeq
<1>4. Real(((E \o due) \o f) \o r) = Real((E \o due) \o f) \o Real(r)
  BY <1>1, <1>3, RealConcat
<1>5. Real((E \o due) \o f) = Real(E \o due) \o Real(f)
  BY <1>2, <1>3, RealConcat
<1>6. Real(E \o due) = Real(E) \o Real(due)
  BY <1>1, RealConcat
<1>7. (Real(E) \o Real(due)) \o << >> = Real(E) \o Real(due)
  BY <1>3, ConcatEmptySeq
<1>8. (Real(E) \o Real(due)) \o Real(r) = Real(E) \o (Real(due) \o Real(r))
  <2> DEFINE x == Real(E)
             y == Real(due)
             z == Real(r)
  <2>1. x \in Seq(S) /\ y \in Seq(S) /\ z \in Seq(S)
    BY <1>3
  <2> HIDE DEF x, y, z
  <2>2. (x \o y) \o z = x \o (y \o z)
    BY <2>1, ConcatAssociative, SMTT(20)
  <2> QED BY <2>2 DEF x, y, z
<1>9. Real(due) \o Real(r) = Real(e) /\ Real(E) \o Real(e) = Real(E \o e)
  BY <1>1, RealConcat
<1> QED BY <1>2, <1>4, <1>5, <1>6, <1>7, <1>8, <1>9 DEF due, r

---------------------------------------------------------------------------
(* The charts go forward and backward. *)

LEMMA NoSeries ==
    ASSUME NEW s, NEW u, NEW e, NEW tape, ChartsAt(tape, s, u, e), DOMAIN s = {}
    PROVE  s = << >> /\ u = << >> /\ e = << >>
<1>1. EventOn({}) = {}
  BY DEF EventOn
<1>2. e = << >>
  <2> DEFINE n == Len(e)
  <2>1. e \in Seq(EventOn({}))
    BY DEF ChartsAt
  <2>2. n \in Nat /\ \A i \in 1..n : e[i] \in EventOn({})
    BY <2>1, LenProperties, ElementOfSeq
  <2> HIDE DEF n
  <2>3. n = 0
    <3>1. n # 0 => 1 \in 1..n
      BY <2>2
    <3> QED BY <1>1, <2>2, <3>1
  <2> QED BY <2>1, <2>3, EmptySeq DEF n
<1>3. u = << >>
  <2> DEFINE n == Len(u)
  <2>1. u \in Seq(ChartUndo) /\ \A i \in DOMAIN u : u[i].event \in EventOn({})
    BY DEF ChartsAt, ChartsShow
  <2>2. n \in Nat /\ DOMAIN u = 1..n
    BY <2>1, LenProperties
  <2> HIDE DEF n
  <2>3. n = 0
    <3>1. n # 0 => 1 \in 1..n
      BY <2>2
    <3> QED BY <1>1, <2>1, <2>2, <3>1
  <2> QED BY <2>1, <2>3, EmptySeq DEF n
<1>4. s = << >>
  <2>1. s \in [{} -> Series]
    BY DEF ChartsAt, ChartsShow
  <2> QED BY <2>1
<1> QED BY <1>2, <1>3, <1>4

LEMMA ChartsMoveOn ==
    ASSUME NEW E \in Seq(ChartEvent), NEW e \in Seq(EventOn(AllIds)), NEW d \in 0..Len(e),
           NEW s \in AllSeries, NEW u \in Seq(ChartUndo), ChartsShow(s, u), Events(u) = E,
           NEW time \in Int, NEW m,
           m \in MovedStates(E \o SubSeq(e, 1, d), time)
    PROVE  /\ m.series \in AllSeries /\ ChartsShow(m.series, m.undo)
           /\ IsAdvanced(u, e, m.undo, d, time)
           /\ Real(Events(m.undo) \o Rest(e, d)) = Real(E \o e)
<1> DEFINE due == SubSeq(e, 1, d)
           D == E \o due
           v == m.undo
           n == Len(u)
<1>1. EventOn(AllIds) \subseteq ChartEvent /\ Fakes(time) \subseteq {x \in ChartEvent : x.fake}
  BY DEF EventOn, Fakes
<1>2. e \in Seq(ChartEvent) /\ d \in Nat /\ Len(e) \in Nat
  BY <1>1, SeqMonotonic, LenProperties
<1>3. /\ due \in Seq(ChartEvent) /\ Len(due) = d
      /\ \A i \in 1..d : due[i] = e[i]
  BY <1>2, Firsts
<1>4. PICK f \in Seq(Fakes(time)) : m \in ChartStates(D \o f)
  BY DEF MovedStates
<1>5. f \in Seq({x \in ChartEvent : x.fake})
  BY <1>1, SeqMonotonic
<1>6. f \in Seq(ChartEvent) /\ Len(f) \in Nat /\ \A i \in 1..Len(f) : f[i].time = time
  <2>1. {x \in ChartEvent : x.fake} \subseteq ChartEvent
    OBVIOUS
  <2>2. f \in Seq(ChartEvent)
    BY <1>5, <2>1, SeqMonotonic
  <2>3. \A i \in 1..Len(f) : f[i] \in Fakes(time)
    BY ElementOfSeq
  <2> QED BY <2>2, <2>3, LenProperties DEF Fakes
<1>7. Len(E) = n /\ n \in Nat /\ \A i \in 1..n : E[i] = u[i].event
  BY UndoEvents
<1> HIDE DEF due, n
<1>8. /\ D \in Seq(ChartEvent) /\ Len(D) = n + d
      /\ \A i \in 1..n+d : D[i] = IF i <= n THEN E[i] ELSE due[i - n]
  <2>1. /\ D \in Seq(ChartEvent) /\ Len(D) = Len(E) + Len(due)
        /\ \A i \in 1..Len(E)+Len(due) :
              D[i] = IF i <= Len(E) THEN E[i] ELSE due[i - Len(E)]
    BY <1>3, ConcatProperties, Zenon
  <2> HIDE DEF D
  <2> QED BY <1>3, <1>7, <2>1
<1> HIDE DEF D
<1>9. /\ Len(D \o f) = (n + d) + Len(f)
      /\ \A i \in 1..(n + d)+Len(f) :
            (D \o f)[i] = IF i <= n + d THEN D[i] ELSE f[i - (n + d)]
  BY <1>6, <1>8, ConcatProperties
<1>10. m.series \in AllSeries /\ v \in Seq(ChartUndo) /\ ChartsShow(m.series, v)
       /\ Events(v) = D \o f
  BY <1>4 DEF ChartStates
<1> HIDE DEF v
<1>11. Len(v) = (n + d) + Len(f) /\ \A i \in 1..Len(v) : v[i].event = (D \o f)[i]
  BY <1>9, <1>10, UndoEvents
<1>12. IsAdvanced(u, e, v, d, time)
  <2>1. \A i \in 1..n : v[i].event = u[i].event
    BY <1>2, <1>6, <1>7, <1>8, <1>9, <1>11
  <2>2. ASSUME NEW i \in 1..d PROVE v[n + i].event = e[i]
    <3> DEFINE j == n + i
    <3>1. j \in 1..Len(v) /\ j \in 1..n+d /\ j <= n + d /\ ~(j <= n) /\ j - n = i
          /\ j \in 1..(n + d)+Len(f)
      BY <1>2, <1>6, <1>7, <1>11
    <3> HIDE DEF j
    <3>2. v[j].event = (D \o f)[j] /\ (D \o f)[j] = D[j] /\ D[j] = due[j - n]
      BY <1>8, <1>9, <1>11, <3>1
    <3> QED BY <1>3, <3>1, <3>2 DEF j
  <2>3. ASSUME NEW i \in n+d+1..Len(v) PROVE v[i].event.time = time
    <3>1. /\ i \in 1..Len(v) /\ ~(i <= n + d) /\ i - (n + d) \in 1..Len(f)
          /\ i \in 1..(n + d)+Len(f)
      BY <1>2, <1>6, <1>7, <1>11
    <3>2. v[i].event = (D \o f)[i] /\ (D \o f)[i] = f[i - (n + d)]
      BY <1>9, <1>11, <3>1
    <3> QED BY <1>6, <3>1, <3>2
  <2>4. Len(v) >= n + d
    BY <1>2, <1>6, <1>7, <1>11
  <2> QED BY <2>1, <2>2, <2>3, <2>4 DEF IsAdvanced, n
<1>13. Real((D \o f) \o Rest(e, d)) = Real(E \o e)
  BY <1>2, <1>5, RealAdvances DEF D, due
<1> QED BY <1>10, <1>12, <1>13 DEF v

LEMMA ChartsAdvance ==
    ASSUME NEW tape, ChartsAt(tape, series, chartUndoEvents, chartEvents),
           NEW time \in Int, Charts!TimeAdvanced(time)
    PROVE  /\ ChartsAt(tape, series', chartUndoEvents', chartEvents')
           /\ DOMAIN series' = DOMAIN series
           /\ IntervalIsNatural => AreRecent(series', time)
           /\ \E d : /\ IsFront(chartEvents, d, time)
                     /\ chartEvents' = Rest(chartEvents, d)
                     /\ IsAdvanced(chartUndoEvents, chartEvents, chartUndoEvents', d, time)
                     /\ d = 0 => \/ UNCHANGED <<series, chartUndoEvents>>
                                 \/ SomeIdle(series, time)
<1> DEFINE s == series
           u == chartUndoEvents
           e == chartEvents
           E == Events(u)
           a == [series |-> s, undo |-> u]
           due == Due(e, time)
           handled == HandleCharts(a, due, time)
           moved == IF s = << >> THEN handled
                    ELSE KeepAllMoving(handled, CategoryOrder, time)
<1>1. /\ ChartsShow(s, u) /\ e \in Seq(EventOn(DOMAIN s)) /\ Real(E \o e) = tape
      /\ DOMAIN s \in {{}, AllIds} /\ s \in [DOMAIN s -> Series] /\ u \in Seq(ChartUndo)
  BY DEF ChartsAt, ChartsShow
<1>2. /\ chartEvents' = Rest(e, Len(due)) /\ series' = moved.series
      /\ chartUndoEvents' = moved.undo
  <2>1. Charts!Due(e, time) = due /\ \A n : Charts!Rest(e, n) = Rest(e, n)
    BY SameTape
  <2> HIDE DEF due
  <2> QED BY <2>1 DEF Charts!TimeAdvanced, HandleCharts, KeepAllMoving
<1>3. PICK d \in 0..Len(e) :
          /\ due = SubSeq(e, 1, d)
          /\ \A i \in 1..d : ~(e[i].time > time)
          /\ d < Len(e) => e[d + 1].time > time
  BY <1>1, DueIsFront
<1>4. IsFront(e, d, time)
  BY <1>3 DEF IsFront
<1>5. due \in Seq(EventOn(DOMAIN s)) /\ Len(due) = d
  BY <1>1, <1>3, Firsts
<1>6. E \in Seq(ChartEvent)
  BY <1>1, UndoEvents
<1> HIDE DEF due
<1>7. d = 0 => handled = a
  <2>1. << >> \in Seq({}) /\ DOMAIN << >> = 1..0 /\ 0 \in Nat
    OBVIOUS
  <2>2. Leads(ChartLoop(time), a, << >>, 0, HandleCharts(a, << >>, time))
    BY <2>1, HandleChartsLead, Zenon DEF ChartLoop
  <2> HIDE DEF a
  <2>3. HandleCharts(a, << >>, time) = a
    BY <2>2, LeadsNowhere, Zenon
  <2>4. d = 0 => due = << >>
    BY <1>3, SubSeqEmpty
  <2> QED BY <2>3, <2>4
<1>8. CASE DOMAIN s = {}
  <2>1. s = << >> /\ u = << >> /\ e = << >>
    BY <1>8, NoSeries
  <2>2. Len(e) = 0 /\ d = 0 /\ due = << >>
    BY <1>3, <2>1, SubSeqEmpty
  <2>3. handled = a
    BY <1>7, <2>2
  <2>4. moved.series = s /\ moved.undo = u
    BY <2>1, <2>3
  <2>5. chartEvents' = e /\ series' = s /\ chartUndoEvents' = u
    BY <1>2, <1>5, <2>1, <2>2, <2>4 DEF Rest
  <2>6. IsAdvanced(u, e, u, d, time)
    BY <2>1, <2>2 DEF IsAdvanced
  <2>7. chartEvents' = Rest(e, d)
    BY <1>2, <1>5
  <2> HIDE DEF s, u, e, moved
  <2>8. ChartsAt(tape, series', chartUndoEvents', chartEvents')
    BY <2>5 DEF s, u, e
  <2>9. AreRecent(series', time)
    BY <1>8, <2>5 DEF AreRecent
  <2> QED BY <1>4, <2>5, <2>6, <2>7, <2>8, <2>9 DEF s, u, e
<1>9. CASE DOMAIN s = AllIds
  <2>1. s \in AllSeries
    BY <1>1, <1>9 DEF AllSeries
  <2>2. a \in ChartStates(E)
    BY <1>1, <2>1 DEF ChartStates
  <2>3. e \in Seq(EventOn(AllIds)) /\ due \in Seq(EventOn(AllIds))
    BY <1>1, <1>5, <1>9
  <2> HIDE DEF a
  <2>4. handled \in ChartStates(E \o due)
    BY <1>6, <2>2, <2>3, ChartsHandled
  <2>5. E \o due \in Seq(ChartEvent)
    <3>1. EventOn(AllIds) \subseteq ChartEvent
      BY DEF EventOn
    <3>2. due \in Seq(ChartEvent)
      BY <2>3, <3>1, SeqMonotonic
    <3> QED BY <1>6, <3>2, ConcatProperties
  <2> DEFINE F == E \o due
  <2> HIDE DEF handled, F
  <2>6. /\ moved \in MovedStates(F, time)
        /\ IntervalIsNatural => AreRecent(moved.series, time)
        /\ moved = handled \/ SomeIdle(handled.series, time)
    <3>1. F \in Seq(ChartEvent) /\ handled \in ChartStates(F)
      BY <2>4, <2>5 DEF F
    <3> DEFINE m == KeepAllMoving(handled, CategoryOrder, time)
    <3>2. /\ m \in MovedStates(F, time)
          /\ IntervalIsNatural => AreRecent(m.series, time)
          /\ m = handled \/ SomeIdle(handled.series, time)
      BY <3>1, ChartsMoved
    <3> HIDE DEF m
    <3>3. CASE s = << >>
      <4>1. AllIds = {}
        BY <1>9, <3>3
      <4>2. handled \in MovedStates(F, time)
        <5>1. << >> \in Seq(Fakes(time)) /\ F \o << >> = F
          BY <3>1, ConcatEmptySeq
        <5>2. ChartStates(F) \in {ChartStates(F \o f) : f \in Seq(Fakes(time))}
          BY <5>1
        <5> QED BY <3>1, <5>2 DEF MovedStates
      <4>3. AreRecent(handled.series, time)
        <5>1. DOMAIN handled.series = AllIds
          BY <3>1 DEF ChartStates, AllSeries
        <5> QED BY <4>1, <5>1 DEF AreRecent
      <4> QED BY <3>3, <4>2, <4>3
    <3>4. CASE s # << >>
      BY <3>2, <3>4 DEF m
    <3> QED BY <3>3, <3>4
  <2>7. d = 0 => (moved.series = s /\ moved.undo = u) \/ SomeIdle(s, time)
    <3>1. d = 0 => moved = a \/ SomeIdle(a.series, time)
      <4> HIDE DEF moved
      <4> QED BY <1>7, <2>6 DEF handled
    <3>2. a.series = s /\ a.undo = u
      BY DEF a
    <3> HIDE DEF moved
    <3> QED BY <3>1, <3>2
  <2> HIDE DEF moved
  <2>8. moved \in MovedStates(E \o SubSeq(e, 1, d), time)
    BY <1>3, <2>6 DEF F
  <2> DEFINE t == moved.series
             v == moved.undo
  <2>9. /\ t \in AllSeries /\ ChartsShow(t, v)
        /\ IsAdvanced(u, e, v, d, time)
        /\ Real(Events(v) \o Rest(e, d)) = Real(E \o e)
    <3>1. /\ d \in 0..Len(e) /\ E = Events(u) /\ u \in Seq(ChartUndo)
          /\ ChartsShow(s, u)
      BY <1>1, <1>3
    <3> HIDE DEF s, u, e, E
    <3> QED BY <1>6, <2>1, <2>3, <2>8, <3>1, ChartsMoveOn
  <2>10. Rest(e, d) \in Seq(EventOn(AllIds))
    BY <1>3, <2>3, Advanced
  <2>11. DOMAIN t = AllIds
    BY <2>9 DEF AllSeries
  <2>12. ChartsAt(tape, t, v, Rest(e, d))
    BY <1>1, <2>9, <2>10, <2>11 DEF ChartsAt
  <2>13. chartEvents' = Rest(e, d) /\ series' = t /\ chartUndoEvents' = v
    BY <1>2, <1>5
  <2> HIDE DEF t, v
  <2>14. IntervalIsNatural => AreRecent(series', time)
    BY <2>6, <2>13 DEF t
  <2>15. d = 0 => \/ UNCHANGED <<series, chartUndoEvents>>
                  \/ SomeIdle(series, time)
    BY <2>7, <2>13 DEF t, v
  <2> QED BY <1>4, <1>9, <2>9, <2>11, <2>12, <2>13, <2>14, <2>15
<1> QED BY <1>1, <1>8, <1>9

LEMMA ChartsRewind ==
    ASSUME NEW tape, ChartsAt(tape, series, chartUndoEvents, chartEvents),
           NEW time \in Int, Charts!TimeRewound(time)
    PROVE  /\ ChartsAt(tape, series', chartUndoEvents', chartEvents')
           /\ DOMAIN series' = DOMAIN series
           /\ UpToDate(series, chartUndoEvents) => UpToDate(series', chartUndoEvents')
           /\ \E k : /\ IsBack(chartUndoEvents, k, time)
                     /\ chartEvents' = Back(chartUndoEvents, k) \o chartEvents
                     /\ chartUndoEvents' = Without(chartUndoEvents, k)
<1> DEFINE s == series
           u == chartUndoEvents
           e == chartEvents
           E == Events(u)
           undone == Undue(u, time)
           r == UndoCharts(s, undone)
<1>1. /\ ChartsShow(s, u) /\ e \in Seq(EventOn(DOMAIN s)) /\ Real(E \o e) = tape
      /\ DOMAIN s \in {{}, AllIds} /\ s \in [DOMAIN s -> Series] /\ u \in Seq(ChartUndo)
      /\ \A i \in DOMAIN u : u[i].event \in EventOn(DOMAIN s)
  BY DEF ChartsAt, ChartsShow
<1>2. /\ chartEvents' = Events(Seqs!Reverse(undone)) \o e /\ series' = r
      /\ chartUndoEvents' = Without(u, Len(undone))
  <2>1. /\ Charts!Undue(u, time) = undone
        /\ Charts!Events(Charts!Seqs!Reverse(undone)) = Events(Seqs!Reverse(undone))
        /\ \A n : Charts!Without(u, n) = Without(u, n)
    BY SameTape
  <2> HIDE DEF undone
  <2> QED BY <2>1 DEF Charts!TimeRewound, UndoCharts
<1>3. PICK k \in 0..Len(u) :
          /\ undone = [i \in 1..k |-> u[Len(u) + 1 - i]]
          /\ undone \in Seq(ChartUndo) /\ Len(undone) = k
          /\ \A i \in Len(u)-k+1..Len(u) : ~(time > u[i].event.time)
          /\ k < Len(u) => time > u[Len(u) - k].event.time
  BY <1>1, UndueIsBack, ZenonT(30)
<1>4. undone = Undone(u, k) /\ IsBack(u, k, time)
  BY <1>3 DEF Undone, IsBack
<1> HIDE DEF undone
<1>5. chartEvents' = Back(u, k) \o e /\ chartUndoEvents' = Without(u, k)
  BY <1>2, <1>3, <1>4 DEF Back
<1>6. IsRewound(EventOn(DOMAIN s), ChartUndo, u, e, k)
      \/ IsRewound(ChartEvent, ChartUndo, u, e, k)
  <2>1. EventOn(DOMAIN s) \subseteq ChartEvent
    BY DEF EventOn
  <2>2. e \in Seq(ChartEvent) /\ \A x \in ChartUndo : x.event \in ChartEvent
    BY <1>1, <2>1, SeqMonotonic DEF ChartUndo
  <2> QED BY <1>1, <1>3, <2>2, Rewound
<1>7. Events(Without(u, k)) \o (Back(u, k) \o e) = E \o e
  BY <1>6 DEF IsRewound
<1>8. Back(u, k) \o e \in Seq(EventOn(DOMAIN s))
  <2> DEFINE S == EventOn(DOMAIN s)
             U == {x \in ChartUndo : x.event \in S}
  <2>1. u \in Seq(U)
    <3>1. Len(u) \in Nat /\ DOMAIN u = 1..Len(u) /\ \A i \in 1..Len(u) : u[i] \in U
      BY <1>1, LenProperties, ElementOfSeq
    <3>2. u = [i \in 1..Len(u) |-> u[i]]
      BY <1>1, LenProperties
    <3> HIDE DEF U
    <3> QED BY <3>1, <3>2
  <2>2. \A x \in U : x.event \in S
    OBVIOUS
  <2>3. e \in Seq(S)
    BY <1>1
  <2> HIDE DEF S, U, s, u, e
  <2>4. Back(u, k) \in Seq(S)
    BY <1>3, <2>1, <2>2, Returned
  <2> QED BY <2>3, <2>4, ConcatProperties DEF S
<1>9. CASE DOMAIN s = {}
  <2>1. s = << >> /\ u = << >> /\ e = << >>
    BY <1>9, NoSeries
  <2>2. Len(u) = 0 /\ k = 0
    BY <1>3, <2>1
  <2>3. undone = << >>
    BY <1>3, <2>2, EmptySeq
  <2>4. r = s
    <3>1. << >> \in Seq({}) /\ DOMAIN << >> = 1..0 /\ 0 \in Nat
      OBVIOUS
    <3>2. Leads(UndoChartLoop, s, << >>, 0, UndoCharts(s, << >>))
      BY <3>1, UndoChartsLead, Zenon DEF UndoChartLoop
    <3>3. UndoCharts(s, << >>) = s
      BY <3>2, LeadsNowhere, Zenon
    <3> QED BY <2>3, <3>3
  <2>5. Without(u, k) = u
    BY <2>1, <2>2, SubSeqEmpty DEF Without
  <2>6. ChartsShow(r, Without(u, k)) /\ DOMAIN r = DOMAIN s
    BY <1>1, <2>4, <2>5
  <2> HIDE DEF r, s, u, e
  <2>7. ChartsAt(tape, series', chartUndoEvents', chartEvents')
    BY <1>1, <1>2, <1>5, <1>7, <1>8, <2>6 DEF ChartsAt
  <2>8. UpToDate(series', chartUndoEvents')
    BY <1>2, <1>9, <2>6 DEF UpToDate, AreRecent
  <2> QED BY <1>2, <1>4, <1>5, <2>6, <2>7, <2>8 DEF s, u, e
<1>10. CASE DOMAIN s = AllIds
  <2>1. s \in AllSeries
    BY <1>1, <1>10 DEF AllSeries
  <2>2. r \in AllSeries /\ ChartsShow(r, Without(u, k)) /\ Keeps(s, r)
    <3> HIDE DEF s, u
    <3> QED BY <1>1, <1>3, <1>4, <2>1, ChartsUndone
  <2>3. DOMAIN r = DOMAIN s
    BY <1>10, <2>2 DEF AllSeries
  <2> HIDE DEF r, s, u, e
  <2>4. ChartsAt(tape, series', chartUndoEvents', chartEvents')
    BY <1>1, <1>2, <1>5, <1>7, <1>8, <2>2, <2>3 DEF ChartsAt
  <2>5. UpToDate(s, u) => UpToDate(r, Without(u, k))
    <3> DEFINE v == Without(u, k)
    <3> SUFFICES ASSUME UpToDate(s, u), NEW i \in DOMAIN v, NEW id \in AutoUpdate,
                        id \in DOMAIN r
                 PROVE  IsRecent(r[id], v[i].event.time)
      BY DEF UpToDate, AreRecent
    <3>1. i \in DOMAIN u /\ v[i] = u[i]
      <4>1. /\ Len(u) \in Nat /\ DOMAIN u = 1..Len(u) /\ DOMAIN v = 1..Len(u)-k
            /\ \A j \in 1..Len(u)-k : v[j] = u[j]
        BY <1>1, <1>3, <1>6, LenProperties DEF IsRewound
      <4> QED BY <1>3, <4>1
    <3>2. id \in DOMAIN s /\ id \in Seqs!ToSet(CategoryOrder)
      BY <2>3, SeriesAssumption
    <3>3. IsRecent(s[id], u[i].event.time)
      BY <3>1, <3>2 DEF UpToDate, AreRecent
    <3>4. /\ r[id].lastUpdatedTime = s[id].lastUpdatedTime
          /\ r[id].data # << >> => s[id].data # << >>
      BY <2>2, <3>2 DEF Keeps
    <3> QED BY <3>1, <3>3, <3>4 DEF IsRecent
  <2>6. UpToDate(series, chartUndoEvents) => UpToDate(series', chartUndoEvents')
    BY <1>2, <1>5, <2>5 DEF s, u
  <2> QED BY <1>2, <1>4, <1>5, <2>3, <2>4, <2>6 DEF s, u, e
<1> QED BY <1>1, <1>9, <1>10

---------------------------------------------------------------------------
(* The log goes forward and backward. *)

ShowsLog(tape, w) == IsShown(tape, logUndoEvents, streams, unified, lastUnifiedWriter, w)
ShowsLogNext(tape, w) ==
    IsShown(tape, logUndoEvents', streams', unified', lastUnifiedWriter', w)

LEMMA WriterBefore ==
    ASSUME NEW tape, NEW u, NEW documents, NEW text, NEW writer, NEW w,
           Len(u) \in Nat, IsShown(tape, u, documents, text, writer, w)
    PROVE  FirstWriter(u, writer) = w
<1> DEFINE n == Len(u)
<1>1. u = LogUndos(tape, n, w) /\ writer = Writer(tape, n, w) /\ n \in Nat
  BY DEF IsShown
<1>2. CASE u = << >>
  <2>1. n = 0
    BY <1>2
  <2> QED BY <1>1, <1>2, <2>1 DEF FirstWriter, Writer
<1>3. CASE u # << >>
  <2>1. n # 0
    <3>1. LogUndos(tape, 0, w) = << >>
      BY DEF LogUndos
    <3> HIDE DEF n
    <3> QED BY <1>1, <1>3, <3>1
  <2> HIDE DEF n
  <2>2. 1 \in 1..n
    BY <1>1, <2>1
  <2>3. u[1] = LogUndo(tape, 1, w)
    BY <1>1, <2>2 DEF LogUndos
  <2>4. u[1].lastUnifiedWriter = Writer(tape, 1 - 1, w)
    BY <2>3 DEF LogUndo
  <2> QED BY <1>3, <2>4 DEF FirstWriter, Writer
<1> QED BY <1>2, <1>3

LEMMA LogOnTape ==
    ASSUME NEW tape, NEW u, NEW e, NEW ids, IsOnTape(tape, u, e, ids)
    PROVE  /\ tape \in LogTapes /\ u \in Seq(Range(u)) /\ Len(u) \in Nat
           /\ e \in Seq(Range(tape)) /\ \A x \in Range(u) : x.event \in Range(tape)
<1>1. /\ tape \in LogTapes /\ u \in Seq(Range(u)) /\ Len(u) \in 0..Len(tape)
      /\ (\A i \in 1..Len(u) : u[i].event = tape[i]) /\ e = Rest(tape, Len(u))
  BY DEF IsOnTape
<1>2. tape \in Seq(Range(tape)) /\ Len(tape) \in Nat /\ Len(u) \in Nat
  BY <1>1, LogTape, LenProperties
<1>3. e \in Seq(Range(tape))
  BY <1>1, <1>2, Advanced
<1>4. ASSUME NEW x \in Range(u) PROVE x.event \in Range(tape)
  <2>1. PICK i \in 1..Len(u) : x = u[i]
    BY <1>1, LenProperties DEF Range
  <2>2. i \in 1..Len(tape)
    BY <1>1, <1>2
  <2>3. tape[i] \in Range(tape)
    BY <1>2, <2>2, ElementOfSeq
  <2> QED BY <1>1, <2>1, <2>3
<1> QED BY <1>1, <1>2, <1>3, <1>4

LEMMA LogAdvance ==
    ASSUME NEW tape, IsOnTape(tape, logUndoEvents, logEvents, DOMAIN streams),
           NEW time \in Int, Log!TimeAdvanced(time)
    PROVE  /\ IsOnTape(tape, logUndoEvents', logEvents', DOMAIN streams')
           /\ \A w : ShowsLog(tape, w) => ShowsLogNext(tape, w)
           /\ \E d : /\ IsFront(logEvents, d, time)
                     /\ logEvents' = Rest(logEvents, d)
                     /\ IsAdvanced(logUndoEvents, logEvents, logUndoEvents', d, time)
                     /\ d = 0 => Len(logUndoEvents') = Len(logUndoEvents)
<1> DEFINE u == logUndoEvents
           e == logEvents
           log == [text |-> unified, writer |-> lastUnifiedWriter, characterTotal |-> 0]
           state == [streams |-> streams, undo |-> u, log |-> log]
           due == Due(e, time)
           s == HandleMessages(state, due)
<1>1. e \in Seq(Range(tape)) /\ Len(u) \in Nat
  BY LogOnTape
<1>2. /\ logEvents' = Rest(e, Len(due)) /\ logUndoEvents' = s.undo
      /\ streams' = s.streams /\ unified' = s.log.text /\ lastUnifiedWriter' = s.log.writer
  <2>1. Log!Due(e, time) = due /\ \A n : Log!Rest(e, n) = Rest(e, n)
    BY SameTape
  <2> HIDE DEF due
  <2> QED BY <2>1 DEF Log!TimeAdvanced, Log!Becomes, Log!State, HandleMessages
<1>3. PICK d \in 0..Len(e) :
          /\ due = SubSeq(e, 1, d)
          /\ \A i \in 1..d : ~(e[i].time > time)
          /\ d < Len(e) => e[d + 1].time > time
  BY <1>1, DueIsFront
<1>4. IsFront(e, d, time)
  BY <1>3 DEF IsFront
<1>5. due \in Seq(Range(tape)) /\ Len(due) = d /\ d \in Nat /\ Len(e) \in Nat
  BY <1>1, <1>3, Firsts, LenProperties
<1> HIDE DEF due
<1>6. logEvents' = Rest(e, d)
  BY <1>2, <1>5
<1>7. /\ IsOnTape(tape, s.undo, Rest(e, d), DOMAIN s.streams)
      /\ Len(s.undo) = Len(u) + d
      /\ \A i \in 1..d : s.undo[Len(u) + i].event = e[i]
      /\ \A i \in 1..Len(u) : s.undo[i].event = u[i].event
  <2>1. s = HandleMessages([streams |-> streams, undo |-> u, log |-> log], SubSeq(e, 1, d))
    BY <1>3
  <2>2. IsOnTape(tape, u, e, DOMAIN streams) /\ d \in 0..Len(e)
    BY <1>3
  <2> HIDE DEF s, log, u, e
  <2>3. IsTapeAdvanced(tape, u, e, d, s)
    BY <2>1, <2>2, LogTapeAdvances, Zenon
  <2> QED BY <2>3 DEF IsTapeAdvanced
<1>8. IsAdvanced(u, e, s.undo, d, time)
  <2> DEFINE v == s.undo
             n == Len(u)
  <2>1. Len(v) = n + d /\ n \in Nat /\ d \in Nat
    BY <1>1, <1>5, <1>7
  <2>2. /\ \A i \in 1..d : v[n + i].event = e[i]
        /\ \A i \in 1..n : v[i].event = u[i].event
    BY <1>7
  <2> HIDE DEF v, n
  <2>3. Len(v) >= n + d /\ n + d + 1..Len(v) = {}
    BY <2>1
  <2> QED BY <2>2, <2>3 DEF IsAdvanced, v, n
<1>9. ASSUME NEW w, ShowsLog(tape, w) PROVE ShowsLogNext(tape, w)
  <2>1. Leads(MessageLoop, state, due, d, s)
    <3>1. DOMAIN due = 1..d
      BY <1>5, LenProperties
    <3> HIDE DEF state
    <3> QED BY <1>5, <3>1, HandleMessagesLead DEF MessageLoop
  <2> HIDE DEF s
  <2>2. Leads(MessageLoop, LogState(streams, u, unified, lastUnifiedWriter),
              SubSeq(e, 1, d), d, s)
    <3>1. state = LogState(streams, u, unified, lastUnifiedWriter)
      BY DEF LogState
    <3> HIDE DEF state
    <3> QED BY <1>3, <2>1, <3>1
  <2>3. IsShown(tape, u, streams, unified, lastUnifiedWriter, w)
    BY <1>9 DEF ShowsLog
  <2>4. IsShown(tape, s.undo, s.streams, s.log.text, s.log.writer, w)
    BY <1>3, <2>2, <2>3, LogDocsAdvance
  <2> QED BY <1>2, <2>4 DEF ShowsLogNext
<1>10. d = 0 => Len(logUndoEvents') = Len(u)
  BY <1>1, <1>2, <1>7
<1> HIDE DEF s
<1> QED BY <1>2, <1>4, <1>6, <1>7, <1>8, <1>9, <1>10

LEMMA LogRewind ==
    ASSUME NEW tape, IsOnTape(tape, logUndoEvents, logEvents, DOMAIN streams),
           NEW time, Log!TimeRewound(time)
    PROVE  /\ IsOnTape(tape, logUndoEvents', logEvents', DOMAIN streams')
           /\ NarrowMessages => \A w : ShowsLog(tape, w) => ShowsLogNext(tape, w)
           /\ \E k : /\ IsBack(logUndoEvents, k, time)
                     /\ logEvents' = Back(logUndoEvents, k) \o logEvents
                     /\ logUndoEvents' = Without(logUndoEvents, k)
<1> DEFINE u == logUndoEvents
           e == logEvents
           log == [text |-> unified, writer |-> lastUnifiedWriter, characterTotal |-> 0]
           state == [streams |-> streams, undo |-> u, log |-> log]
           undone == Undue(u, time)
           s == UndoMessages(state, undone)
<1>1. u \in Seq(Range(u)) /\ Len(u) \in Nat
  BY LogOnTape
<1>2. /\ logEvents' = Events(Seqs!Reverse(undone)) \o e
      /\ logUndoEvents' = Without(u, Len(undone))
      /\ streams' = s.streams /\ unified' = s.log.text /\ lastUnifiedWriter' = s.log.writer
  <2>1. /\ Log!Undue(u, time) = undone
        /\ Log!Events(Log!Seqs!Reverse(undone)) = Events(Seqs!Reverse(undone))
        /\ \A n : Log!Without(u, n) = Without(u, n)
    BY SameTape
  <2> HIDE DEF undone
  <2> QED BY <2>1 DEF Log!TimeRewound, Log!Becomes, Log!State, UndoMessages
<1>3. PICK k \in 0..Len(u) :
          /\ undone = [i \in 1..k |-> u[Len(u) + 1 - i]]
          /\ undone \in Seq(Range(u)) /\ Len(undone) = k
          /\ \A i \in Len(u)-k+1..Len(u) : ~(time > u[i].event.time)
          /\ k < Len(u) => time > u[Len(u) - k].event.time
  BY <1>1, UndueIsBack
<1>4. undone = Undone(u, k) /\ IsBack(u, k, time) /\ k \in Nat
  BY <1>1, <1>3 DEF Undone, IsBack
<1> HIDE DEF undone
<1>5. logEvents' = Back(u, k) \o e /\ logUndoEvents' = Without(u, k)
  BY <1>2, <1>3, <1>4 DEF Back
<1>6. IsOnTape(tape, Without(u, k), Back(u, k) \o e, DOMAIN s.streams)
  <2>1. s = UndoMessages([streams |-> streams, undo |-> u, log |-> log], Undone(u, k))
    BY <1>4
  <2> HIDE DEF s, log
  <2> QED BY <1>3, <2>1, LogTapeRewinds
<1>7. ASSUME NarrowMessages, NEW w, ShowsLog(tape, w) PROVE ShowsLogNext(tape, w)
  <2>1. Leads(UndoMessageLoop, state, undone, k, s)
    <3>1. DOMAIN undone = 1..k
      BY <1>3, LenProperties
    <3> HIDE DEF state
    <3> QED BY <1>4, <3>1, UndoMessagesLead DEF UndoMessageLoop
  <2> HIDE DEF s
  <2>2. Leads(UndoMessageLoop, LogState(streams, u, unified, lastUnifiedWriter),
              Undone(u, k), k, s)
    <3>1. state = LogState(streams, u, unified, lastUnifiedWriter)
      BY DEF LogState
    <3> HIDE DEF state
    <3> QED BY <1>4, <2>1, <3>1
  <2>3. IsShown(tape, u, streams, unified, lastUnifiedWriter, w)
    BY <1>7 DEF ShowsLog
  <2>4. IsShown(tape, Without(u, k), s.streams, s.log.text, s.log.writer, w)
    BY <1>3, <1>7, <2>2, <2>3, LogDocsRewind
  <2> QED BY <1>2, <1>5, <2>4 DEF ShowsLogNext
<1> HIDE DEF s
<1> QED BY <1>2, <1>4, <1>5, <1>6, <1>7

---------------------------------------------------------------------------
(* The controls. *)

IsWidget(q, current, max, unit, playing, enabled) ==
    /\ q \in Widgets
    /\ q.currentTime = current /\ q.maxTime = max /\ q.currentUnit = unit
    /\ q.playing = playing /\ q.enabled = enabled

LEMMA WidgetFields ==
    ASSUME NEW p \in Widgets
    PROVE  /\ p.currentTime \in Int /\ p.maxTime \in Nat /\ p.currentUnit \in Units
           /\ p.playing \in BOOLEAN /\ p.enabled \in BOOLEAN
           /\ IsWidget(p, p.currentTime, p.maxTime, p.currentUnit, p.playing, p.enabled)
<1>1. /\ p.currentTime \in Int /\ p.maxTime \in Nat /\ p.currentUnit \in Units
      /\ p.playing \in BOOLEAN /\ p.enabled \in BOOLEAN
  BY DEF Widgets
<1> QED BY <1>1 DEF IsWidget

LEMMA WidgetChanges ==
    ASSUME NEW p, NEW c, NEW m, NEW u, NEW pl, NEW en, IsWidget(p, c, m, u, pl, en)
    PROVE  /\ \A t \in Int : IsWidget(ShowTime(p, t), Earlier(t, m), m, u, pl, en)
           /\ \A t \in Nat : IsWidget(SetMaxTime(p, t), c, t, u, pl, en)
           /\ IsWidget(EnableControls(p), c, m, u, pl, TRUE)
           /\ IsWidget(SetPlaying(p), c, m, u, TRUE, en)
           /\ IsWidget(SetPaused(p), c, m, u, FALSE, en)
           /\ IsWidget(ResetWidget(p), 0, 0, u, pl, FALSE)
           /\ \A v \in Units : IsWidget([p EXCEPT !.currentUnit = v], c, m, v, pl, en)
<1> SUFFICES ASSUME p \in Widgets, p.currentTime = c, p.maxTime = m, p.currentUnit = u,
                    p.playing = pl, p.enabled = en
             PROVE  /\ \A t \in Int : IsWidget(ShowTime(p, t), Earlier(t, m), m, u, pl, en)
                    /\ \A t \in Nat : IsWidget(SetMaxTime(p, t), c, t, u, pl, en)
                    /\ IsWidget(EnableControls(p), c, m, u, pl, TRUE)
                    /\ IsWidget(SetPlaying(p), c, m, u, TRUE, en)
                    /\ IsWidget(SetPaused(p), c, m, u, FALSE, en)
                    /\ IsWidget(ResetWidget(p), 0, 0, u, pl, FALSE)
                    /\ \A v \in Units : IsWidget([p EXCEPT !.currentUnit = v], c, m, v, pl, en)
  BY DEF IsWidget
<1>1. c \in Int /\ m \in Nat /\ u \in Units /\ pl \in BOOLEAN /\ en \in BOOLEAN
  BY WidgetFields
<1>2. ASSUME NEW t \in Int
      PROVE  IsWidget(ShowTime(p, t), Earlier(t, m), m, u, pl, en)
  <2> DEFINE x == Earlier(t, m)
  <2>1. x \in Int
    BY <1>1 DEF Earlier
  <2>2. ShowTime(p, t) = [p EXCEPT !.currentTime = x]
    BY DEF ShowTime
  <2> HIDE DEF x
  <2>3. IsWidget([p EXCEPT !.currentTime = x], x, m, u, pl, en)
    BY <1>1, <2>1 DEF IsWidget, Widgets
  <2> QED BY <2>2, <2>3 DEF x
<1>3. \A t \in Nat : IsWidget(SetMaxTime(p, t), c, t, u, pl, en)
  BY <1>1 DEF IsWidget, Widgets, SetMaxTime
<1>4. IsWidget(EnableControls(p), c, m, u, pl, TRUE)
  BY <1>1 DEF IsWidget, Widgets, EnableControls
<1>5. IsWidget(SetPlaying(p), c, m, u, TRUE, en) /\ IsWidget(SetPaused(p), c, m, u, FALSE, en)
  BY <1>1 DEF IsWidget, Widgets, SetPlaying, SetPaused
<1>6. IsWidget(ResetWidget(p), 0, 0, u, pl, FALSE)
  <2> DEFINE a == [p EXCEPT !.currentTime = 0]
             b == [a EXCEPT !.maxTime = 0]
             q == [b EXCEPT !.enabled = FALSE]
  <2>1. ResetWidget(p) = q
    BY Zenon DEF ResetWidget
  <2>2. IsWidget(a, 0, m, u, pl, en)
    BY <1>1 DEF IsWidget, Widgets
  <2> HIDE DEF a
  <2>3. IsWidget(b, 0, 0, u, pl, en)
    BY <1>1, <2>2 DEF IsWidget, Widgets
  <2> HIDE DEF b
  <2>4. IsWidget(q, 0, 0, u, pl, FALSE)
    BY <1>1, <2>3 DEF IsWidget, Widgets
  <2> QED BY <2>1, <2>4
<1>7. \A v \in Units : IsWidget([p EXCEPT !.currentUnit = v], c, m, v, pl, en)
  BY <1>1 DEF IsWidget, Widgets
<1> QED BY <1>2, <1>3, <1>4, <1>5, <1>6, <1>7

(* Rounding up to a unit, and units that divide each other. *)
LEMMA Rounded ==
    ASSUME NEW t \in Int, NEW unit \in Nat \ {0}
    PROVE  /\ CeilTime(t, unit) \in Int /\ t <= CeilTime(t, unit)
           /\ CeilTime(t, unit) < t + unit /\ CeilTime(t, unit) % unit = 0
           /\ (CeilTime(t, unit) = t <=> t % unit = 0)
<1> DEFINE r == t % unit
           q == t \div unit
<1>1. r \in 0..unit-1 /\ q \in Int /\ t = unit * q + r
  OBVIOUS
<1> HIDE DEF q
<1>2. CeilTime(t, unit) = IF r > 0 THEN t + (unit - r) ELSE t
  BY DEF CeilTime
<1>3. CASE r = 0
  BY <1>1, <1>2, <1>3
<1>4. CASE r # 0
  <2>1. t + (unit - r) = unit * (q + 1)
    BY <1>1
  <2>2. (unit * (q + 1)) % unit = 0
    BY <1>1
  <2> QED BY <1>1, <1>2, <1>4, <2>1, <2>2
<1> QED BY <1>3, <1>4

LEMMA MultiplesApart ==
    ASSUME NEW a \in Int, NEW b \in Int, NEW d \in Nat \ {0}, a % d = 0, b % d = 0, a < b
    PROVE  a <= b - d
<1> DEFINE p == a \div d
           q == b \div d
<1>1. p \in Int /\ q \in Int /\ a = d * p /\ b = d * q
  OBVIOUS
<1> HIDE DEF p, q
<1>2. p < q
  BY <1>1
<1>3. d * p <= d * (q - 1)
  BY <1>1, <1>2
<1>4. d * (q - 1) = d * q - d
  BY <1>1
<1> QED BY <1>1, <1>3, <1>4

LEMMA MultipleOfMultiple ==
    ASSUME NEW a \in Int, NEW d \in Nat \ {0}, NEW e \in Nat \ {0}, a % d = 0, d % e = 0
    PROVE  a % e = 0
<1> DEFINE p == a \div d
           q == d \div e
<1>1. p \in Int /\ q \in Int /\ a = d * p /\ d = e * q
  OBVIOUS
<1> HIDE DEF p, q
<1>2. a = e * (q * p)
  BY <1>1
<1>3. q * p \in Int
  BY <1>1
<1> DEFINE r == q * p
<1> HIDE DEF r
<1>4. (e * r) % e = 0
  BY <1>3 DEF r
<1> QED BY <1>2, <1>4 DEF r

LEMMA GranularitySet ==
    ASSUME NEW p, NEW c, NEW m, NEW u, NEW pl, NEW en, IsWidget(p, c, m, u, pl, en),
           NEW unit \in Units
    PROVE  IsWidget(SetGranularity(p, unit),
                    IF CeilTime(c, unit) = c THEN c ELSE Earlier(CeilTime(c, unit), m),
                    m, unit, pl, en)
<1> DEFINE q == [p EXCEPT !.currentUnit = unit]
           r == CeilTime(c, unit)
<1>1. p.currentTime = c /\ c \in Int
  BY WidgetFields DEF IsWidget
<1>2. r \in Int
  BY <1>1, Rounded, TimesAssumption
<1>3. IsWidget(q, c, m, unit, pl, en)
  BY WidgetChanges
<1>4. SetGranularity(p, unit) = IF r = c THEN q ELSE ShowTime(q, r)
  BY <1>1 DEF SetGranularity
<1> HIDE DEF q, r
<1>5. IsWidget(ShowTime(q, r), Earlier(r, m), m, unit, pl, en)
  BY <1>2, <1>3, WidgetChanges
<1>6. CASE r = c
  BY <1>3, <1>4, <1>6 DEF r
<1>7. CASE r # c
  BY <1>4, <1>5, <1>7 DEF r
<1> QED BY <1>6, <1>7

(* What is shown of a time stays it when it is rounded up to another unit. *)
LEMMA RoundedAgain ==
    ASSUME NEW end \in Nat, NEW t \in Int, NEW c \in Int, IsRounded(t, c, end), NEW unit \in Units
    PROVE  IsRounded(t, IF CeilTime(c, unit) = c THEN c
                        ELSE Earlier(CeilTime(c, unit), end), end)
<1> DEFINE r == CeilTime(c, unit)
           x == Earlier(r, end)
<1>1. unit \in Nat \ {0} /\ Units \subseteq Nat \ {0}
  BY TimesAssumption
<1>2. r \in Int /\ c <= r /\ r < c + unit /\ r % unit = 0 /\ (r = c <=> c % unit = 0)
  BY <1>1, Rounded
<1>3. PICK v \in Units : c < t + v /\ (c = t \/ c = end \/ c % v = 0)
  BY DEF IsRounded
<1>4. t <= c /\ c <= end /\ v \in Nat \ {0}
  BY <1>1 DEF IsRounded
<1>5. x = (IF r < end THEN r ELSE end)
  BY DEF Earlier
<1> HIDE DEF r, x
<1>6. CASE r = c
  BY <1>6 DEF r
<1>7. CASE r # c /\ c = end
  <2>1. x = c
    BY <1>2, <1>5, <1>7
  <2> QED BY <1>7, <2>1 DEF r, x
<1>8. CASE r # c /\ c # end
  <2>1. x \in Int /\ t <= x /\ x <= end /\ x <= r /\ (x = end \/ x % unit = 0)
    BY <1>2, <1>4, <1>5
  <2>2. r < t + unit
    <3>1. CASE c = t
      BY <1>2, <3>1
    <3>2. CASE c # t
      <4>1. c % v = 0 /\ c % unit # 0
        BY <1>2, <1>3, <1>8, <3>2
      <4>2. v % unit # 0
        BY <1>1, <1>4, <4>1, MultipleOfMultiple
      <4>3. unit % v = 0
        BY <4>2, TimesAssumption
      <4>4. r % v = 0
        BY <1>1, <1>2, <1>4, <4>3, MultipleOfMultiple
      <4> DEFINE b == r - unit
      <4>5. b \in Int /\ b < c /\ b % v = 0
        <5>1. b \in Int /\ b < c
          BY <1>1, <1>2
        <5>2. b % unit = 0
          <6> DEFINE q == r \div unit
          <6>1. q \in Int /\ r = unit * q
            BY <1>1, <1>2
          <6> HIDE DEF q
          <6>2. b = unit * (q - 1) /\ q - 1 \in Int
            BY <1>1, <6>1
          <6>3. (unit * (q - 1)) % unit = 0
            BY <1>1, <6>1
          <6> QED BY <6>2, <6>3
        <5> HIDE DEF b
        <5> QED BY <1>1, <1>4, <4>3, <5>1, <5>2, MultipleOfMultiple
      <4> HIDE DEF b
      <4>6. b <= c - v
        BY <1>4, <4>1, <4>5, MultiplesApart
      <4> QED BY <1>1, <1>2, <1>3, <1>4, <4>5, <4>6 DEF b
    <3> QED BY <3>1, <3>2
  <2>3. x < t + unit
    BY <1>1, <1>2, <2>1, <2>2
  <2>4. IsRounded(t, x, end)
    BY <2>1, <2>3 DEF IsRounded
  <2> QED BY <1>8, <2>4 DEF r, x
<1> QED BY <1>6, <1>7, <1>8

LEMMA RoundedItself ==
    ASSUME NEW t \in Int, NEW end \in Int, NEW unit \in Units
    PROVE  IsRounded(Earlier(t, end), Earlier(t, end), end)
<1> DEFINE x == Earlier(t, end)
<1>1. x = IF t < end THEN t ELSE end
  BY DEF Earlier
<1>2. unit \in Nat \ {0}
  BY TimesAssumption
<1> HIDE DEF x
<1>3. x <= x /\ x <= end /\ x < x + unit
  BY <1>1, <1>2
<1> QED BY <1>3 DEF IsRounded, x

(* Where the controls, the charts and the log come to with the scene.      *)
LEMMA HistoryTold ==
    ASSUME ControlsInv, NEW p, NEW time \in Int, NEW increment,
           increment = time - simulationTime, EmitTimeChanged(p, time, increment)
    PROVE  /\ told' = time /\ told' \in Int /\ moment' \in Int /\ apart' \in BOOLEAN
           /\ moment' = Reaches(moment, time, increment)
           /\ ~apart' => simulationTime' = told' /\ simulationTime' = moment'
<1>1. /\ simulationTime' = time /\ told' = time
      /\ moment' = Reaches(moment, time, increment)
      /\ apart' = (apart /\ moment' # time)
  BY DEF EmitTimeChanged
<1>2. /\ simulationTime \in Int /\ moment \in Int /\ apart \in BOOLEAN
      /\ (~apart => simulationTime = moment)
  BY DEF ControlsInv
<1>3. moment' = IF increment > 0 THEN (IF moment < time THEN time ELSE moment)
                ELSE IF moment < time THEN moment ELSE time
  BY <1>1 DEF Reaches, Later, Earlier
<1>4. moment' \in Int /\ (moment = simulationTime => moment' = time)
  BY <1>2, <1>3
<1>5. apart' \in BOOLEAN /\ (~apart' => ~apart \/ moment' = time)
  BY <1>1, Zenon
<1>6. ~apart' => moment' = time
  BY <1>2, <1>4, <1>5
<1> QED BY <1>1, <1>4, <1>5, <1>6

LEMMA TimeSet ==
    ASSUME ControlsInv, NEW p, NEW c, NEW u, NEW pl,
           IsWidget(p, c, playback.maxTime, u, pl, playback.enabled),
           NEW value \in Nat, SetTime(p, value),
           playMode' \in {"Play", "Paused"}, pl <=> playMode' = "Play", correcting' = FALSE
    PROVE  ControlsInv'
<1> DEFINE m == playback.maxTime
           en == playback.enabled
           x == Earlier(value, m)
<1>1. /\ simulationTime' = value /\ playback' = ShowTime(p, value)
      /\ endTime' = endTime /\ loading' = loading
  BY DEF SetTime, EmitTimeChanged, file
<1>2. /\ simulationTime \in Int /\ endTime \in Nat /\ loading \in BOOLEAN
      /\ playback \in Widgets
      /\ (en => ~loading /\ m = endTime) /\ (~en => m = 0)
  BY DEF ControlsInv
<1>3. IsWidget(playback', x, m, u, pl, en)
  <2>1. \A t \in Int : IsWidget(ShowTime(p, t), Earlier(t, m), m, u, pl, en)
    BY WidgetChanges
  <2> HIDE DEF m, en
  <2> QED BY <1>1, <2>1
<1>4. m \in Nat /\ en \in BOOLEAN
  BY <1>2, WidgetFields
<1>5. /\ playback' \in Widgets /\ playback'.currentTime = x /\ playback'.maxTime = m
      /\ playback'.playing = pl /\ playback'.enabled = en /\ u \in Units
  BY <1>3, WidgetFields DEF IsWidget
<1>6. x = (IF value < m THEN value ELSE m)
  BY DEF Earlier
<1> HIDE DEF x, m, en
<1>7. /\ told' = value /\ told' \in Int /\ moment' \in Int /\ apart' \in BOOLEAN
      /\ (~apart' => simulationTime' = told' /\ simulationTime' = moment')
  <2> DEFINE increment == value - simulationTime
  <2>1. increment = value - simulationTime /\ EmitTimeChanged(p, value, increment)
    BY DEF SetTime
  <2> HIDE DEF increment
  <2>2. value \in Int
    OBVIOUS
  <2> QED BY <2>1, <2>2, HistoryTold
<1>8. ~en => x = 0
  BY <1>2, <1>6
<1>9. en => IsRounded(Earlier(told', endTime'), x, endTime')
  <2> SUFFICES ASSUME en PROVE IsRounded(Earlier(value, endTime), x, endTime)
    BY <1>1, <1>7
  <2>1. x = Earlier(value, endTime) /\ value \in Int /\ endTime \in Int
    BY <1>2 DEF x, en
  <2> QED BY <1>5, <2>1, RoundedItself
<1>10. ButtonShowsMode'
  BY <1>5 DEF ButtonShowsMode
<1>11. /\ simulationTime' \in Int /\ simulationTime' >= 0 /\ endTime' \in Nat
       /\ loading' \in BOOLEAN /\ correcting' \in BOOLEAN
  <2>1. simulationTime' \in Int /\ simulationTime' >= 0 /\ endTime' \in Nat
    BY <1>1, <1>2
  <2>2. loading' \in BOOLEAN
    BY <1>1, <1>2, Zenon
  <2>3. correcting' \in BOOLEAN
    OBVIOUS
  <2> QED BY <2>1, <2>2, <2>3
<1>12. /\ playback'.enabled => ~loading' /\ playback'.maxTime = endTime'
       /\ ~playback'.enabled => playback'.maxTime = 0
       /\ ~playback'.enabled => playback'.currentTime = 0
       /\ playback'.enabled =>
             IsRounded(Earlier(told', endTime'), playback'.currentTime, endTime')
  BY <1>1, <1>2, <1>5, <1>8, <1>9
<1> QED BY <1>5, <1>7, <1>10, <1>11, <1>12 DEF ControlsInv

LEMMA FrameControls ==
    ASSUME ControlsInv, NEW timeStep \in Int, Frame(timeStep)
    PROVE  ControlsInv'
<1> DEFINE time == simulationTime + timeStep
           m == playback.maxTime
           en == playback.enabled
           pl == playback.playing
           u == playback.currentUnit
           x == Earlier(time, m)
<1>1. /\ simulationTime' = time /\ playback' = ShowTime(playback, time)
      /\ endTime' = endTime /\ loading' = loading /\ playMode' = playMode
      /\ correcting' = (\/ timeStep > 0 /\ time >= endTime
                        \/ timeStep < 0 /\ time < 0)
      /\ ~correcting
  BY DEF Frame, EmitTimeChanged, file
<1>2. /\ simulationTime \in Int /\ endTime \in Nat /\ loading \in BOOLEAN
      /\ playback \in Widgets
      /\ playMode \in {"Play", "Paused"} /\ ButtonShowsMode
      /\ (~correcting => simulationTime >= 0)
      /\ (en => ~loading /\ m = endTime) /\ (~en => m = 0)
  BY DEF ControlsInv
<1>3. time \in Int
  BY <1>2
<1>4. /\ m \in Nat /\ en \in BOOLEAN /\ u \in Units /\ playback.currentTime \in Int
      /\ IsWidget(playback, playback.currentTime, m, u, pl, en)
  BY <1>2, WidgetFields
<1>5. IsWidget(playback', x, m, u, pl, en)
  <2> HIDE DEF time, m, u, pl, en
  <2> QED BY <1>1, <1>3, <1>4, WidgetChanges
<1>6. /\ playback' \in Widgets /\ playback'.currentTime = x /\ playback'.maxTime = m
      /\ playback'.playing = pl /\ playback'.enabled = en
  BY <1>5 DEF IsWidget
<1>7. x = (IF time < m THEN time ELSE m)
  BY DEF Earlier
<1>8. ButtonShowsMode'
  BY <1>1, <1>2, <1>6 DEF ButtonShowsMode
<1> HIDE DEF x, m, en, pl, u
<1>9. /\ correcting' \in BOOLEAN
      /\ told' = time /\ told' \in Int /\ moment' \in Int /\ apart' \in BOOLEAN
      /\ (~apart' => simulationTime' = told' /\ simulationTime' = moment')
  <2>1. timeStep = time - simulationTime /\ EmitTimeChanged(playback, time, timeStep)
    BY <1>2 DEF Frame
  <2>2. correcting' \in BOOLEAN
    BY <1>1
  <2> HIDE DEF time
  <2> QED BY <1>3, <2>1, <2>2, HistoryTold
<1>10. ~correcting' => time >= 0
  BY <1>1, <1>2
<1>11. ~en /\ ~correcting' => x = 0
  BY <1>2, <1>3, <1>7, <1>10
<1>12. en => IsRounded(Earlier(told', endTime'), x, endTime')
  <2> SUFFICES ASSUME en PROVE IsRounded(Earlier(time, endTime), x, endTime)
    BY <1>1, <1>9
  <2>1. x = Earlier(time, endTime) /\ endTime \in Int
    BY <1>2 DEF x
  <2> HIDE DEF time
  <2> QED BY <1>3, <1>4, <2>1, RoundedItself
<1> HIDE DEF time
<1> QED BY <1>1, <1>2, <1>3, <1>6, <1>8, <1>9, <1>10, <1>11, <1>12 DEF ControlsInv, m, en

LEMMA ControlsKeepTime ==
    ASSUME ControlsInv, ~correcting, Stays, UNCHANGED correcting,
           NEW x \in Int, NEW u, NEW pl,
           IsWidget(playback', x, playback.maxTime, u, pl, playback.enabled),
           ~playback.enabled => x = 0,
           playback.enabled => IsRounded(Earlier(told, endTime), x, endTime),
           playMode' \in {"Play", "Paused"}, pl <=> playMode' = "Play"
    PROVE  ControlsInv'
<1> DEFINE m == playback.maxTime
           en == playback.enabled
<1>1. /\ simulationTime' = simulationTime /\ endTime' = endTime /\ loading' = loading
      /\ told' = told /\ moment' = moment /\ apart' = apart /\ correcting' = correcting
  BY DEF Stays, file, history
<1>2. /\ simulationTime \in Int /\ endTime \in Nat /\ loading \in BOOLEAN
      /\ told \in Int /\ moment \in Int /\ apart \in BOOLEAN
      /\ (~apart => simulationTime = told /\ simulationTime = moment)
      /\ correcting \in BOOLEAN /\ simulationTime >= 0
      /\ (en => ~loading /\ m = endTime) /\ (~en => m = 0)
  BY DEF ControlsInv
<1>3. /\ playback' \in Widgets /\ playback'.currentTime = x /\ playback'.maxTime = m
      /\ playback'.playing = pl /\ playback'.enabled = en
  BY DEF IsWidget
<1>4. ButtonShowsMode'
  BY <1>3 DEF ButtonShowsMode
<1>5. ~en => x = 0
  OBVIOUS
<1>6. en => IsRounded(Earlier(told, endTime), x, endTime)
  OBVIOUS
<1> HIDE DEF m, en
<1>7. /\ simulationTime' \in Int /\ simulationTime' >= 0 /\ endTime' \in Nat
      /\ loading' \in BOOLEAN /\ correcting' \in BOOLEAN
      /\ told' \in Int /\ moment' \in Int /\ apart' \in BOOLEAN
      /\ (~apart' => simulationTime' = told' /\ simulationTime' = moment')
  BY <1>1, <1>2, Zenon
<1>8. /\ playback'.enabled => ~loading' /\ playback'.maxTime = endTime'
      /\ ~playback'.enabled => playback'.maxTime = 0
      /\ ~playback'.enabled => playback'.currentTime = 0
      /\ playback'.enabled =>
            IsRounded(Earlier(told', endTime'), playback'.currentTime, endTime')
  BY <1>1, <1>2, <1>3, <1>5, <1>6
<1> QED BY <1>3, <1>4, <1>7, <1>8 DEF ControlsInv

LEMMA PressControls ==
    ASSUME ControlsInv, PressPlay \/ PressPause \/ MenuPlayPause
    PROVE  ControlsInv'
<1> DEFINE m == playback.maxTime
           en == playback.enabled
           c == playback.currentTime
           u == playback.currentUnit
<1>1. /\ playback \in Widgets /\ IsWidget(playback, c, m, u, playback.playing, en)
      /\ c \in Int /\ endTime \in Nat
      /\ (~en /\ ~correcting => c = 0)
      /\ (en => IsRounded(Earlier(told, endTime), c, endTime))
  BY WidgetFields DEF ControlsInv
<1>2. /\ IsWidget(SetPlaying(playback), c, m, u, TRUE, en)
      /\ IsWidget(SetPaused(playback), c, m, u, FALSE, en)
  <2> HIDE DEF c, m, u, en
  <2> QED BY <1>1, WidgetChanges
<1>3. CASE PressPlay /\ playback.currentTime = playback.maxTime
  <2>1. /\ SetTime(SetPlaying(playback), 0) /\ playMode' = "Play" /\ correcting' = FALSE
    <3>1. SetTime(SetPlaying(playback), 0) /\ playMode' = "Play" /\ correcting' = correcting
      BY <1>3 DEF PressPlay
    <3>2. ~correcting /\ correcting \in BOOLEAN
      BY <1>3 DEF PressPlay, ControlsInv
    <3> QED BY <3>1, <3>2, Zenon
  <2>2. 0 \in Nat
    OBVIOUS
  <2>3. playMode' \in {"Play", "Paused"} /\ (TRUE <=> playMode' = "Play")
    BY <2>1
  <2> HIDE DEF c, m, u, en
  <2>4. IsWidget(SetPlaying(playback), c, playback.maxTime, u, TRUE, playback.enabled)
    BY <1>2 DEF m, en
  <2> QED BY <2>1, <2>2, <2>3, <2>4, TimeSet
<1>4. ASSUME ~correcting, Stays, UNCHANGED correcting, NEW pl \in BOOLEAN,
             IsWidget(playback', c, m, u, pl, en),
             playMode' \in {"Play", "Paused"}, pl <=> playMode' = "Play"
      PROVE  ControlsInv'
  BY <1>1, <1>4, ControlsKeepTime
<1>5. CASE PressPlay /\ playback.currentTime # playback.maxTime
  <2>1. /\ playback' = SetPlaying(playback) /\ Stays /\ playMode' = "Play"
        /\ ~correcting /\ UNCHANGED correcting
    BY <1>5 DEF PressPlay
  <2> QED BY <1>2, <1>4, <2>1
<1>6. CASE PressPause
  <2>1. /\ playback' = SetPaused(playback) /\ Stays /\ playMode' = "Paused"
        /\ ~correcting /\ UNCHANGED correcting
    BY <1>6 DEF PressPause
  <2> QED BY <1>2, <1>4, <2>1
<1>7. CASE MenuPlayPause
  <2>1. /\ Stays /\ ~correcting /\ UNCHANGED correcting
        /\ \/ playback' = SetPaused(playback) /\ playMode' = "Paused"
           \/ playback' = SetPlaying(playback) /\ playMode' = "Play"
    BY <1>7 DEF MenuPlayPause
  <2> QED BY <1>2, <1>4, <2>1
<1> QED BY <1>3, <1>5, <1>6, <1>7

LEMMA ChangeControls ==
    ASSUME ControlsInv, NEW unit \in Units, ChangeTimeStep(unit)
    PROVE  ControlsInv'
<1> DEFINE m == playback.maxTime
           en == playback.enabled
           c == playback.currentTime
           u == playback.currentUnit
           pl == playback.playing
           x == IF CeilTime(c, unit) = c THEN c ELSE Earlier(CeilTime(c, unit), m)
<1>1. /\ playback' = SetGranularity(playback, unit) /\ Stays /\ playMode' = playMode
      /\ ~correcting /\ UNCHANGED correcting
  BY DEF ChangeTimeStep
<1>2. /\ playback \in Widgets /\ IsWidget(playback, c, m, u, pl, en)
      /\ c \in Int /\ m \in Nat /\ endTime \in Nat /\ told \in Int
      /\ (~en /\ ~correcting => c = 0) /\ (en => m = endTime)
      /\ (en => IsRounded(Earlier(told, endTime), c, endTime))
      /\ playMode \in {"Play", "Paused"} /\ (pl <=> playMode = "Play")
  BY WidgetFields DEF ControlsInv, ButtonShowsMode
<1>3. IsWidget(playback', x, m, unit, pl, en)
  <2> HIDE DEF c, m, u, en, pl
  <2> QED BY <1>1, <1>2, GranularitySet
<1>4. CeilTime(c, unit) \in Int
  <2> HIDE DEF c
  <2> QED BY <1>2, TimesAssumption, Rounded
<1>5. x \in Int
  <2> HIDE DEF c
  <2> QED BY <1>2, <1>4 DEF Earlier
<1>6. ~en => x = 0
  <2>1. unit \in Nat \ {0}
    BY TimesAssumption
  <2>2. CeilTime(0, unit) = 0
    BY <2>1 DEF CeilTime
  <2> QED BY <1>1, <1>2, <2>2
<1>7. en => IsRounded(Earlier(told, endTime), x, endTime)
  <2> DEFINE t == Earlier(told, endTime)
  <2> SUFFICES ASSUME en PROVE IsRounded(t, x, endTime)
    OBVIOUS
  <2>1. IsRounded(t, c, endTime) /\ m = endTime
    BY <1>1, <1>2
  <2>2. t \in Int
    BY <1>2 DEF Earlier
  <2> HIDE DEF c, m, t
  <2> QED BY <1>2, <2>1, <2>2, RoundedAgain
<1> HIDE DEF x
<1>8. playMode' \in {"Play", "Paused"} /\ (pl <=> playMode' = "Play")
  BY <1>1, <1>2
<1> QED BY <1>1, <1>3, <1>5, <1>6, <1>7, <1>8, ControlsKeepTime

LEMMA CorrectControls ==
    ASSUME ControlsInv, Correct
    PROVE  ControlsInv'
<1> DEFINE m == playback.maxTime
           en == playback.enabled
           c == playback.currentTime
           u == playback.currentUnit
           value == IF simulationTime < 0 THEN 0 ELSE endTime
<1>1. /\ SetTime(SetPaused(playback), value) /\ playMode' = "Paused" /\ correcting' = FALSE
  BY DEF Correct
<1>2. value \in Nat /\ playback \in Widgets
  BY DEF ControlsInv
<1>3. IsWidget(SetPaused(playback), c, m, u, FALSE, en)
  <2>1. IsWidget(playback, c, m, u, playback.playing, en)
    BY <1>2, WidgetFields
  <2> HIDE DEF c, m, u, en
  <2> QED BY <2>1, WidgetChanges
<1> HIDE DEF value, c, u
<1> QED BY <1>1, <1>2, <1>3, TimeSet

LEMMA MoveControls ==
    ASSUME ControlsInv, NEW value \in 0..playback.maxTime,
           MoveSlider(value) \/ JumpTo(value)
    PROVE  ControlsInv'
<1> DEFINE m == playback.maxTime
           en == playback.enabled
           c == playback.currentTime
           u == playback.currentUnit
<1>1. /\ playback \in Widgets /\ IsWidget(playback, c, m, u, playback.playing, en)
      /\ c \in Int /\ endTime \in Nat /\ m \in Nat /\ u \in Units
      /\ (en => m = endTime) /\ correcting \in BOOLEAN
      /\ playMode \in {"Play", "Paused"} /\ (playback.playing <=> playMode = "Play")
  BY WidgetFields DEF ControlsInv, ButtonShowsMode
<1>2. value \in Nat /\ value <= m
  BY <1>1
<1>3. CASE MoveSlider(value)
  <2> DEFINE time == TimeOfSlider(playback, value)
  <2>1. /\ SetTime(playback, time) /\ playMode' = playMode /\ correcting' = FALSE
        /\ en
    <3>1. /\ SetTime(playback, time) /\ playMode' = playMode /\ correcting' = correcting
          /\ ~correcting /\ en
      BY <1>3 DEF MoveSlider
    <3> QED BY <1>1, <3>1, Zenon
  <2>2. time \in Nat /\ time <= m
    <3> DEFINE r == CeilTime(value, u)
    <3>1. r \in Int /\ value <= r
      <4>1. u \in Nat \ {0}
        <5> HIDE DEF u
        <5> QED BY <1>1, TimesAssumption
      <4>2. value \in Int
        BY <1>2
      <4> HIDE DEF u
      <4> QED BY <4>1, <4>2, Rounded
    <3>2. time = IF r < m THEN r ELSE m
      BY DEF TimeOfSlider, Earlier
    <3> HIDE DEF r, m, time
    <3> QED BY <1>1, <1>2, <3>1, <3>2
  <2> HIDE DEF time
  <2>4. playMode' \in {"Play", "Paused"} /\ (playback.playing <=> playMode' = "Play")
    BY <1>1, <2>1
  <2>5. IsWidget(playback, c, playback.maxTime, u, playback.playing, playback.enabled)
    BY <1>1
  <2> DEFINE p == playback
             pl == playback.playing
  <2>6. /\ IsWidget(p, c, playback.maxTime, u, pl, playback.enabled) /\ SetTime(p, time)
        /\ (pl <=> playMode' = "Play") /\ playMode' \in {"Play", "Paused"}
        /\ correcting' = FALSE
    BY <2>1, <2>4, <2>5
  <2> HIDE DEF c, m, u, en, p, pl
  <2>7. time \in Nat /\ pl \in BOOLEAN
    BY <1>1, <2>2, WidgetFields DEF pl
  <2>8. CASE pl = TRUE
    <3>1. playMode' \in {"Play", "Paused"} /\ (TRUE <=> playMode' = "Play")
      BY <2>6, <2>8
    <3>2. IsWidget(p, c, playback.maxTime, u, TRUE, playback.enabled)
      BY <2>6, <2>8
    <3> QED BY <2>6, <2>7, <3>1, <3>2, TimeSet
  <2>9. CASE pl = FALSE
    <3>1. playMode' \in {"Play", "Paused"} /\ (FALSE <=> playMode' = "Play")
      BY <2>6, <2>9
    <3>2. IsWidget(p, c, playback.maxTime, u, FALSE, playback.enabled)
      BY <2>6, <2>9
    <3> QED BY <2>6, <2>7, <3>1, <3>2, TimeSet
  <2> QED BY <2>7, <2>8, <2>9
<1>4. CASE JumpTo(value)
  <2>1. /\ SetTime(SetPaused(playback), value) /\ playMode' = "Paused" /\ correcting' = FALSE
    <3>1. /\ SetTime(SetPaused(playback), value) /\ playMode' = "Paused"
          /\ correcting' = correcting /\ ~correcting
      BY <1>4 DEF JumpTo
    <3> QED BY <1>1, <3>1, Zenon
  <2>2. IsWidget(SetPaused(playback), c, m, u, FALSE, en)
    <3> HIDE DEF c, m, u, en
    <3> QED BY <1>1, WidgetChanges
  <2> QED BY <1>2, <2>1, <2>2, TimeSet
<1> QED BY <1>3, <1>4

LEMMA LoadControls ==
    ASSUME ControlsInv, Load
    PROVE  ControlsInv'
<1> DEFINE u == playback.currentUnit
           pl == playback.playing
<1>1. /\ ~correcting /\ loading' = TRUE /\ simulationTime' = 0
      /\ playback' = ResetWidget(playback) /\ playMode' = playMode /\ endTime' = endTime
      /\ correcting' = correcting /\ told' = told /\ apart' = TRUE
  BY DEF Load
<1>2. /\ playback \in Widgets /\ endTime \in Nat /\ correcting \in BOOLEAN
      /\ told \in Int /\ moment \in Int /\ playMode \in {"Play", "Paused"}
      /\ (pl <=> playMode = "Play")
  BY DEF ControlsInv, ButtonShowsMode
<1>3. IsWidget(playback', 0, 0, u, pl, FALSE)
  <2>1. IsWidget(playback, playback.currentTime, playback.maxTime, u, pl, playback.enabled)
    BY <1>2, WidgetFields
  <2> HIDE DEF u, pl
  <2> QED BY <1>1, <2>1, WidgetChanges
<1>4. /\ playback' \in Widgets /\ playback'.currentTime = 0 /\ playback'.maxTime = 0
      /\ playback'.playing = pl /\ playback'.enabled = FALSE
  BY <1>3 DEF IsWidget
<1>5. ButtonShowsMode'
  BY <1>1, <1>2, <1>4 DEF ButtonShowsMode
<1>6. /\ endTime' \in Nat /\ loading' \in BOOLEAN /\ correcting' \in BOOLEAN
      /\ apart' \in BOOLEAN /\ apart' /\ playMode' \in {"Play", "Paused"}
  BY <1>1, <1>2, Zenon
<1>7. /\ simulationTime' \in Int /\ simulationTime' >= 0
      /\ told' \in Int /\ moment' \in Int
  <2>1. moment' \in Int
    BY <1>2 DEF Load, Earlier
  <2> QED BY <1>1, <1>2, <2>1
<1>8. ~playback'.enabled
  BY <1>4
<1> QED BY <1>4, <1>5, <1>6, <1>7, <1>8 DEF ControlsInv

LEMMA FinishControls ==
    ASSUME ControlsInv, NEW s \in Scenarios, NEW unit \in Units, FinishLoading(s, unit)
    PROVE  ControlsInv'
<1> DEFINE u == playback.currentUnit
           pl == playback.playing
           p == SetMaxTime(playback, s.endTime)
           q == SetGranularity(p, unit)
           end == s.endTime
<1>1. /\ ~correcting /\ loading /\ loading' = FALSE /\ endTime' = end
      /\ playback' = EnableControls(q) /\ simulationTime' = simulationTime
      /\ playMode' = playMode /\ correcting' = correcting
      /\ told' = 0 /\ moment' = 0 /\ apart' = (simulationTime # 0)
  BY DEF FinishLoading
<1>2. /\ playback \in Widgets /\ correcting \in BOOLEAN /\ simulationTime \in Int
      /\ simulationTime >= 0 /\ playMode \in {"Play", "Paused"} /\ (pl <=> playMode = "Play")
      /\ ~playback.enabled /\ playback.currentTime = 0
  BY <1>1 DEF ControlsInv, ButtonShowsMode
<1>3. end \in Nat
  BY ScenariosAssumption
<1>4. unit \in Nat \ {0}
  BY TimesAssumption
<1>5. CeilTime(0, unit) = 0
  BY <1>4 DEF CeilTime
<1>6. IsWidget(playback', 0, end, unit, pl, TRUE)
  <2>1. IsWidget(playback, 0, playback.maxTime, u, pl, playback.enabled)
    BY <1>2, WidgetFields
  <2> HIDE DEF u, pl, q
  <2>2. IsWidget(p, 0, end, u, pl, playback.enabled)
    BY <1>3, <2>1, WidgetChanges
  <2> HIDE DEF p
  <2>3. IsWidget(q, IF CeilTime(0, unit) = 0 THEN 0 ELSE Earlier(CeilTime(0, unit), end),
                 end, unit, pl, playback.enabled)
    BY <2>2, GranularitySet DEF q
  <2>4. IsWidget(q, 0, end, unit, pl, playback.enabled)
    BY <1>5, <2>3
  <2> QED BY <1>1, <2>4, WidgetChanges
<1> HIDE DEF p, q, end
<1>7. /\ playback' \in Widgets /\ playback'.currentTime = 0 /\ playback'.maxTime = end
      /\ playback'.playing = pl /\ playback'.enabled = TRUE
  BY <1>6 DEF IsWidget
<1>8. ButtonShowsMode'
  BY <1>1, <1>2, <1>7 DEF ButtonShowsMode
<1>9. /\ endTime' \in Nat /\ loading' \in BOOLEAN /\ ~loading' /\ correcting' \in BOOLEAN
      /\ playMode' \in {"Play", "Paused"}
  BY <1>1, <1>2, <1>3, Zenon
<1>10. /\ simulationTime' \in Int /\ simulationTime' >= 0
       /\ told' \in Int /\ moment' \in Int /\ apart' \in BOOLEAN
       /\ (~apart' => simulationTime' = told' /\ simulationTime' = moment')
  <2>1. apart' \in BOOLEAN /\ (~apart' => simulationTime = 0)
    BY <1>1, Zenon
  <2>2. /\ simulationTime' \in Int /\ simulationTime' >= 0
        /\ told' \in Int /\ moment' \in Int
    BY <1>1, <1>2
  <2> QED BY <1>1, <2>1, <2>2
<1>11. IsRounded(Earlier(told', endTime'), playback'.currentTime, endTime')
  <2>1. Earlier(0, end) = 0
    BY <1>3 DEF Earlier
  <2>2. IsRounded(0, 0, end)
    BY <1>3, <1>4 DEF IsRounded
  <2> QED BY <1>1, <1>7, <2>1, <2>2
<1>12. playback'.enabled /\ playback'.maxTime = endTime'
  BY <1>1, <1>7
<1> QED BY <1>7, <1>8, <1>9, <1>10, <1>11, <1>12 DEF ControlsInv

LEMMA ControlsStep ==
    ASSUME ControlsInv, [Next]_vars
    PROVE  ControlsInv'
<1>1. ASSUME NEW timeStep \in TimeSteps, Frame(timeStep) PROVE ControlsInv'
  BY <1>1, FrameControls, TimesAssumption
<1>2. ASSUME NEW value \in 0..playback.maxTime, MoveSlider(value) \/ JumpTo(value)
      PROVE  ControlsInv'
  BY <1>2, MoveControls
<1>3. ASSUME NEW unit \in Units, ChangeTimeStep(unit) PROVE ControlsInv'
  BY <1>3, ChangeControls
<1>4. ASSUME NEW s \in Scenarios, NEW unit \in Units, FinishLoading(s, unit)
      PROVE  ControlsInv'
  BY <1>4, FinishControls
<1>5. CASE ErrorLoading
  <2>1. /\ loading /\ loading' = FALSE /\ simulationTime' = simulationTime
        /\ playMode' = playMode /\ playback' = playback /\ endTime' = endTime
        /\ correcting' = correcting
        /\ told' = told /\ moment' = moment /\ apart' = apart
    BY <1>5 DEF ErrorLoading, history
  <2>2. loading' \in BOOLEAN
    BY <2>1
  <2> QED BY <2>1, <2>2 DEF ControlsInv, ButtonShowsMode
<1>6. CASE UNCHANGED vars
  BY <1>6 DEF vars, file, history, ControlsInv, ButtonShowsMode
<1>7. CASE PreviewModel
  <2>1. /\ simulationTime' = 0 /\ apart' = TRUE /\ told' = told /\ moment' = moment
        /\ playMode' = playMode /\ playback' = playback /\ endTime' = endTime
        /\ correcting' = correcting /\ loading' = loading
    BY <1>7 DEF PreviewModel, file
  <2>2. simulationTime' \in Int /\ simulationTime' >= 0 /\ apart' \in BOOLEAN /\ apart'
    BY <2>1
  <2> QED BY <2>1, <2>2 DEF ControlsInv, ButtonShowsMode
<1> QED BY <1>1, <1>2, <1>3, <1>4, <1>5, <1>6, <1>7, CorrectControls, PressControls, LoadControls
        DEF Next

---------------------------------------------------------------------------
(* Both tapes follow the time. *)

IsTimed(S, U, u, e) == /\ u \in Seq(U) /\ e \in Seq(S)
                       /\ \A x \in S : x.time \in Int
                       /\ \A x \in U : x.event \in S

LEMMA ChartsTimed ==
    ASSUME NEW tape, NEW s, NEW u, NEW e, ChartsAt(tape, s, u, e)
    PROVE  IsTimed(ChartEvent, ChartUndo, u, e)
<1>1. EventOn(DOMAIN s) \subseteq ChartEvent
  BY DEF EventOn
<1>2. e \in Seq(EventOn(DOMAIN s)) /\ u \in Seq(ChartUndo)
  BY DEF ChartsAt, ChartsShow
<1>3. e \in Seq(ChartEvent)
  BY <1>1, <1>2, SeqMonotonic
<1>4. \A x \in ChartEvent : x.time \in Int
  BY DEF ChartEvent
<1>5. \A x \in ChartUndo : x.event \in ChartEvent
  BY DEF ChartUndo
<1> QED BY <1>2, <1>3, <1>4, <1>5 DEF IsTimed

LEMMA LogTimed ==
    ASSUME NEW tape, NEW u, NEW e, NEW ids, IsOnTape(tape, u, e, ids)
    PROVE  IsTimed(Range(tape), Range(u), u, e)
<1>1. /\ tape \in LogTapes /\ u \in Seq(Range(u)) /\ e \in Seq(Range(tape))
      /\ \A x \in Range(u) : x.event \in Range(tape)
  BY LogOnTape
<1>2. \A x \in Range(tape) : x.time \in Int
  BY <1>1, LogTape
<1> QED BY <1>1, <1>2 DEF IsTimed

LEMMA QueueAdvances ==
    ASSUME NEW S, NEW U, NEW V, NEW u, NEW e, NEW v, NEW now \in Int, NEW time \in Int,
           NEW d, IsTimed(S, U, u, e), IsTimed(S, V, v, Rest(e, d)),
           IsAt(u, e, now), now <= time, IsFront(e, d, time),
           IsAdvanced(u, e, v, d, time)
    PROVE  IsAt(v, Rest(e, d), time) /\ AllBy(v, time) /\ AllAfter(Rest(e, d), time)
<1>1. /\ u \in Seq(U) /\ e \in Seq(S) /\ v \in Seq(V)
      /\ (\A x \in S : x.time \in Int) /\ (\A x \in U : x.event \in S)
      /\ (\A x \in V : x.event \in S)
  BY DEF IsTimed
<1> QED BY <1>1, MomentAdvances

(* Nothing is due before the moment of a queue; what may be added are fake *)
(* events, which come last as long as all that was applied is before them. *)
LEMMA NothingDue ==
    ASSUME NEW S, NEW U, NEW u, NEW e, NEW now \in Int, NEW time \in Int, time < now,
           IsTimed(S, U, u, e), IsAt(u, e, now), NEW d, IsFront(e, d, time)
    PROVE  d = 0 /\ Rest(e, d) = e
<1>1. /\ e \in Seq(S) /\ Len(e) \in Nat /\ DOMAIN e = 1..Len(e)
      /\ \A i \in 1..Len(e) : e[i].time \in Int /\ now <= e[i].time
  BY LenProperties, ElementOfSeq DEF IsTimed, IsAt
<1>2. d \in 0..Len(e) /\ \A i \in 1..d : ~(e[i].time > time)
  BY DEF IsFront
<1>3. d = 0
  <2> SUFFICES ASSUME d # 0 PROVE FALSE
    OBVIOUS
  <2>1. 1 \in 1..d /\ 1 \in 1..Len(e)
    BY <1>1, <1>2
  <2>2. ~(e[1].time > time) /\ e[1].time \in Int /\ now <= e[1].time
    BY <1>1, <1>2, <2>1
  <2> QED BY <2>2
<1>4. Rest(e, 0) = e
  BY <1>1, SubSeqFull DEF Rest
<1> QED BY <1>3, <1>4

LEMMA QueueStays ==
    ASSUME NEW S, NEW U, NEW V, NEW u, NEW e, NEW v, NEW now \in Int, NEW time \in Int,
           time < now, IsTimed(S, U, u, e), IsTimed(S, V, v, e), IsAt(u, e, now),
           IsAdvanced(u, e, v, 0, time), Len(v) = Len(u) \/ AllBy(u, time)
    PROVE  /\ IsAt(v, e, now)
           /\ AllBy(u, time) => AllBy(v, time)
           /\ \A f : IsBefore(u, f) /\ AllFrom(f, now) /\ (\A j \in DOMAIN f : f[j].time \in Int)
                        => IsBefore(v, f)
<1> DEFINE n == Len(u)
           l == Len(v)
<1>1. /\ n \in Nat /\ DOMAIN u = 1..n /\ (\A i \in 1..n : u[i].event.time \in Int)
      /\ l \in Nat /\ DOMAIN v = 1..l /\ (\A i \in 1..l : v[i].event.time \in Int)
      /\ DOMAIN e = 1..Len(e) /\ (\A i \in 1..Len(e) : e[i].time \in Int)
  BY LenProperties, ElementOfSeq DEF IsTimed
<1>2. /\ l >= n /\ (\A i \in 1..n : v[i].event = u[i].event)
      /\ (\A i \in n+1..l : v[i].event.time = time)
  <2>1. n \in Nat
    BY <1>1
  <2>2. /\ l >= n + 0 /\ (\A i \in 1..n : v[i].event = u[i].event)
        /\ (\A i \in n+0+1..l : v[i].event.time = time)
    BY DEF IsAdvanced
  <2> HIDE DEF n, l
  <2>3. n + 0 = n
    BY <2>1
  <2> QED BY <2>2, <2>3
<1>3. l = n \/ \A i \in 1..n : u[i].event.time <= time
  BY <1>1 DEF AllBy
<1>4. /\ \A i, j \in 1..n : i < j => u[i].event.time <= u[j].event.time
      /\ \A i \in 1..n, j \in DOMAIN e : u[i].event.time <= e[j].time
      /\ IsOrdered(e)
      /\ \A i \in 1..n : u[i].event.time <= now
      /\ \A i \in DOMAIN e : now <= e[i].time
  BY <1>1 DEF IsAt, InOrder
<1> HIDE DEF n, l
<1>5. \A i \in 1..l : \/ i \in 1..n /\ v[i].event.time = u[i].event.time
                      \/ i \in n+1..l /\ v[i].event.time = time
  BY <1>1, <1>2
<1>6. \A i, j \in 1..l : i < j => v[i].event.time <= v[j].event.time
  <2> SUFFICES ASSUME NEW i \in 1..l, NEW j \in 1..l, i < j
               PROVE  v[i].event.time <= v[j].event.time
    OBVIOUS
  <2>1. CASE j \in 1..n
    <3>1. i \in 1..n
      BY <1>1, <2>1
    <3> QED BY <1>2, <1>4, <2>1, <3>1
  <2>2. CASE j \in n+1..l
    <3>1. \A k \in 1..n : u[k].event.time <= time
      BY <1>1, <1>3, <2>2
    <3> QED BY <1>2, <1>5, <2>2, <3>1
  <2> QED BY <1>5, <2>1, <2>2
<1>7. \A i \in 1..l, j \in DOMAIN e : v[i].event.time <= e[j].time
  BY <1>1, <1>4, <1>5
<1>8. \A i \in 1..l : v[i].event.time <= now
  BY <1>4, <1>5
<1>9. IsAt(v, e, now)
  BY <1>1, <1>4, <1>6, <1>7, <1>8 DEF IsAt, InOrder
<1>10. AllBy(u, time) => AllBy(v, time)
  BY <1>1, <1>5 DEF AllBy
<1>11. ASSUME NEW f, IsBefore(u, f), AllFrom(f, now), \A j \in DOMAIN f : f[j].time \in Int
       PROVE  IsBefore(v, f)
  <2> SUFFICES ASSUME NEW i \in 1..l, NEW j \in DOMAIN f
               PROVE  v[i].event.time < f[j].time
    BY <1>1 DEF IsBefore
  <2>1. now <= f[j].time /\ f[j].time \in Int
    BY <1>11 DEF AllFrom
  <2>2. i \in 1..n => u[i].event.time < f[j].time
    BY <1>1, <1>11 DEF IsBefore
  <2> QED BY <1>5, <2>1, <2>2
<1> QED BY <1>9, <1>10, <1>11

LEMMA QueueRewinds ==
    ASSUME NEW S, NEW U, NEW u, NEW e, NEW now \in Int, NEW time \in Int,
           NEW k, IsTimed(S, U, u, e), IsAt(u, e, now), IsBack(u, k, time)
    PROVE  /\ IsAt(Without(u, k), Back(u, k) \o e, Earlier(now, time))
           /\ time <= now => /\ AllUntil(Without(u, k), time)
                             /\ AllFrom(Back(u, k) \o e, time)
           /\ now < time => Without(u, k) = u /\ Back(u, k) \o e = e
<1>1. /\ u \in Seq(U) /\ e \in Seq(S)
      /\ (\A x \in S : x.time \in Int) /\ (\A x \in U : x.event \in S)
  BY DEF IsTimed
<1>2. /\ k \in 0..Len(u) /\ (\A i \in Len(u)-k+1..Len(u) : ~(time > u[i].event.time))
      /\ (k < Len(u) => time > u[Len(u) - k].event.time)
  BY DEF IsBack
<1>3. CASE time <= now
  <2>1. Earlier(now, time) = time
    BY <1>3 DEF Earlier
  <2>2. /\ IsAt(Without(u, k), Back(u, k) \o e, time)
        /\ AllUntil(Without(u, k), time) /\ AllFrom(Back(u, k) \o e, time)
    BY <1>1, <1>2, <1>3, MomentRewinds
  <2> QED BY <1>3, <2>1, <2>2
<1>4. CASE now < time
  <2> DEFINE n == Len(u)
  <2>1. /\ n \in Nat /\ DOMAIN u = 1..n
        /\ \A i \in 1..n : u[i].event.time \in Int /\ u[i].event.time <= now
    BY <1>1, LenProperties, ElementOfSeq DEF IsAt
  <2>2. k = 0
    <3> SUFFICES ASSUME k # 0 PROVE FALSE
      OBVIOUS
    <3> HIDE DEF n
    <3>1. n \in n-k+1..n /\ n \in 1..n
      BY <1>2, <2>1 DEF n
    <3>2. ~(time > u[n].event.time)
      BY <1>2, <3>1 DEF n
    <3> QED BY <1>4, <2>1, <3>1, <3>2
  <2>3. Without(u, 0) = u
    BY <1>1, <2>1, SubSeqFull DEF Without
  <2>4. Back(u, 0) \o e = e
    <3>1. Back(u, 0) \in Seq(S) /\ Len(Back(u, 0)) = 0
      BY <1>1, <1>2, <2>2, Returned
    <3>2. Back(u, 0) = << >>
      BY <3>1, EmptySeq
    <3> QED BY <1>1, <3>2, ConcatEmptySeq
  <2>5. Earlier(now, time) = now /\ ~(time <= now)
    BY <1>4 DEF Earlier
  <2>6. Without(u, k) = u /\ Back(u, k) \o e = e
    BY <2>2, <2>3, <2>4
  <2>7. IsAt(Without(u, k), Back(u, k) \o e, Earlier(now, time))
    BY <2>5, <2>6
  <2> QED BY <2>5, <2>6, <2>7
<1> QED BY <1>3, <1>4

LEMMA Before ==
    ASSUME NEW S, NEW U, NEW u, NEW x, NEW T, NEW W, NEW y, NEW e, NEW time \in Int,
           IsTimed(S, U, u, x), IsTimed(T, W, y, e),
           \/ AllBy(u, time) /\ AllAfter(e, time)
           \/ AllUntil(u, time) /\ AllFrom(e, time)
    PROVE  IsBefore(u, e)
<1> SUFFICES ASSUME NEW i \in DOMAIN u, NEW j \in DOMAIN e
             PROVE  u[i].event.time < e[j].time
  BY DEF IsBefore
<1>1. u[i].event.time \in Int
  BY LenProperties, ElementOfSeq DEF IsTimed
<1>2. e[j].time \in Int
  BY LenProperties, ElementOfSeq DEF IsTimed
<1>3. CASE AllBy(u, time) /\ AllAfter(e, time)
  <2>1. u[i].event.time <= time /\ time < e[j].time
    BY <1>3 DEF AllBy, AllAfter
  <2> QED BY <1>1, <1>2, <2>1
<1>4. CASE AllUntil(u, time) /\ AllFrom(e, time)
  <2>1. u[i].event.time < time /\ time <= e[j].time
    BY <1>4 DEF AllUntil, AllFrom
  <2> QED BY <1>1, <1>2, <2>1
<1> QED BY <1>3, <1>4

(* A time at which a series is idle is after all that was applied. *)
LEMMA IdleIsLate ==
    ASSUME NEW s, NEW u, UpToDate(s, u), NEW time \in Int, SomeIdle(s, time),
           \A id \in DOMAIN s : s[id].lastUpdatedTime \in Int,
           \A i \in DOMAIN u : u[i].event.time \in Int
    PROVE  AllBy(u, time)
<1> SUFFICES ASSUME NEW i \in DOMAIN u PROVE u[i].event.time <= time
  BY DEF AllBy
<1>1. PICK id \in AutoUpdate \cap DOMAIN s : Charts!IsIdle(s[id], time)
  BY DEF SomeIdle
<1>2. /\ s[id].data # << >> /\ ~(time - s[id].lastUpdatedTime < AutoUpdateInterval)
  BY <1>1 DEF Charts!IsIdle
<1>3. id \in Seqs!ToSet(CategoryOrder)
  BY SeriesAssumption
<1>4. u[i].event.time - s[id].lastUpdatedTime <= AutoUpdateInterval
  BY <1>1, <1>2 DEF UpToDate, AreRecent, IsRecent
<1>5. /\ s[id].lastUpdatedTime \in Int /\ AutoUpdateInterval \in Int
      /\ u[i].event.time \in Int
  BY SeriesAssumption
<1> DEFINE last == s[id].lastUpdatedTime
           t == u[i].event.time
<1> HIDE DEF last, t
<1>6. last \in Int /\ t \in Int /\ t - last <= AutoUpdateInterval
      /\ ~(time - last < AutoUpdateInterval)
  BY <1>2, <1>4, <1>5 DEF last, t
<1>7. t <= time
  BY <1>5, <1>6
<1> QED BY <1>7 DEF t

(* After a time at which no series is idle, none was before it. *)
LEMMA RecentIsUpToDate ==
    ASSUME NEW s, NEW u, NEW time \in Int, AreRecent(s, time), AllBy(u, time),
           \A id \in DOMAIN s : s[id].lastUpdatedTime \in Int,
           \A i \in DOMAIN u : u[i].event.time \in Int
    PROVE  UpToDate(s, u)
<1> SUFFICES ASSUME NEW i \in DOMAIN u, NEW id \in AutoUpdate \cap DOMAIN s,
                    s[id].data # << >>
             PROVE  u[i].event.time - s[id].lastUpdatedTime <= AutoUpdateInterval
  BY DEF UpToDate, AreRecent, IsRecent
<1> DEFINE last == s[id].lastUpdatedTime
           t == u[i].event.time
<1>1. time - last <= AutoUpdateInterval /\ t <= time
  BY DEF AreRecent, IsRecent, AllBy
<1>2. last \in Int /\ t \in Int /\ AutoUpdateInterval \in Int
  BY SeriesAssumption
<1> HIDE DEF last, t
<1>3. t - last <= AutoUpdateInterval
  BY <1>1, <1>2
<1> QED BY <1>3 DEF last, t

LEMMA ChartsDated ==
    ASSUME NEW tape, NEW s, NEW u, NEW e, ChartsAt(tape, s, u, e)
    PROVE  /\ \A id \in DOMAIN s : s[id].lastUpdatedTime \in Int
           /\ \A i \in DOMAIN u : u[i].event.time \in Int
<1>1. s \in [DOMAIN s -> Series] /\ \A i \in DOMAIN u : u[i].event \in ChartEvent
  BY DEF ChartsAt, ChartsShow, EventOn
<1>2. \A id \in DOMAIN s : s[id].lastUpdatedTime \in Int
  BY <1>1 DEF Series
<1>3. \A x \in ChartEvent : x.time \in Int
  BY DEF ChartEvent
<1> QED BY <1>1, <1>2, <1>3

LEMMA Timed ==
    ASSUME NEW S, NEW U, NEW u, NEW e, IsTimed(S, U, u, e)
    PROVE  \A i \in DOMAIN e : e[i].time \in Int
BY LenProperties, ElementOfSeq DEF IsTimed

LEMMA BothAdvance ==
    ASSUME ControlsInv, LogTapeInv, ChartsInv, IntervalIsNatural => MomentInv,
           NEW time \in Int, Charts!TimeAdvanced(time), Log!TimeAdvanced(time),
           moment' = Later(moment, time)
    PROVE  /\ ChartsAt(scenario.charts, series', chartUndoEvents', chartEvents')
           /\ DOMAIN series' = DOMAIN series
           /\ IsOnTape(scenario.log, logUndoEvents', logEvents', DOMAIN streams')
           /\ IntervalIsNatural => MomentInv'
<1> DEFINE now == moment
           tape == scenario.log
           cu == chartUndoEvents
           ce == chartEvents
           lu == logUndoEvents
           le == logEvents
<1>1. /\ ChartsAt(scenario.charts, series, cu, ce) /\ IsOnTape(tape, lu, le, DOMAIN streams)
      /\ now \in Int
  BY DEF ChartsInv, LogTapeInv, ControlsInv
<1>2. PICK d : /\ ChartsAt(scenario.charts, series', cu', ce') /\ DOMAIN series' = DOMAIN series
               /\ IntervalIsNatural => AreRecent(series', time)
               /\ IsFront(ce, d, time) /\ ce' = Rest(ce, d) /\ IsAdvanced(cu, ce, cu', d, time)
               /\ d = 0 => UNCHANGED <<series, chartUndoEvents>> \/ SomeIdle(series, time)
  BY <1>1, ChartsAdvance
<1>3. PICK k : /\ IsOnTape(tape, lu', le', DOMAIN streams')
               /\ IsFront(le, k, time) /\ le' = Rest(le, k) /\ IsAdvanced(lu, le, lu', k, time)
               /\ k = 0 => Len(lu') = Len(lu)
  BY <1>1, LogAdvance
<1>4. /\ IsTimed(ChartEvent, ChartUndo, cu, ce) /\ IsTimed(ChartEvent, ChartUndo, cu', ce')
      /\ IsTimed(Range(tape), Range(lu), lu, le) /\ IsTimed(Range(tape), Range(lu'), lu', le')
  BY <1>1, <1>2, <1>3, ChartsTimed, LogTimed
<1>5. /\ IsTimed(ChartEvent, ChartUndo, cu', Rest(ce, d))
      /\ IsTimed(Range(tape), Range(lu'), lu', Rest(le, k))
  BY <1>2, <1>3, <1>4
<1>6. /\ \A id \in DOMAIN series' : series'[id].lastUpdatedTime \in Int
      /\ \A i \in DOMAIN cu' : cu'[i].event.time \in Int
      /\ \A id \in DOMAIN series : series[id].lastUpdatedTime \in Int
      /\ \A i \in DOMAIN cu : cu[i].event.time \in Int
  <2>1. /\ \A id \in DOMAIN series : series[id].lastUpdatedTime \in Int
        /\ \A i \in DOMAIN cu : cu[i].event.time \in Int
    BY <1>1, ChartsDated
  <2> DEFINE s == series'
             u == cu'
             e == ce'
             c == scenario.charts
  <2>2. ChartsAt(c, s, u, e)
    BY <1>2
  <2> HIDE DEF s, u, e, c
  <2>3. /\ \A id \in DOMAIN s : s[id].lastUpdatedTime \in Int
        /\ \A i \in DOMAIN u : u[i].event.time \in Int
    BY <2>2, ChartsDated
  <2> QED BY <2>1, <2>3 DEF s, u
<1>7. ASSUME IntervalIsNatural
      PROVE  /\ IsAt(cu', ce', moment') /\ IsAt(lu', le', moment')
             /\ IsBefore(cu', le') /\ IsBefore(lu', ce')
             /\ UpToDate(series', cu')
  <2>1. /\ IsAt(cu, ce, now) /\ IsAt(lu, le, now) /\ IsBefore(cu, le) /\ IsBefore(lu, ce)
        /\ UpToDate(series, cu)
    BY <1>7 DEF MomentInv
  <2>2. AreRecent(series', time)
    BY <1>2, <1>7
  <2>3. CASE now <= time
    <3>1. moment' = time
      BY <1>1, <2>3 DEF Later
    <3>2. IsAt(cu', ce', time) /\ AllBy(cu', time) /\ AllAfter(ce', time)
      <4>1. /\ IsAt(cu', Rest(ce, d), time) /\ AllBy(cu', time)
            /\ AllAfter(Rest(ce, d), time)
        BY <1>1, <1>2, <1>4, <1>5, <2>1, <2>3, QueueAdvances, Zenon
      <4> QED BY <1>2, <4>1
    <3>3. IsAt(lu', le', time) /\ AllBy(lu', time) /\ AllAfter(le', time)
      <4>1. /\ IsAt(lu', Rest(le, k), time) /\ AllBy(lu', time)
            /\ AllAfter(Rest(le, k), time)
        BY <1>1, <1>3, <1>4, <1>5, <2>1, <2>3, QueueAdvances, Zenon
      <4> QED BY <1>3, <4>1
    <3>4. IsBefore(cu', le') /\ IsBefore(lu', ce')
      BY <1>4, <3>2, <3>3, Before
    <3>5. UpToDate(series', cu')
      BY <1>6, <2>2, <3>2, RecentIsUpToDate
    <3> QED BY <3>1, <3>2, <3>3, <3>4, <3>5
  <2>4. CASE time < now
    <3>1. moment' = now
      BY <1>1, <2>4 DEF Later
    <3>2. d = 0 /\ Rest(ce, d) = ce
      BY <1>1, <1>2, <1>4, <2>1, <2>4, NothingDue, Zenon
    <3>3. k = 0 /\ Rest(le, k) = le
      BY <1>1, <1>3, <1>4, <2>1, <2>4, NothingDue, Zenon
    <3>4. ce' = ce /\ le' = le /\ Len(lu') = Len(lu)
      BY <1>2, <1>3, <3>2, <3>3
    <3>5. IsAdvanced(cu, ce, cu', 0, time) /\ IsAdvanced(lu, le, lu', 0, time)
      BY <1>2, <1>3, <3>2, <3>3
    <3>6. /\ IsTimed(ChartEvent, ChartUndo, cu', ce)
          /\ IsTimed(Range(tape), Range(lu'), lu', le)
      BY <1>4, <3>4
    <3>7. \/ UNCHANGED <<series, chartUndoEvents>>
          \/ AllBy(cu, time)
      BY <1>2, <1>6, <2>1, <3>2, IdleIsLate
    <3>8. AllFrom(ce, now) /\ AllFrom(le, now)
      BY <2>1 DEF IsAt, AllFrom
    <3>9. /\ \A j \in DOMAIN ce : ce[j].time \in Int
          /\ \A j \in DOMAIN le : le[j].time \in Int
      BY <1>4, Timed
    <3>10. /\ IsAt(lu', le, now)
           /\ \A f : IsBefore(lu, f) /\ AllFrom(f, now) /\ (\A j \in DOMAIN f : f[j].time \in Int)
                        => IsBefore(lu', f)
      <4> DEFINE v == lu'
                 V == Range(lu')
      <4>1. IsTimed(Range(tape), V, v, le) /\ IsAdvanced(lu, le, v, 0, time) /\ Len(v) = Len(lu)
        BY <3>4, <3>5, <3>6
      <4> HIDE DEF v, V, lu, le, tape, now
      <4>2. /\ IsAt(v, le, now)
            /\ \A f : IsBefore(lu, f) /\ AllFrom(f, now) /\ (\A j \in DOMAIN f : f[j].time \in Int)
                         => IsBefore(v, f)
        BY <1>1, <1>4, <2>1, <2>4, <4>1, QueueStays
      <4> QED BY <4>2 DEF v
    <3>11. /\ IsAt(cu', ce, now) /\ (AllBy(cu, time) => AllBy(cu', time))
           /\ \A f : IsBefore(cu, f) /\ AllFrom(f, now) /\ (\A j \in DOMAIN f : f[j].time \in Int)
                        => IsBefore(cu', f)
      <4> DEFINE v == cu'
      <4>1. /\ IsTimed(ChartEvent, ChartUndo, v, ce) /\ IsAdvanced(cu, ce, v, 0, time)
            /\ Len(v) = Len(cu) \/ AllBy(cu, time)
        BY <3>5, <3>6, <3>7
      <4> HIDE DEF v, cu, ce, now
      <4>2. /\ IsAt(v, ce, now) /\ (AllBy(cu, time) => AllBy(v, time))
            /\ \A f : IsBefore(cu, f) /\ AllFrom(f, now) /\ (\A j \in DOMAIN f : f[j].time \in Int)
                         => IsBefore(v, f)
        BY <1>1, <1>4, <2>1, <2>4, <4>1, QueueStays
      <4> QED BY <4>2 DEF v
    <3>12. IsBefore(cu', le) /\ IsBefore(lu', ce)
      <4> HIDE DEF cu, ce, lu, le, now
      <4> QED BY <2>1, <3>8, <3>9, <3>10, <3>11
    <3>13. UpToDate(series', cu')
      <4>1. CASE UNCHANGED <<series, chartUndoEvents>>
        BY <2>1, <4>1
      <4>2. CASE AllBy(cu, time)
        BY <1>6, <2>2, <3>11, <4>2, RecentIsUpToDate
      <4> QED BY <3>7, <4>1, <4>2
    <3> QED BY <3>1, <3>4, <3>10, <3>11, <3>12, <3>13
  <2>5. now <= time \/ time < now
    BY <1>1
  <2> QED BY <2>3, <2>4, <2>5
<1>8. IntervalIsNatural => MomentInv'
  BY <1>7 DEF MomentInv
<1> QED BY <1>2, <1>3, <1>8

LEMMA BothRewind ==
    ASSUME ControlsInv, LogTapeInv, ChartsInv, IntervalIsNatural => MomentInv,
           NEW time \in Int, Charts!TimeRewound(time), Log!TimeRewound(time),
           moment' = Earlier(moment, time)
    PROVE  /\ ChartsAt(scenario.charts, series', chartUndoEvents', chartEvents')
           /\ DOMAIN series' = DOMAIN series
           /\ IsOnTape(scenario.log, logUndoEvents', logEvents', DOMAIN streams')
           /\ IntervalIsNatural => MomentInv'
<1> DEFINE now == moment
           tape == scenario.log
           cu == chartUndoEvents
           ce == chartEvents
           lu == logUndoEvents
           le == logEvents
<1>1. /\ ChartsAt(scenario.charts, series, cu, ce) /\ IsOnTape(tape, lu, le, DOMAIN streams)
      /\ now \in Int
  BY DEF ChartsInv, LogTapeInv, ControlsInv
<1>2. PICK d : /\ ChartsAt(scenario.charts, series', cu', ce') /\ DOMAIN series' = DOMAIN series
               /\ UpToDate(series, cu) => UpToDate(series', cu')
               /\ IsBack(cu, d, time) /\ ce' = Back(cu, d) \o ce /\ cu' = Without(cu, d)
  BY <1>1, ChartsRewind
<1>3. PICK k : /\ IsOnTape(tape, lu', le', DOMAIN streams')
               /\ IsBack(lu, k, time) /\ le' = Back(lu, k) \o le /\ lu' = Without(lu, k)
  BY <1>1, LogRewind
<1>4. /\ IsTimed(ChartEvent, ChartUndo, cu, ce) /\ IsTimed(ChartEvent, ChartUndo, cu', ce')
      /\ IsTimed(Range(tape), Range(lu), lu, le) /\ IsTimed(Range(tape), Range(lu'), lu', le')
  BY <1>1, <1>2, <1>3, ChartsTimed, LogTimed
<1>5. ASSUME IntervalIsNatural
      PROVE  /\ IsAt(cu', ce', moment') /\ IsAt(lu', le', moment')
             /\ IsBefore(cu', le') /\ IsBefore(lu', ce')
             /\ UpToDate(series', cu')
  <2>1. /\ IsAt(cu, ce, now) /\ IsAt(lu, le, now) /\ IsBefore(cu, le) /\ IsBefore(lu, ce)
        /\ UpToDate(series, cu)
    BY <1>5 DEF MomentInv
  <2>2. /\ IsAt(cu', ce', moment')
        /\ time <= now => AllUntil(cu', time) /\ AllFrom(ce', time)
        /\ now < time => cu' = cu /\ ce' = ce
    <3>1. /\ IsAt(Without(cu, d), Back(cu, d) \o ce, Earlier(now, time))
          /\ time <= now => AllUntil(Without(cu, d), time) /\ AllFrom(Back(cu, d) \o ce, time)
          /\ now < time => Without(cu, d) = cu /\ Back(cu, d) \o ce = ce
      BY <1>1, <1>2, <1>4, <2>1, QueueRewinds
    <3> QED BY <1>2, <3>1
  <2>3. /\ IsAt(lu', le', moment')
        /\ time <= now => AllUntil(lu', time) /\ AllFrom(le', time)
        /\ now < time => lu' = lu /\ le' = le
    <3>1. /\ IsAt(Without(lu, k), Back(lu, k) \o le, Earlier(now, time))
          /\ time <= now => AllUntil(Without(lu, k), time) /\ AllFrom(Back(lu, k) \o le, time)
          /\ now < time => Without(lu, k) = lu /\ Back(lu, k) \o le = le
      BY <1>1, <1>3, <1>4, <2>1, QueueRewinds
    <3> QED BY <1>3, <3>1
  <2>4. IsBefore(cu', le') /\ IsBefore(lu', ce')
    <3>1. CASE time <= now
      BY <1>4, <2>2, <2>3, <3>1, Before
    <3>2. CASE now < time
      BY <2>1, <2>2, <2>3, <3>2
    <3>3. time <= now \/ now < time
      BY <1>1
    <3> QED BY <3>1, <3>2, <3>3
  <2> QED BY <1>2, <2>1, <2>2, <2>3, <2>4
<1>6. IntervalIsNatural => MomentInv'
  BY <1>5 DEF MomentInv
<1> QED BY <1>2, <1>3, <1>6

---------------------------------------------------------------------------
(* What each action does to the tapes. *)

LEMMA TapesStay ==
    ASSUME Followed, UNCHANGED <<chartVars, logVars, scenario>>, moment' = moment,
           ~playback'.enabled => ~playback.enabled
    PROVE  Followed' /\ (LogDocsInv => LogDocsInv')
<1>1. /\ chartEvents' = chartEvents /\ chartUndoEvents' = chartUndoEvents
      /\ series' = series /\ logEvents' = logEvents /\ logUndoEvents' = logUndoEvents
      /\ streams' = streams /\ unified' = unified
      /\ lastUnifiedWriter' = lastUnifiedWriter /\ scenario' = scenario
  BY DEF chartVars, logVars
<1>2. LogTapeInv'
  BY <1>1 DEF LogTapeInv, Followed
<1>3. ChartsInv'
  BY <1>1 DEF ChartsInv, Followed
<1>4. (IntervalIsNatural => MomentInv)'
  BY <1>1 DEF MomentInv, Followed, IntervalIsNatural
<1>5. LogDocsInv => LogDocsInv'
  BY <1>1 DEF LogDocsInv
<1> QED BY <1>2, <1>3, <1>4, <1>5 DEF Followed

LEMMA LogDocsKept ==
    ASSUME Len(logUndoEvents) \in Nat, Len(logUndoEvents') \in Nat,
           scenario'.log = scenario.log,
           \A w : ShowsLog(scenario.log, w) => ShowsLogNext(scenario.log, w)
    PROVE  LogDocsInv => LogDocsInv'
<1> DEFINE tape == scenario.log
           w == FirstWriter(logUndoEvents, lastUnifiedWriter)
<1> SUFFICES ASSUME LogDocsInv PROVE LogDocsInv'
  OBVIOUS
<1>1. ShowsLog(tape, w)
  BY DEF LogDocsInv, ShowsLog
<1>2. IsShown(tape, logUndoEvents', streams', unified', lastUnifiedWriter', w)
  <2>1. \A x : ShowsLog(tape, x) =>
                  IsShown(tape, logUndoEvents', streams', unified', lastUnifiedWriter', x)
    BY DEF ShowsLogNext
  <2> HIDE DEF w, tape
  <2> QED BY <1>1, <2>1
<1>3. FirstWriter(logUndoEvents', lastUnifiedWriter') = w
  <2> HIDE DEF w, tape
  <2> QED BY <1>2, WriterBefore
<1>4. IsShown(scenario'.log, logUndoEvents', streams', unified', lastUnifiedWriter',
              FirstWriter(logUndoEvents', lastUnifiedWriter'))
  BY <1>2, <1>3
<1> QED BY <1>4 DEF LogDocsInv

LEMMA TapesFollow ==
    ASSUME IInv, NEW p, NEW time \in Int, NEW increment, increment = time - simulationTime,
           EmitTimeChanged(p, time, increment), playback'.enabled = playback.enabled
    PROVE  Followed' /\ (NarrowMessages => (LogDocsInv => LogDocsInv'))
<1>1. ControlsInv /\ LogTapeInv /\ ChartsInv /\ (IntervalIsNatural => MomentInv)
  BY DEF IInv, Followed
<1>2. /\ Charts!TimeChanged(time, increment) /\ Log!TimeChanged(time, increment)
      /\ moment' = Reaches(moment, time, increment) /\ scenario' = scenario
  BY DEF EmitTimeChanged, file
<1>4. IsOnTape(scenario.log, logUndoEvents, logEvents, DOMAIN streams)
  BY <1>1 DEF LogTapeInv
<1>5. /\ ChartsAt(scenario.charts, series', chartUndoEvents', chartEvents')
      /\ DOMAIN series' = DOMAIN series
      /\ IsOnTape(scenario.log, logUndoEvents', logEvents', DOMAIN streams')
      /\ IntervalIsNatural => MomentInv'
      /\ NarrowMessages => \A w : ShowsLog(scenario.log, w) => ShowsLogNext(scenario.log, w)
  <2>1. CASE increment > 0
    <3>1. Charts!TimeAdvanced(time) /\ Log!TimeAdvanced(time)
      BY <1>2, <2>1 DEF Charts!TimeChanged, Log!TimeChanged
    <3>2. moment' = Later(moment, time)
      BY <1>2, <2>1 DEF Reaches
    <3>3. \A w : ShowsLog(scenario.log, w) => ShowsLogNext(scenario.log, w)
      BY <1>4, <3>1, LogAdvance
    <3>4. /\ ChartsAt(scenario.charts, series', chartUndoEvents', chartEvents')
          /\ DOMAIN series' = DOMAIN series
          /\ IsOnTape(scenario.log, logUndoEvents', logEvents', DOMAIN streams')
          /\ IntervalIsNatural => MomentInv'
      BY <1>1, <3>1, <3>2, BothAdvance
    <3> QED BY <3>3, <3>4
  <2>2. CASE ~(increment > 0)
    <3>1. Charts!TimeRewound(time) /\ Log!TimeRewound(time)
      BY <1>2, <2>2 DEF Charts!TimeChanged, Log!TimeChanged
    <3>2. moment' = Earlier(moment, time)
      BY <1>2, <2>2 DEF Reaches
    <3>3. NarrowMessages => \A w : ShowsLog(scenario.log, w) => ShowsLogNext(scenario.log, w)
      BY <1>4, <3>1, LogRewind
    <3>4. /\ ChartsAt(scenario.charts, series', chartUndoEvents', chartEvents')
          /\ DOMAIN series' = DOMAIN series
          /\ IsOnTape(scenario.log, logUndoEvents', logEvents', DOMAIN streams')
          /\ IntervalIsNatural => MomentInv'
      BY <1>1, <3>1, <3>2, BothRewind
    <3> QED BY <3>3, <3>4
  <2> QED BY <2>1, <2>2
<1>6. LogTapeInv'
  BY <1>1, <1>2, <1>5 DEF LogTapeInv
<1>7. ChartsInv'
  BY <1>1, <1>2, <1>5 DEF ChartsInv
<1>8. (IntervalIsNatural => MomentInv)'
  BY <1>5 DEF IntervalIsNatural
<1>9. NarrowMessages => (LogDocsInv => LogDocsInv')
  <2>1. Len(logUndoEvents) \in Nat /\ Len(logUndoEvents') \in Nat
    BY <1>4, <1>5, LogOnTape
  <2> QED BY <1>2, <1>5, <2>1, LogDocsKept
<1> QED BY <1>6, <1>7, <1>8, <1>9 DEF Followed

LEMMA EnabledKept ==
    ASSUME ControlsInv
    PROVE  /\ \A t \in Int : /\ ShowTime(playback, t).enabled = playback.enabled
                             /\ ShowTime(SetPlaying(playback), t).enabled = playback.enabled
                             /\ ShowTime(SetPaused(playback), t).enabled = playback.enabled
           /\ SetPlaying(playback).enabled = playback.enabled
           /\ SetPaused(playback).enabled = playback.enabled
           /\ \A unit \in Units : SetGranularity(playback, unit).enabled = playback.enabled
<1> DEFINE c == playback.currentTime
           m == playback.maxTime
           u == playback.currentUnit
           pl == playback.playing
           en == playback.enabled
<1>1. IsWidget(playback, c, m, u, pl, en)
  BY WidgetFields DEF ControlsInv
<1> HIDE DEF c, m, u, pl, en
<1>2. /\ IsWidget(SetPlaying(playback), c, m, u, TRUE, en)
      /\ IsWidget(SetPaused(playback), c, m, u, FALSE, en)
  BY <1>1, WidgetChanges
<1>3. ASSUME NEW t \in Int
      PROVE  /\ ShowTime(playback, t).enabled = en
             /\ ShowTime(SetPlaying(playback), t).enabled = en
             /\ ShowTime(SetPaused(playback), t).enabled = en
  <2>1. /\ IsWidget(ShowTime(playback, t), Earlier(t, m), m, u, pl, en)
        /\ IsWidget(ShowTime(SetPlaying(playback), t), Earlier(t, m), m, u, TRUE, en)
        /\ IsWidget(ShowTime(SetPaused(playback), t), Earlier(t, m), m, u, FALSE, en)
    BY <1>1, <1>2, WidgetChanges
  <2> QED BY <2>1 DEF IsWidget
<1>4. ASSUME NEW unit \in Units PROVE SetGranularity(playback, unit).enabled = en
  BY <1>1, GranularitySet DEF IsWidget
<1>5. SetPlaying(playback).enabled = en /\ SetPaused(playback).enabled = en
  BY <1>2 DEF IsWidget
<1> QED BY <1>3, <1>4, <1>5 DEF en

LEMMA TimeSetFollows ==
    ASSUME IInv, NEW p, NEW value \in Int, SetTime(p, value),
           ShowTime(p, value).enabled = playback.enabled
    PROVE  Followed' /\ (NarrowMessages => (LogDocsInv => LogDocsInv'))
<1>1. EmitTimeChanged(p, value, value - simulationTime)
  BY DEF SetTime
<1>2. playback'.enabled = playback.enabled
  BY <1>1 DEF EmitTimeChanged
<1> DEFINE increment == value - simulationTime
<1>3. increment = value - simulationTime /\ EmitTimeChanged(p, value, increment)
  BY <1>1
<1> HIDE DEF increment
<1> QED BY <1>2, <1>3, TapesFollow

LEMMA PlayFollows ==
    ASSUME IInv,
           \/ \E timeStep \in TimeSteps : Frame(timeStep)
           \/ Correct
           \/ \E value \in 0..playback.maxTime : MoveSlider(value) \/ JumpTo(value)
    PROVE  Followed' /\ (NarrowMessages => (LogDocsInv => LogDocsInv'))
<1> DEFINE Goal == Followed' /\ (NarrowMessages => (LogDocsInv => LogDocsInv'))
<1>1. /\ ControlsInv /\ simulationTime \in Int /\ endTime \in Nat /\ playback \in Widgets
  BY DEF IInv, ControlsInv
<1>2. /\ \A t \in Int : /\ ShowTime(playback, t).enabled = playback.enabled
                        /\ ShowTime(SetPaused(playback), t).enabled = playback.enabled
  BY <1>1, EnabledKept
<1>3. ASSUME NEW timeStep \in TimeSteps, Frame(timeStep) PROVE Goal
  <2> DEFINE time == simulationTime + timeStep
  <2>1. EmitTimeChanged(playback, time, timeStep)
    BY <1>3 DEF Frame
  <2>2. time \in Int /\ timeStep = time - simulationTime
    <3>1. timeStep \in Int
      BY TimesAssumption
    <3> QED BY <1>1, <3>1
  <2> HIDE DEF time, Goal
  <2>3. playback'.enabled = playback.enabled
    BY <1>2, <2>1, <2>2 DEF EmitTimeChanged
  <2> QED BY <2>1, <2>2, <2>3, TapesFollow DEF Goal
<1>4. CASE Correct
  <2> DEFINE value == IF simulationTime < 0 THEN 0 ELSE endTime
  <2>1. SetTime(SetPaused(playback), value) /\ value \in Int
    BY <1>1, <1>4 DEF Correct
  <2> HIDE DEF value
  <2> QED BY <1>2, <2>1, TimeSetFollows
<1>5. ASSUME NEW value \in 0..playback.maxTime, MoveSlider(value) PROVE Goal
  <2> DEFINE time == TimeOfSlider(playback, value)
             r == CeilTime(value, playback.currentUnit)
             m == playback.maxTime
  <2>1. SetTime(playback, time)
    BY <1>5 DEF MoveSlider
  <2>2. m \in Nat /\ playback.currentUnit \in Nat \ {0} /\ value \in Int
    <3>1. m \in Nat /\ playback.currentUnit \in Units
      BY <1>1, WidgetFields
    <3>2. value \in Int
      BY <3>1
    <3> QED BY <3>1, <3>2, TimesAssumption
  <2>3. r \in Int
    BY <2>2, Rounded
  <2>4. time \in Int
    <3>1. time = IF r < m THEN r ELSE m
      BY DEF TimeOfSlider, Earlier
    <3> HIDE DEF time, r, m
    <3> QED BY <2>2, <2>3, <3>1
  <2> HIDE DEF time
  <2> QED BY <1>2, <2>1, <2>4, TimeSetFollows
<1>6. ASSUME NEW value \in 0..playback.maxTime, JumpTo(value) PROVE Goal
  <2>1. SetTime(SetPaused(playback), value)
    BY <1>6 DEF JumpTo
  <2>2. value \in Int
    BY <1>1, WidgetFields
  <2> QED BY <1>2, <2>1, <2>2, TimeSetFollows
<1> HIDE DEF Goal
<1>7. CASE \E timeStep \in TimeSteps : Frame(timeStep)
  BY <1>3, <1>7 DEF Goal
<1>8. CASE \E value \in 0..playback.maxTime : MoveSlider(value) \/ JumpTo(value)
  BY <1>5, <1>6, <1>8 DEF Goal
<1> QED BY <1>4, <1>7, <1>8 DEF Goal

LEMMA PressFollows ==
    ASSUME IInv,
           \/ PressPlay \/ PressPause \/ MenuPlayPause
           \/ \E unit \in Units : ChangeTimeStep(unit)
           \/ ErrorLoading \/ PreviewModel \/ UNCHANGED vars
    PROVE  Followed' /\ (NarrowMessages => (LogDocsInv => LogDocsInv'))
<1> DEFINE Goal == Followed' /\ (NarrowMessages => (LogDocsInv => LogDocsInv'))
<1>1. ControlsInv /\ Followed
  BY DEF IInv
<1>2. ASSUME Stays, playback'.enabled = playback.enabled PROVE Goal
  <2>1. UNCHANGED <<chartVars, logVars, scenario>> /\ moment' = moment
    BY <1>2 DEF Stays, file, history
  <2> QED BY <1>1, <1>2, <2>1, TapesStay
<1>3. /\ SetPlaying(playback).enabled = playback.enabled
      /\ SetPaused(playback).enabled = playback.enabled
      /\ ShowTime(SetPlaying(playback), 0).enabled = playback.enabled
      /\ \A unit \in Units : SetGranularity(playback, unit).enabled = playback.enabled
  BY <1>1, EnabledKept
<1>4. CASE PressPlay /\ playback.currentTime = playback.maxTime
  <2>1. SetTime(SetPlaying(playback), 0)
    BY <1>4 DEF PressPlay
  <2> QED BY <1>3, <2>1, TimeSetFollows
<1> HIDE DEF Goal
<1>5. CASE PressPlay /\ playback.currentTime # playback.maxTime
  <2>1. playback' = SetPlaying(playback) /\ Stays
    BY <1>5 DEF PressPlay
  <2> QED BY <1>2, <1>3, <2>1 DEF Goal
<1>6. CASE PressPause
  <2>1. playback' = SetPaused(playback) /\ Stays
    BY <1>6 DEF PressPause
  <2> QED BY <1>2, <1>3, <2>1 DEF Goal
<1>7. CASE MenuPlayPause
  <2>1. Stays /\ (playback' = SetPaused(playback) \/ playback' = SetPlaying(playback))
    BY <1>7 DEF MenuPlayPause
  <2> QED BY <1>2, <1>3, <2>1 DEF Goal
<1>8. ASSUME NEW unit \in Units, ChangeTimeStep(unit) PROVE Goal
  <2>1. Stays /\ playback' = SetGranularity(playback, unit)
    BY <1>8 DEF ChangeTimeStep
  <2> QED BY <1>2, <1>3, <2>1
<1>9. CASE ErrorLoading \/ PreviewModel \/ UNCHANGED vars
  <2>1. /\ UNCHANGED <<chartVars, logVars, scenario>>
        /\ moment' = moment /\ playback' = playback
    BY <1>9 DEF ErrorLoading, PreviewModel, vars, file, history
  <2> QED BY <1>1, <2>1, TapesStay DEF Goal
<1>10. CASE \E unit \in Units : ChangeTimeStep(unit)
  BY <1>8, <1>10 DEF Goal
<1> QED BY <1>4, <1>5, <1>6, <1>7, <1>9, <1>10 DEF Goal

LEMMA NothingAt == ChartsAt(<< >>, << >>, << >>, << >>)
<1>1. Events(<< >>) = << >> /\ << >> \o << >> = << >> /\ Real(<< >>) = << >>
  BY NoHistory DEF Events
<1>2. DOMAIN << >> = {} /\ << >> \in [{} -> Series]
  OBVIOUS
<1>3. ChartsShow(<< >>, << >>)
  BY <1>2 DEF ChartsShow
<1> QED BY <1>1, <1>3 DEF ChartsAt

LEMMA LoadFollows ==
    ASSUME IInv, Load
    PROVE  Followed' /\ (NarrowMessages => (LogDocsInv => LogDocsInv'))
<1>1. /\ ControlsInv /\ LogTapeInv /\ ChartsInv /\ (IntervalIsNatural => MomentInv)
  BY DEF IInv, Followed
<1>2. /\ scenario' = [scenario EXCEPT !.charts = << >>]
      /\ playback' = ResetWidget(playback)
      /\ chartEvents' = << >> /\ chartUndoEvents' = << >> /\ series' = << >>
  BY DEF Load, Charts!Reset
<1>3. /\ scenario = [charts |-> scenario.charts, log |-> scenario.log]
      /\ IsOnTape(scenario.log, logUndoEvents, logEvents, DOMAIN streams)
  BY <1>1 DEF LogTapeInv
<1>4. /\ scenario' = [charts |-> scenario'.charts, log |-> scenario'.log]
      /\ scenario'.charts = << >> /\ scenario'.log = scenario.log
  <2> DEFINE c == scenario.charts
             l == scenario.log
  <2>1. scenario = [charts |-> c, log |-> l]
    BY <1>3
  <2> HIDE DEF c, l
  <2>2. scenario' = [charts |-> << >>, log |-> l] /\ scenario.log = l
    BY <1>2, <2>1
  <2> QED BY <2>2
<1>5. ~playback'.enabled
  <2>1. playback \in Widgets
    BY <1>1 DEF ControlsInv
  <2>2. IsWidget(playback, playback.currentTime, playback.maxTime, playback.currentUnit,
                 playback.playing, playback.enabled)
    BY <2>1, WidgetFields
  <2>3. IsWidget(ResetWidget(playback), 0, 0, playback.currentUnit, playback.playing, FALSE)
    BY <2>2, WidgetChanges, Zenon
  <2> QED BY <1>2, <2>3 DEF IsWidget
<1>6. ChartsInv'
  <2>1. ChartsAt(scenario'.charts, series', chartUndoEvents', chartEvents')
    BY <1>2, <1>4, NothingAt
  <2>2. DOMAIN series' = {}
    BY <1>2
  <2> QED BY <2>1, <2>2 DEF ChartsInv
<1>7. (IntervalIsNatural => MomentInv)'
  <2> DEFINE u == logUndoEvents
             e == logEvents
             tape == scenario.log
  <2> SUFFICES ASSUME IntervalIsNatural PROVE MomentInv'
    BY DEF IntervalIsNatural
  <2>1. IsAt(u, e, moment) /\ moment \in Int
    BY <1>1 DEF MomentInv, ControlsInv
  <2>2. IsAt(logUndoEvents', logEvents', moment')
    <3>1. CASE MovesSlider(playback)
      <4>1. Log!TimeRewound(0) /\ moment' = Earlier(moment, 0)
        BY <3>1 DEF Load, Log!TimeChanged
      <4>2. PICK k : IsBack(u, k, 0) /\ e' = Back(u, k) \o e /\ u' = Without(u, k)
        BY <1>3, <4>1, LogRewind
      <4>3. IsTimed(Range(tape), Range(u), u, e)
        BY <1>3, LogTimed
      <4> DEFINE S == Range(tape)
                 U == Range(u)
      <4> HIDE DEF S, U
      <4>4. IsAt(Without(u, k), Back(u, k) \o e, Earlier(moment, 0))
        BY <2>1, <4>2, <4>3, QueueRewinds
      <4> QED BY <4>1, <4>2, <4>4
    <3>2. CASE ~MovesSlider(playback)
      <4>1. u' = u /\ e' = e /\ moment' = moment
        BY <3>2 DEF Load, logVars
      <4> QED BY <2>1, <4>1
    <3> QED BY <3>1, <3>2
  <2>3. IsAt(<< >>, << >>, moment')
    BY DEF IsAt, InOrder, IsOrdered
  <2>4. /\ \A f : IsBefore(<< >>, f) /\ IsBefore(f, << >>)
        /\ \A s : UpToDate(s, << >>)
    BY DEF IsBefore, UpToDate
  <2> QED BY <1>2, <2>2, <2>3, <2>4 DEF MomentInv
<1>8. /\ IsOnTape(scenario.log, logUndoEvents', logEvents', DOMAIN streams')
      /\ NarrowMessages => \A w : ShowsLog(scenario.log, w) => ShowsLogNext(scenario.log, w)
  <2>1. CASE MovesSlider(playback)
    <3>1. Log!TimeChanged(0, 0)
      BY <2>1 DEF Load
    <3>2. Log!TimeRewound(0)
      BY <3>1 DEF Log!TimeChanged
    <3> QED BY <1>3, <3>2, LogRewind
  <2>2. CASE ~MovesSlider(playback)
    <3>1. UNCHANGED logVars
      BY <2>2 DEF Load
    <3>2. /\ logEvents' = logEvents /\ logUndoEvents' = logUndoEvents /\ streams' = streams
          /\ unified' = unified /\ lastUnifiedWriter' = lastUnifiedWriter
      BY <3>1 DEF logVars
    <3> QED BY <1>3, <3>2 DEF ShowsLog, ShowsLogNext
  <2> QED BY <2>1, <2>2
<1>9. LogTapeInv'
  BY <1>4, <1>8 DEF LogTapeInv
<1>10. NarrowMessages => (LogDocsInv => LogDocsInv')
  <2>1. Len(logUndoEvents) \in Nat /\ Len(logUndoEvents') \in Nat
    BY <1>3, <1>8, LogOnTape
  <2> QED BY <1>4, <1>8, <2>1, LogDocsKept
<1> QED BY <1>6, <1>7, <1>9, <1>10 DEF Followed

LEMMA EventsOfScenario ==
    ASSUME NEW s \in Scenarios
    PROVE  /\ s.charts \in Seq(EventOn(AllIds)) /\ IsOrdered(s.charts)
           /\ Real(s.charts) = s.charts
           /\ \A i \in DOMAIN s.charts : 0 <= s.charts[i].time
           /\ IsOrdered(s.log) /\ \A i \in DOMAIN s.log : 0 <= s.log[i].time
<1> DEFINE c == s.charts
           n == Len(c)
           R == {e \in EventOn(AllIds) : ~e.fake}
<1>1. /\ c \in Seq(ChartEvent) /\ IsOrdered(c) /\ IsOrdered(s.log)
      /\ \A i \in DOMAIN c : FitsKind(c[i]) /\ ~c[i].fake /\ c[i].time >= 0
      /\ \A i \in DOMAIN s.log : s.log[i].time \in Nat
  BY ScenariosAssumption
<1>2. n \in Nat /\ DOMAIN c = 1..n /\ \A i \in 1..n : c[i] \in ChartEvent
  BY <1>1, LenProperties, ElementOfSeq
<1> HIDE DEF c
<1>3. \A i \in 1..n : c[i] \in R /\ 0 <= c[i].time
  <2> SUFFICES ASSUME NEW i \in 1..n PROVE c[i] \in R /\ 0 <= c[i].time
    OBVIOUS
  <2>1. c[i] \in ChartEvent /\ FitsKind(c[i]) /\ ~c[i].fake /\ c[i].time >= 0
    BY <1>1, <1>2
  <2>2. c[i].seriesId \in SeriesIds /\ c[i].time \in Int
    BY <2>1, ChartEventFields DEF SeriesIds
  <2>3. c[i].seriesId \in AllIds
    BY <2>2, Ids
  <2> QED BY <2>1, <2>2, <2>3 DEF EventOn
<1>4. c \in Seq(R)
  <2>1. c = [i \in 1..n |-> c[i]]
    BY <1>1, <1>2
  <2> HIDE DEF R, n
  <2> QED BY <1>2, <1>3, <2>1, IsASeq
<1>5. Real(c) = c
  <2>1. \A x \in R : ~x.fake
    OBVIOUS
  <2> HIDE DEF R
  <2> QED BY <1>4, <2>1, RealOfOneKind
<1>6. c \in Seq(EventOn(AllIds))
  <2>1. R \subseteq EventOn(AllIds)
    OBVIOUS
  <2> HIDE DEF R
  <2> QED BY <1>4, <2>1, SeqMonotonic
<1>7. \A i \in DOMAIN s.log : 0 <= s.log[i].time
  BY <1>1
<1> QED BY <1>1, <1>2, <1>3, <1>5, <1>6, <1>7 DEF c

LEMMA FinishFollows ==
    ASSUME IInv, NEW s \in Scenarios, NEW unit \in Units, FinishLoading(s, unit)
    PROVE  Followed' /\ (NarrowMessages => (LogDocsInv => LogDocsInv'))
<1>1. ControlsInv /\ ChartsInv /\ loading
  BY DEF IInv, Followed, FinishLoading
<1>2. chartEvents = << >> /\ chartUndoEvents = << >>
  <2>1. ~playback.enabled
    BY <1>1 DEF ControlsInv
  <2> QED BY <1>1, <2>1, NoSeries DEF ChartsInv
<1>3. /\ series' = [id \in AllIds |-> Charts!NewSeries]
      /\ chartEvents' = chartEvents \o s.charts /\ chartUndoEvents' = chartUndoEvents
      /\ logEvents' = s.log /\ logUndoEvents' = << >> /\ unified' = << >>
      /\ streams' = [id \in Streams |-> << >>]
      /\ lastUnifiedWriter' = lastUnifiedWriter
      /\ scenario' = [charts |-> s.charts, log |-> s.log]
      /\ moment' = 0
  <2>1. XYSeries \cup Charts!CategorySeries \cup Charts!Collections = AllIds
    BY DEF Charts!CategorySeries, Charts!Collections, AllIds, Charts!Seqs!ToSet, Seqs!ToSet
  <2> QED BY <2>1 DEF FinishLoading, Charts!Fill, Log!Refill
<1>4. /\ s.charts \in Seq(EventOn(AllIds)) /\ IsOrdered(s.charts) /\ Real(s.charts) = s.charts
      /\ (\A i \in DOMAIN s.charts : 0 <= s.charts[i].time)
      /\ IsOrdered(s.log) /\ (\A i \in DOMAIN s.log : 0 <= s.log[i].time)
  BY EventsOfScenario
<1>5. chartEvents' = s.charts /\ chartUndoEvents' = << >>
  BY <1>2, <1>3, <1>4, ConcatEmptySeq
<1>6. scenario'.charts = s.charts /\ scenario'.log = s.log
  BY <1>3
<1>7. ChartsInv'
  <2> DEFINE t == [id \in AllIds |-> Charts!NewSeries]
             c == s.charts
  <2>1. Charts!NewSeries \in Series /\ Charts!NewSeries.data = << >>
    BY DEF Charts!NewSeries, Series, Axis
  <2>2. t \in AllSeries /\ DOMAIN t = AllIds /\ \A id \in AllIds : t[id].data = << >>
    BY <2>1 DEF AllSeries
  <2> HIDE DEF t
  <2>3. Events(<< >>) = << >> /\ Len(<< >>) = 0 /\ \A E, id : Shown(E, 0, id) = << >>
    BY NothingIsShown DEF Events
  <2>4. ChartsShow(t, << >>)
    <3>1. << >> \in Seq(ChartUndo) /\ DOMAIN << >> = {}
      OBVIOUS
    <3>2. \A id \in DOMAIN t : t[id].data = Shown(Events(<< >>), Len(<< >>), id)
      BY <2>2, <2>3
    <3> QED BY <2>2, <3>1, <3>2 DEF ChartsShow, AllSeries
  <2>5. ChartsAt(c, t, << >>, c)
    <3>1. << >> \o c = c
      BY <1>4, ConcatEmptySeq
    <3> QED BY <1>4, <2>2, <2>3, <2>4, <3>1 DEF ChartsAt
  <2>6. ChartsAt(scenario'.charts, series', chartUndoEvents', chartEvents')
    BY <1>3, <1>5, <1>6, <2>5 DEF t
  <2>7. playback'.enabled
    <3> DEFINE p == SetMaxTime(playback, s.endTime)
               q == SetGranularity(p, unit)
               x == IF CeilTime(0, unit) = 0 THEN 0 ELSE Earlier(CeilTime(0, unit), s.endTime)
               u == playback.currentUnit
               pl == playback.playing
               en == playback.enabled
               end == s.endTime
    <3>1. playback' = EnableControls(q) /\ end \in Nat
      BY ScenariosAssumption DEF FinishLoading
    <3>2. IsWidget(playback, 0, playback.maxTime, u, pl, en)
      <4>1. playback \in Widgets /\ playback.currentTime = 0
        <5>1. ~correcting
          BY DEF FinishLoading
        <5> QED BY <1>1, <5>1 DEF ControlsInv
      <4> QED BY <4>1, WidgetFields
    <3> HIDE DEF u, pl, en, q, end
    <3>3. IsWidget(p, 0, end, u, pl, en)
      BY <3>1, <3>2, WidgetChanges DEF end
    <3> HIDE DEF p
    <3>4. IsWidget(q, x, end, unit, pl, en)
      BY <3>3, GranularitySet DEF q, end
    <3> HIDE DEF x
    <3>5. IsWidget(EnableControls(q), x, end, unit, pl, TRUE)
      BY <3>4, WidgetChanges
    <3> QED BY <3>1, <3>5 DEF IsWidget
  <2> QED BY <2>6, <2>7 DEF ChartsInv
<1>8. LogTapeInv'
  <2> DEFINE tape == s.log
  <2>1. tape \in LogTapes /\ tape \in Seq(Seqs!ToSet(tape))
    BY ScenariosAssumption DEF LogTapes
  <2>2. DOMAIN streams' = Streams
    BY <1>3
  <2> HIDE DEF tape
  <2>3. Len(tape) \in Nat /\ Rest(tape, 0) = tape
    <3>1. Len(tape) \in Nat /\ SubSeq(tape, 1, Len(tape)) = tape
      BY <2>1, LenProperties, SubSeqFull
    <3> QED BY <3>1 DEF Rest
  <2>4. << >> \in Seq(Range(<< >>)) /\ Len(<< >>) = 0
    OBVIOUS
  <2>5. IsOnTape(tape, << >>, tape, Streams)
    BY <2>1, <2>3, <2>4 DEF IsOnTape
  <2>6. IsOnTape(scenario'.log, logUndoEvents', logEvents', DOMAIN streams')
    BY <1>3, <1>6, <2>2, <2>5 DEF tape
  <2> QED BY <1>3, <1>6, <2>6 DEF LogTapeInv
<1>9. MomentInv'
  <2>1. IsAt(<< >>, s.charts, 0) /\ IsAt(<< >>, s.log, 0)
    BY <1>4 DEF IsAt, InOrder
  <2>2. /\ \A f : IsBefore(<< >>, f)
        /\ \A t : UpToDate(t, << >>)
    BY DEF IsBefore, UpToDate
  <2> QED BY <1>3, <1>5, <2>1, <2>2 DEF MomentInv
<1>10. LogDocsInv'
  <2> DEFINE tape == s.log
             w == lastUnifiedWriter
             d == [id \in Streams |-> << >>]
  <2>1. Len(<< >>) = 0 /\ DOMAIN d = Streams /\ \A id \in Streams : d[id] = << >>
    OBVIOUS
  <2>2. SubSeq(tape, 1, 0) = << >>
    BY SubSeqEmpty
  <2> HIDE DEF tape, w, d
  <2>3. Documents(tape, 0, Streams) = [id \in Streams |-> << >>]
    BY <2>2, NoHistory DEF Documents
  <2>4. PrintedBy(tape, 0).text = << >>
    <3>1. PrintedBy(tape, 0) = NothingPrinted
      BY <2>2, NoHistory DEF PrintedBy
    <3>2. NothingPrinted.text = << >>
      BY DEF NothingPrinted
    <3> QED BY <3>1, <3>2
  <2>5. LogUndos(tape, 0, w) = << >>
    BY DEF LogUndos
  <2>6. Writer(tape, 0, w) = w
    BY DEF Writer
  <2>7. IsShown(tape, << >>, d, << >>, w, w)
    BY <2>1, <2>3, <2>4, <2>5, <2>6 DEF IsShown, d
  <2>8. FirstWriter(<< >>, w) = w
    BY DEF FirstWriter
  <2>9. IsShown(scenario'.log, logUndoEvents', streams', unified', lastUnifiedWriter',
                FirstWriter(logUndoEvents', lastUnifiedWriter'))
    BY <1>3, <1>6, <2>7, <2>8 DEF tape, w, d
  <2> QED BY <2>9 DEF LogDocsInv
<1> QED BY <1>7, <1>8, <1>9, <1>10 DEF Followed

LEMMA FollowedStep ==
    ASSUME IInv, [Next]_vars
    PROVE  Followed' /\ (NarrowMessages => (LogDocsInv => LogDocsInv'))
<1> DEFINE Goal == Followed' /\ (NarrowMessages => (LogDocsInv => LogDocsInv'))
<1>1. ASSUME \/ \E timeStep \in TimeSteps : Frame(timeStep)
             \/ Correct
             \/ \E value \in 0..playback.maxTime : MoveSlider(value) \/ JumpTo(value)
      PROVE  Goal
  BY <1>1, PlayFollows
<1>2. ASSUME \/ PressPlay \/ PressPause \/ MenuPlayPause
             \/ \E unit \in Units : ChangeTimeStep(unit)
             \/ ErrorLoading \/ PreviewModel \/ UNCHANGED vars
      PROVE  Goal
  BY <1>2, PressFollows
<1>3. ASSUME Load PROVE Goal
  BY <1>3, LoadFollows
<1>4. ASSUME NEW s \in Scenarios, NEW unit \in Units, FinishLoading(s, unit) PROVE Goal
  BY <1>4, FinishFollows
<1> HIDE DEF Goal
<1>5. Goal
  BY <1>1, <1>2, <1>3, <1>4 DEF Next
<1> QED BY <1>5 DEF Goal

LEMMA Initially ==
    ASSUME Init
    PROVE  IInv /\ LogDocsInv
<1>1. /\ simulationTime = 0 /\ endTime = 0 /\ loading = TRUE /\ playMode = "Paused"
      /\ correcting = FALSE /\ scenario = Nothing
      /\ told = 0 /\ moment = 0 /\ apart = FALSE
      /\ chartEvents = << >> /\ chartUndoEvents = << >> /\ series = << >>
      /\ logEvents = << >> /\ logUndoEvents = << >>
      /\ streams = << >> /\ unified = << >> /\ lastUnifiedWriter = NoStream
  BY DEF Init
<1>2. PICK unit \in Units : playback = NewWidget(unit)
  BY DEF Init
<1>3. /\ scenario.charts = << >> /\ scenario.log = << >>
      /\ scenario = [charts |-> scenario.charts, log |-> scenario.log]
  BY <1>1 DEF Nothing
<1>4. ControlsInv
  <2>1. /\ playback \in Widgets /\ playback.playing = FALSE /\ playback.enabled = FALSE
        /\ playback.maxTime = 0 /\ playback.currentTime = 0
    BY <1>2 DEF NewWidget, Widgets
  <2>2. ButtonShowsMode
    BY <1>1, <2>1 DEF ButtonShowsMode
  <2>3. /\ loading \in BOOLEAN /\ correcting \in BOOLEAN /\ apart \in BOOLEAN
        /\ playMode \in {"Play", "Paused"}
    BY <1>1, Zenon
  <2>4. /\ simulationTime \in Int /\ endTime \in Nat /\ simulationTime >= 0
        /\ told \in Int /\ moment \in Int /\ simulationTime = told
        /\ simulationTime = moment
    BY <1>1
  <2>5. ~playback.enabled
    BY <2>1
  <2> QED BY <2>1, <2>2, <2>3, <2>4, <2>5 DEF ControlsInv
<1>6. ChartsInv
  <2>1. ChartsAt(<< >>, << >>, << >>, << >>) /\ DOMAIN << >> = {}
    BY NothingAt
  <2> QED BY <1>1, <1>3, <2>1 DEF ChartsInv
<1>7. LogTapeInv
  <2>1. << >> \in LogTapes /\ << >> \in Seq(Range(<< >>)) /\ Len(<< >>) = 0
    BY DEF LogTapes
  <2>2. Rest(<< >>, 0) = << >>
    BY DEF Rest
  <2>3. IsOnTape(<< >>, << >>, << >>, DOMAIN streams)
    BY <2>1, <2>2 DEF IsOnTape
  <2> QED BY <1>1, <1>3, <2>3 DEF LogTapeInv
<1>8. MomentInv
  <2>1. /\ IsAt(<< >>, << >>, 0) /\ IsBefore(<< >>, << >>) /\ UpToDate(<< >>, << >>)
    BY DEF IsAt, InOrder, IsOrdered, IsBefore, UpToDate
  <2> QED BY <1>1, <2>1 DEF MomentInv
<1>9. LogDocsInv
  <2>1. SubSeq(<< >>, 1, 0) = << >> /\ Len(<< >>) = 0
    BY SubSeqEmpty
  <2>2. PrintedBy(<< >>, 0).text = << >>
    <3>1. PrintedBy(<< >>, 0) = NothingPrinted
      BY <2>1, NoHistory DEF PrintedBy
    <3> QED BY <3>1 DEF NothingPrinted
  <2>3. Documents(<< >>, 0, DOMAIN << >>) = << >>
    BY DEF Documents
  <2>4. /\ LogUndos(<< >>, 0, NoStream) = << >>
        /\ Writer(<< >>, 0, NoStream) = NoStream /\ FirstWriter(<< >>, NoStream) = NoStream
    BY DEF LogUndos, Writer, FirstWriter
  <2>5. IsShown(<< >>, << >>, << >>, << >>, NoStream, NoStream)
    BY <2>1, <2>2, <2>3, <2>4 DEF IsShown
  <2> QED BY <1>1, <1>3, <2>4, <2>5 DEF LogDocsInv
<1> QED BY <1>4, <1>6, <1>7, <1>8, <1>9 DEF IInv, Followed

(* The inductive invariant holds; only its part about the moment has a     *)
(* hypothesis, on the interval.                                            *)
THEOREM FollowersInvariant == Spec => []IInv
<1>1. Init => IInv
  BY Initially
<1>2. IInv /\ [Next]_vars => IInv'
  BY ControlsStep, FollowedStep DEF IInv
<1> QED BY <1>1, <1>2, PTL DEF Spec

(* The documents of the log are those of its tape, while no message is     *)
(* longer in bytes than in characters.                                     *)
LEMMA LogDocsInvariant ==
    ASSUME NarrowMessages
    PROVE  Spec => []LogDocsInv
<1>1. Init => LogDocsInv
  BY Initially
<1>2. IInv /\ LogDocsInv /\ [Next]_vars => LogDocsInv'
  BY FollowedStep
<1> QED BY <1>1, <1>2, FollowersInvariant, PTL DEF Spec

---------------------------------------------------------------------------
(* What the widgets show, from the invariant. *)

LEMMA InEither ==
    ASSUME NEW S, NEW T, NEW a \in Seq(S), NEW b \in Seq(T), NEW x \in Seqs!ToSet(a \o b)
    PROVE  x \in Seqs!ToSet(a) \/ x \in Seqs!ToSet(b)
<1>1. \A s : Seqs!ToSet(s) = Range(s)
  BY DEF Seqs!ToSet, Range
<1>2. S \subseteq S \cup T /\ T \subseteq S \cup T
  OBVIOUS
<1>3. a \in Seq(S \cup T) /\ b \in Seq(S \cup T)
  BY <1>2, SeqMonotonic
<1>4. Range(a \o b) = Range(a) \cup Range(b)
  BY <1>3, RangeConcatenation
<1> QED BY <1>1, <1>4

LEMMA EventsDoAgree ==
    ASSUME IInv, IntervalIsNatural
    PROVE  EventsAgree
<1> DEFINE cu == chartUndoEvents
           ce == chartEvents
           lu == logUndoEvents
           le == logEvents
<1>1. ChartsInv /\ LogTapeInv /\ MomentInv
  BY DEF IInv, Followed
<1>2. /\ IsTimed(ChartEvent, ChartUndo, cu, ce)
      /\ IsTimed(Range(scenario.log), Range(lu), lu, le)
  BY <1>1, ChartsTimed, LogTimed DEF ChartsInv, LogTapeInv
<1>3. /\ cu \in Seq(ChartUndo) /\ ce \in Seq(ChartEvent)
      /\ lu \in Seq(Range(lu)) /\ le \in Seq(Range(scenario.log))
  BY <1>2 DEF IsTimed
<1>4. \A s : Seqs!ToSet(s) = {s[i] : i \in DOMAIN s}
  BY DEF Seqs!ToSet
<1>5. /\ \A u \in Seqs!ToSet(lu), e \in Seqs!ToSet(ce) : u.event.time < e.time
      /\ \A u \in Seqs!ToSet(cu), e \in Seqs!ToSet(le) : u.event.time < e.time
  BY <1>1, <1>4 DEF MomentInv, IsBefore
<1>6. /\ \A i \in DOMAIN cu : cu[i].event.time <= moment
      /\ \A i \in DOMAIN lu : lu[i].event.time <= moment
      /\ \A i \in DOMAIN ce : moment <= ce[i].time
      /\ \A i \in DOMAIN le : moment <= le[i].time
  BY <1>1 DEF MomentInv, IsAt
<1>7. ASSUME NEW u \in Seqs!ToSet(lu \o cu) PROVE u.event.time <= moment
  <2>1. u \in Seqs!ToSet(lu) \/ u \in Seqs!ToSet(cu)
    BY <1>3, InEither
  <2> QED BY <1>4, <1>6, <2>1
<1>8. ASSUME NEW e \in Seqs!ToSet(le \o ce) PROVE moment <= e.time
  <2>1. e \in Seqs!ToSet(le) \/ e \in Seqs!ToSet(ce)
    BY <1>3, InEither
  <2> QED BY <1>4, <1>6, <2>1
<1> QED BY <1>5, <1>7, <1>8 DEF EventsAgree

(* While the interval of the series that move on is not negative: charts   *)
(* and log are at one moment, the slider shows the time it was told and    *)
(* the play button the scene's mode, whatever is loaded or previewed,      *)
(* whenever it is, and wherever the user goes; and that moment and that    *)
(* time are the scene's, from when it comes back to them.                  *)
THEOREM WidgetsShowTheMoment == ASSUME IntervalIsNatural PROVE Spec => []WidgetsAgree
<1>1. IInv => WidgetsAgree
  <2> SUFFICES ASSUME IInv PROVE WidgetsAgree
    OBVIOUS
  <2>1. EventsAgree
    BY EventsDoAgree
  <2>2. ButtonShowsMode /\ (~apart => simulationTime = told /\ simulationTime = moment)
    BY DEF IInv, ControlsInv
  <2>3. SliderShowsTime
    <3>1. playback.enabled =>
             IsRounded(Earlier(told, endTime), playback.currentTime, endTime)
      BY DEF IInv, ControlsInv
    <3> QED BY <3>1 DEF SliderShowsTime, IsRounded
  <2> QED BY <2>1, <2>2, <2>3 DEF WidgetsAgree
<1> QED BY <1>1, FollowersInvariant, PTL

LEMMA LogShown ==
    ASSUME LogTapeInv, LogDocsInv
    PROVE  LogIsReplayed
<1> DEFINE tape == scenario.log
           u == logUndoEvents
           e == logEvents
           n == Len(u)
           w == FirstWriter(u, lastUnifiedWriter)
<1>1. /\ IsOnTape(tape, u, e, DOMAIN streams)
      /\ IsShown(tape, u, streams, unified, lastUnifiedWriter, w)
  BY DEF LogTapeInv, LogDocsInv
<1>2. /\ tape \in Seq(Range(tape)) /\ n \in 0..Len(tape) /\ n \in Nat
      /\ u \in Seq(Range(u)) /\ \A x \in Range(u) : x.event \in Range(tape)
  BY <1>1, LogOnTape, LogTape DEF IsOnTape
<1>3. (\A i \in 1..n : u[i].event = tape[i]) /\ e = Rest(tape, n)
  BY <1>1 DEF IsOnTape
<1>4. Events(u) = SubSeq(tape, 1, n)
  <2> DEFINE E == Events(u)
             F == SubSeq(tape, 1, n)
  <2>1. E \in Seq(Range(tape)) /\ Len(E) = n /\ \A i \in 1..n : E[i] = u[i].event
    BY <1>2, EventsOf, ZenonT(30)
  <2>2. F \in Seq(Range(tape)) /\ Len(F) = n /\ \A i \in 1..n : F[i] = tape[i]
    BY <1>2, Firsts
  <2> HIDE DEF E, F, n
  <2>3. E = F
    BY <1>3, <2>1, <2>2, SeqEqual
  <2> QED BY <2>3 DEF E, F
<1>5. Events(u) \o e = tape
  BY <1>2, <1>3, <1>4, Advanced
<1>6. unified = Printed(Events(u)).text
  BY <1>1, <1>4 DEF IsShown, PrintedBy
<1>7. \A id \in DOMAIN streams : streams[id] = Messages(Events(u), id)
  <2>1. streams = Documents(tape, n, DOMAIN streams)
    BY <1>1 DEF IsShown
  <2>2. ASSUME NEW ids, NEW id \in ids
        PROVE  Documents(tape, n, ids)[id] = Messages(SubSeq(tape, 1, n), id)
    BY DEF Documents
  <2> HIDE DEF tape, n, u
  <2> QED BY <1>4, <2>1, <2>2
<1> QED BY <1>5, <1>6, <1>7 DEF LogIsReplayed

(* However the user goes back and forth, and whatever was loaded before,   *)
(* the scenario log loses and duplicates nothing and its documents are     *)
(* those of a log that was never rewound, while no message is longer in    *)
(* bytes than in characters.                                               *)
THEOREM LogReplays == ASSUME NarrowMessages PROVE Spec => []LogIsReplayed
<1>1. IInv /\ LogDocsInv => LogIsReplayed
  BY LogShown DEF IInv, Followed
<1> QED BY <1>1, FollowersInvariant, LogDocsInvariant, PTL

LEMMA ChartsShown ==
    ASSUME NEW s, NEW u, ChartsShow(s, u)
    PROVE  /\ u \in Seq(ChartUndo) /\ Events(u) \in Seq(ChartEvent)
           /\ \A id \in DOMAIN s : s[id].data = Indexed(PointsApplied(Events(u), id))
<1> DEFINE E == Events(u)
           n == Len(u)
<1>1. u \in Seq(ChartUndo) /\ \A id \in DOMAIN s : s[id].data = Shown(E, n, id)
  BY DEF ChartsShow
<1>2. E \in Seq(ChartEvent) /\ Len(E) = n
  BY <1>1, UndoEvents
<1>3. SubSeq(E, 1, n) = E
  <2> HIDE DEF E, n
  <2> QED BY <1>2, SubSeqFull
<1>4. \A id : Shown(E, n, id) = Indexed(PointsApplied(E, id))
  BY <1>3 DEF Shown
<1> QED BY <1>1, <1>2, <1>4

LEMMA ChartsDoReplay ==
    ASSUME IInv, IntervalIsNatural
    PROVE  ChartsAreReplayed
<1> DEFINE u == chartUndoEvents
           e == chartEvents
           E == Events(u)
           n == Len(u)
           m == Len(e)
<1>1. ChartsAt(scenario.charts, series, u, e) /\ MomentInv
  BY DEF IInv, Followed, ChartsInv
<1>2. /\ u \in Seq(ChartUndo) /\ E \in Seq(ChartEvent) /\ e \in Seq(ChartEvent)
      /\ \A id \in DOMAIN series : series[id].data = Indexed(PointsApplied(E, id))
  <2>1. ChartsShow(series, u)
    BY <1>1 DEF ChartsAt
  <2>2. e \in Seq(ChartEvent)
    BY <1>1, ChartsTimed DEF IsTimed
  <2> QED BY <2>1, <2>2, ChartsShown
<1>3. Real(ChartTape) = scenario.charts
  BY <1>1 DEF ChartsAt, ChartTape
<1>4. /\ n \in Nat /\ DOMAIN u = 1..n /\ Len(E) = n /\ \A i \in 1..n : E[i] = u[i].event
      /\ m \in Nat /\ DOMAIN e = 1..m
  BY <1>2, UndoEvents, LenProperties
<1>5. /\ Len(E \o e) = n + m
      /\ \A i \in 1..n+m : (E \o e)[i] = IF i <= n THEN E[i] ELSE e[i - n]
  <2> HIDE DEF E, u, e
  <2>1. /\ Len(E \o e) = Len(E) + Len(e)
        /\ \A i \in 1..Len(E)+Len(e) :
              (E \o e)[i] = IF i <= Len(E) THEN E[i] ELSE e[i - Len(E)]
    BY <1>2, ConcatProperties, Zenon
  <2> QED BY <1>4, <2>1
<1>6. ASSUME NEW i \in 2..n+m PROVE (E \o e)[i - 1].time <= (E \o e)[i].time
  <2>2. InOrder(u, e)
    BY <1>1 DEF MomentInv, IsAt
  <2>3. /\ \A j, k \in 1..n : j < k => u[j].event.time <= u[k].event.time
        /\ \A j \in 1..n, k \in 1..m : u[j].event.time <= e[k].time
        /\ \A j, k \in 1..m : j < k => e[j].time <= e[k].time
    BY <1>4, <2>2 DEF InOrder, IsOrdered
  <2> HIDE DEF E, n, m, u, e
  <2>4. i - 1 \in 1..n+m /\ i \in 1..n+m /\ i - 1 < i
    BY <1>4
  <2>5. CASE i <= n
    <3>1. i - 1 \in 1..n /\ i \in 1..n /\ i - 1 <= n
      BY <1>4, <2>4, <2>5
    <3> QED BY <1>4, <1>5, <2>3, <2>4, <2>5, <3>1, SMTT(20)
  <2>6. CASE i = n + 1
    <3>1. i - 1 \in 1..n /\ i - 1 <= n /\ ~(i <= n) /\ i - n = 1 /\ 1 \in 1..m
      BY <1>4, <2>4, <2>6
    <3> QED BY <1>4, <1>5, <2>3, <2>4, <3>1
  <2>7. CASE i > n + 1
    <3> DEFINE j == (i - 1) - n
               k == i - n
    <3>1. /\ ~(i <= n) /\ ~(i - 1 <= n) /\ j \in 1..m /\ k \in 1..m /\ j < k
      BY <1>4, <2>4, <2>7
    <3>2. (E \o e)[i - 1] = e[j] /\ (E \o e)[i] = e[k]
      BY <1>5, <2>4, <3>1
    <3> HIDE DEF j, k
    <3> QED BY <2>3, <3>1, <3>2
  <2>8. i <= n \/ i = n + 1 \/ i > n + 1
    BY <1>4, <2>4
  <2> QED BY <2>5, <2>6, <2>7, <2>8
<1>7. \A i \in 2..Len(ChartTape) : ChartTape[i - 1].time <= ChartTape[i].time
  BY <1>5, <1>6 DEF ChartTape
<1> QED BY <1>2, <1>3, <1>7 DEF ChartsAreReplayed

LEMMA AxesSpanned ==
    ASSUME ChartsInv
    PROVE  AxesSpanThePoints
<1> DEFINE u == chartUndoEvents
           E == Events(u)
<1>1. ChartsShow(series, u)
  BY DEF ChartsInv, ChartsAt
<1>2. /\ u \in Seq(ChartUndo) /\ E \in Seq(ChartEvent)
      /\ \A id \in DOMAIN series : series[id].data = Indexed(PointsApplied(E, id))
  BY <1>1, ChartsShown
<1>3. \A i \in DOMAIN u : \A j \in DOMAIN u[i].event.points :
         AxesSpan(series, u[i].event.seriesId, u[i].event.points[j])
  BY <1>1 DEF ChartsShow
<1>4. DOMAIN E = DOMAIN u /\ \A i \in DOMAIN u : E[i] = u[i].event
  BY DEF Events
<1>5. ASSUME NEW id \in DOMAIN series, NEW i \in DOMAIN series[id].data
      PROVE  LET p == series[id].data[i]
             IN  /\ id \in HighestValue \cap XYSeries => Spans(series[id], p)
                 /\ \A c \in Charts!InCollections(id) :
                       c \in HighestValue => Spans(series[c], p)
  <2> DEFINE data == PointsApplied(E, id)
             p == series[id].data[i]
             q == data[i]
  <2>1. data \in Seq(PointsOf(E, id)) /\ series[id].data = Indexed(data)
    BY <1>2, PointsOfEvents
  <2> HIDE DEF data, E, u
  <2>2. i \in DOMAIN data /\ p = [t |-> i - 1, x |-> data[i].x, y |-> data[i].y]
    BY <2>1 DEF Indexed
  <2>3. q \in PointsOf(E, id)
    BY <2>1, <2>2, ElementOfSeq, LenProperties
  <2>4. PICK k \in DOMAIN u : E[k].seriesId = id /\ q \in Range(E[k].points)
    BY <1>4, <2>3 DEF PointsOf
  <2>5. AxesSpan(series, id, q)
    BY <1>3, <1>4, <2>4 DEF Range
  <2>6. p.x = q.x /\ p.y = q.y
    BY <2>2
  <2> HIDE DEF p, q
  <2> QED BY <2>5, <2>6 DEF AxesSpan, Spans, p
<1> QED BY <1>5 DEF AxesSpanThePoints

(* However the user goes back and forth, and whatever was previewed, the   *)
(* charts lose, duplicate and reorder nothing, and each series shows the   *)
(* points of the events that are applied, whatever was added, cleared and  *)
(* undone before, while the interval of the series that move on is not     *)
(* negative.                                                               *)
THEOREM ChartsReplay == ASSUME IntervalIsNatural PROVE Spec => []ChartsAreReplayed
<1>1. IInv => ChartsAreReplayed
  BY ChartsDoReplay
<1> QED BY <1>1, FollowersInvariant, PTL

(* All axes span the points they are to show, also those of fake events    *)
(* and of events that were undone and applied again.                       *)
THEOREM AxesSpanAll == Spec => []AxesSpanThePoints
<1>1. IInv => AxesSpanThePoints
  BY AxesSpanned DEF IInv, Followed
<1> QED BY <1>1, FollowersInvariant, PTL

=============================================================================
