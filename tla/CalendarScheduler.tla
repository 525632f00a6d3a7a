------------------------- MODULE CalendarScheduler -------------------------
(***************************************************************************)
(* ns3::CalendarScheduler: the event list as a calendar queue.  The days   *)
(* of a year are buckets of sorted events, each as long as m_width; the    *)
(* cursor (m_lastBucket, m_bucketTop) is the day of the last event         *)
(* removed.  The number of buckets follows the number of events, the width *)
(* the time between the next ones, and both move all events while the      *)
(* cursor points into them.                                                *)
(*                                                                         *)
(* The members are the fields of one record, because a resize works on a   *)
(* calendar that is not the object's: it takes events out, puts them back  *)
(* and restores the cursor.                                                *)
(***************************************************************************)
EXTENDS EventKey, Sequences

Seqs == INSTANCE SequencesExt

VARIABLE calendar

Least(S) == CHOOSE n \in S : \A m \in S : n <= m

(* The constructor, with attribute Reverse. *)
NewCalendar(reverse) ==
    [m_buckets |-> [i \in 0..1 |-> << >>], m_nBuckets |-> 2, m_width |-> 1,
     m_lastBucket |-> 0, m_bucketTop |-> 1, m_lastPrio |-> 0,
     m_qSize |-> 0, m_reverse |-> reverse]

IsEmpty == calendar.m_qSize = 0

Hash(c, ts) == (ts \div c.m_width) % c.m_nBuckets

(* Order, NextEvent and Pop depend on the direction of the buckets. *)
Order(c, a, b) == IF c.m_reverse THEN KeyLess(b, a) ELSE KeyLess(a, b)
NextEvent(c, i) == IF c.m_reverse THEN Seqs!Last(c.m_buckets[i])
                                  ELSE Head(c.m_buckets[i])
Pop(c, i) == IF c.m_reverse THEN Seqs!Front(c.m_buckets[i])
                            ELSE Tail(c.m_buckets[i])

DoInsert(c, ev) ==
    LET i == Hash(c, ev.ts)
        later == {k \in 1..Len(c.m_buckets[i]) : Order(c, ev, c.m_buckets[i][k])}
        place == IF later = {} THEN Len(c.m_buckets[i]) + 1 ELSE Least(later)
    IN  [c EXCEPT !.m_buckets[i] = Seqs!InsertAt(@, place, ev)]

---------------------------------------------------------------------------
(* The search for the next event: a year of days from the cursor on ...    *)

Day(c, k) == (c.m_lastBucket + k) % c.m_nBuckets
FullDays(c) == {k \in 0..c.m_nBuckets-1 : c.m_buckets[Day(c, k)] # << >>}
Hits(c) == {k \in FullDays(c) :
              NextEvent(c, Day(c, k)).ts < c.m_bucketTop + k * c.m_width}

(* ... and, when nothing is due this year, the earliest of all.  The       *)
(* result is the bucket of the event and the cursor after its removal.     *)
DirectSearch(c) ==
    LET k == CHOOSE d \in FullDays(c) : \A e \in FullDays(c) \ {d} :
                 KeyLess(NextEvent(c, Day(c, d)), NextEvent(c, Day(c, e)))
        ts == NextEvent(c, Day(c, k)).ts
    IN  [bucket |-> Day(c, k), lastBucket |-> Hash(c, ts),
         top |-> (ts \div c.m_width + 1) * c.m_width]

Search(c) ==
    IF Hits(c) # {}
    THEN LET k == Least(Hits(c))
         IN  [bucket |-> Day(c, k), lastBucket |-> Day(c, k),
              top |-> c.m_bucketTop + k * c.m_width]
    ELSE DirectSearch(c)

PeekNext == NextEvent(calendar, Search(calendar).bucket)

DoRemoveNext(c) ==
    LET found == Search(c)
    IN  [ev |-> NextEvent(c, found.bucket),
         left |-> [c EXCEPT !.m_buckets[found.bucket] = Pop(c, found.bucket),
                            !.m_lastBucket = found.lastBucket,
                            !.m_bucketTop = found.top,
                            !.m_lastPrio = NextEvent(c, found.bucket).ts]]

---------------------------------------------------------------------------
(* Resizing. *)

NSamples(c) == Least({25, IF c.m_qSize <= 5 THEN c.m_qSize
                                            ELSE 5 + c.m_qSize \div 10})

(* The first events, taken out one by one. *)
Sample(s) == LET r == DoRemoveNext(s.left)
             IN  [samples |-> Append(s.samples, r.ev), left |-> r.left]

Sampled(c) == Seqs!FoldLeft(LAMBDA s, turn : Sample(s),
                            [samples |-> << >>, left |-> c],
                            [k \in 1..NSamples(c) |-> k])

(* They are put back and the cursor is restored. *)
InsertAll(c, evs) == Seqs!FoldLeft(DoInsert, c, evs)

PutBackOnly(c, s) == InsertAll(s.left, s.samples)  \* mutant

PutBack(c, s) == [InsertAll(s.left, s.samples) EXCEPT
                    !.m_lastBucket = c.m_lastBucket,
                    !.m_bucketTop = c.m_bucketTop,
                    !.m_lastPrio = c.m_lastPrio]

Gaps(samples) == [i \in 1..Len(samples)-1 |-> samples[i+1].ts - samples[i].ts]

(* The sum of the gaps that are not above the limit. *)
TotalUpTo(limit, gaps) ==
    Seqs!FoldLeft(LAMBDA total, gap : IF gap <= limit THEN total + gap ELSE total,
                  0, gaps)

Total(gaps) == Seqs!FoldLeft(LAMBDA total, gap : total + gap, 0, gaps)

(* Three times the sum of the gaps between samples that are at most twice  *)
(* the average gap.                                                        *)
CalculateNewWidth(samples) ==
    LET gaps == Gaps(samples)
        twiceAvg == (Total(gaps) \div Len(gaps)) * 2
        width == 3 * TotalUpTo(twiceAvg, gaps)
    IN  IF width > 1 THEN width ELSE 1

(* Init and the transfer of all events, bucket by bucket. *)
Renewed(c, newSize, newWidth) ==
    [c EXCEPT !.m_buckets = [i \in 0..newSize-1 |-> << >>],
              !.m_nBuckets = newSize,
              !.m_width = newWidth,
              !.m_lastBucket = (c.m_lastPrio \div newWidth) % newSize,
              !.m_bucketTop = (c.m_lastPrio \div newWidth + 1) * newWidth]

DoResize(c, newSize, newWidth) ==
    Seqs!FoldLeft(InsertAll, Renewed(c, newSize, newWidth),
                  [i \in 1..c.m_nBuckets |-> c.m_buckets[i - 1]])

(* Fewer than two events are not sampled. *)
Resize(c, newSize) ==
    IF c.m_qSize < 2
    THEN DoResize(c, newSize, 1)
    ELSE LET s == Sampled(c)
         IN  DoResize(PutBack(c, s), newSize, CalculateNewWidth(s.samples))

MaxBuckets == 32768

ResizeUp(c) == IF c.m_qSize > c.m_nBuckets * 2 /\ c.m_nBuckets < MaxBuckets
               THEN Resize(c, c.m_nBuckets * 2)
               ELSE c

ResizeDown(c) == IF c.m_qSize < c.m_nBuckets \div 2
                 THEN Resize(c, c.m_nBuckets \div 2)
                 ELSE c

---------------------------------------------------------------------------

Insert(ev) ==
    calendar' = ResizeUp([DoInsert(calendar, ev) EXCEPT !.m_qSize = @ + 1])

RemoveNext ==
    /\ ~IsEmpty
    /\ calendar' = ResizeDown([DoRemoveNext(calendar).left EXCEPT !.m_qSize = @ - 1])

Remove(ev) ==
    LET i == Hash(calendar, ev.ts)
    IN  \E k \in 1..Len(calendar.m_buckets[i]) :
          /\ calendar.m_buckets[i][k].uid = ev.uid
          /\ calendar' = ResizeDown([calendar EXCEPT
                !.m_buckets[i] = Seqs!RemoveAt(@, k), !.m_qSize = @ - 1])
=============================================================================
