--------------------------- MODULE HeapScheduler ---------------------------
(***************************************************************************)
(* ns3::HeapScheduler: the event list as a binary heap in a vector.  The   *)
(* unused slot 0 of the C++ vector is left out, so m_heap is a sequence    *)
(* from 1.                                                                 *)
(***************************************************************************)
EXTENDS EventKey, Sequences

Seqs == INSTANCE SequencesExt

VARIABLE m_heap

Empty == << >>

Exch(h, a, b) == [h EXCEPT ![a] = h[b], ![b] = h[a]]

Turns(n) == [k \in 1..n |-> k]

(* The event at index i moves up while it is before its parent: never more *)
(* than i turns of the loop.                                               *)
Rise(s) == IF s.index = 1 \/ ~KeyLess(s.heap[s.index], s.heap[s.index \div 2])
           THEN s
           ELSE [heap |-> Exch(s.heap, s.index, s.index \div 2),
                 index |-> s.index \div 2]

BottomUp(h, i) ==
    Seqs!FoldLeft(LAMBDA s, turn : Rise(s), [heap |-> h, index |-> i], Turns(i)).heap

(* The event at index i moves down while it is not before its smaller      *)
(* child.                                                                  *)
Children(h, i) == {2 * i, 2 * i + 1} \cap 1..Len(h)

Smallest(h, i) == CHOOSE c \in Children(h, i) :
                      \A d \in Children(h, i) \ {c} : KeyLess(h[c], h[d])

Sink(s) == IF \A c \in Children(s.heap, s.index) : KeyLess(s.heap[s.index], s.heap[c])
           THEN s
           ELSE LET c == Smallest(s.heap, s.index)
                IN  [heap |-> Exch(s.heap, s.index, c), index |-> c]

TopDown(h, i) ==
    Seqs!FoldLeft(LAMBDA s, turn : Sink(s), [heap |-> h, index |-> i],
                  Turns(Len(h))).heap

Insert(ev) == m_heap' = BottomUp(Append(m_heap, ev), Len(m_heap) + 1)

PeekNext == m_heap[1]

TakeOutWithoutExch(i) == TopDown(Seqs!Front(m_heap), i)  \* mutant

(* Exch(i, Last()), pop_back and TopDown(i): both kinds of removal. *)
TakeOut(i) == TopDown(Seqs!Front(Exch(m_heap, i, Len(m_heap))), i)

RemoveNext == m_heap # Empty /\ m_heap' = TakeOut(1)

Remove(ev) == \E i \in 1..Len(m_heap) :
                  m_heap[i].uid = ev.uid /\ m_heap' = TakeOut(i)
=============================================================================
