--------------------------- MODULE ListScheduler ----------------------------
(***************************************************************************)
(* ns3::ListScheduler: the event list as a sorted std::list.               *)
(***************************************************************************)
EXTENDS EventKey, Sequences

Seqs == INSTANCE SequencesExt

VARIABLE m_list   \* m_events in the code

Empty == << >>

(* Where the new event goes: before the first event that is after it. *)
Place(list, ev) ==
    LET later == {i \in 1..Len(list) : KeyLess(ev, list[i])}
    IN  IF later = {} THEN Len(list) + 1
        ELSE CHOOSE i \in later : \A j \in later : i <= j

Insert(ev) == m_list' = Seqs!InsertAt(m_list, Place(m_list, ev), ev)

PeekNext == Head(m_list)

RemoveNext == m_list # Empty /\ m_list' = Tail(m_list)

Remove(ev) == \E i \in 1..Len(m_list) :
                  /\ m_list[i].uid = ev.uid
                  /\ m_list' = Seqs!RemoveAt(m_list, i)
=============================================================================
