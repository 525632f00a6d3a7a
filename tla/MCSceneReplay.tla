--------------------------- MODULE MCSceneReplay ----------------------------
(***************************************************************************)
(* Small instances of SceneReplay: every scenario of a few events in the   *)
(* order of their times.                                                   *)
(***************************************************************************)
EXTENDS SceneReplay

Orientation == <<1, 2, 3>>
Steps == {-1, 2}
TurnedOrientation == <<3, 2, 1>>

Event(kind, n, value) ==
    {[kind |-> kind, time |-> t, node |-> n, value |-> value] : t \in 0..MaxTime}

Scripts(E, length) ==
    {s \in UNION {[1..k -> E] : k \in 0..length} :
        \A i \in 1..Len(s)-1 : s[i].time <= s[i+1].time}

Moved == Scripts(Event("move", 1, "a") \cup Event("move", 1, "b") \cup
                 Event("move", 2, "a") \cup Event("model", 1, "m"), 3)

(* Longer paths than a trail holds. *)
Paths == {s \in [1..4 -> Event("move", 1, "a") \cup Event("move", 1, "b")] :
             \A i \in 1..3 : s[i].time <= s[i+1].time /\ s[i].value # s[i+1].value}

(* What the parser makes of an event e of a file in which only node 1      *)
(* transmits, after those that made the events of so far: the end of a     *)
(* transmission precedes the first event that is not earlier; that of one  *)
(* cut short by the next transmission names node 0, which is not in Nodes. *)
Ended(so, e) ==
    LET end(n) == <<[kind |-> "transmitEnd", time |-> e.time, node |-> n,
                     value |-> Head(so.open)]>>
    IN  CASE so.open = << >> -> << >>
          [] so.open # << >> /\ Head(so.open).time + Head(so.open).value <= e.time -> end(1)
          [] OTHER -> IF e.kind = "transmit" THEN end(0) ELSE << >>

Parse(so, e) ==
    [events |-> so.events \o Ended(so, e) \o <<e>>,
     open |-> CASE e.kind = "transmit" -> <<e>>
                [] e.kind # "transmit" /\ Ended(so, e) # << >> -> << >>
                [] OTHER -> so.open]

Parsed(script) == Seqs!FoldLeft(Parse, [events |-> << >>, open |-> << >>], script).events

Changed ==
    {Parsed(script) : script \in Scripts(Event("orientation", 1, TurnedOrientation) \cup
                                     Event("color", 1, "red") \cup
                                     Event("transmit", 1, 2), 3)}

Shown == Moved \cup Paths \cup Changed
=============================================================================
