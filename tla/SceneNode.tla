----------------------------- MODULE SceneNode ------------------------------
(***************************************************************************)
(* NetSimulyzer's Node: what the handlers of events and of undo events do  *)
(* to one node of the scene.  The coordinates of the renderer stand for    *)
(* those of ns-3 too: the code always assigns both together.  Of the two   *)
(* colors of a node only the base color is kept (the highlight color has   *)
(* the same code), of a transmission its times.                            *)
(*                                                                         *)
(* An event is [kind, time, node, value]; value is the target of the       *)
(* event, the duration of a transmission, or the TransmitEvent that a      *)
(* TransmitEndEvent ends.                                                  *)
(***************************************************************************)
EXTENDS Integers, Sequences

Seqs == INSTANCE SequencesExt

CONSTANTS FirstPosition, FirstOrientation, FirstModel, FirstColor, \* parser::Node
          TrailLength  \* bufferSize of a TrailBuffer

ASSUME TrailAssumption == TrailLength \in Nat \ {0, 1}

(* Model::setRotate as applyModelProperties and the handlers call it: the  *)
(* renderer's axes are x, z and -y of ns-3's, except where the sign or the *)
(* order was left as it is.                                                *)
FirstRotate == <<FirstOrientation[1], FirstOrientation[3], FirstOrientation[2]>>
RotateTo(o) == <<o[1], o[3], -o[2]>>
RotateBack(o) == <<o[1], o[3], o[2]>>

Kinds == {"move", "orientation", "model", "color", "transmit", "transmitEnd"}

NewNode == [position |-> FirstPosition,
            rotate |-> FirstRotate,
            model |-> FirstModel,
            color |-> FirstColor,
            isTransmitting |-> FALSE, startTime |-> 0, duration |-> 0,
            trail |-> << >>]

(* TrailBuffer: the oldest point falls off the front of a full buffer. *)
TrailAppend(trail, p) ==
    IF Len(trail) = TrailLength THEN Append(Tail(trail), p) ELSE Append(trail, p)

\* mutant
TrailKeeps(trail) == trail

TrailPop(trail) == IF trail = << >> THEN trail ELSE Seqs!Front(trail)

(* TrailBuffer::render: as many vertices as the index of the last point,   *)
(* so all points but the last.                                             *)
Drawn(trail) == SubSeq(trail, 1, Len(trail) - 1)

MovedTrail(node, target) ==
    TrailAppend(IF node.trail = << >> THEN <<node.position>> ELSE node.trail, target)

(* A new model in place of the old one has the properties of ns3Node. *)
WithModel(node, model) ==
    [node EXCEPT !.model = model, !.rotate = FirstRotate, !.color = FirstColor]

Transmits(node, transmit) ==
    [node EXCEPT !.startTime = transmit.time, !.duration = transmit.value]

Handle(node, e) ==
    CASE e.kind = "move" ->
            [node EXCEPT !.position = e.value, !.trail = MovedTrail(node, e.value)]
      [] e.kind = "orientation" -> [node EXCEPT !.rotate = RotateTo(e.value)]
      [] e.kind = "model" -> WithModel(node, e.value)
      [] e.kind = "color" -> [node EXCEPT !.color = e.value]
      [] e.kind = "transmit" ->
            [Transmits(node, e) EXCEPT !.isTransmitting = TRUE]
      [] e.kind = "transmitEnd" -> [node EXCEPT !.isTransmitting = FALSE]

(* The value of node that an event of a kind changes. *)
Value(node, kind) ==
    CASE kind = "move" -> node.position
      [] kind = "orientation" -> node.rotate
      [] kind = "model" -> node.model
      [] kind = "color" -> node.color
      [] OTHER -> << >>

\* mutant
UndoOfChanged(node, e) == [event |-> e, before |-> Value(Handle(node, e), e.kind)]

(* The undo event that handling e returns. *)
Undo(node, e) == [event |-> e, before |-> Value(node, e.kind)]

HandleUndo(node, u) ==
    CASE u.event.kind = "move" ->
            [node EXCEPT !.position = u.before, !.trail = TrailPop(node.trail)]
      [] u.event.kind = "orientation" ->
            [node EXCEPT !.rotate = RotateBack(u.before)]
      [] u.event.kind = "model" -> WithModel(node, u.before)
      [] u.event.kind = "color" -> [node EXCEPT !.color = u.before]
      [] u.event.kind = "transmit" -> Transmits(node, u.event)
      [] u.event.kind = "transmitEnd" -> Transmits(node, u.event.value)
=============================================================================
