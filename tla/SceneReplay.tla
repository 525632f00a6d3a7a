---------------------------- MODULE SceneReplay -----------------------------
(***************************************************************************)
(* NetSimulyzer's SceneWidget: the events of a scenario are applied to the *)
(* nodes as the playback time goes forward, each leaving an undo event,    *)
(* and undone as it goes backward.  Everything runs on the GUI thread:     *)
(* frames (paintGL), and the calls of the playback controls and of         *)
(* MainWindow::load / finishLoading between them.                          *)
(*                                                                         *)
(* handleEvents and handleUndoEvents are taken one event at a time.        *)
(***************************************************************************)
EXTENDS SceneNode, FiniteSets

CONSTANTS Nodes,      \* ids of the nodes of a scenario
          Scenarios,  \* what the parser returns: sequences of events
          TimeSteps,  \* what the user may set
          MaxTime     \* bound: the end of a scenario

ASSUME TimesAssumption == TimeSteps \subseteq Int /\ MaxTime \in Nat

SceneEvents == UNION {Seqs!ToSet(s) : s \in Scenarios}

(* An event may name a node that the scenario does not have: the parser    *)
(* gives the end of a transmission that is cut short the node 0.           *)
ASSUME ScenariosAssumption ==
    /\ Scenarios \subseteq Seq(SceneEvents)
    /\ \A e \in SceneEvents : e.kind \in Kinds /\ e.time \in Nat
    /\ \A s \in Scenarios : \A i, j \in DOMAIN s : i < j => s[i].time <= s[j].time

VARIABLES nodes, events, undoEvents, simulationTime, timeStep, playMode,
          endTime,   \* config.endTime
          loading,   \* MainWindow::loading
          pc,        \* where the GUI thread is
          return,    \* where handleEvents or handleUndoEvents returns to
          scenario,  \* history: the events of the scenario loaded
          started    \* history: it was loaded at time 0, or handleEvents has
                     \* run since it was loaded

scene == <<nodes, events, undoEvents>>
playback == <<timeStep, playMode>>
control == <<pc, return>>
file == <<endTime, loading, scenario>>
vars == <<scene, simulationTime, playback, control, file, started>>

(* The first scenario is being loaded: load has called reset. *)
Init == /\ nodes = << >>
        /\ events = << >>
        /\ undoEvents = << >>
        /\ simulationTime = 0
        /\ timeStep \in TimeSteps
        /\ playMode = "Paused"
        /\ endTime = 0
        /\ loading = TRUE
        /\ pc = "idle"
        /\ return = "idle"
        /\ scenario = << >>
        /\ started = TRUE

Goto(label, then) == pc' = label /\ return' = then

---------------------------------------------------------------------------
(* handleEvents *)

IsNext(e) == e.time <= simulationTime /\ e.node \in DOMAIN nodes
EventIsDue == events # << >> /\ IsNext(Head(events))

HandleEvent ==
    /\ pc = "handle"
    /\ EventIsDue
    /\ LET e == Head(events)
       IN  /\ undoEvents' = Append(undoEvents, Undo(nodes[e.node], e))
           /\ nodes' = [nodes EXCEPT ![e.node] = Handle(@, e)]
    /\ events' = Tail(events)
    /\ UNCHANGED <<simulationTime, playback, control, file, started>>

EventsHandled ==
    /\ pc = "handle"
    /\ ~EventIsDue
    /\ Goto(return, "idle")
    /\ started' = TRUE
    /\ UNCHANGED <<scene, simulationTime, playback, file>>

(* handleUndoEvents *)

IsUndone(u) == ~(simulationTime > u.event.time) /\ u.event.node \in DOMAIN nodes
UndoIsDue == undoEvents # << >> /\ IsUndone(Seqs!Last(undoEvents))

\* mutant
HandleUndoEventLast ==
    /\ pc = "undo"
    /\ UndoIsDue
    /\ LET u == Seqs!Last(undoEvents)
       IN  /\ nodes' = [nodes EXCEPT ![u.event.node] = HandleUndo(@, u)]
           /\ events' = Append(events, u.event)
    /\ undoEvents' = Seqs!Front(undoEvents)
    /\ UNCHANGED <<simulationTime, playback, control, file, started>>

HandleUndoEvent ==
    /\ pc = "undo"
    /\ UndoIsDue
    /\ LET u == Seqs!Last(undoEvents)
       IN  /\ nodes' = [nodes EXCEPT ![u.event.node] = HandleUndo(@, u)]
           /\ events' = <<u.event>> \o events
    /\ undoEvents' = Seqs!Front(undoEvents)
    /\ UNCHANGED <<simulationTime, playback, control, file, started>>

EventsUndone ==
    /\ pc = "undo"
    /\ ~UndoIsDue
    /\ Goto(return, "idle")
    /\ UNCHANGED <<scene, simulationTime, playback, file, started>>

---------------------------------------------------------------------------
(* paintGL: the events of the frame, ... *)

Paint == /\ pc = "idle"
         /\ playMode = "Play"
         /\ Goto(IF timeStep > 0 THEN "handle" ELSE "undo", "advance")
         /\ UNCHANGED <<scene, simulationTime, playback, file, started>>

\* mutant
SeekForward(from, to) == simulationTime' = to /\ Goto("handle", "idle")

(* setTime's choice of a direction: a step of zero goes backward. *)
Seek(from, to) == /\ simulationTime' = to
                  /\ Goto(IF to > from THEN "handle" ELSE "undo", "idle")

(* ... then the time, which is corrected to the end or to the beginning.   *)
Advance ==
    LET time == simulationTime + timeStep
        pastEnd == timeStep > 0 /\ time >= endTime
        pastBeginning == timeStep < 0 /\ time < 0
    IN  /\ pc = "advance"
        /\ IF pastEnd \/ pastBeginning
           THEN /\ playMode' = "Paused"
                /\ Seek(time, IF pastEnd THEN endTime ELSE 0)
           ELSE /\ simulationTime' = time
                /\ Goto("idle", "idle")
                /\ UNCHANGED playMode
        /\ UNCHANGED <<scene, timeStep, file, started>>

---------------------------------------------------------------------------
(* Calls from the playback controls. *)

Play == /\ pc = "idle"
        /\ playMode' = "Play"
        /\ UNCHANGED <<scene, simulationTime, timeStep, control, file, started>>

Pause == /\ pc = "idle"
         /\ playMode' = "Paused"
         /\ UNCHANGED <<scene, simulationTime, timeStep, control, file, started>>

SetTime(value) == /\ pc = "idle"
                  /\ ~loading   \* the controls are disabled
                  /\ Seek(simulationTime, value)
                  /\ UNCHANGED <<scene, playback, file, started>>

SetTimeStep(value) ==
    /\ pc = "idle"
    /\ timeStep' = value
    /\ UNCHANGED <<scene, simulationTime, playMode, control, file, started>>

(* SceneWidget::reset, as load and previewModel call it.  The time step,   *)
(* the end time and the play mode stay.                                    *)
Reset(isLoading) ==
    /\ pc = "idle"
    /\ nodes' = << >>
    /\ events' = << >>
    /\ undoEvents' = << >>
    /\ simulationTime' = 0
    /\ loading' = isLoading
    /\ scenario' = << >>
    /\ started' = TRUE
    /\ UNCHANGED <<playback, control, endTime>>

Load == ~loading /\ Reset(TRUE)
PreviewModel == Reset(loading)

LastTime(s) == IF s = << >> THEN 0 ELSE Seqs!Last(s).time

(* finishLoading: setConfiguration, setTimeStep, add, enqueueEvents. *)
FinishLoading(s, end) ==
    /\ pc = "idle"
    /\ loading
    /\ loading' = FALSE
    /\ LastTime(s) <= end
    /\ endTime' = end
    /\ timeStep' \in TimeSteps
    /\ nodes' = [n \in Nodes |-> NewNode]
    /\ events' = events \o s
    /\ scenario' = s
    /\ started' = (simulationTime = 0)
    /\ UNCHANGED <<undoEvents, simulationTime, playMode, control>>

(* errorLoading *)
ErrorLoading == /\ pc = "idle"
                /\ loading
                /\ loading' = FALSE
                /\ UNCHANGED <<scene, simulationTime, playback, control, endTime,
                               scenario, started>>

---------------------------------------------------------------------------

GuiThread == Paint \/ HandleEvent \/ EventsHandled \/ HandleUndoEvent
             \/ EventsUndone \/ Advance

UserCall == \/ Play \/ Pause \/ Load \/ PreviewModel \/ ErrorLoading
            \/ \E value \in 0..endTime : SetTime(value)
            \/ \E value \in TimeSteps : SetTimeStep(value)
            \/ \E s \in Scenarios, end \in 0..MaxTime : FinishLoading(s, end)

Next == GuiThread \/ UserCall

Spec == Init /\ [][Next]_vars

---------------------------------------------------------------------------
(* What playback must keep. *)

Applied == [i \in 1..Len(undoEvents) |-> undoEvents[i].event]

(* However the user goes back and forth, no event is lost, duplicated or   *)
(* reordered: the events that can be undone and those to come are together *)
(* the scenario.                                                           *)
TapeIsWhole == Applied \o events = scenario

(* The target of the last event of a kind that was applied to a node. *)
LastTarget(kind, n, first) ==
    LET hits == {i \in DOMAIN undoEvents :
                    /\ undoEvents[i].event.kind = kind
                    /\ undoEvents[i].event.node = n}
    IN  IF hits = {}
        THEN first
        ELSE undoEvents[CHOOSE i \in hits : \A j \in hits : j <= i].event.value

(* A node is where the last event that has been applied to it put it, and  *)
(* has the model that the last event gave it, whatever was applied and     *)
(* undone before.                                                          *)
PositionIsReplayed ==
    \A n \in DOMAIN nodes :
        /\ nodes[n].position = LastTarget("move", n, FirstPosition)
        /\ nodes[n].model = LastTarget("model", n, FirstModel)

Moves(n) == {k \in DOMAIN undoEvents : /\ undoEvents[k].event.kind = "move"
                                       /\ undoEvents[k].event.node = n}

(* The trail drawn behind a node is, point by point, where the node was    *)
(* before each of its last moves that are applied: it ends one move behind *)
(* the node, also when the node goes back along it, when its oldest points *)
(* have fallen off, and when the node moves on from there.                 *)
TrailShowsPath ==
    \A n \in DOMAIN nodes :
        LET drawn == Drawn(nodes[n].trail)
        IN  \E move \in [DOMAIN drawn -> Moves(n)] :
               \A i \in DOMAIN drawn :
                  /\ drawn[i] = undoEvents[move[i]].before
                  /\ {k \in Moves(n) : k > move[i]} = {move[j] : j \in i+1..Len(drawn)}

(* The events before the first one of a node that is not in the scene.     *)
(* That one is not applied, and holds up the events behind it.             *)
Reached == {i \in DOMAIN events : \A j \in 1..i : events[j].node \in DOMAIN nodes}

(* architecture.rst: an event that is stepped over is applied to the next  *)
(* possible frame.  Between frames the scene lags behind the time shown by *)
(* less than one time step, in either direction, with every event up to    *)
(* the first that names a node that is not in the scene.                   *)
LagIsOneFrame ==
    pc = "idle" /\ started =>
        /\ \A i \in Reached :
              \/ events[i].time >= simulationTime
              \/ \E step \in TimeSteps : events[i].time > simulationTime - step
        /\ \A i \in DOMAIN Applied :
              \/ Applied[i].time <= simulationTime
              \/ \E step \in TimeSteps : Applied[i].time < simulationTime - step

---------------------------------------------------------------------------
(* What the comments and the documentation say and the program does not    *)
(* do.                                                                     *)

(* architecture.rst: an event stepped over is applied to the next possible *)
(* frame; the frame that ends the playback of a scenario leaves no event.  *)
EndShowsEverything ==
    [][pc = "advance" /\ timeStep > 0 /\ playMode' = "Paused"
         => events = << >> \/ pc' = "handle"]_vars
=============================================================================
