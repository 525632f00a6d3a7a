----------------------------- MODULE Followers ------------------------------
(***************************************************************************)
(* The charts, the scenario log and the playback controls of NetSimulyzer  *)
(* follow SceneWidget's playback time through its signal timeChanged(time, *)
(* increment).  The signal is emitted by frames, in steps of the time      *)
(* step, and by setTime, which goes anywhere.  The controls send the scene *)
(* their signals play, pause and timeSet, and get playing and paused back. *)
(* The user may change the time step between any two frames, so it is not  *)
(* kept.  Everything runs on the GUI thread.                               *)
(***************************************************************************)
EXTENDS Tape, PlaybackWidget, FiniteSets

CONSTANTS XYSeries, CategoryOrder, Members, HighestValue, AutoUpdate,
          AutoUpdateInterval, AutoUpdateIncrement,
          Streams, NoStream, NewLine, WideCharacters,
          Scenarios,  \* what the parser returns: [charts, log, endTime]
          TimeSteps,  \* what the user may set
          Units,      \* the units of a time step
          MaxTape,    \* bound: events of the charts, with the fake ones
          MaxTime     \* bound: the playback time

ASSUME SeriesAssumption ==
    LET categorySeries == Seqs!ToSet(CategoryOrder)
    IN  /\ CategoryOrder \in Seq(categorySeries)
        /\ XYSeries \cap categorySeries = {}
        /\ DOMAIN Members \cap (XYSeries \cup categorySeries) = {}
        /\ AutoUpdate \subseteq categorySeries
        /\ AutoUpdateInterval \in Int /\ AutoUpdateIncrement \in Int

(* Every unit is a whole number of the next smaller ones. *)
ASSUME TimesAssumption ==
    /\ TimeSteps \subseteq Int /\ Units \subseteq Nat \ {0}
    /\ \A a, b \in Units : a % b = 0 \/ b % a = 0

(* What the parser returns: events that name series and streams of the     *)
(* scenario, in the order of their times.                                  *)
Point == [x : Int, y : Int]

ChartEvent ==
    [kind : {"XYSeriesAddValue", "XYSeriesAddValues", "XYSeriesClear"},
     time : Int, seriesId : XYSeries, fake : BOOLEAN, points : Seq(Point)]
    \cup
    [kind : {"CategorySeriesAddValue"}, time : Int,
     seriesId : Seqs!ToSet(CategoryOrder), fake : BOOLEAN, points : Seq(Point)]

FitsKind(e) == /\ e.kind = "XYSeriesClear" => e.points = << >>
               /\ e.kind \in {"XYSeriesAddValue", "CategorySeriesAddValue"} =>
                     Len(e.points) = 1

IsOrdered(tape) == \A i, j \in DOMAIN tape : i < j => tape[i].time <= tape[j].time

ASSUME ScenariosAssumption ==
    \A s \in Scenarios :
        /\ s.endTime \in Nat
        /\ s.charts \in Seq(ChartEvent) /\ IsOrdered(s.charts)
        /\ \A i \in DOMAIN s.charts :
              FitsKind(s.charts[i]) /\ ~s.charts[i].fake /\ s.charts[i].time >= 0
        /\ s.log \in Seq(Seqs!ToSet(s.log)) /\ IsOrdered(s.log)
        /\ \A i \in DOMAIN s.log :
              LET e == s.log[i]
              IN  /\ e.time \in Nat /\ e.streamId \in Streams
                  /\ e.value \in Seq(Seqs!ToSet(e.value))

VARIABLES simulationTime, playMode,
          endTime,       \* config.endTime
          loading,       \* MainWindow::loading
          playback,      \* the PlaybackWidget
          correcting,    \* in paintGL, past one end of the scenario
          chartEvents, chartUndoEvents, series,
          logEvents, logUndoEvents, streams, unified, lastUnifiedWriter,
          scenario,      \* history: the scenario loaded
          told,          \* history: the time that the controls were told
          moment,        \* history: the time that the charts and the log
                         \* have come to
          apart          \* history: the scene's time was set aside from
                         \* them and has not come back to them since

chartVars == <<chartEvents, chartUndoEvents, series>>
logVars == <<logEvents, logUndoEvents, streams, unified, lastUnifiedWriter>>
file == <<endTime, loading, scenario>>
history == <<told, moment, apart>>
vars == <<simulationTime, playMode, playback, correcting, file, chartVars, logVars,
          history>>

Charts == INSTANCE ChartManager WITH events <- chartEvents,
                                     undoEvents <- chartUndoEvents
Log == INSTANCE ScenarioLog WITH events <- logEvents, undoEvents <- logUndoEvents

Nothing == [charts |-> << >>, log |-> << >>]

Init == /\ simulationTime = 0
        /\ endTime = 0
        /\ loading = TRUE
        /\ playMode = "Paused"
        /\ \E unit \in Units : playback = NewWidget(unit)
        /\ correcting = FALSE
        /\ chartEvents = << >> /\ chartUndoEvents = << >> /\ series = << >>
        /\ logEvents = << >> /\ logUndoEvents = << >>
        /\ streams = << >> /\ unified = << >>
        /\ lastUnifiedWriter = NoStream
        /\ scenario = Nothing
        /\ told = 0 /\ moment = 0 /\ apart = FALSE

---------------------------------------------------------------------------
(* emit timeChanged(time, increment): all slots run, the controls p last.  *)

HasRoom == Len(chartEvents) + Len(chartUndoEvents) < MaxTape

(* Where a tape at m comes to: it is never turned back by going forward.   *)
Reaches(m, time, increment) ==
    IF increment > 0 THEN Later(m, time) ELSE Earlier(m, time)

EmitTimeChanged(p, time, increment) ==
    /\ simulationTime' = time
    /\ Charts!TimeChanged(time, increment)
    /\ Log!TimeChanged(time, increment)
    /\ playback' = ShowTime(p, time)
    /\ told' = time
    /\ moment' = Reaches(moment, time, increment)
    /\ apart' = (apart /\ moment' # time)
    /\ UNCHANGED file

(* The end of paintGL.  A frame that steps over an end of the scenario goes *)
(* on to pause and to correct the time.                                    *)
Frame(timeStep) ==
    LET time == simulationTime + timeStep
    IN  /\ playMode = "Play"
        /\ ~correcting
        /\ time <= MaxTime /\ HasRoom
        /\ EmitTimeChanged(playback, time, timeStep)
        /\ correcting' = \/ timeStep > 0 /\ time >= endTime
                         \/ timeStep < 0 /\ time < 0
        /\ UNCHANGED playMode

(* SceneWidget::setTime, while the controls are p. *)
SetTime(p, value) == EmitTimeChanged(p, value, value - simulationTime)

Correct == /\ correcting
           /\ playMode' = "Paused"
           /\ SetTime(SetPaused(playback), IF simulationTime < 0 THEN 0 ELSE endTime)
           /\ correcting' = FALSE

---------------------------------------------------------------------------
(* The user at the playback controls. *)

Stays == UNCHANGED <<simulationTime, file, chartVars, logVars, history>>

MoveSlider(value) == /\ ~correcting
                     /\ playback.enabled /\ HasRoom
                     /\ SetTime(playback, TimeOfSlider(playback, value))
                     /\ UNCHANGED <<playMode, correcting>>

(* The jump dialog pauses and, unless it is cancelled, sets the time. *)
JumpTo(value) == /\ ~correcting
                 /\ playback.enabled /\ HasRoom
                 /\ playMode' = "Paused"
                 /\ SetTime(SetPaused(playback), value)
                 /\ UNCHANGED correcting

(* At the end of the scenario the play button starts from the beginning.   *)
PressPlay == /\ ~correcting
             /\ playback.enabled
             /\ ~playback.playing
             /\ playMode' = "Play"
             /\ IF playback.currentTime = playback.maxTime
                THEN HasRoom /\ SetTime(SetPlaying(playback), 0)
                ELSE playback' = SetPlaying(playback) /\ Stays
             /\ UNCHANGED correcting

PressPause == /\ ~correcting
              /\ playback.enabled
              /\ playback.playing
              /\ playMode' = "Paused"
              /\ playback' = SetPaused(playback)
              /\ Stays
              /\ UNCHANGED correcting

(* The menu's action, also while a file is loaded and at the end. *)
MenuPlayPause == /\ ~correcting
                 /\ IF playback.playing
                    THEN playback' = SetPaused(playback) /\ playMode' = "Paused"
                    ELSE playback' = SetPlaying(playback) /\ playMode' = "Play"
                 /\ Stays
                 /\ UNCHANGED correcting

ChangeTimeStep(unit) == /\ ~correcting
                        /\ playback' = SetGranularity(playback, unit)
                        /\ Stays
                        /\ UNCHANGED <<playMode, correcting>>

---------------------------------------------------------------------------
(* Loading. *)

(* load resets the scene, the controls and the charts.  The controls' move *)
(* to zero comes back through the scene and rewinds the log.               *)
Load == /\ ~correcting
        /\ ~loading
        /\ loading' = TRUE
        /\ simulationTime' = 0
        /\ playback' = ResetWidget(playback)
        /\ IF MovesSlider(playback) THEN Log!TimeChanged(0, 0) ELSE UNCHANGED logVars
        /\ Charts!Reset
        /\ scenario' = [scenario EXCEPT !.charts = << >>]
        /\ moment' = IF MovesSlider(playback) THEN Earlier(moment, 0) ELSE moment
        /\ apart' = TRUE
        /\ UNCHANGED <<playMode, endTime, correcting, told>>

FinishLoading(s, unit) ==
    /\ ~correcting
    /\ loading
    /\ loading' = FALSE
    /\ endTime' = s.endTime
    /\ playback' = EnableControls(
                       SetGranularity(SetMaxTime(playback, s.endTime), unit))
    /\ Charts!Fill(s.charts)
    /\ Log!Refill(s.log)
    /\ scenario' = [charts |-> s.charts, log |-> s.log]
    /\ told' = 0 /\ moment' = 0 /\ apart' = (simulationTime # 0)
    /\ UNCHANGED <<simulationTime, playMode, correcting>>

(* A file that cannot be parsed: the log keeps the scenario before it, and *)
(* the controls stay disabled.                                             *)
ErrorLoading == /\ ~correcting
                /\ loading
                /\ loading' = FALSE
                /\ UNCHANGED <<simulationTime, playMode, playback, endTime, correcting,
                               chartVars, logVars, scenario, history>>

---------------------------------------------------------------------------
(* A model previewed, from the menu: the scene is reset, and nobody told.  *)

PreviewModel == /\ ~correcting
                /\ simulationTime' = 0
                /\ apart' = TRUE
                /\ UNCHANGED <<playMode, playback, correcting, file, chartVars, logVars,
                               told, moment>>

Next == \/ \E timeStep \in TimeSteps : Frame(timeStep)
        \/ Correct
        \/ \E value \in 0..playback.maxTime : MoveSlider(value) \/ JumpTo(value)
        \/ PressPlay \/ PressPause \/ MenuPlayPause
        \/ \E unit \in Units : ChangeTimeStep(unit)
        \/ Load \/ ErrorLoading \/ PreviewModel
        \/ \E s \in Scenarios, unit \in Units : FinishLoading(s, unit)

Spec == Init /\ [][Next]_vars

---------------------------------------------------------------------------
(* What the widgets must show. *)

Real(tape) ==
    Seqs!FoldLeft(LAMBDA acc, e : IF e.fake THEN acc ELSE Append(acc, e), << >>, tape)

ChartTape == Events(chartUndoEvents) \o chartEvents

(* The points of the applied events of a series since it was last cleared, *)
(* and the same under their t indices.                                     *)
PointsApplied(applied, id) ==
    Seqs!FoldLeft(LAMBDA acc, e : IF e.seriesId # id THEN acc
                                  ELSE IF e.kind = "XYSeriesClear" THEN << >>
                                  ELSE acc \o e.points,
                  << >>, applied)

Indexed(points) == [i \in DOMAIN points |->
                       [t |-> i - 1, x |-> points[i].x, y |-> points[i].y]]

(* However the user goes back and forth, no event of the charts is lost,   *)
(* duplicated or reordered, and the fake events that ChartManager adds are *)
(* kept with them in the order of their times.  A series shows the points  *)
(* of the events that are applied, in their order, whatever was added,     *)
(* cleared and undone before; its t indices, by which points are removed,  *)
(* are without gap.                                                        *)
ChartsAreReplayed ==
    /\ Real(ChartTape) = scenario.charts
    /\ \A i \in 2..Len(ChartTape) : ChartTape[i - 1].time <= ChartTape[i].time
    /\ \A id \in DOMAIN series \ DOMAIN Members :
          series[id].data = Indexed(PointsApplied(Events(chartUndoEvents), id))

(* The axes of a series, and those of every collection it belongs to, span *)
(* all its points, also the points of fake events and of events applied    *)
(* again.                                                                  *)
Spans(s, p) == /\ s.x.lower <= p.x /\ p.x <= s.x.upper
               /\ s.y.lower <= p.y /\ p.y <= s.y.upper

AxesSpanThePoints ==
    \A id \in DOMAIN series : \A i \in DOMAIN series[id].data :
        LET p == series[id].data[i]
        IN  /\ id \in HighestValue \cap XYSeries => Spans(series[id], p)
            /\ \A c \in Charts!InCollections(id) :
                  c \in HighestValue => Spans(series[c], p)

(* The document of every stream holds the messages applied, and the        *)
(* unified document is what a log that was never rewound would show.       *)
Printed(applied) ==
    Seqs!FoldLeft(LAMBDA acc, e : Log!PrintToUnifiedLog(acc, e.streamId, e.value),
                  [text |-> << >>, writer |-> NoStream, characterTotal |-> 0],
                  applied)

Messages(applied, id) ==
    Seqs!FoldLeft(LAMBDA acc, e : IF e.streamId = id THEN acc \o e.value ELSE acc,
                  << >>, applied)

LogIsReplayed ==
    /\ Events(logUndoEvents) \o logEvents = scenario.log
    /\ unified = Printed(Events(logUndoEvents)).text
    /\ \A id \in DOMAIN streams : streams[id] = Messages(Events(logUndoEvents), id)

(* Neither of charts and log has applied an event that is as late as an    *)
(* event the other has yet to apply: both are at one moment.               *)
EventsAgree ==
    /\ \A u \in Seqs!ToSet(logUndoEvents), e \in Seqs!ToSet(chartEvents) :
          u.event.time < e.time
    /\ \A u \in Seqs!ToSet(chartUndoEvents), e \in Seqs!ToSet(logEvents) :
          u.event.time < e.time
    /\ \A u \in Seqs!ToSet(logUndoEvents \o chartUndoEvents) : u.event.time <= moment
    /\ \A e \in Seqs!ToSet(logEvents \o chartEvents) : moment <= e.time

(* The slider shows the time it was told, or one rounded up to a unit that *)
(* the user has chosen since, but never past the end: so the play button,  *)
(* which goes by the slider, does not start a scenario again that is a     *)
(* unit or more before its end.                                            *)
SliderShowsTime ==
    LET time == Earlier(told, endTime)
    IN  playback.enabled =>
            /\ time <= playback.currentTime
            /\ playback.currentTime <= endTime
            /\ \E unit \in Units : playback.currentTime < time + unit

(* The play button and the scene, each with its own play mode and telling  *)
(* the other of changes, never disagree on it.                             *)
ButtonShowsMode == playback.playing <=> playMode = "Play"

(* All that follows the scene is at its time and in its mode, also after   *)
(* the time was corrected at an end.  Only a preview of a model, a load    *)
(* and its failure set the scene's time aside, without a signal; then the  *)
(* charts and the log are still at one moment and the slider at the time   *)
(* it was told, until the playback or the user brings the scene back.      *)
WidgetsAgree ==
    /\ EventsAgree /\ SliderShowsTime /\ ButtonShowsMode
    /\ ~apart => simulationTime = told /\ simulationTime = moment

=============================================================================
