--------------------------- MODULE PlaybackWidget ---------------------------
(***************************************************************************)
(* NetSimulyzer's PlaybackWidget: the play button, the slider and its      *)
(* label, with their own copies of the time, the end of the scenario, the  *)
(* unit of the time step and the play mode, as one record p.  The slider's *)
(* value is the time, from zero on: the instances end before the largest   *)
(* int.  Units are in the unit of the playback time.                       *)
(***************************************************************************)
EXTENDS Integers

Earlier(a, b) == IF a < b THEN a ELSE b
Later(a, b) == IF a < b THEN b ELSE a

NewWidget(unit) == [currentTime |-> 0, maxTime |-> 0, currentUnit |-> unit,
                    playing |-> FALSE, enabled |-> FALSE]

\* mutant
CeilTimeToNext(time, unit) == time + (unit - (time % unit))

CeilTime(time, unit) ==
    IF time % unit > 0 THEN time + (unit - (time % unit)) ELSE time

ShowTime(p, simulationTime) ==   \* setTime
    [p EXCEPT !.currentTime = Earlier(simulationTime, p.maxTime)]

SetMaxTime(p, value) == [p EXCEPT !.maxTime = value]

(* The time is rounded up for the label; the scene is not told. *)
SetGranularity(p, unit) ==
    LET q == [p EXCEPT !.currentUnit = unit]
        roundedTime == CeilTime(p.currentTime, unit)
    IN  IF roundedTime = p.currentTime THEN q ELSE ShowTime(q, roundedTime)

(* The time that sliderMoved sends to the scene. *)
TimeOfSlider(p, value) == Earlier(CeilTime(value, p.currentUnit), p.maxTime)

(* reset sets the slider to zero, a move like any other. *)
MovesSlider(p) == p.currentTime > 0

ResetWidget(p) == [p EXCEPT !.currentTime = 0, !.maxTime = 0, !.enabled = FALSE]

EnableControls(p) == [p EXCEPT !.enabled = TRUE]

SetPlaying(p) == [p EXCEPT !.playing = TRUE]
SetPaused(p) == [p EXCEPT !.playing = FALSE]

=============================================================================
