---------------------------- MODULE ChartManager ----------------------------
(***************************************************************************)
(* NetSimulyzer's ChartManager: the series of a scenario, and the points   *)
(* that events put into them as the playback time goes forward and take    *)
(* out of them as it goes backward.                                        *)
(*                                                                         *)
(* All axes of a series or collection in HighestValue grow with the data.  *)
(* The widgets that draw a series are told of a change and are left out.   *)
(***************************************************************************)
EXTENDS Tape, FiniteSets

CONSTANTS XYSeries,            \* the ids of the XY series
          CategoryOrder,       \* the ids of the category value series, in the
                               \* order in which the map of series yields them
          Members,             \* collection id -> the ids of its series
          HighestValue,        \* the ids with BoundMode::HighestValue
          AutoUpdate,          \* the category value series that move on
          AutoUpdateInterval,
          AutoUpdateIncrement

CategorySeries == Seqs!ToSet(CategoryOrder)
Collections == DOMAIN Members

VARIABLES events, undoEvents, series

vars == <<events, undoEvents, series>>

(* makeTie: ranges start as the axes say, here at zero.  Before its first  *)
(* value the lastUpdatedTime of a series is not set and is not used.       *)
NewSeries == [data |-> << >>,
              x |-> [lower |-> 0, upper |-> 0],
              y |-> [lower |-> 0, upper |-> 0],
              lastUpdatedTime |-> 0]

Reset == /\ events' = << >>
         /\ undoEvents' = << >>
         /\ series' = << >>

(* addSeries and enqueueEvents, when a scenario has been loaded. *)
Fill(scenario) ==
    /\ series' = [id \in XYSeries \cup CategorySeries \cup Collections |-> NewSeries]
    /\ events' = events \o scenario
    /\ UNCHANGED undoEvents

---------------------------------------------------------------------------
(* Points and ranges. *)

updateRange(range, value) ==
    [lower |-> IF value < range.lower THEN value ELSE range.lower,
     upper |-> IF value > range.upper THEN value ELSE range.upper]

(* updateCollectionRanges *)
InCollections(id) == {c \in Collections : id \in Members[c]}

\* mutant
WidensForXY(c, id) == /\ c \in HighestValue
                      /\ c \in InCollections(id)
                      /\ id \in XYSeries

Widens(c, id) == c \in HighestValue /\ c \in InCollections(id)

(* A point is added at the end under the next free t index; the range of   *)
(* the categories is fixed.                                                *)
AddPoint(s, id, p) ==
    [c \in DOMAIN s |->
        IF c = id
        THEN [s[c] EXCEPT
                !.data = Append(@, [t |-> Len(@), x |-> p.x, y |-> p.y]),
                !.x = IF id \in HighestValue THEN updateRange(@, p.x) ELSE @,
                !.y = IF id \in HighestValue \ CategorySeries
                      THEN updateRange(@, p.y) ELSE @]
        ELSE IF Widens(c, id)
        THEN [s[c] EXCEPT !.x = updateRange(@, p.x), !.y = updateRange(@, p.y)]
        ELSE s[c]]

AddPoints(s, id, points) ==
    Seqs!FoldLeft(LAMBDA acc, p : AddPoint(acc, id, p), s, points)

(* QCPDataContainer::remove, of one index and of a closed range of them.   *)
(* The points are sorted by t: LowerBound of them are before an index,     *)
(* UpperBound are not after it.                                            *)
LowerBound(data, t) == Cardinality({i \in DOMAIN data : data[i].t < t})
UpperBound(data, t) == Cardinality({i \in DOMAIN data : data[i].t <= t})

RemovePoint(data, t) ==
    IF \E i \in DOMAIN data : data[i].t = t
    THEN SubSeq(data, 1, LowerBound(data, t)) \o Rest(data, LowerBound(data, t) + 1)
    ELSE data

RemoveRange(data, range) ==
    IF range.first >= range.second
    THEN data
    ELSE SubSeq(data, 1, LowerBound(data, range.first))
         \o Rest(data, UpperBound(data, range.second))

---------------------------------------------------------------------------
(* timeAdvanced *)

(* What undoes an event: the t indices it has used or, if it clears the    *)
(* series, the points it has taken away.                                   *)
Undo(e, before, after) ==
    [event |-> e,
     range |-> [first |-> Len(before), second |-> Len(after)],
     oldData |-> IF e.kind = "XYSeriesClear" THEN before ELSE << >>]

HandleEvent(acc, e, time) ==
    LET id == e.seriesId
        cleared == IF e.kind = "XYSeriesClear"
                   THEN [acc.series EXCEPT ![id].data = << >>]
                   ELSE AddPoints(acc.series, id, e.points)
        changed == IF e.kind = "CategorySeriesAddValue"
                   THEN [cleared EXCEPT ![id].lastUpdatedTime = time]
                   ELSE cleared
    IN  [series |-> changed,
         undo |-> Append(acc.undo,
                         Undo(e, acc.series[id].data, changed[id].data))]

(* The "Fake Events": a category value series that has had no value for an *)
(* interval gets its last category again, a little further on.  The field  *)
(* fake is a history variable.                                             *)
FakeEvent(id, data, time) ==
    [kind |-> "CategorySeriesAddValue", time |-> time, seriesId |-> id, fake |-> TRUE,
     points |-> <<[x |-> Seqs!Last(data).x + AutoUpdateIncrement,
                   y |-> Seqs!Last(data).y]>>]

IsIdle(s, time) == /\ s.data # << >>
                   /\ ~(time - s.lastUpdatedTime < AutoUpdateInterval)

KeepMoving(acc, id, time) ==
    LET s == acc.series[id]
    IN  IF id \in AutoUpdate /\ IsIdle(s, time)
        THEN HandleEvent(acc, FakeEvent(id, s.data, time), time)
        ELSE acc

TimeAdvanced(time) ==
    LET due == Due(events, time)
        handled == Seqs!FoldLeft(LAMBDA acc, e : HandleEvent(acc, e, time),
                                 [series |-> series, undo |-> undoEvents], due)
        moved == IF series = << >>
                 THEN handled
                 ELSE Seqs!FoldLeft(LAMBDA acc, id : KeepMoving(acc, id, time),
                                    handled, CategoryOrder)
    IN  /\ events' = Rest(events, Len(due))
        /\ series' = moved.series
        /\ undoEvents' = moved.undo

---------------------------------------------------------------------------
(* timeRewound *)

\* mutant
HandleUndoClears(s, u) ==
    [s EXCEPT ![u.event.seriesId].data =
        CASE u.event.kind = "XYSeriesClear" -> << >>
          [] u.event.kind = "XYSeriesAddValues" -> RemoveRange(@, u.range)
          [] OTHER -> RemovePoint(@, u.range.first)]

HandleUndo(s, u) ==
    [s EXCEPT ![u.event.seriesId].data =
        CASE u.event.kind = "XYSeriesClear" -> u.oldData
          [] u.event.kind = "XYSeriesAddValues" -> RemoveRange(@, u.range)
          [] OTHER -> RemovePoint(@, u.range.first)]

TimeRewound(time) ==
    LET undone == Undue(undoEvents, time)
    IN  /\ events' = Events(Seqs!Reverse(undone)) \o events
        /\ series' = Seqs!FoldLeft(HandleUndo, series, undone)
        /\ undoEvents' = Without(undoEvents, Len(undone))

TimeChanged(time, increment) ==
    IF increment > 0 THEN TimeAdvanced(time) ELSE TimeRewound(time)

=============================================================================
