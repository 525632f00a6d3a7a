---------------------------- MODULE MCFollowers -----------------------------
(* Small scenarios for the charts and the log that follow the playback.    *)
EXTENDS Followers, TLC

Event(kind, time, id, points) ==
    [kind |-> kind, time |-> time, seriesId |-> id, fake |-> FALSE, points |-> points]
At(x, y) == [x |-> x, y |-> y]
Message(time, id, value) == [time |-> time, streamId |-> id, value |-> value]

Categories == << "state" >>
Collection == ("both" :> {"line", "state"})
Both == {"line", "both"}
ForwardAndBack == {2, -2}

(* A line that is cleared and drawn again, with a value of the category    *)
(* series in between; two streams that take turns, one of them in several  *)
(* lines or without ending its line.                                       *)
Charted == << Event("XYSeriesAddValues", 1, "line", <<At(1, 2), At(2, -1)>>),
              Event("CategorySeriesAddValue", 1, "state", <<At(1, 7)>>),
              Event("XYSeriesAddValue", 2, "line", <<At(3, 1)>>),
              Event("XYSeriesClear", 3, "line", << >>),
              Event("XYSeriesAddValue", 3, "line", <<At(4, 4)>>) >>

Logged == << Message(1, "tx", <<"a">>),
             Message(2, "rx", <<"b", "end">>),
             Message(2, "rx", <<"c">>),
             Message(3, "tx", <<"d", "end", "e", "end">>),
             Message(3, "rx", <<"f">>) >>

(* Values at both ends of a short scenario. *)
ChartedAtEnds == << Event("CategorySeriesAddValue", 0, "state", <<At(-2, 8)>>),
                    Event("XYSeriesClear", 0, "line", << >>),
                    Event("XYSeriesAddValue", 3, "line", <<At(-1, 9)>>) >>
LoggedAtEnds == << Message(0, "rx", <<"g">>), Message(3, "tx", <<"h">>) >>

Loads == { [charts |-> Charted, log |-> Logged, endTime |-> 4],
           [charts |-> ChartedAtEnds, log |-> LoggedAtEnds, endTime |-> 3] }

=============================================================================
