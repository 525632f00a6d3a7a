---------------------------- MODULE ScenarioLog -----------------------------
(***************************************************************************)
(* NetSimulyzer's ScenarioLogWidget: messages are appended to the document *)
(* of their stream and to a unified document, which starts a new line with *)
(* a prompt when another stream writes, and are erased from both as the    *)
(* playback time goes backward.                                            *)
(*                                                                         *)
(* A document is a sequence of characters; a prompt counts as one.         *)
(***************************************************************************)
EXTENDS Tape, FiniteSets

CONSTANTS Streams,         \* the ids of the log streams
          NoStream,        \* unifiedStreamId: no stream has it
          NewLine,         \* the character that ends a line
          WideCharacters   \* the characters that are two bytes in UTF-8

VARIABLES events, undoEvents,
          streams,            \* stream id -> its document
          unified,            \* unifiedStreamDocument
          lastUnifiedWriter

vars == <<events, undoEvents, streams, unified, lastUnifiedWriter>>

(* reset, addStream and enqueueEvents.  The last writer stays. *)
Refill(scenario) ==
    /\ events' = scenario
    /\ undoEvents' = << >>
    /\ streams' = [id \in Streams |-> << >>]
    /\ unified' = << >>
    /\ UNCHANGED lastUnifiedWriter

---------------------------------------------------------------------------
(* printToUnifiedLog *)

Prompt(id) == [prompt |-> id]

AtBlockStart(text) == text = << >> \/ Seqs!Last(text) = NewLine

Insert(log, text) == [log EXCEPT !.text = @ \o text,
                                 !.characterTotal = @ + Len(text)]

PrintLine(log, id, value) ==
    LET broken == IF id # log.writer /\ ~AtBlockStart(log.text)
                  THEN Insert(log, <<NewLine>>) ELSE log
        prompted == IF AtBlockStart(broken.text)
                    THEN Insert(broken, <<Prompt(id)>>) ELSE broken
    IN  [Insert(prompted, value) EXCEPT !.writer = id]

(* QString::split at the ends of the lines: what follows the last one is a *)
(* line too, also when it is empty.                                        *)
Lines(value) ==
    Seqs!FoldLeft(LAMBDA acc, c : IF c = NewLine
                                  THEN Append(acc, << >>)
                                  ELSE [acc EXCEPT ![Len(acc)] = Append(@, c)],
                  << << >> >>, value)

PrintToUnifiedLog(log, id, value) ==
    LET lines == Lines(value)
    IN  IF Len(lines) > 2
        THEN Seqs!FoldLeft(LAMBDA acc, line : PrintLine(acc, id, Append(line, NewLine)),
                           log, lines)
        ELSE PrintLine(log, id, value)

---------------------------------------------------------------------------
(* The state that events change, as one record: the documents, the last    *)
(* writer and how many characters the last message took.                   *)
State == [streams |-> streams, undo |-> undoEvents,
          log |-> [text |-> unified, writer |-> lastUnifiedWriter,
                   characterTotal |-> 0]]

HandleEvent(s, e) ==
    IF e.streamId \notin DOMAIN s.streams
    THEN s
    ELSE LET log == PrintToUnifiedLog([s.log EXCEPT !.characterTotal = 0],
                                      e.streamId, e.value)
         IN  [streams |-> [s.streams EXCEPT ![e.streamId] = @ \o e.value],
              log |-> log,
              undo |-> Append(s.undo, [event |-> e,
                                       unifiedLogEraseCount |-> log.characterTotal,
                                       lastUnifiedWriter |-> s.log.writer])]

(* The cursor is at the end; it goes left as far as it can. *)
Erase(text, characters) ==
    SubSeq(text, 1, IF characters > Len(text) THEN 0 ELSE Len(text) - characters)

(* std::string::size, of the bytes of a message. *)
Size(value) == Len(value)
               + Cardinality({i \in DOMAIN value : value[i] \in WideCharacters})

\* mutant
HandleUndoKeepsWriter(s, u) ==
    [s EXCEPT !.streams[u.event.streamId] = Erase(@, Size(u.event.value)),
              !.log.text = Erase(@, u.unifiedLogEraseCount)]

HandleUndo(s, u) ==
    [s EXCEPT !.streams[u.event.streamId] = Erase(@, Size(u.event.value)),
              !.log.text = Erase(@, u.unifiedLogEraseCount),
              !.log.writer = u.lastUnifiedWriter]

Becomes(s) == /\ streams' = s.streams
              /\ unified' = s.log.text
              /\ lastUnifiedWriter' = s.log.writer

TimeAdvanced(time) ==
    LET due == Due(events, time)
        handled == Seqs!FoldLeft(HandleEvent, State, due)
    IN  /\ events' = Rest(events, Len(due))
        /\ undoEvents' = handled.undo
        /\ Becomes(handled)

TimeRewound(time) ==
    LET undone == Undue(undoEvents, time)
    IN  /\ events' = Events(Seqs!Reverse(undone)) \o events
        /\ undoEvents' = Without(undoEvents, Len(undone))
        /\ Becomes(Seqs!FoldLeft(HandleUndo, State, undone))

TimeChanged(time, increment) ==
    IF increment > 0 THEN TimeAdvanced(time) ELSE TimeRewound(time)

=============================================================================
