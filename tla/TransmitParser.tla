--------------------------- MODULE TransmitParser ---------------------------
(***************************************************************************)
(* NetSimulyzer's JsonHandler: how the events of a scenario file become    *)
(* the scene events of playback.  The file holds the beginning of each     *)
(* transmission; the handler adds a TransmitEndEvent when it meets a later *)
(* event.  ns-3 writes the events of a file in the order of their times.   *)
(*                                                                         *)
(* A scene event is [kind, time, nodeId, what]; what is the duration of a  *)
(* transmission and the startEvent of its end.  The handlers of            *)
(* moves and of changes of a node or a decoration treat time in the same   *)
(* way and are one action; so are those of charts and logs.                *)
(***************************************************************************)
EXTENDS Integers, Sequences

SeqExt == INSTANCE SequencesExt
SetExt == INSTANCE FiniteSetsExt

CONSTANTS NodeIds,   \* ids of nodes
          Durations, \* of transmissions
          FileTime,  \* bound: the last time in a file
          MaxEvents  \* bound: the events of a file

ASSUME InputAssumption ==
    /\ NodeIds \subseteq Nat
    /\ Durations \subseteq Nat
    /\ FileTime \in Nat /\ MaxEvents \in Nat

VARIABLES sceneEvents,
          transmittingNodes, \* node to its TransmitEvent or to None
          fileEndTime,       \* globalConfiguration.endTime
          time, count        \* of the events read so far

parserVars == <<sceneEvents, transmittingNodes, fileEndTime, time, count>>

None == << >>
DefaultNodeId == 0

ParserInit == /\ sceneEvents = << >>
              /\ transmittingNodes = << >>
              /\ fileEndTime \in {0, FileTime}   \* the file's max-time, if it has one
              /\ time = 0
              /\ count = 0

Transmit(t, n, duration) ==
    [kind |-> "transmit", time |-> t, nodeId |-> n, what |-> duration]

Other(t) == [kind |-> "other", time |-> t, nodeId |-> DefaultNodeId, what |-> None]

\* mutant
TransmitEndWhenOver(t, n, start) ==
    [kind |-> "transmitEnd", time |-> start.time + start.what, nodeId |-> n,
     what |-> start]

TransmitEnd(t, n, start) ==
    [kind |-> "transmitEnd", time |-> t, nodeId |-> n, what |-> start]

---------------------------------------------------------------------------
(* processEndTransmits: the nodes in an order of the hash map's; it        *)
(* returns at the first node that has no transmission to end.              *)

EndsAt(n, t) ==
    LET start == transmittingNodes[n]
    IN  start # None /\ ~(t < start.time + start.what)

Ending(order, t) ==
    LET allEnd == {k \in 0..Len(order) : \A i \in 1..k : EndsAt(order[i], t)}
    IN  SubSeq(order, 1, SetExt!Max(allEnd))

EndEvents(ending, t) ==
    [i \in DOMAIN ending |->
        TransmitEnd(t, ending[i], transmittingNodes[ending[i]])]

\* mutant
StillTransmit(ending) == transmittingNodes

WithoutEnded(ending) ==
    [n \in DOMAIN transmittingNodes |->
        IF n \in SeqExt!ToSet(ending) THEN None ELSE transmittingNodes[n]]

---------------------------------------------------------------------------

UpdateEndTime(t) == fileEndTime' = IF t > fileEndTime THEN t ELSE fileEndTime

Read(t) == /\ count < MaxEvents
           /\ t >= time
           /\ time' = t
           /\ count' = count + 1
           /\ UpdateEndTime(t)

ParseSceneEvent ==
    \E t \in 0..FileTime, order \in SeqExt!SetToSeqs(DOMAIN transmittingNodes) :
        LET ending == Ending(order, t)
        IN  /\ Read(t)
            /\ sceneEvents' = sceneEvents \o EndEvents(ending, t) \o <<Other(t)>>
            /\ transmittingNodes' = WithoutEnded(ending)

(* A transmission of the node that goes on is ended too.  The nodeId of    *)
(* that end is left as it is constructed.                                  *)
CutShort(open, n, t) ==
    IF n \in DOMAIN open /\ open[n] # None
    THEN <<TransmitEnd(t, DefaultNodeId, open[n])>>
    ELSE << >>

ParseTransmitEvent ==
    \E n \in NodeIds, t \in 0..FileTime, duration \in Durations,
       order \in SeqExt!SetToSeqs(DOMAIN transmittingNodes) :
        LET event == Transmit(t, n, duration)
            ending == Ending(order, t)
            open == WithoutEnded(ending)
        IN  /\ Read(t)
            /\ sceneEvents' = sceneEvents \o EndEvents(ending, t)
                                 \o CutShort(open, n, t) \o <<event>>
            /\ transmittingNodes' =
                  [m \in DOMAIN open \cup {n} |-> IF m = n THEN event ELSE open[m]]

(* Charts and logs: processEndTransmits is not called. *)
ParseOtherEvent ==
    \E t \in 0..FileTime : Read(t) /\ UNCHANGED <<sceneEvents, transmittingNodes>>

ParserNext == ParseSceneEvent \/ ParseTransmitEvent \/ ParseOtherEvent

ParserSpec == ParserInit /\ [][ParserNext]_parserVars

---------------------------------------------------------------------------

Ends == {i \in DOMAIN sceneEvents : sceneEvents[i].kind = "transmitEnd"}
Starts == {i \in DOMAIN sceneEvents : sceneEvents[i].kind = "transmit"}

(* The scene stops at an event whose time has not come: the ends that the  *)
(* handler adds must not break the order of the times, and playback must   *)
(* last until the last event.                                              *)
EventsInOrder ==
    /\ \A i, j \in DOMAIN sceneEvents :
          i < j => sceneEvents[i].time <= sceneEvents[j].time
    /\ \A i \in DOMAIN sceneEvents : sceneEvents[i].time <= fileEndTime

(* The ends added for a node take turns with its transmissions: each ends  *)
(* the last transmission that began, and none is ended twice; one that is  *)
(* not ended is the one that the handler knows, whatever was ended or cut  *)
(* short before.                                                           *)
EndsTakeTurns ==
    /\ \A i \in Ends :
        LET n == sceneEvents[i].what.nodeId
            before == {j \in 1..i-1 :
                          \/ j \in Starts /\ sceneEvents[j].nodeId = n
                          \/ j \in Ends /\ sceneEvents[j].what.nodeId = n}
        IN  /\ before # {}
            /\ \E j \in before :
                  /\ \A k \in before : k <= j
                  /\ sceneEvents[j] = sceneEvents[i].what
    /\ \A i \in Starts :
        \/ \E j \in Ends : j > i /\ sceneEvents[j].what = sceneEvents[i]
        \/ transmittingNodes[sceneEvents[i].nodeId] = sceneEvents[i]
=============================================================================
