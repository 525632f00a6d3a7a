# Specifications of rkotans3

The repository holds ns-3.38 (a discrete-event network simulator, with the
author's scripts in `src/ns-3.38/scratch`) and NetSimulyzer (a Qt program that
replays a recorded simulation in 3D).  This directory holds TLA+ models of the
parts that carry the programs' own state machines: the simulator engines and
their event lists, the flow control under a network device, and the replay of
scenarios.  `PROJECT.json` names, for every definition, the lines of code it
stands for.

## The system

| component | state | operations | what must hold |
|---|---|---|---|
| sequential engine, `DefaultSimulatorImpl` | event list, clock, uids, destroy events, queue of posted events, EventIds held by user code | Schedule, ScheduleWithContext, Stop, Remove, Cancel, IsExpired, SetScheduler, Run, Destroy | events run in the order of (time, uid) and once; EventIds know what is pending; posts of other threads arrive |
| schedulers (heap, calendar, list, map, priority queue) | a container of events | Insert, PeekNext, RemoveNext, Remove | the earliest event comes out; none is lost |
| parallel engine with granted windows, `DistributedSimulatorImpl` | per rank: events, clock, look-ahead, granted time; message counters; messages in MPI | Run, BoundLookAhead, SendPacket, ReceiveMessages, MPI_Allreduce, MPI_Allgather | no rank runs past a message still to come; all ranks leave Run together |
| parallel engine with null messages, `NullMessageSimulatorImpl` | per rank: events, clock, safe time; per neighbour: guarantee, null message event | Run, sends and receives of packets and null messages, Reschedule | no message earlier than a guarantee; safe time never behind the clock; no rank waits for ever |
| real-time engine, `RealtimeSimulatorImpl` | event list under a mutex, the synchronizer's condition and origin | Run, schedules by any thread, Remove, Stop | never run an event early; never miss an insert |
| traffic control and point-to-point device | queue disc, stop flags, queue limits, device queue, transmit machine, packets on the wire | Send, Run of a disc, Wake, TransmitStart, TransmitComplete | packets keep their order; the device is not overrun and not starved |
| scenario parser, `JsonHandler` | events read, open transmission of every node, end time | one handler per kind of event | events in order of time; each transmission ended once |
| scene replay, `SceneWidget`, `Node`, `TrailBuffer` | queue of events, stack of undo events, time, step, play mode, nodes | paintGL, play, pause, setTime, setTimeStep, reset, load | going back restores what going forward changed; nothing is lost |
| charts, `ChartManager`; log, `ScenarioLogWidget` | a second and a third queue of events and stack of undo events; series and ranges; documents and the last writer | timeChanged, reset, enqueue | as the scene; all widgets at one moment |
| playback controls, `PlaybackWidget` | own time, end, unit and play mode | slider, buttons, dialogs, setTime, setGranularity, reset | they show the scene's time and mode |
| main window, load worker | loading flag | load, finishLoading, errorLoading, Play/Pause | widgets agree on time and scenario |
| other network models, rendering | protocol stacks, OpenGL objects | | not considered here |

How they interact: user code is called by the engine and calls it back; other
threads hand events to it under a mutex whose flag is read without the mutex;
ranks exchange MPI messages and meet in collectives or wait for each other's
messages.  The device and the traffic control layer call each other through
callbacks and through events scheduled for the same instant.  In NetSimulyzer a
worker thread parses a file and signals the GUI thread, which owns everything
else: frames and clicks are callbacks on it, and `timeChanged` carries the time
from the scene to charts and log.  The hard parts are re-entrance of user code,
the unlocked flag and the unlocked wait, messages in flight, numeric edges
(equal times, end of time, wrap-around), and long sequences of forward and
backward playback.  `PROJECT.json` lists the hazards line by line.

## Modules

| module | what it is |
|---|---|
| `EventKey` | the order of events that every scheduler and engine uses |
| `SimulatorContract` | what a sequential simulator promises: accept an event now or later, run the earliest accepted one, drop it when cancelled |
| `DefaultSimulator` | the sequential engine; implements `SimulatorContract` |
| `ListScheduler`, `HeapScheduler`, `CalendarScheduler` | the three schedulers that ns-3 writes itself |
| `EventList` | one of them at a time behind the interface `Scheduler`, and `SetScheduler` |
| `ParallelContract` | what a parallel simulator promises: every rank runs the earliest event ever accepted for it |
| `GrantedTimeWindow` | ranks, messages and collectives; implements `ParallelContract` |
| `NullMessage` | ranks, bundles, guarantees and null messages; its steps keep `ParallelContract` |
| `RealtimeSimulator` | the engine that waits for the wall clock; implements `SimulatorContract` |
| `DynamicQueueLimits` | the byte limits of a device queue, as operators on a record |
| `TrafficControl` | a packet's way from IP to the other end of a link; extends `DynamicQueueLimits` |
| `SceneNode` | what events and undo events do to one node of the scene |
| `SceneReplay` | `SceneWidget` and the calls made on it; extends `SceneNode` |
| `Tape` | a queue of events to come and a stack of undo events |
| `ChartManager`, `ScenarioLog` | the two widgets that follow the playback time; extend `Tape` |
| `PlaybackWidget` | the playback controls, as operators on a record |
| `Followers` | charts, log and controls with the scene's clock, play mode and loading |
| `TransmitParser` | the parser's handlers with memory |
| `MCGrantedTimeWindow`, `MCNullMessage`, `MCSceneReplay`, `MCFollowers` | constants for TLC |
| `DefaultSimulatorProofs`, `EventListProofs`, `RealtimeSimulatorProofs`, `GrantedTimeWindowProofs`, `NullMessageProofs`, `TrafficControlProofs`, `FollowersProofs` | TLAPS proofs about the module that each is named after |
| `ScenarioProofs` | TLAPS proofs about `TransmitParser` and `SceneReplay` |

**DefaultSimulator.**  The variables have the names of the fields.  `m_events`
is the set of the scheduler's events and `Earliest` is what `RemoveNext` takes;
the containers are modelled in `EventList`.  The main thread's position is
`pc`: `user` (before and after Run), `callback` (inside an event),
`destroyCallback`; in these three user code may call any operation any number
of times.  `ProcessOneEvent` runs up to the end of Invoke's entry, `Notified`
is the return of the user's code, `AfterEvent` the rest.  Another thread's
`Post` is one step, its critical section.  `ProcessEventsWithContext` reads
`m_eventsWithContextEmpty` outside the mutex, a data race: it may see a stale
TRUE (`SeesNothingPosted`) at any time.  It never sees a stale FALSE, because
only the reading thread itself writes TRUE.  An EventImpl is its number;
`made`, `ids` and `ran` are history.

**EventList and the schedulers.**  All three containers are variables and
`type` says which one is in use; in `SetScheduler` events move one at a time,
so that both are seen half full.  Time stamps are never before the last event
taken out, as in a simulator; uids are distinct.  The heap's operations contain
the whole of `BottomUp` and `TopDown`, loops of at most as many turns as the
heap has places.  The calendar is one record, since a resize samples events from
a copy and puts them back; the year-long search of `DoRemoveNext` is the set of
its hits.  All loops are folds, so that they can be reasoned about.

**GrantedTimeWindow.**  One copy of the engine's fields per rank.  Counters of
messages are sets of the messages they counted, so "equal totals" is equality
of cardinalities and what has been missed is visible.  `Allreduce` and
`Allgather` are one step of all ranks, enabled when all have entered; leaving
them is a step of each rank.  A message is in `net` from MPI_Isend to
MPI_Testany, which may find any message or none.  `lbts` is history.

**NullMessage.**  One copy of engine and bundles per rank, and a FIFO channel
for each direction, as MPI keeps the order of one sender's messages.  `Run`,
each turn of `InitializeNullMessageEvents`, each event, each message received
and each recalculation of the safe time are steps of their own; sending a
packet is three (TransmitStart, SendPacket, Reschedule), because SendPacket
reads the queue that TransmitStart has changed.  A cancelled null message stays
in the queue and is skipped when it runs.  A packet occupies its device until
`TransmitComplete`.  `MCNullMessageBundle.cfg`, which is none of the runs below,
joins two ranks by two channels: there TLC finds `GuaranteeHolds` violated (a
packet promises 9, the next one comes at 8), which is why the proofs assume one
channel.

**RealtimeSimulator.**  `pc` follows the main thread through Run,
ProcessOneEvent and the synchronizer; a critical section is one step, and
between any two steps other threads may `Post` and the wall clock may `Tick`.
Setting `m_running` and setting the origin are two steps, as in the code.

**TrafficControl.**  Four flags of the configuration are chosen in `Init`: with
or without a root queue disc, flow control and queue limits.  One turn of
`QueueDisc::Restart` is a step; the event in which the disc runs goes on at
`after`.  `PacketDequeued` puts its work off with `ScheduleNow`, which is an
event like the end of a transmission and the arrival of a packet.  One byte is
sent in one unit of time.  `WorkConserving` says that between events the device
transmits and the end of the transmission is scheduled, whenever a packet waits
in its queue or in the queue disc.

**SceneNode and SceneReplay.**  An event is `[kind, time, node, value]`.
`HandleEvent` and `HandleUndoEvent` are one turn of the two loops, so that the
properties see every intermediate scene; `pc` keeps everything else out while a
loop runs, as the GUI thread does.  `Paint` and `Advance` are the two halves of
paintGL around drawing.  Ns-3 and renderer coordinates are always assigned
together and are one value; rotations keep the three axes because the
conversions matter.  A trail is the points stored; `Drawn` is what `render` draws
of them, all but the newest.  `Init` is the state when the first file has begun
to load.

**ChartManager, ScenarioLog, Followers.**  One emission of `timeChanged` runs
the loops of both slots to their end, so the loops are folds.  A series is its
points (`t`, `x`, `y`) and the two ranges; undo removes points by `t`, as
QCustomPlot's container does.  A document is a sequence of characters in which
a prompt counts as one.  The time step may be changed by the user between any
two frames and is not kept: a frame takes any step.  A frame past an end is
followed by its correction before anything else.  The controls are the last
slot of `timeChanged`, and their own signals (`timeSet`, `play`, `pause`) run
the scene's functions at once, so each click is one step with all it causes;
`load` includes the slider's way back to zero, which rewinds the log.
`PreviewModel` resets the scene and tells nobody.  So there are three times, two
of them history: the scene's (`simulationTime`), the one the controls were told
last (`told`), and the `moment` that the charts and the log have come to, which
does not go back when the time goes forward; `apart` holds from a preview or a
load until the scene is at that moment again.  `WidgetsAgree` says that charts
and log agree on the moment, that the slider shows the time told, and that
unless `apart` all three are equal.  Units
are 1 and 2 of the playback time's unit; the slider counts in that unit, as it
does while the end fits in an int.

**TransmitParser.**  One action per kind of handler; handlers that treat time
alike share one.  The order in which the hash map is walked is arbitrary.  The
specification is `ParserSpec`: its names differ from those of `SceneReplay`,
because `ScenarioProofs` reasons about both.

## Runs

| run | instance | shows |
|---|---|---|
| `engine` | 3 events, delays 0 and 1 | types, clock order, counts, EventIds, the flag, FIFO order, the contract, posted events arrive |
| `schedulers` | 6 events at times 0, 1 and 7; list, heap, calendar in both directions | no event lost; the earliest comes out |
| `heap_remove` | the heap alone, 7 events | *violation*: order after Remove |
| `window` | 2 ranks, 2 channels (delays 2 and 3), 3 events or packets, times to 4, look-ahead bounds -1 and 1 | the protocol is safe, ranks leave together, Run returns |
| `nullmsg` | 3 ranks in a line, delays 2, stop at 4, times to 6, 3 user events or packets | guarantees hold, safe times grow, nothing late, Run returns everywhere |
| `realtime` | 3 events, delays 0 and 5, 6 ticks, sleeps end 3 ticks early | nothing early, no lost wake-up, what is due is run, the contract |
| `flow` | 5 packets of 1 or 3 bytes, device queue of 2 packets, disc of 2, hold time 4 | order, no discard, no idle link, every packet leaves |
| `flow_bytes` | 6 packets, device queue of 7 bytes | *violation*: a discard under flow control |
| `replay` | 2 nodes, scenarios of 3 events of any kind, times to 2, steps -1 and 2, trails of 3 points; paths of 4 moves; ends of transmissions cut short, of a node 0 that is not there | whole tape, positions, trails drawn, lag |
| `replay_end` | the same | *violation*: events at the end of playback |
| `followers` | two scenarios of charts and messages, steps 2 and -2, units 1 and 2, reloads, failed loads and previews | charts, axes and log are replayed and agree; slider and play button agree with the scene |
| `parser` | 3 nodes, 4 events, durations 1 and 2 | order, pairing of begins and ends |

Why the bounds are enough.  *engine* (`MaxEvents` 3, `UidMod` 64): FIFO order
needs two events at one time from different threads, EventIds need one event
cancelled while another one runs; three events give both, with one more in the
posted queue, and never reach the modulus.  *schedulers* (`MaxEvents` 6,
`Times`): five events make a calendar of two buckets grow and their removal
makes it shrink; 0, 1 and 7 give neighbours in a bucket, a bucket of another
year and a width above one.  `heap_remove` needs seven for three full levels.
*window* (`MaxTime`, `MaxEvents`, `MaxRuns` 1): a message can be early for one
rank only if the other is behind; two ranks suffice since grants come from
minima over ranks, and two channels make "the shortest delay" a real choice.
*nullmsg* (`MaxTime` 6, `MaxEvents` 3, `StopTime` 4): the rank in the middle
has two bundles, so that a safe time is a minimum; a packet answered by a
packet while a cancelled null message is in the queue needs three.  *realtime*
(`MaxTicks` 6, `MaxEvents` 3, `MaxRuns` 1): a delay of 5 is longer than
`HeadStart`, so that a wait sleeps, spins and is interrupted in either; a posted
event comes before, at and after the event waited for.  *flow* (`MaxPackets` 5,
`MaxTime` 3): one packet on the wire, two in the queue and two in the disc fill
everything.  *replay* (`MaxTime` 2, `TrailLength` 3): equal times and a reversal
between two events of one node need three events; a path of four moves, five
points, overfills a trail of three, of which two are drawn; a step of 2 jumps
over a whole time unit and past the end.  *followers* (`MaxTape` 9, `MaxTime` 6):
a series is cleared and filled again, a category series gets fake events, two
streams take turns with and without an end of line; a unit of 2 makes the slider
round up to an end at 3, and a frame can be at, or past, an end at 4; a preview in
the middle leaves events applied that are later than the frames after it.  *parser* (`MaxEvents` 4):
two open transmissions, one cut short, and a scene event.
`CHECK_DEADLOCK FALSE` appears for `parser`, because a file ends, and for
`realtime`, because the wall clock stops at `MaxTicks`.

## Fairness

*engine*: weak fairness of the main thread (user code returns, threads are
scheduled), and strong fairness of taking over posted events: the write of the
flag becomes visible at last, so a thread that looks again and again sees it.
Nothing is assumed of user code: `PostedIsMoved` has "Run is called again and
again or the simulator destroyed" as its hypothesis.  *window*: weak fairness
of each rank's own steps and of the collectives, strong fairness of receiving
each rank's messages, because a poll may miss a message any finite number of
times but MPI delivers it.  Nothing is assumed of calls of Run: `RunReturns`
starts when all ranks have passed the Allreduce.  *nullmsg*: as long as some
rank can call Run or go on, one does; no rank can go on for ever without the
others, so nothing stronger is needed.  *realtime*: weak fairness of the main
thread; nothing is assumed of the clock or of other threads, since `DueIsRun`
speaks of events that are due already.  *flow*: weak fairness of the simulator,
which goes on while it has events.  The other models state no liveness and no
fairness.

## What is proved

TLC checks an instance, the theorems below hold for every value of the
constants: any number of ranks, events, packets, nodes, series and streams, any
delays, sizes, units and time steps.  Each proof assumes the named ASSUMEs of its module, which
TLC evaluates in the runs, and the hypotheses in the third column.  None of the
properties is inductive by itself; every inductive invariant was checked by TLC
on the run's instance before it was proved.

| module | proved | hypotheses |
|---|---|---|
| `DefaultSimulatorProofs` | every invariant of the run `engine`; implements `SimulatorContract` | `NoWrap`: uids stay below `UidMod` (2^32 in the code) |
| `EventListProofs` | `NoEventLost`, `EarliestUnlessRemoved` | none |
| `RealtimeSimulatorProofs` | `NoLostWakeup` | none |
| | `NeverEarly`; implements `SimulatorContract` | `OneRun` |
| `GrantedTimeWindowProofs` | `TypeOK` | none |
| | `NeverLate`, `GrantIsSafe`, `EndTogether`; implements `ParallelContract` | `OneRun` |
| `NullMessageProofs` | `TypeOK`, `NeverLate`, `GuaranteeHolds`, `SafeTimeGrows`; steps keep `ParallelContract` | `OneChannel` |
| `TrafficControlProofs` | `TypeOK`, `PacketsInOrder` | none |
| | `DeviceNeverDiscards` | `InPackets` |
| | `WorkConserving` | `Enough` |
| `ScenarioProofs` | `TapeIsWhole`, `PositionIsReplayed`, `TrailShowsPath`, `LagIsOneFrame` | none |
| | `EventsInOrder`, `EndsTakeTurns` | none |
| `FollowersProofs` | `AxesSpanThePoints` | none |
| | `WidgetsAgree`, `ChartsAreReplayed` | `IntervalIsNatural` |
| | `LogIsReplayed` | `NarrowMessages` |

The hypotheses are what the code needs, not what the proofs need:

- `NoWrap`.  With a small modulus TLC finds two events of the same time out of
  order.
- `OneRun`: `Run` is called once on every rank, or in the one process of the
  real-time engine.  A second `Run` after `Stop` starts from clocks that differ
  between the ranks, or from a wall clock whose origin ignores the simulation
  time (hazards).
- `OneChannel`: two neighbours share one remote channel, see NullMessage above.
- `InPackets`: the queue of the device counts packets.  In bytes the property is
  false, which is the finding of `flow_bytes`.
- `Enough`: the quota of the queue disc is at least the disc's size
  (`QuotaSuffices`), or the device's queue counts packets and has no queue
  limits.  The second covers the code's defaults, a quota of 64 and a disc of
  1000 packets.  With `Quota` 1 and queue limits TLC finds an idle link.
- `IntervalIsNatural`: the interval after which a category series is given a
  value is not negative.  The parser takes any number.  With -1 in the instance
  TLC finds `ChartsAreReplayed` violated: after a preview every frame adds a fake
  event, also one that is earlier than what has been applied (hazard).
- `NarrowMessages`: no message has a character that takes two bytes.  The log
  erases as many characters as the message has bytes, so with such a character
  in the instance TLC finds `LogIsReplayed` violated (hazard).

`FollowersProofs` uses three ASSUMEs: `SeriesAssumption` (XY series, category
series and collections are different), `TimesAssumption` (of two units of the
slider one is a multiple of the other: the code has milliseconds, microseconds
and nanoseconds) and `ScenariosAssumption` (what the parser returns: events in order of
time that name series and streams of the file).

The arguments:

**DefaultSimulator.**  Every event has the uid of its creation, uids and
EventImpl numbers grow together, different events have different uids and impls;
an event in the scheduler has a key after the key of the event that runs, or
equal time and larger uid; a destroy EventId is told apart by its uid; an
EventId that is not in the scheduler is cancelled or has a key not after the
clock's.  From these `IsExpired` is right, because a key compared with the
clock's decides whether the event has run.  The order of `ran` follows because
each event that runs has a key after the last one.  The count needs finiteness
of the scheduler, and the refinement needs that the take-over of posted events
is one Accept of a set.

**EventList.**  Each of the three containers holds exactly its share of the
pending events, each in one place (`Holds`): all of them, or in `SetScheduler`
those moved already and those not moved yet, or none (`ContainersInv`).  The list
is sorted; the heap is ordered unless Remove has used it (`HeapInv`); each bucket
of the calendar has the events of its days, sorted (`Filled`), and the cursor is
the day of the last event removed, past which no event is (`CursorAt`, `NotPast`).
The last is what makes a hit in the year's search the earliest event: an event
of an earlier day would be hit before, and one of the same day is later in the
same bucket.  It holds again after a resize, because the samples are put back and
the cursor is restored, and after a new event, because `m_lastPrio` is never
after the clock (`ClockInv`); a new calendar starts at 0 and nothing is taken
out of it while it is filled.  `BottomUp` and `TopDown` keep the heap ordered but
for one place (`Rising`, `Sinking`), which after as many turns as there are
places is none.
Folds are reasoned about as for `FollowersProofs` below.

**RealtimeSimulator.**  No wake-up is lost because an insert and its signal are
one critical section, and `wait` is computed in another: while the main thread
waits, either no event is before the one waited for or the condition is set
(`IInv`).  Nothing is early because when the wait has passed some event is due,
and the one that `RemoveNext` takes is not later (`WaitInv`); before the origin
is set no event has run (`RunInv`).

**GrantedTimeWindow.**  Every grant, also one of an earlier window, ends before
the last LBTS plus the delay of each own channel (`WindowInv`); the events that
are left, and the clock while an event runs, are not before the LBTS
(`EventsInv`, `CallbackInv`); so a message in flight is due a look-ahead after it
and not before the grant of its receiver (`MessagesInv`).  The LBTS moves only
when equal totals mean that no message is in flight: what was sent is received
or in `net`, and never both (`CountInv`), and what the ranks have told each
other is still true when they leave the collective (`GatherInv`).  That all
leave together is `EndInv`.  The refinement maps what is due on a rank to its
queue and the messages to it, and counts them.

**NullMessage.**  Take a pair of neighbours r, s, a promise p, which is a
guarantee that s has from r or that is on its way, and the safe-time horizon of
r.  Either no event of r can send before p minus the delay and the null message
that is due is not before it either (`Free`), or a transmission is under way
and neither its end nor the null message comes before it (`Busy`); while an
event of r runs, p is at most a delay after its clock.  Promises on a channel
grow, and packets come after them.  Only `TransmitStart` needs `OneChannel`: a
ready device finds no transmission under way to the same neighbour.

**TrafficControl.**  The packets that IP sent are in exactly one of: received,
on the wire, device queue, disc, refused, discarded (`Placed`), and in this
order (`Ordered`); every operation is composed of lemmas about one packet's move
from one to the next.  What is on the wire lands in order because an idle
device has no transmission under way, and a busy device's earlier packets
arrive before the one that follows (`DeviceInv`).  For `WorkConserving`: the
device is busy until the end of a transmission that is scheduled, and what its
queue has put off happens before that end (`RoundInv`); the queue limits count
exactly the bytes in the queue and of the packet not yet notified (`LimitsInv`);
so whatever stops the disc is undone by what the device still has (`StopsInv`),
and a disc that is not stopped was emptied by a run, or filled the device
(`SlotsInv`, `WaitsInv`).  Sums of bytes are stated by running sums
(`Weighs`), since a recursive definition could not be reasoned about.

**SceneReplay.**  Undo events remember the target of the last earlier event
that changed the same thing (`Remembers`), and a node is where the last applied
events put it, its trail point by point the last of its moves (`Follows`); both
survive a turn of either loop because together the two queues always are the
file (`TapeIsWhole`).  What is drawn of the trail, all but its newest point, is
where the node was before each of these moves, by the values their undo events
keep.  `LagIsOneFrame` adds what each handler leaves behind at each `pc`
(`LagIInv`); it speaks of the events before the first one whose node is not in
the scene (`Reached`), because `handleEvents` stops there.

**Followers.**  Every slot runs a loop to its end, which is a fold.  A fold
over n elements is a sequence of n + 1 states, one turn of the loop apart
(`Leads`); that something holds at each of them is induction over the natural
numbers, which well-foundedness of `<` gives for a set of numbers instead of an
operator (`Induction`).  With this the widgets are functions of a prefix of
their tape: the undo events and the events to come are the tape, cut at one
point (`IsOnTape`, `ChartsAt`); the documents are what the first n messages
print, where an undo event has the writer before its message and the number of
characters that the message added (`IsShown`); a series has the points that the
first n chart events leave, and the undo events of a cleared series its old
points (`ChartsShow`).  A fake event, which moves a category series on, joins
the events to come when it is undone, so the charts' tape is compared without
fakes (`Real`).  The ranges of the axes never shrink while a scenario is shown,
so they span every point applied (`AxesSpan`).  Where the cut is follows from the
moment alone: events applied are not after it, events to come not before it, and
what one widget has applied is before what the other one has not (`MomentInv`),
which gives the part of `WidgetsAgree` about charts and log.  Going forward to a
time before the moment, as a scene does after a preview, must then change nothing
that is out of order.  No event is due, but a category series may be given a fake
one.  `UpToDate` excludes that: whenever an event was applied, no such series had
been without a value for more than an interval, because the same call that
applies events gives values to all idle series afterwards.  A series that is idle
at a time is therefore idle after everything applied, and the fake event comes
last.  Going back keeps this, since undoing does not restore `lastUpdatedTime`.
For the controls
the slider's time is the time told rounded up to some unit or to the end
(`IsRounded`); a larger unit chosen later rounds a time that was rounded
already, and lands on a multiple because units divide one another
(`ControlsInv`).

**TransmitParser.**  A transmission that the handler takes to go on is the last
event about its node in what has been written, and all other transmissions have
been ended (`TakeTurns`).  The ends that one call of `processEndTransmits` adds are
about different nodes, whatever the order of the map, so none comes between
another and its beginning.

### Only model-checked

All liveness (`PostedIsMoved`, `RunReturns`, `DueIsRun`, `EveryPacketLeaves`):
fairness is out of the prover's reach.

## Disagreements with comments, documentation and assertions

`PROJECT.json` has the details under "findings".

1. `HeapScheduler::Remove` does not move the replacement up (`heap_remove`).
2. A device queue in bytes is stopped for an Mtu without the PPP header, so a
   packet that flow control has let through may be discarded (`flow_bytes`).
3. When playback ends the last events may stay unapplied (`replay_end`).

Seen while modelling, with no run of their own; the hazards have the lines:

- With parallel channels between two ranks a null-message guarantee can be
  later than the arrival of a packet sent after it in the same event, on the
  faster channel (`MCNullMessageBundle.cfg`).
- A second `Run` of the granted-window engine or of the real-time engine after
  `Stop` starts from clocks that no longer fit together.
- Undoing an orientation change converts the axes a second time; undoing the
  end of a transmission does not set `isTransmitting` again.
- A transmission that is cut short ends with node 0 as its node, and
  `processEndTransmits` returns at the first node that is not transmitting.  In a
  scenario without a node 0 the scene stops applying events at such an end
  (`SceneWidget.cpp:95-97`) and everything behind it waits for ever.
- The trail drawn stops one move before the node: `TrailBuffer::render` draws
  `index` points, and the newest is at `buffer[index]`.
- `previewModel` sets the scene's time to 0 without `timeChanged` and does not
  pause.  Slider, charts and log stay where they were until the scene, playing on
  from 0 or set by the user, comes to that moment or goes back before it.
- With a negative interval of a category series, frames after a preview put fake
  events behind later ones and the charts are out of order.
- The log erases as many characters as a message has bytes of UTF-8.
- With a quota smaller than the queue disc, and queue limits or a device queue in
  bytes, `QueueDisc::Run` may leave packets behind an idle link until the next
  packet (the `\todo` in the code); `EnoughConserves` says when it does not.
- `setGranularity` rounds the controls' time without telling the scene: within a
  unit of the end, the play button then starts from the beginning.
- `SleepWait` returns the inverse of what the comment at its call says.  The
  loop in `ProcessOneEvent` makes up for it.

## Not modelled

Map and priority-queue schedulers hand everything to the standard library.
Contexts, reference counts and the simulation's random numbers do not influence
what is modelled.  The parallel engines' Remove, Cancel and destroy events and
the real-time engine's Cancel, IsExpired and destroy events have the sequential
engine's code; hard-limit mode ends the program.  Changing a channel's delay
during a parallel run breaks the look-ahead; it is a hazard without a model.
The 32-bit counters of the queue limits stay below their wrap-around.
Decorations (which have the nodes' queues and undo), links, selection and
camera are left out, and so is a play before the first load, when the slider's
step is still 0.0.  Network models other than
the way through traffic control to a point-to-point link, rendering and
vendored libraries are out of scope, as is the wall-clock duration of frames: a
frame may come at any time.

## Plan

Done: models of the sequential engine, heap, granted time windows, scene
replay, parser, list and calendar schedulers with `SetScheduler`, null messages,
real-time engine, traffic control and point-to-point device, charts, log and
playback controls; proofs of every invariant and every safety action property
of the runs that pass.

Next:

1. `WorkConserving` with queue limits and a quota below the size of the disc:
   find the weakest condition on quota and limits under which the link is not
   idle, or show with a run that there is none.
