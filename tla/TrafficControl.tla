--------------------------- MODULE TrafficControl ---------------------------
(***************************************************************************)
(* The way of a packet from IP to the other end of a point-to-point link:  *)
(* ns3::TrafficControlLayer, a FifoQueueDisc, the NetDeviceQueue through   *)
(* which the device stops and wakes the queue disc, the DropTailQueue and  *)
(* the transmit machine of a PointToPointNetDevice, and its channel.  One  *)
(* direction of the link is modelled, the other is like it.                *)
(*                                                                         *)
(* The simulator runs one event at a time, in the order of their times.    *)
(***************************************************************************)
EXTENDS EventKey, Sequences, FiniteSets, Folds, DynamicQueueLimits

CONSTANTS Unit,         \* of the queue of the device: "packets" or "bytes"
          QueueSize,    \* its MaxSize
          DiscSize,     \* MaxSize of the FifoQueueDisc, in packets
          Quota,        \* attribute Quota of the queue disc
          Mtu,          \* of the device
          PppHeader,    \* bytes that Send adds to a packet
          Sizes,        \* sizes of the packets IP sends
          Gap,          \* interframe gap
          Delay,        \* of the channel
          MaxPackets,   \* bound: packets sent
          MaxTime       \* bound: when packets are sent

ASSUME QueueAssumption ==
    /\ Unit \in {"packets", "bytes"} /\ QueueSize \in Nat \ {0} /\ DiscSize \in Nat
    /\ Quota \in Nat \ {0}
ASSUME DeviceAssumption ==
    /\ Mtu \in Nat /\ PppHeader \in Nat /\ Sizes \subseteq 1..Mtu
    /\ Gap \in Nat /\ Delay \in Nat
    /\ Unit = "bytes" => Mtu + PppHeader <= QueueSize
ASSUME BoundsAssumption == MaxPackets \in Nat /\ MaxTime \in Nat

VARIABLES
    config,                    \* what the script has installed
    m_currentTs, m_events, m_uid,    \* the simulator
    disc,                      \* FifoQueueDisc: the packets in it
    \* NetDeviceQueue
    m_stoppedByDevice, m_stoppedByQueueLimits, m_queueLimits,
    \* PointToPointNetDevice
    m_queue, m_txMachineState,
    received,                  \* the packets that reached the other end, in order
    pc, quota, after,          \* where the event that runs is, in QueueDisc::Run
    made,                      \* history: packets sent by IP
    refused,                   \* history: packets dropped before the device
    discarded                  \* history: packets dropped by the device

simulator == <<m_currentTs, m_events, m_uid>>
flags == <<m_stoppedByDevice, m_stoppedByQueueLimits, m_queueLimits>>
device == <<m_queue, m_txMachineState>>
run == <<pc, quota, after>>
vars == <<config, simulator, disc, flags, device, received, run, made, refused, discarded>>

Packet == [id : Nat, size : Nat]

(* With a root queue disc or without; with a NetDeviceQueueInterface, which *)
(* the device needs for flow control, and then with queue limits.          *)
Configs == [queueDisc : BOOLEAN, flowControl : BOOLEAN, queueLimits : BOOLEAN]

Init == /\ config \in {c \in Configs : c.queueLimits => c.flowControl}
        /\ m_currentTs = 0 /\ m_events = {} /\ m_uid = 4
        /\ disc = << >>
        /\ m_stoppedByDevice = FALSE /\ m_stoppedByQueueLimits = FALSE
        /\ m_queueLimits = Reset
        /\ m_queue = << >> /\ m_txMachineState = "READY"
        /\ received = << >>
        /\ pc = "loop" /\ quota = 0 /\ after = "loop"
        /\ made = 0 /\ refused = {} /\ discarded = {}

IsStopped == m_stoppedByDevice \/ m_stoppedByQueueLimits

Bytes(queue) == MapThenFoldSet(LAMBDA x, y : x + y, 0,
                               LAMBDA i : queue[i].size + PppHeader,
                               LAMBDA S : CHOOSE i \in S : TRUE, DOMAIN queue)

CurrentSize(queue) == IF Unit = "packets" THEN Len(queue) ELSE Bytes(queue)

(* WouldOverflow(1, Mtu) *)
WouldOverflow(queue) ==
    CurrentSize(queue) + (IF Unit = "packets" THEN 1 ELSE Mtu) > QueueSize

---------------------------------------------------------------------------
(* Schedules one event after the other; an event is what it does.          *)
ScheduleAll(events, now, list) ==
    /\ m_events' = events \cup
         {[ts |-> now + list[i].delay, uid |-> m_uid + i - 1,
           does |-> list[i].does] : i \in 1..Len(list)}
    /\ m_uid' = m_uid + Len(list)

(* NetDeviceQueue::PacketDequeued, which the queue calls when a packet     *)
(* leaves it, puts its work off.                                           *)
PacketDequeued(packet) ==
    IF config.flowControl
    THEN <<[delay |-> 0, does |-> <<"dequeued", packet>>]>>
    ELSE << >>

(* TransmitStart, of the device and of the channel. *)
TransmitStart(packet) ==
    LET txTime == packet.size + PppHeader   \* one byte in a unit of time
    IN  << [delay |-> txTime + Gap, does |-> <<"complete">>],
           [delay |-> txTime + Delay, does |-> <<"receive", packet>>] >>

PacketEnqueuedBefore(packet, queue) ==  \* mutant
    LET limits == IF config.queueLimits
                  THEN Queued(m_queueLimits, packet.size + PppHeader)
                  ELSE m_queueLimits
    IN  /\ m_queueLimits' = limits
        /\ m_stoppedByQueueLimits' =
             (m_stoppedByQueueLimits \/ (config.queueLimits /\ Available(limits) < 0))
        /\ m_stoppedByDevice' =
             (m_stoppedByDevice \/ (config.flowControl /\ WouldOverflow(m_queue)))

(* NetDeviceQueue::PacketEnqueued, with the queue after it. *)
PacketEnqueued(packet, queue) ==
    LET limits == IF config.queueLimits
                  THEN Queued(m_queueLimits, packet.size + PppHeader)
                  ELSE m_queueLimits
    IN  /\ m_queueLimits' = limits
        /\ m_stoppedByQueueLimits' =
             (m_stoppedByQueueLimits \/ (config.queueLimits /\ Available(limits) < 0))
        /\ m_stoppedByDevice' =
             (m_stoppedByDevice \/ (config.flowControl /\ WouldOverflow(queue)))

HasRoom(packet) ==
    CurrentSize(m_queue) + (IF Unit = "packets" THEN 1 ELSE packet.size + PppHeader)
        <= QueueSize

(* PointToPointNetDevice::Send: through the queue, and onto the wire when  *)
(* the device is ready.  A queue that has no room discards the packet.     *)
Send(packet) ==
    IF HasRoom(packet)
    THEN /\ PacketEnqueued(packet, Append(m_queue, packet))
         /\ IF m_txMachineState = "READY"
            THEN LET next == Head(Append(m_queue, packet))
                 IN  /\ m_queue' = Tail(Append(m_queue, packet))
                     /\ m_txMachineState' = "BUSY"
                     /\ ScheduleAll(m_events, m_currentTs,
                                     PacketDequeued(next) \o TransmitStart(next))
            ELSE /\ m_queue' = Append(m_queue, packet)
                 /\ UNCHANGED <<m_txMachineState, m_events, m_uid>>
         /\ UNCHANGED discarded
    ELSE /\ discarded' = discarded \cup {packet.id}
         /\ m_stoppedByDevice' = (m_stoppedByDevice \/ config.flowControl)   \* PacketDiscarded
         /\ UNCHANGED <<device, m_events, m_uid, m_stoppedByQueueLimits, m_queueLimits>>

---------------------------------------------------------------------------
(* TrafficControlLayer::Send, in an event of the layers above. *)

NewPacket(size) == [id |-> made + 1, size |-> size]

StartRun(next) == pc' = "run" /\ quota' = Quota /\ after' = next

SendWithoutQueueDisc(size) ==
    /\ pc = "loop" /\ made < MaxPackets
    /\ ~config.queueDisc
    /\ made' = made + 1
    /\ IF config.flowControl /\ IsStopped
       THEN /\ refused' = refused \cup {made + 1}
            /\ UNCHANGED <<m_events, m_uid, flags, device, discarded>>
       ELSE Send(NewPacket(size)) /\ UNCHANGED refused
    /\ UNCHANGED <<config, m_currentTs, disc, received, run>>

SendToQueueDisc(size) ==
    /\ pc = "loop" /\ made < MaxPackets
    /\ config.queueDisc
    /\ made' = made + 1
    /\ IF Len(disc) + 1 > DiscSize
       THEN refused' = refused \cup {made + 1} /\ UNCHANGED disc
       ELSE disc' = Append(disc, NewPacket(size)) /\ UNCHANGED refused
    /\ StartRun("loop")
    /\ UNCHANGED <<config, simulator, flags, device, received, discarded>>

(* QueueDisc::Run: one Restart after the other. *)
RunEnd == pc' = after /\ UNCHANGED <<quota, after>>

DequeueNothing ==
    /\ pc = "run"
    /\ disc = << >> \/ (config.flowControl /\ IsStopped)
    /\ RunEnd
    /\ UNCHANGED <<config, simulator, disc, flags, device, received, made, refused, discarded>>

DequeuePacket ==
    /\ pc = "run"
    /\ disc # << >> /\ ~(config.flowControl /\ IsStopped)
    /\ Send(Head(disc))
    /\ disc' = Tail(disc)
    /\ IF disc' = << >> \/ IsStopped' \/ quota = 1
       THEN RunEnd
       ELSE quota' = quota - 1 /\ UNCHANGED <<pc, after>>
    /\ UNCHANGED <<config, m_currentTs, received, made, refused>>

---------------------------------------------------------------------------
(* The events that the layers below have scheduled. *)

IsNext(e, what) == /\ pc = "loop" /\ e.does[1] = what
                   /\ e \in m_events
                   /\ \A f \in m_events \ {e} : KeyLess(e, f)

TransmitCompletePeeks(e) ==  \* mutant
    /\ IsNext(e, "complete")
    /\ m_currentTs' = e.ts
    /\ IF m_queue = << >>
       THEN /\ m_txMachineState' = "READY"
            /\ m_events' = m_events \ {e}
            /\ UNCHANGED m_uid
       ELSE /\ ScheduleAll(m_events \ {e}, e.ts,
                   PacketDequeued(Head(m_queue)) \o TransmitStart(Head(m_queue)))
            /\ UNCHANGED m_txMachineState
    /\ UNCHANGED <<config, disc, flags, m_queue, received, run, made, refused, discarded>>

TransmitComplete(e) ==
    /\ IsNext(e, "complete")
    /\ m_currentTs' = e.ts
    /\ IF m_queue = << >>
       THEN /\ m_txMachineState' = "READY"
            /\ m_events' = m_events \ {e}
            /\ UNCHANGED <<m_uid, m_queue>>
       ELSE /\ m_queue' = Tail(m_queue)
            /\ ScheduleAll(m_events \ {e}, e.ts,
                   PacketDequeued(Head(m_queue)) \o TransmitStart(Head(m_queue)))
            /\ UNCHANGED m_txMachineState
    /\ UNCHANGED <<config, disc, flags, received, run, made, refused, discarded>>

(* Receive, before the error model of the receiver looks at the packet. *)
Receive(e) ==
    /\ IsNext(e, "receive")
    /\ m_currentTs' = e.ts
    /\ m_events' = m_events \ {e}
    /\ received' = Append(received, e.does[2].id)
    /\ UNCHANGED <<config, m_uid, disc, flags, device, run, made, refused, discarded>>

NotifyWithoutRun(e) ==  \* mutant
    LET limits == Completed(m_queueLimits, e.does[2].size + PppHeader, e.ts)
        isFreed == config.queueLimits /\ Available(limits) >= 0
    IN  /\ IsNext(e, "dequeued")
        /\ m_currentTs' = e.ts
        /\ m_events' = m_events \ {e}
        /\ m_queueLimits' = IF config.queueLimits THEN limits ELSE m_queueLimits
        /\ m_stoppedByQueueLimits' = (m_stoppedByQueueLimits /\ ~isFreed)
        /\ pc' = "wake"
        /\ UNCHANGED <<config, m_uid, disc, m_stoppedByDevice, device, received,
                       quota, after, made, refused, discarded>>

(* What PacketDequeued has put off: NotifyTransmittedBytes, which may run  *)
(* the queue disc, ...                                                     *)
NotifyTransmittedBytes(e) ==
    LET limits == Completed(m_queueLimits, e.does[2].size + PppHeader, e.ts)
        isFreed == config.queueLimits /\ Available(limits) >= 0
    IN  /\ IsNext(e, "dequeued")
        /\ m_currentTs' = e.ts
        /\ m_events' = m_events \ {e}
        /\ m_queueLimits' = IF config.queueLimits THEN limits ELSE m_queueLimits
        /\ m_stoppedByQueueLimits' = (m_stoppedByQueueLimits /\ ~isFreed)
        /\ IF m_stoppedByQueueLimits /\ isFreed /\ config.queueDisc
           THEN StartRun("wake")
           ELSE pc' = "wake" /\ UNCHANGED <<quota, after>>
        /\ UNCHANGED <<config, m_uid, disc, m_stoppedByDevice, device, received,
                       made, refused, discarded>>

WakeWithoutRun ==  \* mutant
    /\ pc = "wake"
    /\ pc' = "loop"
    /\ m_stoppedByDevice' = (m_stoppedByDevice /\ WouldOverflow(m_queue))
    /\ UNCHANGED <<config, simulator, disc, m_stoppedByQueueLimits, m_queueLimits,
                   device, received, quota, after, made, refused, discarded>>

(* ... and Wake, if there is room for another packet. *)
Wake ==
    /\ pc = "wake"
    /\ IF WouldOverflow(m_queue)
       THEN pc' = "loop" /\ UNCHANGED <<quota, after, m_stoppedByDevice>>
       ELSE /\ m_stoppedByDevice' = FALSE
            /\ IF m_stoppedByDevice /\ config.queueDisc
               THEN StartRun("loop")
               ELSE pc' = "loop" /\ UNCHANGED <<quota, after>>
    /\ UNCHANGED <<config, simulator, disc, m_stoppedByQueueLimits, m_queueLimits,
                   device, received, made, refused, discarded>>

(* Between events time passes, to the next one at most. *)
Advance ==
    /\ pc = "loop" /\ made < MaxPackets /\ m_currentTs < MaxTime
    /\ \A e \in m_events : m_currentTs < e.ts
    /\ m_currentTs' = m_currentTs + 1
    /\ UNCHANGED <<config, m_events, m_uid, disc, flags, device, received, run,
                   made, refused, discarded>>

---------------------------------------------------------------------------

Finished == pc = "loop" /\ m_events = {} /\ made = MaxPackets /\ UNCHANGED vars

ProcessOneEvent == \E e \in m_events : \/ TransmitComplete(e) \/ Receive(e)
                                       \/ NotifyTransmittedBytes(e)

Simulator == DequeueNothing \/ DequeuePacket \/ Wake \/ ProcessOneEvent

Next == \/ \E s \in Sizes : SendWithoutQueueDisc(s) \/ SendToQueueDisc(s)
        \/ Simulator \/ Advance \/ Finished

(* The simulator goes on while it has events. *)
Spec == Init /\ [][Next]_vars /\ WF_vars(Simulator)

---------------------------------------------------------------------------
(* What the layers keep between them. *)

TypeOK ==
    /\ config \in Configs
    /\ m_currentTs \in Nat /\ m_uid \in Nat
    /\ \A e \in m_events : e.ts \in Nat /\ e.uid \in Nat
    /\ disc \in Seq(Packet) /\ m_queue \in Seq(Packet)
    /\ {m_stoppedByDevice, m_stoppedByQueueLimits} \subseteq BOOLEAN
    /\ m_queueLimits \in Limits
    /\ m_txMachineState \in {"READY", "BUSY"}
    /\ pc \in {"loop", "run", "wake"} /\ after \in {"loop", "wake"} /\ quota \in 0..Quota
    /\ made \in Nat /\ refused \subseteq 1..made /\ discarded \subseteq 1..made

Pending(what) == {e \in m_events : e.does[1] = what}

(* No packet is lost, doubled or overtaken on its way through the queue    *)
(* disc, the queue and the wire: those that nobody dropped are there, in   *)
(* the order in which IP sent them.                                        *)
OnTheWire == Pending("receive")
PacketsInOrder ==
    LET reached == {received[i] : i \in 1..Len(received)}
        flying == {e.does[2].id : e \in OnTheWire}
        queued == {m_queue[i].id : i \in 1..Len(m_queue)}
        waiting == {disc[i].id : i \in 1..Len(disc)}
        Follow(S, T) == \A p \in S, q \in T : p < q
    IN  /\ reached \cup flying \cup queued \cup waiting \cup refused \cup discarded
             = 1..made
        /\ Len(received) + Cardinality(OnTheWire) + Len(m_queue) + Len(disc)
             + Cardinality(refused) + Cardinality(discarded) = made
        /\ \A i, j \in 1..Len(received) : i < j => received[i] < received[j]
        /\ \A e, f \in OnTheWire : KeyLess(e, f) => e.does[2].id < f.does[2].id
        /\ \A i, j \in 1..Len(m_queue) : i < j => m_queue[i].id < m_queue[j].id
        /\ \A i, j \in 1..Len(disc) : i < j => disc[i].id < disc[j].id
        /\ Follow(reached, flying) /\ Follow(flying, queued) /\ Follow(queued, waiting)

(* "This should not happen if the device correctly stops the queue": with  *)
(* flow control the device is never given a packet that it has no room     *)
(* for.                                                                    *)
DeviceNeverDiscards == config.flowControl => discarded = {}

(* The link is never idle while packets wait: nobody forgets to run the    *)
(* queue disc after the device has stopped it.                             *)
WorkConserving ==
    pc = "loop" /\ (m_queue # << >> \/ disc # << >>) =>
        m_txMachineState = "BUSY" /\ Pending("complete") # {}

(* A packet that is accepted leaves the sender. *)
EveryPacketLeaves ==
    \A n \in 1..MaxPackets :
        (made >= n) ~> (n \in refused \cup discarded \/
                        \E i \in 1..Len(received) : received[i] = n)
=============================================================================
