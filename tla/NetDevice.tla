------------------------------ MODULE NetDevice ------------------------------
(***************************************************************************)
(* A network device with flow control: for each transmission queue a       *)
(* DropTailQueue, the NetDeviceQueue that observes it through the trace    *)
(* sources "Enqueue", "Dequeue" and "DropBeforeEnqueue", and a             *)
(* transmitter.  With one transmission queue this is PointToPointNetDevice *)
(* with its NetDeviceQueueInterface.                                       *)
(*                                                                         *)
(* Queue limits (BQL) are the abstract class QueueLimits: after a packet   *)
(* is reported queued or transmitted, Available may be negative or not,    *)
(* except that it is not negative when everything queued has been          *)
(* transmitted.  DynamicQueueLimits.tla shows that the only implementation *)
(* keeps this promise.                                                     *)
(***************************************************************************)
EXTENDS QueueItem, Integers, Sequences

CONSTANTS HeaderSize,   \* bytes the device adds to a packet (PPP: 2)
          Mtu,          \* GetMtu of the device
          DevMode,      \* unit of the MaxSize of the device queues
          DevMax,       \* MaxSize of the device queues
          QueueLimits   \* a QueueLimits object is aggregated to every tx queue

ASSUME NetDeviceAssumption ==
    /\ HeaderSize \in Nat
    /\ Mtu \in Nat \ {0}
    /\ DevMode \in {"packets", "bytes"}
    /\ DevMax \in Nat \ {0}
    /\ DevMode = "bytes" => DevMax >= Mtu + HeaderSize
    /\ QueueLimits \in BOOLEAN

VARIABLES
    devQueue,               \* devQueue[q]: packets in the device queue
    devBytes,               \* devBytes[q]: their size in bytes
    busy,                   \* busy[q]: m_txMachineState is BUSY
    m_stoppedByDevice,
    m_stoppedByQueueLimits,
    wakes,                  \* wakes[q]: wake callbacks scheduled by ScheduleNow
    nDiscarded,             \* nDiscarded[q]: packets the full device queue refused
    wire                    \* wire[q]: packets put on the channel, in order

deviceVars == <<devQueue, devBytes, busy, m_stoppedByDevice, m_stoppedByQueueLimits,
                wakes, nDiscarded, wire>>

NetDeviceInit ==
    /\ devQueue = [q \in TxQueues |-> <<>>]
    /\ devBytes = [q \in TxQueues |-> 0]
    /\ busy = [q \in TxQueues |-> FALSE]
    /\ m_stoppedByDevice = [q \in TxQueues |-> FALSE]
    /\ m_stoppedByQueueLimits = [q \in TxQueues |-> FALSE]
    /\ wakes = [q \in TxQueues |-> 0]
    /\ nDiscarded = [q \in TxQueues |-> 0]
    /\ wire = [q \in TxQueues |-> <<>>]

\* The type of every variable of the device.
NetDeviceTypeOK ==
    /\ devQueue \in [TxQueues -> Seq(Packet)]
    /\ devBytes \in [TxQueues -> Int]
    /\ busy \in [TxQueues -> BOOLEAN]
    /\ m_stoppedByDevice \in [TxQueues -> BOOLEAN]
    /\ m_stoppedByQueueLimits \in [TxQueues -> BOOLEAN]
    /\ wakes \in [TxQueues -> Nat]
    /\ nDiscarded \in [TxQueues -> Nat]
    /\ wire \in [TxQueues -> Seq(Packet)]

IsStopped(q) == m_stoppedByDevice[q] \/ m_stoppedByQueueLimits[q]

WireSize(p) == p.size + HeaderSize

\* The queue holding n packets and b bytes can take s more bytes (one packet).
Fits(n, b, s) == IF DevMode = "packets" THEN n + 1 <= DevMax ELSE b + s <= DevMax

-----------------------------------------------------------------------------
(* Send on a transmitter that is busy, idle, or behind a full queue *)

\* The queue refuses the packet: PacketDiscarded stops the tx queue.
Discard(q, p) ==
    /\ ~ Fits(Len(devQueue[q]), devBytes[q], WireSize(p))
    /\ nDiscarded' = [nDiscarded EXCEPT ![q] = @ + 1]
    /\ m_stoppedByDevice' = [m_stoppedByDevice EXCEPT ![q] = TRUE]
    /\ UNCHANGED <<devQueue, devBytes, busy, m_stoppedByQueueLimits, wakes, wire>>

\* The packet waits in the queue: PacketEnqueued may stop the tx queue.
SendBusy(q, p) ==
    /\ Fits(Len(devQueue[q]), devBytes[q], WireSize(p))
    /\ busy[q]
    /\ devQueue' = [devQueue EXCEPT ![q] = Append(@, p)]
    /\ devBytes' = [devBytes EXCEPT ![q] = @ + WireSize(p)]
    /\ \E over \in {FALSE, QueueLimits} :
           m_stoppedByQueueLimits' =
               [m_stoppedByQueueLimits EXCEPT ![q] = @ \/ over]
    /\ m_stoppedByDevice' = [m_stoppedByDevice EXCEPT ![q] =
           @ \/ ~ Fits(Len(devQueue'[q]), devBytes'[q], Mtu)]
    /\ UNCHANGED <<busy, wakes, nDiscarded, wire>>

\* Mutant of StartTransmission: room in the device queue does not wake it.
StartWithoutWake(q, qs, b, dev, lim) ==
    LET p == Head(qs)
    IN  /\ devQueue' = [devQueue EXCEPT ![q] = Tail(qs)]
        /\ devBytes' = [devBytes EXCEPT ![q] = b - WireSize(p)]
        /\ busy' = [busy EXCEPT ![q] = TRUE]
        /\ wire' = [wire EXCEPT ![q] = Append(@, p)]
        /\ m_stoppedByQueueLimits' = [m_stoppedByQueueLimits EXCEPT ![q] = FALSE]
        /\ m_stoppedByDevice' = [m_stoppedByDevice EXCEPT ![q] = dev]
        /\ wakes' = [wakes EXCEPT ![q] = @ + (IF lim THEN 1 ELSE 0)]
        /\ UNCHANGED nDiscarded

\* The packet at the head of the queue leaves it for the channel, where the
\* queue before the step is qs with b bytes, stopped as dev and lim say:
\* PacketDequeued reports it transmitted, wakes the queue disc if queue limits
\* stopped the tx queue and now have room, and again if the device stopped it
\* and now has room.
StartTransmission(q, qs, b, dev, lim) ==
    LET p    == Head(qs)
        left == b - WireSize(p)
        room == Fits(Len(Tail(qs)), left, Mtu)
    IN  /\ devQueue' = [devQueue EXCEPT ![q] = Tail(qs)]
        /\ devBytes' = [devBytes EXCEPT ![q] = left]
        /\ busy' = [busy EXCEPT ![q] = TRUE]
        /\ wire' = [wire EXCEPT ![q] = Append(@, p)]
        /\ \E available \in {TRUE, Tail(qs) = <<>>} :
               /\ m_stoppedByQueueLimits' =
                      [m_stoppedByQueueLimits EXCEPT ![q] = lim /\ ~ available]
               /\ m_stoppedByDevice' = [m_stoppedByDevice EXCEPT ![q] = dev /\ ~ room]
               /\ wakes' = [wakes EXCEPT ![q] =
                      @ + (IF lim /\ available THEN 1 ELSE 0)
                        + (IF dev /\ room THEN 1 ELSE 0)]
        /\ UNCHANGED nDiscarded

\* The transmitter is ready: the packet is enqueued, the head is dequeued at
\* once and its transmission starts.
SendReady(q, p) ==
    LET qs == Append(devQueue[q], p)
        b  == devBytes[q] + WireSize(p)
    IN  /\ Fits(Len(devQueue[q]), devBytes[q], WireSize(p))
        /\ ~ busy[q]
        /\ \E over \in {FALSE, QueueLimits} :
               StartTransmission(q, qs, b,
                   m_stoppedByDevice[q] \/ ~ Fits(Len(qs), b, Mtu),
                   m_stoppedByQueueLimits[q] \/ over)

DeviceSend(q, p) == Discard(q, p) \/ SendBusy(q, p) \/ SendReady(q, p)

-----------------------------------------------------------------------------
(* Events of the device *)

\* TransmitComplete takes the next packet off the device queue, if any.  It is
\* scheduled a transmission time after the packet that starts it, so the wakes
\* scheduled at that time have run.
TransmitComplete(q) ==
    /\ busy[q]
    /\ wakes[q] = 0
    /\ IF devQueue[q] = <<>>
       THEN /\ busy' = [busy EXCEPT ![q] = FALSE]
            /\ UNCHANGED <<devQueue, devBytes, m_stoppedByDevice,
                           m_stoppedByQueueLimits, wakes, nDiscarded, wire>>
       ELSE StartTransmission(q, devQueue[q], devBytes[q],
                m_stoppedByDevice[q], m_stoppedByQueueLimits[q])

\* The scheduled invocation of m_wakeCallback, which is QueueDisc::Run.
WakeFires(q) ==
    /\ wakes[q] > 0
    /\ wakes' = [wakes EXCEPT ![q] = @ - 1]
    /\ UNCHANGED <<devQueue, devBytes, busy, m_stoppedByDevice,
                   m_stoppedByQueueLimits, nDiscarded, wire>>

=============================================================================
