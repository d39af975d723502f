----------------------------- MODULE FlowControl -----------------------------
(***************************************************************************)
(* The traffic control layer between the network layer and one device: a   *)
(* root queue disc whose wake mode is WAKE_ROOT on top of a device with    *)
(* flow control.  TrafficControlLayer::Send enqueues a packet and runs the *)
(* queue disc; Run dequeues packets and sends them down until the queue    *)
(* disc is empty, the tx queue is stopped or the quota is used up; the     *)
(* device wakes the queue disc when a stopped tx queue has room again.     *)
(*                                                                         *)
(* An event of the simulator is the execution of one handler.  No other    *)
(* event happens while m_running holds.                                    *)
(***************************************************************************)
EXTENDS QueueDisc, NetDevice, Functions

CONSTANTS MaxPackets,   \* bound: packets the network layer sends
          RootPeek      \* a program may call Peek on the root queue disc

ASSUME FlowControlAssumption ==
    /\ MaxPackets \in Nat
    /\ RootPeek \in BOOLEAN
    /\ \A s \in Sizes : s <= Mtu

vars == <<qdiscVars, deviceVars>>

Init == QueueDiscInit /\ NetDeviceInit

SingleQueue == \E q \in TxQueues : TxQueues = {q}

\* DequeuePacket may take the requeued packet p.
MayTakeRequeued(p) == ~ IsStopped(p.txq)

\* Mutant of MayDequeue: a stopped unique tx queue is not considered.
MayAlwaysDequeue == TRUE

\* DequeuePacket may ask the queue disc for a packet.
MayDequeue == ~ SingleQueue \/ \A q \in TxQueues : ~ IsStopped(q)

-----------------------------------------------------------------------------
(* Events *)

\* TrafficControlLayer::Send, up to the loop of Run.
Send(s, q) ==
    /\ ~ m_running
    /\ nReceived < MaxPackets
    /\ Enqueue([id |-> nReceived + 1, size |-> s, txq |-> q])
    /\ RunBegin
    /\ UNCHANGED deviceVars

\* The wake callback runs the queue disc.
WakeEvent(q) ==
    /\ ~ m_running
    /\ WakeFires(q)
    /\ RunBegin
    /\ UNCHANGED <<queue, m_requeued, m_peeked, m_nPackets, statVars, header>>

TransmitCompleteEvent(q) ==
    /\ ~ m_running
    /\ TransmitComplete(q)
    /\ UNCHANGED qdiscVars

PeekCall ==
    /\ RootPeek
    /\ ~ m_running
    /\ Peek
    /\ UNCHANGED deviceVars

-----------------------------------------------------------------------------
(* One iteration of the loop of Run: Restart *)

\* DequeuePacket returns the item that Restart hands to Transmit.
DequeuePacket(p) ==
    \/ MayTakeRequeued(p) /\ TakeRequeued(p)
    \/ MayDequeue /\ TakeHead(p)

\* Mutant of Transmit: a stopped tx queue is not considered.
TransmitAnyway(p) ==
    /\ DeviceSend(p.txq, p)
    /\ Transmitted(m_nPackets' # 0)

\* After a packet is sent, Run goes on unless the queue disc is empty or the tx
\* queue of the packet is stopped now (another tx queue may have room).
Transmit(p) ==
    \/ /\ IsStopped(p.txq)
       /\ Requeue(p)
       /\ UNCHANGED deviceVars
    \/ /\ ~ IsStopped(p.txq)
       /\ DeviceSend(p.txq, p)
       /\ Transmitted(m_nPackets' # 0 /\ ~ IsStopped(p.txq)')

RestartWith(p) ==
    /\ m_running
    /\ DequeuePacket(p)
    /\ Transmit(p)
    /\ UNCHANGED <<nReceived, nEnqueued, nDropBefore>>

\* The packet Restart considers first: the requeued one, or the head.
Candidates == IF m_requeued # <<>> THEN {Head(m_requeued)}
              ELSE IF queue # <<>> THEN {Head(queue)} ELSE {}

Restart == \E p \in Candidates : RestartWith(p)

RestartDrop ==
    /\ m_running
    /\ MayDequeue
    /\ DropAfterDequeue
    /\ UNCHANGED deviceVars

\* DequeuePacket returns no packet: Run ends.
RestartNothing ==
    /\ m_running
    /\ \A p \in Candidates :
           IF m_requeued # <<>> THEN ~ MayTakeRequeued(p) ELSE ~ MayDequeue
    /\ RunEnd(FALSE)
    /\ UNCHANGED <<queue, m_requeued, m_peeked, m_nPackets, statVars, header, deviceVars>>

RunStep == Restart \/ RestartDrop \/ RestartNothing

-----------------------------------------------------------------------------

Next ==
    \/ \E s \in Sizes, q \in TxQueues : Send(s, q)
    \/ PeekCall
    \/ RunStep
    \/ \E q \in TxQueues : WakeEvent(q) \/ TransmitCompleteEvent(q)

Spec == Init /\ [][Next]_vars

\* A handler runs to its end and the simulator executes every scheduled event
\* (the simulation is not stopped).  Nothing obliges the network layer to send.
Fairness ==
    /\ WF_vars(RunStep)
    /\ \A q \in TxQueues : WF_vars(WakeEvent(q)) /\ WF_vars(TransmitCompleteEvent(q))

FairSpec == Spec /\ Fairness

-----------------------------------------------------------------------------
(* Type invariant *)

\* Every variable has its type: the unsigned count of the packets stored never
\* goes below zero nor over the limit, and Run never overruns its quota.
TypeOK == QueueDiscTypeOK /\ NetDeviceTypeOK

-----------------------------------------------------------------------------
(* Properties *)

\* The identities of the statistics (queue-disc.h): received = dropped before
\* enqueue + enqueued, queued = enqueued - dequeued; and the packets the queue
\* disc says it stores are those of its internal queue and the peeked one, at
\* every moment of every handler.
StatsIdentities ==
    /\ nReceived = nDropBefore + nEnqueued
    /\ m_nPackets = nEnqueued - nDequeued
    /\ m_nPackets = Len(queue) + (IF m_peeked THEN 1 ELSE 0)

\* m_peeked qualifies m_requeued: it is never set without a retained packet.
PeekedIsRetained == m_peeked => m_requeued # <<>>

\* Packets handed to the device: they are on a wire, in a device queue, or were
\* discarded by a full device queue.  Each is known by its tx queue and a number.
HandedTo(q) == Len(wire[q]) + Len(devQueue[q]) + nDiscarded[q]

Handed == Cardinality(UNION {{q} \X (1 .. HandedTo(q)) : q \in TxQueues})

\* nTotalSentPackets of GetStats is the number of packets handed to the device
\* (sent = dequeued - dropped after dequeue - 1 if there is a requeued packet).
SentIsHandedToDevice == ~ m_running => GetStatsSent = Handed

\* No lost wake-up (NetDeviceQueue::Wake, NotifyTransmittedBytes): when no
\* handler executes and the queue disc holds packets, its wake is scheduled, or
\* some tx queue is stopped, transmitting and has packets, so that a dequeue
\* will wake the queue disc.  The one exception is the quota: a Run that uses it
\* up leaves packets behind and schedules nothing (the todo in QueueDisc::Run),
\* and they wait for the next Run.
WillWake(q) == IsStopped(q) /\ busy[q] /\ devQueue[q] # <<>>

NoLostWakeup ==
    ~ m_running /\ Candidates # {} /\ ~ quotaUsedUp =>
        \E q \in TxQueues : wakes[q] > 0 \/ WillWake(q)

\* With a single tx queue no packet is ever requeued by Transmit
\* (queue-discs.rst, "Requeue").
SingleQueueNeverRequeues == SingleQueue => nRequeued = 0

\* The packets of a tx queue reach the channel in the order in which they
\* arrived at the queue disc, through stops, wakes and requeues.
InOrder ==
    \A q \in TxQueues : \A i, j \in 1 .. Len(wire[q]) :
        i < j => wire[q][i].id < wire[q][j].id

\* A device queue that stops its tx queue when an MTU does not fit never has
\* to discard a packet (NetDeviceQueue::PacketDiscarded).
NeverDiscards == \A q \in TxQueues : nDiscarded[q] = 0

\* A stopped tx queue always has a packet in its queue, and a queue with
\* packets always has a busy transmitter: a stop never outlives its cause.
StoppedMeansBacklog ==
    \A q \in TxQueues :
        /\ IsStopped(q) => devQueue[q] # <<>>
        /\ devQueue[q] # <<>> => busy[q]

\* No packet goes on the wire, or waits for it, without the header that
\* DequeuePacket adds (AddHeader).
HeadersAdded ==
    \A q \in TxQueues : \A p \in Range(devQueue[q] \o wire[q]) : p.id \in header

\* The packets arrive as they were sent: in order, and with their headers.
ArrivesAsSent == InOrder /\ HeadersAdded

\* Once the network layer stops sending, the device queues drain for good, and
\* so does the queue disc unless the last Run broke off with its quota used up.
Drains ==
    <>[](/\ quotaUsedUp \/ (queue = <<>> /\ m_requeued = <<>>)
         /\ \A q \in TxQueues : devQueue[q] = <<>>)

=============================================================================
