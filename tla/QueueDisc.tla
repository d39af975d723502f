------------------------------ MODULE QueueDisc ------------------------------
(***************************************************************************)
(* The base class of every queue disc of the traffic control layer, used   *)
(* as the root queue disc of a device: class QueueDisc of                  *)
(* traffic-control/model/queue-disc.cc.  What a subclass contributes is    *)
(* abstracted to its choices: DoEnqueue admits a packet at the tail of one *)
(* internal queue or drops it, DoDequeue drops any number of packets from  *)
(* the head before it returns the next one.  With Aqm = FALSE this is      *)
(* FifoQueueDisc; with Aqm = TRUE it is any discipline with one internal   *)
(* queue that drops early or after dequeue (CoDel, PIE).                   *)
(*                                                                         *)
(* The operations are actions on the variables of the queue disc.  A       *)
(* simulation is single threaded, so QueueDisc::Run executes to its end    *)
(* before any other event; its loop is modelled one iteration per step     *)
(* between RunBegin and RunEnd, and m_running says that it executes.       *)
(***************************************************************************)
EXTENDS QueueItem, Integers, Sequences

CONSTANTS QdMax,   \* MaxSize of the queue disc, in packets
          Quota,   \* m_quota
          Aqm      \* the discipline drops packets below its limit

ASSUME QueueDiscAssumption ==
    /\ QdMax \in Nat \ {0}
    /\ Quota \in Nat \ {0}
    /\ Aqm \in BOOLEAN

VARIABLES
    queue,           \* the internal queue
    m_requeued,      \* the requeued or peeked item: <<>> is the null pointer
    m_peeked,        \* m_requeued was put there by a peek operation
    m_nPackets,      \* packets stored by the queue disc
    nReceived, nEnqueued, nDropBefore, nDequeued, nDropAfter, nRequeued,
    header,          \* ids of the items whose AddHeader was called
    m_running,       \* QueueDisc::Run executes
    quota,           \* the local variable of Run, 0 when Run does not execute
    quotaUsedUp      \* history: the last Run broke off with its quota used up

statVars  == <<nReceived, nEnqueued, nDropBefore, nDequeued, nDropAfter, nRequeued>>
runVars   == <<m_running, quota, quotaUsedUp>>
qdiscVars == <<queue, m_requeued, m_peeked, m_nPackets, statVars, header, runVars>>

QueueDiscInit ==
    /\ queue = <<>>
    /\ m_requeued = <<>>
    /\ m_peeked = FALSE
    /\ m_nPackets = 0
    /\ nReceived = 0 /\ nEnqueued = 0 /\ nDropBefore = 0
    /\ nDequeued = 0 /\ nDropAfter = 0 /\ nRequeued = 0
    /\ header = {}
    /\ m_running = FALSE
    /\ quota = 0
    /\ quotaUsedUp = FALSE

\* The type of every variable of the queue disc.
QueueDiscTypeOK ==
    /\ queue \in Seq(Packet)
    /\ m_requeued \in Seq(Packet) /\ Len(m_requeued) <= 1
    /\ m_peeked \in BOOLEAN
    /\ m_nPackets \in 0 .. QdMax
    /\ nReceived \in Nat /\ nEnqueued \in Nat /\ nDropBefore \in Nat
    /\ nDequeued \in Nat /\ nDropAfter \in Nat /\ nRequeued \in Nat
    /\ header \subseteq Nat
    /\ m_running \in BOOLEAN
    /\ quota \in 0 .. Quota
    /\ quotaUsedUp \in BOOLEAN

-----------------------------------------------------------------------------
(* Enqueueing *)

\* Mutant of Admit: the packet is inserted at the head of the internal queue.
AdmitAtHead(p) ==
    /\ m_nPackets + 1 <= QdMax
    /\ queue' = <<p>> \o queue
    /\ m_nPackets' = m_nPackets + 1
    /\ nEnqueued' = nEnqueued + 1
    /\ UNCHANGED nDropBefore

Admit(p) ==
    /\ m_nPackets + 1 <= QdMax
    /\ queue' = Append(queue, p)
    /\ m_nPackets' = m_nPackets + 1
    /\ nEnqueued' = nEnqueued + 1
    /\ UNCHANGED nDropBefore

DropBeforeEnqueue ==
    /\ m_nPackets + 1 > QdMax \/ Aqm
    /\ nDropBefore' = nDropBefore + 1
    /\ UNCHANGED <<queue, m_nPackets, nEnqueued>>

Enqueue(p) ==
    /\ nReceived' = nReceived + 1
    /\ Admit(p) \/ DropBeforeEnqueue
    /\ UNCHANGED <<m_requeued, m_peeked, nDequeued, nDropAfter, nRequeued, header>>

-----------------------------------------------------------------------------
(* Dequeueing *)

\* k packets leave the queue disc.  A packet that a peek operation takes from
\* the internal queue is not counted until it is really extracted.
PacketDequeued(k) ==
    /\ m_nPackets' = m_nPackets - k
    /\ nDequeued' = nDequeued + k

\* Mutant of Peek: m_peeked stays set when the discipline returns no packet.
PeekLeavesFlag ==
    \E k \in 0 .. Len(queue) :
        /\ Aqm
        /\ m_requeued = <<>>
        /\ queue # <<>>
        /\ m_requeued' = IF k < Len(queue) THEN <<queue[k + 1]>> ELSE <<>>
        /\ m_peeked' = TRUE
        /\ queue' = SubSeq(queue, k + 2, Len(queue))
        /\ PacketDequeued(k)
        /\ nDropAfter' = nDropAfter + k
        /\ UNCHANGED <<nReceived, nEnqueued, nDropBefore, nRequeued, header, runVars>>

\* Mutant of Peek: the peeked packet is counted as dequeued already.
PeekCountsDequeue ==
    \E k \in 0 .. Len(queue) :
        /\ Aqm
        /\ m_requeued = <<>>
        /\ queue # <<>>
        /\ m_requeued' = IF k < Len(queue) THEN <<queue[k + 1]>> ELSE <<>>
        /\ m_peeked' = (k < Len(queue))
        /\ queue' = SubSeq(queue, k + 2, Len(queue))
        /\ PacketDequeued(k + 1)
        /\ nDropAfter' = nDropAfter + k
        /\ UNCHANGED <<nReceived, nEnqueued, nDropBefore, nRequeued, header, runVars>>

\* QueueDisc::DoPeek: the discipline dequeues the next packet, after dropping
\* the first k, and the queue disc keeps it in m_requeued.  FifoQueueDisc has a
\* DoPeek of its own, which looks at the head and changes nothing.
Peek ==
    \E k \in 0 .. Len(queue) :
        /\ Aqm
        /\ m_requeued = <<>>
        /\ queue # <<>>
        /\ m_requeued' = IF k < Len(queue) THEN <<queue[k + 1]>> ELSE <<>>
        /\ m_peeked' = (k < Len(queue))
        /\ queue' = SubSeq(queue, k + 2, Len(queue))
        /\ PacketDequeued(k)
        /\ nDropAfter' = nDropAfter + k
        /\ UNCHANGED <<nReceived, nEnqueued, nDropBefore, nRequeued, header, runVars>>

\* DequeuePacket with a requeued packet at hand: no header is added to it.
TakeRequeued(p) ==
    /\ m_requeued = <<p>>
    /\ PacketDequeued(IF m_peeked THEN 1 ELSE 0)
    /\ m_peeked' = FALSE
    /\ UNCHANGED <<queue, nDropAfter, header>>

\* Mutant of TakeHead: AddHeader is forgotten.
TakeHeadBare(p) ==
    /\ m_requeued = <<>>
    /\ queue # <<>>
    /\ p = Head(queue)
    /\ queue' = Tail(queue)
    /\ PacketDequeued(1)
    /\ UNCHANGED <<m_peeked, nDropAfter, header>>

\* DequeuePacket with no requeued packet: the head of the internal queue.
TakeHead(p) ==
    /\ m_requeued = <<>>
    /\ queue # <<>>
    /\ p = Head(queue)
    /\ queue' = Tail(queue)
    /\ PacketDequeued(1)
    /\ header' = header \cup {p.id}
    /\ UNCHANGED <<m_peeked, nDropAfter>>

\* Mutant of DropAfterDequeue: the drop is not counted as a dequeue.
DropNotDequeued ==
    /\ Aqm
    /\ m_requeued = <<>>
    /\ queue # <<>>
    /\ queue' = Tail(queue)
    /\ PacketDequeued(0)
    /\ nDropAfter' = nDropAfter + 1
    /\ UNCHANGED <<m_requeued, m_peeked, nReceived, nEnqueued, nDropBefore, nRequeued,
                   header, runVars>>

\* An iteration of the loop in which DoDequeue drops the head packet.
DropAfterDequeue ==
    /\ Aqm
    /\ m_requeued = <<>>
    /\ queue # <<>>
    /\ queue' = Tail(queue)
    /\ PacketDequeued(1)
    /\ nDropAfter' = nDropAfter + 1
    /\ UNCHANGED <<m_requeued, m_peeked, nReceived, nEnqueued, nDropBefore, nRequeued,
                   header, runVars>>

-----------------------------------------------------------------------------
(* The loop of Run *)

RunBegin == m_running' = TRUE /\ quota' = Quota /\ quotaUsedUp' = FALSE

RunEnd(usedUp) == m_running' = FALSE /\ quota' = 0 /\ quotaUsedUp' = usedUp

\* Transmit finds the tx queue of p stopped: the packet is retained, Run ends.
Requeue(p) ==
    /\ m_requeued' = <<p>>
    /\ nRequeued' = nRequeued + 1
    /\ RunEnd(FALSE)

\* Transmit hands the packet to the device; Run goes on if Transmit asks for
\* more and the quota is not used up.
Transmitted(more) ==
    /\ m_requeued' = <<>>
    /\ IF more /\ quota # 1
       THEN quota' = quota - 1 /\ UNCHANGED <<m_running, quotaUsedUp>>
       ELSE RunEnd(more)
    /\ UNCHANGED nRequeued

\* Mutant of GetStatsSent: the requeued packet counts as sent.
GetStatsSentWithRequeued == nDequeued - nDropAfter

\* The value of nTotalSentPackets that GetStats computes.
GetStatsSent == nDequeued - Len(m_requeued) - nDropAfter

=============================================================================
