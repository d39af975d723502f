---------------------------- MODULE MCFlowControl ----------------------------
(***************************************************************************)
(* FlowControl with one transmission queue implements LossyFifo: the       *)
(* packets in flight are those of the device queue, the retained packet    *)
(* and those of the internal queue of the queue disc, in this order.       *)
(***************************************************************************)
EXTENDS FlowControl

TheQueue == CHOOSE q \in TxQueues : TRUE

BoundedItem == [id : 1 .. MaxPackets, size : Sizes, txq : TxQueues]

Fifo == INSTANCE LossyFifo WITH
            Item      <- BoundedItem,
            inFlight  <- devQueue[TheQueue] \o m_requeued \o queue,
            delivered <- wire[TheQueue]

\* The queue disc, its retained packet and the device queue together never
\* reorder, duplicate or invent a packet: whatever Send, Run, Peek, the wakes
\* and TransmitComplete do is a step of a lossy FIFO.
ImplementsLossyFifo == Fifo!Spec

=============================================================================
