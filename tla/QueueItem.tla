------------------------------ MODULE QueueItem ------------------------------
(***************************************************************************)
(* The items that queues, queue discs and devices exchange: class          *)
(* QueueDiscItem, which is a QueueItem with a transmission queue index.    *)
(***************************************************************************)
EXTENDS Naturals, FiniteSets

CONSTANTS TxQueues,   \* transmission queues of the device
          Sizes       \* sizes a packet may have

ASSUME QueueItemAssumption ==
    /\ IsFiniteSet(TxQueues)
    /\ Sizes \subseteq Nat \ {0}

\* An item: its arrival number, its size and its tx queue index.
Packet == [id : Nat \ {0}, size : Sizes, txq : TxQueues]

=============================================================================
