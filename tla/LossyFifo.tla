------------------------------ MODULE LossyFifo ------------------------------
(***************************************************************************)
(* What traffic control on top of a device with one transmission queue     *)
(* promises to the network layer: a FIFO that may lose packets, and        *)
(* nothing else.  Packets are delivered to the channel in the order in     *)
(* which they were accepted, each at most once.                            *)
(***************************************************************************)
EXTENDS Integers, Sequences

CONSTANT Item

VARIABLES inFlight,    \* accepted packets not yet on the channel, oldest first
          delivered    \* packets put on the channel, in order

Init == inFlight = <<>> /\ delivered = <<>>

\* A new packet is accepted behind the others.
Accept == /\ \E p \in Item : inFlight' = Append(inFlight, p)
          /\ UNCHANGED delivered

\* Consecutive packets, the i-th to the j-th, are lost.
Lose == /\ \E j \in 1 .. Len(inFlight) : \E i \in 1 .. j :
               inFlight' = SubSeq(inFlight, 1, i - 1)
                           \o SubSeq(inFlight, j + 1, Len(inFlight))
        /\ UNCHANGED delivered

\* The oldest packet is put on the channel.
Deliver == /\ inFlight # <<>>
           /\ inFlight' = Tail(inFlight)
           /\ delivered' = Append(delivered, Head(inFlight))

Next == Accept \/ Lose \/ Deliver

Spec == Init /\ [][Next]_<<inFlight, delivered>>

=============================================================================
