-------------------------- MODULE FlowControlProofs --------------------------
(***************************************************************************)
(* Proofs about FlowControl, for every value of its constants.             *)
(***************************************************************************)
EXTENDS MCFlowControl, SequenceTheorems, FiniteSetTheorems, TLAPS

-----------------------------------------------------------------------------
(* The bytes of a device queue *)

\* b is the size in bytes of the packets of qs: f[i] is that of the packets
\* from the i-th on.  No recursion is needed to say so.
BytesOf(qs, b) ==
    \E f \in [1 .. Len(qs) + 1 -> Nat] :
        /\ f[1] = b
        /\ f[Len(qs) + 1] = 0
        /\ \A i \in 1 .. Len(qs) : f[i] = WireSize(qs[i]) + f[i + 1]

LEMMA WireSizeType == ASSUME NEW p \in Packet PROVE WireSize(p) \in Nat
<1>1. p.size \in Sizes
  BY DEF Packet
<1>2. p.size \in Nat /\ HeaderSize \in Nat
  BY <1>1, QueueItemAssumption, NetDeviceAssumption
     DEF QueueItemAssumption, NetDeviceAssumption
<1> QED BY <1>2 DEF WireSize

\* An empty device queue holds no byte.
LEMMA BytesOfEmpty == \A b : BytesOf(<<>>, b) <=> b = 0
<1>1. ASSUME NEW b, BytesOf(<<>>, b) PROVE b = 0
  BY <1>1 DEF BytesOf
<1>2. BytesOf(<<>>, 0)
  <2> DEFINE f == [i \in 1 .. 1 |-> 0]
  <2>1. f \in [1 .. Len(<<>>) + 1 -> Nat] /\ f[1] = 0 /\ f[Len(<<>>) + 1] = 0
    OBVIOUS
  <2>2. \A i \in 1 .. Len(<<>>) : f[i] = WireSize(<<>>[i]) + f[i + 1]
    OBVIOUS
  <2> HIDE DEF f
  <2> QED BY <2>1, <2>2 DEF BytesOf
<1> QED BY <1>1, <1>2

LEMMA BytesOfNat == ASSUME NEW qs \in Seq(Packet), NEW b, BytesOf(qs, b) PROVE b \in Nat
BY DEF BytesOf

LEMMA BytesOfAppend ==
    ASSUME NEW qs \in Seq(Packet), NEW b, BytesOf(qs, b), NEW p \in Packet
    PROVE  BytesOf(Append(qs, p), b + WireSize(p))
<1>1. PICK f \in [1 .. Len(qs) + 1 -> Nat] :
          /\ f[1] = b
          /\ f[Len(qs) + 1] = 0
          /\ \A i \in 1 .. Len(qs) : f[i] = WireSize(qs[i]) + f[i + 1]
  BY DEF BytesOf
<1> DEFINE n == Len(qs)
           w == WireSize(p)
           g == [i \in 1 .. n + 2 |-> IF i = n + 2 THEN 0 ELSE f[i] + w]
<1>2. n \in Nat /\ w \in Nat /\ Len(Append(qs, p)) = n + 1
  BY WireSizeType
<1>3. g \in [1 .. Len(Append(qs, p)) + 1 -> Nat]
  BY <1>2
<1>4. g[1] = b + w /\ g[Len(Append(qs, p)) + 1] = 0
  BY <1>1, <1>2
<1>5. ASSUME NEW i \in 1 .. Len(Append(qs, p))
      PROVE  g[i] = WireSize(Append(qs, p)[i]) + g[i + 1]
  <2>1. CASE i = n + 1
    <3>1. Append(qs, p)[i] = p
      BY <2>1
    <3> QED BY <1>1, <1>2, <2>1, <3>1
  <2>2. CASE i \in 1 .. n
    <3>1. Append(qs, p)[i] = qs[i] /\ qs[i] \in Packet
      BY <2>2
    <3>2. WireSize(qs[i]) \in Nat
      BY <3>1, WireSizeType
    <3>3. f[i] = WireSize(qs[i]) + f[i + 1] /\ f[i + 1] \in Nat
      BY <1>1, <1>2, <2>2
    <3>4. g[i] = f[i] + w /\ g[i + 1] = f[i + 1] + w
      <4>1. i \in 1 .. n + 2 /\ i # n + 2 /\ i + 1 \in 1 .. n + 2 /\ i + 1 # n + 2
        BY <1>2, <2>2
      <4> QED BY <4>1
    <3> HIDE DEF g, w, n
    <3> QED BY <1>2, <3>1, <3>2, <3>3, <3>4
  <2> QED BY <1>2, <2>1, <2>2
<1> HIDE DEF g, n, w
<1> QED BY <1>3, <1>4, <1>5 DEF BytesOf, w

LEMMA BytesOfTail ==
    ASSUME NEW qs \in Seq(Packet), NEW b, BytesOf(qs, b), qs # <<>>
    PROVE  BytesOf(Tail(qs), b - WireSize(Head(qs)))
<1>1. PICK f \in [1 .. Len(qs) + 1 -> Nat] :
          /\ f[1] = b
          /\ f[Len(qs) + 1] = 0
          /\ \A i \in 1 .. Len(qs) : f[i] = WireSize(qs[i]) + f[i + 1]
  BY DEF BytesOf
<1> DEFINE n == Len(qs)
           g == [i \in 1 .. n |-> f[i + 1]]
<1>2. n \in Nat /\ n >= 1 /\ Len(Tail(qs)) = n - 1 /\ Head(qs) = qs[1] /\ qs[1] \in Packet
  OBVIOUS
<1>3. g \in [1 .. Len(Tail(qs)) + 1 -> Nat]
  BY <1>2
<1>4. g[1] = b - WireSize(Head(qs)) /\ g[Len(Tail(qs)) + 1] = 0
  <2>1. f[1] = WireSize(qs[1]) + f[2] /\ f[2] \in Nat /\ WireSize(qs[1]) \in Nat
    BY <1>1, <1>2, WireSizeType
  <2> QED BY <1>1, <1>2, <2>1
<1>5. ASSUME NEW i \in 1 .. Len(Tail(qs))
      PROVE  g[i] = WireSize(Tail(qs)[i]) + g[i + 1]
  <2>1. Tail(qs)[i] = qs[i + 1] /\ i + 1 \in 1 .. n /\ i \in 1 .. n
    BY <1>2
  <2>2. f[i + 1] = WireSize(qs[i + 1]) + f[(i + 1) + 1]
    BY <1>1, <2>1
  <2> QED BY <2>1, <2>2
<1> HIDE DEF g, n
<1> QED BY <1>3, <1>4, <1>5 DEF BytesOf

-----------------------------------------------------------------------------
(* The device *)

\* A stop never outlives its cause, because the bytes are those of the packets.
DeviceInv ==
    /\ NetDeviceTypeOK
    /\ StoppedMeansBacklog
    /\ \A q \in TxQueues : BytesOf(devQueue[q], devBytes[q])

LEMMA DeviceInvInit == NetDeviceInit => DeviceInv
<1> SUFFICES ASSUME NetDeviceInit PROVE DeviceInv
  OBVIOUS
<1>1. NetDeviceTypeOK
  BY DEF NetDeviceInit, NetDeviceTypeOK
<1>2. StoppedMeansBacklog
  BY DEF NetDeviceInit, StoppedMeansBacklog, IsStopped
<1>3. \A q \in TxQueues : BytesOf(devQueue[q], devBytes[q])
  BY BytesOfEmpty DEF NetDeviceInit
<1> QED BY <1>1, <1>2, <1>3 DEF DeviceInv

LEMMA FitsType == ASSUME NEW n, NEW b, NEW s PROVE Fits(n, b, s) \in BOOLEAN
<1>1. CASE DevMode = "packets"
  BY <1>1 DEF Fits
<1>2. CASE DevMode # "packets"
  BY <1>2 DEF Fits
<1> QED BY <1>1, <1>2

\* A packet always fits in an empty device queue.
LEMMA EmptyFits ==
    ASSUME NEW p \in Packet
    PROVE  Fits(0, 0, Mtu) /\ Fits(0, 0, WireSize(p))
<1>1. p.size \in Sizes
  BY DEF Packet
<1>2. p.size \in Nat /\ p.size <= Mtu
  BY <1>1, QueueItemAssumption, FlowControlAssumption
     DEF QueueItemAssumption, FlowControlAssumption
<1> QED BY <1>2, NetDeviceAssumption DEF NetDeviceAssumption, Fits, WireSize

\* The step that takes a packet off queue q keeps the invariant, provided the
\* queue it starts from has it; and a tx queue that it opens is woken.
LEMMA StartTransmissionInv ==
    ASSUME DeviceInv,
           NEW q \in TxQueues, NEW qs \in Seq(Packet), qs # <<>>,
           NEW b \in Int, BytesOf(qs, b),
           NEW dev \in BOOLEAN, NEW lim \in BOOLEAN,
           StartTransmission(q, qs, b, dev, lim)
    PROVE  /\ DeviceInv'
           /\ (dev \/ lim) /\ ~ IsStopped(q)' => wakes'[q] > 0
           /\ \A r \in TxQueues : wakes'[r] >= wakes[r]
           /\ \A r \in TxQueues \ {q} : UNCHANGED <<devQueue[r], busy[r], IsStopped(r)>>
<1> DEFINE p    == Head(qs)
           left == b - WireSize(p)
           room == Fits(Len(Tail(qs)), left, Mtu)
<1>1. p \in Packet /\ Tail(qs) \in Seq(Packet) /\ WireSize(p) \in Nat
  BY WireSizeType
<1>2. BytesOf(Tail(qs), left)
  BY BytesOfTail
<1>3. Tail(qs) = <<>> => room
  BY <1>1, <1>2, BytesOfEmpty, EmptyFits
<1>4. PICK available \in {TRUE, Tail(qs) = <<>>} :
          /\ m_stoppedByQueueLimits' =
                 [m_stoppedByQueueLimits EXCEPT ![q] = lim /\ ~ available]
          /\ m_stoppedByDevice' = [m_stoppedByDevice EXCEPT ![q] = dev /\ ~ room]
          /\ wakes' = [wakes EXCEPT ![q] =
                 @ + (IF lim /\ available THEN 1 ELSE 0) + (IF dev /\ room THEN 1 ELSE 0)]
  BY DEF StartTransmission
<1>5. available \in BOOLEAN /\ (Tail(qs) = <<>> => available) /\ room \in BOOLEAN
  <2>1. available = TRUE \/ available = (Tail(qs) = <<>>)
    BY <1>4
  <2>2. available \in BOOLEAN /\ (Tail(qs) = <<>> => available)
    BY <2>1, Zenon
  <2>3. room \in BOOLEAN
    BY FitsType
  <2> QED BY <2>2, <2>3
<1>6. /\ devQueue' = [devQueue EXCEPT ![q] = Tail(qs)]
      /\ devBytes' = [devBytes EXCEPT ![q] = left]
      /\ busy' = [busy EXCEPT ![q] = TRUE]
      /\ wire' = [wire EXCEPT ![q] = Append(@, p)]
      /\ UNCHANGED nDiscarded
  BY DEF StartTransmission
<1>7. left \in Int
  BY <1>1
<1> HIDE DEF p, left, room
<1>7a. (lim /\ ~ available) \in BOOLEAN /\ (dev /\ ~ room) \in BOOLEAN
  BY <1>5
<1>7b. (IF lim /\ available THEN 1 ELSE 0) \in Nat /\ (IF dev /\ room THEN 1 ELSE 0) \in Nat
  OBVIOUS
<1>8. NetDeviceTypeOK'
  <2> USE DEF DeviceInv, NetDeviceTypeOK
  <2>1. (devQueue \in [TxQueues -> Seq(Packet)])'
    BY <1>1, <1>6
  <2>2. (devBytes \in [TxQueues -> Int])'
    BY <1>6, <1>7
  <2>3. (m_stoppedByDevice \in [TxQueues -> BOOLEAN])'
    BY <1>4, <1>7a
  <2>4. (m_stoppedByQueueLimits \in [TxQueues -> BOOLEAN])'
    BY <1>4, <1>7a
  <2>5. (busy \in [TxQueues -> BOOLEAN])'
    BY <1>6
  <2>6. (wakes \in [TxQueues -> Nat])'
    BY <1>4, <1>7b
  <2>7. (wire \in [TxQueues -> Seq(Packet)])'
    BY <1>1, <1>6
  <2> QED BY <1>6, <2>1, <2>2, <2>3, <2>4, <2>5, <2>6, <2>7
<1>9. StoppedMeansBacklog'
  BY <1>3, <1>4, <1>5, <1>6 DEF DeviceInv, NetDeviceTypeOK, StoppedMeansBacklog, IsStopped
<1>10. (\A r \in TxQueues : BytesOf(devQueue[r], devBytes[r]))'
  BY <1>2, <1>6 DEF DeviceInv, NetDeviceTypeOK
<1>11. (dev \/ lim) /\ ~ IsStopped(q)' => wakes'[q] > 0
  BY <1>4, <1>5 DEF DeviceInv, NetDeviceTypeOK, IsStopped
<1>12. \A r \in TxQueues : wakes'[r] >= wakes[r]
  BY <1>4, <1>5 DEF DeviceInv, NetDeviceTypeOK
<1>13. \A r \in TxQueues \ {q} : UNCHANGED <<devQueue[r], busy[r], IsStopped(r)>>
  BY <1>4, <1>6 DEF DeviceInv, NetDeviceTypeOK, IsStopped
<1> QED BY <1>8, <1>9, <1>10, <1>11, <1>12, <1>13 DEF DeviceInv

LEMMA DeviceSendInv ==
    ASSUME DeviceInv, NEW q \in TxQueues, NEW p \in Packet, DeviceSend(q, p)
    PROVE  DeviceInv'
<1> DEFINE qs == devQueue[q]
           b  == devBytes[q]
<1>1. qs \in Seq(Packet) /\ b \in Int /\ BytesOf(qs, b) /\ WireSize(p) \in Nat
  BY WireSizeType DEF DeviceInv, NetDeviceTypeOK
<1>2. Append(qs, p) \in Seq(Packet) /\ Append(qs, p) # <<>> /\ b + WireSize(p) \in Int
  BY <1>1
<1>3. BytesOf(Append(qs, p), b + WireSize(p))
  BY <1>1, BytesOfAppend
<1>4. CASE Discard(q, p)
  <2>1. qs # <<>>
    <3>1. SUFFICES ASSUME qs = <<>> PROVE FALSE
      OBVIOUS
    <3>2. Len(qs) = 0 /\ b = 0
      BY <1>1, <3>1, BytesOfEmpty
    <3>3. ~ Fits(Len(qs), b, WireSize(p))
      BY <1>4 DEF Discard
    <3> HIDE DEF qs, b
    <3> QED BY <3>2, <3>3, EmptyFits
  <2>2. NetDeviceTypeOK'
    BY <1>4 DEF Discard, DeviceInv, NetDeviceTypeOK
  <2>3. StoppedMeansBacklog'
    BY <1>4, <2>1 DEF Discard, DeviceInv, NetDeviceTypeOK, StoppedMeansBacklog, IsStopped
  <2>4. (\A r \in TxQueues : BytesOf(devQueue[r], devBytes[r]))'
    BY <1>4 DEF Discard, DeviceInv
  <2> QED BY <2>2, <2>3, <2>4 DEF DeviceInv
<1>5. CASE SendBusy(q, p)
  <2>1. PICK over \in {FALSE, QueueLimits} :
            m_stoppedByQueueLimits' = [m_stoppedByQueueLimits EXCEPT ![q] = @ \/ over]
    BY <1>5 DEF SendBusy
  <2>2. over \in BOOLEAN
    BY <2>1, NetDeviceAssumption DEF NetDeviceAssumption
  <2>3. /\ devQueue' = [devQueue EXCEPT ![q] = Append(qs, p)]
        /\ devBytes' = [devBytes EXCEPT ![q] = b + WireSize(p)]
        /\ m_stoppedByDevice' = [m_stoppedByDevice EXCEPT ![q] =
               @ \/ ~ Fits(Len(devQueue'[q]), devBytes'[q], Mtu)]
        /\ busy[q]
        /\ UNCHANGED <<busy, wakes, nDiscarded, wire>>
    BY <1>5 DEF SendBusy
  <2> HIDE DEF qs, b
  <2>4. NetDeviceTypeOK'
    BY <1>2, <2>1, <2>2, <2>3, FitsType DEF DeviceInv, NetDeviceTypeOK
  <2>5. StoppedMeansBacklog'
    BY <1>2, <2>1, <2>3 DEF DeviceInv, NetDeviceTypeOK, StoppedMeansBacklog, IsStopped
  <2>6. (\A r \in TxQueues : BytesOf(devQueue[r], devBytes[r]))'
    BY <1>3, <2>3 DEF DeviceInv, NetDeviceTypeOK
  <2> QED BY <2>4, <2>5, <2>6 DEF DeviceInv
<1>6. CASE SendReady(q, p)
  <2>1. PICK over \in {FALSE, QueueLimits} :
            StartTransmission(q, Append(qs, p), b + WireSize(p),
                m_stoppedByDevice[q] \/ ~ Fits(Len(Append(qs, p)), b + WireSize(p), Mtu),
                m_stoppedByQueueLimits[q] \/ over)
    BY <1>6 DEF SendReady
  <2>2. over \in BOOLEAN
    BY <2>1, NetDeviceAssumption DEF NetDeviceAssumption
  <2>3. m_stoppedByDevice[q] \in BOOLEAN /\ m_stoppedByQueueLimits[q] \in BOOLEAN
    BY DEF DeviceInv, NetDeviceTypeOK
  <2> HIDE DEF qs, b
  <2> QED BY <1>2, <1>3, <2>1, <2>2, <2>3, FitsType, StartTransmissionInv
<1> QED BY <1>4, <1>5, <1>6 DEF DeviceSend

\* TransmitComplete opens no tx queue without waking the queue disc.
LEMMA TransmitCompleteInv ==
    ASSUME DeviceInv, NEW q \in TxQueues, TransmitComplete(q)
    PROVE  /\ DeviceInv'
           /\ IsStopped(q) /\ ~ IsStopped(q)' => wakes'[q] > 0
           /\ \A r \in TxQueues : wakes'[r] >= wakes[r]
           /\ \A r \in TxQueues \ {q} : UNCHANGED <<devQueue[r], busy[r], IsStopped(r)>>
<1>1. CASE devQueue[q] = <<>>
  <2>1. /\ busy' = [busy EXCEPT ![q] = FALSE]
        /\ UNCHANGED <<devQueue, devBytes, m_stoppedByDevice, m_stoppedByQueueLimits,
                       wakes, nDiscarded, wire>>
    BY <1>1 DEF TransmitComplete
  <2>2. NetDeviceTypeOK'
    BY <2>1 DEF DeviceInv, NetDeviceTypeOK
  <2>3. StoppedMeansBacklog'
    BY <1>1, <2>1 DEF DeviceInv, NetDeviceTypeOK, StoppedMeansBacklog, IsStopped
  <2>4. (\A r \in TxQueues : BytesOf(devQueue[r], devBytes[r]))'
    BY <2>1 DEF DeviceInv
  <2> QED BY <2>1, <2>2, <2>3, <2>4 DEF DeviceInv, NetDeviceTypeOK, IsStopped
<1>2. CASE devQueue[q] # <<>>
  <2>1. StartTransmission(q, devQueue[q], devBytes[q],
                          m_stoppedByDevice[q], m_stoppedByQueueLimits[q])
    BY <1>2 DEF TransmitComplete
  <2>2. /\ devQueue[q] \in Seq(Packet) /\ devBytes[q] \in Int
        /\ m_stoppedByDevice[q] \in BOOLEAN /\ m_stoppedByQueueLimits[q] \in BOOLEAN
        /\ BytesOf(devQueue[q], devBytes[q])
    BY DEF DeviceInv, NetDeviceTypeOK
  <2>3. IsStopped(q) => m_stoppedByDevice[q] \/ m_stoppedByQueueLimits[q]
    BY DEF IsStopped
  <2> QED BY <1>2, <2>1, <2>2, <2>3, StartTransmissionInv
<1> QED BY <1>1, <1>2

LEMMA WakeFiresInv ==
    ASSUME DeviceInv, NEW q \in TxQueues, WakeFires(q)
    PROVE  DeviceInv'
<1>1. NetDeviceTypeOK'
  BY DEF WakeFires, DeviceInv, NetDeviceTypeOK
<1>2. StoppedMeansBacklog'
  BY DEF WakeFires, DeviceInv, StoppedMeansBacklog, IsStopped
<1>3. (\A r \in TxQueues : BytesOf(devQueue[r], devBytes[r]))'
  BY DEF WakeFires, DeviceInv
<1> QED BY <1>1, <1>2, <1>3 DEF DeviceInv

-----------------------------------------------------------------------------
(* The queue disc *)

LEMMA SumDifference == \A x, y, z \in Int : x + y = z => x = z - y
OBVIOUS

\* Types, the identities of the statistics and the retained packet depend on
\* each other: m_nPackets stays a natural number because of the identities.
QueueDiscInv ==
    /\ QueueDiscTypeOK
    /\ StatsIdentities
    /\ PeekedIsRetained
    /\ m_running => quota >= 1

LEMMA QueueDiscInvInit == QueueDiscInit => QueueDiscInv
<1> SUFFICES ASSUME QueueDiscInit PROVE QueueDiscInv
  OBVIOUS
<1>1. QueueDiscTypeOK
  <2>1. 0 \in 0 .. QdMax /\ 0 \in 0 .. Quota
    BY QueueDiscAssumption DEF QueueDiscAssumption
  <2>2. <<>> \in Seq(Packet) /\ Len(<<>>) <= 1
    OBVIOUS
  <2> QED BY <2>1, <2>2 DEF QueueDiscInit, QueueDiscTypeOK
<1> QED BY <1>1 DEF QueueDiscInit, QueueDiscInv, StatsIdentities, PeekedIsRetained

LEMMA EnqueueInv ==
    ASSUME QueueDiscInv, NEW p \in Packet, Enqueue(p), RunBegin
    PROVE  /\ QueueDiscInv'
           /\ m_running' /\ quota' = Quota
           /\ UNCHANGED <<m_requeued, nRequeued>>
<1>1. /\ m_running' = TRUE /\ quota' = Quota /\ quotaUsedUp' = FALSE
      /\ Quota \in Nat /\ Quota >= 1
      /\ QdMax \in Nat
  BY QueueDiscAssumption DEF RunBegin, QueueDiscAssumption
<1>0. quotaUsedUp' \in BOOLEAN
  BY <1>1, Zenon
<1>2. UNCHANGED <<m_requeued, m_peeked, nDequeued, nDropAfter, nRequeued, header>>
  BY DEF Enqueue
<1>3. /\ nReceived' = nReceived + 1
      /\ queue \in Seq(Packet) /\ m_nPackets \in 0 .. QdMax
      /\ nReceived \in Nat /\ nEnqueued \in Nat /\ nDropBefore \in Nat /\ nDequeued \in Nat
  BY DEF Enqueue, QueueDiscInv, QueueDiscTypeOK
<1>4. /\ nReceived = nDropBefore + nEnqueued
      /\ m_nPackets = nEnqueued - nDequeued
      /\ m_nPackets = Len(queue) + (IF m_peeked THEN 1 ELSE 0)
  BY DEF QueueDiscInv, StatsIdentities
<1>5. CASE Admit(p)
  <2>1. /\ queue' = Append(queue, p)
        /\ m_nPackets + 1 <= QdMax
        /\ m_nPackets' = m_nPackets + 1
        /\ nEnqueued' = nEnqueued + 1
        /\ nDropBefore' = nDropBefore
    BY <1>5 DEF Admit
  <2>2. queue' \in Seq(Packet) /\ Len(queue') = Len(queue) + 1 /\ Len(queue) \in Nat
    BY <1>3, <2>1
  <2>3. m_nPackets' \in 0 .. QdMax /\ nReceived' \in Nat /\ nEnqueued' \in Nat
    BY <1>1, <1>3, <2>1
  <2>4. QueueDiscTypeOK'
    BY <1>0, <1>1, <1>2, <2>1, <2>2, <2>3 DEF QueueDiscInv, QueueDiscTypeOK
  <2>5. nReceived' = nDropBefore' + nEnqueued'
    BY <1>3, <1>4, <2>1
  <2>6. m_nPackets' = nEnqueued' - nDequeued'
    BY <1>2, <1>3, <1>4, <2>1
  <2>7. m_nPackets' = Len(queue') + (IF m_peeked' THEN 1 ELSE 0)
    BY <1>2, <1>4, <2>1, <2>2
  <2>8. StatsIdentities'
    BY <2>5, <2>6, <2>7 DEF StatsIdentities
  <2> QED BY <1>1, <1>2, <2>4, <2>8 DEF QueueDiscInv, PeekedIsRetained
<1>6. CASE DropBeforeEnqueue
  <2>1. /\ nDropBefore' = nDropBefore + 1
        /\ UNCHANGED <<queue, m_nPackets, nEnqueued>>
    BY <1>6 DEF DropBeforeEnqueue
  <2>2. nReceived' \in Nat /\ nDropBefore' \in Nat
    BY <1>3, <2>1
  <2>3. QueueDiscTypeOK'
    BY <1>0, <1>1, <1>2, <2>1, <2>2 DEF QueueDiscInv, QueueDiscTypeOK
  <2>4. nReceived' = nDropBefore' + nEnqueued'
    BY <1>3, <1>4, <2>1
  <2>5. StatsIdentities'
    BY <1>2, <1>4, <2>1, <2>4 DEF StatsIdentities
  <2> QED BY <1>1, <1>2, <2>3, <2>5 DEF QueueDiscInv, PeekedIsRetained
<1> QED BY <1>5, <1>6, <1>1, <1>2 DEF Enqueue

LEMMA PeekInv ==
    ASSUME QueueDiscInv, Peek
    PROVE  /\ QueueDiscInv'
           /\ m_requeued = <<>> /\ queue # <<>>
           /\ Len(queue') + Len(m_requeued') <= Len(queue)
           /\ UNCHANGED <<m_running, quota, quotaUsedUp, nRequeued>>
<1>1. PICK k \in 0 .. Len(queue) :
          /\ m_requeued = <<>>
          /\ queue # <<>>
          /\ m_requeued' = IF k < Len(queue) THEN <<queue[k + 1]>> ELSE <<>>
          /\ m_peeked' = (k < Len(queue))
          /\ queue' = SubSeq(queue, k + 2, Len(queue))
          /\ m_nPackets' = m_nPackets - k
          /\ nDequeued' = nDequeued + k
          /\ nDropAfter' = nDropAfter + k
          /\ UNCHANGED <<nReceived, nEnqueued, nDropBefore, nRequeued, header, runVars>>
  BY DEF Peek, PacketDequeued
<1> DEFINE n == Len(queue)
<1>2. queue \in Seq(Packet) /\ n \in Nat /\ n >= 1
  BY <1>1 DEF QueueDiscInv, QueueDiscTypeOK
<1>3. k \in 0 .. n
  BY <1>2, QueueDiscAssumption DEF QueueDiscAssumption
<1>4. \A i \in k + 2 .. n : queue[i] \in Packet
  BY <1>2, <1>3
<1>5. /\ queue' \in Seq(Packet)
      /\ Len(queue') = IF k + 2 <= n THEN n - (k + 2) + 1 ELSE 0
  <2>1. k + 2 \in Int /\ n \in Int
    BY <1>2, <1>3
  <2>2. queue' = SubSeq(queue, k + 2, n)
    BY <1>1
  <2> HIDE DEF n
  <2> QED BY <1>4, <2>1, <2>2, SubSeqProperties
<1>6. /\ k < n => m_requeued' \in Seq(Packet) /\ Len(m_requeued') = 1
      /\ ~ (k < n) => m_requeued' \in Seq(Packet) /\ Len(m_requeued') = 0
  <2>1. CASE k < n
    <3>1. m_requeued' = <<queue[k + 1]>> /\ queue[k + 1] \in Packet
      BY <1>1, <1>2, <1>3, <2>1
    <3> QED BY <1>2, <1>3, <2>1, <3>1
  <2>2. CASE ~ (k < n)
    <3>1. m_requeued' = <<>>
      BY <1>1, <2>2
    <3> QED BY <2>2, <3>1
  <2> QED BY <2>1, <2>2
<1>7. m_nPackets = n
  BY <1>1, <1>2 DEF QueueDiscInv, StatsIdentities, PeekedIsRetained
<1>8. UNCHANGED <<nReceived, nEnqueued, nDropBefore, nRequeued, header, m_running, quota,
                  quotaUsedUp>>
  BY <1>1 DEF runVars
<1>8a. /\ m_nPackets' = m_nPackets - k
       /\ nDequeued' = nDequeued + k
       /\ nDropAfter' = nDropAfter + k
       /\ m_peeked' = (k < n)
       /\ k \in Nat /\ k <= n /\ n \in Nat
  BY <1>1, <1>2, <1>3
<1>8b. k < n \/ k = n
  BY <1>8a
<1>8c. k < n => m_peeked' = TRUE
  BY <1>8a
<1>8d. k = n => ~ m_peeked'
  <2>1. k = n => ~ (k < n)
    BY <1>8a
  <2>2. CASE k < n
    BY <2>1, <2>2
  <2>3. CASE ~ (k < n)
    BY <1>8a, <2>3
  <2> QED BY <2>2, <2>3
<1>8e. Len(queue') = IF k < n THEN n - k - 1 ELSE 0
  BY <1>5, <1>8a
<1> HIDE DEF n
<1>9. QueueDiscTypeOK'
  <2>1. m_requeued' \in Seq(Packet) /\ Len(m_requeued') <= 1
    <3>1. CASE k < n
      <4>1. m_requeued' \in Seq(Packet) /\ Len(m_requeued') = 1
        BY <1>6, <3>1
      <4> QED BY <4>1
    <3>2. CASE ~ (k < n)
      <4>1. m_requeued' \in Seq(Packet) /\ Len(m_requeued') = 0
        BY <1>6, <3>2
      <4> QED BY <4>1
    <3> QED BY <3>1, <3>2
  <2>2. m_nPackets' \in 0 .. QdMax /\ nDequeued' \in Nat /\ nDropAfter' \in Nat
    BY <1>7, <1>8a, QueueDiscAssumption
       DEF QueueDiscInv, QueueDiscTypeOK, QueueDiscAssumption
  <2>3. m_peeked' \in BOOLEAN
    BY <1>8a
  <2> QED BY <1>5, <1>8, <2>1, <2>2, <2>3 DEF QueueDiscInv, QueueDiscTypeOK
<1>10. StatsIdentities'
  <2>1. nReceived' = nDropBefore' + nEnqueued' /\ m_nPackets' = nEnqueued' - nDequeued'
    BY <1>8, <1>8a DEF QueueDiscInv, QueueDiscTypeOK, StatsIdentities
  <2>2. m_nPackets' = Len(queue') + (IF m_peeked' THEN 1 ELSE 0)
    <3>1. CASE k < n
      BY <1>7, <1>8a, <1>8c, <1>8e, <3>1
    <3>2. CASE k = n
      BY <1>7, <1>8a, <1>8d, <1>8e, <3>2
    <3> QED BY <1>8b, <3>1, <3>2
  <2> QED BY <2>1, <2>2 DEF StatsIdentities
<1>11. PeekedIsRetained'
  <2>1. CASE k < n
    <3>1. Len(m_requeued') = 1
      BY <1>6, <2>1
    <3> QED BY <3>1 DEF PeekedIsRetained
  <2>2. CASE k = n
    BY <1>8d, <2>2 DEF PeekedIsRetained
  <2> QED BY <1>8b, <2>1, <2>2
<1>12. Len(queue') + Len(m_requeued') <= n
  <2>1. CASE k < n
    <3>1. Len(m_requeued') = 1 /\ Len(queue') = n - k - 1
      BY <1>6, <1>8e, <2>1
    <3> QED BY <1>8a, <3>1
  <2>2. CASE ~ (k < n)
    <3>1. Len(m_requeued') = 0 /\ Len(queue') = 0
      BY <1>6, <1>8e, <2>2
    <3> QED BY <1>8a, <3>1
  <2> QED BY <2>1, <2>2
<1> QED BY <1>1, <1>8, <1>9, <1>10, <1>11, <1>12 DEF QueueDiscInv, n

-----------------------------------------------------------------------------
(* The loop of Run *)

\* What DequeuePacket leaves: nothing peeked, one packet less.
LEMMA DequeuePacketFacts ==
    ASSUME QueueDiscInv, NEW p, DequeuePacket(p)
    PROVE  /\ p \in Packet
           /\ queue' \in Seq(Packet)
           /\ ~ m_peeked' /\ m_peeked' \in BOOLEAN
           /\ m_nPackets' = Len(queue')
           /\ m_nPackets' \in 0 .. QdMax
           /\ nDequeued' \in Nat
           /\ m_nPackets' + nDequeued' = m_nPackets + nDequeued
           /\ header' \subseteq Nat
           /\ UNCHANGED nDropAfter
           /\ Len(queue') + 1 = Len(queue) + Len(m_requeued)
<1>1. CASE MayTakeRequeued(p) /\ TakeRequeued(p)
  <2>1. /\ m_requeued = <<p>>
        /\ m_nPackets' = m_nPackets - (IF m_peeked THEN 1 ELSE 0)
        /\ nDequeued' = nDequeued + (IF m_peeked THEN 1 ELSE 0)
        /\ m_peeked' = FALSE
        /\ UNCHANGED <<queue, nDropAfter, header>>
    BY <1>1 DEF TakeRequeued, PacketDequeued
  <2>2. p \in Packet
    <3>1. <<p>> \in Seq(Packet)
      BY <2>1 DEF QueueDiscInv, QueueDiscTypeOK
    <3>2. Len(<<p>>) = 1 /\ <<p>>[1] = p
      OBVIOUS
    <3> QED BY <3>1, <3>2, ElementOfSeq
  <2>3. Len(m_requeued) = 1
    BY <2>1
  <2>4. m_nPackets \in 0 .. QdMax /\ nDequeued \in Nat /\ Len(queue) \in Nat /\ QdMax \in Nat
    BY QueueDiscAssumption DEF QueueDiscInv, QueueDiscTypeOK, QueueDiscAssumption
  <2>5. m_nPackets = Len(queue) + (IF m_peeked THEN 1 ELSE 0)
    BY DEF QueueDiscInv, StatsIdentities
  <2>6. /\ m_nPackets' = Len(queue')
        /\ m_nPackets' \in 0 .. QdMax
        /\ nDequeued' \in Nat
        /\ m_nPackets' + nDequeued' = m_nPackets + nDequeued
    <3>1. CASE m_peeked
      BY <2>1, <2>4, <2>5, <3>1
    <3>2. CASE ~ m_peeked
      BY <2>1, <2>4, <2>5, <3>2
    <3> QED BY <3>1, <3>2
  <2>7. queue' \in Seq(Packet) /\ header' \subseteq Nat
    BY <2>1 DEF QueueDiscInv, QueueDiscTypeOK
  <2>8. Len(queue') + 1 = Len(queue) + Len(m_requeued)
    BY <2>1, <2>3, <2>4
  <2> QED BY <2>1, <2>2, <2>6, <2>7, <2>8
<1>2. CASE MayDequeue /\ TakeHead(p)
  <2>1. /\ m_requeued = <<>> /\ queue # <<>>
        /\ p = Head(queue)
        /\ queue' = Tail(queue)
        /\ m_nPackets' = m_nPackets - 1
        /\ nDequeued' = nDequeued + 1
        /\ header' = header \cup {p.id}
        /\ UNCHANGED <<m_peeked, nDropAfter>>
    BY <1>2 DEF TakeHead, PacketDequeued
  <2>2. queue \in Seq(Packet) /\ header \subseteq Nat
    BY DEF QueueDiscInv, QueueDiscTypeOK
  <2>3. /\ p \in Packet
        /\ queue' \in Seq(Packet)
        /\ Len(queue) \in Nat /\ Len(queue) >= 1 /\ Len(queue') = Len(queue) - 1
    BY <2>1, <2>2
  <2>4. p.id \in Nat
    BY <2>3 DEF Packet
  <2>5. ~ m_peeked /\ m_peeked \in BOOLEAN
    BY <2>1 DEF QueueDiscInv, QueueDiscTypeOK, PeekedIsRetained
  <2>6. m_nPackets = Len(queue)
    BY <2>3, <2>5 DEF QueueDiscInv, StatsIdentities
  <2>7. m_nPackets \in 0 .. QdMax /\ nDequeued \in Nat /\ QdMax \in Nat
    BY QueueDiscAssumption DEF QueueDiscInv, QueueDiscTypeOK, QueueDiscAssumption
  <2>8. Len(m_requeued) = 0
    BY <2>1
  <2>9. /\ m_nPackets' = Len(queue')
        /\ m_nPackets' \in 0 .. QdMax
        /\ nDequeued' \in Nat
        /\ m_nPackets' + nDequeued' = m_nPackets + nDequeued
        /\ Len(queue') + 1 = Len(queue) + Len(m_requeued)
    BY <2>1, <2>3, <2>6, <2>7, <2>8
  <2> QED BY <2>1, <2>2, <2>3, <2>4, <2>5, <2>9
<1> QED BY <1>1, <1>2 DEF DequeuePacket

\* The invariant holds again once Transmit is through, whatever it does with
\* the packet.
LEMMA RestartWithQueueDisc ==
    ASSUME QueueDiscInv, NEW p, RestartWith(p),
           m_requeued' \in Seq(Packet), Len(m_requeued') <= 1,
           nRequeued' \in Nat, m_running' \in BOOLEAN, quota' \in 0 .. Quota,
           quotaUsedUp' \in BOOLEAN, m_running' => quota' >= 1
    PROVE  QueueDiscInv'
<1>1. /\ queue' \in Seq(Packet)
      /\ ~ m_peeked' /\ m_peeked' \in BOOLEAN
      /\ m_nPackets' = Len(queue')
      /\ m_nPackets' \in 0 .. QdMax
      /\ nDequeued' \in Nat
      /\ m_nPackets' + nDequeued' = m_nPackets + nDequeued
      /\ header' \subseteq Nat
      /\ UNCHANGED nDropAfter
  BY DequeuePacketFacts DEF RestartWith
<1>2. UNCHANGED <<nReceived, nEnqueued, nDropBefore>>
  BY DEF RestartWith
<1>3. QueueDiscTypeOK'
  BY <1>1, <1>2 DEF QueueDiscInv, QueueDiscTypeOK
<1>4. StatsIdentities'
  <2>1. /\ m_nPackets = nEnqueued - nDequeued
        /\ nEnqueued \in Nat /\ nDequeued \in Nat /\ nDequeued' \in Nat
        /\ m_nPackets \in Int /\ m_nPackets' \in Int
    BY <1>1 DEF QueueDiscInv, QueueDiscTypeOK, StatsIdentities
  <2>2. nReceived' = nDropBefore' + nEnqueued'
    BY <1>2 DEF QueueDiscInv, StatsIdentities
  <2>3. m_nPackets' = nEnqueued' - nDequeued'
    <3>1. m_nPackets' + nDequeued' = m_nPackets + nDequeued
      BY <1>1
    <3>2. nEnqueued' = nEnqueued
      BY <1>2
    <3>3. /\ nEnqueued' \in Int /\ nDequeued' \in Int /\ m_nPackets' \in Int
          /\ nEnqueued \in Int /\ nDequeued \in Int /\ m_nPackets \in Int
      BY <2>1, <3>2
    <3>4. nEnqueued = m_nPackets + nDequeued
      BY <2>1, <3>3
    <3>5. m_nPackets' + nDequeued' = nEnqueued'
      BY <3>1, <3>2, <3>4
    <3> QED BY <3>3, <3>5, SumDifference
  <2>4. m_nPackets' = Len(queue') + (IF m_peeked' THEN 1 ELSE 0)
    BY <1>1
  <2> QED BY <2>2, <2>3, <2>4 DEF StatsIdentities
<1> QED BY <1>1, <1>3, <1>4 DEF QueueDiscInv, PeekedIsRetained

\* Transmit sent the packet: Run goes on, or the quota is used up, the queue disc
\* is empty or the tx queue is stopped.
Sent(p) ==
    /\ DeviceSend(p.txq, p)
    /\ m_requeued' = <<>> /\ nRequeued' = nRequeued
    /\ \/ RunEnd(FALSE) /\ (m_nPackets' = 0 \/ IsStopped(p.txq)')
       \/ RunEnd(TRUE) /\ quota = 1 /\ m_nPackets' # 0
       \/ quota # 1 /\ quota' = quota - 1 /\ UNCHANGED <<m_running, quotaUsedUp>>

\* Where Transmit may leave the packet, whatever DequeuePacket took it from.
LEMMA TransmitCases ==
    ASSUME QueueDiscInv, DeviceInv, NEW p, RestartWith(p), p.txq \in TxQueues
    PROVE  \/ /\ IsStopped(p.txq)
              /\ Requeue(p)
              /\ ~ SingleQueue
              /\ UNCHANGED deviceVars
           \/ Sent(p)
<1>1. CASE IsStopped(p.txq) /\ Requeue(p) /\ UNCHANGED deviceVars
  <2>1. ~ (MayTakeRequeued(p) /\ TakeRequeued(p))
    BY <1>1 DEF MayTakeRequeued
  <2>2. MayDequeue
    BY <2>1 DEF RestartWith, DequeuePacket
  <2>3. ~ \A q \in TxQueues : ~ IsStopped(q)
    BY <1>1
  <2> QED BY <1>1, <2>2, <2>3 DEF MayDequeue
<1>2. CASE DeviceSend(p.txq, p) /\ Transmitted(m_nPackets' # 0 /\ ~ IsStopped(p.txq)')
  <2> DEFINE more == m_nPackets' # 0 /\ ~ IsStopped(p.txq)'
  <2>1. CASE more /\ quota # 1
    BY <1>2, <2>1 DEF Transmitted, Sent
  <2>2. CASE more /\ quota = 1
    <3>1. RunEnd(TRUE)
      BY <1>2, <2>2, Zenon DEF Transmitted, RunEnd
    <3> QED BY <1>2, <2>2, <3>1 DEF Transmitted, Sent
  <2>3. CASE ~ more
    <3>1. RunEnd(FALSE)
      BY <1>2, <2>3, Zenon DEF Transmitted, RunEnd
    <3> QED BY <1>2, <2>3, <3>1 DEF Transmitted, Sent
  <2> QED BY <2>1, <2>2, <2>3
<1> QED BY <1>1, <1>2 DEF RestartWith, Transmit

-----------------------------------------------------------------------------
(* The inductive invariant *)

FlowControlInv == QueueDiscInv /\ DeviceInv /\ SingleQueueNeverRequeues

LEMMA FlowControlInvInit == Init => FlowControlInv
BY QueueDiscInvInit, DeviceInvInit
   DEF Init, FlowControlInv, SingleQueueNeverRequeues, QueueDiscInit

LEMMA PacketOfSend ==
    ASSUME QueueDiscInv, NEW s \in Sizes, NEW q \in TxQueues
    PROVE  [id |-> nReceived + 1, size |-> s, txq |-> q] \in Packet
<1>1. nReceived \in Nat
  BY DEF QueueDiscInv, QueueDiscTypeOK
<1>2. nReceived + 1 \in Nat \ {0}
  BY <1>1
<1> QED BY <1>2 DEF Packet

LEMMA DeviceInvUnchanged == DeviceInv /\ UNCHANGED deviceVars => DeviceInv'
<1> SUFFICES ASSUME DeviceInv, UNCHANGED deviceVars PROVE DeviceInv'
  OBVIOUS
<1>1. NetDeviceTypeOK'
  BY DEF DeviceInv, NetDeviceTypeOK, deviceVars
<1>2. StoppedMeansBacklog'
  BY DEF DeviceInv, StoppedMeansBacklog, IsStopped, deviceVars
<1>3. (\A q \in TxQueues : BytesOf(devQueue[q], devBytes[q]))'
  BY DEF DeviceInv, deviceVars
<1> QED BY <1>1, <1>2, <1>3 DEF DeviceInv

LEMMA QueueDiscInvUnchanged == QueueDiscInv /\ UNCHANGED qdiscVars => QueueDiscInv'
<1> SUFFICES ASSUME QueueDiscInv, UNCHANGED qdiscVars PROVE QueueDiscInv'
  OBVIOUS
<1>1. QueueDiscTypeOK'
  BY DEF QueueDiscInv, QueueDiscTypeOK, qdiscVars, statVars, runVars
<1>2. StatsIdentities'
  BY DEF QueueDiscInv, StatsIdentities, qdiscVars, statVars
<1>3. PeekedIsRetained'
  BY DEF QueueDiscInv, PeekedIsRetained, qdiscVars
<1> QED BY <1>1, <1>2, <1>3 DEF QueueDiscInv, qdiscVars, runVars

LEMMA RunFacts ==
    ASSUME QueueDiscInv
    PROVE  /\ RunBegin => /\ m_running' = TRUE /\ quota' \in 0 .. Quota /\ quota' >= 1
                           /\ quotaUsedUp' \in BOOLEAN
           /\ \A b \in BOOLEAN : RunEnd(b) =>
                  m_running' = FALSE /\ quota' \in 0 .. Quota /\ quotaUsedUp' \in BOOLEAN
           /\ \A p : Sent(p) /\ m_running =>
                  /\ m_running' \in BOOLEAN /\ quota' \in 0 .. Quota
                  /\ quotaUsedUp' \in BOOLEAN
                  /\ m_running' => quota' >= 1
<1>1. /\ quota \in 0 .. Quota /\ m_running \in BOOLEAN /\ (m_running => quota >= 1)
      /\ quotaUsedUp \in BOOLEAN
      /\ Quota \in Nat /\ Quota >= 1
  BY QueueDiscAssumption DEF QueueDiscInv, QueueDiscTypeOK, QueueDiscAssumption
<1>0. ASSUME NEW b \in BOOLEAN, RunEnd(b) PROVE quotaUsedUp' \in BOOLEAN
  BY <1>0, Zenon DEF RunEnd
<1>0a. RunBegin => quotaUsedUp' \in BOOLEAN
  BY Zenon DEF RunBegin
<1>2. ASSUME NEW p, Sent(p), m_running
      PROVE  /\ m_running' \in BOOLEAN /\ quota' \in 0 .. Quota
             /\ quotaUsedUp' \in BOOLEAN
             /\ m_running' => quota' >= 1
  <2>1. CASE RunEnd(TRUE) \/ RunEnd(FALSE)
    <3>1. quota' = 0 /\ m_running' = FALSE
      BY <2>1 DEF RunEnd
    <3>3. quotaUsedUp' \in BOOLEAN
      BY <1>0, <2>1
    <3>2. 0 \in 0 .. Quota
      BY <1>1
    <3> QED BY <3>1, <3>2, <3>3
  <2>2. CASE quota # 1 /\ quota' = quota - 1 /\ UNCHANGED <<m_running, quotaUsedUp>>
    <3>1. quota' = quota - 1 /\ m_running' = m_running /\ quotaUsedUp' = quotaUsedUp
      BY <2>2
    <3>2. quota \in Int /\ quota >= 2 /\ quota <= Quota
      BY <1>1, <1>2, <2>2
    <3> QED BY <1>1, <3>1, <3>2
  <2> QED BY <1>2, <2>1, <2>2 DEF Sent
<1> QED BY <1>0, <1>0a, <1>1, <1>2 DEF RunBegin, RunEnd

LEMMA RestartWithInv ==
    ASSUME FlowControlInv, NEW p, RestartWith(p)
    PROVE  FlowControlInv'
<1>1. QueueDiscInv /\ DeviceInv /\ SingleQueueNeverRequeues
  BY DEF FlowControlInv
<1>2. p \in Packet
  BY <1>1, DequeuePacketFacts DEF RestartWith
<1>3. p.txq \in TxQueues
  BY <1>2 DEF Packet
<1>4. nRequeued \in Nat
  BY <1>1 DEF QueueDiscInv, QueueDiscTypeOK
<1>5. CASE IsStopped(p.txq) /\ Requeue(p) /\ ~ SingleQueue /\ UNCHANGED deviceVars
  <2>1. m_requeued' = <<p>> /\ nRequeued' = nRequeued + 1 /\ RunEnd(FALSE)
    BY <1>5 DEF Requeue
  <2>2. m_requeued' \in Seq(Packet) /\ Len(m_requeued') <= 1 /\ nRequeued' \in Nat
    BY <1>2, <1>4, <2>1
  <2>3. /\ m_running' \in BOOLEAN /\ quota' \in 0 .. Quota /\ (m_running' => quota' >= 1)
        /\ quotaUsedUp' \in BOOLEAN
    BY <1>1, <2>1, RunFacts
  <2>4. QueueDiscInv'
    BY <1>1, <2>2, <2>3, RestartWithQueueDisc
  <2>5. SingleQueueNeverRequeues'
    BY <1>5 DEF SingleQueueNeverRequeues, SingleQueue
  <2> QED BY <1>1, <1>5, <2>4, <2>5, DeviceInvUnchanged DEF FlowControlInv
<1>6. CASE Sent(p)
  <2>1. m_requeued' = <<>> /\ nRequeued' = nRequeued /\ DeviceSend(p.txq, p)
    BY <1>6 DEF Sent
  <2>2. m_requeued' \in Seq(Packet) /\ Len(m_requeued') <= 1 /\ nRequeued' \in Nat
    BY <1>4, <2>1
  <2>3. /\ m_running' \in BOOLEAN /\ quota' \in 0 .. Quota /\ (m_running' => quota' >= 1)
        /\ quotaUsedUp' \in BOOLEAN
    BY <1>1, <1>6, RunFacts DEF RestartWith
  <2>4. QueueDiscInv'
    BY <1>1, <2>2, <2>3, RestartWithQueueDisc
  <2>5. SingleQueueNeverRequeues'
    BY <1>1, <2>1 DEF SingleQueueNeverRequeues, SingleQueue
  <2> QED BY <1>1, <1>2, <1>3, <2>1, <2>4, <2>5, DeviceSendInv DEF FlowControlInv
<1> QED BY <1>1, <1>3, <1>5, <1>6, TransmitCases

LEMMA RestartDropInv ==
    ASSUME QueueDiscInv, DropAfterDequeue
    PROVE  /\ QueueDiscInv'
           /\ UNCHANGED <<m_requeued, nRequeued, m_running, quota, quotaUsedUp>>
           /\ Len(queue) \in Nat /\ Len(queue') = Len(queue) - 1
<1>1. /\ m_requeued = <<>> /\ queue # <<>>
      /\ queue' = Tail(queue)
      /\ m_nPackets' = m_nPackets - 1
      /\ nDequeued' = nDequeued + 1
      /\ nDropAfter' = nDropAfter + 1
      /\ UNCHANGED <<m_requeued, m_peeked, nReceived, nEnqueued, nDropBefore, nRequeued,
                     header, m_running, quota, quotaUsedUp>>
  BY DEF DropAfterDequeue, PacketDequeued, runVars
<1>2. queue \in Seq(Packet)
  BY DEF QueueDiscInv, QueueDiscTypeOK
<1>3. /\ queue' \in Seq(Packet)
      /\ Len(queue) \in Nat /\ Len(queue) >= 1 /\ Len(queue') = Len(queue) - 1
  BY <1>1, <1>2
<1>4. ~ m_peeked
  BY <1>1 DEF QueueDiscInv, PeekedIsRetained
<1>5. m_nPackets = Len(queue)
  BY <1>3, <1>4 DEF QueueDiscInv, StatsIdentities
<1>6. /\ m_nPackets \in 0 .. QdMax /\ QdMax \in Nat /\ nDequeued \in Nat
      /\ nDropAfter \in Nat /\ nEnqueued \in Nat
      /\ m_nPackets = nEnqueued - nDequeued
  BY QueueDiscAssumption
     DEF QueueDiscInv, QueueDiscTypeOK, QueueDiscAssumption, StatsIdentities
<1>7. m_nPackets' \in 0 .. QdMax /\ nDequeued' \in Nat /\ nDropAfter' \in Nat
  BY <1>1, <1>3, <1>5, <1>6
<1>8. QueueDiscTypeOK'
  BY <1>1, <1>3, <1>7 DEF QueueDiscInv, QueueDiscTypeOK
<1>9. StatsIdentities'
  <2>1. nReceived' = nDropBefore' + nEnqueued'
    BY <1>1 DEF QueueDiscInv, StatsIdentities
  <2>2. m_nPackets' = nEnqueued' - nDequeued'
    BY <1>1, <1>6
  <2>3. m_nPackets' = Len(queue') + (IF m_peeked' THEN 1 ELSE 0)
    BY <1>1, <1>3, <1>4, <1>5
  <2> QED BY <2>1, <2>2, <2>3 DEF StatsIdentities
<1>10. PeekedIsRetained' /\ (m_running' => quota' >= 1)
  BY <1>1 DEF QueueDiscInv, PeekedIsRetained
<1> QED BY <1>1, <1>3, <1>8, <1>9, <1>10 DEF QueueDiscInv

\* Only the loop counter changes: Run begins or ends.
LEMMA RunOnly ==
    ASSUME QueueDiscInv, RunBegin \/ RunEnd(FALSE),
           UNCHANGED <<queue, m_requeued, m_peeked, m_nPackets, statVars, header>>
    PROVE  QueueDiscInv'
<1>1. /\ m_running' \in BOOLEAN /\ quota' \in 0 .. Quota /\ (m_running' => quota' >= 1)
      /\ quotaUsedUp' \in BOOLEAN
  BY RunFacts
<1>2. QueueDiscTypeOK'
  BY <1>1 DEF QueueDiscInv, QueueDiscTypeOK, statVars
<1>3. StatsIdentities'
  BY DEF QueueDiscInv, StatsIdentities, statVars
<1>4. PeekedIsRetained'
  BY DEF QueueDiscInv, PeekedIsRetained
<1> QED BY <1>1, <1>2, <1>3, <1>4 DEF QueueDiscInv

LEMMA FlowControlInvNext == FlowControlInv /\ [Next]_vars => FlowControlInv'
<1> SUFFICES ASSUME FlowControlInv, [Next]_vars PROVE FlowControlInv'
  OBVIOUS
<1>1. QueueDiscInv /\ DeviceInv /\ SingleQueueNeverRequeues
  BY DEF FlowControlInv
<1>2. nRequeued' = nRequeued => SingleQueueNeverRequeues'
  BY <1>1 DEF SingleQueueNeverRequeues, SingleQueue
<1>3. ASSUME NEW s \in Sizes, NEW q \in TxQueues, Send(s, q) PROVE FlowControlInv'
  <2>1. QueueDiscInv' /\ nRequeued' = nRequeued
    BY <1>1, <1>3, PacketOfSend, EnqueueInv DEF Send
  <2>2. DeviceInv'
    BY <1>1, <1>3, DeviceInvUnchanged DEF Send
  <2> QED BY <1>2, <2>1, <2>2 DEF FlowControlInv
<1>4. CASE PeekCall
  <2>1. QueueDiscInv' /\ nRequeued' = nRequeued
    BY <1>1, <1>4, PeekInv DEF PeekCall
  <2>2. DeviceInv'
    BY <1>1, <1>4, DeviceInvUnchanged DEF PeekCall
  <2> QED BY <1>2, <2>1, <2>2 DEF FlowControlInv
<1>5. CASE Restart
  BY <1>5, RestartWithInv DEF Restart
<1>6. CASE RestartDrop
  <2>1. QueueDiscInv' /\ nRequeued' = nRequeued
    BY <1>1, <1>6, RestartDropInv DEF RestartDrop
  <2>2. DeviceInv'
    BY <1>1, <1>6, DeviceInvUnchanged DEF RestartDrop
  <2> QED BY <1>2, <2>1, <2>2 DEF FlowControlInv
<1>7. CASE RestartNothing
  <2>1. /\ RunEnd(FALSE)
        /\ UNCHANGED <<queue, m_requeued, m_peeked, m_nPackets, statVars, header>>
        /\ UNCHANGED deviceVars
    BY <1>7 DEF RestartNothing
  <2>2. QueueDiscInv' /\ nRequeued' = nRequeued
    BY <1>1, <2>1, RunOnly DEF statVars
  <2> QED BY <1>1, <1>2, <2>1, <2>2, DeviceInvUnchanged DEF FlowControlInv
<1>8. ASSUME NEW q \in TxQueues, WakeEvent(q) PROVE FlowControlInv'
  <2>1. /\ RunBegin
        /\ UNCHANGED <<queue, m_requeued, m_peeked, m_nPackets, statVars, header>>
        /\ WakeFires(q)
    BY <1>8 DEF WakeEvent
  <2>2. QueueDiscInv' /\ nRequeued' = nRequeued
    BY <1>1, <2>1, RunOnly DEF statVars
  <2>3. DeviceInv'
    BY <1>1, <2>1, WakeFiresInv
  <2> QED BY <1>2, <2>2, <2>3 DEF FlowControlInv
<1>9. ASSUME NEW q \in TxQueues, TransmitCompleteEvent(q) PROVE FlowControlInv'
  <2>1. QueueDiscInv' /\ nRequeued' = nRequeued
    BY <1>1, <1>9, QueueDiscInvUnchanged DEF TransmitCompleteEvent, qdiscVars, statVars
  <2>2. DeviceInv'
    BY <1>1, <1>9, TransmitCompleteInv DEF TransmitCompleteEvent
  <2> QED BY <1>2, <2>1, <2>2 DEF FlowControlInv
<1>10. CASE UNCHANGED vars
  <2>1. UNCHANGED qdiscVars /\ UNCHANGED deviceVars
    BY <1>10 DEF vars
  <2>2. nRequeued' = nRequeued
    BY <2>1 DEF qdiscVars, statVars
  <2> QED BY <1>1, <1>2, <2>1, <2>2, QueueDiscInvUnchanged, DeviceInvUnchanged
         DEF FlowControlInv
<1> QED BY <1>3, <1>4, <1>5, <1>6, <1>7, <1>8, <1>9, <1>10 DEF Next, RunStep

THEOREM FlowControlInvariant == Spec => []FlowControlInv
BY FlowControlInvInit, FlowControlInvNext, PTL DEF Spec

\* Every variable keeps its type; in particular the unsigned m_nPackets never
\* underflows nor exceeds MaxSize, and Run never exceeds its quota.
THEOREM TypeCorrect == Spec => []TypeOK
<1>1. FlowControlInv => TypeOK
  BY DEF FlowControlInv, QueueDiscInv, DeviceInv, TypeOK
<1> QED BY <1>1, FlowControlInvariant, PTL

\* The identities of the statistics (queue-disc.h) hold at every step.
THEOREM StatsIdentitiesHold == Spec => []StatsIdentities
<1>1. FlowControlInv => StatsIdentities
  BY DEF FlowControlInv, QueueDiscInv
<1> QED BY <1>1, FlowControlInvariant, PTL

\* m_peeked is never set without a packet in m_requeued.
THEOREM PeekedIsRetainedHolds == Spec => []PeekedIsRetained
<1>1. FlowControlInv => PeekedIsRetained
  BY DEF FlowControlInv, QueueDiscInv
<1> QED BY <1>1, FlowControlInvariant, PTL

\* A queue disc on a device with one tx queue never requeues a packet.
THEOREM SingleQueueNeverRequeuesHolds == Spec => []SingleQueueNeverRequeues
<1>1. FlowControlInv => SingleQueueNeverRequeues
  BY DEF FlowControlInv
<1> QED BY <1>1, FlowControlInvariant, PTL

\* A stopped tx queue has packets and a busy transmitter to open it again.
THEOREM StoppedMeansBacklogHolds == Spec => []StoppedMeansBacklog
<1>1. FlowControlInv => StoppedMeansBacklog
  BY DEF FlowControlInv, DeviceInv
<1> QED BY <1>1, FlowControlInvariant, PTL

-----------------------------------------------------------------------------
(* No lost wake-up *)

WakeupInv == FlowControlInv /\ NoLostWakeup

LEMMA WakeupInvInit == Init => WakeupInv
<1> SUFFICES ASSUME Init PROVE WakeupInv
  OBVIOUS
<1>1. ~ m_running /\ m_requeued = <<>> /\ queue = <<>>
  BY DEF Init, QueueDiscInit
<1>2. Candidates = {}
  BY <1>1 DEF Candidates
<1> QED BY <1>1, <1>2, FlowControlInvInit DEF WakeupInv, NoLostWakeup

\* A stopped tx queue is going to wake the queue disc.
LEMMA StoppedWillWake ==
    ASSUME DeviceInv, NEW q \in TxQueues, IsStopped(q)
    PROVE  WillWake(q)
BY DEF DeviceInv, StoppedMeansBacklog, WillWake

LEMMA RestartWithWakeup ==
    ASSUME WakeupInv, NEW p, RestartWith(p)
    PROVE  NoLostWakeup'
<1>1. QueueDiscInv /\ DeviceInv /\ m_running
  BY DEF WakeupInv, FlowControlInv, RestartWith
<1>2. /\ p \in Packet /\ queue' \in Seq(Packet)
      /\ Len(queue') + 1 = Len(queue) + Len(m_requeued)
      /\ m_nPackets' = Len(queue')
  BY <1>1, DequeuePacketFacts DEF RestartWith
<1>3. p.txq \in TxQueues /\ Len(queue') \in Nat
  BY <1>2 DEF Packet
<1>6. CASE IsStopped(p.txq) /\ Requeue(p) /\ ~ SingleQueue /\ UNCHANGED deviceVars
  <2>1. m_running' = FALSE
    BY <1>6 DEF Requeue, RunEnd
  <2>2. WillWake(p.txq)
    BY <1>1, <1>3, <1>6, StoppedWillWake
  <2>3. (WillWake(p.txq))'
    BY <1>6, <2>2 DEF WillWake, IsStopped, deviceVars
  <2> QED BY <1>3, <2>1, <2>3 DEF NoLostWakeup
<1>7. CASE Sent(p)
  <2>1. m_requeued' = <<>> /\ Len(m_requeued') = 0 /\ DeviceSend(p.txq, p)
    BY <1>7 DEF Sent
  <2>2. CASE RunEnd(FALSE) /\ m_nPackets' = 0
    <3>0. Len(queue') = 0
      BY <1>2, <2>2
    <3>1. queue' = <<>>
      BY <1>2, <3>0
    <3>2. Candidates' = {}
      BY <2>1, <3>1 DEF Candidates
    <3> QED BY <3>2 DEF NoLostWakeup
  <2>3. CASE RunEnd(FALSE) /\ IsStopped(p.txq)'
    <3>1. DeviceInv'
      BY <1>1, <1>2, <1>3, <2>1, DeviceSendInv
    <3>2. WillWake(p.txq)'
      BY <1>3, <2>3, <3>1 DEF DeviceInv, StoppedMeansBacklog, WillWake, IsStopped
    <3> QED BY <1>3, <3>2 DEF NoLostWakeup
  <2>4. CASE RunEnd(TRUE)
    BY <2>4 DEF RunEnd, NoLostWakeup
  <2>5. CASE quota # 1 /\ quota' = quota - 1 /\ UNCHANGED <<m_running, quotaUsedUp>>
    BY <1>1, <2>5 DEF NoLostWakeup
  <2> QED BY <1>7, <2>2, <2>3, <2>4, <2>5 DEF Sent
<1> QED BY <1>1, <1>3, <1>6, <1>7, TransmitCases

\* The queue disc has the same wakes to expect when the device does not move.
LEMMA WakesUnchanged ==
    ASSUME UNCHANGED deviceVars, \E q \in TxQueues : wakes[q] > 0 \/ WillWake(q)
    PROVE  (\E q \in TxQueues : wakes[q] > 0 \/ WillWake(q))'
BY DEF deviceVars, WillWake, IsStopped

LEMMA PeekCallWakeup ==
    ASSUME WakeupInv, PeekCall
    PROVE  NoLostWakeup'
<1>1. QueueDiscInv /\ NoLostWakeup /\ ~ m_running /\ UNCHANGED deviceVars
  BY DEF WakeupInv, FlowControlInv, PeekCall
<1>2. /\ m_requeued = <<>> /\ queue # <<>>
      /\ m_running' = m_running /\ quotaUsedUp' = quotaUsedUp
  BY <1>1, PeekInv DEF PeekCall
<1>3. Candidates # {}
  BY <1>2 DEF Candidates
<1>4. ~ quotaUsedUp => (\E q \in TxQueues : wakes[q] > 0 \/ WillWake(q))'
  BY <1>1, <1>3, WakesUnchanged DEF NoLostWakeup
<1> QED BY <1>1, <1>2, <1>4 DEF NoLostWakeup

LEMMA TransmitCompleteWakeup ==
    ASSUME WakeupInv, NEW r \in TxQueues, TransmitCompleteEvent(r)
    PROVE  NoLostWakeup'
<1>1. /\ QueueDiscInv /\ DeviceInv /\ NoLostWakeup /\ ~ m_running
      /\ TransmitComplete(r) /\ UNCHANGED qdiscVars
  BY DEF WakeupInv, FlowControlInv, TransmitCompleteEvent
<1>2. /\ DeviceInv'
      /\ IsStopped(r) /\ ~ IsStopped(r)' => wakes'[r] > 0
      /\ \A q \in TxQueues : wakes'[q] >= wakes[q]
      /\ \A q \in TxQueues \ {r} : UNCHANGED <<devQueue[q], busy[q], IsStopped(q)>>
  BY <1>1, TransmitCompleteInv
<1>3. UNCHANGED <<m_running, quotaUsedUp, queue, m_requeued>> /\ Candidates' = Candidates
  BY <1>1 DEF qdiscVars, runVars, Candidates
<1>4. wakes \in [TxQueues -> Nat] /\ wakes' \in [TxQueues -> Nat]
  BY <1>1, <1>2 DEF DeviceInv, NetDeviceTypeOK
<1>5. ASSUME NEW q \in TxQueues, WillWake(q)
      PROVE  WillWake(q)' \/ \E t \in TxQueues : wakes'[t] > 0
  <2>1. CASE q = r
    <3>1. CASE IsStopped(r)'
      <4>1. WillWake(r)'
        BY <1>2, <3>1 DEF DeviceInv, StoppedMeansBacklog, WillWake, IsStopped
      <4> QED BY <2>1, <4>1
    <3>2. CASE ~ IsStopped(r)'
      BY <1>2, <1>5, <2>1, <3>2 DEF WillWake
    <3> QED BY <3>1, <3>2
  <2>2. CASE q # r
    <3>1. UNCHANGED <<devQueue[q], busy[q], IsStopped(q)>>
      BY <1>2, <2>2
    <3> QED BY <1>5, <3>1 DEF WillWake
  <2> QED BY <2>1, <2>2
<1>6. CASE Candidates = {} \/ quotaUsedUp
  BY <1>1, <1>3, <1>6 DEF NoLostWakeup
<1>7. CASE \E q \in TxQueues : wakes[q] > 0
  <2>1. PICK q \in TxQueues : wakes[q] > 0
    BY <1>7
  <2>2. wakes'[q] > 0
    BY <1>2, <1>4, <2>1
  <2> QED BY <1>1, <1>3, <2>2 DEF NoLostWakeup
<1>8. CASE \E q \in TxQueues : WillWake(q)
  <2>1. PICK q \in TxQueues : WillWake(q)
    BY <1>8
  <2>2. WillWake(q)' \/ \E t \in TxQueues : wakes'[t] > 0
    BY <1>5, <2>1
  <2> QED BY <1>1, <1>3, <2>2 DEF NoLostWakeup
<1> QED BY <1>1, <1>6, <1>7, <1>8 DEF NoLostWakeup

LEMMA RestartNothingWakeup ==
    ASSUME WakeupInv, RestartNothing
    PROVE  NoLostWakeup'
<1>1. /\ QueueDiscInv /\ DeviceInv
      /\ m_running' = FALSE
      /\ UNCHANGED <<queue, m_requeued>> /\ UNCHANGED deviceVars
      /\ \A p \in Candidates :
             IF m_requeued # <<>> THEN ~ MayTakeRequeued(p) ELSE ~ MayDequeue
  BY DEF WakeupInv, FlowControlInv, RestartNothing, RunEnd
<1>2. ASSUME NEW q \in TxQueues, IsStopped(q)
      PROVE  NoLostWakeup'
  <2>1. (\E r \in TxQueues : wakes[r] > 0 \/ WillWake(r))'
    BY <1>1, <1>2, StoppedWillWake, WakesUnchanged
  <2> QED BY <1>1, <2>1 DEF NoLostWakeup
<1>3. CASE m_requeued # <<>>
  <2>1. m_requeued \in Seq(Packet)
    BY <1>1 DEF QueueDiscInv, QueueDiscTypeOK
  <2>2. Head(m_requeued) \in Packet
    BY <1>3, <2>1
  <2>3. Head(m_requeued).txq \in TxQueues
    BY <2>2 DEF Packet
  <2>4. IsStopped(Head(m_requeued).txq)
    BY <1>1, <1>3 DEF Candidates, MayTakeRequeued
  <2> QED BY <1>2, <2>3, <2>4
<1>4. CASE m_requeued = <<>> /\ queue # <<>>
  <2>1. ~ MayDequeue
    BY <1>1, <1>4 DEF Candidates
  <2>2. PICK q \in TxQueues : IsStopped(q)
    BY <2>1 DEF MayDequeue
  <2> QED BY <1>2, <2>2
<1>5. CASE m_requeued = <<>> /\ queue = <<>>
  <2>1. Candidates' = {}
    BY <1>1, <1>5 DEF Candidates
  <2> QED BY <1>1, <2>1 DEF NoLostWakeup
<1> QED BY <1>3, <1>4, <1>5

LEMMA WakeupInvNext == WakeupInv /\ [Next]_vars => WakeupInv'
<1> SUFFICES ASSUME WakeupInv, [Next]_vars PROVE WakeupInv'
  OBVIOUS
<1>1. FlowControlInv /\ QueueDiscInv /\ DeviceInv /\ NoLostWakeup
  BY DEF WakeupInv, FlowControlInv
<1>2. FlowControlInv' /\ QueueDiscInv'
  <2>1. FlowControlInv'
    BY <1>1, FlowControlInvNext
  <2> QED BY <2>1 DEF FlowControlInv
<1> SUFFICES NoLostWakeup'
  BY <1>2 DEF WakeupInv
<1>3. ASSUME NEW s \in Sizes, NEW q \in TxQueues, Send(s, q)
      PROVE  NoLostWakeup'
  BY <1>3 DEF Send, RunBegin, NoLostWakeup
<1>4. CASE PeekCall
  BY <1>4, PeekCallWakeup
<1>5. CASE Restart
  BY <1>5, RestartWithWakeup DEF Restart
<1>6. CASE RestartDrop
  <2>1. m_running'
    BY <1>1, <1>6, RestartDropInv DEF RestartDrop
  <2> QED BY <2>1 DEF NoLostWakeup
<1>7. CASE RestartNothing
  BY <1>7, RestartNothingWakeup
<1>8. ASSUME NEW q \in TxQueues, WakeEvent(q) PROVE NoLostWakeup'
  BY <1>8 DEF WakeEvent, RunBegin, NoLostWakeup
<1>9. ASSUME NEW q \in TxQueues, TransmitCompleteEvent(q) PROVE NoLostWakeup'
  BY <1>9, TransmitCompleteWakeup
<1>10. CASE UNCHANGED vars
  <2>1. UNCHANGED <<queue, m_requeued, m_running, quotaUsedUp>> /\ UNCHANGED deviceVars
    BY <1>10 DEF vars, qdiscVars, runVars
  <2> QED BY <1>1, <2>1 DEF NoLostWakeup, Candidates, WillWake, IsStopped,
                            deviceVars
<1> QED BY <1>3, <1>4, <1>5, <1>6, <1>7, <1>8, <1>9, <1>10 DEF Next, RunStep

\* No wake-up is lost, for every quota, limit, device and number of tx queues: a
\* queue disc that holds packets while nothing is going to wake it was left by a
\* Run that used up its quota, and by nothing else.
THEOREM NoWakeupIsLost == Spec => []NoLostWakeup
<1>1. WakeupInv => NoLostWakeup
  BY DEF WakeupInv
<1> QED BY <1>1, WakeupInvInit, WakeupInvNext, PTL DEF Spec

-----------------------------------------------------------------------------
(* When the quota suffices *)

\* While Run executes its quota covers everything the queue disc still holds.
QuotaCovers == m_running => Len(queue) + Len(m_requeued) <= quota

QuotaInv == FlowControlInv /\ QuotaCovers /\ ~ quotaUsedUp

\* The queue disc holds at most its limit and a requeued packet.
LEMMA AtMostLimitAndOne ==
    ASSUME QueueDiscInv
    PROVE  /\ Len(queue) \in Nat /\ Len(m_requeued) \in Nat
           /\ Len(queue) + Len(m_requeued) <= QdMax + 1
<1>1. queue \in Seq(Packet) /\ m_requeued \in Seq(Packet) /\ Len(m_requeued) <= 1
  BY DEF QueueDiscInv, QueueDiscTypeOK
<1>2. Len(queue) \in Nat /\ Len(m_requeued) \in Nat
  BY <1>1
<1>3. m_nPackets \in 0 .. QdMax /\ QdMax \in Nat
  BY QueueDiscAssumption DEF QueueDiscInv, QueueDiscTypeOK, QueueDiscAssumption
<1>4. m_nPackets = Len(queue) + (IF m_peeked THEN 1 ELSE 0)
  BY DEF QueueDiscInv, StatsIdentities
<1>5. Len(queue) <= QdMax
  BY <1>2, <1>3, <1>4
<1> QED BY <1>1, <1>2, <1>3, <1>5

LEMMA QuotaCoversBegin ==
    ASSUME QueueDiscInv', Quota > QdMax, RunBegin
    PROVE  QuotaCovers' /\ ~ quotaUsedUp'
<1>1. /\ Len(queue') \in Nat /\ Len(m_requeued') \in Nat
      /\ Len(queue') + Len(m_requeued') <= QdMax + 1
  <2>1. (/\ Len(queue) \in Nat /\ Len(m_requeued) \in Nat
         /\ Len(queue) + Len(m_requeued) <= QdMax + 1)'
    BY AtMostLimitAndOne, PTL
  <2> QED BY <2>1
<1>2. QdMax \in Nat /\ Quota \in Nat
  BY QueueDiscAssumption DEF QueueDiscAssumption
<1>3. quotaUsedUp' = FALSE /\ quota' = Quota
  BY DEF RunBegin
<1>4. Len(queue') + Len(m_requeued') <= quota'
  BY <1>1, <1>2, <1>3
<1> QED BY <1>3, <1>4 DEF QuotaCovers

LEMMA RestartWithQuota ==
    ASSUME QuotaInv, NEW p, RestartWith(p)
    PROVE  QuotaCovers' /\ ~ quotaUsedUp'
<1>1. QueueDiscInv /\ DeviceInv /\ m_running
  BY DEF QuotaInv, FlowControlInv, RestartWith
<1>2. /\ p \in Packet /\ queue' \in Seq(Packet)
      /\ Len(queue') + 1 = Len(queue) + Len(m_requeued)
      /\ m_nPackets' = Len(queue')
  BY <1>1, DequeuePacketFacts DEF RestartWith
<1>3. p.txq \in TxQueues /\ Len(queue') \in Nat
  BY <1>2 DEF Packet
<1>4. quota \in Nat /\ quota >= 1 /\ Len(queue) + Len(m_requeued) <= quota
  BY <1>1 DEF QueueDiscInv, QueueDiscTypeOK, QuotaInv, QuotaCovers
<1>5. ASSUME RunEnd(FALSE) PROVE QuotaCovers' /\ ~ quotaUsedUp'
  BY <1>5 DEF RunEnd, QuotaCovers
<1>6. CASE Requeue(p)
  BY <1>5, <1>6 DEF Requeue
<1>7. CASE Sent(p)
  <2>1. m_requeued' = <<>> /\ Len(m_requeued') = 0
    BY <1>7 DEF Sent
  <2>2. ~ (quota = 1 /\ m_nPackets' # 0)
    BY <1>2, <1>3, <1>4
  <2>3. CASE quota # 1 /\ quota' = quota - 1 /\ UNCHANGED <<m_running, quotaUsedUp>>
    <3>1. Len(queue') + Len(m_requeued') <= quota'
      BY <1>2, <1>3, <1>4, <2>1, <2>3
    <3> QED BY <2>3, <3>1 DEF QuotaInv, QuotaCovers
  <2> QED BY <1>5, <1>7, <2>2, <2>3 DEF Sent
<1> QED BY <1>1, <1>3, <1>6, <1>7, TransmitCases

LEMMA QuotaInvNext ==
    ASSUME Quota > QdMax
    PROVE  QuotaInv /\ [Next]_vars => QuotaInv'
<1> SUFFICES ASSUME QuotaInv, [Next]_vars PROVE QuotaInv'
  OBVIOUS
<1>1. FlowControlInv /\ QueueDiscInv /\ QuotaCovers /\ ~ quotaUsedUp
  BY DEF QuotaInv, FlowControlInv
<1>2. FlowControlInv' /\ QueueDiscInv'
  <2>1. FlowControlInv'
    BY <1>1, FlowControlInvNext
  <2> QED BY <2>1 DEF FlowControlInv
<1> SUFFICES QuotaCovers' /\ ~ quotaUsedUp'
  BY <1>2 DEF QuotaInv
<1>3. ASSUME NEW s \in Sizes, NEW q \in TxQueues, Send(s, q)
      PROVE  QuotaCovers' /\ ~ quotaUsedUp'
  BY <1>2, <1>3, QuotaCoversBegin DEF Send
<1>4. CASE PeekCall
  BY <1>1, <1>4, PeekInv DEF PeekCall, QuotaCovers
<1>5. CASE Restart
  BY <1>5, RestartWithQuota DEF Restart
<1>6. CASE RestartDrop
  <2>1. /\ UNCHANGED <<m_requeued, m_running, quota, quotaUsedUp>> /\ m_running
        /\ Len(queue) \in Nat /\ Len(queue') = Len(queue) - 1
    BY <1>1, <1>6, RestartDropInv DEF RestartDrop
  <2>2. Len(m_requeued) \in Nat /\ quota \in Nat
    BY <1>1, AtMostLimitAndOne DEF QueueDiscInv, QueueDiscTypeOK
  <2>3. Len(queue) + Len(m_requeued) <= quota
    BY <1>1, <2>1 DEF QuotaCovers
  <2>4. Len(queue') + Len(m_requeued') <= quota'
    BY <2>1, <2>2, <2>3
  <2> QED BY <1>1, <2>1, <2>4 DEF QuotaCovers
<1>7. CASE RestartNothing
  BY <1>7 DEF RestartNothing, RunEnd, QuotaCovers
<1>8. ASSUME NEW q \in TxQueues, WakeEvent(q) PROVE QuotaCovers' /\ ~ quotaUsedUp'
  BY <1>2, <1>8, QuotaCoversBegin DEF WakeEvent
<1>9. ASSUME NEW q \in TxQueues, TransmitCompleteEvent(q)
      PROVE  QuotaCovers' /\ ~ quotaUsedUp'
  BY <1>1, <1>9 DEF TransmitCompleteEvent, qdiscVars, runVars, QuotaCovers
<1>10. CASE UNCHANGED vars
  BY <1>1, <1>10 DEF vars, qdiscVars, runVars, QuotaCovers
<1> QED BY <1>3, <1>4, <1>5, <1>6, <1>7, <1>8, <1>9, <1>10 DEF Next, RunStep

\* Run uses up its quota only in a queue disc whose limit is at least the quota:
\* with a larger quota there is no exception to NoLostWakeup.
THEOREM LargerQuotaIsNotUsedUp ==
    ASSUME Quota > QdMax
    PROVE  Spec => []~ quotaUsedUp
<1>1. Init => QuotaInv
  BY FlowControlInvInit DEF Init, QueueDiscInit, QuotaInv, QuotaCovers
<1>2. QuotaInv => ~ quotaUsedUp
  BY DEF QuotaInv
<1> QED BY <1>1, <1>2, QuotaInvNext, PTL DEF Spec

-----------------------------------------------------------------------------
(* No packet is discarded *)

\* The check of PacketEnqueued is exact: in packets mode, or for a device that
\* adds no header.  In bytes mode the header is forgotten.
CheckIsExact == DevMode = "packets" \/ HeaderSize = 0

\* A tx queue that the device does not stop has room for an MTU.
RoomUnlessStopped ==
    \A q \in TxQueues :
        m_stoppedByDevice[q] \/ Fits(Len(devQueue[q]), devBytes[q], Mtu)

RoomInv == FlowControlInv /\ NeverDiscards /\ RoomUnlessStopped

LEMMA RoomInvInit == Init => RoomInv
<1> SUFFICES ASSUME Init PROVE RoomInv
  OBVIOUS
<1>1. NetDeviceInit
  BY DEF Init
<1>2. NeverDiscards
  BY <1>1 DEF NetDeviceInit, NeverDiscards
<1>3. Fits(0, 0, Mtu)
  BY NetDeviceAssumption DEF NetDeviceAssumption, Fits
<1>4. RoomUnlessStopped
  BY <1>1, <1>3 DEF NetDeviceInit, RoomUnlessStopped
<1> QED BY <1>2, <1>4, FlowControlInvInit DEF RoomInv

\* Where an MTU fits, a packet with its header fits.
LEMMA PacketFits ==
    ASSUME CheckIsExact, NEW p \in Packet, NEW n \in Nat, NEW b \in Int, Fits(n, b, Mtu)
    PROVE  Fits(n, b, WireSize(p))
<1>1. p.size \in Sizes
  BY DEF Packet
<1>2. p.size \in Nat /\ p.size <= Mtu
  BY <1>1, QueueItemAssumption, FlowControlAssumption
     DEF QueueItemAssumption, FlowControlAssumption
<1> QED BY <1>2, NetDeviceAssumption DEF NetDeviceAssumption, CheckIsExact, Fits, WireSize

\* A queue that gives up a packet has room if it had room before.
LEMMA RoomStays ==
    ASSUME NEW qs \in Seq(Packet), qs # <<>>, NEW b \in Int, Fits(Len(qs), b, Mtu)
    PROVE  Fits(Len(Tail(qs)), b - WireSize(Head(qs)), Mtu)
<1>1. WireSize(Head(qs)) \in Nat
  BY WireSizeType
<1>2. Len(qs) \in Nat /\ Len(Tail(qs)) = Len(qs) - 1
  OBVIOUS
<1> QED BY <1>1, <1>2, NetDeviceAssumption DEF NetDeviceAssumption, Fits

LEMMA StartTransmissionRoom ==
    ASSUME DeviceInv, RoomUnlessStopped, NeverDiscards,
           NEW q \in TxQueues, NEW qs \in Seq(Packet), qs # <<>>, NEW b \in Int,
           NEW dev \in BOOLEAN, NEW lim \in BOOLEAN,
           dev \/ Fits(Len(qs), b, Mtu),
           StartTransmission(q, qs, b, dev, lim)
    PROVE  RoomUnlessStopped' /\ NeverDiscards'
<1> DEFINE left == b - WireSize(Head(qs))
           room == Fits(Len(Tail(qs)), left, Mtu)
<1>1. /\ devQueue' = [devQueue EXCEPT ![q] = Tail(qs)]
      /\ devBytes' = [devBytes EXCEPT ![q] = left]
      /\ m_stoppedByDevice' = [m_stoppedByDevice EXCEPT ![q] = dev /\ ~ room]
      /\ UNCHANGED nDiscarded
  BY DEF StartTransmission
<1>2. (dev /\ ~ room) \/ room
  BY RoomStays
<1>3. /\ devQueue \in [TxQueues -> Seq(Packet)] /\ devBytes \in [TxQueues -> Int]
      /\ m_stoppedByDevice \in [TxQueues -> BOOLEAN]
  BY DEF DeviceInv, NetDeviceTypeOK
<1>4. devQueue'[q] = Tail(qs) /\ devBytes'[q] = left /\ m_stoppedByDevice'[q] = (dev /\ ~ room)
  BY <1>1, <1>3
<1>5. ASSUME NEW r \in TxQueues
      PROVE  m_stoppedByDevice'[r] \/ Fits(Len(devQueue'[r]), devBytes'[r], Mtu)
  <2>1. CASE r = q
    BY <1>2, <1>4, <2>1
  <2>2. CASE r # q
    <3>1. UNCHANGED <<devQueue[r], devBytes[r], m_stoppedByDevice[r]>>
      BY <1>1, <1>3, <2>2
    <3> QED BY <3>1 DEF RoomUnlessStopped
  <2> QED BY <2>1, <2>2
<1> QED BY <1>1, <1>5 DEF RoomUnlessStopped, NeverDiscards

LEMMA DeviceSendRoom ==
    ASSUME CheckIsExact, DeviceInv, RoomUnlessStopped, NeverDiscards,
           NEW q \in TxQueues, NEW p \in Packet, ~ IsStopped(q), DeviceSend(q, p)
    PROVE  RoomUnlessStopped' /\ NeverDiscards'
<1>1. /\ devQueue \in [TxQueues -> Seq(Packet)] /\ devBytes \in [TxQueues -> Int]
      /\ m_stoppedByDevice \in [TxQueues -> BOOLEAN]
      /\ m_stoppedByQueueLimits \in [TxQueues -> BOOLEAN]
  BY DEF DeviceInv, NetDeviceTypeOK
<1>2. Fits(Len(devQueue[q]), devBytes[q], Mtu)
  BY DEF IsStopped, RoomUnlessStopped
<1>3. ~ Discard(q, p)
  BY <1>1, <1>2, PacketFits DEF Discard
<1>4. CASE SendBusy(q, p)
  <2>1. /\ devQueue' = [devQueue EXCEPT ![q] = Append(@, p)]
        /\ devBytes' = [devBytes EXCEPT ![q] = @ + WireSize(p)]
        /\ m_stoppedByDevice' = [m_stoppedByDevice EXCEPT ![q] =
               @ \/ ~ Fits(Len(devQueue'[q]), devBytes'[q], Mtu)]
        /\ UNCHANGED nDiscarded
    BY <1>4 DEF SendBusy
  <2>2. ASSUME NEW r \in TxQueues
        PROVE  m_stoppedByDevice'[r] \/ Fits(Len(devQueue'[r]), devBytes'[r], Mtu)
    <3>1. CASE r = q
      BY <1>1, <2>1, <3>1
    <3>2. CASE r # q
      <4>1. UNCHANGED <<devQueue[r], devBytes[r], m_stoppedByDevice[r]>>
        BY <1>1, <2>1, <3>2
      <4> QED BY <4>1 DEF RoomUnlessStopped
    <3> QED BY <3>1, <3>2
  <2> QED BY <2>1, <2>2 DEF RoomUnlessStopped, NeverDiscards
<1>5. CASE SendReady(q, p)
  <2> DEFINE qs  == Append(devQueue[q], p)
             b   == devBytes[q] + WireSize(p)
             dev == m_stoppedByDevice[q] \/ ~ Fits(Len(qs), b, Mtu)
  <2>1. PICK over \in {FALSE, QueueLimits} :
            StartTransmission(q, qs, b, dev, m_stoppedByQueueLimits[q] \/ over)
    BY <1>5 DEF SendReady
  <2>2. qs \in Seq(Packet) /\ qs # <<>> /\ b \in Int
    <3>1. devQueue[q] \in Seq(Packet) /\ devBytes[q] \in Int
      BY <1>1
    <3>2. WireSize(p) \in Nat
      BY WireSizeType
    <3> QED BY <3>1, <3>2
  <2>3. dev \in BOOLEAN /\ (dev \/ Fits(Len(qs), b, Mtu))
    BY <1>1, FitsType
  <2>4. m_stoppedByQueueLimits[q] \/ over \in BOOLEAN
    BY <1>1, NetDeviceAssumption DEF NetDeviceAssumption
  <2> HIDE DEF qs, b, dev
  <2> QED BY <2>1, <2>2, <2>3, <2>4, StartTransmissionRoom
<1> QED BY <1>3, <1>4, <1>5 DEF DeviceSend

LEMMA TransmitCompleteRoom ==
    ASSUME DeviceInv, RoomUnlessStopped, NeverDiscards,
           NEW q \in TxQueues, TransmitComplete(q)
    PROVE  RoomUnlessStopped' /\ NeverDiscards'
<1>1. CASE devQueue[q] = <<>>
  BY <1>1 DEF TransmitComplete, RoomUnlessStopped, NeverDiscards
<1>2. CASE devQueue[q] # <<>>
  <2>1. StartTransmission(q, devQueue[q], devBytes[q],
                          m_stoppedByDevice[q], m_stoppedByQueueLimits[q])
    BY <1>2 DEF TransmitComplete
  <2>2. /\ devQueue[q] \in Seq(Packet) /\ devBytes[q] \in Int
        /\ m_stoppedByDevice[q] \in BOOLEAN /\ m_stoppedByQueueLimits[q] \in BOOLEAN
    BY DEF DeviceInv, NetDeviceTypeOK
  <2>3. m_stoppedByDevice[q] \/ Fits(Len(devQueue[q]), devBytes[q], Mtu)
    BY DEF RoomUnlessStopped
  <2> QED BY <1>2, <2>1, <2>2, <2>3, StartTransmissionRoom
<1> QED BY <1>1, <1>2

LEMMA RoomUnchanged ==
    ASSUME RoomUnlessStopped, NeverDiscards,
           UNCHANGED <<devQueue, devBytes, m_stoppedByDevice, nDiscarded>>
    PROVE  RoomUnlessStopped' /\ NeverDiscards'
BY DEF RoomUnlessStopped, NeverDiscards

LEMMA RoomInvNext ==
    ASSUME CheckIsExact
    PROVE  RoomInv /\ [Next]_vars => RoomInv'
<1> SUFFICES ASSUME RoomInv, [Next]_vars PROVE RoomInv'
  OBVIOUS
<1>1. /\ FlowControlInv /\ QueueDiscInv /\ DeviceInv
      /\ NeverDiscards /\ RoomUnlessStopped
  BY DEF RoomInv, FlowControlInv
<1>2. FlowControlInv'
  BY <1>1, FlowControlInvNext
<1> SUFFICES RoomUnlessStopped' /\ NeverDiscards'
  BY <1>2 DEF RoomInv
<1>3. ASSUME UNCHANGED deviceVars PROVE RoomUnlessStopped' /\ NeverDiscards'
  BY <1>1, <1>3, RoomUnchanged DEF deviceVars
<1>4. ASSUME NEW s \in Sizes, NEW q \in TxQueues, Send(s, q)
      PROVE  RoomUnlessStopped' /\ NeverDiscards'
  BY <1>3, <1>4 DEF Send
<1>5. CASE PeekCall
  BY <1>3, <1>5 DEF PeekCall
<1>6. ASSUME NEW p, RestartWith(p) PROVE RoomUnlessStopped' /\ NeverDiscards'
  <2>1. p \in Packet /\ p.txq \in TxQueues
    <3>1. p \in Packet
      BY <1>1, <1>6, DequeuePacketFacts DEF RestartWith
    <3> QED BY <3>1 DEF Packet
  <2>2. CASE ~ IsStopped(p.txq) /\ DeviceSend(p.txq, p)
    BY <1>1, <2>1, <2>2, DeviceSendRoom
  <2> QED BY <1>3, <1>6, <2>2 DEF RestartWith, Transmit
<1>7. CASE RestartDrop
  BY <1>3, <1>7 DEF RestartDrop
<1>8. CASE RestartNothing
  BY <1>3, <1>8 DEF RestartNothing
<1>9. ASSUME NEW q \in TxQueues, WakeEvent(q) PROVE RoomUnlessStopped' /\ NeverDiscards'
  BY <1>1, <1>9, RoomUnchanged DEF WakeEvent, WakeFires
<1>10. ASSUME NEW q \in TxQueues, TransmitCompleteEvent(q)
       PROVE  RoomUnlessStopped' /\ NeverDiscards'
  BY <1>1, <1>10, TransmitCompleteRoom DEF TransmitCompleteEvent
<1>11. CASE UNCHANGED vars
  BY <1>3, <1>11 DEF vars
<1> QED BY <1>4, <1>5, <1>6, <1>7, <1>8, <1>9, <1>10, <1>11 DEF Next, RunStep, Restart

\* The device queue never discards a packet (NetDeviceQueue::PacketDiscarded)
\* when its limit is in packets or its device adds no header: the check of
\* PacketEnqueued is then enough.
THEOREM NeverDiscardsWhenExact ==
    ASSUME CheckIsExact
    PROVE  Spec => []NeverDiscards
<1>1. RoomInv => NeverDiscards
  BY DEF RoomInv
<1> QED BY <1>1, RoomInvInit, RoomInvNext, PTL DEF Spec

-----------------------------------------------------------------------------
(* The order of the packets *)

Ascending(s) == \A i, j \in 1 .. Len(s) : i < j => s[i].id < s[j].id

\* Every packet of A arrived before every packet of B.
Earlier(A, B) == \A p \in A, r \in B : p.id < r.id

\* Packets before their transmission and after the queue disc, of tx queue q.
Given(q) == Range(wire[q]) \cup Range(devQueue[q])

\* Packets that the queue disc holds.
Held == Range(m_requeued) \cup Range(queue)

\* The device keeps the packets of each tx queue in order, the queue disc those of
\* all; a retained packet comes before the internal queue, and what the device was
\* given before what the queue disc holds, also across tx queues.
DeviceOrder ==
    \A q \in TxQueues : /\ Ascending(wire[q]) /\ Ascending(devQueue[q])
                        /\ Earlier(Range(wire[q]), Range(devQueue[q]))

QueueOrder ==
    /\ Ascending(queue)
    /\ Earlier(Range(m_requeued), Range(queue))
    /\ \A p \in Held : p.id <= nReceived

OrderInv ==
    /\ FlowControlInv /\ DeviceOrder /\ QueueOrder
    /\ \A q \in TxQueues : /\ Earlier(Given(q), Held)
                           /\ \A p \in Given(q) : p.id <= nReceived

LEMMA RangeOf ==
    ASSUME NEW s \in Seq(Packet)
    PROVE  /\ Len(s) \in Nat
           /\ \A x : x \in Range(s) <=> \E i \in 1 .. Len(s) : s[i] = x
           /\ \A p \in Range(s) : p \in Packet /\ p.id \in Nat
<1>1. Len(s) \in Nat /\ DOMAIN s = 1 .. Len(s) /\ \A i \in 1 .. Len(s) : s[i] \in Packet
  BY LenProperties, ElementOfSeq
<1>2. \A x : x \in Range(s) <=> \E i \in 1 .. Len(s) : s[i] = x
  BY <1>1 DEF Range
<1>3. \A p \in Packet : p.id \in Nat
  BY DEF Packet
<1> QED BY <1>1, <1>2, <1>3

LEMMA OrderOfAppend ==
    ASSUME NEW s \in Seq(Packet), Ascending(s), NEW p \in Packet, Earlier(Range(s), {p})
    PROVE  /\ Append(s, p) \in Seq(Packet) /\ Ascending(Append(s, p))
           /\ Range(Append(s, p)) = Range(s) \cup {p}
<1> DEFINE n == Len(s)
           a == Append(s, p)
<1>1. n \in Nat /\ \A x : x \in Range(s) <=> \E i \in 1 .. n : s[i] = x
  BY RangeOf
<1>2. /\ a \in Seq(Packet) /\ Len(a) = n + 1 /\ a[n + 1] = p
      /\ \A i \in 1 .. n : a[i] = s[i]
  BY AppendProperties
<1>3. \A x : x \in Range(a) <=> \E i \in 1 .. n + 1 : a[i] = x
  <2> HIDE DEF a
  <2> QED BY <1>2, RangeOf
<1> HIDE DEF n, a
<1>4. /\ \A i \in 1 .. n + 1 : i \in 1 .. n \/ i = n + 1
      /\ \A i \in 1 .. n : i \in 1 .. n + 1 /\ ~ (n + 1 < i)
      /\ n + 1 \in 1 .. n + 1 /\ ~ (n + 1 < n + 1)
  BY <1>1
<1>5. \A x : x \in Range(a) <=> x \in Range(s) \cup {p}
  BY <1>1, <1>2, <1>3, <1>4
<1>6. ASSUME NEW i \in 1 .. n + 1, NEW j \in 1 .. n + 1, i < j
      PROVE  a[i].id < a[j].id
  <2>1. i \in 1 .. n
    BY <1>4, <1>6
  <2>2. CASE j \in 1 .. n
    BY <1>2, <1>6, <2>1, <2>2 DEF Ascending, n
  <2>3. CASE j = n + 1
    BY <1>1, <1>2, <2>1, <2>3 DEF Earlier
  <2> QED BY <1>4, <2>2, <2>3
<1>7. Ascending(a)
  BY <1>2, <1>6 DEF Ascending
<1>8. Range(a) = Range(s) \cup {p}
  BY <1>5
<1> QED BY <1>2, <1>7, <1>8 DEF a

\* What is behind the k-th packet of a list.
LEMMA OrderOfSuffix ==
    ASSUME NEW s \in Seq(Packet), Ascending(s), NEW k \in 1 .. Len(s)
    PROVE  /\ SubSeq(s, k + 1, Len(s)) \in Seq(Packet)
           /\ Ascending(SubSeq(s, k + 1, Len(s)))
           /\ Range(SubSeq(s, k + 1, Len(s))) \subseteq Range(s)
           /\ s[k] \in Range(s)
           /\ Earlier({s[k]}, Range(SubSeq(s, k + 1, Len(s))))
<1> DEFINE n == Len(s)
           t == SubSeq(s, k + 1, n)
<1>1. /\ n \in Nat /\ \A x : x \in Range(s) <=> \E i \in 1 .. n : s[i] = x
      /\ \A i \in 1 .. n : s[i] \in Packet
  BY RangeOf, ElementOfSeq
<1>2. k + 1 \in Int /\ n \in Int /\ k \in 1 .. n /\ \A i \in k + 1 .. n : s[i] \in Packet
  BY <1>1
<1> HIDE DEF n
<1>3. /\ t \in Seq(Packet) /\ Len(t) = IF k + 1 <= n THEN n - (k + 1) + 1 ELSE 0
      /\ \A i \in 1 .. n - (k + 1) + 1 : t[i] = s[(k + 1) + i - 1]
  BY <1>2, SubSeqProperties
<1>4. Len(t) = n - k
  <2>1. n \in Int /\ k \in Int /\ k <= n
    BY <1>1, <1>2
  <2>2. CASE k + 1 <= n
    <3>1. Len(t) = n - (k + 1) + 1
      BY <1>3, <2>2
    <3> QED BY <2>1, <3>1
  <2>3. CASE ~ (k + 1 <= n)
    <3>1. Len(t) = 0
      BY <1>3, <2>3
    <3> QED BY <2>1, <2>3, <3>1
  <2> QED BY <2>2, <2>3
<1>5. \A i \in 1 .. n - k : t[i] = s[k + i] /\ k + i \in 1 .. n /\ k < k + i
  BY <1>1, <1>2, <1>3
<1> HIDE DEF t
<1>6. \A x : x \in Range(t) <=> \E i \in 1 .. n - k : t[i] = x
  BY <1>3, <1>4, RangeOf
<1>7. Ascending(t)
  <2> SUFFICES ASSUME NEW i \in 1 .. n - k, NEW j \in 1 .. n - k, i < j
               PROVE  t[i].id < t[j].id
    BY <1>4 DEF Ascending
  <2>1. k + i < k + j
    BY <1>2
  <2> QED BY <1>5, <2>1 DEF Ascending, n
<1>8. Earlier({s[k]}, Range(t))
  <2> SUFFICES ASSUME NEW i \in 1 .. n - k PROVE s[k].id < t[i].id
    BY <1>6 DEF Earlier
  <2> QED BY <1>2, <1>5 DEF Ascending, n
<1>9. Range(t) \subseteq Range(s) /\ s[k] \in Range(s)
  BY <1>1, <1>2, <1>5, <1>6
<1> QED BY <1>3, <1>7, <1>8, <1>9 DEF n, t

LEMMA OrderOfTail ==
    ASSUME NEW s \in Seq(Packet), Ascending(s), s # <<>>
    PROVE  /\ Tail(s) \in Seq(Packet) /\ Ascending(Tail(s))
           /\ Range(Tail(s)) \subseteq Range(s)
           /\ Head(s) \in Range(s) /\ Head(s) \in Packet
           /\ Earlier({Head(s)}, Range(Tail(s)))
<1>1. 1 \in 1 .. Len(s) /\ Head(s) = s[1] /\ Head(s) \in Packet
  <2>1. Len(s) \in Nat /\ Len(s) # 0
    BY EmptySeq
  <2> QED BY <2>1, HeadTailProperties
<1>2. Tail(s) = SubSeq(s, 1 + 1, Len(s))
  BY TailIsSubSeq
<1>3. /\ SubSeq(s, 1 + 1, Len(s)) \in Seq(Packet)
      /\ Ascending(SubSeq(s, 1 + 1, Len(s)))
      /\ Range(SubSeq(s, 1 + 1, Len(s))) \subseteq Range(s)
      /\ s[1] \in Range(s)
      /\ Earlier({s[1]}, Range(SubSeq(s, 1 + 1, Len(s))))
  BY <1>1, OrderOfSuffix
<1>4. PICK t : t = SubSeq(s, 1 + 1, Len(s))
  OBVIOUS
<1> QED BY <1>1, <1>2, <1>3, <1>4

\* The packet at the head of a device queue goes on the channel.
LEMMA StartTransmissionOrder ==
    ASSUME NetDeviceTypeOK, DeviceOrder, NEW q \in TxQueues, NEW qs \in Seq(Packet),
           qs # <<>>, Ascending(qs), Earlier(Range(wire[q]), Range(qs)),
           NEW b, NEW dev, NEW lim, StartTransmission(q, qs, b, dev, lim)
    PROVE  /\ DeviceOrder'
           /\ \A r \in TxQueues \ {q} : Given(r)' = Given(r)
           /\ Given(q)' \subseteq Range(wire[q]) \cup Range(qs)
<1> DEFINE p == Head(qs)
<1>1. devQueue' = [devQueue EXCEPT ![q] = Tail(qs)] /\ wire' = [wire EXCEPT ![q] = Append(@, p)]
  BY DEF StartTransmission
<1>2. /\ devQueue \in [TxQueues -> Seq(Packet)] /\ wire \in [TxQueues -> Seq(Packet)]
      /\ wire[q] \in Seq(Packet)
  BY DEF NetDeviceTypeOK
<1>3. /\ devQueue'[q] = Tail(qs) /\ wire'[q] = Append(wire[q], p)
      /\ \A r \in TxQueues \ {q} : devQueue'[r] = devQueue[r] /\ wire'[r] = wire[r]
  BY <1>1, <1>2
<1>4. /\ Ascending(Tail(qs)) /\ Range(Tail(qs)) \subseteq Range(qs)
      /\ p \in Range(qs) /\ p \in Packet /\ Earlier({p}, Range(Tail(qs)))
  BY OrderOfTail
<1> HIDE DEF p
<1>5. Ascending(Append(wire[q], p)) /\ Range(Append(wire[q], p)) = Range(wire[q]) \cup {p}
  <2>1. Ascending(wire[q]) /\ Earlier(Range(wire[q]), {p})
    BY <1>4 DEF DeviceOrder, Earlier
  <2> QED BY <1>2, <1>4, <2>1, OrderOfAppend
<1>6. Earlier(Range(wire[q]) \cup {p}, Range(Tail(qs)))
  BY <1>4 DEF Earlier
<1>7. DeviceOrder'
  <2> SUFFICES ASSUME NEW r \in TxQueues
               PROVE  /\ Ascending(wire'[r]) /\ Ascending(devQueue'[r])
                      /\ Earlier(Range(wire'[r]), Range(devQueue'[r]))
    BY DEF DeviceOrder
  <2>1. CASE r = q
    BY <1>3, <1>4, <1>5, <1>6, <2>1
  <2>2. CASE r # q
    BY <1>3, <2>2 DEF DeviceOrder
  <2> QED BY <2>1, <2>2
<1>8. Given(q)' \subseteq Range(wire[q]) \cup Range(qs)
  BY <1>3, <1>4, <1>5 DEF Given
<1>9. \A r \in TxQueues \ {q} : Given(r)' = Given(r)
  BY <1>3 DEF Given
<1> QED BY <1>7, <1>8, <1>9

LEMMA DeviceSendOrder ==
    ASSUME NetDeviceTypeOK, DeviceOrder, NEW q \in TxQueues, NEW p \in Packet,
           Earlier(Given(q), {p}), DeviceSend(q, p)
    PROVE  /\ DeviceOrder'
           /\ \A r \in TxQueues : Given(r)' \subseteq Given(r) \cup (IF r = q THEN {p} ELSE {})
<1>1. /\ devQueue \in [TxQueues -> Seq(Packet)] /\ wire \in [TxQueues -> Seq(Packet)]
      /\ devQueue[q] \in Seq(Packet)
  BY DEF NetDeviceTypeOK
<1> DEFINE a == Append(devQueue[q], p)
<1>2. /\ a \in Seq(Packet) /\ Ascending(a) /\ Range(a) = Range(devQueue[q]) \cup {p}
      /\ a # <<>> /\ Earlier(Range(wire[q]), Range(a))
  <2>1. Ascending(devQueue[q]) /\ Earlier(Range(devQueue[q]), {p})
    BY DEF DeviceOrder, Given, Earlier
  <2>2. a \in Seq(Packet) /\ Ascending(a) /\ Range(a) = Range(devQueue[q]) \cup {p}
    BY <1>1, <2>1, OrderOfAppend
  <2>3. a # <<>>
    BY <1>1, AppendProperties
  <2>4. Earlier(Range(wire[q]), Range(devQueue[q])) /\ Earlier(Range(wire[q]), {p})
    BY DEF DeviceOrder, Given, Earlier
  <2> HIDE DEF a
  <2> QED BY <2>2, <2>3, <2>4 DEF Earlier
<1> HIDE DEF a
<1>3. CASE Discard(q, p)
  <2>1. devQueue' = devQueue /\ wire' = wire
    BY <1>3 DEF Discard
  <2> QED BY <2>1 DEF DeviceOrder, Given
<1>4. CASE SendBusy(q, p)
  <2>1. devQueue' = [devQueue EXCEPT ![q] = a] /\ wire' = wire
    BY <1>4 DEF SendBusy, a
  <2>2. devQueue'[q] = a /\ \A r \in TxQueues \ {q} : devQueue'[r] = devQueue[r]
    BY <1>1, <2>1
  <2>3. DeviceOrder'
    <3> SUFFICES ASSUME NEW r \in TxQueues
                 PROVE  /\ Ascending(wire'[r]) /\ Ascending(devQueue'[r])
                        /\ Earlier(Range(wire'[r]), Range(devQueue'[r]))
      BY DEF DeviceOrder
    <3>1. CASE r = q
      BY <1>2, <2>1, <2>2, <3>1 DEF DeviceOrder
    <3>2. CASE r # q
      BY <2>1, <2>2, <3>2 DEF DeviceOrder
    <3> QED BY <3>1, <3>2
  <2> QED BY <1>2, <2>1, <2>2, <2>3 DEF Given
<1>5. CASE SendReady(q, p)
  <2>1. PICK over : StartTransmission(q, a, devBytes[q] + WireSize(p),
            m_stoppedByDevice[q] \/ ~ Fits(Len(a), devBytes[q] + WireSize(p), Mtu),
            m_stoppedByQueueLimits[q] \/ over)
    BY <1>5 DEF SendReady, a
  <2>2. /\ DeviceOrder' /\ \A r \in TxQueues \ {q} : Given(r)' = Given(r)
        /\ Given(q)' \subseteq Range(wire[q]) \cup Range(a)
    BY <1>2, <2>1, StartTransmissionOrder
  <2> QED BY <1>2, <2>2 DEF Given
<1> QED BY <1>3, <1>4, <1>5 DEF DeviceSend

LEMMA TransmitCompleteOrder ==
    ASSUME NetDeviceTypeOK, DeviceOrder, NEW q \in TxQueues, TransmitComplete(q)
    PROVE  DeviceOrder' /\ \A r \in TxQueues : Given(r)' \subseteq Given(r)
<1>1. CASE devQueue[q] = <<>>
  <2>1. devQueue' = devQueue /\ wire' = wire
    BY <1>1 DEF TransmitComplete
  <2> QED BY <2>1 DEF DeviceOrder, Given
<1>2. CASE devQueue[q] # <<>>
  <2>1. StartTransmission(q, devQueue[q], devBytes[q],
                          m_stoppedByDevice[q], m_stoppedByQueueLimits[q])
    BY <1>2 DEF TransmitComplete
  <2>2. /\ devQueue[q] \in Seq(Packet) /\ Ascending(devQueue[q])
        /\ Earlier(Range(wire[q]), Range(devQueue[q]))
    BY DEF NetDeviceTypeOK, DeviceOrder
  <2>3. /\ DeviceOrder' /\ \A r \in TxQueues \ {q} : Given(r)' = Given(r)
        /\ Given(q)' \subseteq Range(wire[q]) \cup Range(devQueue[q])
    BY <1>2, <2>1, <2>2, StartTransmissionOrder
  <2> QED BY <2>3 DEF Given
<1> QED BY <1>1, <1>2

\* The packet that DequeuePacket returns comes before those it leaves.
LEMMA DequeueOrder ==
    ASSUME QueueDiscInv, QueueOrder, NEW p, DequeuePacket(p)
    PROVE  /\ p \in Held /\ p \in Packet
           /\ Ascending(queue') /\ Range(queue') \subseteq Range(queue)
           /\ Earlier({p}, Range(queue'))
<1>1. queue \in Seq(Packet) /\ m_requeued \in Seq(Packet)
  BY DEF QueueDiscInv, QueueDiscTypeOK
<1>2. p \in Packet
  BY DequeuePacketFacts
<1>3. CASE TakeRequeued(p)
  <2>1. m_requeued = <<p>> /\ queue' = queue
    BY <1>3 DEF TakeRequeued
  <2>2. p \in Range(m_requeued)
    <3>1. Len(m_requeued) = 1 /\ m_requeued[1] = p /\ 1 \in 1 .. 1
      BY <2>1
    <3> QED BY <1>1, <3>1, RangeOf
  <2> QED BY <1>2, <2>1, <2>2 DEF QueueOrder, Held, Earlier
<1>4. CASE TakeHead(p)
  <2>1. p = Head(queue) /\ queue' = Tail(queue) /\ queue # <<>>
    BY <1>4 DEF TakeHead
  <2>2. Ascending(queue)
    BY DEF QueueOrder
  <2> QED BY <1>1, <1>2, <2>1, <2>2, OrderOfTail DEF Held
<1> QED BY <1>3, <1>4 DEF DequeuePacket

LEMMA HeldInPackets ==
    ASSUME OrderInv
    PROVE  /\ queue \in Seq(Packet) /\ m_requeued \in Seq(Packet) /\ nReceived \in Nat
           /\ QueueDiscInv /\ DeviceInv /\ NetDeviceTypeOK
           /\ \A p \in Held : p \in Packet /\ p.id \in Nat
           /\ \A q \in TxQueues : \A p \in Given(q) : p.id \in Nat
<1>1. QueueDiscInv /\ DeviceInv /\ NetDeviceTypeOK
  BY DEF OrderInv, FlowControlInv, DeviceInv
<1>2. queue \in Seq(Packet) /\ m_requeued \in Seq(Packet) /\ nReceived \in Nat
  BY <1>1 DEF QueueDiscInv, QueueDiscTypeOK
<1>3. \A p \in Held : p \in Packet /\ p.id \in Nat
  BY <1>2, RangeOf DEF Held
<1>4. ASSUME NEW q \in TxQueues PROVE \A p \in Given(q) : p.id \in Nat
  <2>1. wire[q] \in Seq(Packet) /\ devQueue[q] \in Seq(Packet)
    BY <1>1 DEF NetDeviceTypeOK
  <2> QED BY <2>1, RangeOf DEF Given
<1> QED BY <1>1, <1>2, <1>3, <1>4

\* Packets are only taken away, each part being still in order.
LEMMA OrderOfLess ==
    ASSUME OrderInv, FlowControlInv', DeviceOrder', Ascending(queue'),
           Earlier(Range(m_requeued'), Range(queue')),
           Held' \subseteq Held, \A q \in TxQueues : Given(q)' \subseteq Given(q),
           nReceived' = nReceived
    PROVE  OrderInv'
BY DEF OrderInv, QueueOrder, Earlier

LEMMA SendOrder ==
    ASSUME OrderInv, FlowControlInv', NEW s \in Sizes, NEW t \in TxQueues, Send(s, t)
    PROVE  OrderInv'
<1> DEFINE p == [id |-> nReceived + 1, size |-> s, txq |-> t]
<1>1. /\ queue \in Seq(Packet) /\ nReceived \in Nat /\ QueueDiscInv
      /\ \A r \in Held : r.id \in Nat
      /\ \A q \in TxQueues : \A r \in Given(q) : r.id \in Nat
  BY HeldInPackets
<1>2. p \in Packet /\ p.id = nReceived + 1
  BY <1>1, PacketOfSend
<1>3. /\ Enqueue(p) /\ devQueue' = devQueue /\ wire' = wire
  BY DEF Send, deviceVars
<1> HIDE DEF p
<1>4. nReceived' = nReceived + 1 /\ m_requeued' = m_requeued
  BY <1>3 DEF Enqueue
<1>5. DeviceOrder' /\ \A q \in TxQueues : Given(q)' = Given(q)
  BY <1>3 DEF OrderInv, DeviceOrder, Given
<1>6. CASE Admit(p)
  <2>1. queue' = Append(queue, p)
    BY <1>6 DEF Admit
  <2>2. \A r \in Held : r.id <= nReceived /\ r.id < p.id
    BY <1>1, <1>2 DEF OrderInv, QueueOrder
  <2>3. Ascending(queue) /\ Earlier(Range(queue), {p})
    BY <2>2 DEF OrderInv, QueueOrder, Held, Earlier
  <2>4. Ascending(queue') /\ Range(queue') = Range(queue) \cup {p}
    BY <1>1, <1>2, <2>1, <2>3, OrderOfAppend
  <2>5. Held' = Held \cup {p}
    BY <1>4, <2>4 DEF Held
  <2>6. Earlier(Range(m_requeued'), Range(queue'))
    BY <1>4, <2>2, <2>4 DEF OrderInv, QueueOrder, Held, Earlier
  <2>7. \A r \in Held' : r.id <= nReceived'
    BY <1>1, <1>2, <1>4, <2>2, <2>5
  <2>8. QueueOrder'
    BY <2>4, <2>6, <2>7 DEF QueueOrder
  <2>9. ASSUME NEW q \in TxQueues
        PROVE  Earlier(Given(q)', Held') /\ \A r \in Given(q)' : r.id <= nReceived'
    <3>1. \A r \in Given(q) : r.id <= nReceived /\ r.id < p.id /\ r.id <= nReceived'
      BY <1>1, <1>2, <1>4 DEF OrderInv
    <3>2. Earlier(Given(q), Held)
      BY DEF OrderInv
    <3> QED BY <1>5, <2>5, <3>1, <3>2 DEF Earlier
  <2> QED BY <1>5, <2>8, <2>9 DEF OrderInv
<1>7. CASE DropBeforeEnqueue
  <2>1. queue' = queue
    BY <1>7 DEF DropBeforeEnqueue
  <2>2. Held' = Held
    BY <1>4, <2>1 DEF Held
  <2>3. QueueOrder'
    <3>1. \A r \in Held : r.id <= nReceived'
      BY <1>1, <1>4 DEF OrderInv, QueueOrder
    <3> QED BY <1>4, <2>1, <2>2, <3>1 DEF OrderInv, QueueOrder
  <2>4. ASSUME NEW q \in TxQueues
        PROVE  Earlier(Given(q)', Held') /\ \A r \in Given(q)' : r.id <= nReceived'
    <3>1. \A r \in Given(q) : r.id <= nReceived'
      BY <1>1, <1>4 DEF OrderInv
    <3> QED BY <1>5, <2>2, <3>1 DEF OrderInv
  <2> QED BY <1>5, <2>3, <2>4 DEF OrderInv
<1> QED BY <1>3, <1>6, <1>7 DEF Enqueue

LEMMA PeekOrder == ASSUME OrderInv, FlowControlInv', PeekCall PROVE OrderInv'
<1>1. PICK k \in 0 .. (IF Aqm THEN Len(queue) ELSE 0) :
          /\ m_requeued = <<>>
          /\ queue # <<>>
          /\ m_requeued' = IF k < Len(queue) THEN <<queue[k + 1]>> ELSE <<>>
          /\ queue' = SubSeq(queue, k + 2, Len(queue))
          /\ nReceived' = nReceived
  BY DEF PeekCall, Peek
<1>2. queue \in Seq(Packet) /\ Len(queue) \in Nat /\ Len(queue) # 0
  <2>1. queue \in Seq(Packet)
    BY HeldInPackets
  <2> QED BY <1>1, <2>1, EmptySeq
<1>3. k \in 0 .. Len(queue)
  BY <1>2, QueueDiscAssumption
<1>4. DeviceOrder' /\ \A q \in TxQueues : Given(q)' = Given(q)
  BY DEF PeekCall, deviceVars, OrderInv, DeviceOrder, Given
<1>5. Ascending(queue)
  BY DEF OrderInv, QueueOrder
<1>6. CASE k < Len(queue)
  <2>1. k + 1 \in 1 .. Len(queue) /\ (k + 1) + 1 = k + 2 /\ m_requeued' = <<queue[k + 1]>>
    BY <1>1, <1>2, <1>3, <1>6
  <2> DEFINE r == queue[k + 1]
  <2>2. /\ Ascending(queue') /\ Range(queue') \subseteq Range(queue)
        /\ r \in Range(queue) /\ Earlier({r}, Range(queue'))
    <3>1. queue' = SubSeq(queue, (k + 1) + 1, Len(queue))
      BY <1>1, <2>1
    <3> QED BY <1>2, <1>5, <2>1, <3>1, OrderOfSuffix
  <2> HIDE DEF r
  <2>3. Range(m_requeued') = {r}
    <3>1. m_requeued' = <<r>>
      BY <2>1 DEF r
    <3> QED BY <3>1 DEF Range
  <2>4. Held' \subseteq Held
    BY <2>2, <2>3 DEF Held
  <2> QED BY <1>1, <1>4, <2>2, <2>3, <2>4, OrderOfLess
<1>7. CASE ~ (k < Len(queue))
  <2>1. m_requeued' = <<>>
    BY <1>1, <1>7
  <2>2. queue' = <<>>
    <3>1. k + 2 \in Int /\ Len(queue) \in Int /\ Len(queue) < k + 2
      BY <1>2, <1>3, <1>7
    <3> QED BY <1>1, <3>1, SubSeqEmpty
  <2>3. Held' = {} /\ Ascending(queue') /\ Range(m_requeued') = {}
    BY <2>1, <2>2 DEF Held, Range, Ascending
  <2>4. Earlier(Range(m_requeued'), Range(queue'))
    BY <2>3 DEF Earlier
  <2> QED BY <1>1, <1>4, <2>3, <2>4, OrderOfLess
<1> QED BY <1>6, <1>7

LEMMA RestartOrder ==
    ASSUME OrderInv, FlowControlInv', NEW p, RestartWith(p) PROVE OrderInv'
<1>1. QueueDiscInv /\ DeviceInv /\ NetDeviceTypeOK /\ QueueOrder /\ DeviceOrder
  BY HeldInPackets DEF OrderInv
<1>2. /\ p \in Held /\ p \in Packet /\ Ascending(queue') /\ Range(queue') \subseteq Range(queue)
      /\ Earlier({p}, Range(queue'))
  BY <1>1, DequeueOrder DEF RestartWith
<1>3. p.txq \in TxQueues
  BY <1>2 DEF Packet
<1>4. nReceived' = nReceived
  BY DEF RestartWith
<1>5. CASE Requeue(p) /\ UNCHANGED deviceVars
  <2>1. m_requeued' = <<p>> /\ devQueue' = devQueue /\ wire' = wire
    BY <1>5 DEF Requeue, deviceVars
  <2>2. Range(m_requeued') = {p}
    BY <2>1 DEF Range
  <2>3. Held' \subseteq Held
    BY <1>2, <2>2 DEF Held
  <2>4. DeviceOrder' /\ \A q \in TxQueues : Given(q)' = Given(q)
    BY <1>1, <2>1 DEF DeviceOrder, Given
  <2> QED BY <1>2, <1>4, <2>2, <2>3, <2>4, OrderOfLess
<1>6. CASE Sent(p)
  <2>1. m_requeued' = <<>> /\ DeviceSend(p.txq, p)
    BY <1>6 DEF Sent
  <2>2. Earlier(Given(p.txq), {p})
    BY <1>2, <1>3 DEF OrderInv, Earlier
  <2>3. /\ DeviceOrder'
        /\ \A q \in TxQueues : Given(q)' \subseteq Given(q) \cup (IF q = p.txq THEN {p} ELSE {})
    BY <1>1, <1>2, <1>3, <2>1, <2>2, DeviceSendOrder
  <2>4. Range(m_requeued') = {} /\ Held' = Range(queue') /\ Held' \subseteq Held
    <3>1. Range(m_requeued') = {}
      BY <2>1 DEF Range
    <3> QED BY <1>2, <3>1 DEF Held
  <2>5. QueueOrder'
    BY <1>2, <1>4, <2>4 DEF OrderInv, QueueOrder, Earlier
  <2>6. ASSUME NEW q \in TxQueues
        PROVE  Earlier(Given(q)', Held') /\ \A r \in Given(q)' : r.id <= nReceived'
    <3>1. Earlier(Given(q), Held') /\ Earlier({p}, Held')
      BY <1>2, <2>4 DEF OrderInv, Earlier
    <3>2. p.id <= nReceived' /\ \A r \in Given(q) : r.id <= nReceived'
      BY <1>2, <1>4 DEF OrderInv, QueueOrder
    <3>3. Given(q)' \subseteq Given(q) \cup {p}
      BY <2>3
    <3> QED BY <3>1, <3>2, <3>3 DEF Earlier
  <2> QED BY <2>3, <2>5, <2>6 DEF OrderInv
<1> QED BY <1>1, <1>3, <1>5, <1>6, TransmitCases

LEMMA OtherOrder ==
    ASSUME OrderInv, FlowControlInv', UNCHANGED <<queue, m_requeued, nReceived>>,
           DeviceOrder', \A q \in TxQueues : Given(q)' \subseteq Given(q)
    PROVE  OrderInv'
<1>1. Held' = Held /\ Ascending(queue') /\ Earlier(Range(m_requeued'), Range(queue'))
  BY DEF Held, OrderInv, QueueOrder
<1> QED BY <1>1, OrderOfLess

LEMMA OrderInit == Init => OrderInv
<1> SUFFICES ASSUME Init PROVE OrderInv
  OBVIOUS
<1>1. /\ queue = <<>> /\ m_requeued = <<>>
      /\ \A q \in TxQueues : devQueue[q] = <<>> /\ wire[q] = <<>>
  BY DEF Init, QueueDiscInit, NetDeviceInit
<1>2. Held = {} /\ \A q \in TxQueues : Given(q) = {}
  BY <1>1 DEF Held, Given, Range
<1>3. Ascending(<<>>) /\ Range(<<>>) = {}
  BY DEF Ascending, Range
<1> QED BY <1>1, <1>2, <1>3, FlowControlInvInit
       DEF OrderInv, QueueOrder, DeviceOrder, Earlier

LEMMA OrderNext == OrderInv /\ [Next]_vars => OrderInv'
<1> SUFFICES ASSUME OrderInv, [Next]_vars PROVE OrderInv'
  OBVIOUS
<1>1. FlowControlInv'
  BY FlowControlInvNext DEF OrderInv
<1>2. QueueDiscInv /\ NetDeviceTypeOK /\ DeviceOrder
  BY HeldInPackets DEF OrderInv
<1>3. UNCHANGED <<devQueue, wire>> => DeviceOrder' /\ \A q \in TxQueues : Given(q)' = Given(q)
  BY <1>2 DEF DeviceOrder, Given
<1>4. CASE RestartDrop
  <2>1. /\ m_requeued = <<>> /\ m_requeued' = <<>> /\ queue # <<>> /\ queue' = Tail(queue)
        /\ nReceived' = nReceived /\ UNCHANGED <<devQueue, wire>>
    BY <1>4 DEF RestartDrop, DropAfterDequeue, deviceVars
  <2>2. queue \in Seq(Packet) /\ Ascending(queue)
    BY HeldInPackets DEF OrderInv, QueueOrder
  <2>3. Ascending(queue') /\ Range(queue') \subseteq Range(queue)
    BY <2>1, <2>2, OrderOfTail
  <2>4. Range(m_requeued') = {}
    BY <2>1 DEF Range
  <2>5. Held' \subseteq Held /\ Earlier(Range(m_requeued'), Range(queue'))
    BY <2>3, <2>4 DEF Held, Earlier
  <2> QED BY <1>1, <1>3, <2>1, <2>3, <2>5, OrderOfLess
<1>5. CASE RestartNothing
  BY <1>1, <1>3, <1>5, OtherOrder DEF RestartNothing, statVars, deviceVars
<1>6. ASSUME NEW q \in TxQueues, WakeEvent(q) PROVE OrderInv'
  BY <1>1, <1>3, <1>6, OtherOrder DEF WakeEvent, WakeFires, statVars
<1>7. ASSUME NEW q \in TxQueues, TransmitCompleteEvent(q) PROVE OrderInv'
  <2>1. UNCHANGED <<queue, m_requeued, nReceived>> /\ TransmitComplete(q)
    BY <1>7 DEF TransmitCompleteEvent, qdiscVars, statVars
  <2> QED BY <1>1, <1>2, <2>1, TransmitCompleteOrder, OtherOrder
<1>8. CASE UNCHANGED vars
  BY <1>1, <1>3, <1>8, OtherOrder DEF vars, qdiscVars, statVars, deviceVars
<1> QED BY <1>1, <1>4, <1>5, <1>6, <1>7, <1>8, SendOrder, PeekOrder, RestartOrder
       DEF Next, RunStep, Restart

\* The packets of a tx queue reach the channel in the order of their arrival, for
\* every discipline, any number of tx queues, any requeues and any peeks.
THEOREM ChannelInOrder == Spec => []InOrder
<1>1. OrderInv => InOrder
  BY DEF OrderInv, DeviceOrder, Ascending, InOrder
<1> QED BY <1>1, OrderInit, OrderNext, PTL DEF Spec

-----------------------------------------------------------------------------
(* Headers *)

\* DequeuePacket adds the header to a packet of the internal queue and to no other:
\* what the device was given, and what is retained, has passed there, unless it was
\* peeked.
HeaderInv ==
    /\ OrderInv /\ ~ m_peeked
    /\ \A p \in Range(m_requeued) : p.id \in header
    /\ \A q \in TxQueues : \A p \in Given(q) : p.id \in header

LEMMA HeaderInit == Init => HeaderInv
<1> SUFFICES ASSUME Init PROVE HeaderInv
  OBVIOUS
<1>1. /\ m_requeued = <<>> /\ ~ m_peeked
      /\ \A q \in TxQueues : devQueue[q] = <<>> /\ wire[q] = <<>>
  BY DEF Init, QueueDiscInit, NetDeviceInit
<1> QED BY <1>1, OrderInit DEF HeaderInv, Given, Range

LEMMA RestartHeader ==
    ASSUME HeaderInv, OrderInv', NEW p, RestartWith(p) PROVE HeaderInv'
<1>1. QueueDiscInv /\ DeviceInv /\ NetDeviceTypeOK /\ QueueOrder /\ DeviceOrder /\ OrderInv
  BY HeldInPackets DEF HeaderInv, OrderInv
<1>2. p \in Held /\ p \in Packet /\ ~ m_peeked'
  BY <1>1, DequeueOrder, DequeuePacketFacts DEF RestartWith
<1>3. p.txq \in TxQueues /\ Earlier(Given(p.txq), {p})
  BY <1>1, <1>2 DEF Packet, OrderInv, Earlier
<1>4. header \subseteq header' /\ p.id \in header'
  <2>1. CASE TakeRequeued(p)
    <3>1. m_requeued = <<p>> /\ header' = header
      BY <2>1 DEF TakeRequeued
    <3>2. p \in Range(m_requeued)
      BY <3>1 DEF Range
    <3> QED BY <3>1, <3>2 DEF HeaderInv
  <2>2. CASE TakeHead(p)
    BY <2>2 DEF TakeHead
  <2> QED BY <2>1, <2>2 DEF RestartWith, DequeuePacket
<1>5. CASE Requeue(p) /\ UNCHANGED deviceVars
  <2>1. m_requeued' = <<p>> /\ devQueue' = devQueue /\ wire' = wire
    BY <1>5 DEF Requeue, deviceVars
  <2>2. Range(m_requeued') = {p} /\ \A q \in TxQueues : Given(q)' = Given(q)
    BY <2>1 DEF Range, Given
  <2> QED BY <1>2, <1>4, <2>2 DEF HeaderInv
<1>6. CASE Sent(p)
  <2>1. m_requeued' = <<>> /\ DeviceSend(p.txq, p)
    BY <1>6 DEF Sent
  <2>2. \A q \in TxQueues : Given(q)' \subseteq Given(q) \cup (IF q = p.txq THEN {p} ELSE {})
    BY <1>1, <1>2, <1>3, <2>1, DeviceSendOrder
  <2>3. Range(m_requeued') = {}
    BY <2>1 DEF Range
  <2>4. \A q \in TxQueues : \A r \in Given(q)' : r.id \in header'
    <3> SUFFICES ASSUME NEW q \in TxQueues, NEW r \in Given(q)' PROVE r.id \in header'
      OBVIOUS
    <3>1. r \in Given(q) \/ r = p
      BY <2>2
    <3> QED BY <1>4, <3>1 DEF HeaderInv
  <2> QED BY <1>2, <2>3, <2>4 DEF HeaderInv
<1> QED BY <1>1, <1>3, <1>5, <1>6, TransmitCases

LEMMA OtherHeader ==
    ASSUME HeaderInv, OrderInv', UNCHANGED <<m_requeued, m_peeked, header>>,
           \A q \in TxQueues : Given(q)' \subseteq Given(q)
    PROVE  HeaderInv'
BY DEF HeaderInv

LEMMA HeaderNext ==
    ASSUME ~ RootPeek
    PROVE  HeaderInv /\ [Next]_vars => HeaderInv'
<1> SUFFICES ASSUME HeaderInv, [Next]_vars PROVE HeaderInv'
  OBVIOUS
<1>1. OrderInv /\ OrderInv'
  BY OrderNext DEF HeaderInv
<1>2. NetDeviceTypeOK /\ DeviceOrder
  BY <1>1, HeldInPackets DEF OrderInv
<1>3. UNCHANGED <<devQueue, wire>> => \A q \in TxQueues : Given(q)' = Given(q)
  BY DEF Given
<1>4. ASSUME NEW s \in Sizes, NEW q \in TxQueues, Send(s, q) PROVE HeaderInv'
  <2>1. UNCHANGED <<m_requeued, m_peeked, header, devQueue, wire>>
    BY <1>4 DEF Send, Enqueue, deviceVars
  <2> QED BY <1>1, <1>3, <2>1, OtherHeader
<1>5. CASE RestartDrop
  <2>1. UNCHANGED <<m_requeued, m_peeked, header, devQueue, wire>>
    BY <1>5 DEF RestartDrop, DropAfterDequeue, deviceVars
  <2> QED BY <1>1, <1>3, <2>1, OtherHeader
<1>6. CASE RestartNothing
  <2>1. UNCHANGED <<m_requeued, m_peeked, header, devQueue, wire>>
    BY <1>6 DEF RestartNothing, deviceVars
  <2> QED BY <1>1, <1>3, <2>1, OtherHeader
<1>7. ASSUME NEW q \in TxQueues, WakeEvent(q) PROVE HeaderInv'
  <2>1. UNCHANGED <<m_requeued, m_peeked, header, devQueue, wire>>
    BY <1>7 DEF WakeEvent, WakeFires
  <2> QED BY <1>1, <1>3, <2>1, OtherHeader
<1>8. ASSUME NEW q \in TxQueues, TransmitCompleteEvent(q) PROVE HeaderInv'
  <2>1. UNCHANGED <<m_requeued, m_peeked, header>> /\ TransmitComplete(q)
    BY <1>8 DEF TransmitCompleteEvent, qdiscVars
  <2> QED BY <1>1, <1>2, <2>1, TransmitCompleteOrder, OtherHeader
<1>9. CASE UNCHANGED vars
  BY <1>1, <1>3, <1>9, OtherHeader DEF vars, qdiscVars, deviceVars
<1> QED BY <1>1, <1>4, <1>5, <1>6, <1>7, <1>8, <1>9, RestartHeader
       DEF Next, RunStep, Restart, PeekCall

\* When nothing peeks at the root queue disc, the packets of a tx queue arrive in the
\* order in which they were sent, and none without its header.  (A peeked packet
\* gets no header: DequeuePacket adds it only to those it takes itself.)
THEOREM PacketsArriveAsSent ==
    ASSUME ~ RootPeek
    PROVE  Spec => []ArrivesAsSent
<1>1. HeaderInv => ArrivesAsSent
  <2> SUFFICES ASSUME HeaderInv PROVE ArrivesAsSent
    OBVIOUS
  <2>1. InOrder
    BY DEF HeaderInv, OrderInv, DeviceOrder, Ascending, InOrder
  <2>2. HeadersAdded
    <3> SUFFICES ASSUME NEW q \in TxQueues, NEW p \in Range(devQueue[q] \o wire[q])
                 PROVE  p.id \in header
      BY DEF HeadersAdded
    <3>1. wire[q] \in Seq(Packet) /\ devQueue[q] \in Seq(Packet)
      BY HeldInPackets DEF HeaderInv, NetDeviceTypeOK
    <3>2. p \in Given(q)
      BY <3>1, RangeConcatenation DEF Given
    <3> QED BY <3>2 DEF HeaderInv
  <2> QED BY <2>1, <2>2 DEF ArrivesAsSent
<1>2. HeaderInv /\ [Next]_vars => HeaderInv'
  BY HeaderNext
<1> QED BY <1>1, <1>2, HeaderInit, PTL DEF Spec

-----------------------------------------------------------------------------
(* The packets handed to the device *)

Row(q, n) == {q} \X (1 .. n)

Rows(h) == UNION {{q} \X (1 .. h[q]) : q \in TxQueues}

LEMMA RowCounted ==
    ASSUME NEW q, NEW n \in Nat
    PROVE  IsFiniteSet(Row(q, n)) /\ Cardinality(Row(q, n)) = n
<1> DEFINE A == {q}
           B == 1 .. n
<1>1. IsFiniteSet(A) /\ Cardinality(A) = 1
  BY FS_Singleton
<1>2. IsFiniteSet(B) /\ Cardinality(B) = n
  <2>1. 1 \in Int /\ n \in Int
    OBVIOUS
  <2>2. IsFiniteSet(B) /\ Cardinality(B) = IF 1 > n THEN 0 ELSE n - 1 + 1
    BY <2>1, FS_Interval
  <2> QED BY <2>2
<1> HIDE DEF A, B
<1>3. IsFiniteSet(A \X B) /\ Cardinality(A \X B) = Cardinality(A) * Cardinality(B)
  BY <1>1, <1>2, FS_Product
<1>4. 1 * n = n
  OBVIOUS
<1> QED BY <1>1, <1>2, <1>3, <1>4 DEF A, B, Row

\* The rows of some of the tx queues.
LEMMA RowsFinite ==
    ASSUME NEW G \in SUBSET TxQueues, NEW h \in [TxQueues -> Nat]
    PROVE  IsFiniteSet(UNION {{q} \X (1 .. h[q]) : q \in G})
<1> DEFINE R == {{q} \X (1 .. h[q]) : q \in G}
           r == [q \in G |-> {q} \X (1 .. h[q])]
<1>1. IsFiniteSet(G)
  BY QueueItemAssumption, FS_Subset DEF QueueItemAssumption
<1>2. r \in [G -> R] /\ \A x \in R : \E q \in G : r[q] = x
  OBVIOUS
<1>3. \A x \in R : IsFiniteSet(x)
  <2> SUFFICES ASSUME NEW q \in G PROVE IsFiniteSet({q} \X (1 .. h[q]))
    OBVIOUS
  <2>1. h[q] \in Nat
    OBVIOUS
  <2> QED BY <2>1, RowCounted DEF Row
<1> HIDE DEF r, R
<1>4. r \in Surjection(G, R)
  BY <1>2, Zenon DEF Surjection
<1>5. IsFiniteSet(R)
  BY <1>1, <1>4, FS_Surjection
<1>6. IsFiniteSet(UNION R)
  BY <1>3, <1>5, FS_UNION
<1> QED BY <1>6 DEF R

\* The number of packets changes with that of the tx queue that changes.
LEMMA RowsChange ==
    ASSUME NEW h \in [TxQueues -> Nat], NEW q \in TxQueues, NEW n \in Nat
    PROVE  /\ Cardinality(Rows(h)) \in Nat
           /\ Cardinality(Rows([h EXCEPT ![q] = n])) = Cardinality(Rows(h)) - h[q] + n
<1> DEFINE G == TxQueues \ {q}
           Rest == UNION {{r} \X (1 .. h[r]) : r \in G}
           d == [h EXCEPT ![q] = n]
           A == Row(q, h[q])
           B == Row(q, n)
<1>1. h[q] \in Nat
  OBVIOUS
<1>2. d[q] = n /\ \A r \in G : d[r] = h[r]
  OBVIOUS
<1> HIDE DEF d
<1>3. Rows(h) = Rest \cup A
  <2>1. \A x : x \in Rows(h) <=> \E r \in TxQueues : x \in {r} \X (1 .. h[r])
    BY DEF Rows
  <2>2. \A x : x \in Rest <=> \E r \in G : x \in {r} \X (1 .. h[r])
    OBVIOUS
  <2>3. A = {q} \X (1 .. h[q])
    BY DEF Row
  <2> HIDE DEF Rest, A
  <2>4. \A x : x \in Rows(h) <=> x \in Rest \cup A
    BY <2>1, <2>2, <2>3
  <2> QED BY <2>4
<1>4. Rows(d) = Rest \cup B
  <2>1. \A x : x \in Rows(d) <=> \E r \in TxQueues : x \in {r} \X (1 .. d[r])
    BY DEF Rows
  <2>2. \A x : x \in Rest <=> \E r \in G : x \in {r} \X (1 .. h[r])
    OBVIOUS
  <2>3. B = {q} \X (1 .. d[q])
    BY <1>2 DEF Row
  <2> HIDE DEF Rest, B
  <2>4. \A x : x \in Rows(d) <=> x \in Rest \cup B
    BY <1>2, <2>1, <2>2, <2>3
  <2> QED BY <2>4
<1>5. Rest \cap A = {} /\ Rest \cap B = {}
  <2>1. \A x \in Rest : x[1] # q
    OBVIOUS
  <2>2. \A x \in A \cup B : x[1] = q
    BY DEF Row
  <2> HIDE DEF Rest, A, B
  <2> QED BY <2>1, <2>2
<1>6. IsFiniteSet(Rest) /\ Cardinality(Rest) \in Nat
  BY RowsFinite, FS_CardinalityType
<1>7. /\ IsFiniteSet(A) /\ Cardinality(A) = h[q]
      /\ IsFiniteSet(B) /\ Cardinality(B) = n
  BY <1>1, RowCounted
<1> HIDE DEF Rest, A, B
<1>8. Cardinality(Rest \cup A) = Cardinality(Rest) + h[q]
  <2>1. Cardinality(Rest \cup A) = Cardinality(Rest) + Cardinality(A) - Cardinality(Rest \cap A)
    BY <1>6, <1>7, FS_Union
  <2>2. Cardinality(Rest \cap A) = 0
    BY <1>5, FS_EmptySet
  <2> QED BY <1>1, <1>6, <1>7, <2>1, <2>2
<1>9. Cardinality(Rest \cup B) = Cardinality(Rest) + n
  <2>1. Cardinality(Rest \cup B) = Cardinality(Rest) + Cardinality(B) - Cardinality(Rest \cap B)
    BY <1>6, <1>7, FS_Union
  <2>2. Cardinality(Rest \cap B) = 0
    BY <1>5, FS_EmptySet
  <2> QED BY <1>6, <1>7, <2>1, <2>2
<1>10. Cardinality(Rows(d)) = Cardinality(Rows(h)) - h[q] + n /\ Cardinality(Rows(h)) \in Nat
  BY <1>1, <1>3, <1>4, <1>6, <1>8, <1>9
<1> QED BY <1>10 DEF d

\* Every packet handed to the device is counted on its way, be it waiting, sent or
\* discarded; and the packets of the other tx queues are not touched.
LEMMA StartTransmissionHanded ==
    ASSUME NetDeviceTypeOK, NEW q \in TxQueues, NEW qs \in Seq(Packet), qs # <<>>,
           NEW b, NEW dev, NEW lim, StartTransmission(q, qs, b, dev, lim)
    PROVE  /\ HandedTo(q)' = Len(wire[q]) + Len(qs) + nDiscarded[q]
           /\ \A r \in TxQueues \ {q} : HandedTo(r)' = HandedTo(r)
<1> DEFINE p == Head(qs)
<1>1. /\ devQueue' = [devQueue EXCEPT ![q] = Tail(qs)]
      /\ wire' = [wire EXCEPT ![q] = Append(@, p)]
      /\ nDiscarded' = nDiscarded
  BY DEF StartTransmission
<1>2. /\ devQueue \in [TxQueues -> Seq(Packet)] /\ wire \in [TxQueues -> Seq(Packet)]
      /\ nDiscarded \in [TxQueues -> Nat]
      /\ wire[q] \in Seq(Packet) /\ nDiscarded[q] \in Nat
  BY DEF NetDeviceTypeOK
<1> HIDE DEF p
<1>3. /\ devQueue'[q] = Tail(qs) /\ wire'[q] = Append(wire[q], p)
      /\ \A r \in TxQueues \ {q} : devQueue'[r] = devQueue[r] /\ wire'[r] = wire[r]
  BY <1>1, <1>2
<1>4. p \in Packet
  <2>1. Len(qs) \in Nat /\ Len(qs) # 0 /\ qs[1] \in Packet
    BY EmptySeq, LenProperties, ElementOfSeq
  <2> QED BY <2>1, HeadTailProperties DEF p
<1>5. Len(Append(wire[q], p)) = Len(wire[q]) + 1 /\ Len(wire[q]) \in Nat
  BY <1>2, <1>4, AppendProperties, LenProperties
<1>6. Len(Tail(qs)) = Len(qs) - 1 /\ Len(qs) \in Nat
  BY HeadTailProperties, LenProperties
<1>7. Len(wire[q]) + 1 + (Len(qs) - 1) + nDiscarded[q] = Len(wire[q]) + Len(qs) + nDiscarded[q]
  BY <1>2, <1>5, <1>6
<1> QED BY <1>1, <1>3, <1>5, <1>6, <1>7 DEF HandedTo

LEMMA DeviceSendHanded ==
    ASSUME NetDeviceTypeOK, NEW q \in TxQueues, NEW p \in Packet, DeviceSend(q, p)
    PROVE  /\ HandedTo(q)' = HandedTo(q) + 1
           /\ \A r \in TxQueues \ {q} : HandedTo(r)' = HandedTo(r)
<1>1. /\ devQueue \in [TxQueues -> Seq(Packet)] /\ wire \in [TxQueues -> Seq(Packet)]
      /\ nDiscarded \in [TxQueues -> Nat]
      /\ devQueue[q] \in Seq(Packet) /\ wire[q] \in Seq(Packet) /\ nDiscarded[q] \in Nat
  BY DEF NetDeviceTypeOK
<1> DEFINE a == Append(devQueue[q], p)
<1>2. /\ Len(devQueue[q]) \in Nat /\ Len(wire[q]) \in Nat
      /\ a \in Seq(Packet) /\ Len(a) = Len(devQueue[q]) + 1 /\ a # <<>>
  BY <1>1, AppendProperties, LenProperties
<1>3. /\ Len(wire[q]) + (Len(devQueue[q]) + 1) + nDiscarded[q] = HandedTo(q) + 1
      /\ Len(wire[q]) + Len(devQueue[q]) + (nDiscarded[q] + 1) = HandedTo(q) + 1
  BY <1>1, <1>2 DEF HandedTo
<1> HIDE DEF a
<1>4. CASE Discard(q, p)
  <2>1. /\ nDiscarded' = [nDiscarded EXCEPT ![q] = @ + 1]
        /\ devQueue' = devQueue /\ wire' = wire
    BY <1>4 DEF Discard
  <2>2. nDiscarded'[q] = nDiscarded[q] + 1 /\ \A r \in TxQueues \ {q} : nDiscarded'[r] = nDiscarded[r]
    BY <1>1, <2>1
  <2> QED BY <1>3, <2>1, <2>2 DEF HandedTo
<1>5. CASE SendBusy(q, p)
  <2>1. devQueue' = [devQueue EXCEPT ![q] = a] /\ wire' = wire /\ nDiscarded' = nDiscarded
    BY <1>5 DEF SendBusy, a
  <2>2. devQueue'[q] = a /\ \A r \in TxQueues \ {q} : devQueue'[r] = devQueue[r]
    BY <1>1, <2>1
  <2> QED BY <1>2, <1>3, <2>1, <2>2 DEF HandedTo
<1>6. CASE SendReady(q, p)
  <2>1. PICK over : StartTransmission(q, a, devBytes[q] + WireSize(p),
            m_stoppedByDevice[q] \/ ~ Fits(Len(a), devBytes[q] + WireSize(p), Mtu),
            m_stoppedByQueueLimits[q] \/ over)
    BY <1>6 DEF SendReady, a
  <2>2. /\ HandedTo(q)' = Len(wire[q]) + Len(a) + nDiscarded[q]
        /\ \A r \in TxQueues \ {q} : HandedTo(r)' = HandedTo(r)
    BY <1>2, <2>1, StartTransmissionHanded
  <2> QED BY <1>2, <1>3, <2>2
<1> QED BY <1>4, <1>5, <1>6 DEF DeviceSend

LEMMA TransmitCompleteHanded ==
    ASSUME NetDeviceTypeOK, NEW q \in TxQueues, TransmitComplete(q)
    PROVE  \A r \in TxQueues : HandedTo(r)' = HandedTo(r)
<1>1. CASE devQueue[q] = <<>>
  BY <1>1 DEF TransmitComplete, HandedTo
<1>2. CASE devQueue[q] # <<>>
  <2>1. StartTransmission(q, devQueue[q], devBytes[q],
                          m_stoppedByDevice[q], m_stoppedByQueueLimits[q])
    BY <1>2 DEF TransmitComplete
  <2>2. devQueue[q] \in Seq(Packet)
    BY DEF NetDeviceTypeOK
  <2>3. /\ HandedTo(q)' = Len(wire[q]) + Len(devQueue[q]) + nDiscarded[q]
        /\ \A r \in TxQueues \ {q} : HandedTo(r)' = HandedTo(r)
    BY <1>2, <2>1, <2>2, StartTransmissionHanded
  <2> QED BY <2>3 DEF HandedTo
<1> QED BY <1>1, <1>2

LEMMA HandedNat == ASSUME NetDeviceTypeOK, NEW q \in TxQueues PROVE HandedTo(q) \in Nat
<1>1. devQueue[q] \in Seq(Packet) /\ wire[q] \in Seq(Packet) /\ nDiscarded[q] \in Nat
  BY DEF NetDeviceTypeOK
<1>2. Len(devQueue[q]) \in Nat /\ Len(wire[q]) \in Nat
  BY <1>1, LenProperties
<1>3. \A a, b, c \in Nat : a + b + c \in Nat
  OBVIOUS
<1>4. Len(wire[q]) + Len(devQueue[q]) + nDiscarded[q] \in Nat
  BY <1>1, <1>2, <1>3
<1> QED BY <1>4 DEF HandedTo

LEMMA HandedType == NetDeviceTypeOK => Handed \in Nat
<1> SUFFICES ASSUME NetDeviceTypeOK PROVE Handed \in Nat
  OBVIOUS
<1>1. PICK h : h = [r \in TxQueues |-> HandedTo(r)]
  OBVIOUS
<1>2. h \in [TxQueues -> Nat]
  BY <1>1, HandedNat
<1>3. Rows(h) = UNION {{r} \X (1 .. HandedTo(r)) : r \in TxQueues}
  BY <1>1 DEF Rows
<1>4. IsFiniteSet(Rows(h))
  BY <1>2, RowsFinite DEF Rows
<1> QED BY <1>3, <1>4, FS_CardinalityType DEF Handed

LEMMA HandedGrows ==
    ASSUME NetDeviceTypeOK, NEW q \in TxQueues, HandedTo(q)' = HandedTo(q) + 1,
           \A r \in TxQueues \ {q} : HandedTo(r)' = HandedTo(r)
    PROVE  Handed' = Handed + 1
<1>1. PICK h : h = [r \in TxQueues |-> HandedTo(r)]
  OBVIOUS
<1>2. PICK d : d = [r \in TxQueues |-> HandedTo(r)']
  OBVIOUS
<1>3. h \in [TxQueues -> Nat] /\ h[q] \in Nat /\ h[q] + 1 \in Nat
  BY <1>1, HandedNat
<1>4. d = [h EXCEPT ![q] = h[q] + 1]
  BY <1>1, <1>2
<1>5. Handed = Cardinality(Rows(h))
  <2>1. Rows(h) = UNION {{r} \X (1 .. HandedTo(r)) : r \in TxQueues}
    BY <1>1 DEF Rows
  <2> QED BY <2>1 DEF Handed
<1>6. Handed' = Cardinality(Rows(d))
  <2>1. Rows(d) = UNION {{r} \X (1 .. HandedTo(r)') : r \in TxQueues}
    BY <1>2 DEF Rows
  <2> QED BY <2>1 DEF Handed
<1>7. /\ Cardinality(Rows(h)) \in Nat
      /\ Cardinality(Rows(d)) = Cardinality(Rows(h)) - h[q] + (h[q] + 1)
  BY <1>3, <1>4, RowsChange
<1> QED BY <1>3, <1>5, <1>6, <1>7

LEMMA HandedStays ==
    (\A r \in TxQueues : HandedTo(r)' = HandedTo(r)) => Handed' = Handed
<1> SUFFICES ASSUME \A r \in TxQueues : HandedTo(r)' = HandedTo(r) PROVE Handed' = Handed
  OBVIOUS
<1>1. UNION {{r} \X (1 .. HandedTo(r)') : r \in TxQueues}
        = UNION {{r} \X (1 .. HandedTo(r)) : r \in TxQueues}
  OBVIOUS
<1> QED BY <1>1 DEF Handed

\* What was dequeued and not dropped was handed to the device, but for a retained
\* packet; a peeked one is not counted as dequeued yet.
SentInv ==
    /\ FlowControlInv
    /\ nDequeued - nDropAfter - Len(m_requeued) + (IF m_peeked THEN 1 ELSE 0) = Handed

LEMMA SentInit == Init => SentInv
<1> SUFFICES ASSUME Init PROVE SentInv
  OBVIOUS
<1>1. /\ m_requeued = <<>> /\ m_peeked = FALSE /\ nDequeued = 0 /\ nDropAfter = 0
      /\ \A q \in TxQueues : HandedTo(q) = 0
  BY DEF Init, QueueDiscInit, NetDeviceInit, HandedTo
<1>2. UNION {{q} \X (1 .. HandedTo(q)) : q \in TxQueues} = {}
  <2>1. \A q \in TxQueues : 1 .. HandedTo(q) = {}
    BY <1>1
  <2> QED BY <2>1
<1>3. Handed = 0
  BY <1>2, FS_EmptySet DEF Handed
<1>4. nDequeued - nDropAfter - Len(m_requeued) + (IF m_peeked THEN 1 ELSE 0) = 0
  BY <1>1
<1> QED BY <1>3, <1>4, FlowControlInvInit DEF SentInv

LEMMA OtherSent ==
    ASSUME SentInv, FlowControlInv',
           UNCHANGED <<nDequeued, nDropAfter, m_requeued, m_peeked>>,
           \A r \in TxQueues : HandedTo(r)' = HandedTo(r)
    PROVE  SentInv'
BY HandedStays DEF SentInv

LEMMA PeekSent == ASSUME SentInv, FlowControlInv', PeekCall PROVE SentInv'
<1>1. PICK k \in 0 .. (IF Aqm THEN Len(queue) ELSE 0) :
          /\ m_requeued = <<>>
          /\ m_requeued' = IF k < Len(queue) THEN <<queue[k + 1]>> ELSE <<>>
          /\ m_peeked' = (k < Len(queue))
          /\ nDequeued' = nDequeued + k
          /\ nDropAfter' = nDropAfter + k
  BY DEF PeekCall, Peek, PacketDequeued
<1>2. nDequeued \in Nat /\ nDropAfter \in Nat /\ ~ m_peeked /\ queue \in Seq(Packet)
  BY <1>1 DEF SentInv, FlowControlInv, QueueDiscInv, QueueDiscTypeOK, PeekedIsRetained
<1>3. Len(queue) \in Nat /\ k \in Nat
  BY <1>2, LenProperties
<1>4. nDequeued - nDropAfter = Handed
  <2>1. Len(m_requeued) = 0
    BY <1>1
  <2> QED BY <1>2, <2>1 DEF SentInv
<1>5. \A r \in TxQueues : HandedTo(r)' = HandedTo(r)
  BY DEF PeekCall, deviceVars, HandedTo
<1>6. (nDequeued - nDropAfter)' = nDequeued - nDropAfter
  BY <1>1, <1>2, <1>3
<1>7. CASE k < Len(queue)
  <2>1. Len(m_requeued') = 1 /\ m_peeked'
    BY <1>1, <1>7
  <2> QED BY <1>2, <1>4, <1>5, <1>6, <2>1, HandedStays DEF SentInv
<1>8. CASE ~ (k < Len(queue))
  <2>1. Len(m_requeued') = 0 /\ ~ m_peeked'
    BY <1>1, <1>8
  <2> QED BY <1>2, <1>4, <1>5, <1>6, <2>1, HandedStays DEF SentInv
<1> QED BY <1>7, <1>8

LEMMA RestartSent ==
    ASSUME SentInv, FlowControlInv', NEW p, RestartWith(p) PROVE SentInv'
<1>1. QueueDiscInv /\ DeviceInv /\ NetDeviceTypeOK /\ QueueDiscTypeOK
  BY DEF SentInv, FlowControlInv, QueueDiscInv, DeviceInv
<1>2. p \in Packet /\ ~ m_peeked' /\ nDropAfter' = nDropAfter /\ nDequeued' \in Nat
  BY <1>1, DequeuePacketFacts DEF RestartWith
<1>3. p.txq \in TxQueues
  BY <1>2 DEF Packet
<1>4. nDequeued \in Nat /\ nDropAfter \in Nat
  BY <1>1 DEF QueueDiscTypeOK
<1>5. nDequeued' - nDropAfter' = Handed + 1 /\ Handed \in Nat
  <2>1. CASE TakeRequeued(p)
    <3>1. nDequeued' = nDequeued + (IF m_peeked THEN 1 ELSE 0) /\ Len(m_requeued) = 1
      BY <2>1 DEF TakeRequeued, PacketDequeued
    <3>2. nDequeued - nDropAfter - 1 + (IF m_peeked THEN 1 ELSE 0) = Handed
      BY <3>1 DEF SentInv
    <3> QED BY <1>1, <1>2, <1>4, <3>1, <3>2, HandedType
  <2>2. CASE TakeHead(p)
    <3>1. nDequeued' = nDequeued + 1 /\ Len(m_requeued) = 0 /\ ~ m_peeked
      BY <1>1, <2>2 DEF TakeHead, PacketDequeued, QueueDiscInv, PeekedIsRetained
    <3>2. nDequeued - nDropAfter = Handed
      BY <1>4, <3>1 DEF SentInv
    <3> QED BY <1>1, <1>2, <1>4, <3>1, <3>2, HandedType
  <2> QED BY <2>1, <2>2 DEF RestartWith, DequeuePacket
<1>6. CASE Requeue(p) /\ UNCHANGED deviceVars
  <2>1. Len(m_requeued') = 1 /\ \A r \in TxQueues : HandedTo(r)' = HandedTo(r)
    BY <1>6 DEF Requeue, deviceVars, HandedTo
  <2>2. Handed' = Handed
    BY <2>1, HandedStays
  <2> QED BY <1>2, <1>5, <2>1, <2>2 DEF SentInv
<1>7. CASE Sent(p)
  <2>1. m_requeued' = <<>> /\ DeviceSend(p.txq, p)
    BY <1>7 DEF Sent
  <2>2. Len(m_requeued') = 0 /\ Handed' = Handed + 1
    BY <1>1, <1>2, <1>3, <2>1, DeviceSendHanded, HandedGrows
  <2> QED BY <1>2, <1>5, <2>2 DEF SentInv
<1> QED BY <1>1, <1>3, <1>6, <1>7, TransmitCases

LEMMA SentNext == SentInv /\ [Next]_vars => SentInv'
<1> SUFFICES ASSUME SentInv, [Next]_vars PROVE SentInv'
  OBVIOUS
<1>1. FlowControlInv /\ FlowControlInv' /\ NetDeviceTypeOK
  BY FlowControlInvNext DEF SentInv, FlowControlInv, DeviceInv
<1>2. UNCHANGED <<devQueue, wire, nDiscarded>> => \A r \in TxQueues : HandedTo(r)' = HandedTo(r)
  BY DEF HandedTo
<1>3. ASSUME NEW s \in Sizes, NEW q \in TxQueues, Send(s, q) PROVE SentInv'
  <2>1. UNCHANGED <<nDequeued, nDropAfter, m_requeued, m_peeked, devQueue, wire, nDiscarded>>
    BY <1>3 DEF Send, Enqueue, deviceVars
  <2> QED BY <1>1, <1>2, <2>1, OtherSent
<1>4. CASE RestartDrop
  <2>1. /\ nDequeued' = nDequeued + 1 /\ nDropAfter' = nDropAfter + 1
        /\ UNCHANGED <<m_requeued, m_peeked, devQueue, wire, nDiscarded>>
    BY <1>4 DEF RestartDrop, DropAfterDequeue, PacketDequeued, deviceVars
  <2>2. nDequeued \in Nat /\ nDropAfter \in Nat
    BY <1>1 DEF FlowControlInv, QueueDiscInv, QueueDiscTypeOK
  <2>3. (nDequeued - nDropAfter)' = nDequeued - nDropAfter
    BY <2>1, <2>2
  <2>4. Handed' = Handed
    BY <1>2, <2>1, HandedStays
  <2> QED BY <1>1, <2>1, <2>3, <2>4 DEF SentInv
<1>5. CASE RestartNothing
  <2>1. UNCHANGED <<nDequeued, nDropAfter, m_requeued, m_peeked, devQueue, wire, nDiscarded>>
    BY <1>5 DEF RestartNothing, deviceVars, statVars
  <2> QED BY <1>1, <1>2, <2>1, OtherSent
<1>6. ASSUME NEW q \in TxQueues, WakeEvent(q) PROVE SentInv'
  <2>1. UNCHANGED <<nDequeued, nDropAfter, m_requeued, m_peeked, devQueue, wire, nDiscarded>>
    BY <1>6 DEF WakeEvent, WakeFires, statVars
  <2> QED BY <1>1, <1>2, <2>1, OtherSent
<1>7. ASSUME NEW q \in TxQueues, TransmitCompleteEvent(q) PROVE SentInv'
  <2>1. UNCHANGED <<nDequeued, nDropAfter, m_requeued, m_peeked>> /\ TransmitComplete(q)
    BY <1>7 DEF TransmitCompleteEvent, qdiscVars, statVars
  <2> QED BY <1>1, <2>1, TransmitCompleteHanded, OtherSent
<1>8. CASE UNCHANGED vars
  <2>1. UNCHANGED <<nDequeued, nDropAfter, m_requeued, m_peeked, devQueue, wire, nDiscarded>>
    BY <1>8 DEF vars, qdiscVars, statVars, deviceVars
  <2> QED BY <1>1, <1>2, <2>1, OtherSent
<1> QED BY <1>1, <1>3, <1>4, <1>5, <1>6, <1>7, <1>8, PeekSent, RestartSent
       DEF Next, RunStep, Restart

\* When nothing peeks at the root queue disc, nTotalSentPackets of GetStats is the
\* number of packets handed to the device, through drops and requeues, at every
\* moment.  (GetStats subtracts one for any retained packet, but a peeked one was
\* not counted as dequeued: while one is held, the sum is one short.)
THEOREM SentIsCounted ==
    ASSUME ~ RootPeek
    PROVE  Spec => []SentIsHandedToDevice
<1>1. SentInv /\ HeaderInv => SentIsHandedToDevice
  <2> SUFFICES ASSUME SentInv, HeaderInv PROVE GetStatsSent = Handed
    BY DEF SentIsHandedToDevice
  <2>1. nDequeued \in Nat /\ nDropAfter \in Nat /\ Len(m_requeued) \in Nat
    BY LenProperties DEF SentInv, FlowControlInv, QueueDiscInv, QueueDiscTypeOK
  <2>2. nDequeued - nDropAfter - Len(m_requeued) = Handed
    BY <2>1 DEF SentInv, HeaderInv
  <2> QED BY <2>1, <2>2 DEF GetStatsSent
<1>2. HeaderInv /\ [Next]_vars => HeaderInv'
  BY HeaderNext
<1> QED BY <1>1, <1>2, HeaderInit, SentInit, SentNext, PTL DEF Spec
-----------------------------------------------------------------------------
(* Refinement: with one tx queue, a lossy FIFO *)

\* A list is its head before its tail.
LEMMA Prefixed ==
    ASSUME NEW p \in Packet, NEW s \in Seq(Packet)
    PROVE  /\ <<p>> \o s \in Seq(Packet) /\ <<p>> \o s # <<>>
           /\ Head(<<p>> \o s) = p /\ Tail(<<p>> \o s) = s
<1> DEFINE f == <<p>> \o s
           n == Len(s)
<1>1. n \in Nat /\ <<p>> \in Seq(Packet) /\ Len(<<p>>) = 1 /\ <<p>>[1] = p
  BY LenProperties
<1>2. /\ f \in Seq(Packet) /\ Len(f) = 1 + n
      /\ \A i \in 1 .. 1 + n : f[i] = IF i <= 1 THEN p ELSE s[i - 1]
  <2>1. /\ f \in Seq(Packet) /\ Len(f) = Len(<<p>>) + Len(s)
        /\ \A i \in 1 .. Len(<<p>>) + Len(s) :
               f[i] = IF i <= Len(<<p>>) THEN <<p>>[i] ELSE s[i - Len(<<p>>)]
    BY <1>1, ConcatProperties
  <2> QED BY <1>1, <2>1
<1> HIDE DEF f, n
<1>3. f # <<>>
  BY <1>1, <1>2
<1>4. Head(f) = p
  <2>1. Head(f) = f[1] /\ 1 \in 1 .. 1 + n
    BY <1>1, <1>2
  <2> QED BY <1>2, <2>1
<1>5. /\ Tail(f) \in Seq(Packet) /\ Len(Tail(f)) = Len(f) - 1
      /\ \A i \in 1 .. Len(Tail(f)) : Tail(f)[i] = f[i + 1]
  BY <1>2, <1>3, HeadTailProperties
<1>6. Len(Tail(f)) = n /\ \A i \in 1 .. n : i + 1 \in 1 .. 1 + n /\ ~ (i + 1 <= 1) /\ (i + 1) - 1 = i
  BY <1>1, <1>2, <1>5
<1>7. \A i \in 1 .. Len(Tail(f)) : Tail(f)[i] = s[i]
  BY <1>2, <1>5, <1>6
<1>8. Tail(f) = s
  BY <1>5, <1>6, <1>7, SeqEqual DEF n
<1> QED BY <1>2, <1>3, <1>4, <1>8 DEF f

LEMMA HeadBeforeTail ==
    ASSUME NEW s \in Seq(Packet), s # <<>>
    PROVE  /\ s = <<Head(s)>> \o Tail(s)
           /\ Head(s) \in Packet /\ Tail(s) \in Seq(Packet)
<1>1. Head(s) \in Packet /\ Tail(s) \in Seq(Packet) /\ Tail(s) = SubSeq(s, 2, Len(s))
  BY HeadTailProperties, TailIsSubSeq
<1>2. 1 \in 1 .. Len(s) /\ Len(s) \in 1 .. Len(s) /\ 1 + 1 = 2 /\ Head(s) = s[1]
  <2>1. Len(s) \in Nat \ {0}
    BY EmptySeq
  <2> QED BY <2>1
<1>3. SubSeq(s, 1, Len(s)) = <<s[1]>> \o SubSeq(s, 1 + 1, Len(s))
  BY <1>2, SubSeqRecursiveFirst
<1>4. SubSeq(s, 1, Len(s)) = s
  BY SubSeqFull
<1> QED BY <1>1, <1>2, <1>3, <1>4

\* The packets in flight are those of the device queue, d, then those of the queue
\* disc, s.  The FIFO loses packets of the queue disc:
LEMMA LossBehind ==
    ASSUME NEW d \in Seq(Packet), NEW s \in Seq(Packet), NEW k \in 1 .. Len(s)
    PROVE  /\ Len(d) + k \in 1 .. Len(d \o s) /\ Len(d) + 1 \in 1 .. Len(d) + k
           /\ d \o SubSeq(s, k + 1, Len(s))
                = SubSeq(d \o s, 1, (Len(d) + 1) - 1)
                  \o SubSeq(d \o s, (Len(d) + k) + 1, Len(d \o s))
<1> DEFINE m == Len(d)
           n == Len(s)
           f == d \o s
<1>1. m \in Nat /\ n \in Nat /\ k \in 1 .. n
  BY LenProperties
<1>2. /\ f \in Seq(Packet) /\ Len(f) = m + n
      /\ \A i \in 1 .. m + n : f[i] = IF i <= m THEN d[i] ELSE s[i - m]
      /\ \A i \in 1 .. m + n : f[i] \in Packet
  <2>1. /\ f \in Seq(Packet) /\ Len(f) = m + n
        /\ \A i \in 1 .. m + n : f[i] = IF i <= m THEN d[i] ELSE s[i - m]
    BY ConcatProperties
  <2> HIDE DEF f, m, n
  <2> QED BY <2>1, ElementOfSeq
<1>3. \A i \in 1 .. n : s[i] \in Packet
  BY ElementOfSeq
<1> HIDE DEF f, m, n
<1>4. SubSeq(f, 1, m) = d
  <2> DEFINE t == SubSeq(f, 1, m)
  <2>1. 1 \in Int /\ m \in Int /\ \A i \in 1 .. m : i \in 1 .. m + n /\ i <= m
    BY <1>1
  <2>2. /\ t \in Seq(Packet) /\ Len(t) = IF 1 <= m THEN m - 1 + 1 ELSE 0
        /\ \A i \in 1 .. m - 1 + 1 : t[i] = f[1 + i - 1]
    <3>1. \A i \in 1 .. m : f[i] \in Packet
      BY <1>2, <2>1
    <3> QED BY <2>1, <3>1, SubSeqProperties
  <2>3. Len(t) = m /\ m - 1 + 1 = m /\ \A i \in 1 .. m : 1 + i - 1 = i
    BY <1>1, <2>2
  <2> HIDE DEF t
  <2>4. \A i \in 1 .. Len(t) : t[i] = d[i]
    BY <1>2, <2>1, <2>2, <2>3
  <2>5. t = d
    BY <2>2, <2>3, <2>4, SeqEqual DEF m
  <2> QED BY <2>5 DEF t
<1>5. SubSeq(f, (m + k) + 1, m + n) = SubSeq(s, k + 1, n)
  <2> DEFINE a == (m + k) + 1
             b == m + n
             t == SubSeq(f, a, b)
             u == SubSeq(s, k + 1, n)
  <2>1. /\ a \in Int /\ b \in Int /\ k + 1 \in Int /\ n \in Int
        /\ a = (m + k) + 1 /\ b = m + n
        /\ \A i \in a .. b : i \in 1 .. m + n
        /\ \A i \in k + 1 .. n : i \in 1 .. n
    BY <1>1
  <2> HIDE DEF a, b
  <2>2. /\ t \in Seq(Packet) /\ Len(t) = IF a <= b THEN b - a + 1 ELSE 0
        /\ \A i \in 1 .. b - a + 1 : t[i] = f[a + i - 1]
    <3>1. \A i \in a .. b : f[i] \in Packet
      BY <1>2, <2>1
    <3> QED BY <2>1, <3>1, SubSeqProperties
  <2>3. /\ u \in Seq(Packet) /\ Len(u) = IF k + 1 <= n THEN n - (k + 1) + 1 ELSE 0
        /\ \A i \in 1 .. n - (k + 1) + 1 : u[i] = s[(k + 1) + i - 1]
    <3>1. \A i \in k + 1 .. n : s[i] \in Packet
      BY <1>3, <2>1
    <3> QED BY <2>1, <3>1, SubSeqProperties
  <2> HIDE DEF t, u
  <2>4. /\ b - a + 1 = n - k /\ n - (k + 1) + 1 = n - k
        /\ (a <= b <=> k + 1 <= n)
    BY <1>1, <2>1
  <2>5. Len(t) = Len(u) /\ Len(t) = n - k
    <3>1. Len(u) = n - k
      BY <1>1, <2>3, <2>4
    <3>2. Len(t) = n - k
      BY <1>1, <2>2, <2>4
    <3> QED BY <3>1, <3>2
  <2>6. ASSUME NEW i \in 1 .. n - k PROVE t[i] = u[i]
    <3>1. /\ a + i - 1 = m + k + i /\ (k + 1) + i - 1 = k + i
          /\ m + k + i \in 1 .. m + n /\ ~ (m + k + i <= m) /\ (m + k + i) - m = k + i
      BY <1>1, <2>1
    <3>2. t[i] = f[m + k + i] /\ u[i] = s[k + i]
      <4>1. t[i] = f[a + i - 1] /\ u[i] = s[(k + 1) + i - 1]
        BY <2>2, <2>3, <2>4
      <4> QED BY <3>1, <4>1
    <3>3. f[m + k + i] = s[k + i]
      BY <1>2, <3>1
    <3> QED BY <3>2, <3>3
  <2>7. t = u
    BY <2>2, <2>3, <2>5, <2>6, SeqEqual
  <2> QED BY <2>1, <2>7 DEF t, u
<1>6. (m + 1) - 1 = m /\ m + k \in 1 .. m + n /\ m + 1 \in 1 .. m + k
  BY <1>1
<1> QED BY <1>2, <1>4, <1>5, <1>6 DEF f, m, n

\* it accepts a packet behind the others;
LEMMA AcceptBehind ==
    ASSUME NEW d \in Seq(Packet), NEW r \in Seq(Packet), NEW s \in Seq(Packet), NEW p \in Packet
    PROVE  d \o (r \o Append(s, p)) = Append(d \o (r \o s), p)
<1>1. <<p>> \in Seq(Packet) /\ r \o s \in Seq(Packet) /\ d \o (r \o s) \in Seq(Packet)
  BY ConcatProperties
<1>2. Append(s, p) = s \o <<p>> /\ Append(d \o (r \o s), p) = (d \o (r \o s)) \o <<p>>
  BY <1>1, AppendIsConcat
<1>3. r \o (s \o <<p>>) = (r \o s) \o <<p>>
  BY <1>1, ConcatAssociative
<1>4. d \o ((r \o s) \o <<p>>) = (d \o (r \o s)) \o <<p>>
  BY <1>1, ConcatAssociative
<1> QED BY <1>2, <1>3, <1>4

\* a packet that moves from the queue disc to the device keeps its place;
LEMMA MovesDown ==
    ASSUME NEW d \in Seq(Packet), NEW s \in Seq(Packet), NEW p \in Packet
    PROVE  Append(d, p) \o s = d \o (<<p>> \o s)
<1>1. <<p>> \in Seq(Packet)
  OBVIOUS
<1>2. Append(d, p) = d \o <<p>>
  BY AppendIsConcat
<1> QED BY <1>1, <1>2, ConcatAssociative

\* and it delivers the first.
LEMMA FirstOfConcat ==
    ASSUME NEW d \in Seq(Packet), NEW s \in Seq(Packet), d # <<>>
    PROVE  /\ d \o s # <<>> /\ Head(d \o s) = Head(d)
           /\ Tail(d \o s) = Tail(d) \o s
<1> DEFINE h == Head(d)
           t == Tail(d)
<1>1. h \in Packet /\ t \in Seq(Packet) /\ <<h>> \in Seq(Packet)
  BY HeadTailProperties
<1>2. d = <<h>> \o t
  BY HeadBeforeTail
<1> HIDE DEF h, t
<1>3. d \o s = <<h>> \o (t \o s) /\ t \o s \in Seq(Packet)
  BY <1>1, <1>2, ConcatAssociative, ConcatProperties
<1>4. Head(<<h>> \o (t \o s)) = h /\ Tail(<<h>> \o (t \o s)) = t \o s
  BY <1>1, <1>3, Prefixed
<1> QED BY <1>3, <1>4 DEF h, t

\* The packets in the queue disc, the retained one first.
InDisc == m_requeued \o queue

InFlight == devQueue[TheQueue] \o m_requeued \o queue

LEMMA TheQueueIsUnique ==
    ASSUME SingleQueue
    PROVE  TheQueue \in TxQueues /\ \A q \in TxQueues : q = TheQueue
BY DEF SingleQueue, TheQueue

LEMMA ThreeLists ==
    \A s, t, u \in Seq(Packet) : (s \o t) \o u = s \o (t \o u)
BY ConcatAssociative

LEMMA InFlightTypes ==
    ASSUME FlowControlInv, TheQueue \in TxQueues
    PROVE  /\ queue \in Seq(Packet) /\ m_requeued \in Seq(Packet) /\ InDisc \in Seq(Packet)
           /\ devQueue[TheQueue] \in Seq(Packet) /\ wire[TheQueue] \in Seq(Packet)
           /\ InFlight = devQueue[TheQueue] \o InDisc /\ InFlight \in Seq(Packet)
<1>1. queue \in Seq(Packet) /\ m_requeued \in Seq(Packet)
  BY DEF FlowControlInv, QueueDiscInv, QueueDiscTypeOK
<1>2. devQueue[TheQueue] \in Seq(Packet) /\ wire[TheQueue] \in Seq(Packet)
  BY DEF FlowControlInv, DeviceInv, NetDeviceTypeOK
<1>3. InDisc \in Seq(Packet)
  BY <1>1, ConcatProperties DEF InDisc
<1>4. InFlight = devQueue[TheQueue] \o InDisc
  BY <1>1, <1>2, ThreeLists DEF InDisc, InFlight
<1>5. devQueue[TheQueue] \o InDisc \in Seq(Packet)
  BY <1>2, <1>3, ConcatProperties
<1> QED BY <1>1, <1>2, <1>3, <1>4, <1>5

\* The invariant holds after the step too, and so do the types.
LEMMA InFlightTypesAfter ==
    ASSUME FlowControlInv', TheQueue \in TxQueues
    PROVE  /\ InDisc' \in Seq(Packet)
           /\ devQueue'[TheQueue] \in Seq(Packet)
           /\ InFlight' = devQueue'[TheQueue] \o InDisc'
<1>1. queue' \in Seq(Packet) /\ m_requeued' \in Seq(Packet)
  BY DEF FlowControlInv, QueueDiscInv, QueueDiscTypeOK
<1>2. devQueue'[TheQueue] \in Seq(Packet)
  BY DEF FlowControlInv, DeviceInv, NetDeviceTypeOK
<1>3. m_requeued' \o queue' \in Seq(Packet)
  BY <1>1, ConcatProperties
<1>4. (devQueue'[TheQueue] \o m_requeued') \o queue'
        = devQueue'[TheQueue] \o (m_requeued' \o queue')
  BY <1>1, <1>2, ThreeLists
<1> QED BY <1>2, <1>3, <1>4 DEF InDisc, InFlight

\* A step that removes packets at the head of the queue disc, and leaves the device
\* alone, loses them.
LEMMA LoseStep ==
    ASSUME FlowControlInv, FlowControlInv', TheQueue \in TxQueues,
           NEW k \in 1 .. Len(InDisc), InDisc' = SubSeq(InDisc, k + 1, Len(InDisc)),
           UNCHANGED <<devQueue[TheQueue], wire[TheQueue]>>
    PROVE  Fifo!Lose
<1>1. PICK d : d = devQueue[TheQueue]
  OBVIOUS
<1>2. PICK s : s = InDisc
  OBVIOUS
<1>3. PICK f : f = InFlight
  OBVIOUS
<1>4. d \in Seq(Packet) /\ s \in Seq(Packet) /\ k \in 1 .. Len(s) /\ f = d \o s
  BY <1>1, <1>2, <1>3, InFlightTypes
<1>5. InFlight' = d \o SubSeq(s, k + 1, Len(s))
  BY <1>1, <1>2, InFlightTypesAfter
<1>6. /\ Len(d) + k \in 1 .. Len(f) /\ Len(d) + 1 \in 1 .. Len(d) + k
      /\ InFlight' = SubSeq(f, 1, (Len(d) + 1) - 1) \o SubSeq(f, (Len(d) + k) + 1, Len(f))
  BY <1>4, <1>5, LossBehind
<1>7. \E j \in 1 .. Len(f) : \E i \in 1 .. j :
          InFlight' = SubSeq(f, 1, i - 1) \o SubSeq(f, j + 1, Len(f))
  BY <1>6
<1> QED BY <1>3, <1>7 DEF Fifo!Lose, InFlight

\* A step that takes the first packet in flight from the device delivers it.
LEMMA DeliverStep ==
    ASSUME FlowControlInv, FlowControlInv', TheQueue \in TxQueues,
           NEW d \in Seq(Packet), d # <<>>, InFlight = d \o InDisc',
           devQueue'[TheQueue] = Tail(d),
           wire'[TheQueue] = Append(wire[TheQueue], Head(d))
    PROVE  Fifo!Deliver
<1>1. InFlight' = Tail(d) \o InDisc' /\ InDisc' \in Seq(Packet)
  BY InFlightTypesAfter
<1>2. PICK s : s = InDisc'
  OBVIOUS
<1>3. d \o s # <<>> /\ Head(d \o s) = Head(d) /\ Tail(d \o s) = Tail(d) \o s
  BY <1>1, <1>2, FirstOfConcat
<1>4. /\ InFlight # <<>> /\ InFlight' = Tail(InFlight)
      /\ wire'[TheQueue] = Append(wire[TheQueue], Head(InFlight))
  BY <1>1, <1>2, <1>3
<1> QED BY <1>4 DEF Fifo!Deliver, InFlight

LEMMA StutterStep ==
    ASSUME UNCHANGED <<InFlight, wire[TheQueue]>>
    PROVE  [Fifo!Next]_<<InFlight, wire[TheQueue]>>
OBVIOUS

\* Transmission starts with the list d in the device queue.
LEMMA StartTransmissionDelivers ==
    ASSUME FlowControlInv, FlowControlInv', TheQueue \in TxQueues,
           NEW d \in Seq(Packet), d # <<>>, InFlight = d \o InDisc',
           NEW b, NEW dev, NEW lim, StartTransmission(TheQueue, d, b, dev, lim)
    PROVE  Fifo!Deliver
<1>1. /\ devQueue' = [devQueue EXCEPT ![TheQueue] = Tail(d)]
      /\ wire' = [wire EXCEPT ![TheQueue] = Append(@, Head(d))]
  BY DEF StartTransmission
<1>2. devQueue \in [TxQueues -> Seq(Packet)] /\ wire \in [TxQueues -> Seq(Packet)]
  BY DEF FlowControlInv, DeviceInv, NetDeviceTypeOK
<1>3. devQueue'[TheQueue] = Tail(d) /\ wire'[TheQueue] = Append(wire[TheQueue], Head(d))
  BY <1>1, <1>2
<1> QED BY <1>3, DeliverStep

FifoStep == [Fifo!Next]_<<InFlight, wire[TheQueue]>>

LEMMA FifoSteps ==
    /\ Fifo!Accept \/ Fifo!Lose \/ Fifo!Deliver => FifoStep
    /\ UNCHANGED <<InFlight, wire[TheQueue]>> => FifoStep
    /\ UNCHANGED <<queue, m_requeued, devQueue, wire>> => FifoStep
BY DEF Fifo!Next, FifoStep, InFlight

LEMMA SendSteps ==
    ASSUME FlowControlInv, FlowControlInv', TheQueue \in TxQueues,
           NEW s \in Sizes, NEW t \in TxQueues, Send(s, t)
    PROVE  FifoStep
<1> DEFINE p == [id |-> nReceived + 1, size |-> s, txq |-> t]
<1>1. nReceived \in Nat /\ nReceived < MaxPackets /\ MaxPackets \in Nat
  BY FlowControlAssumption
     DEF FlowControlAssumption, FlowControlInv, QueueDiscInv, QueueDiscTypeOK, Send
<1>2. p \in Packet /\ p \in BoundedItem
  <2>1. nReceived + 1 \in 1 .. MaxPackets /\ nReceived + 1 \in Nat \ {0}
    BY <1>1
  <2> QED BY <2>1 DEF Packet, BoundedItem
<1>3. Enqueue(p) /\ devQueue' = devQueue /\ wire' = wire
  BY DEF Send, deviceVars
<1> HIDE DEF p
<1>4. m_requeued' = m_requeued
  BY <1>3 DEF Enqueue
<1>5. CASE Admit(p)
  <2>1. queue' = Append(queue, p)
    BY <1>5 DEF Admit
  <2>2. PICK f : f = InFlight
    OBVIOUS
  <2>3. /\ queue \in Seq(Packet) /\ m_requeued \in Seq(Packet)
        /\ devQueue[TheQueue] \in Seq(Packet) /\ f = devQueue[TheQueue] \o (m_requeued \o queue)
    BY <2>2, InFlightTypes DEF InDisc
  <2>4. InFlight' = devQueue[TheQueue] \o (m_requeued \o Append(queue, p))
    BY <1>3, <1>4, <2>1, InFlightTypesAfter DEF InDisc
  <2>5. InFlight' = Append(f, p)
    BY <1>2, <2>3, <2>4, AcceptBehind
  <2>6. Fifo!Accept
    BY <1>2, <1>3, <2>2, <2>5 DEF Fifo!Accept, InFlight
  <2> QED BY <2>6, FifoSteps
<1>6. CASE DropBeforeEnqueue
  <2>1. queue' = queue
    BY <1>6 DEF DropBeforeEnqueue
  <2> QED BY <1>3, <1>4, <2>1, FifoSteps
<1> QED BY <1>3, <1>5, <1>6 DEF Enqueue

\* A peek loses the packets that the discipline drops on the way.
LEMMA PeekSteps ==
    ASSUME FlowControlInv, FlowControlInv', TheQueue \in TxQueues, PeekCall
    PROVE  FifoStep
<1>1. PICK k \in 0 .. (IF Aqm THEN Len(queue) ELSE 0) :
          /\ m_requeued = <<>>
          /\ queue # <<>>
          /\ m_requeued' = IF k < Len(queue) THEN <<queue[k + 1]>> ELSE <<>>
          /\ queue' = SubSeq(queue, k + 2, Len(queue))
  BY DEF PeekCall, Peek
<1>2. devQueue' = devQueue /\ wire' = wire
  BY DEF PeekCall, deviceVars
<1>3. queue \in Seq(Packet) /\ Len(queue) \in Nat
  BY InFlightTypes, LenProperties
<1>4. k \in 0 .. Len(queue)
  BY <1>1, <1>3, QueueDiscAssumption
<1>5. InDisc = queue
  BY <1>1, <1>3, ConcatEmptySeq DEF InDisc
<1>6. InDisc' = SubSeq(queue, k + 1, Len(queue))
  <2>1. CASE k < Len(queue)
    <3>1. k + 1 \in 1 .. Len(queue) /\ Len(queue) \in k + 1 .. Len(queue) /\ (k + 1) + 1 = k + 2
      BY <1>3, <1>4, <2>1
    <3>2. SubSeq(queue, k + 1, Len(queue)) = <<queue[k + 1]>> \o SubSeq(queue, (k + 1) + 1, Len(queue))
      BY <1>3, <3>1, SubSeqRecursiveFirst
    <3> QED BY <1>1, <2>1, <3>1, <3>2 DEF InDisc
  <2>2. CASE ~ (k < Len(queue))
    <3>1. /\ k + 1 \in Int /\ k + 2 \in Int /\ Len(queue) \in Int
          /\ Len(queue) < k + 1 /\ Len(queue) < k + 2
      BY <1>3, <1>4, <2>2
    <3>2. SubSeq(queue, k + 1, Len(queue)) = <<>> /\ queue' = <<>> /\ m_requeued' = <<>>
      BY <1>1, <2>2, <3>1, SubSeqEmpty
    <3>3. <<>> \o <<>> = <<>>
      <4>1. <<>> \in Seq(Packet)
        OBVIOUS
      <4> QED BY <4>1, ConcatEmptySeq
    <3>4. InDisc' = <<>>
      BY <3>2, <3>3, Zenon DEF InDisc
    <3> QED BY <3>2, <3>4
  <2> QED BY <2>1, <2>2
<1>7. CASE k = 0
  <2>1. InDisc' = InDisc
    BY <1>3, <1>5, <1>6, <1>7, SubSeqFull
  <2>2. InFlight' = InFlight
    BY <1>2, <2>1, InFlightTypes, InFlightTypesAfter
  <2> QED BY <1>2, <2>2, FifoSteps
<1>8. CASE k # 0
  <2>1. k \in 1 .. Len(InDisc)
    BY <1>3, <1>4, <1>5, <1>8
  <2>2. Fifo!Lose
    BY <1>2, <1>5, <1>6, <2>1, LoseStep
  <2> QED BY <2>2, FifoSteps
<1> QED BY <1>7, <1>8

\* The packet that DequeuePacket returns is the first of the queue disc.
LEMMA DequeueFirst ==
    ASSUME FlowControlInv, TheQueue \in TxQueues, NEW p, DequeuePacket(p)
    PROVE  p \in Packet /\ queue' \in Seq(Packet) /\ InDisc = <<p>> \o queue'
<1>1. p \in Packet /\ queue' \in Seq(Packet)
  BY DequeuePacketFacts DEF FlowControlInv
<1>2. queue \in Seq(Packet)
  BY InFlightTypes
<1>3. CASE TakeRequeued(p)
  <2>1. m_requeued = <<p>> /\ queue' = queue
    BY <1>3 DEF TakeRequeued
  <2>2. InDisc = <<p>> \o queue'
    BY <2>1, Zenon DEF InDisc
  <2> QED BY <1>1, <2>2
<1>4. CASE TakeHead(p)
  <2>1. m_requeued = <<>> /\ queue # <<>> /\ p = Head(queue) /\ queue' = Tail(queue)
    BY <1>4 DEF TakeHead
  <2>2. InDisc = queue
    BY <1>2, <2>1, ConcatEmptySeq DEF InDisc
  <2> QED BY <1>2, <2>1, <2>2, HeadBeforeTail
<1> QED BY <1>1, <1>3, <1>4 DEF DequeuePacket

\* The first packet of the queue disc is gone.
LEMMA LoseFirst ==
    ASSUME FlowControlInv, FlowControlInv', TheQueue \in TxQueues,
           NEW p \in Packet, NEW t \in Seq(Packet), InDisc = <<p>> \o t, InDisc' = t,
           UNCHANGED <<devQueue[TheQueue], wire[TheQueue]>>
    PROVE  Fifo!Lose
<1>1. PICK s : s = InDisc
  OBVIOUS
<1>2. s \in Seq(Packet) /\ s # <<>> /\ Tail(s) = t
  BY <1>1, Prefixed
<1>3. Len(s) \in Nat \ {0}
  BY <1>2, EmptySeq
<1>4. 1 \in 1 .. Len(s) /\ 1 + 1 = 2
  BY <1>3
<1>5. t = SubSeq(s, 1 + 1, Len(s))
  BY <1>2, <1>4, TailIsSubSeq
<1> QED BY <1>1, <1>4, <1>5, LoseStep

\* The device discards the packet, or it keeps its place at the end of the device
\* queue, whose first packet may leave at once.
LEMMA RestartSteps ==
    ASSUME FlowControlInv, FlowControlInv', SingleQueue, NEW p, RestartWith(p)
    PROVE  FifoStep
<1>1. TheQueue \in TxQueues /\ p \in Packet /\ p.txq = TheQueue
  <2>1. TheQueue \in TxQueues /\ \A q \in TxQueues : q = TheQueue
    BY TheQueueIsUnique
  <2>2. p \in Packet
    BY <2>1, DequeueFirst DEF RestartWith
  <2> QED BY <2>1, <2>2 DEF Packet
<1>2. queue' \in Seq(Packet) /\ InDisc = <<p>> \o queue'
  BY <1>1, DequeueFirst DEF RestartWith
<1>3. m_requeued' = <<>> /\ DeviceSend(TheQueue, p)
  <2>1. Sent(p)
    BY <1>1, TransmitCases DEF FlowControlInv
  <2> QED BY <1>1, <2>1 DEF Sent
<1>4. InDisc' = queue'
  BY <1>2, <1>3, ConcatEmptySeq DEF InDisc
<1>5. PICK d : d = Append(devQueue[TheQueue], p)
  OBVIOUS
<1>6. d \in Seq(Packet) /\ d # <<>> /\ InFlight = d \o InDisc'
  <2>1. devQueue[TheQueue] \in Seq(Packet) /\ InFlight = devQueue[TheQueue] \o InDisc
    BY <1>1, InFlightTypes
  <2>2. d \o queue' = devQueue[TheQueue] \o (<<p>> \o queue')
    BY <1>1, <1>2, <1>5, <2>1, MovesDown
  <2>3. d \in Seq(Packet) /\ d # <<>>
    BY <1>1, <1>5, <2>1, AppendProperties
  <2> QED BY <1>2, <1>4, <2>1, <2>2, <2>3
<1>7. CASE Discard(TheQueue, p)
  <2>1. devQueue' = devQueue /\ wire' = wire
    BY <1>7 DEF Discard
  <2>2. Fifo!Lose
    BY <1>1, <1>2, <1>4, <2>1, LoseFirst
  <2> QED BY <2>2, FifoSteps
<1>8. CASE SendBusy(TheQueue, p)
  <2>1. devQueue' = [devQueue EXCEPT ![TheQueue] = d] /\ wire' = wire
    BY <1>5, <1>8 DEF SendBusy
  <2>2. devQueue'[TheQueue] = d
    BY <1>1, <2>1 DEF FlowControlInv, DeviceInv, NetDeviceTypeOK
  <2>3. InFlight' = InFlight
    BY <1>1, <1>6, <2>2, InFlightTypesAfter
  <2> QED BY <2>1, <2>3, FifoSteps
<1>9. CASE SendReady(TheQueue, p)
  <2>1. PICK over : StartTransmission(TheQueue, d, devBytes[TheQueue] + WireSize(p),
            m_stoppedByDevice[TheQueue]
                \/ ~ Fits(Len(d), devBytes[TheQueue] + WireSize(p), Mtu),
            m_stoppedByQueueLimits[TheQueue] \/ over)
    BY <1>5, <1>9 DEF SendReady
  <2>2. Fifo!Deliver
    BY <1>1, <1>6, <2>1, StartTransmissionDelivers
  <2> QED BY <2>2, FifoSteps
<1> QED BY <1>3, <1>7, <1>8, <1>9 DEF DeviceSend

LEMMA RestartDropSteps ==
    ASSUME FlowControlInv, FlowControlInv', TheQueue \in TxQueues, RestartDrop
    PROVE  FifoStep
<1>1. /\ m_requeued = <<>> /\ m_requeued' = <<>> /\ queue # <<>> /\ queue' = Tail(queue)
      /\ devQueue' = devQueue /\ wire' = wire
  BY DEF RestartDrop, DropAfterDequeue, deviceVars
<1>2. queue \in Seq(Packet)
  BY InFlightTypes
<1>3. /\ queue = <<Head(queue)>> \o Tail(queue)
      /\ Head(queue) \in Packet /\ Tail(queue) \in Seq(Packet)
  BY <1>1, <1>2, HeadBeforeTail
<1>4. InDisc = queue
  BY <1>1, <1>2, ConcatEmptySeq DEF InDisc
<1>5. InDisc' = Tail(queue)
  BY <1>1, <1>3, ConcatEmptySeq DEF InDisc
<1>6. PICK p, t : p = Head(queue) /\ t = Tail(queue)
  OBVIOUS
<1>7. InDisc = <<p>> \o t /\ InDisc' = t /\ p \in Packet /\ t \in Seq(Packet)
  BY <1>3, <1>4, <1>5, <1>6
<1>8. Fifo!Lose
  BY <1>1, <1>7, LoseFirst
<1> QED BY <1>8, FifoSteps

LEMMA TransmitCompleteSteps ==
    ASSUME FlowControlInv, FlowControlInv', TheQueue \in TxQueues,
           TransmitCompleteEvent(TheQueue)
    PROVE  FifoStep
<1>1. queue' = queue /\ m_requeued' = m_requeued /\ TransmitComplete(TheQueue)
  BY DEF TransmitCompleteEvent, qdiscVars
<1>2. CASE devQueue[TheQueue] = <<>>
  <2>1. devQueue' = devQueue /\ wire' = wire
    BY <1>1, <1>2 DEF TransmitComplete
  <2> QED BY <1>1, <2>1, FifoSteps
<1>3. CASE devQueue[TheQueue] # <<>>
  <2>1. PICK d : d = devQueue[TheQueue]
    OBVIOUS
  <2>2. StartTransmission(TheQueue, d, devBytes[TheQueue],
                          m_stoppedByDevice[TheQueue], m_stoppedByQueueLimits[TheQueue])
    BY <1>1, <1>3, <2>1 DEF TransmitComplete
  <2>3. d \in Seq(Packet) /\ d # <<>> /\ InFlight = d \o InDisc'
    <3>1. InDisc' = InDisc
      BY <1>1 DEF InDisc
    <3> QED BY <1>3, <2>1, <3>1, InFlightTypes
  <2>4. Fifo!Deliver
    BY <2>2, <2>3, StartTransmissionDelivers
  <2> QED BY <2>4, FifoSteps
<1> QED BY <1>2, <1>3

LEMMA FifoNext ==
    ASSUME SingleQueue
    PROVE  FlowControlInv /\ FlowControlInv' /\ [Next]_vars => FifoStep
<1> SUFFICES ASSUME FlowControlInv, FlowControlInv', [Next]_vars PROVE FifoStep
  OBVIOUS
<1>1. TheQueue \in TxQueues /\ \A q \in TxQueues : q = TheQueue
  BY TheQueueIsUnique
<1>2. ASSUME NEW s \in Sizes, NEW t \in TxQueues, Send(s, t) PROVE FifoStep
  BY <1>1, <1>2, SendSteps
<1>3. CASE PeekCall
  BY <1>1, <1>3, PeekSteps
<1>4. ASSUME NEW p, RestartWith(p) PROVE FifoStep
  BY <1>4, RestartSteps
<1>5. CASE RestartDrop
  BY <1>1, <1>5, RestartDropSteps
<1>6. CASE RestartNothing
  BY <1>6, FifoSteps DEF RestartNothing, deviceVars
<1>7. ASSUME NEW q \in TxQueues, WakeEvent(q) PROVE FifoStep
  BY <1>7, FifoSteps DEF WakeEvent, WakeFires
<1>8. ASSUME NEW q \in TxQueues, TransmitCompleteEvent(q) PROVE FifoStep
  BY <1>1, <1>8, TransmitCompleteSteps
<1>9. CASE UNCHANGED vars
  BY <1>9, FifoSteps DEF vars, qdiscVars, deviceVars
<1> QED BY <1>2, <1>3, <1>4, <1>5, <1>6, <1>7, <1>8, <1>9 DEF Next, RunStep, Restart

LEMMA FifoInit ==
    ASSUME SingleQueue
    PROVE  Init => Fifo!Init
<1> SUFFICES ASSUME Init PROVE Fifo!Init
  OBVIOUS
<1>1. TheQueue \in TxQueues
  BY TheQueueIsUnique
<1>2. /\ queue = <<>> /\ m_requeued = <<>>
      /\ devQueue[TheQueue] = <<>> /\ wire[TheQueue] = <<>>
  BY <1>1 DEF Init, QueueDiscInit, NetDeviceInit
<1>3. <<>> \o <<>> = <<>>
  <2>1. <<>> \in Seq(Packet)
    OBVIOUS
  <2> QED BY <2>1, ConcatEmptySeq
<1>4. devQueue[TheQueue] \o m_requeued \o queue = <<>>
  BY <1>2, <1>3, Zenon
<1> QED BY <1>2, <1>4 DEF Fifo!Init

\* With one tx queue, the queue disc on top of the device is a lossy FIFO, for every
\* discipline that drops from its head or its tail, every quota, every limit, with
\* and without queue limits, and with any program that peeks.
THEOREM FlowControlIsLossyFifo ==
    ASSUME SingleQueue
    PROVE  Spec => ImplementsLossyFifo
<1>1. Init => Fifo!Init
  BY FifoInit
<1>2. FlowControlInv /\ FlowControlInv' /\ [Next]_vars => FifoStep
  BY FifoNext
<1>3. FifoStep => [Fifo!Next]_<<devQueue[TheQueue] \o m_requeued \o queue, wire[TheQueue]>>
  BY DEF FifoStep, InFlight
<1> QED BY <1>1, <1>2, <1>3, FlowControlInvInit, FlowControlInvNext, PTL
       DEF Spec, ImplementsLossyFifo, Fifo!Spec
=============================================================================
