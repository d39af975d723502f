--------------------------- MODULE FqCoDelQueueDisc ---------------------------
(***************************************************************************)
(* FqCoDelQueueDisc of traffic-control/model/fq-codel-queue-disc.cc: one   *)
(* CoDel queue disc per flow, served by deficit round robin, new flows     *)
(* first.  Packets are known by their sizes.                               *)
(*                                                                         *)
(* The loop of DoDequeue is modelled one iteration per step, between       *)
(* DequeueBegins and the step that returns; m_dequeuing says that it       *)
(* executes, and nothing else happens meanwhile.  The CoDel queue disc of  *)
(* a flow is abstracted to what it may do: on a dequeue it drops any       *)
(* number of packets from the head before it returns the next one, and it  *)
(* returns none only when no packet is left.  (CoDel drops its last packet *)
(* only if MinBytes is 0, so the model drops more than the default does.)  *)
(***************************************************************************)
EXTENDS Integers, Sequences, FiniteSetsExt, SequencesExt

CONSTANTS Flows,      \* results of the classification, modulo m_flows
          Sizes,      \* packet sizes
          Quantum,    \* m_quantum, which CheckConfig requires not to be 0
          QdMax,      \* MaxSize of the queue disc and of the CoDel queue discs
          BatchSize   \* m_dropBatchSize

ASSUME FqCoDelAssumption ==
    /\ IsFiniteSet(Flows)
    /\ Sizes \subseteq Nat \ {0}
    /\ \E m \in Sizes : \A s \in Sizes : s <= m      \* packets have a largest size
    /\ Quantum \in Nat \ {0}
    /\ QdMax \in Nat \ {0}
    /\ BatchSize \in Nat

VARIABLES
    m_classes,      \* the flows created so far, in order (m_flowsIndices)
    child,          \* child[f]: the packets of flow f
    m_status,
    m_deficit,
    m_newFlows, m_oldFlows,
    m_nPackets,     \* of the queue disc, kept by callbacks of its children
    m_dequeuing,    \* DoDequeue executes
    served,         \* history: the flow served by the last DoDequeue
    lead            \* history: bytes flow f received more than flow g since both
                    \* are backlogged old flows

listVars == <<m_status, m_newFlows, m_oldFlows>>
vars == <<m_classes, child, m_deficit, listVars, m_nPackets, m_dequeuing, served, lead>>

NoFlow == "none"

Init ==
    /\ m_classes = <<>>
    /\ child = [f \in Flows |-> <<>>]
    /\ m_status = [f \in Flows |-> "INACTIVE"]
    /\ m_deficit = [f \in Flows |-> 0]
    /\ m_newFlows = <<>> /\ m_oldFlows = <<>>
    /\ m_nPackets = 0
    /\ m_dequeuing = FALSE
    /\ served = NoFlow
    /\ lead = [fg \in Flows \X Flows |-> 0]

Bytes(q) == FoldSeq(+, 0, q)

\* f and g compete: both are old flows with packets.
Compete(f, g) ==
    \A h \in {f, g} : m_status'[h] = "OLD_FLOW" /\ child'[h] # <<>>

\* The lead of each flow after size bytes of flow f are served.
Leads(f, size) ==
    lead' = [p \in Flows \X Flows |->
                 IF p[1] = p[2] \/ ~ Compete(p[1], p[2]) THEN 0
                 ELSE lead[p] + (IF f = p[1] THEN size ELSE 0)
                              - (IF f = p[2] THEN size ELSE 0)]

-----------------------------------------------------------------------------
(* DoEnqueue *)

\* The flow with the largest backlog in bytes, the first created among equals.
FatFlow(queues, flows) ==
    LET backlog(i) == Bytes(queues[flows[i]])
        first == CHOOSE i \in DOMAIN flows :
                     /\ \A j \in DOMAIN flows : backlog(j) <= backlog(i)
                     /\ \A j \in 1 .. i - 1 : backlog(j) < backlog(i)
    IN  flows[first]

\* The number of packets FqCoDelDrop drops from the head of the queue q.
DropCount(q) ==
    Min({n \in 1 .. Len(q) :
             n >= BatchSize \/ Bytes(SubSeq(q, 1, n)) >= Bytes(q) \div 2})

\* Mutant of Over: the limit is checked before the packet is counted.
OverBefore(n) == n - 1 > QdMax

\* GetCurrentSize () > GetMaxSize ()
Over(n) == n > QdMax

\* Mutant of Activate: an old flow is made new again.
ActivateAgain(f) ==
    /\ m_status' = [m_status EXCEPT ![f] = "NEW_FLOW"]
    /\ m_deficit' = [m_deficit EXCEPT ![f] = Quantum]
    /\ m_newFlows' = IF m_status[f] = "NEW_FLOW" THEN m_newFlows ELSE Append(m_newFlows, f)
    /\ m_oldFlows' = SelectSeq(m_oldFlows, LAMBDA g : g # f)

\* Mutant of Activate: the quantum is added to what the flow had left.
ActivateOnTop(f) ==
    /\ m_status' = [m_status EXCEPT ![f] = IF @ = "INACTIVE" THEN "NEW_FLOW" ELSE @]
    /\ m_deficit' = [m_deficit EXCEPT ![f] = IF m_status[f] = "INACTIVE" THEN @ + Quantum ELSE @]
    /\ m_newFlows' = IF m_status[f] = "INACTIVE" THEN Append(m_newFlows, f) ELSE m_newFlows
    /\ UNCHANGED m_oldFlows

\* An inactive flow becomes a new flow with a full quantum.
Activate(f) ==
    /\ IF m_status[f] = "INACTIVE"
       THEN /\ m_status' = [m_status EXCEPT ![f] = "NEW_FLOW"]
            /\ m_deficit' = [m_deficit EXCEPT ![f] = Quantum]
            /\ m_newFlows' = Append(m_newFlows, f)
       ELSE UNCHANGED <<m_status, m_deficit, m_newFlows>>
    /\ UNCHANGED m_oldFlows

\* DoEnqueue of a packet of flow f.  The CoDel queue disc of the flow refuses
\* the packet if it holds QdMax packets itself.
Enqueue(f, size) ==
    /\ ~ m_dequeuing
    /\ Activate(f)
    /\ m_classes' = IF Contains(m_classes, f) THEN m_classes ELSE Append(m_classes, f)
    /\ LET full   == Len(child[f]) + 1 > QdMax
           queues == IF full THEN child ELSE [child EXCEPT ![f] = Append(@, size)]
           n      == IF full THEN m_nPackets ELSE m_nPackets + 1
           fat    == FatFlow(queues, m_classes')
           drops  == DropCount(queues[fat])
       IN  IF Over(n)
           THEN /\ child' = [queues EXCEPT ![fat] = SubSeq(@, drops + 1, Len(@))]
                /\ m_nPackets' = n - drops
           ELSE child' = queues /\ m_nPackets' = n
    /\ Leads(NoFlow, 0)
    /\ UNCHANGED <<m_dequeuing, served>>

-----------------------------------------------------------------------------
(* DoDequeue *)

DequeueBegins ==
    /\ ~ m_dequeuing
    /\ m_dequeuing' = TRUE
    /\ UNCHANGED <<m_classes, child, m_deficit, listVars, m_nPackets, served, lead>>

\* The list whose head is considered.
Selected == IF m_newFlows # <<>> THEN m_newFlows ELSE m_oldFlows

\* Mutant of MoveToOld: the status is not updated.
MoveKeepsStatus(f) ==
    /\ IF m_newFlows # <<>>
       THEN m_newFlows' = Tail(m_newFlows) /\ m_oldFlows' = Append(m_oldFlows, f)
       ELSE m_oldFlows' = Append(Tail(m_oldFlows), f) /\ UNCHANGED m_newFlows
    /\ UNCHANGED m_status

\* The first flow of the selected list goes to the end of the old flows.
MoveToOld(f) ==
    /\ m_status' = [m_status EXCEPT ![f] = "OLD_FLOW"]
    /\ IF m_newFlows # <<>>
       THEN m_newFlows' = Tail(m_newFlows) /\ m_oldFlows' = Append(m_oldFlows, f)
       ELSE m_oldFlows' = Append(Tail(m_oldFlows), f) /\ UNCHANGED m_newFlows

\* The flow has used up its deficit.
Rotate ==
    /\ m_dequeuing
    /\ Selected # <<>>
    /\ LET f == Head(Selected)
       IN  /\ m_deficit[f] <= 0
           /\ m_deficit' = [m_deficit EXCEPT ![f] = @ + Quantum]
           /\ MoveToOld(f)
    /\ UNCHANGED <<m_classes, child, m_nPackets, m_dequeuing, served>>
    /\ Leads(NoFlow, 0)

\* Mutant of Charge: the deficit never goes below zero.
ChargeNonNegative(f, size) ==
    m_deficit' = [m_deficit EXCEPT ![f] = IF @ > size THEN @ - size ELSE 0]

Charge(f, size) == m_deficit' = [m_deficit EXCEPT ![f] = @ - size]

\* The flow found yields a packet, after CoDel dropped the first k.
Serve ==
    /\ m_dequeuing
    /\ Selected # <<>>
    /\ LET f == Head(Selected)
       IN  /\ m_deficit[f] > 0
           /\ \E k \in 0 .. Len(child[f]) - 1 :
                  /\ child' = [child EXCEPT ![f] = SubSeq(@, k + 2, Len(@))]
                  /\ m_nPackets' = m_nPackets - (k + 1)
                  /\ Charge(f, child[f][k + 1])
                  /\ served' = f
                  /\ UNCHANGED listVars
                  /\ Leads(f, child[f][k + 1])
    /\ m_dequeuing' = FALSE
    /\ UNCHANGED m_classes

\* A flow without packets: a new one becomes old, an old one inactive.
Retire(f) ==
    \/ /\ m_newFlows # <<>>
       /\ MoveToOld(f)
    \/ /\ m_newFlows = <<>>
       /\ m_status' = [m_status EXCEPT ![f] = "INACTIVE"]
       /\ m_oldFlows' = Tail(m_oldFlows)
       /\ UNCHANGED m_newFlows

\* The flow found yields no packet: it had none, or CoDel dropped them all.
Skip ==
    /\ m_dequeuing
    /\ Selected # <<>>
    /\ LET f == Head(Selected)
       IN  /\ m_deficit[f] > 0
           /\ child' = [child EXCEPT ![f] = <<>>]
           /\ m_nPackets' = m_nPackets - Len(child[f])
           /\ Retire(f)
    /\ UNCHANGED <<m_classes, m_deficit, m_dequeuing, served>>
    /\ Leads(NoFlow, 0)

\* No flow is found.
DequeueNothing ==
    /\ m_dequeuing
    /\ Selected = <<>>
    /\ m_dequeuing' = FALSE
    /\ served' = NoFlow
    /\ UNCHANGED <<m_classes, child, m_deficit, listVars, m_nPackets, lead>>

DequeueStep == Rotate \/ Serve \/ Skip \/ DequeueNothing

-----------------------------------------------------------------------------

Next ==
    \/ \E f \in Flows, size \in Sizes : Enqueue(f, size)
    \/ DequeueBegins
    \/ DequeueStep

Spec == Init /\ [][Next]_vars

\* DoDequeue runs on, and the device goes on asking for packets.
Fairness == WF_vars(DequeueBegins) /\ WF_vars(DequeueStep)

FairSpec == Spec /\ Fairness

-----------------------------------------------------------------------------
(* Properties *)

MaxSize == Max(Sizes)

\* Every variable has its type.  The deficit of a flow stays between what its
\* last packet may overdraw and one quantum (SetDeficit, IncreaseDeficit).
TypeOK ==
    /\ m_classes \in Seq(Flows)
    /\ child \in [Flows -> Seq(Sizes)]
    /\ m_status \in [Flows -> {"INACTIVE", "NEW_FLOW", "OLD_FLOW"}]
    /\ m_deficit \in [Flows -> 1 - MaxSize .. Quantum]
    /\ m_newFlows \in Seq(Flows) /\ m_oldFlows \in Seq(Flows)
    /\ m_nPackets \in Nat
    /\ m_dequeuing \in BOOLEAN
    /\ served \in Flows \cup {NoFlow}

Occurrences(f, list) == Cardinality({i \in DOMAIN list : list[i] = f})

\* The status of a flow says in which list it is, once and in no other, and a
\* flow with packets is in one of them: when DoDequeue finds no flow, it leaves
\* no packet behind.
ListedByStatus ==
    \A f \in Flows :
        /\ Occurrences(f, m_newFlows) = (IF m_status[f] = "NEW_FLOW" THEN 1 ELSE 0)
        /\ Occurrences(f, m_oldFlows) = (IF m_status[f] = "OLD_FLOW" THEN 1 ELSE 0)
        /\ child[f] # <<>> => m_status[f] # "INACTIVE"

\* The same with the types and the range of the deficits.
WellListed == TypeOK /\ ListedByStatus

\* The packets that the children store, each known by its place.
Stored == UNION {{f} \X DOMAIN child[f] : f \in Flows}

\* The queue disc never keeps more packets than its limit, and its count of
\* them is right though only its children store packets (FqCoDelDrop drops at
\* least what DoEnqueue put above the limit).
LimitKept ==
    /\ m_nPackets = Cardinality(Stored)
    /\ m_nPackets <= QdMax

\* Deficit round robin is fair (DoDequeue): while two old flows have packets,
\* neither is ahead of the other by more than a quantum, what it may overdraw (a
\* packet less one byte), and the deficit that the other may lack at first: it
\* overdrew its quantum by a packet, or came from the new flows with one byte left.
FairShare ==
    \A f, g \in Flows :
        lead[<<f, g>>] <= Quantum + (MaxSize - 1) + (Max({Quantum, MaxSize}) - 1)

\* No starvation (an old flow yields to new flows in DoDequeue): a flow with
\* packets is served, or loses its packets, however many packets of other flows,
\* new ones included, keep arriving.
NoStarvation == \A f \in Flows : []<>(child[f] = <<>> \/ served = f)

=============================================================================
