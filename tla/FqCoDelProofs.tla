---------------------------- MODULE FqCoDelProofs ----------------------------
(***************************************************************************)
(* The scheduler of FqCoDelQueueDisc, for any number of flows, packet      *)
(* sizes, quantum, limit and batch size.                                   *)
(*                                                                         *)
(* The overload drop compares sums of packet sizes, defined by recursion.  *)
(* What is needed of them (they are natural numbers, and positive for a    *)
(* queue with packets) follows from the least-number principle, which is   *)
(* the well-foundedness of < on Nat.                                       *)
(*                                                                         *)
(* Fairness: for flows f and g that compete, the number                    *)
(*    lead[<<f, g>>] + m_deficit[f] - m_deficit[g]                         *)
(* changes only when one of them is rotated, by a quantum, and then the    *)
(* other one is served next.                                               *)
(***************************************************************************)
EXTENDS FqCoDelQueueDisc, FiniteSetTheorems, SequenceTheorems, WellFoundedInduction, TLAPS

-----------------------------------------------------------------------------
(* The least-number principle *)

LEMMA NatMin ==
    ASSUME NEW T \in SUBSET Nat, T # {}
    PROVE  \E n \in T : \A m \in T : n <= m
<1> DEFINE lt == OpToRel(<, Nat)
<1>1. IsWellFoundedOn(lt, Nat)
  BY NatLessThanWellFounded, Zenon
<1>2. \A m, n \in Nat : m < n => <<m, n>> \in lt
  BY Zenon DEF OpToRel
<1> HIDE DEF lt
<1>3. PICK n \in T : \A m \in T : ~ (<<m, n>> \in lt)
  BY <1>1, WFMin
<1>4. ASSUME NEW m \in T PROVE n <= m
  <2>1. m \in Nat /\ n \in Nat
    OBVIOUS
  <2>2. ~ (m < n)
    BY <1>2, <1>3, <2>1
  <2> QED
    BY <2>1, <2>2
<1> QED
  BY <1>4

\* A finite list of numbers has a first greatest one.
LEMMA FirstGreatest ==
    ASSUME NEW N \in Nat, N >= 1, NEW b \in [1 .. N -> Nat]
    PROVE  \E i \in 1 .. N : /\ \A j \in 1 .. N : b[j] <= b[i]
                             /\ \A j \in 1 .. i - 1 : b[j] < b[i]
<1> DEFINE Great(n) == {i \in 1 .. n : \A j \in 1 .. n : b[j] <= b[i]}
           T == {n \in 1 .. N : Great(n) = {}}
<1>1. T = {}
  <2> SUFFICES ASSUME T # {} PROVE FALSE
    OBVIOUS
  <2>1. PICK n \in T : \A m \in T : n <= m
    <3>1. T \in SUBSET Nat
      OBVIOUS
    <3> HIDE DEF T
    <3> QED
      BY <3>1, NatMin
  <2>2. n \in 1 .. N /\ Great(n) = {}
    OBVIOUS
  <2>3. n # 1
    <3>1. 1 \in Great(1)
      BY DEF Great
    <3> QED
      BY <2>2, <3>1
  <2>4. n - 1 \in 1 .. N /\ n - 1 < n
    BY <2>2, <2>3
  <2>5. n - 1 \notin T
    <3>1. n - 1 \in T => n <= n - 1
      BY <2>1
    <3>2. n \in Int
      BY <2>2
    <3> HIDE DEF T
    <3> QED
      BY <3>1, <3>2
  <2>6. PICK i \in 1 .. n - 1 : \A j \in 1 .. n - 1 : b[j] <= b[i]
    BY <2>4, <2>5
  <2>7. \A j \in 1 .. n : b[j] \in Nat
    BY <2>2
  <2>8. \A j \in 1 .. n : j \in 1 .. n - 1 \/ j = n
    BY <2>2
  <2>9. i \in 1 .. n /\ n \in 1 .. n
    BY <2>2, <2>6
  <2>10. CASE b[n] <= b[i]
    <3>1. i \in Great(n)
      BY <2>6, <2>8, <2>9, <2>10
    <3> QED
      BY <2>2, <3>1
  <2>11. CASE ~ (b[n] <= b[i])
    <3>1. \A j \in 1 .. n : b[j] <= b[n]
      BY <2>6, <2>7, <2>8, <2>9, <2>11
    <3>2. n \in Great(n)
      BY <2>9, <3>1
    <3> QED
      BY <2>2, <3>2
  <2> QED
    BY <2>10, <2>11
<1>2. Great(N) # {} /\ Great(N) \subseteq Nat
  <2>1. N \in 1 .. N
    OBVIOUS
  <2>2. N \notin T
    BY <1>1
  <2>3. Great(N) # {}
    <3> HIDE DEF Great
    <3> QED
      BY <2>1, <2>2
  <2> QED
    BY <2>3
<1>3. PICK i \in Great(N) : \A k \in Great(N) : i <= k
  BY <1>2, NatMin
<1>4. i \in 1 .. N /\ \A j \in 1 .. N : b[j] <= b[i]
  OBVIOUS
<1>5. ASSUME NEW j \in 1 .. i - 1 PROVE b[j] < b[i]
  <2>1. j \in 1 .. N /\ j < i
    BY <1>4
  <2>2. j \notin Great(N)
    BY <1>3, <1>4, <2>1
  <2>3. PICK k \in 1 .. N : ~ (b[k] <= b[j])
    BY <2>1, <2>2
  <2>4. b[k] \in Nat /\ b[j] \in Nat /\ b[i] \in Nat /\ b[k] <= b[i]
    BY <1>4, <2>1
  <2> QED
    BY <2>3, <2>4
<1> QED
  BY <1>4, <1>5

-----------------------------------------------------------------------------
(* The bytes of a queue *)

Pick(s) == CHOOSE x \in s : TRUE

\* iter gives the sum of v over every set of places, by recursion.
IsSum(iter, v) ==
    iter = [s \in SUBSET DOMAIN v |->
                IF s = {} THEN 0 ELSE v[Pick(s)] + iter[s \ {Pick(s)}]]

PartialSums(v) == CHOOSE iter : IsSum(iter, v)

LEMMA BytesIsSum ==
    ASSUME NEW q
    PROVE  Bytes(q) = PartialSums(q)[DOMAIN q]
BY Zenon DEF Bytes, FoldSeq, FoldFunction, FoldFunctionOnSet, MapThenFoldSet,
             PartialSums, IsSum, Pick

LEMMA PickIn == ASSUME NEW s, s # {} PROVE Pick(s) \in s
BY DEF Pick

LEMMA SumsExist ==
    ASSUME NEW D, IsFiniteSet(D), NEW v \in [D -> Nat]
    PROVE  IsSum(PartialSums(v), v)
<1> DEFINE Small(n) == {s \in SUBSET D : Cardinality(s) <= n}
           Step(it, s) == IF s = {} THEN 0 ELSE v[Pick(s)] + it[s \ {Pick(s)}]
           Ok(n) == \E it \in [Small(n) -> Nat] : \A s \in Small(n) : it[s] = Step(it, s)
           T == {n \in Nat : ~ Ok(n)}
<1>1. \A s \in SUBSET D : IsFiniteSet(s) /\ Cardinality(s) \in Nat
  BY FS_Subset, FS_CardinalityType
<1>2. \A s \in SUBSET D : s # {} =>
          /\ Pick(s) \in s /\ s \ {Pick(s)} \in SUBSET D
          /\ Cardinality(s \ {Pick(s)}) = Cardinality(s) - 1
  BY <1>1, PickIn, FS_RemoveElement
<1>3. Ok(0)
  <2>1. \A s \in Small(0) : s = {}
    BY <1>1, FS_EmptySet
  <2> DEFINE it == [s \in Small(0) |-> 0]
  <2>2. it \in [Small(0) -> Nat] /\ \A s \in Small(0) : it[s] = Step(it, s)
    BY <2>1
  <2> QED
    BY <2>2
<1>4. ASSUME NEW n \in Nat, Ok(n) PROVE Ok(n + 1)
  <2>1. PICK f \in [Small(n) -> Nat] : \A s \in Small(n) : f[s] = Step(f, s)
    BY <1>4
  <2> DEFINE it == [s \in Small(n + 1) |-> IF s \in Small(n) THEN f[s] ELSE Step(f, s)]
  <2>2. ASSUME NEW s \in Small(n + 1), s # {}
        PROVE  /\ s \ {Pick(s)} \in Small(n) /\ s \ {Pick(s)} \in Small(n + 1)
               /\ v[Pick(s)] \in Nat
    <3>1. s \in SUBSET D /\ Cardinality(s) <= n + 1 /\ Cardinality(s) \in Nat
      BY <1>1
    <3>2. /\ Pick(s) \in s /\ s \ {Pick(s)} \in SUBSET D
          /\ Cardinality(s \ {Pick(s)}) = Cardinality(s) - 1
      BY <1>2, <2>2, <3>1
    <3>3. Cardinality(s) - 1 <= n /\ Cardinality(s) - 1 <= n + 1
      BY <3>1
    <3> QED
      BY <3>1, <3>2, <3>3
  <2>3. \A s \in Small(n + 1) : it[s] \in Nat
    <3> SUFFICES ASSUME NEW s \in Small(n + 1) PROVE it[s] \in Nat
      OBVIOUS
    <3>1. CASE s \in Small(n)
      BY <2>1, <3>1
    <3>2. CASE s \notin Small(n) /\ s # {}
      <4>1. it[s] = v[Pick(s)] + f[s \ {Pick(s)}]
        BY <3>2
      <4>2. v[Pick(s)] \in Nat /\ f[s \ {Pick(s)}] \in Nat
        BY <2>1, <2>2, <3>2
      <4> QED
        BY <4>1, <4>2
    <3>3. CASE s \notin Small(n) /\ s = {}
      BY <3>3
    <3> QED
      BY <3>1, <3>2, <3>3
  <2>4. \A s \in Small(n + 1) : it[s] = Step(it, s)
    <3> SUFFICES ASSUME NEW s \in Small(n + 1) PROVE it[s] = Step(it, s)
      OBVIOUS
    <3>1. it[s] = Step(f, s)
      BY <2>1
    <3>2. s # {} => it[s \ {Pick(s)}] = f[s \ {Pick(s)}]
      BY <2>2
    <3> QED
      BY <3>1, <3>2
  <2>5. it \in [Small(n + 1) -> Nat]
    BY <2>3
  <2> HIDE DEF it
  <2> QED
    BY <2>4, <2>5
<1>5. T = {}
  <2> SUFFICES ASSUME T # {} PROVE FALSE
    OBVIOUS
  <2> HIDE DEF Ok
  <2>1. PICK n \in T : \A m \in T : n <= m
    BY NatMin
  <2>2. n # 0 /\ n \in Nat
    BY <1>3
  <2>3. n - 1 \in Nat /\ n - 1 \notin T
    BY <2>1, <2>2
  <2>4. Ok((n - 1) + 1)
    BY <1>4, <2>3
  <2>5. (n - 1) + 1 = n
    BY <2>2
  <2> QED
    BY <2>4, <2>5
<1>6. Cardinality(D) \in Nat /\ Small(Cardinality(D)) = SUBSET D
  <2>1. \A s \in SUBSET D : Cardinality(s) <= Cardinality(D)
    BY FS_Subset
  <2> QED
    BY <1>1, <2>1
<1>7. PICK f \in [SUBSET D -> Nat] : \A s \in SUBSET D : f[s] = Step(f, s)
  <2>1. Ok(Cardinality(D))
    BY <1>5, <1>6
  <2> QED
    BY <1>6, <2>1
<1>8. IsSum(f, v)
  <2>1. DOMAIN v = D
    OBVIOUS
  <2>2. f = [s \in SUBSET D |-> f[s]]
    OBVIOUS
  <2> QED
    BY <1>7, <2>1, <2>2 DEF IsSum
<1> QED
  BY <1>8, Zenon DEF PartialSums

\* it sums v over the subsets of D: natural numbers, one place added at a time.
Sums(it, v, D) ==
    /\ \A s \in SUBSET D : it[s] \in Nat
    /\ \A s \in SUBSET D : s # {} => \E x \in s : it[s] = v[x] + it[s \ {x}]

LEMMA SumsTyped ==
    ASSUME NEW D, IsFiniteSet(D), NEW v \in [D -> Nat]
    PROVE  Sums(PartialSums(v), v, D)
<1> DEFINE it == PartialSums(v)
<1>1. IsSum(it, v)
  BY SumsExist
<1> HIDE DEF it
<1>2. \A s \in SUBSET D : it[s] = IF s = {} THEN 0 ELSE v[Pick(s)] + it[s \ {Pick(s)}]
  <2>1. DOMAIN v = D
    OBVIOUS
  <2> QED
    BY <1>1, <2>1 DEF IsSum
<1>3. \A s \in SUBSET D : Cardinality(s) \in Nat
  BY FS_Subset, FS_CardinalityType
<1> DEFINE Bad == {s \in SUBSET D : it[s] \notin Nat}
           C == {Cardinality(s) : s \in Bad}
<1>4. Bad = {}
  <2> SUFFICES ASSUME Bad # {} PROVE FALSE
    OBVIOUS
  <2>1. C \in SUBSET Nat /\ C # {}
    BY <1>3
  <2>2. PICK n \in C : \A m \in C : n <= m
    BY <2>1, NatMin
  <2>3. PICK s \in Bad : n = Cardinality(s)
    BY <2>2
  <2>4. s \in SUBSET D /\ it[s] \notin Nat /\ s # {}
    <3>1. it[{}] = 0 /\ {} \in SUBSET D
      BY <1>2
    <3> QED
      BY <3>1
  <2> DEFINE r == s \ {Pick(s)}
  <2>5. Pick(s) \in s /\ r \in SUBSET D /\ v[Pick(s)] \in Nat
    BY <2>4, PickIn
  <2>6. Cardinality(r) = Cardinality(s) - 1
    BY <2>4, <2>5, FS_Subset, FS_RemoveElement
  <2>7. r \notin Bad
    <3>1. SUFFICES ASSUME r \in Bad PROVE FALSE
      OBVIOUS
    <3>2. n <= Cardinality(r)
      BY <2>2, <3>1
    <3> QED
      BY <1>3, <2>3, <2>4, <2>6, <3>2
  <2>8. it[r] \in Nat
    BY <2>5, <2>7
  <2>9. it[s] = v[Pick(s)] + it[r]
    BY <1>2, <2>4
  <2> QED
    BY <2>4, <2>5, <2>8, <2>9
<1>5. \A s \in SUBSET D : it[s] \in Nat
  BY <1>4
<1>6. \A s \in SUBSET D : s # {} => \E x \in s : it[s] = v[x] + it[s \ {x}]
  BY <1>2, PickIn
<1>7. Sums(it, v, D)
  BY <1>5, <1>6 DEF Sums
<1> QED
  BY <1>7 DEF it

\* What is needed of the bytes of a queue.
LEMMA BytesPositive ==
    ASSUME NEW q \in Seq(Nat \ {0})
    PROVE  Bytes(q) \in Nat /\ (q # <<>> => Bytes(q) > 0)
<1> DEFINE D == 1 .. Len(q)
           it == PartialSums(q)
<1>1. /\ Len(q) \in Nat /\ DOMAIN q = D /\ q \in [D -> Nat]
      /\ \A i \in D : q[i] \in Nat \ {0}
  <2>1. Len(q) \in Nat /\ q \in [1 .. Len(q) -> Nat \ {0}]
    BY LenProperties
  <2> QED
    BY <2>1
<1>2. IsFiniteSet(D)
  <2>1. 1 \in Int /\ Len(q) \in Int
    BY <1>1
  <2> QED
    BY <2>1, FS_Interval
<1>3. Bytes(q) = it[D]
  BY <1>1, BytesIsSum
<1> HIDE DEF D
<1>4. Sums(it, q, D)
  <2>1. q \in [D -> Nat]
    BY <1>1
  <2> QED
    BY <1>2, <2>1, SumsTyped
<1> HIDE DEF it
<1>5. Bytes(q) \in Nat
  BY <1>3, <1>4 DEF Sums
<1>6. ASSUME q # <<>> PROVE Bytes(q) > 0
  <2>1. D # {}
    <3>1. Len(q) # 0
      BY <1>6, EmptySeq, LenProperties
    <3> QED
      BY <1>1, <3>1 DEF D
  <2>2. PICK x \in D : it[D] = q[x] + it[D \ {x}]
    BY <1>4, <2>1 DEF Sums
  <2>3. q[x] \in Nat \ {0} /\ it[D \ {x}] \in Nat
    BY <1>1, <1>4 DEF Sums
  <2> QED
    BY <1>3, <2>2, <2>3
<1> QED
  BY <1>5, <1>6

-----------------------------------------------------------------------------
(* The invariant *)

\* No flow is twice in a list.  (ToSet (l) is the set of flows in it.)
Distinct(l) == \A i, k \in DOMAIN l : l[i] = l[k] => i = k

\* The status of a flow says in which list it is.
Listing ==
    /\ Distinct(m_newFlows) /\ Distinct(m_oldFlows)
    /\ \A f \in Flows :
           /\ f \in ToSet(m_newFlows) <=> m_status[f] = "NEW_FLOW"
           /\ f \in ToSet(m_oldFlows) <=> m_status[f] = "OLD_FLOW"
           /\ child[f] # <<>> => m_status[f] # "INACTIVE"

ListInv == TypeOK /\ Listing /\ LimitKept

\* f comes before g in the list l.
Before(f, g, l) == \E i, k \in DOMAIN l : i < k /\ l[i] = f /\ l[k] = g

Competing(f, g) == \A h \in {f, g} : m_status[h] = "OLD_FLOW" /\ child[h] # <<>>

\* What a flow may overdraw, and the most that one flow's deficit exceeds that of
\* a flow behind it.
Overdraft == MaxSize - 1
Excess == IF Quantum >= MaxSize THEN Quantum - 1 ELSE MaxSize - 1

\* The advantage of f over g, when what is left of their deficits is added.
Credit(f, g) == lead[<<f, g>>] + m_deficit[f] - m_deficit[g]

\* Only flows that compete have a lead, and one's lead is the other's arrears.
LeadShape ==
    /\ lead \in [Flows \X Flows -> Int]
    /\ \A f, g \in Flows : lead[<<f, g>>] = - lead[<<g, f>>]
    /\ \A f, g \in Flows : f = g \/ ~ Competing(f, g) => lead[<<f, g>>] = 0

\* A flow that is not the first of the old flows has just been given a quantum, or
\* came from the new flows with something left.
BehindHasCredit ==
    \A f, g \in Flows : Before(f, g, m_oldFlows) =>
        m_deficit[g] >= 1 \/ m_deficit[g] >= Quantum - Overdraft

\* While f waits for its turn before g, it is not far ahead, and at most one
\* quantum more behind; a flow that is behind g in the list and ahead of it
\* in bytes has been given its quantum.
TurnsAlternate ==
    \A f, g \in Flows : Before(f, g, m_oldFlows) /\ Competing(f, g) =>
        /\ - (Quantum + Excess) <= Credit(f, g) /\ Credit(f, g) <= Excess
        /\ lead[<<g, f>>] <= 0 \/ m_deficit[g] >= Quantum - Overdraft

FairInv == ListInv /\ LeadShape /\ BehindHasCredit /\ TurnsAlternate

-----------------------------------------------------------------------------
(* Lists, queues and sizes *)

LEMMA SizesRange ==
    /\ MaxSize \in Sizes /\ MaxSize \in Nat /\ MaxSize >= 1 /\ MaxSize \in Int
    /\ \A s \in Sizes : s \in Nat /\ s >= 1 /\ s <= MaxSize
    /\ Quantum \in Nat /\ Quantum >= 1
    /\ Overdraft = MaxSize - 1
    /\ Excess \in Nat /\ Excess >= Quantum - 1 /\ Excess >= Overdraft
    /\ Excess <= Quantum - 1 \/ Excess <= Overdraft
<1>1. /\ Quantum \in Nat /\ Quantum >= 1
      /\ \A s \in Sizes : s \in Nat /\ s >= 1
  BY FqCoDelAssumption
<1>2. MaxSize \in Sizes /\ \A s \in Sizes : MaxSize >= s
  <2>1. \E m \in Sizes : \A s \in Sizes : m >= s
    <3>1. PICK m \in Sizes : \A s \in Sizes : s <= m
      BY FqCoDelAssumption
    <3> QED
      BY <1>1, <3>1
  <2> QED
    BY <2>1 DEF MaxSize, Max
<1>3. MaxSize \in Nat /\ MaxSize >= 1
  BY <1>1, <1>2
<1>4. \A s \in Sizes : s <= MaxSize
  BY <1>1, <1>2, <1>3
<1> HIDE DEF MaxSize
<1> QED
  BY <1>1, <1>2, <1>3, <1>4 DEF Overdraft, Excess

\* The places of a list, and what is in them.
LEMMA ListPlaces ==
    ASSUME NEW S, NEW l \in Seq(S)
    PROVE  /\ Len(l) \in Nat /\ DOMAIN l = 1 .. Len(l)
           /\ \A x : x \in ToSet(l) <=> \E i \in 1 .. Len(l) : l[i] = x
           /\ ToSet(l) \subseteq S
           /\ l # <<>> => Head(l) = l[1] /\ Len(l) >= 1 /\ l[1] \in S
<1>1. Len(l) \in Nat /\ DOMAIN l = 1 .. Len(l) /\ \A i \in 1 .. Len(l) : l[i] \in S
  BY LenProperties, ElementOfSeq
<1>2. l # <<>> => Head(l) = l[1] /\ Len(l) >= 1 /\ l[1] \in S
  BY HeadTailProperties, EmptySeq, <1>1
<1> QED
  BY <1>1, <1>2 DEF ToSet

\* Removing the first element of a list.
LEMMA TailOfList ==
    ASSUME NEW S, NEW l \in Seq(S), l # <<>>, Distinct(l)
    PROVE  /\ Tail(l) \in Seq(S) /\ Distinct(Tail(l))
           /\ ToSet(Tail(l)) = ToSet(l) \ {Head(l)}
           /\ Head(l) \in ToSet(l) /\ Head(l) \in S
           /\ \A x, y : Before(x, y, Tail(l)) => Before(x, y, l) /\ x # Head(l)
           /\ \A x, y : Before(x, y, l) => y # Head(l)
           /\ \A x \in ToSet(l) : x # Head(l) => Before(Head(l), x, l)
<1> DEFINE n == Len(l)
           t == Tail(l)
<1>1. /\ n \in Nat /\ n >= 1 /\ DOMAIN l = 1 .. n
      /\ Head(l) = l[1] /\ l[1] \in S
      /\ \A x : x \in ToSet(l) <=> \E i \in 1 .. n : l[i] = x
  BY ListPlaces
<1>2. t \in Seq(S) /\ Len(t) = n - 1 /\ \A i \in 1 .. Len(t) : t[i] = l[i + 1]
  BY HeadTailProperties
<1>3. /\ DOMAIN t = 1 .. n - 1
      /\ \A x : x \in ToSet(t) <=> \E i \in 1 .. n - 1 : t[i] = x
  <2> HIDE DEF t
  <2>1. /\ DOMAIN t = 1 .. Len(t)
        /\ \A x : x \in ToSet(t) <=> \E i \in 1 .. Len(t) : t[i] = x
    BY <1>2, ListPlaces
  <2> QED
    BY <1>2, <2>1
<1> HIDE DEF n, t
<1>4. \A i \in 1 .. n - 1 : i + 1 \in 1 .. n /\ t[i] = l[i + 1] /\ i + 1 # 1
  BY <1>1, <1>2
<1>5. \A k \in 1 .. n : k = 1 \/ (k - 1 \in 1 .. n - 1 /\ l[k] = t[k - 1])
  <2> SUFFICES ASSUME NEW k \in 1 .. n, k # 1
               PROVE  k - 1 \in 1 .. n - 1 /\ l[k] = t[k - 1]
    OBVIOUS
  <2>1. k - 1 \in 1 .. n - 1 /\ (k - 1) + 1 = k
    BY <1>1
  <2> QED
    BY <1>4, <2>1
<1>6. 1 \in 1 .. n
  BY <1>1
<1>7. Distinct(t)
  <2> SUFFICES ASSUME NEW i \in 1 .. n - 1, NEW k \in 1 .. n - 1, t[i] = t[k]
               PROVE  i = k
    BY <1>3 DEF Distinct
  <2>1. i + 1 = k + 1
    BY <1>1, <1>4 DEF Distinct
  <2> QED
    BY <1>1, <2>1
<1>8. \A i \in 1 .. n - 1 : t[i] # l[1]
  BY <1>1, <1>4, <1>6 DEF Distinct
<1>9. \A x : x \in ToSet(t) <=> x \in ToSet(l) \ {l[1]}
  BY <1>1, <1>3, <1>4, <1>5, <1>8
<1>10. ASSUME NEW x, NEW y, Before(x, y, t) PROVE Before(x, y, l) /\ x # l[1]
  <2>1. PICK i \in 1 .. n - 1, k \in 1 .. n - 1 : i < k /\ t[i] = x /\ t[k] = y
    BY <1>3, <1>10 DEF Before
  <2>2. i + 1 \in 1 .. n /\ k + 1 \in 1 .. n /\ l[i + 1] = x /\ l[k + 1] = y
    BY <1>4, <2>1
  <2>3. i + 1 < k + 1
    BY <1>1, <2>1
  <2> QED
    BY <1>1, <1>8, <2>1, <2>2, <2>3 DEF Before
<1>11. ASSUME NEW x, NEW y, Before(x, y, l) PROVE y # l[1]
  <2>1. PICK i \in 1 .. n, k \in 1 .. n : i < k /\ l[i] = x /\ l[k] = y
    BY <1>1, <1>11 DEF Before
  <2>2. k # 1
    BY <1>1, <2>1
  <2> QED
    BY <1>1, <1>6, <2>1, <2>2 DEF Distinct
<1>12. ASSUME NEW x \in ToSet(l), x # l[1] PROVE Before(l[1], x, l)
  <2>1. PICK k \in 1 .. n : l[k] = x
    BY <1>1
  <2>2. k # 1 /\ 1 < k
    BY <1>1, <1>12, <2>1
  <2> QED
    BY <1>1, <1>6, <2>1, <2>2 DEF Before
<1> QED
  BY <1>1, <1>2, <1>6, <1>7, <1>9, <1>10, <1>11, <1>12 DEF t

\* Adding a flow at the end of a list.
LEMMA AppendToList ==
    ASSUME NEW S, NEW l \in Seq(S), Distinct(l), NEW x \in S, x \notin ToSet(l)
    PROVE  /\ Append(l, x) \in Seq(S) /\ Distinct(Append(l, x))
           /\ ToSet(Append(l, x)) = ToSet(l) \cup {x}
           /\ \A y, z : Before(y, z, Append(l, x)) <=>
                            Before(y, z, l) \/ (y \in ToSet(l) /\ z = x)
<1> DEFINE n == Len(l)
           a == Append(l, x)
<1>1. /\ n \in Nat /\ DOMAIN l = 1 .. n
      /\ \A y : y \in ToSet(l) <=> \E i \in 1 .. n : l[i] = y
  BY ListPlaces
<1>2. /\ a \in Seq(S) /\ Len(a) = n + 1 /\ a[n + 1] = x
      /\ \A i \in 1 .. n : a[i] = l[i]
  BY AppendProperties
<1>3. /\ DOMAIN a = 1 .. n + 1
      /\ \A y : y \in ToSet(a) <=> \E i \in 1 .. n + 1 : a[i] = y
  <2> HIDE DEF a
  <2>1. /\ DOMAIN a = 1 .. Len(a)
        /\ \A y : y \in ToSet(a) <=> \E i \in 1 .. Len(a) : a[i] = y
    BY <1>2, ListPlaces
  <2> QED
    BY <1>2, <2>1
<1> HIDE DEF n, a
<1>4. \A i \in 1 .. n + 1 : i \in 1 .. n \/ i = n + 1
  BY <1>1
<1>5. /\ n + 1 \in 1 .. n + 1
      /\ \A i \in 1 .. n : i \in 1 .. n + 1 /\ i < n + 1 /\ ~ (n + 1 < i)
      /\ ~ (n + 1 < n + 1)
  BY <1>1
<1>6. Distinct(a)
  <2> SUFFICES ASSUME NEW i \in 1 .. n + 1, NEW k \in 1 .. n + 1, a[i] = a[k]
               PROVE  i = k
    BY <1>3 DEF Distinct
  <2>1. CASE i \in 1 .. n /\ k \in 1 .. n
    BY <1>1, <1>2, <2>1 DEF Distinct
  <2>2. CASE i = n + 1 /\ k \in 1 .. n
    BY <1>1, <1>2, <2>2
  <2>3. CASE k = n + 1 /\ i \in 1 .. n
    BY <1>1, <1>2, <2>3
  <2> QED
    BY <1>4, <2>1, <2>2, <2>3
<1>7. \A y : y \in ToSet(a) <=> y \in ToSet(l) \cup {x}
  BY <1>1, <1>2, <1>3, <1>4, <1>5
<1>8. ASSUME NEW y, NEW z
      PROVE  Before(y, z, a) <=> Before(y, z, l) \/ (y \in ToSet(l) /\ z = x)
  <2>1. ASSUME Before(y, z, a) PROVE Before(y, z, l) \/ (y \in ToSet(l) /\ z = x)
    <3>1. PICK i \in 1 .. n + 1, k \in 1 .. n + 1 : i < k /\ a[i] = y /\ a[k] = z
      BY <1>3, <2>1 DEF Before
    <3>2. i \in 1 .. n
      BY <1>4, <1>5, <3>1
    <3> QED
      BY <1>1, <1>2, <1>4, <3>1, <3>2 DEF Before
  <2>2. ASSUME Before(y, z, l) PROVE Before(y, z, a)
    BY <1>1, <1>2, <1>3, <1>5, <2>2 DEF Before
  <2>3. ASSUME y \in ToSet(l), z = x PROVE Before(y, z, a)
    BY <1>1, <1>2, <1>3, <1>5, <2>3 DEF Before
  <2> QED
    BY <2>1, <2>2, <2>3
<1> QED
  BY <1>2, <1>6, <1>7, <1>8 DEF a

\* Of two flows in a list one comes before the other.
LEMMA ListOrdered ==
    ASSUME NEW S, NEW l \in Seq(S), NEW x \in ToSet(l), NEW y \in ToSet(l), x # y
    PROVE  Before(x, y, l) \/ Before(y, x, l)
<1>1. Len(l) \in Nat /\ DOMAIN l = 1 .. Len(l)
  BY ListPlaces
<1>2. PICK i \in 1 .. Len(l), k \in 1 .. Len(l) : l[i] = x /\ l[k] = y
  BY ListPlaces
<1>3. i # k /\ (i < k \/ k < i)
  BY <1>1, <1>2
<1> QED
  BY <1>1, <1>2, <1>3 DEF Before

LEMMA BeforeIn ==
    ASSUME NEW S, NEW l \in Seq(S), Distinct(l), NEW x, NEW y, Before(x, y, l)
    PROVE  x \in ToSet(l) /\ y \in ToSet(l) /\ x # y /\ ~ Before(y, x, l)
<1>1. Len(l) \in Nat /\ DOMAIN l = 1 .. Len(l)
  BY ListPlaces
<1>2. PICK i \in 1 .. Len(l), k \in 1 .. Len(l) : i < k /\ l[i] = x /\ l[k] = y
  BY <1>1 DEF Before
<1>3. x \in ToSet(l) /\ y \in ToSet(l)
  BY <1>2, ListPlaces
<1>4. x # y
  BY <1>1, <1>2 DEF Distinct
<1>5. ASSUME Before(y, x, l) PROVE FALSE
  <2>1. PICK j \in 1 .. Len(l), m \in 1 .. Len(l) : j < m /\ l[j] = y /\ l[m] = x
    BY <1>1, <1>5 DEF Before
  <2>2. j = k /\ m = i
    BY <1>1, <1>2, <2>1 DEF Distinct
  <2> QED
    BY <1>1, <1>2, <2>1, <2>2
<1> QED
  BY <1>3, <1>4, <1>5

\* The sizes in a queue are positive numbers.
LEMMA QueueOfNumbers ==
    ASSUME NEW q \in Seq(Sizes)
    PROVE  q \in Seq(Nat \ {0})
<1>1. \A i \in 1 .. Len(q) : q[i] \in Nat \ {0}
  BY ElementOfSeq, FqCoDelAssumption
<1>2. q = [i \in 1 .. Len(q) |-> q[i]] /\ Len(q) \in Nat
  BY LenProperties
<1> QED
  BY <1>1, <1>2

\* The number of packets that FqCoDelDrop drops.
LEMMA DropCountRange ==
    ASSUME NEW q \in Seq(Sizes), q # <<>>
    PROVE  DropCount(q) \in 1 .. Len(q)
<1> DEFINE S == {n \in 1 .. Len(q) :
                     n >= BatchSize \/ Bytes(SubSeq(q, 1, n)) >= Bytes(q) \div 2}
<1>1. Len(q) \in Nat /\ Len(q) >= 1
  BY ListPlaces
<1>2. q \in Seq(Nat \ {0})
  BY QueueOfNumbers
<1>3. Len(q) \in S
  <2>1. SubSeq(q, 1, Len(q)) = q
    BY SubSeqFull
  <2>2. Bytes(q) \in Nat
    BY <1>2, BytesPositive
  <2>3. \A b \in Nat : b >= b \div 2
    OBVIOUS
  <2> HIDE DEF Bytes
  <2>4. Bytes(SubSeq(q, 1, Len(q))) >= Bytes(q) \div 2
    BY <2>1, <2>2, <2>3
  <2>5. Len(q) \in 1 .. Len(q)
    BY <1>1
  <2> QED
    BY <2>4, <2>5
<1>4. \E n \in S : \A m \in S : n <= m
  <2>1. S \in SUBSET Nat /\ S # {}
    BY <1>3
  <2> HIDE DEF S
  <2> QED
    BY <2>1, NatMin
<1>5. DropCount(q) \in S
  <2>1. DropCount(q) = CHOOSE n \in S : \A m \in S : n <= m
    BY Zenon DEF DropCount, Min
  <2> HIDE DEF S
  <2> QED
    BY <1>4, <2>1
<1> QED
  BY <1>5

\* The flow that loses packets has some.
LEMMA FatFlowHasPackets ==
    ASSUME NEW queues \in [Flows -> Seq(Sizes)], NEW flows \in Seq(Flows),
           NEW f \in ToSet(flows), queues[f] # <<>>
    PROVE  /\ FatFlow(queues, flows) \in Flows
           /\ queues[FatFlow(queues, flows)] # <<>>
<1> DEFINE N == Len(flows)
           b == [i \in 1 .. N |-> Bytes(queues[flows[i]])]
<1>1. /\ N \in Nat /\ DOMAIN flows = 1 .. N
      /\ \A i \in 1 .. N : flows[i] \in Flows
      /\ \E i \in 1 .. N : flows[i] = f
  BY ListPlaces, ElementOfSeq
<1>2. \A g \in Flows : /\ Bytes(queues[g]) \in Nat
                       /\ queues[g] # <<>> => Bytes(queues[g]) > 0
                       /\ queues[g] = <<>> => Bytes(queues[g]) = 0
  <2> SUFFICES ASSUME NEW g \in Flows
               PROVE  /\ Bytes(queues[g]) \in Nat
                      /\ queues[g] # <<>> => Bytes(queues[g]) > 0
                      /\ queues[g] = <<>> => Bytes(queues[g]) = 0
    OBVIOUS
  <2>1. queues[g] \in Seq(Sizes)
    OBVIOUS
  <2>2. queues[g] \in Seq(Nat \ {0})
    BY <2>1, QueueOfNumbers
  <2>3. Bytes(<<>>) = 0
    <3>1. Bytes(<<>>) = PartialSums(<<>>)[DOMAIN <<>>]
      BY BytesIsSum
    <3>2. DOMAIN <<>> = {} /\ <<>> \in [{} -> Nat] /\ IsFiniteSet({})
      BY EmptySeq, FS_EmptySet
    <3>3. IsSum(PartialSums(<<>>), <<>>)
      BY <3>2, SumsExist
    <3> QED
      BY <3>1, <3>2, <3>3 DEF IsSum
  <2> QED
    BY <2>2, <2>3, BytesPositive
<1>3. N >= 1 /\ b \in [1 .. N -> Nat]
  BY <1>1, <1>2
<1> DEFINE P(i) == /\ \A j \in 1 .. N : b[j] <= b[i]
                   /\ \A j \in 1 .. i - 1 : b[j] < b[i]
           first == CHOOSE i \in 1 .. N : P(i)
<1>4. \E i \in 1 .. N : P(i)
  <2> HIDE DEF N, b
  <2> QED
    BY <1>1, <1>3, FirstGreatest
<1>5. first \in 1 .. N /\ P(first)
  <2> HIDE DEF P
  <2> QED
    BY <1>4
<1>6. FatFlow(queues, flows) = flows[first]
  <2>1. \A i \in 1 .. N : \A j \in 1 .. i - 1 : j \in 1 .. N
    BY <1>1
  <2>2. \A i \in 1 .. N :
            P(i) <=> /\ \A j \in 1 .. N : Bytes(queues[flows[j]]) <= Bytes(queues[flows[i]])
                     /\ \A j \in 1 .. i - 1 : Bytes(queues[flows[j]]) < Bytes(queues[flows[i]])
    BY <2>1
  <2> HIDE DEF P, b
  <2> QED
    BY <1>1, <2>2 DEF FatFlow
<1>7. PICK k \in 1 .. N : flows[k] = f
  BY <1>1
<1>8. b[k] <= b[first] /\ b[k] = Bytes(queues[f]) /\ b[first] = Bytes(queues[flows[first]])
  BY <1>5, <1>7
<1>9. flows[first] \in Flows /\ f \in Flows
  BY <1>1, <1>5, <1>7
<1> HIDE DEF first, b
<1>10. Bytes(queues[flows[first]]) > 0
  BY <1>2, <1>8, <1>9
<1>11. queues[flows[first]] # <<>>
  BY <1>2, <1>9, <1>10
<1> QED
  BY <1>6, <1>9, <1>11

-----------------------------------------------------------------------------
(* Counting the packets *)

StoredIn(c) == UNION {{f} \X DOMAIN c[f] : f \in Flows}

Row(f, n) == {f} \X (1 .. n)

LEMMA RowCounted ==
    ASSUME NEW f, NEW n \in Nat
    PROVE  IsFiniteSet(Row(f, n)) /\ Cardinality(Row(f, n)) = n
<1>1. IsFiniteSet({f}) /\ Cardinality({f}) = 1
  BY FS_Singleton
<1>2. IsFiniteSet(1 .. n) /\ Cardinality(1 .. n) = n
  <2>1. 1 \in Int /\ n \in Int
    OBVIOUS
  <2>2. IsFiniteSet(1 .. n) /\ Cardinality(1 .. n) = IF 1 > n THEN 0 ELSE n - 1 + 1
    BY <2>1, FS_Interval
  <2> QED
    BY <2>2
<1>3. IsFiniteSet({f} \X (1 .. n)) /\ Cardinality({f} \X (1 .. n)) = 1 * n
  <2> DEFINE A == {f}
             B == 1 .. n
  <2>1. IsFiniteSet(A) /\ IsFiniteSet(B)
    BY <1>1, <1>2
  <2> HIDE DEF A, B
  <2>2. IsFiniteSet(A \X B) /\ Cardinality(A \X B) = Cardinality(A) * Cardinality(B)
    BY <2>1, FS_Product
  <2> QED
    BY <1>1, <1>2, <2>2 DEF A, B
<1>4. 1 * n = n
  OBVIOUS
<1> QED
  BY <1>3, <1>4 DEF Row

\* The rows of some of the flows.
LEMMA RowsFinite ==
    ASSUME NEW G \in SUBSET Flows, NEW c \in [Flows -> Seq(Sizes)]
    PROVE  IsFiniteSet(UNION {{f} \X DOMAIN c[f] : f \in G})
<1> DEFINE R == {{f} \X DOMAIN c[f] : f \in G}
           r == [f \in G |-> {f} \X DOMAIN c[f]]
<1>1. IsFiniteSet(G)
  BY FqCoDelAssumption, FS_Subset
<1>2. r \in [G -> R] /\ \A x \in R : \E f \in G : r[f] = x
  OBVIOUS
<1>3. \A x \in R : IsFiniteSet(x)
  <2> SUFFICES ASSUME NEW f \in G PROVE IsFiniteSet({f} \X DOMAIN c[f])
    OBVIOUS
  <2>1. c[f] \in Seq(Sizes)
    OBVIOUS
  <2>2. Len(c[f]) \in Nat /\ DOMAIN c[f] = 1 .. Len(c[f])
    BY <2>1, ListPlaces
  <2>3. {f} \X DOMAIN c[f] = Row(f, Len(c[f]))
    BY <2>2 DEF Row
  <2> QED
    BY <2>2, <2>3, RowCounted
<1> HIDE DEF r, R
<1>4. r \in Surjection(G, R)
  BY <1>2, Zenon DEF Surjection
<1>5. IsFiniteSet(R)
  BY <1>1, <1>4, FS_Surjection
<1>6. IsFiniteSet(UNION R)
  BY <1>3, <1>5, FS_UNION
<1> QED
  BY <1>6 DEF R

\* The number of packets changes with the length of the queue that changes.
LEMMA StoredChanges ==
    ASSUME NEW c \in [Flows -> Seq(Sizes)], NEW f \in Flows, NEW q \in Seq(Sizes)
    PROVE  /\ Cardinality(StoredIn(c)) \in Nat
           /\ Len(c[f]) <= Cardinality(StoredIn(c))
           /\ Cardinality(StoredIn([c EXCEPT ![f] = q]))
                = Cardinality(StoredIn(c)) - Len(c[f]) + Len(q)
<1> DEFINE G == Flows \ {f}
           Rest == UNION {{g} \X DOMAIN c[g] : g \in G}
           d == [c EXCEPT ![f] = q]
           A == Row(f, Len(c[f]))
           B == Row(f, Len(q))
<1>1. /\ Len(c[f]) \in Nat /\ DOMAIN c[f] = 1 .. Len(c[f])
      /\ Len(q) \in Nat /\ DOMAIN q = 1 .. Len(q)
  <2>1. c[f] \in Seq(Sizes)
    OBVIOUS
  <2> QED
    BY <2>1, ListPlaces
<1>2. d[f] = q /\ \A g \in G : d[g] = c[g]
  OBVIOUS
<1> HIDE DEF d
<1>3. StoredIn(c) = Rest \cup A
  <2>1. \A x : x \in StoredIn(c) <=> \E g \in Flows : x \in {g} \X DOMAIN c[g]
    BY DEF StoredIn
  <2>2. \A x : x \in Rest <=> \E g \in G : x \in {g} \X DOMAIN c[g]
    OBVIOUS
  <2>3. A = {f} \X DOMAIN c[f]
    BY <1>1 DEF Row
  <2> HIDE DEF Rest, A
  <2>4. \A x : x \in StoredIn(c) <=> x \in Rest \cup A
    BY <2>1, <2>2, <2>3
  <2> QED
    BY <2>4
<1>4. StoredIn(d) = Rest \cup B
  <2>1. \A x : x \in StoredIn(d) <=> \E g \in Flows : x \in {g} \X DOMAIN d[g]
    BY DEF StoredIn
  <2>2. \A x : x \in Rest <=> \E g \in G : x \in {g} \X DOMAIN c[g]
    OBVIOUS
  <2>3. B = {f} \X DOMAIN d[f]
    BY <1>1, <1>2 DEF Row
  <2> HIDE DEF Rest, B
  <2>4. \A x : x \in StoredIn(d) <=> x \in Rest \cup B
    BY <1>2, <2>1, <2>2, <2>3
  <2> QED
    BY <2>4
<1>5. Rest \cap A = {} /\ Rest \cap B = {}
  <2>1. \A x \in Rest : x[1] # f
    OBVIOUS
  <2>2. \A x \in A \cup B : x[1] = f
    BY DEF Row
  <2> HIDE DEF Rest, A, B
  <2> QED
    BY <2>1, <2>2
<1>6. IsFiniteSet(Rest) /\ Cardinality(Rest) \in Nat
  BY RowsFinite, FS_CardinalityType
<1>7. /\ IsFiniteSet(A) /\ Cardinality(A) = Len(c[f])
      /\ IsFiniteSet(B) /\ Cardinality(B) = Len(q)
  BY <1>1, RowCounted
<1> HIDE DEF Rest, A, B
<1>8. Cardinality(Rest \cup A) = Cardinality(Rest) + Len(c[f])
  <2>1. Cardinality(Rest \cup A) = Cardinality(Rest) + Cardinality(A) - Cardinality(Rest \cap A)
    BY <1>6, <1>7, FS_Union
  <2>2. Cardinality(Rest \cap A) = 0
    BY <1>5, FS_EmptySet
  <2> QED
    BY <1>1, <1>6, <1>7, <2>1, <2>2
<1>9. Cardinality(Rest \cup B) = Cardinality(Rest) + Len(q)
  <2>1. Cardinality(Rest \cup B) = Cardinality(Rest) + Cardinality(B) - Cardinality(Rest \cap B)
    BY <1>6, <1>7, FS_Union
  <2>2. Cardinality(Rest \cap B) = 0
    BY <1>5, FS_EmptySet
  <2> QED
    BY <1>1, <1>6, <1>7, <2>1, <2>2
<1>10. /\ Cardinality(StoredIn(c)) = Cardinality(Rest) + Len(c[f])
       /\ Cardinality(StoredIn(d)) = Cardinality(Rest) + Len(q)
  BY <1>3, <1>4, <1>8, <1>9
<1>11. Cardinality(StoredIn(d)) = Cardinality(StoredIn(c)) - Len(c[f]) + Len(q)
  BY <1>1, <1>6, <1>10
<1>12. Cardinality(StoredIn(c)) \in Nat /\ Len(c[f]) <= Cardinality(StoredIn(c))
  BY <1>1, <1>6, <1>10
<1> QED
  BY <1>11, <1>12 DEF d

-----------------------------------------------------------------------------
(* What the steps do to the queues *)

\* A queue loses its first n packets.
LEMMA PacketsRemoved ==
    ASSUME NEW q \in Seq(Sizes), NEW n \in 1 .. Len(q)
    PROVE  /\ SubSeq(q, n + 1, Len(q)) \in Seq(Sizes)
           /\ Len(SubSeq(q, n + 1, Len(q))) = Len(q) - n
<1>1. Len(q) \in Nat /\ \A i \in 1 .. Len(q) : q[i] \in Sizes
  BY ListPlaces, ElementOfSeq
<1>2. n + 1 \in Int /\ Len(q) \in Int /\ \A i \in n + 1 .. Len(q) : q[i] \in Sizes
  BY <1>1
<1>3. /\ SubSeq(q, n + 1, Len(q)) \in Seq(Sizes)
      /\ Len(SubSeq(q, n + 1, Len(q)))
            = IF n + 1 <= Len(q) THEN Len(q) - (n + 1) + 1 ELSE 0
  BY <1>2, SubSeqProperties
<1>4. (IF n + 1 <= Len(q) THEN Len(q) - (n + 1) + 1 ELSE 0) = Len(q) - n
  BY <1>1
<1> QED
  BY <1>3, <1>4

\* A dequeue takes packets from one flow.
LEMMA FlowLosesPackets ==
    ASSUME TypeOK, LimitKept, NEW f \in Flows, NEW q \in Seq(Sizes), NEW n \in Nat,
           Len(q) = Len(child[f]) - n,
           child' = [child EXCEPT ![f] = q], m_nPackets' = m_nPackets - n
    PROVE  child' \in [Flows -> Seq(Sizes)] /\ m_nPackets' \in Nat /\ LimitKept'
<1>1. child \in [Flows -> Seq(Sizes)] /\ m_nPackets \in Nat /\ QdMax \in Nat
  BY FqCoDelAssumption DEF TypeOK
<1>2. m_nPackets = Cardinality(StoredIn(child)) /\ m_nPackets <= QdMax
  BY DEF LimitKept, Stored, StoredIn
<1>3. /\ Len(child[f]) <= Cardinality(StoredIn(child))
      /\ Cardinality(StoredIn(child')) = Cardinality(StoredIn(child)) - Len(child[f]) + Len(q)
  BY <1>1, StoredChanges
<1>4. Len(child[f]) \in Nat /\ Len(q) \in Nat
  <2>1. child[f] \in Seq(Sizes)
    BY <1>1
  <2> QED
    BY <2>1, LenProperties
<1>5. m_nPackets' = Cardinality(StoredIn(child')) /\ m_nPackets' <= QdMax /\ m_nPackets' \in Nat
  BY <1>1, <1>2, <1>3, <1>4
<1>6. child' \in [Flows -> Seq(Sizes)]
  BY <1>1
<1> QED
  BY <1>5, <1>6 DEF LimitKept, Stored, StoredIn

\* An enqueue adds a packet, or refuses it, and may drop packets of the fat flow.
LEMMA EnqueueQueues ==
    ASSUME TypeOK, LimitKept, NEW f \in Flows, NEW size \in Sizes, Enqueue(f, size)
    PROVE  /\ child' \in [Flows -> Seq(Sizes)] /\ m_nPackets' \in Nat /\ LimitKept'
           /\ m_classes' \in Seq(Flows)
           /\ \A g \in Flows : g # f /\ child'[g] # <<>> => child[g] # <<>>
<1> DEFINE full   == Len(child[f]) + 1 > QdMax
           queues == IF full THEN child ELSE [child EXCEPT ![f] = Append(@, size)]
           n      == IF full THEN m_nPackets ELSE m_nPackets + 1
           fat    == FatFlow(queues, m_classes')
           drops  == DropCount(queues[fat])
<1>1. /\ m_classes' = IF Contains(m_classes, f) THEN m_classes ELSE Append(m_classes, f)
      /\ IF n > QdMax
         THEN /\ child' = [queues EXCEPT ![fat] = SubSeq(@, drops + 1, Len(@))]
              /\ m_nPackets' = n - drops
         ELSE child' = queues /\ m_nPackets' = n
  BY DEF Enqueue, Over
<1>2. /\ child \in [Flows -> Seq(Sizes)] /\ m_nPackets \in Nat /\ QdMax \in Nat
      /\ m_classes \in Seq(Flows)
  BY FqCoDelAssumption DEF TypeOK
<1>3. m_nPackets = Cardinality(StoredIn(child)) /\ m_nPackets <= QdMax
  BY DEF LimitKept, Stored, StoredIn
<1>4. m_classes' \in Seq(Flows) /\ f \in ToSet(m_classes')
  <2>1. CASE Contains(m_classes, f)
    <3>1. m_classes' = m_classes
      BY <1>1, <2>1
    <3> QED
      BY <1>2, <2>1, <3>1, ListPlaces DEF Contains
  <2>2. CASE ~ Contains(m_classes, f)
    <3>1. m_classes' = Append(m_classes, f)
      BY <1>1, <2>2
    <3>2. /\ m_classes' \in Seq(Flows) /\ Len(m_classes') = Len(m_classes) + 1
          /\ m_classes'[Len(m_classes) + 1] = f /\ Len(m_classes) \in Nat
      BY <1>2, <3>1, AppendProperties, LenProperties
    <3>3. Len(m_classes) + 1 \in 1 .. Len(m_classes')
      BY <3>2
    <3> QED
      BY <3>2, <3>3, ListPlaces
  <2> QED
    BY <2>1, <2>2
<1>5. /\ child[f] \in Seq(Sizes) /\ Len(child[f]) \in Nat
      /\ Append(child[f], size) \in Seq(Sizes)
      /\ Len(Append(child[f], size)) = Len(child[f]) + 1
      /\ Append(child[f], size) # <<>>
  <2>1. child[f] \in Seq(Sizes)
    BY <1>2
  <2>2. Len(Append(child[f], size)) = Len(child[f]) + 1 /\ Len(child[f]) \in Nat
    BY <2>1, AppendProperties, LenProperties
  <2>3. Append(child[f], size) # <<>>
    <3> DEFINE a == Append(child[f], size)
    <3>1. Len(a) # 0
      BY <2>2
    <3> HIDE DEF a
    <3>2. a # <<>>
      BY <3>1, EmptySeq
    <3> QED
      BY <3>2 DEF a
  <2> QED
    BY <2>1, <2>2, <2>3, AppendProperties
<1>6. /\ queues \in [Flows -> Seq(Sizes)]
      /\ n = Cardinality(StoredIn(queues)) /\ n \in Nat /\ n <= QdMax + 1
      /\ \A g \in Flows : g # f => queues[g] = child[g]
      /\ n > QdMax => queues[f] # <<>>
  <2>1. CASE full
    BY <1>2, <1>3, <2>1
  <2>2. CASE ~ full
    <3>1. queues = [child EXCEPT ![f] = Append(child[f], size)] /\ n = m_nPackets + 1
      BY <2>2
    <3>2. Cardinality(StoredIn(queues))
             = Cardinality(StoredIn(child)) - Len(child[f]) + Len(Append(child[f], size))
      <4> DEFINE a == Append(child[f], size)
      <4>1. a \in Seq(Sizes) /\ queues = [child EXCEPT ![f] = a]
        BY <1>5, <3>1
      <4> HIDE DEF a, queues
      <4>2. Cardinality(StoredIn(queues))
               = Cardinality(StoredIn(child)) - Len(child[f]) + Len(a)
        BY <1>2, <4>1, StoredChanges
      <4> QED
        BY <4>2 DEF a
    <3>3. n = Cardinality(StoredIn(queues)) /\ n \in Nat /\ n <= QdMax + 1
      BY <1>2, <1>3, <1>5, <3>1, <3>2
    <3>4. /\ queues \in [Flows -> Seq(Sizes)] /\ queues[f] # <<>>
          /\ \A g \in Flows : g # f => queues[g] = child[g]
      BY <1>2, <1>5, <3>1
    <3> QED
      BY <3>3, <3>4
  <2> QED
    BY <2>1, <2>2
<1> HIDE DEF queues, n
<1>7. CASE n > QdMax
  <2>1. fat \in Flows /\ queues[fat] # <<>>
    BY <1>4, <1>6, <1>7, FatFlowHasPackets
  <2> DEFINE q == SubSeq(queues[fat], drops + 1, Len(queues[fat]))
  <2>2. queues[fat] \in Seq(Sizes) /\ drops \in 1 .. Len(queues[fat]) /\ Len(queues[fat]) \in Nat
    <3>1. queues[fat] \in Seq(Sizes)
      BY <1>6, <2>1
    <3> HIDE DEF fat
    <3> QED
      BY <2>1, <3>1, DropCountRange, LenProperties
  <2> HIDE DEF fat, drops
  <2>3. q \in Seq(Sizes) /\ Len(q) = Len(queues[fat]) - drops
    BY <2>2, PacketsRemoved
  <2>4. child' = [queues EXCEPT ![fat] = q] /\ m_nPackets' = n - drops
    BY <1>1, <1>7
  <2> HIDE DEF q
  <2>5. /\ Len(queues[fat]) <= Cardinality(StoredIn(queues))
        /\ Cardinality(StoredIn(child'))
              = Cardinality(StoredIn(queues)) - Len(queues[fat]) + Len(q)
    BY <1>6, <2>1, <2>3, <2>4, StoredChanges
  <2>6. /\ m_nPackets' = Cardinality(StoredIn(child')) /\ m_nPackets' \in Nat
        /\ m_nPackets' <= QdMax
    <3>1. \A L, d, C, D, l, k \in Int :
              C = k /\ L <= C /\ l = L - d /\ D = C - L + l /\ 1 <= d /\ d <= L
                  => D = k - d /\ D >= 0
      OBVIOUS
    <3>2. /\ Len(queues[fat]) \in Int /\ drops \in Int /\ 1 <= drops /\ n \in Int
          /\ drops <= Len(queues[fat]) /\ Len(q) \in Int
          /\ Cardinality(StoredIn(child')) \in Int
      BY <1>6, <2>2, <2>3, <2>5
    <3>3. Cardinality(StoredIn(child')) = n - drops /\ n - drops >= 0
      BY <1>6, <2>3, <2>5, <3>1, <3>2
    <3>4. n - drops <= QdMax /\ n - drops \in Nat
      BY <1>2, <1>6, <3>2, <3>3
    <3> QED
      BY <2>4, <3>3, <3>4
  <2>7. child' \in [Flows -> Seq(Sizes)]
    BY <1>6, <2>1, <2>3, <2>4
  <2>8. \A g \in Flows : g # f /\ child'[g] # <<>> => child[g] # <<>>
    BY <1>6, <2>1, <2>4
  <2> QED
    BY <1>4, <2>6, <2>7, <2>8 DEF LimitKept, Stored, StoredIn
<1>8. CASE ~ (n > QdMax)
  <2>1. child' = queues /\ m_nPackets' = n /\ n <= QdMax
    BY <1>1, <1>2, <1>6, <1>8
  <2> QED
    BY <1>4, <1>6, <2>1 DEF LimitKept, Stored, StoredIn
<1> QED
  BY <1>7, <1>8

-----------------------------------------------------------------------------
(* What the steps do to the lists *)

LEMMA SelectedHead ==
    ASSUME TypeOK, Listing, Selected # <<>>
    PROVE  /\ Head(Selected) \in Flows
           /\ m_newFlows # <<>> => /\ Selected = m_newFlows
                                   /\ m_status[Head(Selected)] = "NEW_FLOW"
                                   /\ Head(Selected) \notin ToSet(m_oldFlows)
           /\ m_newFlows = <<>> => /\ Selected = m_oldFlows
                                   /\ m_status[Head(Selected)] = "OLD_FLOW"
<1>1. Selected = IF m_newFlows # <<>> THEN m_newFlows ELSE m_oldFlows
  BY DEF Selected
<1>2. m_newFlows \in Seq(Flows) /\ m_oldFlows \in Seq(Flows)
  BY DEF TypeOK
<1>3. CASE m_newFlows # <<>>
  <2>1. Head(m_newFlows) \in Flows /\ Head(m_newFlows) \in ToSet(m_newFlows)
    BY <1>2, <1>3, TailOfList DEF Listing
  <2>2. m_status[Head(m_newFlows)] = "NEW_FLOW" /\ Head(m_newFlows) \notin ToSet(m_oldFlows)
    BY <2>1 DEF Listing
  <2> QED
    BY <1>1, <1>3, <2>1, <2>2
<1>4. CASE m_newFlows = <<>>
  <2>1. Head(m_oldFlows) \in Flows /\ Head(m_oldFlows) \in ToSet(m_oldFlows)
    BY <1>1, <1>2, <1>4, TailOfList DEF Listing
  <2> QED
    BY <1>1, <1>4, <2>1 DEF Listing
<1> QED
  BY <1>3, <1>4

\* The lists, without the queues.
Listed ==
    /\ m_status \in [Flows -> {"INACTIVE", "NEW_FLOW", "OLD_FLOW"}]
    /\ m_newFlows \in Seq(Flows) /\ m_oldFlows \in Seq(Flows)
    /\ Distinct(m_newFlows) /\ Distinct(m_oldFlows)
    /\ \A f \in Flows :
           /\ f \in ToSet(m_newFlows) <=> m_status[f] = "NEW_FLOW"
           /\ f \in ToSet(m_oldFlows) <=> m_status[f] = "OLD_FLOW"

\* The flow that is moved comes last, the others keep their order.
LEMMA MoveLists ==
    ASSUME TypeOK, Listing, Selected # <<>>, NEW f, f = Head(Selected), MoveToOld(f)
    PROVE  /\ Listed'
           /\ \A g \in Flows : m_status'[g] = IF g = f THEN "OLD_FLOW" ELSE m_status[g]
           /\ \A g, h : Before(g, h, m_oldFlows') =>
                  \/ Before(g, h, m_oldFlows) /\ g # f /\ h # f
                  \/ /\ h = f /\ g # f /\ g \in ToSet(m_oldFlows)
                     /\ m_status[f] = "OLD_FLOW" => Before(f, g, m_oldFlows)
<1>1. /\ m_newFlows \in Seq(Flows) /\ m_oldFlows \in Seq(Flows)
      /\ m_status \in [Flows -> {"INACTIVE", "NEW_FLOW", "OLD_FLOW"}]
      /\ Distinct(m_newFlows) /\ Distinct(m_oldFlows)
      /\ \A g \in Flows : /\ g \in ToSet(m_newFlows) <=> m_status[g] = "NEW_FLOW"
                          /\ g \in ToSet(m_oldFlows) <=> m_status[g] = "OLD_FLOW"
  BY DEF TypeOK, Listing
<1>2. f \in Flows
  BY SelectedHead
<1>3. /\ m_status' = [m_status EXCEPT ![f] = "OLD_FLOW"]
      /\ m_status' \in [Flows -> {"INACTIVE", "NEW_FLOW", "OLD_FLOW"}]
      /\ \A g \in Flows : m_status'[g] = IF g = f THEN "OLD_FLOW" ELSE m_status[g]
  BY <1>1, <1>2 DEF MoveToOld
<1>4. CASE m_newFlows # <<>>
  <2>1. /\ m_newFlows' = Tail(m_newFlows) /\ m_oldFlows' = Append(m_oldFlows, f)
        /\ f = Head(m_newFlows) /\ m_status[f] = "NEW_FLOW" /\ f \notin ToSet(m_oldFlows)
    BY <1>4, SelectedHead DEF MoveToOld
  <2>2. /\ m_newFlows' \in Seq(Flows) /\ Distinct(m_newFlows')
        /\ ToSet(m_newFlows') = ToSet(m_newFlows) \ {f}
    BY <1>1, <1>4, <2>1, TailOfList
  <2>3. /\ m_oldFlows' \in Seq(Flows) /\ Distinct(m_oldFlows')
        /\ ToSet(m_oldFlows') = ToSet(m_oldFlows) \cup {f}
        /\ \A g, h : Before(g, h, m_oldFlows') <=>
                         Before(g, h, m_oldFlows) \/ (g \in ToSet(m_oldFlows) /\ h = f)
    BY <1>1, <1>2, <2>1, AppendToList
  <2>4. \A g, h : Before(g, h, m_oldFlows) => g \in ToSet(m_oldFlows) /\ h \in ToSet(m_oldFlows)
    BY <1>1, BeforeIn
  <2>5. Listed'
    BY <1>1, <1>3, <2>2, <2>3 DEF Listed
  <2> QED
    BY <1>3, <2>1, <2>3, <2>4, <2>5
<1>5. CASE m_newFlows = <<>>
  <2>1. /\ m_newFlows' = m_newFlows /\ m_oldFlows' = Append(Tail(m_oldFlows), f)
        /\ m_oldFlows # <<>> /\ f = Head(m_oldFlows) /\ m_status[f] = "OLD_FLOW"
    BY <1>5, SelectedHead DEF MoveToOld
  <2> DEFINE t == Tail(m_oldFlows)
  <2>2. /\ t \in Seq(Flows) /\ Distinct(t) /\ ToSet(t) = ToSet(m_oldFlows) \ {f}
        /\ f \in ToSet(m_oldFlows)
        /\ \A g, h : Before(g, h, t) => Before(g, h, m_oldFlows) /\ g # f
        /\ \A g, h : Before(g, h, m_oldFlows) => h # f
        /\ \A g \in ToSet(m_oldFlows) : g # f => Before(f, g, m_oldFlows)
    BY <1>1, <2>1, TailOfList
  <2> HIDE DEF t
  <2>3. /\ Append(t, f) \in Seq(Flows) /\ Distinct(Append(t, f))
        /\ ToSet(Append(t, f)) = ToSet(t) \cup {f}
        /\ \A g, h : Before(g, h, Append(t, f)) <=>
                         Before(g, h, t) \/ (g \in ToSet(t) /\ h = f)
    BY <1>2, <2>2, AppendToList
  <2>4. m_oldFlows' = Append(t, f)
    BY <2>1 DEF t
  <2>5. ToSet(m_oldFlows') = ToSet(m_oldFlows)
    <3>1. ToSet(Append(t, f)) = ToSet(m_oldFlows)
      <4>1. ToSet(Append(t, f)) = (ToSet(m_oldFlows) \ {f}) \cup {f}
        BY <2>2, <2>3, Zenon
      <4> DEFINE A == ToSet(m_oldFlows)
      <4>2. f \in A /\ ToSet(Append(t, f)) = (A \ {f}) \cup {f}
        BY <2>2, <4>1
      <4> HIDE DEF A
      <4>3. (A \ {f}) \cup {f} = A
        BY <4>2
      <4> QED
        BY <4>2, <4>3 DEF A
    <3> QED
      BY <2>4, <3>1
  <2>6. Listed'
    BY <1>1, <1>3, <2>1, <2>3, <2>4, <2>5 DEF Listed
  <2>7. ASSUME NEW g, NEW h, Before(g, h, m_oldFlows')
        PROVE  \/ Before(g, h, m_oldFlows) /\ g # f /\ h # f
               \/ h = f /\ g # f /\ g \in ToSet(m_oldFlows) /\ Before(f, g, m_oldFlows)
    BY <2>2, <2>3, <2>4, <2>7
  <2> QED
    BY <1>3, <2>6, <2>7
<1> QED
  BY <1>4, <1>5

\* An old flow without packets leaves the lists.
LEMMA RetireLists ==
    ASSUME TypeOK, Listing, Selected # <<>>, NEW f, f = Head(Selected), Retire(f)
    PROVE  /\ Listed'
           /\ \A g \in Flows : g # f => m_status'[g] = m_status[g]
           /\ \A g, h : Before(g, h, m_oldFlows') =>
                  \/ Before(g, h, m_oldFlows) /\ g # f /\ h # f
                  \/ h = f /\ g # f
<1>1. f \in Flows
  BY SelectedHead
<1>2. CASE m_newFlows # <<>>
  <2>1. MoveToOld(f)
    BY <1>2 DEF Retire
  <2> QED
    BY <1>1, <2>1, MoveLists
<1>3. CASE m_newFlows = <<>>
  <2>1. /\ m_status' = [m_status EXCEPT ![f] = "INACTIVE"]
        /\ m_oldFlows' = Tail(m_oldFlows) /\ m_newFlows' = m_newFlows
        /\ m_oldFlows # <<>> /\ f = Head(m_oldFlows) /\ m_status[f] = "OLD_FLOW"
    BY <1>3, SelectedHead DEF Retire
  <2>2. /\ m_newFlows \in Seq(Flows) /\ m_oldFlows \in Seq(Flows)
        /\ m_status \in [Flows -> {"INACTIVE", "NEW_FLOW", "OLD_FLOW"}]
        /\ Distinct(m_newFlows) /\ Distinct(m_oldFlows)
        /\ \A g \in Flows : /\ g \in ToSet(m_newFlows) <=> m_status[g] = "NEW_FLOW"
                            /\ g \in ToSet(m_oldFlows) <=> m_status[g] = "OLD_FLOW"
    BY DEF TypeOK, Listing
  <2>3. /\ m_oldFlows' \in Seq(Flows) /\ Distinct(m_oldFlows')
        /\ ToSet(m_oldFlows') = ToSet(m_oldFlows) \ {f}
        /\ \A g, h : Before(g, h, m_oldFlows') => Before(g, h, m_oldFlows) /\ g # f
        /\ \A g, h : Before(g, h, m_oldFlows) => h # f
    BY <2>1, <2>2, TailOfList
  <2>4. /\ m_status' \in [Flows -> {"INACTIVE", "NEW_FLOW", "OLD_FLOW"}]
        /\ \A g \in Flows : m_status'[g] = IF g = f THEN "INACTIVE" ELSE m_status[g]
    BY <1>1, <2>1, <2>2
  <2>5. Listed'
    BY <2>1, <2>2, <2>3, <2>4 DEF Listed
  <2> QED
    BY <2>3, <2>4, <2>5
<1> QED
  BY <1>2, <1>3

LEMMA ActivateLists ==
    ASSUME TypeOK, Listing, NEW f \in Flows, Activate(f)
    PROVE  /\ Listed' /\ m_oldFlows' = m_oldFlows
           /\ m_status'[f] # "INACTIVE"
           /\ \A g \in Flows : m_status[g] = "OLD_FLOW" <=> m_status'[g] = "OLD_FLOW"
           /\ \A g \in Flows : g # f => m_status'[g] = m_status[g]
           /\ \A g \in Flows : m_status[g] # "INACTIVE" => m_deficit'[g] = m_deficit[g]
           /\ m_deficit' \in [Flows -> 1 - MaxSize .. Quantum]
<1>1. /\ m_newFlows \in Seq(Flows) /\ m_oldFlows \in Seq(Flows)
      /\ m_status \in [Flows -> {"INACTIVE", "NEW_FLOW", "OLD_FLOW"}]
      /\ m_deficit \in [Flows -> 1 - MaxSize .. Quantum]
      /\ Distinct(m_newFlows) /\ Distinct(m_oldFlows)
      /\ \A g \in Flows : /\ g \in ToSet(m_newFlows) <=> m_status[g] = "NEW_FLOW"
                          /\ g \in ToSet(m_oldFlows) <=> m_status[g] = "OLD_FLOW"
  BY DEF TypeOK, Listing
<1>2. CASE m_status[f] = "INACTIVE"
  <2>1. /\ m_status' = [m_status EXCEPT ![f] = "NEW_FLOW"]
        /\ m_deficit' = [m_deficit EXCEPT ![f] = Quantum]
        /\ m_newFlows' = Append(m_newFlows, f) /\ m_oldFlows' = m_oldFlows
    BY <1>2 DEF Activate
  <2>2. f \notin ToSet(m_newFlows)
    BY <1>1, <1>2
  <2>3. /\ m_newFlows' \in Seq(Flows) /\ Distinct(m_newFlows')
        /\ ToSet(m_newFlows') = ToSet(m_newFlows) \cup {f}
    BY <1>1, <2>1, <2>2, AppendToList
  <2>4. Quantum \in 1 - MaxSize .. Quantum
    BY SizesRange
  <2>5. m_deficit' \in [Flows -> 1 - MaxSize .. Quantum]
    BY <1>1, <2>1, <2>4
  <2>6. /\ m_status' \in [Flows -> {"INACTIVE", "NEW_FLOW", "OLD_FLOW"}]
        /\ \A g \in Flows : m_status'[g] = IF g = f THEN "NEW_FLOW" ELSE m_status[g]
    BY <1>1, <2>1
  <2>7. Listed'
    BY <1>1, <1>2, <2>1, <2>3, <2>6 DEF Listed
  <2>8. \A g \in Flows : m_status[g] # "INACTIVE" => m_deficit'[g] = m_deficit[g]
    BY <1>1, <1>2, <2>1
  <2> QED
    BY <1>2, <2>1, <2>5, <2>6, <2>7, <2>8
<1>3. CASE m_status[f] # "INACTIVE"
  <2>1. UNCHANGED <<m_status, m_deficit, m_newFlows, m_oldFlows>>
    BY <1>3 DEF Activate
  <2> QED
    BY <1>1, <1>3, <2>1 DEF Listed
<1> QED
  BY <1>2, <1>3

-----------------------------------------------------------------------------
(* The lists and the queues together *)

LEMMA ListInit == Init => ListInv
<1> SUFFICES ASSUME Init PROVE ListInv
  OBVIOUS
<1>1. /\ m_newFlows = <<>> /\ m_oldFlows = <<>> /\ m_nPackets = 0
      /\ child = [f \in Flows |-> <<>>] /\ m_status = [f \in Flows |-> "INACTIVE"]
      /\ m_deficit = [f \in Flows |-> 0]
  BY DEF Init
<1>2. TypeOK
  <2>1. m_dequeuing \in BOOLEAN
    BY Zenon DEF Init
  <2>2. 0 \in 1 - MaxSize .. Quantum
    BY SizesRange
  <2>3. /\ <<>> \in Seq(Flows) /\ <<>> \in Seq(Sizes)
    BY EmptySeq
  <2> HIDE DEF MaxSize
  <2> QED
    BY <1>1, <2>1, <2>2, <2>3 DEF Init, TypeOK
<1>3. Listing
  BY <1>1, EmptySeq DEF Listing, Distinct, ToSet
<1>4. LimitKept
  <2>1. \A f \in Flows : {f} \X DOMAIN child[f] = {}
    BY <1>1, EmptySeq
  <2>2. Stored = {}
    BY <2>1 DEF Stored
  <2> QED
    BY <1>1, <2>2, FS_EmptySet, FqCoDelAssumption DEF LimitKept
<1> QED
  BY <1>2, <1>3, <1>4 DEF ListInv

LEMMA EnqueueList ==
    ASSUME ListInv, NEW f \in Flows, NEW size \in Sizes, Enqueue(f, size)
    PROVE  ListInv'
<1>1. TypeOK /\ Listing /\ LimitKept
  BY DEF ListInv
<1>2. /\ child' \in [Flows -> Seq(Sizes)] /\ m_nPackets' \in Nat /\ LimitKept'
      /\ m_classes' \in Seq(Flows)
      /\ \A g \in Flows : g # f /\ child'[g] # <<>> => child[g] # <<>>
  BY <1>1, EnqueueQueues
<1>3. Activate(f) /\ UNCHANGED <<m_dequeuing, served>>
  BY DEF Enqueue
<1>4. /\ Listed' /\ m_status'[f] # "INACTIVE"
      /\ \A g \in Flows : g # f => m_status'[g] = m_status[g]
      /\ m_deficit' \in [Flows -> 1 - MaxSize .. Quantum]
  BY <1>1, <1>3, ActivateLists
<1>5. TypeOK'
  BY <1>1, <1>2, <1>3, <1>4 DEF TypeOK, Listed
<1>6. Listing'
  BY <1>1, <1>2, <1>4 DEF Listing, Listed
<1> QED
  BY <1>2, <1>5, <1>6 DEF ListInv

LEMMA RotateList ==
    ASSUME ListInv, Rotate
    PROVE  ListInv'
<1> DEFINE f == Head(Selected)
<1>1. TypeOK /\ Listing /\ LimitKept
  BY DEF ListInv
<1>2. /\ Selected # <<>> /\ m_deficit[f] <= 0 /\ MoveToOld(f)
      /\ m_deficit' = [m_deficit EXCEPT ![f] = @ + Quantum]
      /\ UNCHANGED <<m_classes, child, m_nPackets, m_dequeuing, served>>
  BY DEF Rotate
<1>3. f \in Flows /\ Listed'
      /\ \A g \in Flows : m_status'[g] = IF g = f THEN "OLD_FLOW" ELSE m_status[g]
  BY <1>1, <1>2, SelectedHead, MoveLists
<1> HIDE DEF f
<1>4. m_deficit' \in [Flows -> 1 - MaxSize .. Quantum]
  <2>1. m_deficit \in [Flows -> 1 - MaxSize .. Quantum]
    BY <1>1 DEF TypeOK
  <2>2. m_deficit[f] + Quantum \in 1 - MaxSize .. Quantum
    BY <1>2, <1>3, <2>1, SizesRange
  <2> QED
    BY <1>2, <2>1, <2>2
<1>5. TypeOK'
  BY <1>1, <1>2, <1>3, <1>4 DEF TypeOK, Listed
<1>6. Listing'
  BY <1>1, <1>2, <1>3 DEF Listing, Listed
<1>7. LimitKept'
  BY <1>1, <1>2 DEF LimitKept, Stored
<1> QED
  BY <1>5, <1>6, <1>7 DEF ListInv

\* The packet that is served, and the CoDel drops before it.
LEMMA ServeList ==
    ASSUME ListInv, Serve
    PROVE  /\ ListInv'
           /\ \A g \in Flows : child'[g] # <<>> => child[g] # <<>>
           /\ \E size \in Sizes :
                  /\ Leads(Head(Selected), size)
                  /\ m_deficit' = [m_deficit EXCEPT ![Head(Selected)] = @ - size]
<1> DEFINE f == Head(Selected)
<1>1. TypeOK /\ Listing /\ LimitKept
  BY DEF ListInv
<1>2. PICK k \in 0 .. Len(child[f]) - 1 :
          /\ Selected # <<>> /\ m_deficit[f] > 0
          /\ child' = [child EXCEPT ![f] = SubSeq(@, k + 2, Len(@))]
          /\ m_nPackets' = m_nPackets - (k + 1)
          /\ Charge(f, child[f][k + 1])
          /\ served' = f
          /\ UNCHANGED listVars
          /\ Leads(f, child[f][k + 1])
          /\ m_dequeuing' = FALSE /\ m_classes' = m_classes
  BY DEF Serve
<1>3. f \in Flows
  BY <1>1, <1>2, SelectedHead
<1> HIDE DEF f
<1>4. child \in [Flows -> Seq(Sizes)] /\ child[f] \in Seq(Sizes) /\ Len(child[f]) \in Nat
  <2>1. child[f] \in Seq(Sizes)
    BY <1>1, <1>3 DEF TypeOK
  <2> QED
    BY <1>1, <2>1, LenProperties DEF TypeOK
<1>5. k + 1 \in 1 .. Len(child[f]) /\ (k + 1) + 1 = k + 2 /\ k + 1 \in Nat
  BY <1>4
<1> DEFINE q == SubSeq(child[f], k + 2, Len(child[f]))
           size == child[f][k + 1]
<1>6. q \in Seq(Sizes) /\ Len(q) = Len(child[f]) - (k + 1)
  <2>1. /\ SubSeq(child[f], (k + 1) + 1, Len(child[f])) \in Seq(Sizes)
        /\ Len(SubSeq(child[f], (k + 1) + 1, Len(child[f]))) = Len(child[f]) - (k + 1)
    BY <1>4, <1>5, PacketsRemoved
  <2> QED
    BY <1>5, <2>1
<1>7. size \in Sizes
  BY <1>4, <1>5, ElementOfSeq
<1>8. child' = [child EXCEPT ![f] = q]
  BY <1>2
<1> HIDE DEF q, size
<1>9. child' \in [Flows -> Seq(Sizes)] /\ m_nPackets' \in Nat /\ LimitKept'
  BY <1>1, <1>2, <1>3, <1>5, <1>6, <1>8, FlowLosesPackets
<1>10. \A g \in Flows : child'[g] # <<>> => child[g] # <<>>
  <2>1. child[f] # <<>>
    <3>1. Len(child[f]) # 0
      BY <1>4, <1>5
    <3> QED
      BY <1>4, <3>1, EmptySeq
  <2> QED
    BY <1>3, <1>4, <1>8, <2>1
<1>11. m_deficit' = [m_deficit EXCEPT ![f] = @ - size]
  BY <1>2 DEF Charge, size
<1>12. m_deficit' \in [Flows -> 1 - MaxSize .. Quantum]
  <2>1. m_deficit \in [Flows -> 1 - MaxSize .. Quantum]
    BY <1>1 DEF TypeOK
  <2>2. m_deficit[f] - size \in 1 - MaxSize .. Quantum
    BY <1>2, <1>3, <1>7, <2>1, SizesRange
  <2> QED
    BY <1>11, <2>1, <2>2
<1>13. TypeOK'
  <2>1. m_dequeuing' \in BOOLEAN
    BY <1>2, Zenon
  <2> QED
    BY <1>1, <1>2, <1>3, <1>9, <1>12, <2>1 DEF TypeOK, listVars
<1>14. Listing'
  BY <1>1, <1>2, <1>10 DEF Listing, listVars
<1>15. Leads(f, size)
  BY <1>2 DEF size
<1> QED
  BY <1>7, <1>9, <1>10, <1>11, <1>13, <1>14, <1>15 DEF ListInv, f

LEMMA SkipList ==
    ASSUME ListInv, Skip
    PROVE  ListInv'
<1> DEFINE f == Head(Selected)
<1>1. TypeOK /\ Listing /\ LimitKept
  BY DEF ListInv
<1>2. /\ Selected # <<>> /\ Retire(f)
      /\ child' = [child EXCEPT ![f] = <<>>] /\ m_nPackets' = m_nPackets - Len(child[f])
      /\ UNCHANGED <<m_classes, m_deficit, m_dequeuing, served>>
  BY DEF Skip
<1>3. /\ f \in Flows /\ Listed'
      /\ \A g \in Flows : g # f => m_status'[g] = m_status[g]
  BY <1>1, <1>2, SelectedHead, RetireLists
<1> HIDE DEF f
<1>4. child \in [Flows -> Seq(Sizes)] /\ Len(child[f]) \in Nat
  <2>1. child[f] \in Seq(Sizes)
    BY <1>1, <1>3 DEF TypeOK
  <2> QED
    BY <1>1, <2>1, LenProperties DEF TypeOK
<1>5. child' \in [Flows -> Seq(Sizes)] /\ m_nPackets' \in Nat /\ LimitKept'
  <2>1. <<>> \in Seq(Sizes) /\ Len(<<>>) = Len(child[f]) - Len(child[f])
    BY <1>4, EmptySeq
  <2> QED
    BY <1>1, <1>2, <1>3, <1>4, <2>1, FlowLosesPackets
<1>6. \A g \in Flows : child'[g] = IF g = f THEN <<>> ELSE child[g]
  BY <1>2, <1>4
<1>7. TypeOK'
  BY <1>1, <1>2, <1>3, <1>5 DEF TypeOK, Listed
<1>8. Listing'
  BY <1>1, <1>3, <1>6 DEF Listing, Listed
<1> QED
  BY <1>5, <1>7, <1>8 DEF ListInv

\* A step that changes neither a flow nor a list.
LEMMA OtherList ==
    ASSUME ListInv, m_dequeuing' \in BOOLEAN, served' \in Flows \cup {NoFlow},
           UNCHANGED <<m_classes, child, m_deficit, listVars, m_nPackets>>
    PROVE  ListInv'
<1>1. TypeOK'
  BY DEF ListInv, TypeOK, listVars
<1>2. Listing' /\ LimitKept'
  BY DEF ListInv, Listing, LimitKept, Stored, listVars
<1> QED
  BY <1>1, <1>2 DEF ListInv

\* The steps of DoDequeue that leave flows and lists alone.
LEMMA QuietStep ==
    ASSUME ListInv, DequeueBegins \/ DequeueNothing \/ UNCHANGED vars
    PROVE  /\ ListInv' /\ lead' = lead
           /\ UNCHANGED <<m_classes, child, m_deficit, listVars, m_nPackets>>
<1>1. m_dequeuing' \in BOOLEAN
  BY Zenon DEF ListInv, TypeOK, DequeueBegins, DequeueNothing, vars
<1>2. served' \in Flows \cup {NoFlow}
  BY DEF ListInv, TypeOK, DequeueBegins, DequeueNothing, vars
<1>3. UNCHANGED <<m_classes, child, m_deficit, listVars, m_nPackets, lead>>
  BY DEF DequeueBegins, DequeueNothing, vars
<1> QED
  BY <1>1, <1>2, <1>3, OtherList

LEMMA ListNext == ListInv /\ [Next]_vars => ListInv'
<1> SUFFICES ASSUME ListInv, [Next]_vars PROVE ListInv'
  OBVIOUS
<1> QED
  BY EnqueueList, RotateList, ServeList, SkipList, QuietStep DEF Next, DequeueStep

LEMMA ListInvariant == Spec => []ListInv
BY ListInit, ListNext, PTL DEF Spec

\* Being once in a list, as a number of places.
LEMMA OnceOrNever ==
    ASSUME NEW l \in Seq(Flows), Distinct(l), NEW f
    PROVE  Occurrences(f, l) = IF f \in ToSet(l) THEN 1 ELSE 0
<1> DEFINE P == {i \in DOMAIN l : l[i] = f}
<1>1. CASE f \in ToSet(l)
  <2>1. PICK i \in DOMAIN l : l[i] = f
    BY <1>1 DEF ToSet
  <2>2. P = {i}
    BY <2>1 DEF Distinct
  <2> HIDE DEF P
  <2>3. Cardinality(P) = 1
    BY <2>2, FS_Singleton
  <2> QED
    BY <1>1, <2>3 DEF Occurrences, P
<1>2. CASE f \notin ToSet(l)
  <2>1. P = {}
    BY <1>2 DEF ToSet
  <2>2. Cardinality(P) = 0
    BY <2>1, FS_EmptySet
  <2> QED
    BY <1>2, <2>2 DEF Occurrences
<1> QED
  BY <1>1, <1>2

\* For any flows, sizes, quantum and limit: the status of a flow says in which list
\* it is, once and in no other, a flow with packets is in one of them, and its
\* deficit stays within its range.
THEOREM FlowsAreListed == Spec => []WellListed
<1>1. ListInv => WellListed
  <2> SUFFICES ASSUME ListInv PROVE WellListed
    OBVIOUS
  <2>1. TypeOK /\ Listing
    BY DEF ListInv
  <2>2. \A f \in Flows :
            /\ Occurrences(f, m_newFlows) = IF f \in ToSet(m_newFlows) THEN 1 ELSE 0
            /\ Occurrences(f, m_oldFlows) = IF f \in ToSet(m_oldFlows) THEN 1 ELSE 0
    BY <2>1, OnceOrNever DEF TypeOK, Listing
  <2> QED
    BY <2>1, <2>2 DEF WellListed, ListedByStatus, Listing
<1> QED
  BY <1>1, ListInvariant, PTL

\* For any flows, sizes, limit and batch size: the queue disc counts the packets of
\* its children correctly and never keeps more than its limit.
THEOREM LimitIsKept == Spec => []LimitKept
<1>1. ListInv => LimitKept
  BY DEF ListInv
<1> QED
  BY <1>1, ListInvariant, PTL

-----------------------------------------------------------------------------
(* Fairness *)

LEMMA MaxIsExcess == Max({Quantum, MaxSize}) - 1 = Excess
<1>1. Quantum \in Int /\ MaxSize \in Int
  BY SizesRange
<1>2. /\ Max({Quantum, MaxSize}) \in {Quantum, MaxSize}
      /\ \A y \in {Quantum, MaxSize} : Max({Quantum, MaxSize}) >= y
  <2> HIDE DEF MaxSize
  <2>1. \E x \in {Quantum, MaxSize} : \A y \in {Quantum, MaxSize} : x >= y
    BY <1>1
  <2> QED
    BY <2>1 DEF Max
<1> DEFINE m == Max({Quantum, MaxSize})
<1>3. m = IF Quantum >= MaxSize THEN Quantum ELSE MaxSize
  <2> HIDE DEF m
  <2>1. m \in {Quantum, MaxSize} /\ m >= Quantum /\ m >= MaxSize
    BY <1>2 DEF m
  <2> HIDE DEF MaxSize
  <2> QED
    BY <1>1, <2>1
<1> HIDE DEF m
<1>4. m - 1 = Excess
  <2> HIDE DEF MaxSize
  <2> QED
    BY <1>3 DEF Excess
<1> QED
  BY <1>4 DEF m

\* Two flows that begin to compete, or whose lead is otherwise zero.
LEMMA FreshPair ==
    ASSUME NEW x \in 1 - MaxSize .. Quantum, NEW y \in 1 - MaxSize .. Quantum,
           y >= 1 \/ y >= Quantum - Overdraft
    PROVE  - (Quantum + Excess) <= x - y /\ x - y <= Excess
<1>1. /\ MaxSize \in Int /\ Quantum \in Int /\ Overdraft = MaxSize - 1 /\ Excess \in Int
      /\ Excess >= Quantum - 1 /\ Excess >= Overdraft
  BY SizesRange
<1> HIDE DEF MaxSize, Overdraft, Excess
<1> QED
  BY <1>1

\* The lead of two flows that compete changes by what is served, that of others
\* becomes zero.
LEMMA LeadsShape ==
    ASSUME LeadShape, NEW h, NEW size \in Int, Leads(h, size)
    PROVE  /\ LeadShape'
           /\ \A f, g \in Flows : f # g /\ Competing(f, g)' =>
                  lead'[<<f, g>>] = lead[<<f, g>>] + (IF h = f THEN size ELSE 0)
                                           - (IF h = g THEN size ELSE 0)
<1>1. /\ lead \in [Flows \X Flows -> Int]
      /\ \A f, g \in Flows : lead[<<f, g>>] \in Int /\ lead[<<f, g>>] = - lead[<<g, f>>]
  BY DEF LeadShape
<1>2. \A f, g \in Flows : Compete(f, g) <=> Competing(f, g)'
  BY DEF Compete, Competing
<1>3. \A f, g \in Flows : Compete(f, g) <=> Compete(g, f)
  BY DEF Compete
<1>4. ASSUME NEW f \in Flows, NEW g \in Flows
      PROVE  lead'[<<f, g>>] = IF f = g \/ ~ Compete(f, g) THEN 0
                           ELSE lead[<<f, g>>] + (IF h = f THEN size ELSE 0)
                                           - (IF h = g THEN size ELSE 0)
  <2>1. <<f, g>> \in Flows \X Flows /\ <<f, g>>[1] = f /\ <<f, g>>[2] = g
    OBVIOUS
  <2> HIDE DEF Compete
  <2> QED
    BY <2>1 DEF Leads
<1>5. lead' \in [Flows \X Flows -> Int]
  <2>1. \A f, g \in Flows : lead'[<<f, g>>] \in Int
    <3> SUFFICES ASSUME NEW f \in Flows, NEW g \in Flows PROVE lead'[<<f, g>>] \in Int
      OBVIOUS
    <3> HIDE DEF Compete
    <3>1. lead[<<f, g>>] \in Int
      BY <1>1
    <3>2. CASE f = g \/ ~ Compete(f, g)
      BY <1>4, <3>2
    <3>3. CASE ~ (f = g \/ ~ Compete(f, g))
      BY <1>4, <3>1, <3>3
    <3> QED
      BY <3>2, <3>3
  <2>2. lead' = [p \in Flows \X Flows |-> lead'[p]]
    BY DEF Leads
  <2> QED
    BY <2>1, <2>2
<1>6. ASSUME NEW f \in Flows, NEW g \in Flows PROVE lead'[<<f, g>>] = - lead'[<<g, f>>]
  <2> HIDE DEF Compete
  <2>1. CASE f = g \/ ~ Compete(f, g)
    BY <1>3, <1>4, <2>1
  <2>2. CASE ~ (f = g \/ ~ Compete(f, g))
    <3>1. lead[<<f, g>>] \in Int /\ lead[<<g, f>>] \in Int /\ lead[<<f, g>>] = - lead[<<g, f>>]
      BY <1>1
    <3>2. /\ lead'[<<f, g>>] = lead[<<f, g>>] + (IF h = f THEN size ELSE 0)
                                      - (IF h = g THEN size ELSE 0)
          /\ lead'[<<g, f>>] = lead[<<g, f>>] + (IF h = g THEN size ELSE 0)
                                      - (IF h = f THEN size ELSE 0)
      BY <1>3, <1>4, <2>2
    <3> QED
      BY <3>1, <3>2
  <2> QED
    BY <2>1, <2>2
<1>7. LeadShape'
  BY <1>2, <1>4, <1>5, <1>6 DEF LeadShape
<1> QED
  BY <1>2, <1>4, <1>7

\* The order of two old flows, and the ranges of their numbers.
LEMMA PairOfOldFlows ==
    ASSUME FairInv, NEW f \in Flows, NEW g \in Flows, Before(f, g, m_oldFlows)
    PROVE  /\ f # g /\ f \in ToSet(m_oldFlows) /\ g \in ToSet(m_oldFlows)
           /\ m_status[f] = "OLD_FLOW" /\ m_status[g] = "OLD_FLOW"
           /\ g # Head(Selected)
<1>1. /\ m_newFlows \in Seq(Flows) /\ m_oldFlows \in Seq(Flows)
      /\ Distinct(m_newFlows) /\ Distinct(m_oldFlows)
      /\ \A h \in Flows : /\ h \in ToSet(m_newFlows) <=> m_status[h] = "NEW_FLOW"
                          /\ h \in ToSet(m_oldFlows) <=> m_status[h] = "OLD_FLOW"
  BY DEF FairInv, ListInv, TypeOK, Listing
<1>2. f # g /\ f \in ToSet(m_oldFlows) /\ g \in ToSet(m_oldFlows)
  BY <1>1, BeforeIn
<1>3. CASE m_newFlows # <<>>
  <2>1. Head(Selected) \notin ToSet(m_oldFlows)
    <3>1. Selected # <<>>
      BY <1>3 DEF Selected
    <3> QED
      BY <1>3, <3>1, SelectedHead DEF FairInv, ListInv
  <2> QED
    BY <1>1, <1>2, <2>1
<1>4. CASE m_newFlows = <<>>
  <2>1. m_oldFlows # <<>>
    <3>1. \E i \in DOMAIN m_oldFlows : TRUE
      BY DEF Before
    <3> QED
      BY <3>1, EmptySeq
  <2>2. g # Head(m_oldFlows)
    BY <1>1, <2>1, TailOfList
  <2> QED
    BY <1>1, <1>2, <1>4, <2>2 DEF Selected
<1> QED
  BY <1>3, <1>4

\* When the lead of two old flows is zero, what is required of them follows from
\* their deficits.  (The state is the one after a step.)
LEMMA NoLeadYet ==
    ASSUME TypeOK', LeadShape', BehindHasCredit',
           NEW f \in Flows, NEW g \in Flows, Before(f, g, m_oldFlows'), lead'[<<f, g>>] = 0
    PROVE  /\ - (Quantum + Excess) <= Credit(f, g)' /\ Credit(f, g)' <= Excess
           /\ lead'[<<g, f>>] <= 0
<1>1. m_deficit'[f] \in 1 - MaxSize .. Quantum /\ m_deficit'[g] \in 1 - MaxSize .. Quantum
  BY DEF TypeOK
<1>2. m_deficit'[g] >= 1 \/ m_deficit'[g] >= Quantum - Overdraft
  BY DEF BehindHasCredit
<1>3. /\ - (Quantum + Excess) <= m_deficit'[f] - m_deficit'[g]
      /\ m_deficit'[f] - m_deficit'[g] <= Excess
  BY <1>1, <1>2, FreshPair
<1>4. m_deficit'[f] \in Int /\ m_deficit'[g] \in Int /\ MaxSize \in Int /\ Quantum \in Int
  BY <1>1, SizesRange
<1>5. Credit(f, g)' = m_deficit'[f] - m_deficit'[g]
  BY <1>4 DEF Credit
<1>6. lead'[<<g, f>>] = - lead'[<<f, g>>]
  BY DEF LeadShape
<1> QED
  BY <1>3, <1>5, <1>6

LEMMA FairInit == Init => FairInv
<1> SUFFICES ASSUME Init PROVE FairInv
  OBVIOUS
<1>1. /\ m_oldFlows = <<>> /\ lead = [fg \in Flows \X Flows |-> 0]
  BY DEF Init
<1>2. LeadShape
  <2>1. \A f, g \in Flows : lead[<<f, g>>] = 0
    BY <1>1
  <2> QED
    BY <1>1, <2>1 DEF LeadShape
<1>3. \A f, g : ~ Before(f, g, m_oldFlows)
  BY <1>1, EmptySeq DEF Before
<1> QED
  BY <1>2, <1>3, ListInit DEF FairInv, BehindHasCredit, TurnsAlternate

\* The lead between two flows for which nothing is served.
LEMMA LeadKept ==
    ASSUME LeadShape, Leads(NoFlow, 0)
    PROVE  /\ LeadShape'
           /\ \A f, g \in Flows : f # g /\ Competing(f, g)' =>
                                      lead'[<<f, g>>] = lead[<<f, g>>]
<1>1. 0 \in Int
  OBVIOUS
<1>2. /\ LeadShape'
      /\ \A f, g \in Flows : f # g /\ Competing(f, g)' =>
             lead'[<<f, g>>] = lead[<<f, g>>] + (IF NoFlow = f THEN 0 ELSE 0)
                                              - (IF NoFlow = g THEN 0 ELSE 0)
  BY <1>1, LeadsShape
<1>3. \A f, g \in Flows : lead[<<f, g>>] \in Int
  BY DEF LeadShape
<1> QED
  BY <1>2, <1>3

\* What is required of a pair of old flows is kept when neither changes.
LEMMA PairUnchanged ==
    ASSUME FairInv, NEW f \in Flows, NEW g \in Flows, Before(f, g, m_oldFlows),
           m_deficit'[f] = m_deficit[f], m_deficit'[g] = m_deficit[g]
    PROVE  /\ m_deficit'[g] >= 1 \/ m_deficit'[g] >= Quantum - Overdraft
           /\ Competing(f, g) /\ lead'[<<f, g>>] = lead[<<f, g>>]
                              /\ lead'[<<g, f>>] = lead[<<g, f>>] =>
                  /\ - (Quantum + Excess) <= Credit(f, g)' /\ Credit(f, g)' <= Excess
                  /\ lead'[<<g, f>>] <= 0 \/ m_deficit'[g] >= Quantum - Overdraft
<1>1. m_deficit[g] >= 1 \/ m_deficit[g] >= Quantum - Overdraft
  BY DEF FairInv, BehindHasCredit
<1>2. Competing(f, g) =>
          /\ - (Quantum + Excess) <= Credit(f, g) /\ Credit(f, g) <= Excess
          /\ lead[<<g, f>>] <= 0 \/ m_deficit[g] >= Quantum - Overdraft
  BY DEF FairInv, TurnsAlternate
<1> HIDE DEF Competing
<1> QED
  BY <1>1, <1>2 DEF Credit

LEMMA EnqueueFair ==
    ASSUME FairInv, NEW f0 \in Flows, NEW size \in Sizes, Enqueue(f0, size)
    PROVE  FairInv'
<1>1. ListInv /\ TypeOK /\ Listing /\ LeadShape
  BY DEF FairInv, ListInv
<1>2. ListInv' /\ TypeOK'
  <2>1. ListInv'
    BY <1>1, EnqueueList
  <2> QED
    BY <2>1 DEF ListInv
<1>3. Activate(f0) /\ Leads(NoFlow, 0)
  BY DEF Enqueue
<1>4. /\ m_oldFlows' = m_oldFlows
      /\ \A g \in Flows : m_status[g] # "INACTIVE" => m_deficit'[g] = m_deficit[g]
  BY <1>1, <1>3, ActivateLists
<1>5. /\ LeadShape'
      /\ \A f, g \in Flows : f # g /\ Competing(f, g)' =>
                                 lead'[<<f, g>>] = lead[<<f, g>>]
  BY <1>1, <1>3, LeadKept
<1>6. ASSUME NEW f \in Flows, NEW g \in Flows, Before(f, g, m_oldFlows')
      PROVE  /\ Before(f, g, m_oldFlows) /\ f # g
             /\ m_deficit'[f] = m_deficit[f] /\ m_deficit'[g] = m_deficit[g]
  <2>1. Before(f, g, m_oldFlows)
    BY <1>4, <1>6
  <2>2. f # g /\ m_status[f] = "OLD_FLOW" /\ m_status[g] = "OLD_FLOW"
    BY <2>1, PairOfOldFlows
  <2> QED
    BY <1>4, <2>1, <2>2
<1>7. BehindHasCredit'
  <2> SUFFICES ASSUME NEW f \in Flows, NEW g \in Flows, Before(f, g, m_oldFlows')
               PROVE  m_deficit'[g] >= 1 \/ m_deficit'[g] >= Quantum - Overdraft
    BY DEF BehindHasCredit
  <2> QED
    BY <1>6, PairUnchanged
<1>8. TurnsAlternate'
  <2> SUFFICES ASSUME NEW f \in Flows, NEW g \in Flows,
                      Before(f, g, m_oldFlows'), Competing(f, g)'
               PROVE  /\ - (Quantum + Excess) <= Credit(f, g)' /\ Credit(f, g)' <= Excess
                      /\ lead'[<<g, f>>] <= 0 \/ m_deficit'[g] >= Quantum - Overdraft
    BY DEF TurnsAlternate
  <2>1. /\ Before(f, g, m_oldFlows) /\ f # g
        /\ m_deficit'[f] = m_deficit[f] /\ m_deficit'[g] = m_deficit[g]
    BY <1>6
  <2>2. Competing(g, f)'
    BY DEF Competing
  <2>3. lead'[<<f, g>>] = lead[<<f, g>>] /\ lead'[<<g, f>>] = lead[<<g, f>>]
    BY <1>5, <2>1, <2>2
  <2>4. CASE Competing(f, g)
    BY <2>1, <2>3, <2>4, PairUnchanged
  <2>5. CASE ~ Competing(f, g)
    <3>1. lead'[<<f, g>>] = 0
      BY <1>1, <2>3, <2>5 DEF LeadShape
    <3> QED
      BY <1>2, <1>5, <1>7, <3>1, NoLeadYet
  <2> QED
    BY <2>4, <2>5
<1> QED
  BY <1>2, <1>5, <1>7, <1>8 DEF FairInv

\* A flow that is rotated comes last, with its next quantum.
LEMMA RotateFair == ASSUME FairInv, Rotate PROVE FairInv'
<1>r. PICK r : r = Head(Selected)
  OBVIOUS
<1>1. ListInv /\ TypeOK /\ Listing /\ LeadShape
  BY DEF FairInv, ListInv
<1>2. ListInv' /\ TypeOK'
  <2>1. ListInv'
    BY <1>1, RotateList
  <2> QED
    BY <2>1 DEF ListInv
<1>3. /\ Selected # <<>> /\ m_deficit[r] <= 0 /\ MoveToOld(r)
      /\ m_deficit' = [m_deficit EXCEPT ![r] = @ + Quantum]
      /\ child' = child /\ Leads(NoFlow, 0)
  BY <1>r DEF Rotate
<1>4. /\ r \in Flows
      /\ m_newFlows # <<>> => m_status[r] = "NEW_FLOW"
      /\ m_newFlows = <<>> => m_status[r] = "OLD_FLOW"
  BY <1>r, <1>1, <1>3, SelectedHead
<1>5. /\ \A g \in Flows : m_status'[g] = IF g = r THEN "OLD_FLOW" ELSE m_status[g]
      /\ \A g, h : Before(g, h, m_oldFlows') =>
             \/ Before(g, h, m_oldFlows) /\ g # r /\ h # r
             \/ /\ h = r /\ g # r /\ g \in ToSet(m_oldFlows)
                /\ m_status[r] = "OLD_FLOW" => Before(r, g, m_oldFlows)
  BY <1>r, <1>1, <1>3, MoveLists
<1>6. /\ LeadShape'
      /\ \A f, g \in Flows : f # g /\ Competing(f, g)' =>
                                 lead'[<<f, g>>] = lead[<<f, g>>]
  BY <1>1, <1>3, LeadKept
<1>7. /\ m_deficit'[r] = m_deficit[r] + Quantum /\ m_deficit[r] \in 1 - MaxSize .. Quantum
      /\ \A g \in Flows : g # r => m_deficit'[g] = m_deficit[g]
  BY <1>1, <1>3, <1>4 DEF TypeOK
<1>8. m_deficit'[r] >= Quantum - Overdraft
  <2>1. Quantum \in Int /\ MaxSize \in Int /\ Overdraft = MaxSize - 1
    BY SizesRange
  <2> HIDE DEF MaxSize, Overdraft
  <2> QED
    BY <1>7, <2>1
<1>9. BehindHasCredit'
  <2> SUFFICES ASSUME NEW f \in Flows, NEW g \in Flows, Before(f, g, m_oldFlows')
               PROVE  m_deficit'[g] >= 1 \/ m_deficit'[g] >= Quantum - Overdraft
    BY DEF BehindHasCredit
  <2>1. CASE g = r
    BY <1>8, <2>1
  <2>2. CASE g # r
    <3>1. Before(f, g, m_oldFlows) /\ f # r
      BY <1>5, <2>2
    <3> QED
      BY <1>7, <2>2, <3>1, PairUnchanged
  <2> QED
    BY <2>1, <2>2
<1>10. TurnsAlternate'
  <2> SUFFICES ASSUME NEW f \in Flows, NEW g \in Flows,
                      Before(f, g, m_oldFlows'), Competing(f, g)'
               PROVE  /\ - (Quantum + Excess) <= Credit(f, g)' /\ Credit(f, g)' <= Excess
                      /\ lead'[<<g, f>>] <= 0 \/ m_deficit'[g] >= Quantum - Overdraft
    BY DEF TurnsAlternate
  <2>1. Competing(g, f)'
    BY DEF Competing
  <2>2. CASE g # r
    <3>1. Before(f, g, m_oldFlows) /\ f # r
      BY <1>5, <2>2
    <3>2. f # g
      BY <3>1, PairOfOldFlows
    <3>3. lead'[<<f, g>>] = lead[<<f, g>>] /\ lead'[<<g, f>>] = lead[<<g, f>>]
      BY <1>6, <2>1, <3>2
    <3>4. Competing(f, g)
      BY <1>3, <1>5, <2>2, <3>1 DEF Competing
    <3> QED
      BY <1>7, <2>2, <3>1, <3>3, <3>4, PairUnchanged
  <2>3. CASE g = r
    <3>1. f # r /\ (m_status[r] = "OLD_FLOW" => Before(r, f, m_oldFlows))
      BY <1>5, <2>3
    <3>2. lead'[<<f, r>>] = lead[<<f, r>>]
      BY <1>6, <2>3, <3>1
    <3>3. CASE m_status[r] = "OLD_FLOW"
      <4>1. Before(r, f, m_oldFlows)
        BY <3>1, <3>3
      <4>2. Competing(r, f)
        BY <1>3, <1>4, <1>5, <2>3, <3>1, <3>3 DEF Competing
      <4>3. - (Quantum + Excess) <= Credit(r, f) /\ Credit(r, f) <= Excess
        BY <1>4, <4>1, <4>2 DEF FairInv, TurnsAlternate
      <4>4. /\ lead[<<f, r>>] = - lead[<<r, f>>] /\ lead[<<r, f>>] \in Int
            /\ m_deficit[f] \in Int /\ m_deficit[r] \in Int
            /\ Quantum \in Int /\ Excess \in Int
        <5>1. MaxSize \in Int /\ Quantum \in Int
          BY SizesRange
        <5>2. m_deficit[f] \in 1 - MaxSize .. Quantum
          BY <1>1 DEF TypeOK
        <5>3. m_deficit[f] \in Int /\ m_deficit[r] \in Int
          <6> HIDE DEF MaxSize
          <6> QED
            BY <1>7, <5>1, <5>2
        <5> QED
          BY <1>1, <1>4, <5>3, SizesRange DEF LeadShape
      <4>5. Credit(f, r)' = lead[<<f, r>>] + m_deficit[f] - (m_deficit[r] + Quantum)
        BY <1>7, <3>1, <3>2 DEF Credit
      <4>6. Credit(r, f) = lead[<<r, f>>] + m_deficit[r] - m_deficit[f]
        BY DEF Credit
      <4>7. - (Quantum + Excess) <= Credit(f, r)' /\ Credit(f, r)' <= Excess
        <5> DEFINE c == Credit(f, r)'
                   b == Credit(r, f)
        <5>1. /\ c = lead[<<f, r>>] + m_deficit[f] - (m_deficit[r] + Quantum)
              /\ b = lead[<<r, f>>] + m_deficit[r] - m_deficit[f]
              /\ - (Quantum + Excess) <= b /\ b <= Excess
          BY <4>3, <4>5, <4>6
        <5> HIDE DEF b, c, Excess
        <5>2. - (Quantum + Excess) <= c /\ c <= Excess
          BY <4>4, <5>1
        <5> QED
          BY <5>2 DEF c
      <4> QED
        BY <1>8, <2>3, <4>7
    <3>4. CASE m_status[r] # "OLD_FLOW"
      <4>1. ~ Competing(f, r)
        BY <3>4 DEF Competing
      <4>2. lead'[<<f, r>>] = 0
        BY <1>1, <1>4, <3>2, <4>1 DEF LeadShape
      <4> QED
        BY <1>2, <1>6, <1>9, <2>3, <4>2, NoLeadYet
    <3> QED
      BY <3>3, <3>4
  <2> QED
    BY <2>2, <2>3
<1> QED
  BY <1>2, <1>6, <1>9, <1>10 DEF FairInv

\* What a flow is served is added to its lead and taken from its deficit.
LEMMA ServeFair == ASSUME FairInv, Serve PROVE FairInv'
<1>r. PICK r : r = Head(Selected)
  OBVIOUS
<1>1. ListInv /\ TypeOK /\ Listing /\ LeadShape
  BY DEF FairInv, ListInv
<1>2. /\ ListInv' /\ \A g \in Flows : child'[g] # <<>> => child[g] # <<>>
      /\ \E size \in Sizes : /\ Leads(r, size)
                             /\ m_deficit' = [m_deficit EXCEPT ![r] = @ - size]
  BY <1>r, <1>1, ServeList
<1>3. PICK size \in Sizes : /\ Leads(r, size)
                            /\ m_deficit' = [m_deficit EXCEPT ![r] = @ - size]
  BY <1>2
<1>4. r \in Flows /\ m_oldFlows' = m_oldFlows /\ m_status' = m_status
  <2>1. Selected # <<>> /\ UNCHANGED listVars
    BY DEF Serve
  <2> QED
    BY <1>r, <1>1, <2>1, SelectedHead DEF listVars
<1>5. size \in Int /\ size >= 1
  BY SizesRange
<1>6. /\ LeadShape'
      /\ \A f, g \in Flows : f # g /\ Competing(f, g)' =>
             lead'[<<f, g>>] = lead[<<f, g>>] + (IF r = f THEN size ELSE 0)
                                              - (IF r = g THEN size ELSE 0)
  BY <1>1, <1>3, <1>5, LeadsShape
<1>7. \A f, g \in Flows : Before(f, g, m_oldFlows) => f # g /\ g # r
  BY <1>r, PairOfOldFlows
<1>8. /\ m_deficit'[r] = m_deficit[r] - size
      /\ \A g \in Flows : g # r => m_deficit'[g] = m_deficit[g]
  BY <1>1, <1>3, <1>4 DEF TypeOK
<1>9. BehindHasCredit'
  <2> SUFFICES ASSUME NEW f \in Flows, NEW g \in Flows, Before(f, g, m_oldFlows')
               PROVE  m_deficit'[g] >= 1 \/ m_deficit'[g] >= Quantum - Overdraft
    BY DEF BehindHasCredit
  <2>1. Before(f, g, m_oldFlows) /\ g # r
    BY <1>4, <1>7
  <2>2. m_deficit[g] >= 1 \/ m_deficit[g] >= Quantum - Overdraft
    BY <2>1 DEF FairInv, BehindHasCredit
  <2> QED
    BY <1>8, <2>1, <2>2
<1>10. TurnsAlternate'
  <2> SUFFICES ASSUME NEW f \in Flows, NEW g \in Flows,
                      Before(f, g, m_oldFlows'), Competing(f, g)'
               PROVE  /\ - (Quantum + Excess) <= Credit(f, g)' /\ Credit(f, g)' <= Excess
                      /\ lead'[<<g, f>>] <= 0 \/ m_deficit'[g] >= Quantum - Overdraft
    BY DEF TurnsAlternate
  <2>1. Before(f, g, m_oldFlows) /\ f # g /\ g # r
    BY <1>4, <1>7
  <2>2. Competing(g, f)'
    BY DEF Competing
  <2>3. Competing(f, g)
    BY <1>2, <1>4 DEF Competing
  <2>4. CASE f # r
    <3>1. m_deficit'[f] = m_deficit[f] /\ m_deficit'[g] = m_deficit[g]
      BY <1>8, <2>1, <2>4
    <3>2. lead[<<f, g>>] \in Int /\ lead[<<g, f>>] \in Int
      BY <1>1 DEF LeadShape
    <3>3. /\ lead'[<<f, g>>] = lead[<<f, g>>] + 0 - 0
          /\ lead'[<<g, f>>] = lead[<<g, f>>] + 0 - 0
      BY <1>6, <2>1, <2>2, <2>4
    <3>4. lead'[<<f, g>>] = lead[<<f, g>>] /\ lead'[<<g, f>>] = lead[<<g, f>>]
      BY <3>2, <3>3
    <3> QED
      BY <2>1, <2>3, <3>1, <3>4, PairUnchanged
  <2>5. CASE f = r
    <3>1. /\ lead'[<<r, g>>] = lead[<<r, g>>] + size - 0
          /\ lead'[<<g, r>>] = lead[<<g, r>>] + 0 - size
      BY <1>6, <2>1, <2>2, <2>5
    <3>2. /\ - (Quantum + Excess) <= Credit(r, g) /\ Credit(r, g) <= Excess
          /\ lead[<<g, r>>] <= 0 \/ m_deficit[g] >= Quantum - Overdraft
      BY <1>4, <2>1, <2>3, <2>5 DEF FairInv, TurnsAlternate
    <3>3. /\ lead[<<r, g>>] \in Int /\ lead[<<g, r>>] \in Int
          /\ m_deficit[g] \in Int /\ m_deficit[r] \in Int
      <4>1. MaxSize \in Int /\ Quantum \in Int
        BY SizesRange
      <4>2. m_deficit[g] \in 1 - MaxSize .. Quantum /\ m_deficit[r] \in 1 - MaxSize .. Quantum
        BY <1>1, <1>4 DEF TypeOK
      <4>3. m_deficit[g] \in Int /\ m_deficit[r] \in Int
        <5> HIDE DEF MaxSize
        <5> QED
          BY <4>1, <4>2
      <4> QED
        BY <1>1, <1>4, <4>3 DEF LeadShape
    <3>4. m_deficit'[g] = m_deficit[g] /\ m_deficit'[r] = m_deficit[r] - size
      BY <1>8, <2>1
    <3>5. Credit(r, g)' = Credit(r, g)
      <4>1. Credit(r, g)' = (lead[<<r, g>>] + size - 0) + (m_deficit[r] - size) - m_deficit[g]
        BY <3>1, <3>4 DEF Credit
      <4>2. Credit(r, g) = lead[<<r, g>>] + m_deficit[r] - m_deficit[g]
        BY DEF Credit
      <4> QED
        BY <1>5, <3>3, <4>1, <4>2
    <3>6. lead[<<g, r>>] <= 0 => lead'[<<g, r>>] <= 0
      BY <1>5, <3>1, <3>3
    <3> QED
      BY <2>5, <3>2, <3>4, <3>5, <3>6
  <2> QED
    BY <2>4, <2>5
<1> QED
  BY <1>2, <1>6, <1>9, <1>10 DEF FairInv

\* A flow that is skipped has something left of its quantum, and no packets.
LEMMA SkipFair == ASSUME FairInv, Skip PROVE FairInv'
<1> DEFINE r == Head(Selected)
<1>1. ListInv /\ TypeOK /\ Listing /\ LeadShape
  BY DEF FairInv, ListInv
<1>2. ListInv'
  BY <1>1, SkipList
<1>3. /\ Selected # <<>> /\ m_deficit[r] > 0 /\ Retire(r)
      /\ child' = [child EXCEPT ![r] = <<>>]
      /\ m_deficit' = m_deficit /\ Leads(NoFlow, 0)
  BY DEF Skip
<1>4. r \in Flows
  BY <1>1, <1>3, SelectedHead
<1>5. /\ \A g \in Flows : g # r => m_status'[g] = m_status[g]
      /\ \A g, h : Before(g, h, m_oldFlows') =>
             \/ Before(g, h, m_oldFlows) /\ g # r /\ h # r
             \/ h = r /\ g # r
  BY <1>1, <1>3, RetireLists
<1>6. /\ LeadShape'
      /\ \A f, g \in Flows : f # g /\ Competing(f, g)' =>
                                 lead'[<<f, g>>] = lead[<<f, g>>]
  BY <1>1, <1>3, LeadKept
<1> HIDE DEF r
<1>7. child'[r] = <<>> /\ \A g \in Flows : g # r => child'[g] = child[g]
  BY <1>1, <1>3, <1>4 DEF TypeOK
<1>8. BehindHasCredit'
  <2> SUFFICES ASSUME NEW f \in Flows, NEW g \in Flows, Before(f, g, m_oldFlows')
               PROVE  m_deficit'[g] >= 1 \/ m_deficit'[g] >= Quantum - Overdraft
    BY DEF BehindHasCredit
  <2>1. CASE g = r
    <3>1. m_deficit[r] \in Int
      <4>1. MaxSize \in Int /\ Quantum \in Int
        BY SizesRange
      <4>2. m_deficit[r] \in 1 - MaxSize .. Quantum
        BY <1>1, <1>4 DEF TypeOK
      <4> HIDE DEF MaxSize
      <4> QED
        BY <4>1, <4>2
    <3>2. m_deficit'[r] >= 1
      BY <1>3, <3>1
    <3> QED
      BY <2>1, <3>2
  <2>2. CASE g # r
    <3>1. Before(f, g, m_oldFlows)
      BY <1>5, <2>2
    <3> QED
      BY <1>3, <3>1, PairUnchanged
  <2> QED
    BY <2>1, <2>2
<1>9. TurnsAlternate'
  <2> SUFFICES ASSUME NEW f \in Flows, NEW g \in Flows,
                      Before(f, g, m_oldFlows'), Competing(f, g)'
               PROVE  /\ - (Quantum + Excess) <= Credit(f, g)' /\ Credit(f, g)' <= Excess
                      /\ lead'[<<g, f>>] <= 0 \/ m_deficit'[g] >= Quantum - Overdraft
    BY DEF TurnsAlternate
  <2>1. g # r
    BY <1>7 DEF Competing
  <2>2. Before(f, g, m_oldFlows) /\ f # r
    BY <1>5, <2>1
  <2>3. f # g
    BY <2>2, PairOfOldFlows
  <2>4. Competing(g, f)'
    BY DEF Competing
  <2>5. lead'[<<f, g>>] = lead[<<f, g>>] /\ lead'[<<g, f>>] = lead[<<g, f>>]
    BY <1>6, <2>3, <2>4
  <2>6. Competing(f, g)
    BY <1>5, <1>7, <2>1, <2>2 DEF Competing
  <2> QED
    BY <1>3, <2>2, <2>5, <2>6, PairUnchanged
<1> QED
  BY <1>2, <1>6, <1>8, <1>9 DEF FairInv

LEMMA QuietFair ==
    ASSUME FairInv, DequeueBegins \/ DequeueNothing \/ UNCHANGED vars
    PROVE  FairInv'
<1>1. /\ ListInv' /\ lead' = lead
      /\ UNCHANGED <<child, m_deficit, m_status, m_newFlows, m_oldFlows>>
  BY QuietStep DEF FairInv, listVars
<1> QED
  BY <1>1 DEF FairInv, LeadShape, BehindHasCredit, TurnsAlternate, Competing, Credit

LEMMA FairNext == FairInv /\ [Next]_vars => FairInv'
<1> SUFFICES ASSUME FairInv, [Next]_vars PROVE FairInv'
  OBVIOUS
<1> QED
  BY EnqueueFair, RotateFair, ServeFair, SkipFair, QuietFair DEF Next, DequeueStep

LEMMA FairInvariant == Spec => []FairInv
BY FairInit, FairNext, PTL DEF Spec

\* For any number of flows, any packet sizes and any quantum: while two old flows have
\* packets, neither receives more than the other by over a quantum, a packet less
\* one byte, and the greater of a quantum and a packet, less one byte.
THEOREM SharesAreFair == Spec => []FairShare
<1>1. FairInv => FairShare
  <2> SUFFICES ASSUME FairInv, NEW f \in Flows, NEW g \in Flows
               PROVE  lead[<<f, g>>] <= Quantum + Overdraft + Excess
    BY MaxIsExcess DEF FairShare, Overdraft
  <2>1. ListInv /\ TypeOK /\ Listing /\ LeadShape
    BY DEF FairInv, ListInv
  <2>2. /\ lead[<<f, g>>] \in Int /\ lead[<<g, f>>] \in Int
        /\ lead[<<f, g>>] = - lead[<<g, f>>]
        /\ m_deficit[f] \in 1 - MaxSize .. Quantum /\ m_deficit[g] \in 1 - MaxSize .. Quantum
    BY <2>1 DEF LeadShape, TypeOK
  <2>3. /\ MaxSize \in Int /\ Quantum \in Int /\ Overdraft = MaxSize - 1 /\ Excess \in Int
        /\ Quantum >= 1 /\ MaxSize >= 1 /\ Excess >= 0
    BY SizesRange
  <2>4. CASE f = g \/ ~ Competing(f, g)
    <3>1. lead[<<f, g>>] = 0
      BY <2>1, <2>4 DEF LeadShape
    <3> HIDE DEF MaxSize, Overdraft, Excess
    <3> QED
      BY <2>3, <3>1
  <2>5. CASE f # g /\ Competing(f, g)
    <3>1. f \in ToSet(m_oldFlows) /\ g \in ToSet(m_oldFlows) /\ m_oldFlows \in Seq(Flows)
      BY <2>1, <2>5 DEF Competing, Listing, TypeOK
    <3>2. Before(f, g, m_oldFlows) \/ Before(g, f, m_oldFlows)
      BY <2>5, <3>1, ListOrdered
    <3>3. CASE Before(f, g, m_oldFlows)
      <4>1. lead[<<f, g>>] + m_deficit[f] - m_deficit[g] <= Excess
        BY <2>5, <3>3 DEF FairInv, TurnsAlternate, Credit
      <4> HIDE DEF MaxSize, Overdraft, Excess
      <4> QED
        BY <2>2, <2>3, <4>1
    <3>4. CASE Before(g, f, m_oldFlows)
      <4>1. Competing(g, f)
        BY <2>5 DEF Competing
      <4>2. /\ - (Quantum + Excess) <= lead[<<g, f>>] + m_deficit[g] - m_deficit[f]
            /\ lead[<<f, g>>] <= 0 \/ m_deficit[f] >= Quantum - Overdraft
        BY <3>4, <4>1 DEF FairInv, TurnsAlternate, Credit
      <4> HIDE DEF MaxSize, Overdraft, Excess
      <4> QED
        BY <2>2, <2>3, <4>2
    <3> QED
      BY <3>2, <3>3, <3>4
  <2> QED
    BY <2>4, <2>5
<1> QED
  BY <1>1, FairInvariant, PTL

=============================================================================
