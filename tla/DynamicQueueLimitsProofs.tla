----------------------- MODULE DynamicQueueLimitsProofs -----------------------
(***************************************************************************)
(* Proofs about DynamicQueueLimits, for counters of any even number of     *)
(* values, packets of any sizes and any number of packets.                 *)
(***************************************************************************)
EXTENDS DynamicQueueLimits, SequenceTheorems, FiniteSetTheorems, TLAPS

-----------------------------------------------------------------------------
(* Arithmetic modulo Mod *)

Half == Mod \div 2

\* The largest packet that the assumptions admit.
Packet == (Mod - 1) \div 16

LEMMA ModFacts ==
    /\ Mod \in Nat /\ Mod >= 16 /\ Half \in Nat /\ Mod = 2 * Half
    /\ (Mod - 1) \div 2 = Half - 1
    /\ Packet \in Nat /\ 8 * Packet < Half
BY DynamicQueueLimitsAssumption DEF DynamicQueueLimitsAssumption, Half, Packet

LEMMA UType == \A x \in Int : U(x) \in 0 .. Mod - 1
BY ModFacts DEF U

LEMMA UQuotient == \A x \in Int : x \div Mod \in Int /\ x = (x \div Mod) * Mod + U(x)
<1>1. Mod \in Nat /\ Mod >= 16
  BY ModFacts
<1>2. \A x \in Int : x \div Mod \in Int
  BY <1>1
<1>3. \A x \in Int : x = (x \div Mod) * Mod + (x % Mod)
  BY <1>1
<1> QED BY <1>2, <1>3 DEF U

LEMMA Multiples ==
    ASSUME NEW j \in Int, NEW r \in Int, -Mod < r, r < Mod, j * Mod = r
    PROVE  j = 0
<1>1. Mod \in Nat /\ Mod >= 16
  BY ModFacts
<1>2. j >= 1 => j * Mod >= Mod
  BY <1>1
<1>3. j <= -1 => j * Mod <= -Mod
  BY <1>1
<1> QED BY <1>1, <1>2, <1>3

\* The value of an unsigned expression is known from any of its multiples.
LEMMA UUnique ==
    ASSUME NEW x \in Int, NEW k \in Int, NEW r \in 0 .. Mod - 1, x = k * Mod + r
    PROVE  U(x) = r
<1> DEFINE q == x \div Mod
           u == U(x)
<1>1. Mod \in Nat /\ q \in Int /\ x = q * Mod + u /\ u \in 0 .. Mod - 1
  <2>1. q \in Int /\ x = q * Mod + u
    BY UQuotient
  <2>2. Mod \in Nat /\ u \in 0 .. Mod - 1
    BY ModFacts, UType
  <2> QED BY <2>1, <2>2
<1> HIDE DEF q, u
<1>2. (k - q) * Mod = u - r
  <2>1. (k - q) * Mod = k * Mod - q * Mod
    BY <1>1
  <2>2. k * Mod \in Int /\ q * Mod \in Int
    BY <1>1
  <2> QED BY <1>1, <2>1, <2>2
<1>3. k - q \in Int /\ u - r \in Int /\ -Mod < u - r /\ u - r < Mod
  BY <1>1
<1>4. k - q = 0
  BY <1>2, <1>3, Multiples
<1>5. 0 * Mod = 0
  BY <1>1
<1> QED BY <1>1, <1>2, <1>3, <1>4, <1>5 DEF u

\* Unsigned values are those of the sums and differences they come from.
LEMMA USum ==
    ASSUME NEW x \in Int, NEW y \in Int
    PROVE  U(U(x) + y) = U(x + y) /\ U(y - U(x)) = U(y - x)
<1> DEFINE q == x \div Mod
           u == U(x)
<1>1. Mod \in Nat /\ q \in Int /\ x = q * Mod + u /\ u \in Int
  <2>1. q \in Int /\ x = q * Mod + u
    BY UQuotient
  <2>2. Mod \in Nat /\ u \in Int
    BY ModFacts, UType
  <2> QED BY <2>1, <2>2
<1> HIDE DEF q, u
<1>2. U(u + y) = U(x + y)
  <2> DEFINE p == (x + y) \div Mod
             r == U(x + y)
  <2>1. x + y \in Int /\ p \in Int /\ x + y = p * Mod + r /\ r \in 0 .. Mod - 1
    <3>1. x + y \in Int
      OBVIOUS
    <3> QED BY <3>1, UQuotient, UType
  <2> HIDE DEF p, r
  <2>2. u + y = (p - q) * Mod + r /\ u + y \in Int /\ p - q \in Int
    BY <1>1, <2>1
  <2>3. U(u + y) = r
    BY <2>1, <2>2, UUnique
  <2> QED BY <2>3 DEF r
<1>3. U(y - u) = U(y - x)
  <2> DEFINE p == (y - x) \div Mod
             r == U(y - x)
  <2>1. y - x \in Int /\ p \in Int /\ y - x = p * Mod + r /\ r \in 0 .. Mod - 1
    <3>1. y - x \in Int
      OBVIOUS
    <3> QED BY <3>1, UQuotient, UType
  <2> HIDE DEF p, r
  <2>2. y - u = (p + q) * Mod + r /\ y - u \in Int /\ p + q \in Int
    BY <1>1, <2>1
  <2>3. U(y - u) = r
    BY <2>1, <2>2, UUnique
  <2> QED BY <2>3 DEF r
<1> QED BY <1>2, <1>3 DEF u

LEMMA USmall == \A x \in 0 .. Mod - 1 : U(x) = x
BY ModFacts DEF U

LEMMA UNegative ==
    ASSUME NEW x \in Int, -Mod <= x, x < 0
    PROVE  U(x) = x + Mod
<1>1. x + Mod \in 0 .. Mod - 1 /\ x = (-1) * Mod + (x + Mod)
  BY ModFacts
<1> QED BY <1>1, UUnique

\* A conversion to a signed integer keeps what is below Half.
LEMMA SFacts ==
    ASSUME NEW x \in Int
    PROVE  /\ S(x) \in Int /\ -Half <= S(x) /\ S(x) < Half
           /\ S(x) >= 0 <=> U(x) < Half
           /\ S(x) >= 0 => S(x) = U(x)
BY ModFacts, UType DEF S, Half

-----------------------------------------------------------------------------
(* The bytes of a list of packets *)

Places(s) == UNION {{k} \X (1 .. s[k]) : k \in DOMAIN s}

Row(k, n) == {k} \X (1 .. n)

LEMMA RowCounted ==
    ASSUME NEW k, NEW n \in Nat
    PROVE  IsFiniteSet(Row(k, n)) /\ Cardinality(Row(k, n)) = n
<1> DEFINE A == {k}
           B == 1 .. n
<1>1. IsFiniteSet(A) /\ Cardinality(A) = 1
  BY FS_Singleton
<1>2. IsFiniteSet(B) /\ Cardinality(B) = n
  <2>1. 1 \in Int /\ n \in Int
    OBVIOUS
  <2>2. IsFiniteSet(B) /\ Cardinality(B) = IF 1 > n THEN 0 ELSE n - 1 + 1
    BY <2>1, FS_Interval
  <2> QED BY <2>2
<1> HIDE DEF A, B
<1>3. IsFiniteSet(A \X B) /\ Cardinality(A \X B) = Cardinality(A) * Cardinality(B)
  BY <1>1, <1>2, FS_Product
<1>4. 1 * n = n
  OBVIOUS
<1> QED BY <1>1, <1>2, <1>3, <1>4 DEF A, B, Row

LEMMA PlaceOf ==
    ASSUME NEW s \in Seq(Nat)
    PROVE  \A x : x \in Places(s) <=> \E k \in 1 .. Len(s) : x \in Row(k, s[k])
<1>1. DOMAIN s = 1 .. Len(s)
  BY LenProperties
<1> QED BY <1>1 DEF Places, Row

LEMMA PlacesFinite ==
    ASSUME NEW s \in Seq(Nat)
    PROVE  IsFiniteSet(Places(s)) /\ Cardinality(Places(s)) \in Nat
<1> DEFINE G == 1 .. Len(s)
           R == {Row(k, s[k]) : k \in G}
           r == [k \in G |-> Row(k, s[k])]
<1>1. IsFiniteSet(G)
  <2>1. 1 \in Int /\ Len(s) \in Int
    BY LenProperties
  <2> QED BY <2>1, FS_Interval
<1>2. r \in [G -> R] /\ \A x \in R : \E k \in G : r[k] = x
  OBVIOUS
<1>3. \A x \in R : IsFiniteSet(x)
  <2> SUFFICES ASSUME NEW k \in G PROVE IsFiniteSet(Row(k, s[k]))
    OBVIOUS
  <2>1. s[k] \in Nat
    BY ElementOfSeq
  <2> QED BY <2>1, RowCounted
<1>4. Places(s) = UNION R
  <2>1. \A x : x \in UNION R <=> \E k \in G : x \in Row(k, s[k])
    OBVIOUS
  <2> HIDE DEF R
  <2>2. \A x : x \in Places(s) <=> x \in UNION R
    BY <2>1, PlaceOf
  <2> QED BY <2>2
<1> HIDE DEF G, r, R
<1>5. r \in Surjection(G, R)
  BY <1>2, Zenon DEF Surjection
<1>6. IsFiniteSet(R)
  BY <1>1, <1>5, FS_Surjection
<1>7. IsFiniteSet(UNION R)
  BY <1>3, <1>6, FS_UNION
<1> QED BY <1>4, <1>7, FS_CardinalityType

\* A row beside other places.
LEMMA RowBeside ==
    ASSUME NEW P, IsFiniteSet(P), NEW k, NEW n \in Nat, \A x \in P : x \notin Row(k, n)
    PROVE  Cardinality(P \cup Row(k, n)) = Cardinality(P) + n
<1> DEFINE A == Row(k, n)
<1>1. IsFiniteSet(A) /\ Cardinality(A) = n /\ Cardinality(P) \in Nat
  BY RowCounted, FS_CardinalityType
<1>2. P \cap A = {}
  OBVIOUS
<1> HIDE DEF A
<1>3. Cardinality(P \cup A) = Cardinality(P) + Cardinality(A) - Cardinality(P \cap A)
  BY <1>1, FS_Union
<1>4. Cardinality(P \cap A) = 0
  BY <1>2, FS_EmptySet
<1> QED BY <1>1, <1>3, <1>4 DEF A

LEMMA BytesOfEmpty == Cardinality(Places(<<>>)) = 0
<1>1. Places(<<>>) = {}
  BY DEF Places
<1> QED BY <1>1, FS_EmptySet

LEMMA BytesOfAppend ==
    ASSUME NEW s \in Seq(Nat), NEW n \in Nat
    PROVE  Cardinality(Places(Append(s, n))) = Cardinality(Places(s)) + n
<1> DEFINE a == Append(s, n)
           m == Len(s) + 1
<1>1. /\ a \in Seq(Nat) /\ Len(a) = m /\ a[m] = n /\ Len(s) \in Nat
      /\ \A k \in 1 .. Len(s) : a[k] = s[k]
  BY AppendProperties, LenProperties
<1> HIDE DEF a
<1>2. Places(a) = Places(s) \cup Row(m, n)
  <2>1. \A x : x \in Places(a) <=> \E k \in 1 .. m : x \in Row(k, a[k])
    BY <1>1, PlaceOf
  <2>2. \A x : x \in Places(s) <=> \E k \in 1 .. Len(s) : x \in Row(k, s[k])
    BY PlaceOf
  <2>3. \A k : k \in 1 .. m <=> k \in 1 .. Len(s) \/ k = m
    BY <1>1
  <2> HIDE DEF m
  <2>4. \A x : x \in Places(a) <=> x \in Places(s) \/ x \in Row(m, n)
    BY <1>1, <2>1, <2>2, <2>3
  <2> QED BY <2>4
<1>3. \A x \in Places(s) : x \notin Row(m, n)
  <2> SUFFICES ASSUME NEW k \in 1 .. Len(s), NEW x \in Row(k, s[k]), x \in Row(m, n)
               PROVE  FALSE
    BY PlaceOf
  <2>1. x[1] = k /\ x[1] = m
    BY DEF Row
  <2> QED BY <1>1, <2>1
<1>4. IsFiniteSet(Places(s))
  BY PlacesFinite
<1> HIDE DEF m
<1> QED BY <1>2, <1>3, <1>4, RowBeside DEF a

\* The head is a row; behind it, each place is that of the tail one further.
LEMMA BytesOfTail ==
    ASSUME NEW s \in Seq(Nat), s # <<>>
    PROVE  Cardinality(Places(s)) = Cardinality(Places(Tail(s))) + Head(s)
<1> DEFINE t == Tail(s)
           n == Len(s)
           P == Places(t)
           Rest == {x \in Places(s) : x[1] # 1}
           f == [x \in P |-> <<x[1] + 1, x[2]>>]
<1>1. /\ n \in Nat /\ n >= 1 /\ t \in Seq(Nat) /\ Len(t) = n - 1
      /\ \A k \in 1 .. n - 1 : t[k] = s[k + 1]
      /\ Head(s) = s[1] /\ s[1] \in Nat
  <2>1. n \in Nat \ {0}
    BY EmptySeq
  <2>2. t \in Seq(Nat) /\ Len(t) = n - 1 /\ \A k \in 1 .. Len(t) : t[k] = s[k + 1]
    BY HeadTailProperties
  <2>3. 1 \in 1 .. n
    BY <2>1
  <2>4. s[1] \in Nat
    BY <2>3, ElementOfSeq
  <2> HIDE DEF t, n
  <2> QED BY <2>1, <2>2, <2>4
<1> HIDE DEF t
<1>2. \A x : x \in P <=> \E k \in 1 .. n - 1 : \E b \in 1 .. s[k + 1] : x = <<k, b>>
  <2>1. \A x : x \in P <=> \E k \in 1 .. n - 1 : x \in Row(k, s[k + 1])
    BY <1>1, PlaceOf
  <2> QED BY <2>1 DEF Row
<1>3. \A x : x \in Places(s) <=> \E k \in 1 .. n : \E b \in 1 .. s[k] : x = <<k, b>>
  <2>1. \A x : x \in Places(s) <=> \E k \in 1 .. n : x \in Row(k, s[k])
    BY PlaceOf
  <2> QED BY <2>1 DEF Row
<1>4. Places(s) = Rest \cup Row(1, s[1])
  <2>1. 1 \in 1 .. n
    BY <1>1
  <2>2. \A x \in Row(1, s[1]) : x \in Places(s)
    BY <1>3, <2>1 DEF Row
  <2>3. \A x \in Places(s) : x[1] = 1 => x \in Row(1, s[1])
    BY <1>3 DEF Row
  <2> QED BY <2>2, <2>3
<1>5. \A x \in Rest : x \notin Row(1, s[1])
  BY DEF Row
<1>6. IsFiniteSet(P) /\ IsFiniteSet(Places(s))
  BY <1>1, PlacesFinite
<1>7. IsFiniteSet(Rest)
  BY <1>6, FS_Subset
<1>8. ExistsBijection(P, Rest)
  <2>1. \A k \in 1 .. n - 1 : k + 1 \in 1 .. n /\ k + 1 # 1
    BY <1>1
  <2>2. ASSUME NEW x \in P PROVE f[x] \in Rest
    <3>1. PICK k, b : k \in 1 .. n - 1 /\ b \in 1 .. s[k + 1] /\ x = <<k, b>>
      BY <1>2
    <3>2. f[x] = <<k + 1, b>> /\ <<k + 1, b>>[1] = k + 1
      BY <3>1
    <3>3. <<k + 1, b>> \in Places(s)
      BY <1>3, <2>1, <3>1
    <3>4. k + 1 # 1
      BY <2>1, <3>1
    <3> QED BY <3>2, <3>3, <3>4
  <2>3. ASSUME NEW y \in Rest PROVE \E x \in P : f[x] = y
    <3>1. PICK k, b : k \in 1 .. n /\ b \in 1 .. s[k] /\ y = <<k, b>>
      BY <1>3
    <3>2. k # 1
      BY <3>1
    <3>3. k - 1 \in 1 .. n - 1 /\ (k - 1) + 1 = k
      BY <1>1, <3>1, <3>2
    <3>4. <<k - 1, b>> \in P
      <4>1. b \in 1 .. s[(k - 1) + 1]
        BY <3>1, <3>3
      <4> QED BY <1>2, <3>3, <4>1
    <3>5. f[<<k - 1, b>>] = y
      BY <3>1, <3>3, <3>4
    <3> QED BY <3>4, <3>5
  <2>4. ASSUME NEW x \in P, NEW y \in P, f[x] = f[y] PROVE x = y
    <3>1. PICK k, b : k \in 1 .. n - 1 /\ b \in 1 .. s[k + 1] /\ x = <<k, b>>
      BY <1>2
    <3>2. PICK l, c : l \in 1 .. n - 1 /\ c \in 1 .. s[l + 1] /\ y = <<l, c>>
      BY <1>2
    <3>3. <<k + 1, b>> = <<l + 1, c>>
      BY <2>4, <3>1, <3>2
    <3>4. k + 1 = l + 1 /\ b = c
      BY <3>3
    <3> QED BY <1>1, <3>1, <3>2, <3>4
  <2> HIDE DEF f, P, Rest
  <2>5. f \in [P -> Rest]
    BY <2>2 DEF f
  <2>6. DOMAIN f = P
    BY <2>5
  <2>7. f \in Injection(P, Rest)
    BY <2>4, <2>5, <2>6, Zenon DEF Injection, IsInjective
  <2>8. f \in Surjection(P, Rest)
    BY <2>3, <2>5, Zenon DEF Surjection
  <2> QED BY <2>7, <2>8, Zenon DEF ExistsBijection, Bijection
<1> HIDE DEF P, Rest, f
<1>9. Cardinality(Rest) = Cardinality(P)
  BY <1>6, <1>8, FS_Bijection
<1>10. Cardinality(Rest \cup Row(1, s[1])) = Cardinality(Rest) + s[1]
  BY <1>1, <1>5, <1>7, RowBeside
<1> QED BY <1>1, <1>4, <1>9, <1>10 DEF P, t
-----------------------------------------------------------------------------
(* Types *)

Count == 0 .. Mod - 1

LEMMA ConstantTypes ==
    /\ Sizes \subseteq Count /\ MinLimit \in Count
    /\ MaxLimit \in Nat /\ MaxLimit <= Half - 1 - Packet /\ MaxLimit < Half /\ MaxLimit \in Count
    /\ FirstAdj \subseteq Count /\ 0 \in Count /\ Mod - 1 \in Count
    /\ \A size \in Sizes : size \in Nat /\ size >= 1 /\ size <= Packet
    /\ Count \subseteq Int
<1>1. /\ Sizes \subseteq 1 .. Packet /\ MinLimit \in 0 .. Mod - 1
      /\ MaxLimit \in 0 .. ((Mod - 1) \div 2 - Packet) /\ FirstAdj \subseteq 0 .. Mod - 1
  BY DynamicQueueLimitsAssumption DEF DynamicQueueLimitsAssumption, Packet
<1> HIDE DEF Packet, Half
<1>2. /\ Mod \in Nat /\ Mod >= 16 /\ Half \in Nat /\ Mod = 2 * Half
      /\ (Mod - 1) \div 2 = Half - 1 /\ Packet \in Nat /\ 8 * Packet < Half
  BY ModFacts
<1>3. MaxLimit \in 0 .. (Half - 1 - Packet)
  BY <1>1, <1>2
<1>4. MaxLimit \in Nat /\ MaxLimit <= Half - 1 - Packet /\ MaxLimit < Half /\ MaxLimit \in 0 .. Mod - 1
  BY <1>2, <1>3
<1>5. \A size \in Sizes : size \in Nat /\ size >= 1 /\ size <= Packet /\ size \in 0 .. Mod - 1
  BY <1>1, <1>2
<1>6. 0 \in 0 .. Mod - 1 /\ Mod - 1 \in 0 .. Mod - 1 /\ 0 .. Mod - 1 \subseteq Int
  BY <1>2
<1> QED BY <1>1, <1>4, <1>5, <1>6 DEF Count

LEMMA PosdiffType ==
    ASSUME NEW a \in Int, NEW b \in Int, NEW d \in Posdiff(a, b)
    PROVE  d \in Count
<1> DEFINE e == S(a) - S(b)
<1>1. /\ e \in Int /\ S(e) \in Int /\ S(e) < Half /\ U(e) \in 0 .. Mod - 1
      /\ Half \in Nat /\ Mod = 2 * Half /\ Mod \in Nat
  <2>1. S(a) \in Int /\ S(b) \in Int
    BY SFacts
  <2>2. e \in Int
    BY <2>1
  <2> HIDE DEF e
  <2> QED BY <2>2, SFacts, UType, ModFacts
<1>2. d \in IF e = S(e) THEN {Larger(e, 0)}
            ELSE {Larger(S(e), 0), IF S(a) > S(b) THEN U(e) ELSE 0}
  BY DEF Posdiff
<1> HIDE DEF e
<1>3. d = Larger(S(e), 0) \/ d = U(e) \/ d = 0
  BY <1>2
<1> QED BY <1>1, <1>3 DEF Larger, Count

LEMMA BoundedType ==
    ASSUME NEW limit \in Count
    PROVE  Bounded(limit) \in 0 .. MaxLimit
<1>1. limit \in Int /\ limit >= 0 /\ MinLimit \in Int /\ MaxLimit \in Int /\ MaxLimit >= 0
  BY ConstantTypes DEF Count
<1> QED BY <1>1 DEF Bounded, Smaller, Larger

\* What every counter is: the first part of TypeOK.
LEMMA CounterTypes ==
    ASSUME TypeOK
    PROVE  /\ m_limit \in Count /\ m_adjLimit \in Count /\ m_numQueued \in Count
           /\ m_numCompleted \in Count /\ m_lastObjCnt \in Count
           /\ m_prevNumQueued \in Count /\ m_prevLastObjCnt \in Count
           /\ m_prevOvlimit \in Count /\ m_lowestSlack \in Count
           /\ inFlight \in Seq(Sizes) /\ inFlight \in Seq(Nat)
<1>1. inFlight \in Seq(Sizes)
  BY DEF TypeOK
<1>2. Sizes \subseteq Nat
  BY ConstantTypes
<1>3. inFlight \in Seq(Nat)
  BY <1>1, <1>2, SeqMonotonic
<1> QED BY <1>1, <1>3 DEF TypeOK, Count

LEMMA NewLimitType ==
    ASSUME TypeOK, NEW completed \in Count, NEW holdOver,
           NEW new \in GrownLimit(completed) \cup ShrunkLimit(completed, holdOver)
    PROVE  new[1] \in Count /\ new[2] \in Count
<1>1. /\ m_limit \in Int /\ m_prevOvlimit \in Int /\ m_lowestSlack \in Count /\ m_limit \in Count
      /\ m_numCompleted \in Int /\ m_prevLastObjCnt \in Int /\ m_prevNumQueued \in Int
      /\ completed \in Int /\ Mod - 1 \in Count /\ 0 \in Count /\ Count \subseteq Int
  BY CounterTypes, ConstantTypes
<1>2. CASE new \in GrownLimit(completed)
  <2>1. PICK d \in Posdiff(completed, m_prevNumQueued) :
            new = <<U(m_limit + d + m_prevOvlimit), Mod - 1>>
    BY <1>2 DEF GrownLimit
  <2>2. d \in Int
    BY <1>1, PosdiffType
  <2>3. m_limit + d + m_prevOvlimit \in Int
    BY <1>1, <2>2
  <2>4. U(m_limit + d + m_prevOvlimit) \in Count
    BY <2>3, UType DEF Count
  <2> QED BY <1>1, <2>1, <2>4
<1>3. CASE new \in ShrunkLimit(completed, holdOver)
  <2> DEFINE slacks == Posdiff(m_limit + m_prevOvlimit, 2 * (completed - m_numCompleted))
             lasts  == IF m_prevOvlimit # 0 THEN Posdiff(m_prevLastObjCnt, m_prevOvlimit)
                       ELSE {0}
             lowest == {Smaller(m_lowestSlack, Larger(s, l)) : s \in slacks, l \in lasts}
  <2>1. \A s \in slacks : s \in Count
    <3>1. m_limit + m_prevOvlimit \in Int /\ 2 * (completed - m_numCompleted) \in Int
      BY <1>1
    <3> QED BY <3>1, PosdiffType
  <2>2. \A l \in lasts : l \in Count
    BY <1>1, PosdiffType
  <2>3. \A low \in lowest : low \in Count
    <3> SUFFICES ASSUME NEW s \in slacks, NEW l \in lasts
                 PROVE  Smaller(m_lowestSlack, Larger(s, l)) \in Count
      OBVIOUS
    <3>1. Larger(s, l) \in Count
      BY <2>1, <2>2 DEF Larger
    <3> QED BY <1>1, <3>1 DEF Smaller
  <2>4. \/ \E low \in lowest : \E d \in Posdiff(m_limit, low) : new = <<d, Mod - 1>>
        \/ \E low \in lowest : new = <<m_limit, low>>
    BY <1>3 DEF ShrunkLimit
  <2> HIDE DEF lowest
  <2>5. ASSUME NEW low \in lowest, NEW d \in Posdiff(m_limit, low) PROVE d \in Count
    <3>1. low \in Int
      BY <1>1, <2>3
    <3> QED BY <1>1, <3>1, PosdiffType
  <2> QED BY <1>1, <2>3, <2>4, <2>5
<1> QED BY <1>2, <1>3

-----------------------------------------------------------------------------
(* The counters and the bytes in the device queue *)

\* Modulo Mod, what is queued and not completed is what the device queue holds,
\* however many bytes that are; and a stopped tx queue has a packet.
CountersInv ==
    /\ TypeOK /\ m_limit <= MaxLimit
    /\ m_numQueued = U(m_numCompleted + InFlightBytes)
    /\ LimitsPromise

LEMMA BytesType ==
    ASSUME TypeOK
    PROVE  InFlightBytes \in Nat
BY CounterTypes, PlacesFinite DEF InFlightBytes, Places

LEMMA CountersInit == Init => CountersInv
<1> SUFFICES ASSUME Init PROVE CountersInv
  OBVIOUS
<1>1. InFlightBytes = 0
  BY BytesOfEmpty DEF Init, InFlightBytes, Places
<1>2. U(0) = 0
  BY ConstantTypes, USmall DEF Count
<1>3. TypeOK
  <2>1. <<>> \in Seq(Sizes)
    OBVIOUS
  <2> QED BY <2>1, ConstantTypes DEF Init, TypeOK, Count
<1> QED BY <1>1, <1>2, <1>3, ConstantTypes DEF Init, CountersInv, LimitsPromise

LEMMA QueuedStep ==
    ASSUME CountersInv, NEW size \in Sizes, Queued(size)
    PROVE  /\ CountersInv' /\ InFlightBytes' = InFlightBytes + size
           /\ UNCHANGED <<m_limit, m_adjLimit, m_numCompleted>>
           /\ ~ m_stoppedByQueueLimits
           /\ m_stoppedByQueueLimits' = (Available(m_adjLimit, m_numQueued') < 0)
<1>1. /\ ~ m_stoppedByQueueLimits
      /\ m_lastObjCnt' = size
      /\ m_numQueued' = U(m_numQueued + size)
      /\ inFlight' = Append(inFlight, size)
      /\ m_stoppedByQueueLimits' = (Available(m_adjLimit, m_numQueued') < 0)
      /\ UNCHANGED <<m_limit, m_adjLimit, m_numCompleted, m_prevNumQueued, m_prevLastObjCnt,
                     m_prevOvlimit, m_lowestSlack>>
  BY DEF Queued
<1>2. TypeOK /\ InFlightBytes \in Nat /\ size \in Nat /\ size \in Count
  BY BytesType, ConstantTypes DEF CountersInv
<1>3. inFlight \in Seq(Sizes) /\ inFlight \in Seq(Nat) /\ m_numQueued \in Int /\ m_numCompleted \in Int
  BY <1>2, CounterTypes, ConstantTypes
<1>4. InFlightBytes' = InFlightBytes + size
  BY <1>1, <1>2, <1>3, BytesOfAppend DEF InFlightBytes, Places
<1>5. m_numQueued' = U(m_numCompleted' + InFlightBytes')
  <2>1. m_numQueued' = U(U(m_numCompleted + InFlightBytes) + size)
    BY <1>1 DEF CountersInv
  <2>2. m_numCompleted + InFlightBytes \in Int
    BY <1>2, <1>3
  <2>3. m_numQueued' = U((m_numCompleted + InFlightBytes) + size)
    BY <1>2, <2>1, <2>2, USum
  <2>4. (m_numCompleted + InFlightBytes) + size = m_numCompleted' + InFlightBytes'
    BY <1>1, <1>2, <1>3, <1>4
  <2> QED BY <2>3, <2>4
<1>6. inFlight' \in Seq(Sizes) /\ inFlight' # <<>>
  BY <1>1, <1>3, AppendProperties
<1>7. m_numQueued' \in Count
  <2>1. m_numQueued + size \in Int
    BY <1>2, <1>3
  <2> QED BY <1>1, <2>1, UType DEF Count
<1>8. m_stoppedByQueueLimits' \in BOOLEAN
  <2> DEFINE stops == Available(m_adjLimit, m_numQueued') < 0
  <2>1. m_stoppedByQueueLimits' = stops
    BY <1>1
  <2>2. stops \in BOOLEAN
    BY DEF Available
  <2> HIDE DEF stops
  <2> QED BY <2>1, <2>2, Zenon
<1>9. TypeOK'
  <2>1. /\ m_lastObjCnt' \in Count /\ m_limit' \in Count /\ m_adjLimit' \in Count
        /\ m_numCompleted' \in Count /\ m_prevNumQueued' \in Count
        /\ m_prevLastObjCnt' \in Count /\ m_prevOvlimit' \in Count /\ m_lowestSlack' \in Count
    BY <1>1, <1>2, CounterTypes
  <2> QED BY <1>6, <1>7, <1>8, <2>1 DEF TypeOK, Count
<1> QED BY <1>1, <1>4, <1>5, <1>6, <1>9 DEF CountersInv, LimitsPromise

\* What a completion does, whichever way the limit goes.
LEMMA CompletedStep ==
    ASSUME CountersInv, NEW holdOver \in BOOLEAN, Completed(holdOver)
    PROVE  /\ CountersInv'
           /\ InFlightBytes' \in Nat /\ InFlightBytes' <= InFlightBytes
           /\ m_adjLimit' = U(m_limit' + m_numCompleted')
           /\ m_stoppedByQueueLimits' =>
                  m_stoppedByQueueLimits /\ Available(m_adjLimit', m_numQueued) < 0
           /\ m_stoppedByQueueLimits /\ Available(m_adjLimit', m_numQueued) < 0 =>
                  m_stoppedByQueueLimits'
           /\ m_numQueued' = m_numQueued
<1>1. TypeOK /\ InFlightBytes \in Nat
  BY BytesType DEF CountersInv
<1>2. /\ m_limit \in Count /\ m_numQueued \in Count /\ m_numCompleted \in Count
      /\ m_lastObjCnt \in Count /\ m_lowestSlack \in Count
      /\ m_limit \in Int /\ m_numQueued \in Int /\ m_numCompleted \in Int
      /\ inFlight \in Seq(Sizes) /\ inFlight \in Seq(Nat)
  BY <1>1, CounterTypes, ConstantTypes
<1>3. inFlight # <<>>
  BY DEF Completed
<1>4. PICK h : h = Head(inFlight)
  OBVIOUS
<1>5. h \in Nat /\ Tail(inFlight) \in Seq(Sizes) /\ Tail(inFlight) \in Seq(Nat)
  BY <1>2, <1>3, <1>4, HeadTailProperties
<1>6. PICK completed : completed = U(m_numCompleted + h)
  OBVIOUS
<1>7. completed \in Count
  <2>1. m_numCompleted + h \in Int
    BY <1>2, <1>5
  <2> QED BY <1>6, <2>1, UType DEF Count
<1>8. PICK ovlimit \in Posdiff(m_numQueued - m_numCompleted, m_limit),
           new \in GrownLimit(completed) \cup ShrunkLimit(completed, holdOver)
                       \cup {<<m_limit, m_lowestSlack>>} :
          /\ m_limit' = Bounded(new[1])
          /\ m_lowestSlack' = new[2]
          /\ m_prevOvlimit' = IF m_limit' # m_limit THEN 0 ELSE ovlimit
          /\ m_adjLimit' = AdjLimit(m_limit', completed)
          /\ m_numCompleted' = completed
  BY <1>4, <1>6 DEF Completed
<1>9. /\ m_prevLastObjCnt' = m_lastObjCnt /\ m_prevNumQueued' = m_numQueued
      /\ inFlight' = Tail(inFlight)
      /\ m_stoppedByQueueLimits' =
             (m_stoppedByQueueLimits /\ Available(m_adjLimit', m_numQueued) < 0)
      /\ m_numQueued' = m_numQueued /\ m_lastObjCnt' = m_lastObjCnt
  BY DEF Completed, lastVars
<1>10. m_stoppedByQueueLimits \in BOOLEAN
  BY <1>1, Zenon DEF TypeOK
<1>11. /\ m_stoppedByQueueLimits' \in BOOLEAN
       /\ m_stoppedByQueueLimits' =>
              m_stoppedByQueueLimits /\ Available(m_adjLimit', m_numQueued) < 0
       /\ m_stoppedByQueueLimits /\ Available(m_adjLimit', m_numQueued) < 0 =>
              m_stoppedByQueueLimits'
  <2>1. CASE m_stoppedByQueueLimits /\ Available(m_adjLimit', m_numQueued) < 0
    <3>1. m_stoppedByQueueLimits' = TRUE
      BY <1>9, <2>1
    <3> QED BY <2>1, <3>1, Zenon
  <2>2. CASE ~ (m_stoppedByQueueLimits /\ Available(m_adjLimit', m_numQueued) < 0)
    <3>1. m_stoppedByQueueLimits' = FALSE
      BY <1>9, <2>2
    <3> QED BY <2>2, <3>1, Zenon
  <2> QED BY <2>1, <2>2
<1>12. new[1] \in Count /\ new[2] \in Count
  <2>1. CASE new = <<m_limit, m_lowestSlack>>
    BY <1>2, <2>1
  <2>2. CASE new \in GrownLimit(completed) \cup ShrunkLimit(completed, holdOver)
    BY <1>1, <1>7, <2>2, NewLimitType
  <2> QED BY <1>8, <2>1, <2>2
<1>13. m_limit' \in 0 .. MaxLimit
  BY <1>8, <1>12, BoundedType
<1>14. m_limit' \in Nat /\ m_limit' <= MaxLimit /\ m_limit' \in Count /\ m_limit' < Half
  <2>1. MaxLimit \in Nat /\ MaxLimit \in 0 .. Mod - 1 /\ MaxLimit < Half /\ Half \in Nat /\ Mod \in Nat
    BY ConstantTypes, ModFacts DEF Count
  <2> HIDE DEF Half
  <2> QED BY <1>13, <2>1 DEF Count
<1>15. m_adjLimit' = U(m_limit' + m_numCompleted') /\ m_adjLimit' \in Count
  <2>1. m_limit' + completed \in Int
    BY <1>7, <1>14, ConstantTypes
  <2> QED BY <1>8, <2>1, UType DEF AdjLimit, Count
<1>16. ovlimit \in Count
  <2>1. m_numQueued - m_numCompleted \in Int
    BY <1>2
  <2> QED BY <1>2, <1>8, <2>1, PosdiffType
<1>17. m_prevOvlimit' \in Count
  BY <1>8, <1>16, ConstantTypes
<1>18. TypeOK'
  BY <1>2, <1>5, <1>7, <1>8, <1>9, <1>11, <1>12, <1>14, <1>15, <1>17 DEF TypeOK, Count
<1>19. InFlightBytes = InFlightBytes' + h /\ InFlightBytes' \in Nat
  <2>1. Cardinality(Places(inFlight)) = Cardinality(Places(Tail(inFlight))) + Head(inFlight)
    BY <1>2, <1>3, BytesOfTail
  <2>2. Cardinality(Places(Tail(inFlight))) \in Nat
    BY <1>5, PlacesFinite
  <2>3. InFlightBytes = Cardinality(Places(inFlight))
    BY DEF InFlightBytes, Places
  <2>4. InFlightBytes' = Cardinality(Places(Tail(inFlight)))
    BY <1>9 DEF InFlightBytes, Places
  <2> QED BY <1>4, <2>1, <2>2, <2>3, <2>4
<1>20. m_numQueued' = U(m_numCompleted' + InFlightBytes')
  <2>1. m_numCompleted + InFlightBytes = (m_numCompleted + h) + InFlightBytes'
    BY <1>2, <1>5, <1>19
  <2>2. m_numCompleted + h \in Int /\ InFlightBytes' \in Int
    BY <1>2, <1>5, <1>19
  <2>3. U(U(m_numCompleted + h) + InFlightBytes') = U((m_numCompleted + h) + InFlightBytes')
    BY <2>2, USum
  <2> QED BY <1>6, <1>8, <1>9, <2>1, <2>3 DEF CountersInv
<1>21. ASSUME inFlight' = <<>> PROVE ~ m_stoppedByQueueLimits'
  <2>1. InFlightBytes' = 0
    BY <1>21, BytesOfEmpty DEF InFlightBytes, Places
  <2>2. m_numQueued = U(m_numCompleted') /\ m_numCompleted' \in Int
    <3>1. m_numCompleted' \in Int
      BY <1>7, <1>8, ConstantTypes
    <3>2. \A n \in Int : n + 0 = n
      OBVIOUS
    <3> QED BY <1>9, <1>20, <2>1, <3>1, <3>2
  <2>3. U(m_adjLimit' - m_numQueued) = m_limit'
    <3> DEFINE c == m_numCompleted'
               l == m_limit'
    <3>1. c \in Int /\ l \in Int /\ l \in 0 .. Mod - 1
      BY <1>14, <2>2 DEF Count
    <3>2. m_adjLimit' = U(l + c) /\ m_numQueued = U(c)
      BY <1>15, <2>2
    <3> HIDE DEF c, l
    <3>3. l + c \in Int /\ U(l + c) \in Int /\ (l + c) - c = l /\ -c \in Int
      BY <3>1, UType, ModFacts
    <3>4. U(U(l + c) - U(c)) = U(U(l + c) - c)
      BY <3>1, <3>3, USum
    <3>5. U(U(l + c) - c) = U((l + c) - c)
      <4>1. U(U(l + c) + (-c)) = U((l + c) + (-c))
        BY <3>3, USum
      <4>2. U(l + c) + (-c) = U(l + c) - c /\ (l + c) + (-c) = (l + c) - c
        BY <3>1, <3>3
      <4> QED BY <4>1, <4>2
    <3>6. U(l) = l
      BY <3>1, USmall
    <3> QED BY <3>2, <3>3, <3>4, <3>5, <3>6 DEF l
  <2>4. m_adjLimit' - m_numQueued \in Int
    BY <1>2, <1>15, ConstantTypes
  <2>5. Available(m_adjLimit', m_numQueued) >= 0 /\ Available(m_adjLimit', m_numQueued) \in Int
    BY <1>14, <2>3, <2>4, SFacts DEF Available
  <2>6. ~ (Available(m_adjLimit', m_numQueued) < 0)
    BY <2>5
  <2> QED BY <1>11, <2>6
<1>22. InFlightBytes' <= InFlightBytes
  <2>1. \A n, m \in Nat : n <= n + m
    OBVIOUS
  <2> QED BY <1>5, <1>19, <2>1
<1> QED BY <1>9, <1>11, <1>14, <1>15, <1>18, <1>19, <1>20, <1>21, <1>22
         DEF CountersInv, LimitsPromise

\* Queue limits that stop a tx queue leave a packet in the device queue, so
\* that a completion comes and Completed decides again: for counters of any
\* width, packets of any sizes, any first value of m_adjLimit and wherever the
\* counters wrap around.
THEOREM StoppedQueueIsCompleted == Spec => []LimitsPromise
<1>1. Init => CountersInv
  BY CountersInit
<1>2. CountersInv /\ [Next]_vars => CountersInv'
  <2> SUFFICES ASSUME CountersInv, [Next]_vars PROVE CountersInv'
    OBVIOUS
  <2>1. ASSUME NEW size \in Sizes, Queued(size) PROVE CountersInv'
    BY <2>1, QueuedStep
  <2>2. ASSUME NEW holdOver \in BOOLEAN, Completed(holdOver) PROVE CountersInv'
    BY <2>2, CompletedStep
  <2>3. CASE UNCHANGED vars
    BY <2>3 DEF vars, CountersInv, TypeOK, LimitsPromise, InFlightBytes
  <2> QED BY <2>1, <2>2, <2>3 DEF Next
<1>3. CountersInv => LimitsPromise
  BY DEF CountersInv
<1> QED BY <1>1, <1>2, <1>3, PTL DEF Spec

-----------------------------------------------------------------------------
(* The bytes in the device queue stay within the limits *)

\* The first value of m_adjLimit, which nothing sets, is not within a packet of
\* the values where an unsigned counter turns into a negative integer.
FirstAway == \A a \in FirstAdj : a <= Half - 1 - Packet \/ a >= Half + Packet

\* m_adjLimit is l bytes beyond those completed.
Adjusted(l) ==
    /\ m_adjLimit = U(l + m_numCompleted)
    /\ l <= MaxLimit \/ l \in FirstAdj
    /\ l >= Half => m_stoppedByQueueLimits \/ inFlight = <<>>

LimitsInv ==
    /\ CountersInv
    /\ \E l \in Count : Adjusted(l)
    /\ InFlightBounded
    /\ ~ m_stoppedByQueueLimits => \E limit \in FirstLimits : InFlightBytes <= limit

\* The largest limits leave room for a packet below Half.
LEMMA FirstLimitsType ==
    ASSUME FirstAway
    PROVE  /\ \A limit \in FirstLimits : limit \in Nat /\ limit <= Half - 1 - Packet
           /\ \A a \in FirstAdj : a < Half => a \in FirstLimits
           /\ MaxLimit \in FirstLimits
<1>1. Half \in Nat /\ Packet \in Nat /\ 8 * Packet < Half
  BY ModFacts
<1>2. \A a \in FirstAdj : a \in Nat /\ a \in Int /\ U(a) = a
  BY ConstantTypes, USmall, ModFacts DEF Count
<1>3. \A a \in FirstAdj : S(a) >= 0 <=> a < Half
  BY <1>2, SFacts
<1>4. MaxLimit \in Nat /\ MaxLimit <= Half - 1 - Packet
  BY ConstantTypes
<1> HIDE DEF Half, Packet
<1>5. \A a \in FirstAdj : a < Half => a <= Half - 1 - Packet
  BY <1>1, <1>2 DEF FirstAway
<1> QED BY <1>2, <1>3, <1>4, <1>5 DEF FirstLimits

\* What Available compares: the limit and the bytes in the device queue.
LEMMA AvailableBytes ==
    ASSUME NEW l \in Int, NEW c \in Int, NEW bytes \in Int,
           NEW adj, adj = U(l + c), NEW queued, queued = U(c + bytes)
    PROVE  ~ (Available(adj, queued) < 0) <=> U(l - bytes) < Half
<1>1. l + c \in Int /\ c + bytes \in Int /\ -(c + bytes) \in Int
      /\ (l + c) - (c + bytes) = l - bytes
      /\ (l + c) + (-(c + bytes)) = l - bytes
  OBVIOUS
<1>2. adj \in Int /\ queued \in Int
  BY <1>1, UType, ModFacts
<1>3. U(adj - queued) = U(adj - (c + bytes))
  BY <1>1, <1>2, USum
<1>4. U(adj + (-(c + bytes))) = U((l + c) + (-(c + bytes)))
  BY <1>1, USum
<1>5. adj + (-(c + bytes)) = adj - (c + bytes) /\ adj - queued \in Int
  BY <1>1, <1>2
<1>6. U(adj - queued) = U(l - bytes)
  BY <1>1, <1>3, <1>4, <1>5
<1>7. S(adj - queued) \in Int /\ (S(adj - queued) >= 0 <=> U(l - bytes) < Half)
  BY <1>5, <1>6, SFacts
<1>8. ~ (S(adj - queued) < 0) <=> S(adj - queued) >= 0
  BY <1>7
<1> QED BY <1>7, <1>8 DEF Available

\* A limit that leaves room is not exceeded.
LEMMA Room ==
    ASSUME NEW l \in Nat, l < Half, NEW bytes \in Nat, bytes <= Half, U(l - bytes) < Half
    PROVE  bytes <= l
<1>1. Half \in Nat /\ Mod = 2 * Half /\ Mod \in Nat
  BY ModFacts
<1> HIDE DEF Half
<1>2. l - bytes \in Int /\ -Mod <= l - bytes /\ l - bytes + Mod >= Half
  BY <1>1
<1>3. l - bytes < 0 => U(l - bytes) = l - bytes + Mod
  BY <1>2, UNegative
<1>4. ~ (l - bytes < 0)
  <2> SUFFICES ASSUME l - bytes < 0 PROVE FALSE
    OBVIOUS
  <2>1. l - bytes + Mod < Half
    BY <1>3
  <2> QED BY <1>1, <1>2, <2>1
<1> QED BY <1>4

\* A limit that the comparison takes for a negative one leaves none.
LEMMA NoRoom ==
    ASSUME NEW l \in Count, l >= Half + Packet, NEW bytes \in Nat, bytes <= Packet
    PROVE  ~ (U(l - bytes) < Half)
<1>1. Half \in Nat /\ Mod = 2 * Half /\ Mod \in Nat /\ Packet \in Nat
  BY ModFacts
<1> HIDE DEF Half, Packet
<1>2. l - bytes \in 0 .. Mod - 1 /\ l - bytes >= Half
  BY <1>1 DEF Count
<1>3. U(l - bytes) = l - bytes
  BY <1>2, USmall
<1> QED BY <1>1, <1>2, <1>3

\* What the device queue holds is below Half, and one more packet is as well
\* unless the tx queue is stopped.
LEMMA BytesBelowHalf ==
    ASSUME FirstAway, TypeOK, InFlightBounded
    PROVE  InFlightBytes <= Half - 1 /\ InFlightBytes < Mod
<1>1. PICK limit \in FirstLimits, size \in Sizes \cup {0} : InFlightBytes <= limit + size
  BY DEF InFlightBounded
<1>2. /\ limit \in Nat /\ limit <= Half - 1 - Packet /\ size \in Nat /\ size <= Packet
      /\ InFlightBytes \in Nat /\ Half \in Nat /\ Packet \in Nat /\ Mod = 2 * Half
  BY FirstLimitsType, BytesType, ConstantTypes, ModFacts
<1> HIDE DEF Half, Packet
<1> QED BY <1>1, <1>2

LEMMA LimitsInit == FirstAway /\ Init => LimitsInv
<1> SUFFICES ASSUME FirstAway, Init PROVE LimitsInv
  OBVIOUS
<1>1. InFlightBytes = 0
  BY BytesOfEmpty DEF Init, InFlightBytes, Places
<1>2. m_adjLimit \in FirstAdj /\ m_adjLimit \in Count /\ m_adjLimit \in Int
      /\ m_numCompleted = 0 /\ inFlight = <<>>
  BY ConstantTypes DEF Init
<1>3. m_adjLimit = U(m_adjLimit + m_numCompleted)
  <2>1. m_adjLimit + 0 = m_adjLimit
    BY <1>2
  <2> QED BY <1>2, <2>1, USmall DEF Count
<1>4. Adjusted(m_adjLimit)
  BY <1>2, <1>3 DEF Adjusted
<1>5. MaxLimit \in FirstLimits /\ MaxLimit \in Nat /\ 0 \in Sizes \cup {0}
  BY FirstLimitsType
<1>6. InFlightBytes <= MaxLimit /\ InFlightBytes <= MaxLimit + 0
  BY <1>1, <1>5
<1> QED BY <1>2, <1>4, <1>5, <1>6, CountersInit DEF LimitsInv, InFlightBounded

LEMMA QueuedKeepsLimits ==
    ASSUME FirstAway, LimitsInv, NEW size \in Sizes, Queued(size)
    PROVE  LimitsInv'
<1>1. /\ CountersInv' /\ InFlightBytes' = InFlightBytes + size
      /\ UNCHANGED <<m_limit, m_adjLimit, m_numCompleted>>
      /\ ~ m_stoppedByQueueLimits
      /\ m_stoppedByQueueLimits' = (Available(m_adjLimit, m_numQueued') < 0)
  BY QueuedStep DEF LimitsInv
<1>2. /\ TypeOK /\ InFlightBytes \in Nat /\ size \in Nat /\ size <= Packet
      /\ m_numCompleted \in Int
      /\ Half \in Nat /\ Packet \in Nat /\ 8 * Packet < Half /\ Mod = 2 * Half /\ Mod \in Nat
  <2>1. TypeOK
    BY DEF LimitsInv, CountersInv
  <2> QED BY <2>1, BytesType, CounterTypes, ConstantTypes, ModFacts
<1>3. PICK limit \in FirstLimits : InFlightBytes <= limit
  BY <1>1 DEF LimitsInv
<1>4. PICK l \in Count : Adjusted(l)
  BY DEF LimitsInv
<1>5. PICK bytes \in Nat : bytes = InFlightBytes + size
  BY <1>2
<1>6. InFlightBytes' = bytes
  BY <1>1, <1>5
<1>7. limit \in Nat /\ limit <= Half - 1 - Packet
  BY FirstLimitsType
<1>8. l \in Int /\ l \in Nat
  BY <1>2 DEF Count
<1>9. bytes <= limit + size /\ bytes <= Half
  <2> HIDE DEF Half, Packet
  <2> QED BY <1>2, <1>3, <1>5, <1>7
<1>10. InFlightBounded'
  <2>1. FirstLimits' = FirstLimits /\ (Sizes \cup {0})' = Sizes \cup {0}
    BY DEF FirstLimits
  <2> QED BY <1>6, <1>9, <2>1 DEF InFlightBounded
<1>11. ~ m_stoppedByQueueLimits' <=> U(l - bytes) < Half
  <2>1. m_numQueued' = U(m_numCompleted + bytes)
    BY <1>1, <1>6 DEF CountersInv
  <2>2. m_adjLimit = U(l + m_numCompleted)
    BY <1>4 DEF Adjusted
  <2>3. PICK adj, queued, c : adj = m_adjLimit /\ queued = m_numQueued' /\ c = m_numCompleted
    OBVIOUS
  <2>4. adj = U(l + c) /\ queued = U(c + bytes) /\ c \in Int /\ bytes \in Int
    BY <1>2, <2>1, <2>2, <2>3
  <2>5. ~ (Available(adj, queued) < 0) <=> U(l - bytes) < Half
    BY <1>8, <2>4, AvailableBytes
  <2> QED BY <1>1, <2>3, <2>5
<1>12. ASSUME l >= Half PROVE m_stoppedByQueueLimits'
  <2>1. inFlight = <<>>
    BY <1>1, <1>4, <1>12 DEF Adjusted
  <2>2. InFlightBytes = 0
    BY <2>1, BytesOfEmpty DEF InFlightBytes, Places
  <2>3. l \in FirstAdj
    <3>1. MaxLimit < Half /\ MaxLimit \in Nat
      BY ConstantTypes
    <3>2. ~ (l <= MaxLimit)
      BY <1>2, <1>8, <1>12, <3>1
    <3> QED BY <1>4, <3>2 DEF Adjusted
  <2>4. l >= Half + Packet
    <3>1. l <= Half - 1 - Packet \/ l >= Half + Packet
      BY <2>3 DEF FirstAway
    <3> HIDE DEF Half, Packet
    <3> QED BY <1>2, <1>8, <1>12, <3>1
  <2>5. bytes <= Packet
    BY <1>2, <1>5, <2>2
  <2> QED BY <1>11, <2>4, <2>5, NoRoom
<1>13. Adjusted(l)'
  <2>1. m_adjLimit' = U(l + m_numCompleted')
    BY <1>1, <1>4 DEF Adjusted
  <2>2. l <= MaxLimit \/ l \in FirstAdj
    BY <1>4 DEF Adjusted
  <2> QED BY <1>12, <2>1, <2>2 DEF Adjusted
<1>14. ASSUME ~ m_stoppedByQueueLimits' PROVE \E m \in FirstLimits : bytes <= m
  <2>1. l < Half
    BY <1>2, <1>8, <1>12, <1>14
  <2>2. bytes <= l
    BY <1>8, <1>9, <1>11, <1>14, <2>1, Room
  <2>3. CASE l <= MaxLimit
    <3>1. MaxLimit \in Nat /\ MaxLimit \in FirstLimits
      BY FirstLimitsType
    <3>2. bytes <= MaxLimit
      BY <1>8, <2>2, <2>3, <3>1
    <3> QED BY <3>1, <3>2
  <2>4. CASE l \in FirstAdj
    BY <2>1, <2>2, <2>4, FirstLimitsType
  <2> QED BY <1>4, <2>3, <2>4 DEF Adjusted
<1>15. (\E m \in Count : Adjusted(m))'
  BY <1>13
<1>16. (~ m_stoppedByQueueLimits => \E m \in FirstLimits : InFlightBytes <= m)'
  BY <1>6, <1>14 DEF FirstLimits
<1> QED BY <1>1, <1>10, <1>15, <1>16 DEF LimitsInv

LEMMA CompletedKeepsLimits ==
    ASSUME FirstAway, LimitsInv, NEW holdOver \in BOOLEAN, Completed(holdOver)
    PROVE  LimitsInv'
<1>1. /\ CountersInv' /\ InFlightBytes' \in Nat /\ InFlightBytes' <= InFlightBytes
      /\ m_adjLimit' = U(m_limit' + m_numCompleted')
      /\ m_stoppedByQueueLimits /\ Available(m_adjLimit', m_numQueued) < 0 =>
             m_stoppedByQueueLimits'
      /\ m_numQueued' = m_numQueued
  BY CompletedStep DEF LimitsInv
<1>2. /\ TypeOK /\ InFlightBytes \in Nat /\ Half \in Nat /\ Packet \in Nat
      /\ InFlightBytes <= Half - 1 /\ MaxLimit < Half /\ MaxLimit \in Nat
      /\ MaxLimit \in FirstLimits
  <2>1. TypeOK
    BY DEF LimitsInv, CountersInv
  <2> QED BY <2>1, BytesType, BytesBelowHalf, ConstantTypes, ModFacts, FirstLimitsType
             DEF LimitsInv
<1>3. PICK l, c, bytes : l = m_limit' /\ c = m_numCompleted' /\ bytes = InFlightBytes'
  OBVIOUS
<1>4. l \in Count /\ l <= MaxLimit /\ l \in Nat /\ c \in Int /\ bytes \in Nat
      /\ bytes <= InFlightBytes
  <2>1. m_limit' \in Count /\ m_numCompleted' \in Count /\ m_limit' <= MaxLimit
    BY <1>1 DEF CountersInv, TypeOK, Count
  <2>2. \A n \in Count : n \in Nat /\ n \in Int
    BY ModFacts DEF Count
  <2> QED BY <1>1, <1>3, <2>1, <2>2
<1>5. l < Half /\ bytes <= Half
  <2> HIDE DEF Half, Packet
  <2> QED BY <1>2, <1>4
<1>6. Adjusted(l)'
  <2>1. m_adjLimit' = U(l + m_numCompleted')
    BY <1>1, <1>3
  <2>2. ~ (l >= Half)
    <3> HIDE DEF Half
    <3> QED BY <1>2, <1>4, <1>5
  <2> QED BY <1>4, <2>1, <2>2 DEF Adjusted
<1>7. InFlightBounded'
  <2>1. PICK limit \in FirstLimits, size \in Sizes \cup {0} : InFlightBytes <= limit + size
    BY DEF LimitsInv, InFlightBounded
  <2>2. limit \in Nat /\ size \in Nat
    BY <2>1, FirstLimitsType, ConstantTypes
  <2>3. bytes <= limit + size
    BY <1>2, <1>4, <2>1, <2>2
  <2>4. FirstLimits' = FirstLimits /\ (Sizes \cup {0})' = Sizes \cup {0}
    BY DEF FirstLimits
  <2> QED BY <1>3, <2>3, <2>4 DEF InFlightBounded
<1>8. ASSUME ~ m_stoppedByQueueLimits' PROVE \E m \in FirstLimits : bytes <= m
  <2>1. CASE ~ m_stoppedByQueueLimits
    <3>1. PICK m \in FirstLimits : InFlightBytes <= m
      BY <2>1 DEF LimitsInv
    <3>2. m \in Nat
      BY FirstLimitsType
    <3>3. bytes <= m
      BY <1>2, <1>4, <3>1, <3>2
    <3> QED BY <3>3
  <2>2. CASE m_stoppedByQueueLimits
    <3>1. PICK adj, queued : adj = m_adjLimit' /\ queued = m_numQueued
      OBVIOUS
    <3>2. ~ (Available(adj, queued) < 0)
      BY <1>1, <1>8, <2>2, <3>1
    <3>3. adj = U(l + c) /\ queued = U(c + bytes) /\ l \in Int /\ bytes \in Int
      BY <1>1, <1>3, <1>4, <3>1 DEF CountersInv
    <3>4. ~ (Available(adj, queued) < 0) <=> U(l - bytes) < Half
      BY <1>4, <3>3, AvailableBytes
    <3>5. U(l - bytes) < Half
      BY <3>2, <3>4
    <3>6. bytes <= l
      BY <1>4, <1>5, <3>5, Room
    <3>7. bytes <= MaxLimit
      BY <1>2, <1>4, <3>6
    <3> QED BY <1>2, <3>7
  <2> QED BY <2>1, <2>2
<1>9. (\E m \in Count : Adjusted(m))'
  BY <1>4, <1>6
<1>10. (~ m_stoppedByQueueLimits => \E m \in FirstLimits : InFlightBytes <= m)'
  BY <1>3, <1>8 DEF FirstLimits
<1> QED BY <1>1, <1>7, <1>9, <1>10 DEF LimitsInv

LEMMA LimitsInvConsistent == FirstAway /\ LimitsInv => InFlightConsistent
<1> SUFFICES ASSUME FirstAway, LimitsInv PROVE InFlightConsistent
  OBVIOUS
<1>1. /\ TypeOK /\ InFlightBounded /\ m_numQueued = U(m_numCompleted + InFlightBytes)
  BY DEF LimitsInv, CountersInv
<1>2. PICK c, bytes : c = m_numCompleted /\ bytes = InFlightBytes
  OBVIOUS
<1>3. c \in Int /\ bytes \in Nat /\ bytes \in 0 .. Mod - 1
  <2>1. InFlightBytes \in Nat /\ InFlightBytes < Mod /\ m_numCompleted \in Int
    BY <1>1, BytesType, BytesBelowHalf, CounterTypes, ConstantTypes
  <2> QED BY <1>2, <2>1, ModFacts
<1>4. U(U(c + bytes) + (-c)) = U((c + bytes) + (-c))
  <2>1. c + bytes \in Int /\ -c \in Int
    BY <1>3
  <2> QED BY <2>1, USum
<1>5. (c + bytes) + (-c) = bytes /\ U(c + bytes) + (-c) = U(c + bytes) - c
  <2>1. c + bytes \in Int
    BY <1>3
  <2>2. U(c + bytes) \in Int
    BY <2>1, UType, ModFacts
  <2> QED BY <1>3, <2>2
<1>6. U(bytes) = bytes
  BY <1>3, USmall
<1>7. ExactInFlight
  BY <1>1, <1>2, <1>4, <1>5, <1>6 DEF ExactInFlight
<1> QED BY <1>1, <1>7 DEF InFlightConsistent

\* The wrapping counters say how many bytes the device queue holds, so that
\* Completed never completes more than that, and these bytes stay within the
\* largest limit, or a first value of m_adjLimit, and one packet: for counters
\* of any width and packets of any sizes, unless the first value of m_adjLimit
\* is within a packet of the change of sign.
THEOREM DeviceQueueIsBounded ==
    ASSUME FirstAway
    PROVE  Spec => []InFlightConsistent
<1>1. Init => LimitsInv
  BY LimitsInit
<1>2. LimitsInv /\ [Next]_vars => LimitsInv'
  <2> SUFFICES ASSUME LimitsInv, [Next]_vars PROVE LimitsInv'
    OBVIOUS
  <2>1. ASSUME NEW size \in Sizes, Queued(size) PROVE LimitsInv'
    BY <2>1, QueuedKeepsLimits
  <2>2. ASSUME NEW holdOver \in BOOLEAN, Completed(holdOver) PROVE LimitsInv'
    BY <2>2, CompletedKeepsLimits
  <2>3. CASE UNCHANGED vars
    BY <2>3 DEF vars, LimitsInv, CountersInv, TypeOK, LimitsPromise, InFlightBytes,
                InFlightBounded, FirstLimits, Adjusted
  <2> QED BY <2>1, <2>2, <2>3 DEF Next
<1>3. LimitsInv => InFlightConsistent
  BY LimitsInvConsistent
<1> QED BY <1>1, <1>2, <1>3, PTL DEF Spec
=============================================================================
