---------------------------- MODULE CoDelProofs ----------------------------
(***************************************************************************)
(* What CoDel drops, for every size of the clock, interval, target and     *)
(* backlog limit, however a build subtracts signed integers.               *)
(*                                                                         *)
(* It never drops its last packet: OkToDrop allows a drop only when        *)
(* packets are left (MinBytes is at least 1), so while DoDequeue is about  *)
(* to drop, the queue is not empty, and the packet that replaces the       *)
(* dropped one exists.                                                     *)
(*                                                                         *)
(* It drops after an interval above target, and then does: the invariant   *)
(* says which moment m_firstAboveTime stands for, and lemmas about the     *)
(* clock say when a comparison of wrapped times is that of the moments.    *)
(***************************************************************************)
EXTENDS CoDelQueueDisc, TLAPS

\* Each state before a drop has another packet; the queue that is empty has just
\* been found to have a small backlog.
DropsLeaveOne ==
    /\ pc = "enter" => queue # <<>>
    /\ pc = "loop" /\ m_dropping => queue # <<>>
    /\ queue = <<>> => m_firstAboveTime = 0
    /\ pc # "idle" => item # None

Inv == TypeOK /\ DropsLeaveOne

\* Time2CoDel gives a time of the 32-bit clock.
LEMMA TimeRange ==
    ASSUME NEW t \in Nat
    PROVE  Time2CoDel(t) \in CoDelTime
BY CoDelAssumption DEF Time2CoDel, CoDelTime

\* A packet that may be dropped leaves at least one behind.
LEMMA OkLeavesOne ==
    ASSUME TypeOK, OkToDrop(Popped, Rest)
    PROVE  Rest # <<>>
BY CoDelAssumption DEF OkToDrop, Below, SmallBacklog

\* The head and the tail of a sequence that is not empty.
LEMMA HeadTail ==
    ASSUME NEW S, NEW s \in Seq(S), s # <<>>
    PROVE  Head(s) \in S /\ Tail(s) \in Seq(S) /\ Len(Tail(s)) <= Len(s)
OBVIOUS

\* What Pop does to the types.
LEMMA PopType ==
    ASSUME TypeOK, Pop
    PROVE  /\ queue' \in Seq(Clock) /\ Len(queue') <= MaxSize
           /\ item' \in Clock \cup {None}
           /\ m_firstAboveTime' \in CoDelTime
           /\ aboveSince' \in Clock \cup {None}
           /\ queue' = <<>> => m_firstAboveTime' = 0
           /\ queue # <<>> => item' # None
           /\ queue' = Rest
<1>1. Popped \in Clock \cup {None} /\ Rest \in Seq(Clock) /\ Len(Rest) <= MaxSize
  <2>1. CASE queue = <<>>
    BY <2>1 DEF Popped, Rest, TypeOK
  <2>2. CASE queue # <<>>
    <3>1. queue \in Seq(Clock) /\ Len(queue) <= MaxSize
      BY DEF TypeOK
    <3>2. Popped = Head(queue) /\ Rest = Tail(queue)
      BY <2>2 DEF Popped, Rest
    <3>3. Head(queue) \in Clock /\ Tail(queue) \in Seq(Clock) /\ Len(Tail(queue)) <= Len(queue)
      BY <2>2, <3>1, HeadTail
    <3>4. Len(queue) \in Nat /\ Len(Tail(queue)) \in Nat
      BY <3>1, <3>3
    <3>5. MaxSize \in Nat
      BY CoDelAssumption
    <3>6. Len(Tail(queue)) <= MaxSize
      BY <3>1, <3>3, <3>4, <3>5
    <3> QED
      BY <3>2, <3>3, <3>6
  <2> QED
    BY <2>1, <2>2
<1>2. queue # <<>> => Popped # None
  <2> SUFFICES ASSUME queue # <<>> PROVE Popped # None
    OBVIOUS
  <2>1. Popped \in Clock
    BY HeadTail DEF TypeOK, Popped
  <2> QED
    BY <2>1, CoDelAssumption DEF Clock, None
<1>3. Time2CoDel(now + Interval) \in CoDelTime
  BY TimeRange, CoDelAssumption DEF TypeOK, Clock
<1>4. 0 \in CoDelTime
  BY CoDelAssumption DEF CoDelTime
<1>5. FirstAboveTime(Popped, Rest) \in CoDelTime
  BY <1>3, <1>4 DEF TypeOK, FirstAboveTime
<1>6. Rest = <<>> => FirstAboveTime(Popped, Rest) = 0
  BY CoDelAssumption DEF FirstAboveTime, Below, SmallBacklog
<1>7. aboveSince' \in Clock \cup {None}
  BY DEF TypeOK, Pop
<1> QED
  BY <1>1, <1>2, <1>5, <1>6, <1>7 DEF Pop

\* The control law sets a time of the 32-bit clock.
LEMMA ControlLawType ==
    ASSUME NEW t \in Nat, ControlLaw(t)
    PROVE  m_dropNext' \in CoDelTime
<1>1. PICK gap \in 1 .. Interval : m_dropNext' = Time2CoDel(t + gap)
  BY DEF ControlLaw
<1>2. t + gap \in Nat
  BY CoDelAssumption
<1> QED
  BY <1>1, <1>2, TimeRange

LEMMA InitInv == Init => Inv
<1> SUFFICES ASSUME Init PROVE Inv
  OBVIOUS
<1>1. 0 \in CoDelTime /\ 0 \in Clock /\ 0 <= MaxSize
  BY CoDelAssumption DEF CoDelTime, Clock
<1>2. queue \in Seq(Clock) /\ Len(queue) <= MaxSize
  BY <1>1 DEF Init
<1>3. lastDrop.at = None /\ lastDrop.since = None
  BY DEF Init
<1>4. TypeOK
  BY <1>1, <1>2, <1>3 DEF Init, TypeOK
<1> QED
  BY <1>4 DEF Init, Inv, DropsLeaveOne

LEMMA NextInv == Inv /\ [Next]_vars => Inv'
<1> SUFFICES ASSUME Inv, [Next]_vars PROVE Inv'
  OBVIOUS
<1> USE DEF Inv
<1>1. CASE DoEnqueue
  <2>1. queue' \in Seq(Clock) /\ Len(queue') <= MaxSize /\ queue' # <<>>
    BY <1>1, CoDelAssumption DEF DoEnqueue, TypeOK, Clock
  <2> QED
    BY <1>1, <2>1 DEF DoEnqueue, TypeOK, DropsLeaveOne, codelVars, historyVars
<1>2. CASE Tick
  <2>1. now' \in Clock
    BY <1>2, CoDelAssumption DEF Tick, TypeOK, Clock
  <2> QED
    BY <1>2, <2>1 DEF Tick, TypeOK, DropsLeaveOne, codelVars, historyVars
<1>3. CASE DequeueEmpty
  BY <1>3 DEF DequeueEmpty, TypeOK, DropsLeaveOne, historyVars
<1>4. CASE Dequeue
  <2>1. Pop /\ queue # <<>> /\ UNCHANGED <<now, m_dropNext, sums, lastDrop>>
    BY <1>4 DEF Dequeue
  <2>2. /\ pc' = "return" \/ (pc' \in {"loop", "enter"} /\ OkToDrop(Popped, Rest))
        /\ m_dropping' \in BOOLEAN
    BY <1>4 DEF Dequeue, TypeOK
  <2>3. pc' # "return" => queue' # <<>>
    BY <2>1, <2>2, OkLeavesOne DEF Pop
  <2> QED
    BY <2>1, <2>2, <2>3, PopType DEF TypeOK, DropsLeaveOne
<1>5. CASE EnterDropping
  <2>1. Pop /\ queue # <<>> /\ pc' = "return" /\ m_dropping' = TRUE /\ UNCHANGED <<now, sums>>
    BY <1>5 DEF EnterDropping, DropsLeaveOne
  <2>2. m_dropNext' \in CoDelTime
    BY <1>5, ControlLawType DEF EnterDropping, TypeOK, Clock
  <2>3. lastDrop'.at \in Clock \cup {None} /\ lastDrop'.since \in Clock \cup {None}
    BY <1>5 DEF EnterDropping, DropAfterDequeue, TypeOK
  <2> QED
    BY <2>1, <2>2, <2>3, PopType DEF TypeOK, DropsLeaveOne
<1>6. CASE DropNext
  <2>1. Pop /\ queue # <<>> /\ pc = "loop" /\ UNCHANGED <<now, pc, sums>>
    BY <1>6 DEF DropNext, TimeForNextDrop, DropsLeaveOne
  <2>2. m_dropNext' \in CoDelTime /\ m_dropping' \in BOOLEAN
    <3>1. m_dropNext \in CoDelTime /\ m_dropNext \in Nat
      BY CoDelAssumption DEF TypeOK, CoDelTime
    <3>2. CASE OkToDrop(Popped, Rest)
      <4>1. m_dropping' = TRUE /\ ControlLaw(m_dropNext)
        BY <1>6, <3>2 DEF DropNext
      <4> QED
        BY <4>1, <3>1, ControlLawType
    <3>3. CASE ~ OkToDrop(Popped, Rest)
      BY <1>6, <3>1, <3>3 DEF DropNext
    <3> QED
      BY <3>2, <3>3
  <2>3. lastDrop'.at \in Clock \cup {None} /\ lastDrop'.since \in Clock \cup {None}
    BY <1>6 DEF DropNext, DropAfterDequeue, TypeOK
  <2>4. m_dropping' => OkToDrop(Popped, Rest)
    BY <1>6 DEF DropNext
  <2>5. m_dropping' => queue' # <<>>
    BY <2>1, <2>4, OkLeavesOne DEF Pop
  <2> QED
    BY <2>1, <2>2, <2>3, <2>5, PopType DEF TypeOK, DropsLeaveOne
<1>7. CASE EndLoop
  BY <1>7 DEF EndLoop, TypeOK, DropsLeaveOne, codelVars, historyVars
<1>8. CASE Return
  BY <1>8 DEF Return, TypeOK, DropsLeaveOne, codelVars, historyVars
<1>9. CASE UNCHANGED vars
  BY <1>9 DEF vars, TypeOK, DropsLeaveOne, codelVars, historyVars
<1> QED
  BY <1>1, <1>2, <1>3, <1>4, <1>5, <1>6, <1>7, <1>8, <1>9 DEF Next, DoDequeue

\* A DoDequeue of a queue that has packets returns one, and an empty queue leaves
\* m_firstAboveTime unset: the types and BackloggedDelivers hold for ever.
THEOREM CoDelDelivers == Spec => []BackloggedDelivers
<1>1. Inv => BackloggedDelivers
  BY DEF Inv, DropsLeaveOne, BackloggedDelivers
<1> QED
  BY <1>1, InitInv, NextInv, PTL DEF Spec

-----------------------------------------------------------------------------
(* Arithmetic of the clock that wraps *)

\* The values of a time.
Period == 2 * Half

LEMMA PeriodFacts ==
    /\ Half \in Nat /\ Half >= 1 /\ Period \in Nat /\ Period = 2 * Half /\ Period >= 1
    /\ Interval \in Nat /\ Interval >= 1 /\ Interval < Half
    /\ MaxTime \in Nat
BY CoDelAssumption DEF Period

LEMMA TimeParts ==
    ASSUME NEW x \in Int
    PROVE  /\ Time2CoDel(x) \in Int /\ 0 <= Time2CoDel(x) /\ Time2CoDel(x) < Period
           /\ \E k \in Int : x = k * Period + Time2CoDel(x)
<1>1. Period \in Nat /\ Period >= 1
  BY PeriodFacts
<1>2. Time2CoDel(x) = x % Period
  BY DEF Time2CoDel, Period
<1> HIDE DEF Period
<1>3. x \div Period \in Int
  BY <1>1
<1>4. x = (x \div Period) * Period + (x % Period)
  BY <1>1
<1>5. x % Period \in 0 .. Period - 1
  BY <1>1
<1>6. PICK u, q : u = Time2CoDel(x) /\ q = x \div Period
  OBVIOUS
<1>7. u \in Int /\ 0 <= u /\ u < Period /\ q \in Int /\ x = q * Period + u
  BY <1>1, <1>2, <1>3, <1>4, <1>5, <1>6
<1> QED BY <1>6, <1>7

\* A time is known from any of its multiples.
LEMMA TimeUnique ==
    ASSUME NEW x \in Int, NEW k \in Int, NEW r \in Int, 0 <= r, r < Period,
           x = k * Period + r
    PROVE  Time2CoDel(x) = r
<1>1. PICK j \in Int : x = j * Period + Time2CoDel(x)
  BY TimeParts
<1>2. PICK u : u = Time2CoDel(x)
  OBVIOUS
<1>3. u \in Int /\ 0 <= u /\ u < Period /\ x = j * Period + u /\ Period \in Int
  BY <1>1, <1>2, TimeParts, PeriodFacts
<1> HIDE DEF Period
<1>4. k * Period \in Int /\ j * Period \in Int
  BY <1>3
<1>5. (k - j) * Period = u - r
  <2>1. (k - j) * Period = k * Period - j * Period
    BY <1>3
  <2> QED BY <1>3, <1>4, <2>1
<1>6. k - j >= 1 => (k - j) * Period >= Period
  BY <1>3
<1>7. k - j <= -1 => (k - j) * Period <= - Period
  BY <1>3
<1>8. k - j = 0
  BY <1>3, <1>5, <1>6, <1>7
<1>9. 0 * Period = 0
  BY <1>3
<1> QED BY <1>2, <1>3, <1>5, <1>8, <1>9

\* So is the signed integer with the same bits.
LEMMA SignedUnique ==
    ASSUME NEW x \in Int, NEW k \in Int, NEW s \in Int, - Half <= s, s < Half,
           x = k * Period + s
    PROVE  Signed(Time2CoDel(x)) = s
<1>1. Half \in Nat /\ Period = 2 * Half /\ Period \in Nat
  BY PeriodFacts
<1> HIDE DEF Period
<1>2. CASE s >= 0
  <2>1. Time2CoDel(x) = s
    BY <1>1, <1>2, TimeUnique
  <2> QED BY <1>1, <2>1 DEF Signed
<1>3. CASE s < 0
  <2>1. x = (k - 1) * Period + (s + Period)
    <3>1. (k - 1) * Period = k * Period - Period /\ k * Period \in Int
      BY <1>1
    <3> QED BY <1>1, <3>1
  <2>2. s + Period \in Int /\ 0 <= s + Period /\ s + Period < Period /\ k - 1 \in Int
    BY <1>1, <1>3
  <2>3. Time2CoDel(x) = s + Period
    BY <2>1, <2>2, TimeUnique
  <2>4. s + Period >= Half /\ s + Period - 2 * Half = s
    BY <1>1
  <2> QED BY <1>1, <2>2, <2>3, <2>4 DEF Signed
<1> QED BY <1>2, <1>3

LEMMA SignedParts ==
    ASSUME NEW x \in Int
    PROVE  \E k, s \in Int : - Half <= s /\ s < Half /\ x = k * Period + s
                             /\ Signed(Time2CoDel(x)) = s
<1>1. Half \in Nat /\ Period = 2 * Half /\ Period \in Nat
  BY PeriodFacts
<1>2. PICK j, u : j \in Int /\ u = Time2CoDel(x) /\ x = j * Period + u
  BY TimeParts
<1>3. u \in Int /\ 0 <= u /\ u < Period
  BY <1>2, TimeParts
<1> HIDE DEF Period
<1>4. j * Period \in Int /\ (j + 1) * Period = j * Period + Period /\ j + 1 \in Int
  BY <1>1, <1>2
<1>5. CASE u < Half
  <2>1. - Half <= u
    BY <1>1, <1>3
  <2>2. Signed(Time2CoDel(x)) = u
    BY <1>2, <1>3, <1>5, <2>1, SignedUnique
  <2> QED BY <1>2, <1>3, <1>5, <2>1, <2>2
<1>6. CASE ~ (u < Half)
  <2>1. PICK s \in Int : s = u - Period
    BY <1>1, <1>3
  <2>2. - Half <= s /\ s < Half /\ x = (j + 1) * Period + s
    <3>1. PICK m \in Int : m = j * Period
      BY <1>4
    <3>2. - Half <= s /\ s < Half
      BY <1>1, <1>3, <1>6, <2>1
    <3>3. m + u = (m + Period) + s
      BY <1>1, <1>3, <2>1
    <3> QED BY <1>2, <1>4, <3>1, <3>2, <3>3
  <2>3. Signed(Time2CoDel(x)) = s
    BY <1>4, <2>2, SignedUnique
  <2> QED BY <1>4, <2>2, <2>3
<1> QED BY <1>5, <1>6

\* Within half a period, and where the clock does not change its sign, signed
\* times differ as the times do.
LEMMA SignedSteady ==
    ASSUME NEW x \in Int, NEW y \in Int, x <= y, y - x < Half, ~ SignChanges(x, y)
    PROVE  /\ Signed(Time2CoDel(x)) \in Int
           /\ Signed(Time2CoDel(y)) = Signed(Time2CoDel(x)) + (y - x)
<1>1. Half \in Nat /\ Half >= 1 /\ Period = 2 * Half /\ Period \in Nat
  BY PeriodFacts
<1>2. PICK k \in Int, s \in Int : /\ - Half <= s /\ s < Half /\ x = k * Period + s
                                  /\ Signed(Time2CoDel(x)) = s
  BY SignedParts
<1>3. \A t \in x + 1 .. y : Time2CoDel(t) # Half
  BY DEF SignChanges, Time2CoDel
<1> HIDE DEF Period
<1>4. PICK m \in Int : m = k * Period
  BY <1>1
<1>5. s + (y - x) < Half
  <2> SUFFICES ASSUME s + (y - x) >= Half PROVE FALSE
    BY <1>1, <1>2
  <2>1. m + Half \in x + 1 .. y
    BY <1>1, <1>2, <1>4
  <2>2. Time2CoDel(m + Half) = Half
    <3>1. m + Half \in Int /\ m + Half = k * Period + Half /\ Half \in Int /\ 0 <= Half /\ Half < Period
      BY <1>1, <1>4
    <3> QED BY <3>1, TimeUnique
  <2> QED BY <1>3, <2>1, <2>2
<1>6. /\ s + (y - x) \in Int /\ - Half <= s + (y - x)
      /\ y = k * Period + (s + (y - x))
  BY <1>1, <1>2, <1>4
<1>7. Signed(Time2CoDel(y)) = s + (y - x)
  BY <1>5, <1>6, SignedUnique
<1> QED BY <1>2, <1>7

\* The difference that a build computes by wrapping around.
LEMMA WrappedDifference ==
    ASSUME NEW x \in Int, NEW y \in Int, - Half <= x - y, x - y < Half
    PROVE  Signed((Time2CoDel(x) - Time2CoDel(y)) % (2 * Half)) = x - y
<1>1. PICK k, u : k \in Int /\ u = Time2CoDel(x) /\ x = k * Period + u
  BY TimeParts
<1>2. PICK j, v : j \in Int /\ v = Time2CoDel(y) /\ y = j * Period + v
  BY TimeParts
<1>3. u \in Int /\ v \in Int /\ Period \in Int /\ j \in Int /\ k \in Int
  BY <1>1, <1>2, TimeParts, PeriodFacts
<1>4. Signed(Time2CoDel(u - v)) = x - y
  <2> HIDE DEF Period
  <2>1. k * Period \in Int /\ j * Period \in Int
        /\ (j - k) * Period = j * Period - k * Period
    BY <1>3
  <2>2. u - v = (j - k) * Period + (x - y)
    BY <1>1, <1>2, <1>3, <2>1
  <2>3. u - v \in Int /\ x - y \in Int /\ j - k \in Int
    BY <1>3
  <2> QED BY <2>2, <2>3, SignedUnique
<1> QED BY <1>1, <1>2, <1>4 DEF Time2CoDel

\* How CoDelTimeAfter compares two moments that are less than half a period apart.
LEMMA ComparedSoon ==
    ASSUME sums \in {"wrap", "compare"},
           NEW x \in Int, NEW y \in Int, x <= y, y - x < Half,
           CoDelTimeAfter(Time2CoDel(x), Time2CoDel(y))
    PROVE  sums = "compare" /\ SignChanges(x, y)
<1>1. Half \in Nat /\ Half >= 1
  BY PeriodFacts
<1>2. CASE sums = "wrap"
  <2>1. - Half <= x - y /\ x - y < Half /\ ~ (x - y > 0)
    BY <1>1
  <2>2. Signed((Time2CoDel(x) - Time2CoDel(y)) % (2 * Half)) = x - y
    BY <2>1, WrappedDifference
  <2>3. Signed((Time2CoDel(x) - Time2CoDel(y)) % (2 * Half)) > 0
    BY <1>2 DEF CoDelTimeAfter, Difference
  <2> QED BY <2>1, <2>2, <2>3
<1>3. CASE sums = "compare" /\ ~ SignChanges(x, y)
  <2>1. PICK a, b : a = Signed(Time2CoDel(x)) /\ b = Signed(Time2CoDel(y))
    OBVIOUS
  <2>2. a \in Int /\ b = a + (y - x)
    BY <1>3, <2>1, SignedSteady
  <2>3. a - b > 0
    BY <1>3, <2>1 DEF CoDelTimeAfter, Difference
  <2> QED BY <2>2, <2>3
<1> QED BY <1>2, <1>3

LEMMA ComparedLate ==
    ASSUME sums \in {"wrap", "compare"},
           NEW x \in Int, NEW y \in Int, y < x, x - y < Half,
           sums = "compare" => ~ SignChanges(y, x)
    PROVE  CoDelTimeAfter(Time2CoDel(x), Time2CoDel(y))
<1>1. Half \in Nat /\ Half >= 1
  BY PeriodFacts
<1>2. CASE sums = "wrap"
  <2>1. - Half <= x - y /\ x - y < Half /\ x - y > 0
    BY <1>1
  <2>2. Signed((Time2CoDel(x) - Time2CoDel(y)) % (2 * Half)) = x - y
    BY <2>1, WrappedDifference
  <2> QED BY <1>2, <2>1, <2>2 DEF CoDelTimeAfter, Difference
<1>3. CASE sums = "compare"
  <2>1. PICK a, b : a = Signed(Time2CoDel(x)) /\ b = Signed(Time2CoDel(y))
    OBVIOUS
  <2>2. b \in Int /\ a = b + (x - y)
    BY <1>3, <2>1, SignedSteady
  <2>3. a - b > 0
    BY <2>2
  <2>4. Difference(Time2CoDel(x), Time2CoDel(y)) = a - b
    BY <1>3, <2>1 DEF Difference
  <2> QED BY <2>3, <2>4 DEF CoDelTimeAfter
<1> QED BY <1>2, <1>3

-----------------------------------------------------------------------------
(* When packets are dropped *)

\* m_firstAboveTime is an interval after the first packet above target; when that
\* moment is the time 0, which means unset, an interval after a later one.
SetAt(start) ==
    /\ start <= now /\ aboveSince # None /\ aboveSince <= start
    /\ start = aboveSince \/ Time2CoDel(aboveSince + Interval) = 0
    /\ m_firstAboveTime = Time2CoDel(start + Interval)

IntervalKept ==
    /\ aboveSince <= now
    /\ m_firstAboveTime # 0 => \E start \in Clock : SetAt(start)
    /\ m_firstAboveTime = 0 /\ aboveSince # None => Time2CoDel(aboveSince + Interval) = 0

\* What DropsOnlyPersistent says of a drop.
Persistent(at, since) ==
    /\ since # None
    /\ \/ at - since > Interval
       \/ sums = "compare" /\ SignChanges(at, since + Interval)

\* What StandingQueueIsControlled says of a queue that stands since then.
Controlled(since) ==
    since # None /\ now > since + Interval =>
        \/ m_dropping
        \/ Time2CoDel(since + Interval) = 0
        \/ now - (since + Interval) >= Half
        \/ sums = "compare" /\ SignChanges(since + Interval, now)

\* A packet that is about to be dropped was found to be droppable, and a loop that
\* was left without the dropping state was left for a packet that was not.
DropInv ==
    /\ Inv /\ IntervalKept
    /\ pc = "enter" \/ (pc = "loop" /\ m_dropping) => Persistent(now, aboveSince)
    /\ DropsOnlyPersistent
    /\ pc \in {"return", "loop"} => Controlled(aboveSince)

\* The moments that the history records.
LEMMA Moments ==
    ASSUME TypeOK
    PROVE  /\ now \in Nat /\ now \in Int /\ None = -1
           /\ aboveSince = None \/ aboveSince \in Nat
           /\ \A t \in Clock : t \in Nat /\ t \in Int
           /\ Time2CoDel(now + Interval) \in CoDelTime
<1>1. \A t \in Clock : t \in Nat /\ t \in Int
  BY PeriodFacts DEF Clock
<1>2. now \in Clock /\ aboveSince \in Clock \cup {None}
  BY DEF TypeOK
<1>3. now + Interval \in Nat
  BY <1>1, <1>2, PeriodFacts
<1> QED BY <1>1, <1>2, <1>3, TimeRange DEF None

LEMMA PopKeepsInterval ==
    ASSUME TypeOK, IntervalKept, Pop, now' = now
    PROVE  IntervalKept'
<1>1. now \in Nat /\ now \in Clock /\ None = -1 /\ None <= now
      /\ (aboveSince = None \/ aboveSince \in Nat)
  BY Moments DEF TypeOK
<1>2. /\ m_firstAboveTime' = FirstAboveTime(Popped, Rest)
      /\ aboveSince' = IF Below(Popped, Rest) THEN None
                       ELSE IF aboveSince = None THEN now
                       ELSE aboveSince
  BY DEF Pop
<1>3. CASE Below(Popped, Rest)
  <2>1. m_firstAboveTime' = 0 /\ aboveSince' = None
    BY <1>2, <1>3 DEF FirstAboveTime
  <2> QED BY <1>1, <2>1 DEF IntervalKept
<1>4. CASE ~ Below(Popped, Rest) /\ m_firstAboveTime # 0
  <2>1. PICK start \in Clock : SetAt(start)
    BY <1>4 DEF IntervalKept
  <2>2. m_firstAboveTime' = m_firstAboveTime /\ aboveSince' = aboveSince
    BY <1>2, <1>4, <2>1 DEF FirstAboveTime, SetAt
  <2>3. SetAt(start)'
    BY <2>1, <2>2 DEF SetAt
  <2> QED BY <1>4, <2>2, <2>3 DEF IntervalKept
<1>5. CASE ~ Below(Popped, Rest) /\ m_firstAboveTime = 0
  <2>1. m_firstAboveTime' = Time2CoDel(now + Interval)
    BY <1>2, <1>5 DEF FirstAboveTime
  <2>2. aboveSince' = (IF aboveSince = None THEN now ELSE aboveSince) /\ aboveSince' # None
    BY <1>1, <1>2, <1>5
  <2>3. aboveSince' <= now /\ (aboveSince' = now \/ Time2CoDel(aboveSince' + Interval) = 0)
    BY <1>1, <1>5, <2>2 DEF IntervalKept
  <2>4. SetAt(now)'
    BY <1>1, <2>1, <2>2, <2>3 DEF SetAt
  <2> QED BY <1>1, <2>1, <2>3, <2>4 DEF IntervalKept
<1> QED BY <1>3, <1>4, <1>5

\* A packet is found droppable only after an interval, or by mistake.
LEMMA OkIsPersistent ==
    ASSUME TypeOK, IntervalKept, Pop, OkToDrop(Popped, Rest)
    PROVE  Persistent(now, aboveSince')
<1>1. m_firstAboveTime # 0 /\ CoDelTimeAfter(Time2CoDel(now), m_firstAboveTime)
      /\ ~ Below(Popped, Rest)
  BY DEF OkToDrop
<1>2. PICK start \in Clock : SetAt(start)
  BY <1>1 DEF IntervalKept
<1>3. aboveSince' = aboveSince /\ aboveSince # None
  BY <1>1, <1>2 DEF Pop, SetAt
<1>4. PICK since : since = aboveSince
  OBVIOUS
<1>5. /\ now \in Int /\ start \in Int /\ since \in Int /\ since <= start /\ start <= now
      /\ start = since \/ Time2CoDel(since + Interval) = 0
      /\ Interval \in Int /\ Half \in Int /\ Interval < Half /\ Interval >= 1
  BY <1>2, <1>3, <1>4, Moments, PeriodFacts DEF SetAt
<1>6. CoDelTimeAfter(Time2CoDel(now), Time2CoDel(start + Interval))
  BY <1>1, <1>2 DEF SetAt
<1>7. sums \in {"wrap", "compare"}
  BY DEF TypeOK
<1>8. CASE now - since > Interval
  BY <1>3, <1>4, <1>8 DEF Persistent
<1>9. CASE ~ (now - since > Interval)
  <2>1. now <= since + Interval /\ now <= start + Interval /\ start + Interval - now < Half
        /\ start + Interval \in Int
    BY <1>5, <1>9
  <2>2. sums = "compare" /\ SignChanges(now, start + Interval)
    BY <1>5, <1>6, <1>7, <2>1, ComparedSoon
  <2>3. CASE start = since
    BY <1>3, <1>4, <2>2, <2>3 DEF Persistent
  <2>4. CASE start # since
    <3>1. Time2CoDel(since + Interval) = 0 /\ since + Interval \in Int /\ since < start
      BY <1>5, <2>4
    <3>2. PICK k \in Int : since + Interval = k * Period + 0
      BY <3>1, TimeParts
    <3>3. PICK m \in Int : m = k * Period
      BY PeriodFacts
    <3>4. m = since + Interval
      BY <1>5, <3>2, <3>3
    <3>5. Signed(Time2CoDel(now)) = now - m
      <4>1. now - m \in Int /\ - Half <= now - m /\ now - m < Half /\ now = m + (now - m)
        BY <1>5, <2>1, <3>1, <3>3, <3>4
      <4> QED BY <1>5, <3>3, <4>1, SignedUnique
    <3>6. Signed(Time2CoDel(start + Interval)) = start + Interval - m
      <4>1. /\ start + Interval - m \in Int /\ - Half <= start + Interval - m
            /\ start + Interval - m < Half /\ start + Interval = m + (start + Interval - m)
        BY <1>5, <2>1, <3>1, <3>3, <3>4
      <4> QED BY <2>1, <3>3, <4>1, SignedUnique
    <3>7. (now - m) - (start + Interval - m) > 0
      BY <1>6, <2>2, <3>5, <3>6 DEF CoDelTimeAfter, Difference
    <3> QED BY <1>5, <2>1, <3>3, <3>7
  <2> QED BY <2>3, <2>4
<1> QED BY <1>8, <1>9

\* A packet that ends a long interval is found droppable, but for the exceptions.
LEMMA NotOkIsControlled ==
    ASSUME TypeOK, IntervalKept, Pop, ~ OkToDrop(Popped, Rest),
           aboveSince' # None, now > aboveSince' + Interval
    PROVE  \/ Time2CoDel(aboveSince' + Interval) = 0
           \/ now - (aboveSince' + Interval) >= Half
           \/ sums = "compare" /\ SignChanges(aboveSince' + Interval, now)
<1>1. now \in Int /\ Interval \in Int /\ Interval >= 1 /\ Half \in Int
      /\ (aboveSince = None \/ aboveSince \in Nat) /\ sums \in {"wrap", "compare"}
  BY Moments, PeriodFacts DEF TypeOK
<1>2. ~ Below(Popped, Rest)
  BY DEF Pop
<1>3. aboveSince' = aboveSince /\ aboveSince # None
  <2>1. aboveSince' = IF aboveSince = None THEN now ELSE aboveSince
    BY <1>2 DEF Pop
  <2>2. ~ (now > now + Interval)
    BY <1>1
  <2> QED BY <2>1, <2>2
<1>4. PICK ends : ends = aboveSince + Interval
  OBVIOUS
<1>5. ends \in Int /\ ends < now
  BY <1>1, <1>3, <1>4
<1> SUFFICES ASSUME Time2CoDel(ends) # 0, ~ (now - ends >= Half),
                    ~ (sums = "compare" /\ SignChanges(ends, now))
             PROVE  FALSE
  BY <1>3, <1>4
<1>6. m_firstAboveTime # 0
  BY <1>3, <1>4 DEF IntervalKept
<1>7. PICK start \in Clock : SetAt(start)
  BY <1>6 DEF IntervalKept
<1>8. m_firstAboveTime = Time2CoDel(ends)
  BY <1>4, <1>7 DEF SetAt
<1>9. now - ends < Half
  BY <1>1, <1>5
<1>10. CoDelTimeAfter(Time2CoDel(now), Time2CoDel(ends))
  BY <1>1, <1>5, <1>9, ComparedLate
<1> QED BY <1>2, <1>6, <1>8, <1>10 DEF OkToDrop

LEMMA DropInit == Init => DropInv
<1> SUFFICES ASSUME Init PROVE DropInv
  OBVIOUS
<1>1. Inv
  BY InitInv
<1>2. lastDrop.at = None
  BY DEF Init
<1>3. None <= now
  BY DEF Init, None
<1> QED BY <1>1, <1>2, <1>3 DEF Init, DropInv, IntervalKept, DropsOnlyPersistent

\* What a step keeps of the last drop, and what a drop must fulfil.
LEMMA NoNewDrop ==
    ASSUME DropsOnlyPersistent, lastDrop' = lastDrop, sums' = sums
    PROVE  DropsOnlyPersistent'
BY DEF DropsOnlyPersistent, SignChanges

LEMMA NewDrop ==
    ASSUME Persistent(now, aboveSince), DropAfterDequeue, sums' = sums
    PROVE  DropsOnlyPersistent'
<1>1. lastDrop'.at = now /\ lastDrop'.since = aboveSince
  BY DEF DropAfterDequeue
<1> QED BY <1>1 DEF Persistent, DropsOnlyPersistent, SignChanges

\* What a packet that is taken means for the rest of DoDequeue.
LEMMA PopMeans ==
    ASSUME TypeOK, IntervalKept, Pop, now' = now, sums' = sums
    PROVE  /\ IntervalKept'
           /\ OkToDrop(Popped, Rest) => Persistent(now, aboveSince)'
           /\ m_dropping' \/ ~ OkToDrop(Popped, Rest) => Controlled(aboveSince)'
<1>1. IntervalKept'
  BY PopKeepsInterval
<1>2. ASSUME OkToDrop(Popped, Rest) PROVE Persistent(now, aboveSince)'
  <2>1. Persistent(now, aboveSince')
    BY <1>2, OkIsPersistent
  <2> QED BY <2>1 DEF Persistent, SignChanges
<1>3. ASSUME m_dropping' PROVE Controlled(aboveSince)'
  BY <1>3 DEF Controlled
<1>4. ASSUME ~ OkToDrop(Popped, Rest) PROVE Controlled(aboveSince)'
  <2> SUFFICES ASSUME aboveSince' # None, now > aboveSince' + Interval
               PROVE  \/ Time2CoDel(aboveSince' + Interval) = 0
                      \/ now - (aboveSince' + Interval) >= Half
                      \/ sums = "compare" /\ SignChanges(aboveSince' + Interval, now)
    BY DEF Controlled, SignChanges
  <2> QED BY <1>4, NotOkIsControlled
<1> QED BY <1>1, <1>2, <1>3, <1>4

LEMMA DropStep == DropInv /\ [Next]_vars => DropInv'
<1> SUFFICES ASSUME DropInv, [Next]_vars PROVE DropInv'
  OBVIOUS
<1>1. Inv' /\ TypeOK /\ IntervalKept /\ DropsOnlyPersistent
  <2>1. Inv'
    BY NextInv DEF DropInv
  <2> QED BY <2>1 DEF DropInv, Inv
<1>2. ASSUME UNCHANGED <<now, sums, m_firstAboveTime, historyVars>>
      PROVE  /\ IntervalKept' /\ DropsOnlyPersistent'
             /\ Persistent(now, aboveSince) => Persistent(now, aboveSince)'
             /\ Controlled(aboveSince) /\ m_dropping' = m_dropping => Controlled(aboveSince)'
  <2>1. UNCHANGED <<now, sums, m_firstAboveTime, aboveSince, lastDrop>>
    BY <1>2 DEF historyVars
  <2>2. DropsOnlyPersistent'
    BY <1>1, <2>1, NoNewDrop
  <2> QED BY <1>1, <2>1, <2>2 DEF IntervalKept, SetAt, Persistent, Controlled, SignChanges
<1>3. CASE DoEnqueue
  BY <1>1, <1>2, <1>3 DEF DoEnqueue, codelVars, DropInv
<1>4. CASE Tick
  <2>1. /\ now' = now + 1 /\ pc' = "idle" /\ now \in Int
        /\ UNCHANGED <<sums, m_firstAboveTime, aboveSince, lastDrop>>
    BY <1>1, <1>4, Moments DEF Tick, codelVars, historyVars
  <2>2. DropsOnlyPersistent'
    BY <1>1, <2>1, NoNewDrop
  <2>3. aboveSince \in Int /\ aboveSince <= now /\ aboveSince <= now'
    BY <1>1, <2>1, Moments DEF IntervalKept
  <2>4. ASSUME NEW start \in Clock, SetAt(start) PROVE SetAt(start)'
    BY <1>1, <2>1, <2>4, Moments DEF SetAt
  <2>5. IntervalKept'
    BY <1>1, <2>1, <2>3, <2>4 DEF IntervalKept
  <2> QED BY <1>1, <2>1, <2>2, <2>5 DEF DropInv
<1>5. CASE DequeueEmpty
  BY <1>1, <1>2, <1>5 DEF DequeueEmpty, DropInv
<1>6. CASE Dequeue
  <2>1. /\ Pop /\ UNCHANGED <<now, sums, lastDrop>>
        /\ \/ ~ OkToDrop(Popped, Rest) /\ pc' = "return"
           \/ OkToDrop(Popped, Rest) /\ m_dropping' /\ pc' = "loop"
           \/ OkToDrop(Popped, Rest) /\ pc' = "enter"
    BY <1>6 DEF Dequeue
  <2>2. DropsOnlyPersistent'
    BY <1>1, <2>1, NoNewDrop
  <2> QED BY <1>1, <2>1, <2>2, PopMeans DEF DropInv
<1>7. CASE EnterDropping
  <2>1. Pop /\ pc = "enter" /\ pc' = "return" /\ m_dropping' = TRUE /\ UNCHANGED <<now, sums>>
        /\ DropAfterDequeue
    BY <1>7 DEF EnterDropping
  <2>2. DropsOnlyPersistent'
    BY <2>1, NewDrop DEF DropInv
  <2> QED BY <1>1, <2>1, <2>2, PopMeans DEF DropInv
<1>8. CASE DropNext
  <2>1. /\ Pop /\ pc = "loop" /\ m_dropping /\ pc' = "loop" /\ UNCHANGED <<now, sums>>
        /\ DropAfterDequeue
        /\ \/ OkToDrop(Popped, Rest) /\ m_dropping' = TRUE
           \/ ~ OkToDrop(Popped, Rest) /\ m_dropping' = FALSE
    BY <1>8 DEF DropNext, TimeForNextDrop
  <2>2. DropsOnlyPersistent'
    BY <2>1, NewDrop DEF DropInv
  <2> QED BY <1>1, <2>1, <2>2, PopMeans DEF DropInv
<1>9. CASE EndLoop
  BY <1>1, <1>2, <1>9 DEF EndLoop, codelVars, DropInv
<1>10. CASE Return
  BY <1>1, <1>2, <1>10 DEF Return, codelVars, DropInv
<1>11. CASE UNCHANGED vars
  BY <1>1, <1>2, <1>11 DEF vars, codelVars, DropInv
<1> QED
  BY <1>3, <1>4, <1>5, <1>6, <1>7, <1>8, <1>9, <1>10, <1>11 DEF Next, DoDequeue

\* A packet is dropped only after an interval of packets above target, except
\* where a build compares signed integers across the change of sign: for every
\* clock, interval, target, queue size and backlog limit.
THEOREM DropsArePersistent == Spec => []DropsOnlyPersistent
<1>1. DropInv => DropsOnlyPersistent
  BY DEF DropInv
<1> QED
  BY <1>1, DropInit, DropStep, PTL DEF Spec

\* A DoDequeue that finds a queue that stands for more than an interval ends in
\* the dropping state, with the exceptions that StandingQueueIsControlled names.
THEOREM StandingQueuesAreControlled == Spec => []StandingQueueIsControlled
<1>1. DropInv => StandingQueueIsControlled
  BY DEF DropInv, Controlled, StandingQueueIsControlled
<1> QED
  BY <1>1, DropInit, DropStep, PTL DEF Spec
=============================================================================
