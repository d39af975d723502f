---------------------------- MODULE TestPyProofs ----------------------------
(***************************************************************************)
(* The test driver, for any number of workers and jobs: SIGINT stops it,   *)
(* no job is lost or duplicated, and the exit status is honest.            *)
(*                                                                         *)
(* SIGINT: count the workers that have read thread_exit before it was set  *)
(* and have not yet started their job.  Each may still start one, and none *)
(* can join them.                                                          *)
(*                                                                         *)
(* Jobs: every job in flight is in one place, one of the two queues or the *)
(* hands of one worker, and the set of jobs in flight shrinks exactly when *)
(* one is collected.  The sums of Accounted follow.                        *)
(*                                                                         *)
(* Exit status: nobody touches a job that was collected, so the counters   *)
(* say how many of them are good; at the join, all jobs were collected.    *)
(***************************************************************************)
EXTENDS TestPy, FiniteSetTheorems, SequenceTheorems, TLAPS

-----------------------------------------------------------------------------
(* SIGINT *)

\* Workers that are about to start a job.
Committed == {w \in Workers : pc[w] = "run"}

\* What the counting needs of the types.
Shape ==
    /\ DOMAIN pc = Workers
    /\ thread_exit \in BOOLEAN
    /\ IsFiniteSet(late)

\* No job starts late without having been counted before.
Counted ==
    /\ ~ thread_exit => late = {}
    /\ thread_exit => Cardinality(late) + Cardinality(Committed) <= Cardinality(Workers)

Inv == Shape /\ Counted

\* Numbers of workers.
LEMMA CommittedFinite ==
    /\ IsFiniteSet(Committed)
    /\ Cardinality(Committed) \in Nat
    /\ Cardinality(Committed) <= Cardinality(Workers)
    /\ Cardinality(Workers) \in Nat
<1>1. Committed \subseteq Workers /\ IsFiniteSet(Workers)
  BY TestPyAssumption DEF Committed
<1> QED
  BY <1>1, FS_Subset, FS_CardinalityType

LEMMA InitInv == Init => Inv
<1> SUFFICES ASSUME Init PROVE Inv
  OBVIOUS
<1>1. IsFiniteSet(late)
  BY FS_EmptySet DEF Init
<1> QED
  BY <1>1 DEF Init, Inv, Shape, Counted

\* A step that leaves late alone and commits no worker keeps the count.
LEMMA NoneCommitted ==
    ASSUME Inv, UNCHANGED <<thread_exit, late>>, DOMAIN pc' = Workers,
           Committed' \subseteq Committed
    PROVE  Inv'
<1>1. Cardinality(Committed') <= Cardinality(Committed) /\ Cardinality(Committed') \in Nat
  BY CommittedFinite, FS_Subset, FS_CardinalityType
<1>2. Cardinality(late) \in Nat
  BY FS_CardinalityType DEF Inv, Shape
<1>3. Shape'
  BY DEF Inv, Shape
<1>4. Counted'
  BY <1>1, <1>2, CommittedFinite DEF Inv, Counted
<1> QED
  BY <1>3, <1>4 DEF Inv

\* A step of one worker that does not lead to the start of a job.
LEMMA OtherWorkerStep ==
    ASSUME Inv, UNCHANGED <<thread_exit, late>>, NEW w \in Workers, NEW p,
           p # "run", pc' = [pc EXCEPT ![w] = p]
    PROVE  Inv'
<1>1. DOMAIN pc' = Workers
  BY DEF Inv, Shape
<1>2. Committed' \subseteq Committed
  <2> SUFFICES ASSUME NEW v \in Committed' PROVE v \in Committed
    OBVIOUS
  <2>1. v \in Workers /\ pc'[v] = "run"
    BY DEF Committed
  <2>2. v # w /\ pc[v] = "run"
    BY <2>1 DEF Inv, Shape
  <2> QED
    BY <2>1, <2>2 DEF Committed
<1> QED
  BY <1>1, <1>2, NoneCommitted

\* A worker starts its job: it is late only if the worker was counted.
LEMMA StartInv ==
    ASSUME Inv, NEW w \in Workers, Start(w)
    PROVE  Inv'
<1>1. /\ pc[w] = "run" /\ pc' = [pc EXCEPT ![w] = "running"]
      /\ thread_exit' = thread_exit
      /\ late' = IF thread_exit THEN late \cup {job[w]} ELSE late
  BY DEF Start
<1>2. CASE ~ thread_exit
  BY <1>1, <1>2, OtherWorkerStep
<1>3. CASE thread_exit
  <2>1. w \in Committed /\ Committed' = Committed \ {w}
    BY <1>1 DEF Committed, Inv, Shape
  <2>2. Cardinality(Committed') = Cardinality(Committed) - 1
    BY <2>1, CommittedFinite, FS_RemoveElement
  <2>3. IsFiniteSet(late) /\ Cardinality(late) \in Nat
    BY FS_CardinalityType DEF Inv, Shape
  <2>4. /\ IsFiniteSet(late') /\ Cardinality(late') \in Nat
        /\ Cardinality(late') <= Cardinality(late) + 1
    <3>1. late' = late \cup {job[w]}
      BY <1>1, <1>3
    <3>2. CASE job[w] \in late
      <4>1. late' = late
        BY <3>1, <3>2
      <4> QED
        BY <4>1, <2>3
    <3>3. CASE job[w] \notin late
      <4>1. IsFiniteSet(late') /\ Cardinality(late') = Cardinality(late) + 1
        BY <3>1, <3>3, <2>3, FS_AddElement
      <4> QED
        BY <4>1, <2>3
    <3> QED
      BY <3>2, <3>3
  <2>5. Shape'
    BY <1>1, <2>4 DEF Inv, Shape
  <2>6. Counted'
    BY <1>1, <1>3, <2>2, <2>3, <2>4, CommittedFinite DEF Inv, Counted
  <2> QED
    BY <2>5, <2>6 DEF Inv
<1> QED
  BY <1>2, <1>3

\* A worker decides to run its job, which it does only before SIGINT.
LEMMA LaunchInv ==
    ASSUME Inv, NEW w \in Workers, Launch(w), thread_exit' = thread_exit
    PROVE  Inv'
<1>1. ~ thread_exit /\ pc' = [pc EXCEPT ![w] = "run"] /\ late' = late
  BY DEF Launch
<1>2. Shape'
  BY <1>1 DEF Inv, Shape
<1>3. Counted'
  BY <1>1 DEF Inv, Counted
<1> QED
  BY <1>2, <1>3 DEF Inv

\* SIGINT: no job has started late, and no more workers are committed than exist.
LEMMA InterruptInv ==
    ASSUME Inv, Interrupt
    PROVE  Inv'
<1>1. thread_exit' = TRUE /\ pc' = pc /\ late' = late
  BY DEF Interrupt, workerVars
<1>2. CASE thread_exit
  <2>1. thread_exit' = thread_exit
    BY <1>1, <1>2
  <2>2. Committed' \subseteq Committed /\ DOMAIN pc' = Workers
    BY <1>1 DEF Committed, Inv, Shape
  <2> QED
    BY <1>1, <2>1, <2>2, NoneCommitted
<1>3. CASE ~ thread_exit
  <2>1. late' = {} /\ Cardinality(late') = 0
    BY <1>1, <1>3, FS_EmptySet DEF Inv, Counted
  <2>2. Committed' = Committed
    BY <1>1 DEF Committed
  <2>3. Shape'
    BY <1>1 DEF Inv, Shape
  <2>4. Counted'
    BY <1>1, <2>1, <2>2, CommittedFinite DEF Counted
  <2> QED
    BY <2>3, <2>4 DEF Inv
<1> QED
  BY <1>2, <1>3

\* A step that changes neither the workers nor thread_exit.
LEMMA MainInv ==
    ASSUME Inv, UNCHANGED <<workerVars, thread_exit>>
    PROVE  Inv'
<1>1. pc' = pc /\ UNCHANGED <<thread_exit, late>>
  BY DEF workerVars
<1>2. Committed' \subseteq Committed /\ DOMAIN pc' = Workers
  BY <1>1 DEF Committed, Inv, Shape
<1> QED
  BY <1>1, <1>2, NoneCommitted

LEMMA NextInv == Inv /\ [Next]_vars => Inv'
<1> SUFFICES ASSUME Inv, [Next]_vars PROVE Inv'
  OBVIOUS
<1>1. ASSUME NEW w \in Workers, Get(w) PROVE Inv'
  <2>1. /\ UNCHANGED <<thread_exit, late>>
        /\ \/ pc' = [pc EXCEPT ![w] = "exited"]
           \/ pc' = [pc EXCEPT ![w] = "check"]
    BY <1>1 DEF Get
  <2> QED
    BY <2>1, OtherWorkerStep
<1>2. ASSUME NEW w \in Workers, Check(w) PROVE Inv'
  <2>1. thread_exit' = thread_exit
    BY <1>2 DEF Check
  <2>2. CASE GiveBack(w) \/ Skip(w)
    <3>1. late' = late /\ pc' = [pc EXCEPT ![w] = "get"]
      BY <2>2 DEF GiveBack, Skip, PutBack
    <3> QED
      BY <2>1, <3>1, OtherWorkerStep
  <2>3. CASE Launch(w)
    BY <2>1, <2>3, LaunchInv
  <2> QED
    BY <1>2, <2>2, <2>3 DEF Check
<1>3. ASSUME NEW w \in Workers, Start(w) PROVE Inv'
  BY <1>3, StartInv
<1>4. ASSUME NEW w \in Workers, Finish(w) PROVE Inv'
  <2>1. UNCHANGED <<thread_exit, late>> /\ pc' = [pc EXCEPT ![w] = "get"]
    BY <1>4 DEF Finish, PutBack
  <2> QED
    BY <2>1, OtherWorkerStep
<1>5. ASSUME NEW w \in Workers, Raise(w) PROVE Inv'
  <2>1. UNCHANGED <<thread_exit, late>> /\ pc' = [pc EXCEPT ![w] = "raised"]
    BY <1>5 DEF Raise
  <2> QED
    BY <2>1, OtherWorkerStep
<1>6. CASE MainStep
  <2>1. UNCHANGED <<workerVars, thread_exit>>
    BY <1>6 DEF MainStep, DispatchSuite, DispatchExample, Dispatch, SendBreak, Collect, Join
  <2> QED
    BY <2>1, MainInv
<1>7. CASE Interrupt
  BY <1>7, InterruptInv
<1>8. CASE UNCHANGED vars
  <2>1. UNCHANGED <<workerVars, thread_exit>>
    BY <1>8 DEF vars
  <2> QED
    BY <2>1, MainInv
<1> QED
  BY <1>1, <1>2, <1>3, <1>4, <1>5, <1>6, <1>7, <1>8 DEF Next, WorkerStep

\* However many workers and jobs there are, after SIGINT no more jobs start than
\* there are workers.
THEOREM InterruptIsBounded == Spec => []InterruptBounded
<1>1. Inv => InterruptBounded
  <2> SUFFICES ASSUME Inv PROVE InterruptBounded
    OBVIOUS
  <2>1. Cardinality(late) \in Nat
    BY FS_CardinalityType DEF Inv, Shape
  <2>2. CASE thread_exit
    BY <2>1, <2>2, CommittedFinite DEF Inv, Counted, InterruptBounded
  <2>3. CASE ~ thread_exit
    BY <2>3, FS_EmptySet, CommittedFinite DEF Inv, Counted, InterruptBounded
  <2> QED
    BY <2>2, <2>3
<1> QED
  BY <1>1, InitInv, NextInv, PTL DEF Spec

-----------------------------------------------------------------------------
(* Where the jobs are *)

\* No job is twice in q; break jobs may be.
Unique(q) == \A i, k \in DOMAIN q : q[i] = q[k] /\ q[i] # Break => i = k

HeldJobs == UNION {Held(w) : w \in Workers}

\* The jobs that were queued and not yet collected.
Flight == Queued(input_queue) \cup Queued(output_queue) \cup HeldJobs

\* No job is in two places, or twice in one.
OnePlace ==
    /\ Unique(input_queue) /\ Unique(output_queue)
    /\ Queued(input_queue) \cap Queued(output_queue) = {}
    /\ \A w \in Workers : job[w] \notin Queued(input_queue) \cup Queued(output_queue)
    /\ \A v, w \in Workers : job[v] = job[w] /\ job[v] # Break => v = w

\* As many jobs are in flight as were queued and not collected.
Flying ==
    /\ Flight \subseteq Dispatched
    /\ Cardinality(Flight) + collected = jobs

\* A worker has a job from the moment it takes one until it gives it back.
Busy == \A w \in Workers : job[w] # Break <=> pc[w] \in {"check", "run", "running", "raised"}

\* All jobs are queued before any is collected, each result is counted once.
Phased ==
    /\ main # "dispatch" => jobs = NJobs
    /\ \A v \in Verdicts : tally[v] <= collected

JobInv == TypeOK /\ Busy /\ OnePlace /\ Flying /\ Phased

\* The places in the queue, and what is in them.
LEMMA QueuePlaces ==
    ASSUME NEW S, NEW q \in Seq(S)
    PROVE  /\ Len(q) \in Nat /\ DOMAIN q = 1 .. Len(q)
           /\ \A x : x \in Queued(q) <=> x \in Job /\ \E i \in 1 .. Len(q) : q[i] = x
           /\ q # <<>> => Head(q) = q[1] /\ Len(q) >= 1 /\ q[1] \in S
<1>1. Len(q) \in Nat /\ DOMAIN q = 1 .. Len(q)
  BY LenProperties
<1>2. q # <<>> => Head(q) = q[1] /\ Len(q) >= 1 /\ q[1] \in S
  BY HeadTailProperties, EmptySeq, ElementOfSeq, <1>1
<1> QED
  BY <1>1, <1>2 DEF Queued

\* Taking the first element out of a queue without duplicates.
LEMMA TailPlaces ==
    ASSUME NEW S, NEW q \in Seq(S), q # <<>>, Unique(q), Break \notin Job
    PROVE  /\ Unique(Tail(q))
           /\ Queued(Tail(q)) = Queued(q) \ {Head(q)}
           /\ Head(q) \in Job => Head(q) \in Queued(q)
           /\ Head(q) \in S
<1> DEFINE n == Len(q)
           t == Tail(q)
<1>1. /\ n \in Nat /\ n >= 1 /\ DOMAIN q = 1 .. n
      /\ Head(q) = q[1] /\ q[1] \in S
      /\ \A x : x \in Queued(q) <=> x \in Job /\ \E i \in 1 .. n : q[i] = x
  BY QueuePlaces
<1>2. t \in Seq(S) /\ Len(t) = n - 1 /\ \A i \in 1 .. Len(t) : t[i] = q[i + 1]
  BY HeadTailProperties
<1>3. /\ DOMAIN t = 1 .. n - 1
      /\ \A x : x \in Queued(t) <=> x \in Job /\ \E i \in 1 .. n - 1 : t[i] = x
  <2> HIDE DEF t
  <2>1. /\ DOMAIN t = 1 .. Len(t)
        /\ \A x : x \in Queued(t) <=> x \in Job /\ \E i \in 1 .. Len(t) : t[i] = x
    BY <1>2, QueuePlaces
  <2> QED
    BY <1>2, <2>1
<1> HIDE DEF n, t
<1>4. \A i \in 1 .. n - 1 : i + 1 \in 1 .. n /\ t[i] = q[i + 1] /\ i + 1 # 1
  BY <1>1, <1>2
<1>5. \A k \in 1 .. n : k = 1 \/ (k - 1 \in 1 .. n - 1 /\ q[k] = t[k - 1])
  <2> SUFFICES ASSUME NEW k \in 1 .. n, k # 1
               PROVE  k - 1 \in 1 .. n - 1 /\ q[k] = t[k - 1]
    OBVIOUS
  <2>1. k - 1 \in 1 .. n - 1 /\ (k - 1) + 1 = k
    BY <1>1
  <2> QED
    BY <1>4, <2>1
<1>6. Unique(t)
  <2> SUFFICES ASSUME NEW i \in 1 .. n - 1, NEW k \in 1 .. n - 1, t[i] = t[k], t[i] # Break
               PROVE  i = k
    BY <1>3 DEF Unique
  <2>1. i + 1 = k + 1
    BY <1>1, <1>4 DEF Unique
  <2> QED
    BY <1>1, <2>1
<1>7. \A x : x \in Queued(t) <=> x \in Queued(q) \ {q[1]}
  <2> TAKE x
  <2>1. ASSUME x \in Queued(t) PROVE x \in Queued(q) \ {q[1]}
    <3>1. PICK i \in 1 .. n - 1 : x \in Job /\ t[i] = x
      BY <1>3, <2>1
    <3>2. x \in Queued(q)
      BY <1>1, <1>4, <3>1
    <3>3. 1 \in 1 .. n /\ x # Break
      BY <1>1, <3>1
    <3>4. i + 1 \in 1 .. n /\ i + 1 # 1 /\ q[i + 1] = x
      BY <1>4, <3>1
    <3>5. x # q[1]
      BY <1>1, <3>3, <3>4 DEF Unique
    <3> QED
      BY <3>2, <3>5
  <2>2. ASSUME x \in Queued(q) \ {q[1]} PROVE x \in Queued(t)
    <3>1. PICK k \in 1 .. n : x \in Job /\ q[k] = x
      BY <1>1, <2>2
    <3>2. k # 1
      BY <2>2, <3>1
    <3> QED
      BY <1>3, <1>5, <3>1, <3>2
  <2> QED
    BY <2>1, <2>2
<1>8. Head(q) \in Job => Head(q) \in Queued(q)
  <2>1. 1 \in 1 .. n
    BY <1>1
  <2> QED
    BY <1>1, <2>1
<1> QED
  BY <1>1, <1>6, <1>7, <1>8 DEF t

\* Adding an element that is not in the queue.
LEMMA AppendPlaces ==
    ASSUME NEW S, NEW q \in Seq(S), Unique(q), NEW x \in S, x \notin Queued(q),
           x \in Job \cup {Break}, Break \notin Job
    PROVE  /\ Unique(Append(q, x))
           /\ Queued(Append(q, x)) = Queued(q) \cup ({x} \cap Job)
<1> DEFINE n == Len(q)
           a == Append(q, x)
<1>1. /\ n \in Nat /\ DOMAIN q = 1 .. n
      /\ \A y : y \in Queued(q) <=> y \in Job /\ \E i \in 1 .. n : q[i] = y
  BY QueuePlaces
<1>2. /\ a \in Seq(S) /\ Len(a) = n + 1 /\ a[n + 1] = x
      /\ \A i \in 1 .. n : a[i] = q[i]
  BY AppendProperties
<1>3. /\ DOMAIN a = 1 .. n + 1
      /\ \A y : y \in Queued(a) <=> y \in Job /\ \E i \in 1 .. n + 1 : a[i] = y
  <2> HIDE DEF a
  <2>1. /\ DOMAIN a = 1 .. Len(a)
        /\ \A y : y \in Queued(a) <=> y \in Job /\ \E i \in 1 .. Len(a) : a[i] = y
    BY <1>2, QueuePlaces
  <2> QED
    BY <1>2, <2>1
<1> HIDE DEF n, a
<1>4. \A i \in 1 .. n + 1 : i \in 1 .. n \/ i = n + 1
  BY <1>1
<1>5. n + 1 \in 1 .. n + 1 /\ \A i \in 1 .. n : i \in 1 .. n + 1
  BY <1>1
<1>6. Unique(a)
  <2> SUFFICES ASSUME NEW i \in 1 .. n + 1, NEW k \in 1 .. n + 1, a[i] = a[k], a[i] # Break
               PROVE  i = k
    BY <1>3 DEF Unique
  <2>1. CASE i \in 1 .. n /\ k \in 1 .. n
    BY <1>1, <1>2, <2>1 DEF Unique
  <2>2. CASE i = n + 1 /\ k \in 1 .. n
    BY <1>1, <1>2, <2>2
  <2>3. CASE k = n + 1 /\ i \in 1 .. n
    BY <1>1, <1>2, <2>3
  <2> QED
    BY <1>4, <2>1, <2>2, <2>3
<1>7. \A y : y \in Queued(a) <=> y \in Queued(q) \cup ({x} \cap Job)
  BY <1>1, <1>2, <1>3, <1>4, <1>5
<1> QED
  BY <1>6, <1>7 DEF a

\* Facts used in every step.
LEMMA JobNumbers ==
    ASSUME TypeOK
    PROVE  /\ Break \notin Job /\ NJobs \in Nat
           /\ jobs \in Nat /\ collected \in Nat /\ Dispatched \subseteq Job
           /\ IsFiniteSet(Dispatched) /\ Cardinality(Dispatched) = jobs
           /\ \A x : x \in HeldJobs <=> x \in Job /\ \E w \in Workers : job[w] = x
<1>1. NJobs \in Nat /\ jobs \in 0 .. NJobs /\ collected \in 0 .. NJobs
  BY TestPyAssumption DEF TypeOK
<1>2. Break \notin Job /\ jobs \in Nat /\ collected \in Nat /\ Dispatched \subseteq Job
  BY <1>1 DEF Break, Job, Dispatched
<1>3. IsFiniteSet(Dispatched) /\ Cardinality(Dispatched) = jobs
  <2>1. 1 \in Int /\ jobs \in Int
    BY <1>1
  <2>2. IsFiniteSet(1 .. jobs) /\ Cardinality(1 .. jobs) = IF 1 > jobs THEN 0 ELSE jobs - 1 + 1
    BY <2>1, FS_Interval
  <2> QED
    BY <1>1, <2>2 DEF Dispatched
<1>4. \A x : x \in HeldJobs <=> x \in Job /\ \E w \in Workers : job[w] = x
  BY DEF HeldJobs, Held
<1> QED
  BY <1>1, <1>2, <1>3, <1>4

LEMMA FlightFinite ==
    ASSUME TypeOK, Flying
    PROVE  IsFiniteSet(Flight) /\ Cardinality(Flight) \in Nat
BY JobNumbers, FS_Subset, FS_CardinalityType DEF Flying

\* A worker takes a job, or a break job.
LEMMA GetPlaces ==
    ASSUME TypeOK, OnePlace, NEW w \in Workers, Get(w), job[w] = Break
    PROVE  /\ OnePlace' /\ Flight' = Flight
           /\ Head(input_queue) \in Job \cup {Break}
           /\ input_queue' \in Seq(Job \cup {Break})
           /\ job' \in [Workers -> Job \cup {Break}]
<1> DEFINE h == Head(input_queue)
           I == Queued(input_queue)
           O == Queued(output_queue)
<1>1. /\ input_queue \in Seq(Job \cup {Break}) /\ input_queue # <<>>
      /\ input_queue' = Tail(input_queue)
      /\ job \in [Workers -> Job \cup {Break}] /\ job' = [job EXCEPT ![w] = h]
      /\ output_queue' = output_queue
  BY DEF TypeOK, Get
<1>2. /\ Unique(input_queue') /\ Queued(input_queue') = I \ {h}
      /\ h \in Job => h \in I
      /\ h \in Job \cup {Break}
  BY <1>1, JobNumbers, TailPlaces DEF OnePlace
<1>3. input_queue' \in Seq(Job \cup {Break})
  BY <1>1, HeadTailProperties
<1>4. job' \in [Workers -> Job \cup {Break}]
  BY <1>1, <1>2
<1>5. Break \notin Job /\ I \subseteq Job /\ O \subseteq Job /\ I \cap O = {}
  BY JobNumbers DEF Queued, OnePlace
<1> HIDE DEF h, I, O
<1>6. \A v \in Workers : job'[v] = IF v = w THEN h ELSE job[v]
  BY <1>1
<1>7. /\ \A v \in Workers : job[v] \notin I /\ job[v] \notin O
      /\ \A u, v \in Workers : job[u] = job[v] /\ job[u] # Break => u = v
      /\ Unique(output_queue)
  BY DEF OnePlace, I, O
<1>8. \A v \in Workers : job'[v] \notin (I \ {h}) \cup O
  BY <1>2, <1>5, <1>6, <1>7
<1>9. \A u, v \in Workers : job'[u] = job'[v] /\ job'[u] # Break => u = v
  BY <1>2, <1>6, <1>7
<1>10. OnePlace'
  BY <1>1, <1>2, <1>5, <1>7, <1>8, <1>9 DEF OnePlace, I, O
<1>11. \A x : x \in HeldJobs' <=> x \in HeldJobs \cup ({h} \cap Job)
  <2>1. \A x : x \in HeldJobs <=> x \in Job /\ \E v \in Workers : job[v] = x
    BY JobNumbers
  <2>2. \A x : x \in HeldJobs' <=> x \in Job /\ \E v \in Workers : job'[v] = x
    BY DEF HeldJobs, Held
  <2> QED
    BY <1>5, <1>6, <2>1, <2>2
<1>12. Flight' = Flight
  BY <1>1, <1>2, <1>5, <1>11 DEF Flight, I, O
<1> QED
  BY <1>2, <1>3, <1>4, <1>10, <1>12 DEF h

\* A worker gives a job back.
LEMMA PutBackPlaces ==
    ASSUME TypeOK, OnePlace, NEW w \in Workers, job[w] \in Job, PutBack(w),
           input_queue' = input_queue
    PROVE  /\ OnePlace' /\ Flight' = Flight
           /\ Queued(output_queue') = Queued(output_queue) \cup {job[w]}
           /\ output_queue' \in Seq(Job)
           /\ job' \in [Workers -> Job \cup {Break}]
<1> DEFINE j == job[w]
           I == Queued(input_queue)
           O == Queued(output_queue)
<1>1. /\ output_queue \in Seq(Job) /\ output_queue' = Append(output_queue, j)
      /\ job \in [Workers -> Job \cup {Break}] /\ job' = [job EXCEPT ![w] = Break]
  BY DEF TypeOK, PutBack
<1>2. /\ \A v \in Workers : job[v] \notin I /\ job[v] \notin O
      /\ \A u, v \in Workers : job[u] = job[v] /\ job[u] # Break => u = v
      /\ Unique(input_queue) /\ Unique(output_queue) /\ I \cap O = {}
  BY DEF OnePlace
<1>3. Break \notin Job /\ I \subseteq Job /\ O \subseteq Job
  BY JobNumbers DEF Queued
<1>4. /\ Unique(output_queue') /\ Queued(output_queue') = O \cup {j}
      /\ output_queue' \in Seq(Job)
  <2>1. j \notin Queued(output_queue) /\ j \in Job /\ j \in Job \cup {Break}
    BY <1>2
  <2>2. /\ Unique(Append(output_queue, j))
        /\ Queued(Append(output_queue, j)) = Queued(output_queue) \cup ({j} \cap Job)
    BY <1>1, <1>2, <1>3, <2>1, AppendPlaces
  <2>3. Append(output_queue, j) \in Seq(Job)
    BY <1>1, <2>1, AppendProperties
  <2> QED
    BY <1>1, <2>1, <2>2, <2>3
<1>5. job' \in [Workers -> Job \cup {Break}]
  BY <1>1
<1> HIDE DEF I, O
<1>6. \A v \in Workers : job'[v] = IF v = w THEN Break ELSE job[v]
  BY <1>1
<1>7. \A v \in Workers : job'[v] \notin I \cup (O \cup {j})
  BY <1>2, <1>3, <1>6
<1>8. \A u, v \in Workers : job'[u] = job'[v] /\ job'[u] # Break => u = v
  BY <1>2, <1>6
<1>9. OnePlace'
  <2>1. I \cap (O \cup {j}) = {}
    BY <1>2
  <2> QED
    BY <1>2, <1>4, <1>7, <1>8, <2>1 DEF OnePlace, I, O
<1>10. \A x : x \in HeldJobs' <=> x \in HeldJobs /\ x # j
  <2>1. \A x : x \in HeldJobs <=> x \in Job /\ \E v \in Workers : job[v] = x
    BY JobNumbers
  <2>2. \A x : x \in HeldJobs' <=> x \in Job /\ \E v \in Workers : job'[v] = x
    BY DEF HeldJobs, Held
  <2> QED
    BY <1>2, <1>3, <1>6, <2>1, <2>2
<1>11. j \in HeldJobs
  BY JobNumbers
<1>12. Flight' = Flight
  BY <1>4, <1>10, <1>11 DEF Flight, I, O
<1> QED
  BY <1>4, <1>5, <1>9, <1>12 DEF O

\* The main thread takes a job from the output queue.
LEMMA ReceivePlaces ==
    ASSUME TypeOK, OnePlace, NEW j \in Job, Receive(j), UNCHANGED <<input_queue, job>>
    PROVE  /\ OnePlace' /\ Flight' = Flight \ {j}
           /\ j \in Queued(output_queue)
           /\ Queued(output_queue') = Queued(output_queue) \ {j}
           /\ output_queue' \in Seq(Job)
<1> DEFINE I == Queued(input_queue)
           O == Queued(output_queue)
<1>1. /\ output_queue \in Seq(Job) /\ output_queue # <<>>
      /\ output_queue' = Tail(output_queue) /\ j = Head(output_queue)
  BY DEF TypeOK, Receive
<1>2. /\ \A v \in Workers : job[v] \notin I /\ job[v] \notin O
      /\ Unique(input_queue) /\ Unique(output_queue) /\ I \cap O = {}
  BY DEF OnePlace
<1>3. /\ Unique(output_queue') /\ Queued(output_queue') = O \ {j} /\ j \in O
  <2>1. Break \notin Job
    BY JobNumbers
  <2> QED
    BY <1>1, <1>2, <2>1, TailPlaces
<1>4. output_queue' \in Seq(Job)
  BY <1>1, HeadTailProperties
<1>5. OnePlace'
  BY <1>2, <1>3 DEF OnePlace
<1>6. j \notin HeldJobs /\ HeldJobs' = HeldJobs
  BY <1>2, <1>3, JobNumbers DEF HeldJobs, Held
<1> HIDE DEF I, O
<1>7. Flight' = Flight \ {j}
  BY <1>2, <1>3, <1>6 DEF Flight, I, O
<1> QED
  BY <1>3, <1>4, <1>5, <1>7 DEF O

\* The main thread queues a new job, or a break job.
LEMMA QueuePlacesKept ==
    ASSUME TypeOK, OnePlace, Flying, NEW x, x = Break \/ (x \in Job /\ x \notin Dispatched),
           input_queue' = Append(input_queue, x), UNCHANGED <<output_queue, job>>
    PROVE  /\ OnePlace' /\ Flight' = Flight \cup ({x} \cap Job)
           /\ input_queue' \in Seq(Job \cup {Break})
<1> DEFINE I == Queued(input_queue)
           O == Queued(output_queue)
<1>1. /\ input_queue \in Seq(Job \cup {Break}) /\ x \in Job \cup {Break}
      /\ Break \notin Job
  BY JobNumbers DEF TypeOK
<1>2. /\ \A v \in Workers : job[v] \notin I /\ job[v] \notin O
      /\ Unique(input_queue) /\ Unique(output_queue) /\ I \cap O = {}
  BY DEF OnePlace
<1>3. x \notin I /\ x \notin O /\ x \notin HeldJobs
  BY <1>1 DEF Flying, Flight, Queued, HeldJobs, Held
<1>4. /\ Unique(input_queue') /\ Queued(input_queue') = I \cup ({x} \cap Job)
      /\ input_queue' \in Seq(Job \cup {Break})
  <2>1. x \notin Queued(input_queue)
    BY <1>3
  <2>2. Append(input_queue, x) \in Seq(Job \cup {Break})
    BY <1>1, AppendProperties
  <2>3. /\ Unique(Append(input_queue, x))
        /\ Queued(Append(input_queue, x)) = Queued(input_queue) \cup ({x} \cap Job)
    BY <1>1, <1>2, <2>1, AppendPlaces
  <2> QED
    BY <2>2, <2>3
<1>5. \A v \in Workers : job[v] \notin I \cup ({x} \cap Job)
  BY <1>2, <1>3, JobNumbers
<1> HIDE DEF I, O
<1>6. OnePlace'
  BY <1>2, <1>3, <1>4, <1>5 DEF OnePlace, I, O
<1>7. HeldJobs' = HeldJobs
  BY DEF HeldJobs, Held
<1>8. Flight' = Flight \cup ({x} \cap Job)
  BY <1>4, <1>7 DEF Flight, I, O
<1> QED
  BY <1>4, <1>6, <1>8

LEMMA SamePlaces ==
    ASSUME OnePlace, UNCHANGED <<input_queue, output_queue, job>>
    PROVE  OnePlace' /\ Flight' = Flight
BY DEF OnePlace, Flight, HeldJobs, Held

LEMMA SameFlight ==
    ASSUME Flying, Flight' = Flight, UNCHANGED <<jobs, collected>>
    PROVE  Flying'
BY DEF Flying, Dispatched

LEMMA SamePhase ==
    ASSUME Phased, UNCHANGED <<main, jobs, collected, tally>>
    PROVE  Phased'
BY DEF Phased

LEMMA JobInit == Init => JobInv
<1> SUFFICES ASSUME Init PROVE JobInv
  OBVIOUS
<1>1. /\ input_queue = <<>> /\ output_queue = <<>> /\ collected = 0 /\ jobs = 0
      /\ job = [w \in Workers |-> Break] /\ pc = [w \in Workers |-> "get"]
      /\ main = "dispatch" /\ tally = [v \in Verdicts |-> 0] /\ report = <<>>
  BY DEF Init
<1>2. TypeOK
  <2>1. /\ input_queue \in Seq(Job \cup {Break}) /\ output_queue \in Seq(Job)
        /\ report \in Seq(Verdicts)
    BY <1>1, EmptySeq
  <2>2. Cardinality(Workers) \in Nat /\ NJobs \in Nat
    BY TestPyAssumption, FS_CardinalityType
  <2>3. thread_exit \in BOOLEAN
    BY Zenon DEF Init
  <2> QED
    BY <2>1, <2>2, <2>3 DEF Init, TypeOK, Break
<1>3. Busy
  BY <1>1 DEF Busy
<1>4. Queued(input_queue) = {} /\ Queued(output_queue) = {}
  BY <1>1, EmptySeq DEF Queued
<1>5. OnePlace
  BY <1>1, <1>4, EmptySeq DEF OnePlace, Unique
<1>6. HeldJobs = {}
  BY <1>1, <1>2, JobNumbers
<1>7. Flying
  <2>1. Flight = {} /\ Cardinality(Flight) = 0
    BY <1>4, <1>6, FS_EmptySet DEF Flight
  <2> QED
    BY <1>1, <2>1 DEF Flying
<1>8. Phased
  BY <1>1 DEF Phased
<1> QED
  BY <1>2, <1>3, <1>5, <1>7, <1>8 DEF JobInv

LEMMA GetJob ==
    ASSUME JobInv, NEW w \in Workers, Get(w)
    PROVE  JobInv' /\ Flight' = Flight
<1> DEFINE h == Head(input_queue)
<1>1. TypeOK /\ Busy /\ OnePlace /\ Flying /\ Phased
  BY DEF JobInv
<1>2. /\ pc[w] = "get" /\ job' = [job EXCEPT ![w] = h]
      /\ pc' = [pc EXCEPT ![w] = IF h = Break THEN "exited" ELSE "check"]
  BY DEF Get
<1>3. job[w] = Break
  BY <1>1, <1>2 DEF Busy
<1>4. /\ OnePlace' /\ Flight' = Flight /\ h \in Job \cup {Break}
      /\ input_queue' \in Seq(Job \cup {Break})
      /\ job' \in [Workers -> Job \cup {Break}]
  BY <1>1, <1>3, GetPlaces
<1> HIDE DEF h
<1>5. TypeOK'
  BY <1>1, <1>2, <1>4 DEF TypeOK, Get, jobVars, resultVars, mainVars
<1>6. Busy'
  BY <1>1, <1>2 DEF Busy, TypeOK
<1>7. Flying'
  BY <1>1, <1>4, SameFlight DEF Get, mainVars
<1>8. Phased'
  BY <1>1, SamePhase DEF Get, mainVars
<1> QED
  BY <1>4, <1>5, <1>6, <1>7, <1>8 DEF JobInv

\* What a worker does with its job before it gives it back.
LEMMA HoldJob ==
    ASSUME JobInv, NEW w \in Workers, pc[w] \in {"check", "run", "running"},
           NEW p \in {"run", "running", "raised"}, pc' = [pc EXCEPT ![w] = p],
           ran' \subseteq Job, late' \subseteq Job,
           UNCHANGED <<jobVars, resultVars, queueVars, job, mainVars, thread_exit>>
    PROVE  JobInv' /\ Flight' = Flight
<1>1. TypeOK /\ Busy /\ OnePlace /\ Flying /\ Phased
  BY DEF JobInv
<1>2. OnePlace' /\ Flight' = Flight
  BY <1>1, SamePlaces DEF queueVars
<1>3. TypeOK'
  BY <1>1 DEF TypeOK, jobVars, resultVars, queueVars, mainVars
<1>4. Busy'
  BY <1>1 DEF Busy, TypeOK
<1>5. Flying'
  BY <1>1, <1>2, SameFlight DEF mainVars
<1>6. Phased'
  BY <1>1, SamePhase DEF mainVars
<1> QED
  BY <1>2, <1>3, <1>4, <1>5, <1>6 DEF JobInv

\* A worker gives its job back, with or without a result.
LEMMA GiveJobBack ==
    ASSUME JobInv, NEW w \in Workers, pc[w] \in {"check", "running"}, PutBack(w),
           is_break' \subseteq Job,
           returncode' \in [Job -> {0, 1, 2, Crashed}],
           xmlFile' \in [Job -> {"PASS", "FAIL", "none"}],
           UNCHANGED <<jobVars, input_queue, ran, late, mainVars, thread_exit>>
    PROVE  /\ JobInv' /\ Flight' = Flight /\ job[w] \in Job
           /\ Queued(output_queue') = Queued(output_queue) \cup {job[w]}
<1>1. TypeOK /\ Busy /\ OnePlace /\ Flying /\ Phased
  BY DEF JobInv
<1>2. job[w] \in Job
  BY <1>1 DEF Busy, TypeOK
<1>3. /\ OnePlace' /\ Flight' = Flight
      /\ Queued(output_queue') = Queued(output_queue) \cup {job[w]}
      /\ output_queue' \in Seq(Job) /\ job' \in [Workers -> Job \cup {Break}]
  BY <1>1, <1>2, PutBackPlaces
<1>4. TypeOK'
  BY <1>1, <1>3 DEF TypeOK, PutBack, jobVars, mainVars
<1>5. Busy'
  BY <1>1 DEF Busy, TypeOK, PutBack
<1>6. Flying'
  BY <1>1, <1>3, SameFlight DEF mainVars
<1>7. Phased'
  BY <1>1, SamePhase DEF mainVars
<1> QED
  BY <1>2, <1>3, <1>4, <1>5, <1>6, <1>7 DEF JobInv

LEMMA FinishTyped ==
    ASSUME TypeOK, NEW w \in Workers, Finish(w)
    PROVE  /\ returncode' \in [Job -> {0, 1, 2, Crashed}]
           /\ xmlFile' \in [Job -> {"PASS", "FAIL", "none"}]
           /\ \A j \in Job : j # job[w] => returncode'[j] = returncode[j]
<1>1. /\ returncode \in [Job -> {0, 1, 2, Crashed}]
      /\ xmlFile \in [Job -> {"PASS", "FAIL", "none"}]
  BY DEF TypeOK
<1>2. PICK o \in Outcomes :
          /\ returncode' = [returncode EXCEPT ![job[w]] = o.rc]
          /\ xmlFile' = [xmlFile EXCEPT ![job[w]] = IF IsSuite(job[w]) THEN o.xml ELSE "none"]
  BY DEF Finish
<1>3. o.rc \in {0, 1, 2, Crashed} /\ o.xml \in {"PASS", "FAIL", "none"}
  BY DEF Outcomes
<1> QED
  BY <1>1, <1>2, <1>3

LEMMA DispatchJob ==
    ASSUME JobInv, NEW j \in Job, Dispatch(j)
    PROVE  /\ JobInv' /\ Flight' = Flight \cup {j}
           /\ Dispatched' = Dispatched \cup {j} /\ j \notin Dispatched
<1>1. TypeOK /\ Busy /\ OnePlace /\ Flying /\ Phased
  BY DEF JobInv
<1>2. /\ j = jobs + 1 /\ jobs' = j /\ input_queue' = Append(input_queue, j)
      /\ UNCHANGED <<output_queue, job, pc, collected, main, tally>> /\ main = "dispatch"
  BY DEF Dispatch, workerVars
<1>3. jobs \in Nat /\ collected \in Nat /\ NJobs \in Nat
  BY <1>1, JobNumbers
<1>4. j \notin Dispatched /\ Dispatched' = Dispatched \cup {j}
  BY <1>2, <1>3 DEF Dispatched
<1>5. /\ OnePlace' /\ Flight' = Flight \cup ({j} \cap Job)
      /\ input_queue' \in Seq(Job \cup {Break})
  BY <1>1, <1>2, <1>4, QueuePlacesKept
<1>6. Flight' = Flight \cup {j} /\ j \notin Flight
  BY <1>1, <1>4, <1>5 DEF Flying
<1>7. TypeOK'
  <2>1. jobs' \in 0 .. NJobs
    BY <1>2, <1>3 DEF Job
  <2> QED
    BY <1>1, <1>5, <2>1 DEF TypeOK, Dispatch, jobVars, resultVars, workerVars
<1>8. Busy'
  BY <1>1, <1>2 DEF Busy
<1>9. Flying'
  <2>1. IsFiniteSet(Flight) /\ Cardinality(Flight) \in Nat
    BY <1>1, FlightFinite
  <2>2. Cardinality(Flight') = Cardinality(Flight) + 1
    BY <1>6, <2>1, FS_AddElement
  <2>3. Cardinality(Flight) + collected = jobs /\ Flight \subseteq Dispatched
    BY <1>1 DEF Flying
  <2>4. Cardinality(Flight') + collected' = jobs'
    BY <1>2, <1>3, <2>1, <2>2, <2>3
  <2> QED
    BY <1>4, <1>6, <2>3, <2>4 DEF Flying
<1>10. Phased'
  BY <1>1, <1>2 DEF Phased
<1> QED
  BY <1>4, <1>5, <1>6, <1>7, <1>8, <1>9, <1>10 DEF JobInv

LEMMA SendBreakJob ==
    ASSUME JobInv, SendBreak
    PROVE  JobInv' /\ Flight' = Flight
<1>1. TypeOK /\ Busy /\ OnePlace /\ Flying /\ Phased
  BY DEF JobInv
<1>2. /\ input_queue' = Append(input_queue, Break) /\ jobs = NJobs
      /\ breaks < Cardinality(Workers) /\ breaks' = breaks + 1
      /\ main' \in {"dispatch", "collect"}
      /\ UNCHANGED <<output_queue, job, pc, collected, jobs, tally>>
  BY DEF SendBreak, BreaksWanted, workerVars
<1>3. Cardinality(Workers) \in Nat /\ breaks \in Nat /\ Break \notin Job
  BY <1>1, TestPyAssumption, FS_CardinalityType, JobNumbers DEF TypeOK
<1>4. /\ OnePlace' /\ Flight' = Flight \cup ({Break} \cap Job)
      /\ input_queue' \in Seq(Job \cup {Break})
  BY <1>1, <1>2, QueuePlacesKept
<1>5. Flight' = Flight
  BY <1>3, <1>4
<1>6. TypeOK'
  <2>1. breaks' \in 0 .. Cardinality(Workers)
    BY <1>2, <1>3
  <2>2. Cardinality(Workers)' = Cardinality(Workers)
    OBVIOUS
  <2> QED
    BY <1>1, <1>2, <1>4, <2>1, <2>2 DEF TypeOK, SendBreak, jobVars, resultVars, workerVars
<1>7. Busy'
  BY <1>1, <1>2 DEF Busy
<1>8. Flying'
  BY <1>1, <1>2, <1>5, SameFlight
<1>9. Phased'
  BY <1>1, <1>2 DEF Phased
<1> QED
  BY <1>4, <1>5, <1>6, <1>7, <1>8, <1>9 DEF JobInv

\* A job is collected, with or without a result.
LEMMA CollectJob ==
    ASSUME JobInv, NEW j \in Job, Receive(j),
           CollectBreak(j) \/ CollectResult(j) \/ CollectRaises(j),
           UNCHANGED <<jobVars, resultVars, input_queue, workerVars, thread_exit,
                       jobs, breaks, status>>
    PROVE  /\ JobInv' /\ Flight' = Flight \ {j}
           /\ j \in Queued(output_queue)
           /\ Queued(output_queue') = Queued(output_queue) \ {j}
           /\ main = "collect" /\ main' \in {"collect", "raised"}
           /\ \/ tally' = tally /\ j \in is_break
              \/ tally' = [tally EXCEPT ![Verdict(j)] = @ + 1] /\ j \notin is_break
<1>1. TypeOK /\ Busy /\ OnePlace /\ Flying /\ Phased
  BY DEF JobInv
<1>2. /\ main = "collect" /\ collected < jobs /\ collected' = collected + 1
      /\ UNCHANGED <<input_queue, job, pc, jobs>>
  BY DEF Receive, workerVars
<1>3. /\ OnePlace' /\ Flight' = Flight \ {j} /\ j \in Queued(output_queue)
      /\ Queued(output_queue') = Queued(output_queue) \ {j}
      /\ output_queue' \in Seq(Job)
  BY <1>1, <1>2, ReceivePlaces
<1>4. Verdict(j) \in Verdicts
  BY DEF Verdict, Verdicts
<1>5. /\ main' \in {"collect", "raised"}
      /\ \/ tally' = tally /\ j \in is_break
         \/ tally' = [tally EXCEPT ![Verdict(j)] = @ + 1] /\ j \notin is_break
  BY <1>2 DEF CollectBreak, CollectResult, CollectRaises
<1>6. jobs \in 0 .. NJobs /\ collected \in Nat /\ NJobs \in Nat
  BY <1>1, JobNumbers DEF TypeOK
<1>7. \A v \in Verdicts : tally'[v] \in Nat /\ tally'[v] <= collected'
  <2> SUFFICES ASSUME NEW v \in Verdicts
               PROVE  tally'[v] \in Nat /\ tally'[v] <= collected'
    OBVIOUS
  <2>1. tally[v] \in Nat /\ tally[v] <= collected
    BY <1>1 DEF TypeOK, Phased
  <2>2. tally'[v] = tally[v] \/ tally'[v] = tally[v] + 1
    BY <1>1, <1>5 DEF TypeOK
  <2> QED
    BY <1>2, <1>6, <2>1, <2>2
<1>8. report' \in Seq(Verdicts)
  <2>1. report \in Seq(Verdicts)
    BY <1>1 DEF TypeOK
  <2>2. CASE report' = report
    BY <2>1, <2>2
  <2>3. CASE CollectResult(j)
    <3>1. Entry(j) \in Verdicts
      <4>1. CASE CopiesFile(j)
        <5>1. xmlFile[j] \in {"PASS", "FAIL"}
          BY <1>1, <2>3, <4>1 DEF CollectResult, TypeOK
        <5> QED
          BY <4>1, <5>1 DEF Entry, Verdicts
      <4>2. CASE ~ CopiesFile(j)
        BY <1>4, <4>2 DEF Entry
      <4> QED
        BY <4>1, <4>2
    <3>2. report' = Append(report, Entry(j))
      BY <2>3 DEF CollectResult
    <3> QED
      BY <2>1, <3>1, <3>2, AppendProperties
  <2> QED
    BY <2>2, <2>3 DEF CollectBreak, CollectRaises
<1>9. TypeOK'
  <2>1. collected' \in 0 .. NJobs
    BY <1>2, <1>6
  <2>2. DOMAIN tally' = Verdicts /\ tally' = [v \in Verdicts |-> tally'[v]]
    BY <1>1, <1>5 DEF TypeOK
  <2>3. ASSUME NEW v \in Verdicts PROVE tally'[v] \in 0 .. NJobs
    BY <1>6, <1>7, <2>1
  <2>4. tally' \in [Verdicts -> 0 .. NJobs]
    BY <2>2, <2>3
  <2> QED
    BY <1>1, <1>2, <1>3, <1>5, <1>8, <2>1, <2>4
    DEF TypeOK, jobVars, resultVars, workerVars
<1>10. Busy'
  BY <1>1, <1>2 DEF Busy
<1>11. Flying'
  <2>1. IsFiniteSet(Flight) /\ Cardinality(Flight) \in Nat
    BY <1>1, FlightFinite
  <2>2. j \in Flight
    BY <1>3 DEF Flight
  <2>3. Cardinality(Flight') = Cardinality(Flight) - 1
    BY <1>3, <2>1, <2>2, FS_RemoveElement
  <2>4. Cardinality(Flight) + collected = jobs /\ Flight \subseteq Dispatched
    BY <1>1 DEF Flying
  <2>5. Cardinality(Flight') + collected' = jobs'
    BY <1>2, <1>6, <2>1, <2>3, <2>4
  <2> QED
    BY <1>2, <1>3, <2>4, <2>5 DEF Flying, Dispatched
<1>12. Phased'
  BY <1>1, <1>2, <1>7 DEF Phased
<1> QED
  BY <1>2, <1>3, <1>5, <1>9, <1>10, <1>11, <1>12 DEF JobInv

LEMMA JoinJob ==
    ASSUME JobInv, Join
    PROVE  JobInv' /\ Flight' = Flight
<1>1. TypeOK /\ Busy /\ OnePlace /\ Flying /\ Phased
  BY DEF JobInv
<1>2. /\ UNCHANGED <<input_queue, output_queue, job, pc, jobs, collected, tally>>
      /\ main = "collect"
  BY DEF Join, queueVars, workerVars
<1>3. OnePlace' /\ Flight' = Flight
  BY <1>1, <1>2, SamePlaces
<1>4. TypeOK'
  BY <1>1 DEF TypeOK, Join, jobVars, resultVars, queueVars, workerVars
<1>5. Busy'
  BY <1>1, <1>2 DEF Busy
<1>6. Flying'
  BY <1>1, <1>2, <1>3, SameFlight
<1>7. Phased'
  BY <1>1, <1>2 DEF Phased
<1> QED
  BY <1>3, <1>4, <1>5, <1>6, <1>7 DEF JobInv

\* SIGINT, and steps that change nothing.
LEMMA InterruptJob ==
    ASSUME JobInv, thread_exit' \in {thread_exit, TRUE},
           UNCHANGED <<jobVars, resultVars, queueVars, workerVars, mainVars>>
    PROVE  JobInv' /\ Flight' = Flight
<1>1. TypeOK /\ Busy /\ OnePlace /\ Flying /\ Phased
  BY DEF JobInv
<1>2. OnePlace' /\ Flight' = Flight
  BY <1>1, SamePlaces DEF queueVars, workerVars
<1>3. TypeOK'
  <2>1. thread_exit' \in BOOLEAN
    BY <1>1, Zenon DEF TypeOK
  <2> QED
    BY <1>1, <2>1 DEF TypeOK, jobVars, resultVars, queueVars, workerVars, mainVars
<1>4. Busy'
  BY <1>1 DEF Busy, workerVars
<1>5. Flying'
  BY <1>1, <1>2, SameFlight DEF mainVars
<1>6. Phased'
  BY <1>1, SamePhase DEF mainVars
<1> QED
  BY <1>2, <1>3, <1>4, <1>5, <1>6 DEF JobInv

\* The actions of Next, each with what it assumes.
LEMMA CheckCases ==
    ASSUME JobInv, NEW w \in Workers, Check(w)
    PROVE  /\ job[w] \in Job /\ JobInv' /\ Flight' = Flight
           /\ GiveBack(w) \/ Skip(w) =>
                 Queued(output_queue') = Queued(output_queue) \cup {job[w]}
<1>1. /\ pc[w] = "check" /\ TypeOK /\ Busy
      /\ UNCHANGED <<jobVars, input_queue, mainVars, thread_exit>>
  BY DEF Check, JobInv
<1>2. job[w] \in Job
  BY <1>1 DEF Busy, TypeOK
<1>3. CASE GiveBack(w) \/ Skip(w)
  <2>1. /\ PutBack(w) /\ is_break' \subseteq Job
        /\ UNCHANGED <<returncode, xmlFile, ran, late>>
    BY <1>1, <1>2, <1>3 DEF GiveBack, Skip, TypeOK, resultVars
  <2>2. /\ returncode' \in [Job -> {0, 1, 2, Crashed}]
        /\ xmlFile' \in [Job -> {"PASS", "FAIL", "none"}]
    BY <1>1, <2>1 DEF TypeOK
  <2> QED
    BY <1>1, <1>2, <2>1, <2>2, GiveJobBack
<1>4. CASE Launch(w)
  <2>1. /\ pc' = [pc EXCEPT ![w] = "run"] /\ ran' \subseteq Job /\ late' \subseteq Job
        /\ UNCHANGED <<resultVars, output_queue, job>>
    BY <1>1, <1>4 DEF Launch, TypeOK
  <2>2. JobInv' /\ Flight' = Flight
    <3>1. UNCHANGED <<jobVars, resultVars, queueVars, job, mainVars, thread_exit>>
      BY <1>1, <2>1 DEF queueVars
    <3>2. pc[w] \in {"check", "run", "running"} /\ "run" \in {"run", "running", "raised"}
      BY <1>1
    <3> QED
      BY <2>1, <3>1, <3>2, HoldJob
  <2>3. ~ (GiveBack(w) \/ Skip(w))
    BY <1>4 DEF Launch, GiveBack, Skip
  <2> QED
    BY <1>2, <2>2, <2>3
<1> QED
  BY <1>3, <1>4 DEF Check

LEMMA StartCases ==
    ASSUME JobInv, NEW w \in Workers, Start(w)
    PROVE  JobInv' /\ Flight' = Flight /\ job[w] \in Job
<1>1. /\ pc[w] = "run" /\ TypeOK /\ Busy /\ pc' = [pc EXCEPT ![w] = "running"]
      /\ UNCHANGED <<jobVars, resultVars, queueVars, job, mainVars, thread_exit>>
  BY DEF Start, JobInv
<1>2. job[w] \in Job
  BY <1>1 DEF Busy, TypeOK
<1>3. ran' \subseteq Job /\ late' \subseteq Job
  BY <1>1, <1>2 DEF Start, TypeOK
<1>4. pc[w] \in {"check", "run", "running"} /\ "running" \in {"run", "running", "raised"}
  BY <1>1
<1> QED
  BY <1>1, <1>2, <1>3, <1>4, HoldJob

LEMMA RaiseCases ==
    ASSUME JobInv, NEW w \in Workers, Raise(w)
    PROVE  JobInv' /\ Flight' = Flight
<1>1. /\ pc[w] \in {"check", "run", "running"} /\ "raised" \in {"run", "running", "raised"}
      /\ pc' = [pc EXCEPT ![w] = "raised"]
      /\ UNCHANGED <<jobVars, resultVars, queueVars, job, ran, late, mainVars, thread_exit>>
  BY DEF Raise
<1>2. ran' \subseteq Job /\ late' \subseteq Job
  BY <1>1 DEF JobInv, TypeOK
<1> QED
  BY <1>1, <1>2, HoldJob

LEMMA FinishCases ==
    ASSUME JobInv, NEW w \in Workers, Finish(w)
    PROVE  /\ JobInv' /\ Flight' = Flight /\ job[w] \in Job
           /\ Queued(output_queue') = Queued(output_queue) \cup {job[w]}
<1>1. /\ pc[w] \in {"check", "running"} /\ PutBack(w)
      /\ UNCHANGED <<jobVars, is_break, input_queue, ran, late, mainVars, thread_exit>>
  BY DEF Finish
<1>2. TypeOK /\ is_break' \subseteq Job
  BY <1>1 DEF JobInv, TypeOK
<1> QED
  BY <1>1, <1>2, FinishTyped, GiveJobBack

LEMMA DispatchCases ==
    ASSUME JobInv, DispatchSuite \/ DispatchExample
    PROVE  \E j \in Job : Dispatch(j)
<1>1. nSuites \in 0 .. NJobs /\ NJobs \in Nat
  BY TestPyAssumption DEF JobInv, TypeOK
<1>2. 1 .. nSuites \subseteq Job /\ nSuites + 1 .. NJobs \subseteq Job
  BY <1>1 DEF Job
<1> QED
  BY <1>2 DEF DispatchSuite, DispatchExample

LEMMA CollectCases ==
    ASSUME JobInv, Collect
    PROVE  \E j \in Job :
               /\ Receive(j)
               /\ CollectBreak(j) \/ CollectResult(j) \/ CollectRaises(j)
               /\ UNCHANGED <<jobVars, resultVars, input_queue, workerVars, thread_exit,
                              jobs, breaks, status>>
BY DEF Collect, CollectBreak, CollectResult, CollectRaises

LEMMA JobNext == JobInv /\ [Next]_vars => JobInv'
<1> SUFFICES ASSUME JobInv, [Next]_vars PROVE JobInv'
  OBVIOUS
<1>1. ASSUME NEW w \in Workers, WorkerStep(w) PROVE JobInv'
  BY <1>1, GetJob, CheckCases, StartCases, FinishCases DEF WorkerStep
<1>2. ASSUME NEW w \in Workers, Raise(w) PROVE JobInv'
  BY <1>2, RaiseCases
<1>3. CASE DispatchSuite \/ DispatchExample
  BY <1>3, DispatchCases, DispatchJob
<1>4. CASE SendBreak
  BY <1>4, SendBreakJob
<1>5. CASE Collect
  BY <1>5, CollectCases, CollectJob
<1>6. CASE Join
  BY <1>6, JoinJob
<1>7. CASE Interrupt
  BY <1>7, InterruptJob DEF Interrupt
<1>8. CASE UNCHANGED vars
  BY <1>8, InterruptJob DEF vars
<1> QED
  BY <1>1, <1>2, <1>3, <1>4, <1>5, <1>6, <1>7, <1>8 DEF Next, MainStep

\* As many places of a queue hold jobs as there are jobs in it.
LEMMA PlacesCounted ==
    ASSUME NEW S, NEW q \in Seq(S), S \subseteq Job \cup {Break}, Unique(q), Break \notin Job
    PROVE  LET P == {i \in DOMAIN q : q[i] # Break}
           IN  IsFiniteSet(P) /\ IsFiniteSet(Queued(q)) /\ Cardinality(Queued(q)) = Cardinality(P)
<1> DEFINE P == {i \in DOMAIN q : q[i] # Break}
           f == [i \in P |-> q[i]]
<1>1. /\ Len(q) \in Nat /\ DOMAIN q = 1 .. Len(q)
      /\ \A x : x \in Queued(q) <=> x \in Job /\ \E i \in 1 .. Len(q) : q[i] = x
  BY QueuePlaces
<1>2. IsFiniteSet(P)
  <2>1. IsFiniteSet(1 .. Len(q))
    BY <1>1, FS_Interval
  <2> QED
    BY <1>1, <2>1, FS_Subset
<1>3. \A i \in P : q[i] \in Queued(q)
  <2>1. \A i \in 1 .. Len(q) : q[i] \in S
    BY ElementOfSeq
  <2> QED
    BY <1>1, <2>1
<1>4. f \in [P -> Queued(q)] /\ \A i \in P : f[i] = q[i]
  BY <1>3
<1>5. \A i, k \in P : f[i] = f[k] => i = k
  BY <1>4 DEF Unique
<1>6. \A x \in Queued(q) : \E i \in P : f[i] = x
  BY <1>1, <1>4
<1> HIDE DEF f
<1>7. f \in Bijection(P, Queued(q))
  <2> HIDE DEF P
  <2>1. f \in Injection(P, Queued(q))
    BY <1>4, <1>5, Zenon DEF Injection, IsInjective
  <2>2. f \in Surjection(P, Queued(q))
    BY <1>4, <1>6, Zenon DEF Surjection
  <2> QED
    BY <2>1, <2>2, Zenon DEF Bijection
<1>8. ExistsBijection(P, Queued(q))
  BY <1>7, Zenon DEF ExistsBijection
<1> QED
  BY <1>2, <1>8, FS_Bijection

\* As many workers hold a job as there are jobs held.
LEMMA HoldersCounted ==
    ASSUME TypeOK, OnePlace
    PROVE  LET W == {w \in Workers : Held(w) # {}}
           IN  IsFiniteSet(W) /\ IsFiniteSet(HeldJobs) /\ Cardinality(HeldJobs) = Cardinality(W)
<1> DEFINE W == {w \in Workers : Held(w) # {}}
           f == [w \in W |-> job[w]]
<1>1. /\ Break \notin Job /\ job \in [Workers -> Job \cup {Break}]
      /\ \A x : x \in HeldJobs <=> x \in Job /\ \E w \in Workers : job[w] = x
  BY JobNumbers DEF TypeOK
<1>2. IsFiniteSet(W)
  BY TestPyAssumption, FS_Subset
<1>3. \A w \in Workers : w \in W <=> job[w] \in Job
  BY DEF Held
<1>4. f \in [W -> HeldJobs] /\ \A w \in W : f[w] = job[w]
  BY <1>1, <1>3
<1>5. \A v, w \in W : f[v] = f[w] => v = w
  BY <1>1, <1>3, <1>4 DEF OnePlace
<1>6. \A x \in HeldJobs : \E w \in W : f[w] = x
  BY <1>1, <1>3, <1>4
<1> HIDE DEF f, W
<1>7. f \in Bijection(W, HeldJobs)
  <2>1. f \in Injection(W, HeldJobs)
    BY <1>4, <1>5, Zenon DEF Injection, IsInjective
  <2>2. f \in Surjection(W, HeldJobs)
    BY <1>4, <1>6, Zenon DEF Surjection
  <2> QED
    BY <2>1, <2>2, Zenon DEF Bijection
<1>8. ExistsBijection(W, HeldJobs)
  BY <1>7, Zenon DEF ExistsBijection
<1>9. IsFiniteSet(HeldJobs) /\ Cardinality(HeldJobs) = Cardinality(W)
  BY <1>2, <1>8, FS_Bijection
<1> QED
  BY <1>2, <1>9 DEF W

LEMMA JobsAccounted == JobInv => Accounted
<1> SUFFICES ASSUME JobInv PROVE NoJobLost
  BY DEF JobInv, Accounted
<1> DEFINE I == Queued(input_queue)
           O == Queued(output_queue)
           P == {i \in DOMAIN input_queue : input_queue[i] # Break}
           Q == {i \in DOMAIN output_queue : output_queue[i] # Break}
           W == {w \in Workers : Held(w) # {}}
<1>1. /\ TypeOK /\ OnePlace /\ Flying /\ Break \notin Job
      /\ jobs \in Nat /\ collected \in Nat
  BY JobNumbers DEF JobInv
<1>2. /\ IsFiniteSet(I) /\ Cardinality(I) = Cardinality(P)
  BY <1>1, PlacesCounted DEF TypeOK, OnePlace
<1>3. /\ IsFiniteSet(O) /\ Cardinality(O) = Cardinality(Q)
  BY <1>1, PlacesCounted DEF TypeOK, OnePlace
<1>4. Cardinality(Q) = Len(output_queue)
  <2>1. /\ output_queue \in Seq(Job) /\ Len(output_queue) \in Nat
        /\ DOMAIN output_queue = 1 .. Len(output_queue)
        /\ \A i \in 1 .. Len(output_queue) : output_queue[i] \in Job
    BY <1>1, QueuePlaces, ElementOfSeq DEF TypeOK
  <2>2. Q = 1 .. Len(output_queue)
    BY <1>1, <2>1
  <2>3. Cardinality(1 .. Len(output_queue)) = Len(output_queue)
    <3>1. \A n \in Nat : Cardinality(1 .. n) = n
      <4> TAKE n \in Nat
      <4>1. Cardinality(1 .. n) = IF 1 > n THEN 0 ELSE n - 1 + 1
        BY FS_Interval
      <4> QED
        BY <4>1
    <3> QED
      BY <2>1, <3>1
  <2> QED
    BY <2>2, <2>3
<1>5. IsFiniteSet(HeldJobs) /\ Cardinality(HeldJobs) = Cardinality(W)
  BY <1>1, HoldersCounted
<1>6. /\ I \cap O = {} /\ (I \cup O) \cap HeldJobs = {}
  BY <1>1, JobNumbers DEF OnePlace
<1>7. Cardinality(Flight) + collected = jobs /\ Flight \subseteq Dispatched
  BY <1>1 DEF Flying
<1>8. Flight = (I \cup O) \cup HeldJobs
  BY DEF Flight
<1>9. /\ Cardinality(I) \in Nat /\ Cardinality(O) \in Nat /\ Cardinality(HeldJobs) \in Nat
  BY <1>2, <1>3, <1>5, FS_CardinalityType
<1> HIDE DEF I, O, P, Q, W
<1>10. IsFiniteSet(I \cup O) /\ Cardinality(I \cup O) = Cardinality(I) + Cardinality(O)
  <2>1. /\ IsFiniteSet(I \cup O)
        /\ Cardinality(I \cup O) = Cardinality(I) + Cardinality(O) - Cardinality(I \cap O)
    BY <1>2, <1>3, FS_Union
  <2>2. Cardinality(I \cap O) = 0
    BY <1>6, FS_EmptySet
  <2> QED
    BY <1>9, <2>1, <2>2
<1>11. Cardinality(Flight) = Cardinality(I) + Cardinality(O) + Cardinality(HeldJobs)
  <2>1. Cardinality(Flight) = Cardinality(I \cup O) + Cardinality(HeldJobs)
                                 - Cardinality((I \cup O) \cap HeldJobs)
    BY <1>5, <1>8, <1>10, FS_Union
  <2>2. Cardinality((I \cup O) \cap HeldJobs) = 0
    BY <1>6, FS_EmptySet
  <2> QED
    BY <1>9, <1>10, <2>1, <2>2
<1>12. Cardinality(P) + Len(output_queue) + Cardinality(W) + collected = jobs
  BY <1>2, <1>3, <1>4, <1>5, <1>7, <1>11
<1> QED
  BY <1>7, <1>8, <1>12 DEF NoJobLost, HeldJobs, I, O, P, W

LEMMA JobInvariant == Spec => []JobInv
BY JobInit, JobNext, PTL DEF Spec

\* However many workers and jobs there are, however they are scheduled and
\* whatever raises an exception, every job that run_tests queued is in exactly one
\* place: in one of the queues, in the hands of one worker, or collected.
THEOREM NoJobIsLost == Spec => []Accounted
BY JobInvariant, JobsAccounted, PTL

-----------------------------------------------------------------------------
(* The exit status *)

\* The jobs that were collected.
Gone == Dispatched \ Flight

\* Those that count as a success.
Good == {j \in Gone : j \notin is_break /\ (j \in is_skip \/ returncode[j] = 0)}

\* What is known of a job by the place where it is.
Results ==
    /\ \A w \in Workers :
           /\ pc[w] = "running" => job[w] \in ran
           /\ pc[w] \in {"run", "running"} => job[w] \notin is_skip
    /\ \A j \in is_skip : returncode[j] = 0
    /\ \A j \in Queued(output_queue) \cup Gone : j \in is_break \cup is_skip \cup ran

\* The two counters that the exit status depends on.
GoodCounted == tally["PASS"] + tally["SKIP"] = Cardinality(Good)

\* The exit status is set by the last step of all.
Closed ==
    /\ status # -1 => main = "done"
    /\ main = "done" => \A w \in Workers : pc[w] \in {"exited", "raised"}

HonestInv == JobInv /\ Results /\ GoodCounted /\ Closed /\ ExitStatusHonest

\* Until the end nothing is claimed of the exit status.
LEMMA NotClosed ==
    ASSUME Closed, main # "done", main' # "done", status' = status
    PROVE  Closed' /\ ExitStatusHonest'
BY DEF Closed, ExitStatusHonest

\* The workers leave what was collected alone.
LEMMA GoodKept ==
    ASSUME GoodCounted, Gone' = Gone, UNCHANGED <<is_skip, tally>>,
           \A j \in Gone : (j \in is_break' <=> j \in is_break) /\ returncode'[j] = returncode[j]
    PROVE  GoodCounted'
<1>1. Good' = Good
  BY DEF Good
<1> QED
  BY <1>1 DEF GoodCounted

LEMMA GoneKept ==
    ASSUME Flight' = Flight, jobs' = jobs
    PROVE  Gone' = Gone
BY DEF Gone, Dispatched

\* A worker takes a job, decides to run it, starts it or dies.
LEMMA HoldHonest ==
    ASSUME HonestInv, JobInv', Flight' = Flight, NEW w \in Workers, pc[w] \notin {"exited", "raised"},
           NEW p, pc' = [pc EXCEPT ![w] = p],
           p = "running" => job[w] \in ran',
           p \in {"run", "running"} => job[w] \notin is_skip /\ job' = job,
           \A v \in Workers : v # w => job'[v] = job[v],
           ran \subseteq ran',
           UNCHANGED <<jobVars, resultVars, output_queue, mainVars>>
    PROVE  HonestInv'
<1>1. main # "done" /\ main' = main /\ status' = status /\ tally' = tally /\ jobs' = jobs
  BY DEF HonestInv, Closed, mainVars
<1>2. Closed' /\ ExitStatusHonest'
  BY <1>1, NotClosed DEF HonestInv
<1>3. Gone' = Gone
  BY <1>1, GoneKept
<1>4. GoodCounted'
  BY <1>1, <1>3, GoodKept DEF HonestInv, jobVars, resultVars
<1>5. \A v \in Workers : pc'[v] = IF v = w THEN p ELSE pc[v]
  BY DEF HonestInv, JobInv, TypeOK
<1>6. Results'
  <2>1. \A v \in Workers : /\ pc'[v] = "running" => job'[v] \in ran'
                           /\ pc'[v] \in {"run", "running"} => job'[v] \notin is_skip
    BY <1>5 DEF HonestInv, Results
  <2>2. \A j \in Queued(output_queue) \cup Gone : j \in is_break \cup is_skip \cup ran'
    BY DEF HonestInv, Results
  <2>3. \A j \in is_skip : returncode[j] = 0
    BY DEF HonestInv, Results
  <2>4. UNCHANGED <<is_skip, is_break, returncode, output_queue>>
    BY DEF jobVars, resultVars
  <2> QED
    BY <1>3, <2>1, <2>2, <2>3, <2>4 DEF Results
<1> QED
  BY <1>2, <1>4, <1>6 DEF HonestInv

\* A worker gives its job back.
LEMMA BackHonest ==
    ASSUME HonestInv, JobInv', Flight' = Flight, NEW w \in Workers, PutBack(w),
           pc[w] \in {"check", "running"}, job[w] \in Job,
           Queued(output_queue') = Queued(output_queue) \cup {job[w]},
           is_break \subseteq is_break', is_break' \subseteq is_break \cup {job[w]},
           \A j \in Job : j # job[w] => returncode'[j] = returncode[j],
           job[w] \in is_skip => returncode'[job[w]] = returncode[job[w]],
           job[w] \in is_break' \cup is_skip \cup ran,
           UNCHANGED <<jobVars, ran, mainVars>>
    PROVE  HonestInv'
<1>1. main # "done" /\ main' = main /\ status' = status /\ tally' = tally /\ jobs' = jobs
  BY DEF HonestInv, Closed, mainVars
<1>2. Closed' /\ ExitStatusHonest'
  BY <1>1, NotClosed DEF HonestInv
<1>3. Gone' = Gone
  BY <1>1, GoneKept
<1>4. Gone \subseteq Job /\ job[w] \notin Gone
  <2>1. TypeOK
    BY DEF HonestInv, JobInv
  <2>2. Dispatched \subseteq Job /\ job[w] \in HeldJobs
    BY <2>1, JobNumbers
  <2> QED
    BY <2>2 DEF Gone, Flight
<1>5. GoodCounted'
  <2>1. \A j \in Gone : (j \in is_break' <=> j \in is_break) /\ returncode'[j] = returncode[j]
    BY <1>4
  <2> QED
    BY <1>1, <1>3, <2>1, GoodKept DEF HonestInv, jobVars
<1>6. \A v \in Workers : /\ pc'[v] = IF v = w THEN "get" ELSE pc[v]
                         /\ v # w => job'[v] = job[v]
  BY DEF HonestInv, JobInv, TypeOK, PutBack
<1>7. Results'
  <2>1. \A v \in Workers : /\ pc'[v] = "running" => job'[v] \in ran
                           /\ pc'[v] \in {"run", "running"} => job'[v] \notin is_skip
    BY <1>6 DEF HonestInv, Results
  <2>2. \A j \in Queued(output_queue') \cup Gone : j \in is_break' \cup is_skip \cup ran
    BY DEF HonestInv, Results
  <2>3. is_skip \subseteq Job
    BY DEF HonestInv, JobInv, TypeOK
  <2>4. \A j \in is_skip : returncode'[j] = 0
    BY <2>3 DEF HonestInv, Results
  <2>5. UNCHANGED <<is_skip, ran>>
    BY DEF jobVars
  <2> QED
    BY <1>3, <2>1, <2>2, <2>4, <2>5 DEF Results
<1> QED
  BY <1>2, <1>5, <1>7 DEF HonestInv

\* The main thread queues something, or SIGINT arrives.
LEMMA OtherHonest ==
    ASSUME HonestInv, JobInv', Gone' = Gone, main # "done", main' # "done",
           UNCHANGED <<jobVars, resultVars, output_queue, workerVars, tally, status>>
    PROVE  HonestInv'
<1>1. Closed' /\ ExitStatusHonest'
  BY NotClosed DEF HonestInv
<1>2. GoodCounted'
  BY GoodKept DEF HonestInv, jobVars, resultVars
<1>3. Results'
  BY DEF HonestInv, Results, jobVars, resultVars, workerVars
<1> QED
  BY <1>1, <1>2, <1>3 DEF HonestInv

\* A job is collected: it is counted as good exactly when it is.
LEMMA CollectHonest ==
    ASSUME HonestInv, Collect
    PROVE  HonestInv'
<1>1. PICK j \in Job :
          /\ Receive(j)
          /\ CollectBreak(j) \/ CollectResult(j) \/ CollectRaises(j)
          /\ UNCHANGED <<jobVars, resultVars, input_queue, workerVars, thread_exit,
                         jobs, breaks, status>>
  BY CollectCases DEF HonestInv
<1>2. /\ JobInv' /\ Flight' = Flight \ {j}
      /\ j \in Queued(output_queue)
      /\ Queued(output_queue') = Queued(output_queue) \ {j}
      /\ main = "collect" /\ main' \in {"collect", "raised"}
      /\ \/ tally' = tally /\ j \in is_break
         \/ tally' = [tally EXCEPT ![Verdict(j)] = @ + 1] /\ j \notin is_break
  BY <1>1, CollectJob DEF HonestInv
<1>3. Closed' /\ ExitStatusHonest'
  BY <1>1, <1>2, NotClosed DEF HonestInv
<1>4. /\ Flight \subseteq Dispatched /\ j \in Flight /\ Dispatched' = Dispatched
      /\ IsFiniteSet(Dispatched) /\ Gone \subseteq Dispatched
  BY <1>1, <1>2, JobNumbers DEF HonestInv, JobInv, Flying, Flight, Dispatched, Gone
<1>5. Gone' = Gone \cup {j} /\ j \notin Gone
  BY <1>2, <1>4 DEF Gone
<1>6. UNCHANGED <<is_skip, is_break, returncode, pc, job, ran>>
  BY <1>1 DEF jobVars, resultVars, workerVars
<1>7. Results'
  BY <1>2, <1>5, <1>6 DEF HonestInv, Results
<1>8. GoodCounted'
  <2> DEFINE good == j \notin is_break /\ (j \in is_skip \/ returncode[j] = 0)
  <2>1. Good' = IF good THEN Good \cup {j} ELSE Good
    BY <1>5, <1>6 DEF Good
  <2>2. IsFiniteSet(Good) /\ Cardinality(Good) \in Nat /\ j \notin Good
    <3>1. Good \subseteq Dispatched /\ j \notin Good
      BY <1>4, <1>5 DEF Good
    <3> QED
      BY <1>4, <3>1, FS_Subset, FS_CardinalityType
  <2>3. good => Cardinality(Good') = Cardinality(Good) + 1
    BY <2>1, <2>2, FS_AddElement
  <2>4. ~ good => Cardinality(Good') = Cardinality(Good)
    BY <2>1
  <2>5. /\ tally \in [Verdicts -> 0 .. NJobs] /\ NJobs \in Nat
        /\ tally["PASS"] + tally["SKIP"] = Cardinality(Good)
    BY JobNumbers DEF HonestInv, JobInv, TypeOK, GoodCounted
  <2>6. tally["PASS"] \in Nat /\ tally["SKIP"] \in Nat
    BY <2>5 DEF Verdicts
  <2>7. /\ Verdict(j) \in Verdicts
        /\ Verdict(j) = "SKIP" <=> j \in is_skip
        /\ Verdict(j) = "PASS" <=> j \notin is_skip /\ returncode[j] = 0
    BY DEF Verdict, Verdicts
  <2>8. CASE j \in is_break
    <3>1. ~ good /\ tally' = tally
      BY <1>2, <2>8
    <3> QED
      BY <2>4, <2>5, <3>1 DEF GoodCounted
  <2>9. CASE j \notin is_break
    <3>1. tally' = [tally EXCEPT ![Verdict(j)] = @ + 1]
      BY <1>2, <2>9
    <3>2. tally'["PASS"] = IF Verdict(j) = "PASS" THEN tally["PASS"] + 1 ELSE tally["PASS"]
      BY <2>5, <2>7, <3>1 DEF Verdicts
    <3>3. tally'["SKIP"] = IF Verdict(j) = "SKIP" THEN tally["SKIP"] + 1 ELSE tally["SKIP"]
      BY <2>5, <2>7, <3>1 DEF Verdicts
    <3>4. good <=> Verdict(j) = "PASS" \/ Verdict(j) = "SKIP"
      BY <2>7, <2>9
    <3> HIDE DEF good
    <3>5. tally'["PASS"] + tally'["SKIP"] = Cardinality(Good')
      <4>1. CASE Verdict(j) = "PASS"
        BY <2>2, <2>3, <2>5, <2>6, <3>2, <3>3, <3>4, <4>1
      <4>2. CASE Verdict(j) = "SKIP"
        BY <2>2, <2>3, <2>5, <2>6, <3>2, <3>3, <3>4, <4>2
      <4>3. CASE Verdict(j) # "PASS" /\ Verdict(j) # "SKIP"
        BY <2>2, <2>4, <2>5, <2>6, <3>2, <3>3, <3>4, <4>3
      <4> QED
        BY <4>1, <4>2, <4>3
    <3> QED
      BY <3>5 DEF GoodCounted
  <2> QED
    BY <2>8, <2>9
<1> QED
  BY <1>2, <1>3, <1>7, <1>8 DEF HonestInv

\* The end: all jobs were collected, so the counters decide about all of them.
LEMMA JoinHonest ==
    ASSUME HonestInv, Join
    PROVE  HonestInv'
<1>1. /\ main = "collect" /\ collected = jobs /\ main' = "done"
      /\ \A w \in Workers : pc[w] \in {"exited", "raised"}
      /\ status' = IF tally["PASS"] + tally["SKIP"] = jobs THEN 0 ELSE 1
      /\ UNCHANGED <<is_skip, is_break, returncode, output_queue, pc, job, ran, jobs, tally>>
  BY DEF Join, jobVars, resultVars, queueVars, workerVars
<1>2. JobInv' /\ Flight' = Flight /\ TypeOK /\ Flying /\ jobs = NJobs
  BY <1>1, JoinJob DEF HonestInv, JobInv, Phased
<1>3. Gone' = Gone
  BY <1>1, <1>2, GoneKept
<1>4. GoodCounted'
  BY <1>1, <1>3, GoodKept DEF HonestInv
<1>5. Results'
  BY <1>1, <1>3 DEF HonestInv, Results
<1>6. Closed'
  BY <1>1 DEF Closed
<1>7. Gone = Job /\ IsFiniteSet(Job) /\ Cardinality(Job) = jobs
  <2>1. /\ IsFiniteSet(Flight) /\ Cardinality(Flight) \in Nat
        /\ IsFiniteSet(Dispatched) /\ Cardinality(Dispatched) = jobs
        /\ jobs \in Nat /\ Cardinality(Flight) + collected = jobs
    BY <1>2, FlightFinite, JobNumbers DEF Flying
  <2>2. Cardinality(Flight) = 0
    BY <1>1, <2>1
  <2>3. Flight = {}
    BY <2>1, <2>2, FS_EmptySet
  <2>4. Dispatched = Job
    BY <1>2 DEF Dispatched, Job
  <2> QED
    BY <2>1, <2>3, <2>4 DEF Gone
<1>8. Good \subseteq Job /\ (Cardinality(Good) = jobs <=> Good = Job)
  <2>1. Good \subseteq Job
    BY <1>7 DEF Good
  <2> QED
    BY <1>7, <2>1, FS_Subset
<1>9. Good = Job <=> \A j \in Job : /\ j \notin is_break
                                    /\ j \in is_skip \cup ran
                                    /\ returncode[j] = 0
  <2>1. \A j \in Job : j \in Good <=> j \notin is_break /\ (j \in is_skip \/ returncode[j] = 0)
    BY <1>7 DEF Good
  <2>2. \A j \in Job : j \in is_break \cup is_skip \cup ran
    BY <1>7 DEF HonestInv, Results
  <2>3. \A j \in is_skip : returncode[j] = 0
    BY DEF HonestInv, Results
  <2>4. Good = Job <=> \A j \in Job : j \in Good
    BY <1>8
  <2> QED
    BY <2>1, <2>2, <2>3, <2>4
<1>10. ExitStatusHonest'
  <2>1. status' = 0 <=> Cardinality(Good) = jobs
    BY <1>1 DEF HonestInv, GoodCounted
  <2> QED
    BY <1>1, <1>8, <1>9, <2>1 DEF ExitStatusHonest
<1> QED
  BY <1>2, <1>4, <1>5, <1>6, <1>10 DEF HonestInv

LEMMA HonestInit == Init => HonestInv
<1> SUFFICES ASSUME Init PROVE HonestInv
  OBVIOUS
<1>1. /\ output_queue = <<>> /\ jobs = 0 /\ status = -1 /\ main = "dispatch"
      /\ pc = [w \in Workers |-> "get"] /\ tally = [v \in Verdicts |-> 0]
      /\ returncode = [j \in Job |-> 0] /\ is_skip \subseteq Job
  BY DEF Init
<1>2. Gone = {} /\ Queued(output_queue) = {}
  BY <1>1, EmptySeq DEF Gone, Dispatched, Queued
<1>3. Results
  BY <1>1, <1>2 DEF Results
<1>4. GoodCounted
  <2>1. Cardinality(Good) = 0
    BY <1>2, FS_EmptySet DEF Good
  <2> QED
    BY <1>1, <2>1 DEF GoodCounted, Verdicts
<1>5. Closed /\ ExitStatusHonest
  BY <1>1 DEF Closed, ExitStatusHonest
<1> QED
  BY <1>3, <1>4, <1>5, JobInit DEF HonestInv

LEMMA HonestNext == HonestInv /\ [Next]_vars => HonestInv'
<1> SUFFICES ASSUME HonestInv, [Next]_vars PROVE HonestInv'
  OBVIOUS
<1>0. JobInv /\ TypeOK
  BY DEF HonestInv, JobInv
<1>1. ASSUME NEW w \in Workers, Get(w) PROVE HonestInv'
  <2>1. JobInv' /\ Flight' = Flight
    BY <1>0, <1>1, GetJob
  <2>2. PICK p \in {"exited", "check"} : pc' = [pc EXCEPT ![w] = p]
    BY <1>1 DEF Get
  <2>3. /\ pc[w] = "get" /\ ran' = ran
        /\ \A v \in Workers : v # w => job'[v] = job[v]
        /\ UNCHANGED <<jobVars, resultVars, output_queue, mainVars>>
    BY <1>0, <1>1 DEF Get, TypeOK
  <2> QED
    BY <2>1, <2>2, <2>3, HoldHonest
<1>2. ASSUME NEW w \in Workers, Check(w) PROVE HonestInv'
  <2>1. /\ job[w] \in Job /\ JobInv' /\ Flight' = Flight
        /\ GiveBack(w) \/ Skip(w) =>
              Queued(output_queue') = Queued(output_queue) \cup {job[w]}
    BY <1>0, <1>2, CheckCases
  <2>2. pc[w] = "check" /\ UNCHANGED <<jobVars, mainVars>>
    BY <1>2 DEF Check
  <2>3. CASE GiveBack(w)
    <3>1. PutBack(w) /\ is_break' = is_break \cup {job[w]} /\ UNCHANGED <<returncode, ran>>
      BY <2>3 DEF GiveBack
    <3> QED
      BY <2>1, <2>2, <2>3, <3>1, BackHonest
  <2>4. CASE Skip(w)
    <3>1. PutBack(w) /\ job[w] \in is_skip /\ UNCHANGED <<is_break, returncode, ran>>
      BY <2>4 DEF Skip, resultVars
    <3> QED
      BY <2>1, <2>2, <2>4, <3>1, BackHonest
  <2>5. CASE Launch(w)
    <3>1. /\ pc' = [pc EXCEPT ![w] = "run"] /\ job[w] \notin is_skip
          /\ UNCHANGED <<resultVars, output_queue, job, ran>>
      BY <2>5 DEF Launch
    <3> QED
      BY <2>1, <2>2, <3>1, HoldHonest
  <2> QED
    BY <1>2, <2>3, <2>4, <2>5 DEF Check
<1>3. ASSUME NEW w \in Workers, Start(w) PROVE HonestInv'
  <2>1. JobInv' /\ Flight' = Flight
    BY <1>0, <1>3, StartCases
  <2>2. /\ pc[w] = "run" /\ pc' = [pc EXCEPT ![w] = "running"] /\ ran' = ran \cup {job[w]}
        /\ UNCHANGED <<jobVars, resultVars, output_queue, job, mainVars>>
    BY <1>3 DEF Start, queueVars
  <2>3. job[w] \notin is_skip
    BY <2>2 DEF HonestInv, Results
  <2> QED
    BY <2>1, <2>2, <2>3, HoldHonest
<1>4. ASSUME NEW w \in Workers, Finish(w) PROVE HonestInv'
  <2>1. /\ JobInv' /\ Flight' = Flight /\ job[w] \in Job
        /\ Queued(output_queue') = Queued(output_queue) \cup {job[w]}
    BY <1>0, <1>4, FinishCases
  <2>2. /\ pc[w] = "running" /\ PutBack(w) /\ UNCHANGED <<jobVars, is_break, ran, mainVars>>
    BY <1>4 DEF Finish
  <2>3. \A j \in Job : j # job[w] => returncode'[j] = returncode[j]
    BY <1>0, <1>4, FinishTyped
  <2>4. job[w] \in ran /\ job[w] \notin is_skip
    BY <2>2 DEF HonestInv, Results
  <2> QED
    BY <2>1, <2>2, <2>3, <2>4, BackHonest
<1>5. ASSUME NEW w \in Workers, Raise(w) PROVE HonestInv'
  <2>1. JobInv' /\ Flight' = Flight
    BY <1>0, <1>5, RaiseCases
  <2>2. /\ pc[w] \in {"run", "running"} /\ pc' = [pc EXCEPT ![w] = "raised"]
        /\ UNCHANGED <<jobVars, resultVars, output_queue, job, ran, mainVars>>
    BY <1>5 DEF Raise, queueVars
  <2> QED
    BY <2>1, <2>2, HoldHonest
<1>6. CASE DispatchSuite \/ DispatchExample
  <2>1. PICK j \in Job : Dispatch(j)
    BY <1>0, <1>6, DispatchCases
  <2>2. /\ JobInv' /\ Flight' = Flight \cup {j}
        /\ Dispatched' = Dispatched \cup {j} /\ j \notin Dispatched
    BY <1>0, <2>1, DispatchJob
  <2>3. Gone' = Gone
    BY <2>2 DEF Gone
  <2>4. /\ main = "dispatch" /\ main' = "dispatch"
        /\ UNCHANGED <<jobVars, resultVars, output_queue, workerVars, tally, status>>
    BY <2>1 DEF Dispatch
  <2> QED
    BY <2>2, <2>3, <2>4, OtherHonest
<1>7. CASE SendBreak
  <2>1. JobInv' /\ Flight' = Flight
    BY <1>0, <1>7, SendBreakJob
  <2>2. /\ main = "dispatch" /\ main' # "done" /\ jobs' = jobs
        /\ UNCHANGED <<jobVars, resultVars, output_queue, workerVars, tally, status>>
    BY <1>7 DEF SendBreak
  <2> QED
    BY <2>1, <2>2, GoneKept, OtherHonest
<1>8. CASE Collect
  BY <1>8, CollectHonest
<1>9. CASE Join
  BY <1>9, JoinHonest
<1>10. CASE Interrupt
  <2>1. /\ main # "done" /\ thread_exit' \in {thread_exit, TRUE}
        /\ UNCHANGED <<jobVars, resultVars, queueVars, workerVars, mainVars>>
    BY <1>10 DEF Interrupt
  <2>2. JobInv' /\ Flight' = Flight
    BY <1>0, <2>1, InterruptJob
  <2>3. UNCHANGED <<output_queue, main, jobs, tally, status>>
    BY <2>1 DEF queueVars, mainVars
  <2> QED
    BY <2>1, <2>2, <2>3, GoneKept, OtherHonest
<1>11. CASE UNCHANGED vars
  <2>1. JobInv' /\ Flight' = Flight
    BY <1>0, <1>11, InterruptJob DEF vars
  <2>2. UNCHANGED <<is_skip, is_break, returncode, output_queue, pc, job, ran,
                    main, jobs, tally, status>>
    BY <1>11 DEF vars, jobVars, resultVars, queueVars, workerVars, mainVars
  <2>3. Gone' = Gone
    BY <2>1, <2>2, GoneKept
  <2>4. GoodCounted'
    BY <2>2, <2>3, GoodKept DEF HonestInv
  <2>5. Results' /\ Closed' /\ ExitStatusHonest'
    BY <2>2, <2>3 DEF HonestInv, Results, Closed, ExitStatusHonest
  <2> QED
    BY <2>1, <2>4, <2>5 DEF HonestInv
<1> QED
  BY <1>1, <1>2, <1>3, <1>4, <1>5, <1>6, <1>7, <1>8, <1>9, <1>10, <1>11
  DEF Next, MainStep, WorkerStep

\* However many workers and jobs there are, interrupted or not, test.py exits with 0
\* exactly when every job was to be skipped, or was really run and returned 0.
THEOREM ExitStatusIsHonest == Spec => []ExitStatusHonest
<1>1. HonestInv => ExitStatusHonest
  BY DEF HonestInv
<1> QED
  BY <1>1, HonestInit, HonestNext, PTL DEF Spec
=============================================================================
