------------------------------- MODULE TestPy -------------------------------
(***************************************************************************)
(* The test driver of the repository, run_tests and class worker_thread of *)
(* test.py.  The main thread queues one job per test suite and per         *)
(* example, then one break job per worker thread, and collects one result  *)
(* per job.  The worker threads share the input queue and the output       *)
(* queue.  The handler of SIGINT sets thread_exit, which a worker reads    *)
(* after it has taken a job.                                               *)
(*                                                                         *)
(* Job objects are shared: a worker writes is_break and returncode of the  *)
(* job it holds, the main thread reads them when the job comes back.  A    *)
(* step of a worker accesses one shared object: a queue, or thread_exit.   *)
(***************************************************************************)
EXTENDS Integers, Sequences, FiniteSets

CONSTANTS Workers,    \* the worker threads, one per processor
          NJobs,      \* number of jobs
          MaxRaises   \* bound on the exceptions raised in worker threads

ASSUME TestPyAssumption ==
    /\ IsFiniteSet(Workers)
    /\ NJobs \in Nat
    /\ MaxRaises \in Nat

Job      == 1 .. NJobs
Break    == 0           \* the job that tells a worker to return
Crashed  == 139         \* any return code other than 0, 1 and 2
Verdicts == {"PASS", "FAIL", "VALGR", "CRASH", "SKIP"}

\* What run_job_synchronously returns, with the result that the suite left in
\* its file.  Output that cannot be decoded turns any return code into 1.
Outcomes == {[rc |-> 0,       xml |-> "PASS"], [rc |-> 1, xml |-> "FAIL"],
             [rc |-> 2,       xml |-> "PASS"], [rc |-> 1, xml |-> "PASS"],
             [rc |-> Crashed, xml |-> "none"], [rc |-> 1, xml |-> "none"]}

VARIABLES
    nSuites,        \* the first jobs are test suites, the others examples
    is_skip,        \* the jobs to be skipped
    input_queue, output_queue,
    thread_exit,    \* set by the handler of SIGINT
    pc, job,        \* of each worker thread
    is_break,       \* jobs that a worker gave back without running them
    returncode,     \* of each job; False, which equals 0, until it is run
    xmlFile,        \* what is in the result file of each job
    main,           \* where the main thread is
    jobs, breaks,   \* jobs and break jobs queued so far
    collected,      \* results taken from the output queue
    tally,          \* passed_tests, failed_tests, ...
    report,         \* entries of the XML results file
    status,         \* exit status of test.py, -1 while it runs
    ran, late       \* history: jobs launched, those launched after SIGINT

jobVars    == <<nSuites, is_skip>>
resultVars == <<is_break, returncode, xmlFile>>
queueVars  == <<input_queue, output_queue>>
workerVars == <<pc, job, ran, late>>
mainVars   == <<main, jobs, breaks, collected, tally, report, status>>
vars == <<jobVars, resultVars, queueVars, workerVars, mainVars, thread_exit>>

Init ==
    /\ nSuites \in 0 .. NJobs
    /\ is_skip \in SUBSET Job
    /\ input_queue = <<>> /\ output_queue = <<>>
    /\ thread_exit = FALSE
    /\ pc = [w \in Workers |-> "get"]
    /\ job = [w \in Workers |-> Break]
    /\ is_break = {}
    /\ returncode = [j \in Job |-> 0]
    /\ xmlFile = [j \in Job |-> "none"]
    /\ main = "dispatch"
    /\ jobs = 0 /\ breaks = 0 /\ collected = 0
    /\ tally = [v \in Verdicts |-> 0]
    /\ report = <<>>
    /\ status = -1
    /\ ran = {} /\ late = {}

IsSuite(j) == j <= nSuites

-----------------------------------------------------------------------------
(* The worker threads *)

\* job = self.input_queue.get (); the break job ends the thread.
Get(w) ==
    /\ pc[w] = "get"
    /\ input_queue # <<>>
    /\ input_queue' = Tail(input_queue)
    /\ job' = [job EXCEPT ![w] = Head(input_queue)]
    /\ pc' = [pc EXCEPT ![w] = IF Head(input_queue) = Break THEN "exited" ELSE "check"]
    /\ UNCHANGED <<jobVars, resultVars, output_queue, ran, late, mainVars, thread_exit>>

\* self.output_queue.put (job)
PutBack(w) ==
    /\ output_queue' = Append(output_queue, job[w])
    /\ job' = [job EXCEPT ![w] = Break]
    /\ pc' = [pc EXCEPT ![w] = "get"]

\* Mutant of GiveBack: the job is not put into the output queue.
GiveBackLost(w) ==
    /\ thread_exit
    /\ is_break' = is_break \cup {job[w]}
    /\ job' = [job EXCEPT ![w] = Break]
    /\ pc' = [pc EXCEPT ![w] = "get"]
    /\ UNCHANGED <<output_queue, returncode, xmlFile, ran, late>>

\* Mutant of GiveBack: the job is not marked.
GiveBackUnmarked(w) ==
    /\ thread_exit
    /\ PutBack(w)
    /\ UNCHANGED <<is_break, returncode, xmlFile, ran, late>>

\* After SIGINT the job goes back unexecuted.
GiveBack(w) ==
    /\ thread_exit
    /\ is_break' = is_break \cup {job[w]}
    /\ PutBack(w)
    /\ UNCHANGED <<returncode, xmlFile, ran, late>>

Skip(w) ==
    /\ ~ thread_exit
    /\ job[w] \in is_skip
    /\ PutBack(w)
    /\ UNCHANGED <<resultVars, ran, late>>

\* Mutant of Launch: thread_exit is not looked at.
LaunchAlways(w) ==
    /\ job[w] \notin is_skip
    /\ pc' = [pc EXCEPT ![w] = "run"]
    /\ UNCHANGED <<resultVars, output_queue, job, ran, late>>

\* The decision to run the job is taken; the process starts later.
Launch(w) ==
    /\ ~ thread_exit
    /\ job[w] \notin is_skip
    /\ pc' = [pc EXCEPT ![w] = "run"]
    /\ UNCHANGED <<resultVars, output_queue, job, ran, late>>

Check(w) ==
    /\ pc[w] = "check"
    /\ GiveBack(w) \/ Skip(w) \/ Launch(w)
    /\ UNCHANGED <<jobVars, input_queue, mainVars, thread_exit>>

\* The process of the job is created.
Start(w) ==
    /\ pc[w] = "run"
    /\ pc' = [pc EXCEPT ![w] = "running"]
    /\ ran' = ran \cup {job[w]}
    /\ late' = IF thread_exit THEN late \cup {job[w]} ELSE late
    /\ UNCHANGED <<jobVars, resultVars, queueVars, job, mainVars, thread_exit>>

\* The process ends; the result goes to the main thread.
Finish(w) ==
    /\ pc[w] = "running"
    /\ \E o \in Outcomes :
           /\ returncode' = [returncode EXCEPT ![job[w]] = o.rc]
           /\ xmlFile' = [xmlFile EXCEPT ![job[w]] = IF IsSuite(job[w]) THEN o.xml ELSE "none"]
    /\ PutBack(w)
    /\ UNCHANGED <<jobVars, is_break, input_queue, ran, late, mainVars, thread_exit>>

Raised == {w \in Workers : pc[w] = "raised"}

\* An exception of run_job_synchronously (no process can be created) or of the
\* printing of its output: nothing catches it, the thread dies with its job.
Raise(w) ==
    /\ pc[w] \in {"run", "running"}
    /\ Cardinality(Raised) < MaxRaises
    /\ pc' = [pc EXCEPT ![w] = "raised"]
    /\ UNCHANGED <<jobVars, resultVars, queueVars, job, ran, late, mainVars, thread_exit>>

WorkerStep(w) == Get(w) \/ Check(w) \/ Start(w) \/ Finish(w)

-----------------------------------------------------------------------------
(* The main thread *)

Dispatch(j) ==
    /\ main = "dispatch"
    /\ j = jobs + 1
    /\ input_queue' = Append(input_queue, j)
    /\ jobs' = j
    /\ UNCHANGED <<jobVars, resultVars, output_queue, workerVars, thread_exit,
                   main, breaks, collected, tally, report, status>>

\* The loop over suite_list.
DispatchSuite == \E j \in 1 .. nSuites : Dispatch(j)

\* The loop over the examples, after it.
DispatchExample == jobs >= nSuites /\ \E j \in nSuites + 1 .. NJobs : Dispatch(j)

\* Mutant of BreaksWanted: one worker is forgotten.
BreaksOneShort == Cardinality(Workers) - 1

\* One break job is queued per processor.
BreaksWanted == Cardinality(Workers)

SendBreak ==
    /\ main = "dispatch"
    /\ jobs = NJobs
    /\ breaks < BreaksWanted
    /\ input_queue' = Append(input_queue, Break)
    /\ breaks' = breaks + 1
    /\ main' = IF breaks' = BreaksWanted THEN "collect" ELSE "dispatch"
    /\ UNCHANGED <<jobVars, resultVars, output_queue, workerVars, thread_exit,
                   jobs, collected, tally, report, status>>

\* How a job that came back is counted.
Verdict(j) ==
    IF j \in is_skip THEN "SKIP"
    ELSE CASE returncode[j] = 0 -> "PASS"
           [] returncode[j] = 1 -> "FAIL"
           [] returncode[j] = 2 -> "VALGR"
           [] OTHER -> "CRASH"

\* A suite that ran to its end, by its return code, left its result in a file.
CopiesFile(j) == IsSuite(j) /\ j \notin is_skip /\ returncode[j] \in {0, 1, 2}

\* What is written to the XML results file for a job.
Entry(j) == IF CopiesFile(j) THEN xmlFile[j] ELSE Verdict(j)

\* The main thread takes job j from the output queue.
Receive(j) ==
    /\ main = "collect"
    /\ collected < jobs
    /\ output_queue # <<>>
    /\ j = Head(output_queue)
    /\ output_queue' = Tail(output_queue)
    /\ collected' = collected + 1

\* A job that was given back has no result.
CollectBreak(j) ==
    /\ Receive(j)
    /\ j \in is_break
    /\ UNCHANGED <<main, tally, report>>

CollectResult(j) ==
    /\ Receive(j)
    /\ j \notin is_break
    /\ CopiesFile(j) => xmlFile[j] # "none"
    /\ tally' = [tally EXCEPT ![Verdict(j)] = @ + 1]
    /\ report' = Append(report, Entry(j))
    /\ UNCHANGED main

\* The file of a suite is missing: the exception ends the main thread.
CollectRaises(j) ==
    /\ Receive(j)
    /\ j \notin is_break
    /\ CopiesFile(j) /\ xmlFile[j] = "none"
    /\ tally' = [tally EXCEPT ![Verdict(j)] = @ + 1]
    /\ main' = "raised"
    /\ UNCHANGED report

Collect ==
    /\ \E j \in Job : CollectBreak(j) \/ CollectResult(j) \/ CollectRaises(j)
    /\ UNCHANGED <<jobVars, resultVars, input_queue, workerVars, thread_exit,
                   jobs, breaks, status>>

\* All threads are joined, then the exit status is computed.
Join ==
    /\ main = "collect"
    /\ collected = jobs
    /\ \A w \in Workers : pc[w] \in {"exited", "raised"}
    /\ main' = "done"
    /\ status' = IF tally["PASS"] + tally["SKIP"] = jobs THEN 0 ELSE 1
    /\ UNCHANGED <<jobVars, resultVars, queueVars, workerVars, thread_exit,
                   jobs, breaks, collected, tally, report>>

\* sigint_hook, while run_tests runs.
Interrupt ==
    /\ main \in {"dispatch", "collect"}
    /\ thread_exit' = TRUE
    /\ UNCHANGED <<jobVars, resultVars, queueVars, workerVars, mainVars>>

MainStep == DispatchSuite \/ DispatchExample \/ SendBreak \/ Collect \/ Join

Next ==
    \/ MainStep
    \/ \E w \in Workers : WorkerStep(w) \/ Raise(w)
    \/ Interrupt

\* Threads are scheduled fairly and every test process ends; the user need not
\* interrupt, and nothing need raise an exception.
Fairness == WF_vars(MainStep) /\ \A w \in Workers : WF_vars(WorkerStep(w))

Spec == Init /\ [][Next]_vars /\ Fairness

-----------------------------------------------------------------------------
(* Properties *)

TypeOK ==
    /\ nSuites \in 0 .. NJobs
    /\ is_skip \subseteq Job
    /\ input_queue \in Seq(Job \cup {Break})
    /\ output_queue \in Seq(Job)
    /\ thread_exit \in BOOLEAN
    /\ pc \in [Workers -> {"get", "check", "run", "running", "exited", "raised"}]
    /\ job \in [Workers -> Job \cup {Break}]
    /\ is_break \subseteq Job
    /\ returncode \in [Job -> {0, 1, 2, Crashed}]
    /\ xmlFile \in [Job -> {"PASS", "FAIL", "none"}]
    /\ main \in {"dispatch", "collect", "done", "raised"}
    /\ jobs \in 0 .. NJobs
    /\ breaks \in 0 .. Cardinality(Workers)
    /\ collected \in 0 .. NJobs
    /\ tally \in [Verdicts -> 0 .. NJobs]
    /\ report \in Seq(Verdicts)
    /\ status \in -1 .. 1
    /\ ran \subseteq Job
    /\ late \subseteq Job

Queued(q)  == {q[i] : i \in DOMAIN q} \cap Job
Held(w)    == {job[w]} \cap Job
Dispatched == 1 .. jobs

\* No job is lost or duplicated on its way through the two queues: every job
\* that the main thread has queued is waiting in one of the queues, held by one
\* worker (a dead one included), or collected (the counts add up, so each job is
\* in exactly one place).
NoJobLost ==
    LET waiting == Queued(input_queue) \cup Queued(output_queue)
        held    == UNION {Held(w) : w \in Workers}
        inInput == Cardinality({i \in DOMAIN input_queue : input_queue[i] # Break})
    IN  /\ waiting \cup held \subseteq Dispatched
        /\ inInput + Len(output_queue) + Cardinality({w \in Workers : Held(w) # {}})
              + collected = jobs
        /\ Cardinality(waiting \cup held) + collected = jobs

\* Together with its types.
Accounted == TypeOK /\ NoJobLost

\* test.py exits with 0 exactly when every job was to be skipped, or was really
\* run and returned 0.  A job has the return code False, which equals 0, until it
\* is run: an interrupted run must not be taken for a success.
ExitStatusHonest ==
    status # -1 =>
        (status = 0 <=> \A j \in Job : /\ j \notin is_break
                                       /\ j \in is_skip \cup ran
                                       /\ returncode[j] = 0)

\* SIGINT stops the run: after it each worker starts at most the one job for
\* which it had already read thread_exit.
InterruptBounded == Cardinality(late) <= Cardinality(Workers)

Ended == main \in {"done", "raised"} /\ \A w \in Workers : pc[w] \in {"exited", "raised"}

\* run_tests ends, interrupted or not, unless an exception killed a worker: the
\* job that died with it is never given back, and main waits for it.
Ends == <>(Ended \/ Raised # {})
=============================================================================
