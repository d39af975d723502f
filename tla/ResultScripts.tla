---------------------------- MODULE ResultScripts ----------------------------
(***************************************************************************)
(* The scripts of the evaluation suite that RunOneScenario of the runner   *)
(* starts one after the other; each run of one is checked by itself.       *)
(***************************************************************************)
EXTENDS FlowSeries

CONSTANTS MaxSamples, MaxThroughput, LastInterval

ASSUME ScriptsAssumption ==
    MaxSamples \in Nat /\ MaxThroughput \in Nat /\ LastInterval \in Nat

VARIABLES program,
          qdelay, throughput, next, last_time_interval, qdelay_ans, throughput_index, rows, closed

ellipseVars == <<qdelay, throughput, next, last_time_interval, qdelay_ans, throughput_index,
                 rows, closed>>

Ellipse == INSTANCE EllipseInput

ScriptsInit ==
    \/ /\ program = "generate-ellipseinput"
       /\ Ellipse!Init
       /\ script = "none" /\ lines_read = <<>> /\ line = 0 /\ data = <<>> /\ inst_data = <<>>
       /\ File = <<>> /\ a = None /\ state = "none"
    \/ /\ program = "process"
       /\ SeriesInit
       /\ qdelay = <<>> /\ throughput = <<>> /\ next = 1 /\ last_time_interval = 0
       /\ qdelay_ans = {} /\ throughput_index = 1 /\ rows = <<>> /\ closed = FALSE

ScriptsNext ==
    \/ program = "generate-ellipseinput" /\ Ellipse!Next /\ UNCHANGED <<program, seriesVars>>
    \/ program = "process" /\ SeriesNext /\ UNCHANGED <<program, ellipseVars>>

ScriptsSpec == ScriptsInit /\ [][ScriptsNext]_<<program, ellipseVars, seriesVars>>

\* Each row of the ellipse input is over the samples and lines of its interval
\* (EllipseInput).
EllipseRows == Ellipse!RowsAsDefined

\* A goodput series is made from all lines of its flow but the last as text, and a
\* drop series from those of its flow and of the flows before (FlowSeries).
FlowSeriesOfRecords == SeriesAsDefined
=============================================================================
