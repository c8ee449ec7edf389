---------------------------- MODULE AnalysisRun ----------------------------
(***************************************************************************)
(* One run of analyze() and the workers it opens: the nodes of the         *)
(* execution plan, segment by segment, each segment inside one             *)
(* IdaMcpLifecycle (module IdaLifecycle), each node through                *)
(* run_analysis_pipeline.  The drivers:                                    *)
(*   "full"      analyze without a selection: one segment per binary;      *)
(*   "selected"  _execute_selected_nodes: one segment per stretch of       *)
(*               consecutive nodes of one binary;                          *)
(*   "bare"      no analyze: a with block with any arguments of the class, *)
(*               one call of ensure_ready in it.                           *)
(* What a node computes is left open: each call of the pipeline may take   *)
(* any of its outcomes, and a supervisor may die at any time.              *)
(***************************************************************************)
EXTENDS IdaLifecycle, Sequences, FiniteSets, SequencesExt

CONSTANTS
    Order,      \* the nodes of the plan, in the order they run
    BinaryOf,   \* the binary of each node, a (module, platform) pair
    Drivers     \* the drivers considered

Nodes == ToSet(Order)
Binaries == {BinaryOf[n] : n \in Nodes}
NodesOf(b) == {n \in Nodes : BinaryOf[n] = b}
Tasks == Nodes \cup Binaries

\* The plan is walked in its order, whatever part of it is left.
Turn(n) == CHOOSE i \in DOMAIN Order : Order[i] = n
First(ns) == CHOOSE n \in ns : \A m \in ns : Turn(n) <= Turn(m)

ASSUME OrderAssumption == Order \in Seq(Nodes) /\ IsInjective(Order) /\ Order # <<>>
ASSUME BinaryAssumption == BinaryOf \in [Nodes -> Binaries] /\ Nodes \cap Binaries = {}
ASSUME DriverAssumption == Drivers \subseteq {"full", "selected", "bare"}

VARIABLES
    driver,     \* how the run was asked for
    skip,       \* skip_error
    opc,        \* where analyze is
    left,       \* the nodes after the current segment
    here,       \* binary_key of the current segment
    pending,    \* the nodes of the segment
    rest,       \* those not yet executed: remaining
    back,       \* where ensure_ready was called from
    rt,         \* the McpRuntime run_analysis_pipeline works with
    validated,  \* validated_binaries
    state,      \* AnalysisReporting._states: of nodes, and of jobs by their binary
    counted,    \* how often run_summary counted each node
    failed,     \* run_summary.failed
    before,     \* failures_before_segment, failures_before_job
    broken,     \* lifecycle_failed
    failedJobs, \* failed_binaries
    unclosed,   \* history: binaries whose with block ended with an error of __exit__
    verdict     \* the status finalize_run was given, or "none"

planVars == <<driver, skip, validated>>
segVars == <<left, here, pending, before>>
nodeVars == <<rest, rt, back>>
sumVars == <<state, counted, failed, broken, failedJobs, unclosed, verdict>>
ownerVars == <<planVars, opc, segVars, nodeVars, sumVars>>
vars == <<lifeVars, ownerVars>>

Terminal == {"SUCCEEDED", "FAILED", "SKIPPED", "ABORTED"}
Status == Terminal \cup {"PENDING", "RUNNING"}

TypeOK ==
    /\ LifeTypeOK
    /\ driver \in Drivers
    /\ skip \in BOOLEAN
    /\ opc \in {"prepare", "segment", "entering", "node", "inspectIn", "recoverIn", "reinspectIn",
                "preprocess", "fallback", "agent", "inspectOut", "recoverOut", "reinspectOut",
                "ensuring", "between", "body", "close", "leave", "unwind", "leaving", "unwinding", "handler",
                "segmentEnd", "abort", "over"}
    /\ left \subseteq Nodes /\ pending \subseteq Nodes /\ rest \subseteq pending
    /\ here \in Binaries
    /\ back \in {"node", "reinspectIn", "agent", "reinspectOut", "close"}
    /\ rt \in Tree \cup {0}
    /\ validated \subseteq Binaries
    /\ state \in [Tasks -> Status]
    /\ counted \in [Nodes -> 0 .. 2]
    /\ failed \in Nat /\ before \in Nat
    /\ broken \in BOOLEAN
    /\ failedJobs \subseteq Binaries /\ unclosed \subseteq Binaries
    /\ verdict \in {"none", "SUCCEEDED", "FAILED"}

Init ==
    /\ LifeInit
    /\ driver \in Drivers /\ skip \in BOOLEAN /\ (driver = "bare" => ~skip)
    /\ opc = "prepare"
    /\ left = Nodes /\ here = BinaryOf[First(Nodes)] /\ pending = {} /\ rest = {} /\ back = "node" /\ rt = 0
    /\ validated = {} /\ state = [t \in Tasks |-> "PENDING"]
    /\ counted = [n \in Nodes |-> 0] /\ failed = 0 /\ before = 0
    /\ broken = FALSE /\ failedJobs = {} /\ unclosed = {} /\ verdict = "none"

-----------------------------------------------------------------------------
(* AnalysisReporting and the summary. *)

Transitions ==
    {<<"PENDING", s>> : s \in {"RUNNING", "SKIPPED", "ABORTED"}}
        \cup {<<"RUNNING", s>> : s \in Terminal}

\* emit_task_status for the tasks ts of the states st.
Emit(st, ts, s) ==
    [t \in Tasks |-> IF t \in ts /\ <<st[t], s>> \in Transitions THEN s ELSE st[t]]

Count(ns) == counted' = [n \in Nodes |-> counted[n] + IF n \in ns THEN 1 ELSE 0]

\* _record_lifecycle_failures.
RecordFailures(ns) ==
    /\ Count(ns) /\ failed' = failed + Cardinality(ns)
    /\ state' = Emit(state, ns, "ABORTED")

-----------------------------------------------------------------------------
(* Binaries and segments. *)

\* Every binary is validated before the first segment.  Without skip_error the first failure
\* ends the run, and an interrupt or a missing input does so in any case; the jobs not yet
\* seen stay pending.
Prepare ==
    /\ opc = "prepare" /\ driver # "bare"
    /\ \E seen \in SUBSET Binaries : \E bad \in SUBSET seen :
        /\ skip \/ Cardinality(bad) <= 1
        /\ \/ opc' = "abort"
           \/ opc' = "segment" /\ seen = Binaries /\ (skip \/ bad = {})
        /\ validated' = seen \ bad
        /\ LET unrun == UNION {NodesOf(b) : b \in bad} IN
           /\ state' = Emit(Emit(Emit(state, seen, "RUNNING"), bad, "FAILED"), unrun, "ABORTED")
           /\ Count(unrun) /\ failed' = failed + Cardinality(unrun)
    /\ UNCHANGED <<lifeVars, driver, skip, segVars, nodeVars, broken, failedJobs, unclosed, verdict>>

\* The next segment: in a full run all nodes of a binary, else the longest stretch of one binary.
SameBinary(n) == BinaryOf[n] = BinaryOf[First(left)]
Stretch == {n \in left : \A m \in left : Turn(m) <= Turn(n) => SameBinary(m)}
NextSegment == IF driver = "full" THEN {n \in left : SameBinary(n)} ELSE Stretch

PassOver ==
    /\ opc = "segment" /\ left # {}
    /\ BinaryOf[First(left)] \notin validated
    /\ left' = left \ NextSegment
    /\ UNCHANGED <<lifeVars, planVars, opc, here, pending, before, nodeVars, sumVars>>

\* In a full run the nodes whose outputs exist are skipped without a worker.
StartSegment ==
    /\ opc = "segment" /\ left # {}
    /\ BinaryOf[First(left)] \in validated
    /\ left' = left \ NextSegment /\ here' = BinaryOf[First(left)]
    /\ before' = failed /\ broken' = FALSE
    /\ \E existing \in SUBSET NextSegment :
        /\ driver = "selected" => existing = {}
        /\ pending' = NextSegment \ existing
        /\ rest' = pending'
        /\ state' = Emit(state, existing, "SKIPPED") /\ Count(existing)
    /\ IF pending' = {} THEN opc' = "segmentEnd" /\ UNCHANGED lifeVars
       ELSE /\ opc' = "entering"
            /\ \E dynamic \in BOOLEAN, d \in Database :
                Enter([policy |-> "restored_strict", saves |-> FALSE, dynamic |-> dynamic], d)
    /\ UNCHANGED <<planVars, back, rt, failed, failedJobs, unclosed, verdict>>

Entered ==
    /\ opc = "entering" /\ call = "none"
    /\ opc' = IF driver = "bare" THEN IF answer = "ok" THEN "body" ELSE "over"
              ELSE [ok |-> "node", lifecycle |-> "handler", raise |-> "abort"][answer]
    /\ rt' = IF answer = "ok" THEN runtime ELSE rt
    /\ UNCHANGED <<lifeVars, planVars, segVars, rest, back, sumVars>>

-----------------------------------------------------------------------------
(* run_analysis_pipeline inside _execute_analysis_node. *)

\* The node ends well; so does one that fails when errors are skipped.
NodeEnds(s) ==
    /\ state' = Emit(state, {First(rest)}, s)
    /\ Count({First(rest)})
    /\ failed' = failed + IF s = "FAILED" THEN 1 ELSE 0
    /\ IF s = "FAILED" /\ ~skip THEN opc' = "unwind" /\ UNCHANGED rest
       ELSE opc' = "between" /\ rest' = rest \ {First(rest)}
    /\ UNCHANGED <<rt, back, broken, failedJobs, unclosed, verdict>>

StepTo(place) == opc' = place /\ UNCHANGED <<nodeVars, sumVars>>

StartNode ==
    /\ opc = "node"
    /\ \/ /\ opc' \in {"inspectIn", "preprocess"}
          /\ state' = Emit(state, {First(rest)}, "RUNNING")
          /\ UNCHANGED <<nodeVars, counted, failed, broken, failedJobs, unclosed, verdict>>
       \/ driver = "full" /\ NodeEnds("SKIPPED")
    /\ UNCHANGED <<lifeVars, planVars, segVars>>

\* _validate_artifacts_with_recovery: missing or invalid artifacts, valid ones, or no answer.
Inspect(first, recover, second, next) ==
    /\ opc \in {first, second}
    /\ \/ next /\ UNCHANGED client
       \/ NodeEnds("FAILED") /\ (opc = first => UNCHANGED client) /\ client' \in {client, "invalid"}
       \/ opc = first /\ StepTo(recover) /\ client' = "invalid"
    /\ UNCHANGED <<osVars, opts, process, runtime, budget, force, callVars, planVars, segVars>>

InspectInputs == Inspect("inspectIn", "recoverIn", "reinspectIn", StepTo("preprocess"))
InspectOutputs == Inspect("inspectOut", "recoverOut", "reinspectOut", NodeEnds("SUCCEEDED"))

\* Any exception of the preprocessor leads to the agent, and so does --skip-preprocessors.
Preprocess ==
    /\ opc = "preprocess"
    /\ Doubted
    /\ \/ NodeEnds("SKIPPED") \/ NodeEnds("FAILED") \/ NodeEnds("SUCCEEDED")
       \/ StepTo("inspectOut") \/ StepTo("fallback")
    /\ UNCHANGED <<osVars, opts, process, runtime, budget, force, callVars, planVars, segVars>>

Agent ==
    /\ opc = "agent"
    /\ \/ NodeEnds("SKIPPED") \/ NodeEnds("FAILED") \/ NodeEnds("SUCCEEDED")
       \/ StepTo("inspectOut")
    /\ UNCHANGED <<lifeVars, planVars, segVars>>

\* A cancellation or KeyboardInterrupt in the middle of a node.
Interrupted ==
    /\ opc \in {"inspectIn", "preprocess", "agent", "inspectOut"}
    /\ StepTo("unwind")
    /\ UNCHANGED <<lifeVars, planVars, segVars>>

-----------------------------------------------------------------------------
(* ensure_ready, between two nodes and inside one. *)

AskedFrom == [between |-> "node", recoverIn |-> "reinspectIn", fallback |-> "agent",
              recoverOut |-> "reinspectOut", body |-> "close"]

Ensure ==
    /\ opc \in DOMAIN AskedFrom
    /\ opc = "between" => rest # {}
    /\ EnsureReady
    /\ back' = AskedFrom[opc] /\ opc' = "ensuring"
    /\ UNCHANGED <<planVars, segVars, rest, rt, sumVars>>

\* Mutant of Ensured: the pipeline keeps the runtime it started with.
EnsuredStale ==
    /\ opc = "ensuring" /\ call = "none" /\ answer = "ok"
    /\ opc' = back
    /\ UNCHANGED <<lifeVars, planVars, segVars, nodeVars, sumVars>>

Ensured ==
    /\ opc = "ensuring" /\ call = "none" /\ answer = "ok"
    /\ rt' = runtime /\ opc' = back /\ back' = "node"
    /\ UNCHANGED <<lifeVars, planVars, segVars, rest, sumVars>>

\* Mutant of EnsureFailed: the nodes that cannot run any more are not recorded.
EnsureFailedSilently ==
    /\ opc = "ensuring" /\ call = "none" /\ answer = "lifecycle"
    /\ CASE back = "close" -> StepTo("unwind")
         [] back = "node" -> /\ broken' = TRUE
                             /\ opc' = IF skip THEN "leave" ELSE "unwind"
                             /\ UNCHANGED <<nodeVars, state, counted, failed, failedJobs, unclosed, verdict>>
         [] OTHER -> NodeEnds("FAILED")
    /\ UNCHANGED <<lifeVars, planVars, segVars>>

EnsureFailed ==
    /\ opc = "ensuring" /\ call = "none" /\ answer = "lifecycle"
    /\ CASE back = "close" -> StepTo("unwind")
         [] back = "node" -> /\ RecordFailures(rest)
                             /\ broken' = TRUE
                             /\ opc' = IF skip THEN "leave" ELSE "unwind"
                             /\ UNCHANGED <<nodeVars, failedJobs, unclosed, verdict>>
         [] OTHER -> NodeEnds("FAILED")
    /\ UNCHANGED <<lifeVars, planVars, segVars>>

EnsureRaised ==
    /\ opc = "ensuring" /\ call = "none" /\ answer = "raise"
    /\ StepTo("unwind")
    /\ UNCHANGED <<lifeVars, planVars, segVars>>

BodyDone ==
    /\ \/ opc = "between" /\ rest = {} /\ StepTo("leave")
       \/ opc \in {"body", "close"} /\ \E place \in {"leave", "unwind"} : StepTo(place)
    /\ UNCHANGED <<lifeVars, planVars, segVars>>

-----------------------------------------------------------------------------
(* The end of the with block, of the segment and of the run. *)

Leave ==
    /\ opc \in {"leave", "unwind"}
    /\ Exit(opc = "unwind")
    /\ opc' = IF opc = "leave" THEN "leaving" ELSE "unwinding"
    /\ UNCHANGED <<planVars, segVars, nodeVars, sumVars>>

Left ==
    /\ opc \in {"leaving", "unwinding"} /\ call = "none"
    /\ opc' = IF driver = "bare" THEN "over"
              ELSE IF opc = "unwinding" THEN "abort"
              ELSE [ok |-> "segmentEnd", lifecycle |-> "handler", raise |-> "abort"][answer]
    /\ unclosed' = IF answer = "ok" THEN unclosed ELSE unclosed \cup {here}
    /\ rt' = 0 /\ back' = "node"
    /\ UNCHANGED <<lifeVars, planVars, segVars, rest, state, counted, failed, broken, failedJobs, verdict>>

\* Mutant of Handler: what broke the segment is forgotten when no node was left.
HandlerForgets ==
    /\ opc = "handler"
    /\ RecordFailures(IF driver = "full" THEN pending ELSE rest)
    /\ opc' = IF skip THEN "segmentEnd" ELSE "abort"
    /\ UNCHANGED <<lifeVars, planVars, segVars, nodeVars, broken, failedJobs, unclosed, verdict>>

\* except McpLifecycleError around the with block; the full run records every pending node.
Handler ==
    /\ opc = "handler"
    /\ RecordFailures(IF driver = "full" THEN pending ELSE rest)
    /\ broken' = TRUE
    /\ opc' = IF skip THEN "segmentEnd" ELSE "abort"
    /\ UNCHANGED <<lifeVars, planVars, segVars, nodeVars, failedJobs, unclosed, verdict>>

\* Mutant of SegmentFailed: failures before the segment count as well.
SegmentFailedEver == failed > 0 \/ (driver = "selected" /\ broken)

SegmentFailed == failed > before \/ (driver = "selected" /\ broken)

SegmentEnd ==
    /\ opc = "segmentEnd"
    /\ opc' = "segment"
    /\ failedJobs' = IF driver = "selected" /\ SegmentFailed THEN failedJobs \cup {here} ELSE failedJobs
    /\ state' = IF driver = "selected" THEN state
                ELSE Emit(state, {here}, IF SegmentFailed THEN "FAILED" ELSE "SUCCEEDED")
    /\ UNCHANGED <<lifeVars, planVars, segVars, nodeVars, counted, failed, broken, unclosed, verdict>>

Finish ==
    /\ opc = "segment" /\ left = {}
    /\ opc' = "over"
    /\ LET jobs == IF driver = "selected"
                   THEN Emit(Emit(state, failedJobs, "FAILED"), validated \ failedJobs, "SUCCEEDED")
                   ELSE state
       IN state' = Emit(jobs, Tasks, "ABORTED")
    /\ verdict' = IF failed > 0 \/ failedJobs # {} THEN "FAILED" ELSE "SUCCEEDED"
    /\ UNCHANGED <<lifeVars, planVars, segVars, nodeVars, counted, failed, broken, failedJobs, unclosed>>

Abort ==
    /\ opc = "abort"
    /\ opc' = "over"
    /\ state' = Emit(state, Tasks, "ABORTED")
    /\ verdict' = "FAILED"
    /\ UNCHANGED <<lifeVars, planVars, segVars, nodeVars, counted, failed, broken, failedJobs, unclosed>>

\* The with block of another owner.
Open ==
    /\ opc = "prepare" /\ driver = "bare"
    /\ \E o \in [policy : Policy, saves : BOOLEAN, dynamic : BOOLEAN], d \in Database : Enter(o, d)
    /\ opc' = "entering"
    /\ UNCHANGED <<planVars, segVars, nodeVars, sumVars>>

-----------------------------------------------------------------------------
Step ==
    \/ LifeStep /\ UNCHANGED ownerVars
    \/ Prepare \/ PassOver \/ StartSegment \/ Open \/ Entered
    \/ StartNode \/ InspectInputs \/ Preprocess \/ Agent \/ InspectOutputs \/ Interrupted
    \/ Ensure \/ Ensured \/ EnsureFailed \/ EnsureRaised \/ BodyDone
    \/ Leave \/ Left \/ Handler \/ SegmentEnd \/ Finish \/ Abort

Next ==
    \/ Step
    \/ Crash /\ UNCHANGED ownerVars
    \/ opc = "over" /\ UNCHANGED vars

Spec == Init /\ [][Next]_vars

\* Every call has a deadline, so what was begun goes on; nothing has to crash.
FairSpec == Spec /\ WF_vars(Step)

-----------------------------------------------------------------------------
(* Properties. *)

\* The worker is only used under the identity verified for the supervisor the lifecycle owns
\* now: after a restart, in a node or between two, nobody works with the old runtime.
VerifiedUse ==
    opc \in {"inspectIn", "reinspectIn", "preprocess", "agent", "inspectOut", "reinspectOut"} =>
        rt # 0 /\ rt = runtime /\ rt = process

Closed == opc \in {"prepare", "segment", "handler", "segmentEnd", "abort", "over"}

\* Once a with block has ended, whatever happened in it, no supervisor or remnant of one is
\* left but where stopping it failed, or where a second verification in a row broke off.
TreesReclaimed == Closed => Survivors \subseteq unstopped \cup {lost}

\* docs/en/requirements.md: startup failure, cancellation and recovery follow the same cleanup.
EveryTreeReclaimed == Closed => Survivors \subseteq unstopped

\* A database is removed under the rebuild policy only, and never under a live supervisor.
DatabaseRemovedAlone ==
    [][idb # "none" /\ idb' = "none" /\ opc' = opc =>
        opts.policy = "rebuild" /\ Survivors \subseteq unstopped \cup {lost}]_vars

\* A run that comes to its end has executed every node and counted it once; a second time
\* only where the with block around it ended with an error.
NodesCounted ==
    opc = "segment" /\ left = {} =>
        \A n \in Nodes :
            /\ state[n] \in Terminal
            /\ counted[n] = 1 \/ (counted[n] = 2 /\ BinaryOf[n] \in unclosed)

Fine(n) == state[n] \in {"SUCCEEDED", "SKIPPED"}

\* What the run reports of itself agrees with what it reports of its jobs and tasks.
VerdictHonest ==
    /\ verdict # "none" => \A t \in Tasks : state[t] \in Terminal
    /\ verdict = "SUCCEEDED" => \A b \in Binaries : state[b] = "SUCCEEDED"
    /\ \A b \in Binaries : state[b] = "SUCCEEDED" => b \notin unclosed /\ \A n \in NodesOf(b) : Fine(n)
    /\ verdict = "FAILED" => \E t \in Tasks : state[t] \in {"FAILED", "ABORTED"}

\* However its workers fail, a run ends, with a verdict.
RunEnds == <>(opc = "over" /\ (driver = "bare" \/ verdict # "none"))

-----------------------------------------------------------------------------
(* What the run promises of its report: RunReport.  The driver "bare" has  *)
(* no report.                                                              *)

\* The places inside the with block of a segment.
Block == {"entering", "node", "inspectIn", "recoverIn", "reinspectIn", "preprocess", "fallback", "agent",
          "inspectOut", "recoverOut", "reinspectOut", "ensuring", "between", "leave", "unwind", "leaving",
          "unwinding"}

OpenJob == IF driver # "bare" /\ opc \in Block THEN {here} ELSE {}
Spoilt == IF driver # "bare" THEN unclosed ELSE {}

Report == INSTANCE RunReport WITH
              Node   <- Nodes,
              Job    <- Binaries,
              JobOf  <- BinaryOf,
              open   <- OpenJob,
              spoilt <- Spoilt

\* Nodes are reported one at a time and only under the worker of their job, a job is judged
\* by its nodes and its worker and never without a cause, a run by its jobs, and nothing
\* changes after the verdict: whatever fails, is cancelled or restarted in between.
ImplementsRunReport == Report!Spec
=============================================================================
