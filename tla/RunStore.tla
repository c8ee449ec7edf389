------------------------------ MODULE RunStore ------------------------------
(***************************************************************************)
(* The Redis write model of one run: each Lua script of                    *)
(* process_reporter_redis_scripts.py is an operator from the stored run to *)
(* the script's reply and the run it leaves behind.  Redis executes a      *)
(* script atomically, so an operator is one step of whoever calls it.      *)
(*                                                                         *)
(* A stored run is a record:                                               *)
(*   status       run:<id>:meta "status", "none" when the key is absent    *)
(*   revision     run:<id>:meta "run_revision"                             *)
(*   initialized  run:<id>:meta has "initialized_at"                       *)
(*   listed       the run is a member of the "running" set                 *)
(*   task         run:<id>:skill-status, the status hash                   *)
(*   data         run:<id>:skill-data, the snapshots (status and revision) *)
(*   counts       run:<id>:meta per-status counters                        *)
(* Timestamps, metadata, the graph and the event stream are left out.      *)
(***************************************************************************)
EXTENDS Integers, FiniteSets

CONSTANTS Task,     \* task ids of the plan: its jobs and its nodes
          Counted   \* the ids of its nodes, the only ones the counters count

ASSUME TaskAssumption == IsFiniteSet(Task) /\ Counted \subseteq Task

TerminalTask == {"succeeded", "failed", "skipped", "aborted"}
TaskStatus   == {"pending", "running"} \union TerminalTask

Terminal  == {"succeeded", "failed", "aborted"}
RunStatus == {"none", "queued", "starting", "running", "stale"} \union Terminal

Snapshot == [status: TaskStatus \union {"absent"}, revision: Int]

StoredRun == [status: RunStatus, revision: Nat, initialized: BOOLEAN,
              listed: BOOLEAN, task: [Task -> TaskStatus \union {"absent"}],
              data: [Task -> Snapshot], counts: [TaskStatus -> Int]]

Code == {"ok", "stale", "invalid", "exists", "missing", "finished"}

\* A script's first reply element is 1 for "ok", negative for "invalid" and
\* "missing", and 0 for the rest, which every caller takes for success.
Reply(code, run) == [code |-> code, run |-> run]
Rejected(reply) == reply.code \in {"invalid", "missing"}

NoSnapshot == [status |-> "absent", revision |-> -1]
NoCounts == [s \in TaskStatus |-> 0]

NoRun == [status |-> "none", revision |-> 0, initialized |-> FALSE,
          listed |-> FALSE, task |-> [t \in Task |-> "absent"],
          data |-> [t \in Task |-> NoSnapshot], counts |-> NoCounts]

\* How many counted tasks the function f : Task -> status puts in each status.
Census(f) == [s \in TaskStatus |-> Cardinality({t \in Counted : f[t] = s})]

-----------------------------------------------------------------------------
(* The transition tables.                                                  *)

\* Where a reporter may take a task.
TaskEdge(old, new) ==
    \/ old = "pending" /\ new \in {"running", "skipped", "aborted"}
    \/ old = "running" /\ new \in TerminalTask

\* Where a reporter may take a run.
RunEdge(old, new) ==
    \/ old = "queued"   /\ new \in {"starting", "failed", "aborted"}
    \/ old = "starting" /\ new \in {"running", "failed", "aborted", "stale"}
    \/ old = "running"  /\ new \in Terminal \union {"stale"}
    \/ old = "stale"    /\ new \in {"running", "failed", "aborted"}

\* Where a scheduler may take a run.
SchedulerEdge(old, new) ==
    \/ old = "queued" /\ new \in {"starting", "failed", "aborted"}
    \/ old \in {"starting", "running", "stale"} /\ new \in Terminal

-----------------------------------------------------------------------------
(* The scripts.                                                            *)

\* SUBMIT_RUN_LUA: create the run's metadata, once.
SubmitRun(run) ==
    IF run.status # "none"
    THEN Reply("exists", run)
    ELSE Reply("ok", [run EXCEPT !.status = "queued", !.revision = 0,
                                 !.counts = NoCounts])

\* INITIALIZE_RUN_LUA: the first call installs the plan.  The status hash starts
\* at pending; the snapshot hash takes whatever snapshot the caller holds.
InitializeRun(run, snapshots) ==
    IF run.initialized
    THEN Reply("finished", run)
    ELSE Reply("ok",
           [run EXCEPT
              !.status = IF @ \in {"none", "queued"} THEN "starting" ELSE @,
              !.initialized = TRUE,
              !.revision = 0,
              !.counts = [NoCounts EXCEPT !["pending"] = Cardinality(Counted)],
              !.task = [t \in Task |-> IF @[t] = "absent" THEN "pending" ELSE @[t]],
              !.data = [t \in Task |-> IF @[t].status = "absent"
                                       THEN snapshots[t] ELSE @[t]]])

\* TASK_TRANSITION_LUA.  The revision test reads the snapshot hash, the
\* transition test the status hash; a snapshot write may skip intermediate states.
\* Mutant of TaskLegal: a snapshot replaces a terminal status as well.
TaskLegalOverTerminal(old, new, isSnapshot) == old = new \/ TaskEdge(old, new) \/ isSnapshot

TaskLegal(old, new, isSnapshot) ==
    \/ old = new
    \/ TaskEdge(old, new)
    \/ isSnapshot /\ old \notin TerminalTask

Stored(run, t) == IF run.task[t] = "absent" THEN "pending" ELSE run.task[t]

WriteTask(run, t, snap, isSnapshot) ==
    LET old == Stored(run, t)
        new == snap.status
        counted == t \in Counted /\ old # new
    IN  IF snap.revision <= run.data[t].revision
        THEN Reply("stale", run)
        ELSE IF ~TaskLegal(old, new, isSnapshot)
        THEN Reply("invalid", run)
        ELSE Reply("ok",
               [run EXCEPT
                  !.task[t] = new,
                  !.data[t] = snap,
                  !.counts = [s \in TaskStatus |->
                                @[s] + (IF counted /\ s = new THEN 1 ELSE 0)
                                     - (IF counted /\ s = old THEN 1 ELSE 0)]])

\* RUN_TRANSITION_LUA.
\* Mutant of RunLegal, likewise.
RunLegalOverTerminal(old, new, isSnapshot) == old = new \/ RunEdge(old, new) \/ isSnapshot

RunLegal(old, new, isSnapshot) ==
    \/ old = new
    \/ RunEdge(old, new)
    \/ isSnapshot /\ old \notin Terminal

\* Mutant of Listing: no SREM at a terminal status.
ListingKept(run, new) == run.listed \/ new = "running"

\* Membership of the "running" set after a write of the status new.
Listing(run, new) ==
    \/ new = "running"
    \/ run.listed /\ new \notin Terminal

WriteRun(run, revision, new, isSnapshot) ==
    LET old == IF run.status = "none" THEN "starting" ELSE run.status
    IN  IF revision <= run.revision
        THEN Reply("stale", run)
        ELSE IF ~RunLegal(old, new, isSnapshot)
        THEN Reply("invalid", run)
        ELSE Reply("ok", [run EXCEPT !.status = new,
                                     !.revision = revision,
                                     !.listed = Listing(run, new)])

\* Mutant of FinalizeRun: without its test for another terminal status.
FinalizeAlways(run, new, summary) ==
    Reply("ok", [run EXCEPT !.status = new, !.counts = summary, !.listed = FALSE])

\* FINALIZE_RUN_LUA: the summary overwrites the counters, whatever they were.
FinalizeRun(run, new, summary) ==
    IF run.status \in Terminal /\ run.status # new
    THEN Reply("finished", run)
    ELSE Reply("ok", [run EXCEPT !.status = new, !.counts = summary,
                                 !.listed = FALSE])

\* SCHEDULER_RUN_TRANSITION_LUA.  A terminal verdict aborts what the snapshots
\* call unfinished, one revision up, and recounts from the snapshots.
Unfinished(run, t) == run.data[t].status \in {"pending", "running"}

SweptData(run) ==
    [t \in Task |-> IF Unfinished(run, t)
                    THEN [status |-> "aborted", revision |-> run.data[t].revision + 1]
                    ELSE run.data[t]]

SweptTask(run) == [t \in Task |-> IF Unfinished(run, t) THEN "aborted" ELSE run.task[t]]

\* Mutant of Sweep: the counters stay as they were.
SweepWithoutRecount(run) == [run EXCEPT !.data = SweptData(run), !.task = SweptTask(run)]

Sweep(run) ==
    [run EXCEPT !.data = SweptData(run),
                !.task = SweptTask(run),
                !.counts = Census([t \in Task |-> SweptData(run)[t].status])]

SchedulerWrite(run, new) ==
    IF run.status = "none" THEN Reply("missing", run)
    ELSE IF run.status \in Terminal THEN Reply("finished", run)
    ELSE IF run.status # new /\ ~SchedulerEdge(run.status, new) THEN Reply("invalid", run)
    ELSE IF new \notin Terminal THEN Reply("ok", [run EXCEPT !.status = new])
    ELSE Reply("ok", [Sweep(run) EXCEPT !.status = new, !.listed = FALSE])
=============================================================================
