--------------------------- MODULE RedisReporter ---------------------------
(***************************************************************************)
(* process_reporter_redis.py: the Analyzer's reporter keeps a local        *)
(* snapshot of the run, writes each event to Redis and, after a failed     *)
(* write, replays the whole snapshot when Redis answers again.  Its caller *)
(* is AnalysisReporting of ida_analyze_bin.py; its heartbeat thread calls  *)
(* it too, under the same lock; a scheduler may settle the run behind its  *)
(* back.                                                                   *)
(*                                                                         *)
(* Every Redis call is one step with three outcomes: it is answered, its   *)
(* request is lost, or it is applied and its answer is lost.               *)
(***************************************************************************)
EXTENDS RunStore

CONSTANTS MaxLosses,   \* bound on lost requests and answers
          MaxRevision, \* bound on the events of one task
          EarlyLoss,   \* may a call fail before the run is initialized in Redis?
          Takeover     \* may a scheduler abort the run while the Analyzer lives?

ASSUME ReporterAssumption ==
    /\ MaxLosses \in Nat /\ MaxRevision \in Nat
    /\ EarlyLoss \in BOOLEAN /\ Takeover \in BOOLEAN

VARIABLES
    store,     \* the run as Redis holds it
    runState,  \* _run_state: status and revision
    tasks,     \* _tasks: the snapshot of each task
    dirty,     \* _dirty: Redis may lack something of the local snapshot
    final,     \* _final_status, "none" before finalize_run
    states,    \* AnalysisReporting._states
    verdict,   \* the final status the Analyzer's main thread arrived at
    phase,     \* how far that thread is
    call,      \* the operation that holds the reporter's lock
    pc,        \* where that operation stands
    left,      \* the tasks that a synchronisation has still to write
    scheduler, \* whether a scheduler watches the run, or how it let go of it
    losses

vars == <<store, runState, tasks, dirty, final, states, verdict, phase, call, pc,
          left, scheduler, losses>>
callerVars == <<states, verdict, phase>>

NoCall == [kind |-> "none", task |-> "none", status |-> "none"]
Op(kind, t, status) == [kind |-> kind, task |-> t, status |-> status]

\* A run that a scheduler has just started, or one that nobody submitted.
Init ==
    /\ \/ store = [NoRun EXCEPT !.status = "starting"] /\ scheduler = "watching"
       \/ store = NoRun /\ scheduler = "none"
    /\ runState = [status |-> "starting", revision |-> 0]
    /\ tasks = [t \in Task |-> [status |-> "pending", revision |-> 0]]
    /\ dirty = TRUE
    /\ final = "none"
    /\ states = [t \in Task |-> "pending"]
    /\ verdict = "none"
    /\ phase = "new"
    /\ call = NoCall
    /\ pc = "ready"
    /\ left = {}
    /\ losses = 0

Over == {"closed", "dead"}

\* The heartbeat thread lives from initialize_run to close.
Beating == {"initialized", "working", "judged", "finalized", "flushed"}

\* AnalysisReporting.summary.
Summary == Census(states)

-----------------------------------------------------------------------------
(* The caller.  An operation takes the lock; if the reporter is dirty it   *)
(* synchronises first.                                                     *)

\* Mutant of Changed: an off-by-one.
ChangedTwice == {t \in Task : tasks[t].revision > 1}

\* The tasks that a synchronisation writes.
Changed == {t \in Task : tasks[t].revision > 0}

Begin(op) ==
    /\ pc = "ready"
    /\ call' = op
    /\ pc' = IF dirty THEN "init" ELSE "apply"
    /\ left' = IF dirty THEN Changed ELSE {}
    /\ UNCHANGED <<store, runState, tasks, dirty, scheduler, losses>>

\* initialize_run leaves the reporter dirty and synchronises.
InitializeCall ==
    /\ phase = "new"
    /\ phase' = "initialized"
    /\ Begin(Op("initialize", "none", "none"))
    /\ UNCHANGED <<final, states, verdict>>

\* emit_run_status(RUNNING).
RunningCall ==
    /\ phase = "initialized"
    /\ phase' = "working"
    /\ Begin(Op("run", "none", "running"))
    /\ UNCHANGED <<final, states, verdict>>

\* emit_task_status drops what its own record of the task does not allow; the record
\* follows the event, which this thread alone can tell from preceding it.
TaskCall(t, new) ==
    /\ phase = "working"
    /\ TaskEdge(states[t], new)
    /\ states' = [states EXCEPT ![t] = new]
    /\ Begin(Op("task", t, new))
    /\ UNCHANGED <<final, verdict, phase>>

\* emit_progress of a skill that runs.
ProgressCall(t) ==
    /\ phase = "working"
    /\ states[t] = "running"
    /\ tasks[t].revision + 1 < MaxRevision
    /\ Begin(Op("task", t, "running"))
    /\ UNCHANGED <<final, callerVars>>

\* abort_pending has left no task unfinished when the run's verdict is emitted.
VerdictCall(v) ==
    /\ phase = "working"
    /\ \A t \in Task : states[t] \in TerminalTask
    /\ phase' = "judged"
    /\ verdict' = v
    /\ Begin(Op("run", "none", v))
    /\ UNCHANGED <<final, states>>

\* finalize_run notes status and summary before anything else.
FinalizeCall ==
    /\ phase = "judged"
    /\ phase' = "finalized"
    /\ final' = verdict
    /\ Begin(Op("finalize", "none", verdict))
    /\ UNCHANGED <<states, verdict>>

\* flush: a dirty reporter synchronises.
Flush ==
    \/ dirty /\ Begin(Op("flush", "none", "none"))
    \/ /\ ~dirty /\ pc = "ready"
       /\ UNCHANGED <<store, runState, tasks, dirty, call, pc, left, scheduler, losses>>

FlushCall ==
    /\ phase = "finalized"
    /\ phase' = "flushed"
    /\ Flush
    /\ UNCHANGED <<final, states, verdict>>

\* close stops the heartbeat thread and flushes once more.
CloseCall ==
    /\ phase = "flushed"
    /\ phase' = "closed"
    /\ Flush
    /\ UNCHANGED <<final, states, verdict>>

\* Mutant of HeartbeatCall: a dirty reporter keeps silent.
HeartbeatWhenClean ==
    /\ phase \in Beating
    /\ ~dirty
    /\ Begin(Op("heartbeat", "none", "none"))
    /\ UNCHANGED <<final, callerVars>>

\* _heartbeat_loop.
HeartbeatCall ==
    /\ phase \in Beating
    /\ Begin(Op("heartbeat", "none", "none"))
    /\ UNCHANGED <<final, callerVars>>

-----------------------------------------------------------------------------
(* A Redis call: the reply arrives, or RedisError is raised and the        *)
(* request may have been applied or not.                                   *)

Answered(reply) == store' = reply.run /\ UNCHANGED losses

\* Mutant of Fails: the error is swallowed.
FailsSilently(reply) ==
    /\ losses < MaxLosses
    /\ losses' = losses + 1
    /\ store' \in {store, reply.run}
    /\ EarlyLoss \/ store'.initialized
    /\ UNCHANGED dirty

Fails(reply) ==
    /\ losses < MaxLosses
    /\ losses' = losses + 1
    /\ store' \in {store, reply.run}
    /\ EarlyLoss \/ store'.initialized
    /\ dirty' = TRUE

Acknowledged(op) == [code |-> op, run |-> store]

\* The end of an operation that holds the lock.
Done == pc' = "ready" /\ call' = NoCall /\ left' = {}

\* Mutant of AfterSync: whoever asked for a synchronisation goes on.
AfterSyncGoOn(succeeded) ==
    IF succeeded \/ call.kind \in {"run", "task"}
    THEN pc' = "apply" /\ left' = {} /\ UNCHANGED call
    ELSE Done

\* What _try_resync_locked's result makes of the operation that asked for it: an
\* event is applied anyway, finalize_run and heartbeat go on only after a success.
AfterSync(succeeded) ==
    IF \/ call.kind \in {"run", "task"}
       \/ succeeded /\ call.kind \in {"finalize", "heartbeat"}
    THEN pc' = "apply" /\ left' = {} /\ UNCHANGED call
    ELSE Done

\* One write of a synchronisation; a rejected one ends it and leaves dirty set.
SyncCall(reply, next, rest) ==
    /\ \/ /\ Answered(reply)
          /\ UNCHANGED dirty
          /\ IF Rejected(reply) THEN AfterSync(FALSE)
             ELSE pc' = next /\ left' = rest /\ UNCHANGED call
       \/ Fails(reply) /\ AfterSync(FALSE)
    /\ UNCHANGED <<runState, tasks, final, callerVars, scheduler>>

AfterTasks(rest) == IF rest # {} THEN "tasks" ELSE IF final # "none" THEN "final" ELSE "beat"

SyncInitialize ==
    /\ pc = "init"
    /\ SyncCall(InitializeRun(store, tasks),
                IF runState.revision > 0 THEN "run" ELSE AfterTasks(left), left)

SyncRun ==
    /\ pc = "run"
    /\ SyncCall(WriteRun(store, runState.revision, runState.status, TRUE),
                AfterTasks(left), left)

\* The code writes the tasks in the plan's order; here any order will do.
SyncTask(t) ==
    /\ pc = "tasks"
    /\ t \in left
    /\ SyncCall(WriteTask(store, t, tasks[t], TRUE), AfterTasks(left \ {t}), left \ {t})

SyncFinalize ==
    /\ pc = "final"
    /\ SyncCall(FinalizeRun(store, final, Summary), "beat", left)

\* The heartbeat that ends a synchronisation; only then is the reporter clean.
SyncHeartbeat ==
    /\ pc = "beat"
    /\ \/ Answered(Acknowledged("ok")) /\ dirty' = FALSE /\ AfterSync(TRUE)
       \/ Fails(Acknowledged("ok")) /\ AfterSync(FALSE)
    /\ UNCHANGED <<runState, tasks, final, callerVars, scheduler>>

-----------------------------------------------------------------------------
(* The operation itself.                                                   *)

\* _write_or_defer_locked.
WriteOrDefer(reply) ==
    \/ Answered(reply) /\ UNCHANGED dirty
    \/ Fails(reply)

\* _emit_run_locked: the event is applied locally first; a rejected write takes it
\* back, a failed one leaves it for the next synchronisation.
ApplyRun ==
    LET next  == [status |-> call.status, revision |-> runState.revision + 1]
        reply == WriteRun(store, next.revision, next.status, FALSE)
    IN  /\ pc = "apply" /\ call.kind = "run"
        /\ \/ dirty /\ runState' = next /\ UNCHANGED <<store, dirty, losses>>
           \/ /\ ~dirty /\ Answered(reply) /\ UNCHANGED dirty
              /\ runState' = IF Rejected(reply) THEN runState ELSE next
           \/ ~dirty /\ Fails(reply) /\ runState' = next
        /\ Done
        /\ UNCHANGED <<tasks, final, callerVars, scheduler>>

\* _emit_task_locked, likewise.
ApplyTask ==
    LET t == call.task
        next  == [status |-> call.status, revision |-> tasks[t].revision + 1]
        reply == WriteTask(store, t, next, FALSE)
        applied == [tasks EXCEPT ![t] = next]
    IN  /\ pc = "apply" /\ call.kind = "task"
        /\ \/ dirty /\ tasks' = applied /\ UNCHANGED <<store, dirty, losses>>
           \/ /\ ~dirty /\ Answered(reply) /\ UNCHANGED dirty
              /\ tasks' = IF Rejected(reply) THEN tasks ELSE applied
           \/ ~dirty /\ Fails(reply) /\ tasks' = applied
        /\ Done
        /\ UNCHANGED <<runState, final, callerVars, scheduler>>

ApplyFinalize ==
    /\ pc = "apply" /\ call.kind = "finalize"
    /\ WriteOrDefer(FinalizeRun(store, final, Summary))
    /\ Done
    /\ UNCHANGED <<runState, tasks, final, callerVars, scheduler>>

ApplyHeartbeat ==
    /\ pc = "apply" /\ call.kind = "heartbeat"
    /\ WriteOrDefer(Acknowledged("ok"))
    /\ Done
    /\ UNCHANGED <<runState, tasks, final, callerVars, scheduler>>

-----------------------------------------------------------------------------
(* The rest of the world.                                                  *)

\* The Analyzer is killed.
Die ==
    /\ phase \notin Over
    /\ phase' = "dead"
    /\ Done
    /\ UNCHANGED <<store, runState, tasks, dirty, final, states, verdict, scheduler, losses>>

SchedulerSettles(new) ==
    /\ scheduler = "watching"
    /\ store.status \in {"starting", "running"}
    /\ store' = SchedulerWrite(store, new).run
    /\ scheduler' = IF store.initialized THEN "settled" ELSE "gone"
    /\ UNCHANGED <<runState, tasks, dirty, final, callerVars, call, pc, left, losses>>

\* A recovering scheduler aborts a run whose heartbeat has expired.
Abort == Takeover /\ SchedulerSettles("aborted")

\* The scheduler that waited for the Analyzer judges by its exit code.
Conclude ==
    /\ phase \in Over /\ pc = "ready"
    /\ \E v \in {"succeeded", "failed"} : SchedulerSettles(v)

-----------------------------------------------------------------------------
Operate ==
    \/ SyncInitialize \/ SyncRun \/ (\E t \in Task : SyncTask(t)) \/ SyncFinalize
    \/ SyncHeartbeat \/ ApplyRun \/ ApplyTask \/ ApplyFinalize \/ ApplyHeartbeat

Next ==
    \/ InitializeCall \/ RunningCall \/ FinalizeCall \/ FlushCall \/ CloseCall
    \/ HeartbeatCall
    \/ \E t \in Task : (\E new \in TaskStatus : TaskCall(t, new)) \/ ProgressCall(t)
    \/ \E v \in {"succeeded", "failed"} : VerdictCall(v)
    \/ Operate
    \/ Die \/ Abort \/ Conclude

Spec == Init /\ [][Next]_vars

\* A thread that holds the lock goes on, and the heartbeat thread keeps calling.
FairSpec == Spec /\ WF_vars(Operate) /\ WF_vars(HeartbeatCall)

-----------------------------------------------------------------------------
(* Properties.                                                             *)

Kind == {"none", "initialize", "run", "task", "finalize", "flush", "heartbeat"}

\* The variables have the types of the reporter's fields, and an operation is where
\* its kind and the fields it reads allow (emit, heartbeat, _try_resync_locked).
TypeOK ==
    /\ store \in StoredRun
    /\ runState \in [status: RunStatus, revision: Nat]
    /\ tasks \in [Task -> [status: TaskStatus, revision: Nat]]
    /\ dirty \in BOOLEAN
    /\ final \in {"none"} \union Terminal
    /\ states \in [Task -> TaskStatus]
    /\ verdict \in {"none"} \union Terminal
    /\ phase \in Beating \union {"new"} \union Over
    /\ call \in [kind: Kind, task: Task \union {"none"},
                 status: TaskStatus \union RunStatus]
    /\ pc \in {"ready", "init", "run", "tasks", "final", "beat", "apply"}
    /\ left \subseteq Task
    /\ scheduler \in {"none", "watching", "settled", "gone"}
    /\ losses \in 0..MaxLosses
    /\ pc = "ready" <=> call = NoCall
    /\ pc = "tasks" => left # {}
    /\ pc = "final" => final # "none"
    /\ pc = "apply" => call.kind \in {"run", "task", "finalize", "heartbeat"}

Undisturbed == scheduler \in {"none", "watching"}

\* docs/en/process-monitoring.md: after a reconnection "the latest local snapshots
\* are replayed".  A reporter that believes it is clean and is not in the middle of
\* an operation has in Redis, for the run and for every task, what its caller said.
SnapshotsReplayed ==
    phase # "dead" /\ pc = "ready" /\ ~dirty /\ Undisturbed =>
        /\ store.data = tasks
        /\ \A t \in Task : store.task[t] = tasks[t].status /\ tasks[t].status = states[t]
        /\ runState.revision > 0 => store.status = runState.status

\* The counters are the census of the status hash after every script: no request
\* replayed after a lost answer is counted twice, and neither a scheduler's recount
\* nor the Analyzer's own summary disagrees with the tasks.
CountersExact == store.initialized => store.counts = Census(store.task)

\* The snapshot a dashboard shows and the status hash the scripts decide by agree.
HashesAgree == \A t \in Task : store.task[t] = store.data[t].status

\* A run's progress is stored three times, in the status hash, in the snapshots and
\* in the counters, each by other lines of the scripts: the three agree.
StoreAgrees == CountersExact /\ HashesAgree

\* A reporter that closed clean leaves the Analyzer's verdict and every task finished.
ClosedCleanIsComplete ==
    phase = "closed" /\ pc = "ready" /\ ~dirty /\ Undisturbed =>
        /\ store.status = verdict
        /\ \A t \in Task : store.task[t] \in TerminalTask
        /\ ~store.listed

\* While the Analyzer works, a reporter that lost a write catches up, unless a
\* scheduler settled the run.
CatchesUp ==
    phase = "working" /\ dirty ~> ~dirty \/ phase \in Over \/ ~Undisturbed

-----------------------------------------------------------------------------
(* What the readers of the run see: RunRecord.                             *)

Record == INSTANCE RunRecord WITH
              status    <- store.status,
              task      <- store.task,
              revision  <- [t \in Task |-> store.data[t].revision],
              counts    <- store.counts,
              installed <- store.initialized,
              settled   <- scheduler = "settled"

\* Lost, repeated and late requests of the reporter, replays of its snapshots and a
\* scheduler that settles the run in between: in Redis they are one history that goes
\* forward only and ends with the first verdict, however late the first contact is.
ImplementsRunRecord == Record!Spec
=============================================================================
