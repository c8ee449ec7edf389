-------------------------- MODULE ProcessScheduler --------------------------
(***************************************************************************)
(* process_scheduler_redis.py: scheduler processes take runs from a Redis  *)
(* stream through a consumer group, one at a time under a global lease,    *)
(* start one Analyzer subprocess per run and settle the run's status.      *)
(*                                                                         *)
(* Each Redis call of a scheduler or an Analyzer is one action, so that    *)
(* other processes, key expiry and crashes interleave between the calls.   *)
(* What an Analyzer writes about its tasks is RedisReporter's subject.     *)
(*                                                                         *)
(* Time is abstract: a TTL elapses in an action of its own.  Faults names  *)
(* the timing assumptions that an instance gives up:                       *)
(*   "lease_lapse"      the lease of a live holder expires (its renewals   *)
(*                      fail or the process is suspended for the TTL)      *)
(*   "heartbeat_lapse"  the heartbeat of a live Analyzer expires           *)
(*   "slow_boot"        an Analyzer's first contact with Redis comes later *)
(*                      than the recovery of its crashed scheduler         *)
(***************************************************************************)
EXTENDS RunStore, Sequences

CONSTANTS Run,         \* run ids
          Scheduler,   \* scheduler processes
          Proc,        \* Analyzer subprocesses, each started at most once
          NoOne,       \* neither a run nor a process
          Orphan,      \* the lease token of a scheduler that is gone
          Faults,      \* see above
          MaxCrashes   \* bound on scheduler crashes and interrupts

ASSUME SchedulerAssumption ==
    /\ NoOne \notin Run \union Proc \union Scheduler
    /\ Orphan \notin Scheduler \union {NoOne}
    /\ Faults \subseteq {"lease_lapse", "heartbeat_lapse", "slow_boot"}
    /\ MaxCrashes \in Nat

VARIABLES
    store,      \* the stored run of each run id
    queue,      \* the run-queue stream: run ids in submission order
    delivered,  \* how many stream entries the consumer group has delivered
    pending,    \* the group's pending entries: delivered, not acknowledged
    idle,       \* the pending entries that have been idle for recovery_idle_ms
    lease,      \* whose token the scheduler-lease key holds
    heartbeat,  \* the runs whose heartbeat key exists
    pc,         \* where each scheduler stands in run_once
    job,        \* each scheduler's local variables
    proc,       \* the Analyzer subprocesses
    crashes

redisVars == <<store, queue, delivered, pending, idle, lease, heartbeat>>
vars == <<redisVars, pc, job, proc, crashes>>

Busy == {"next", "claim", "read", "status", "beat", "abort", "start", "spawn",
         "spawn_failed", "wait", "verdict", "conclude", "ack", "release", "unwind"}
Holding == {"status", "beat", "abort", "start", "spawn", "spawn_failed", "wait",
            "verdict", "conclude", "ack"}

Alive   == {"booting", "live", "working", "reported", "closing"}
Beating == {"live", "working", "reported"}

NoJob  == [entry |-> NoOne, recovered |-> FALSE, seen |-> "none", child |-> NoOne]
NoProc == [state |-> "free", run |-> NoOne, revision |-> 0, verdict |-> "none", ok |-> FALSE]

Init ==
    /\ store = [r \in Run |-> NoRun]
    /\ queue = << >>
    /\ delivered = 0
    /\ pending = {}
    /\ idle = {}
    /\ lease = NoOne
    /\ heartbeat = {}
    /\ pc = [s \in Scheduler |-> "idle"]
    /\ job = [s \in Scheduler |-> NoJob]
    /\ proc = [p \in Proc |-> NoProc]
    /\ crashes = 0

Goto(s, label) == pc' = [pc EXCEPT ![s] = label]
Settled(r) == store[r].status \in Terminal

-----------------------------------------------------------------------------
(* The submitter.                                                          *)

\* RedisRunQueue.submit.
Submit(r) ==
    LET reply == SubmitRun(store[r])
    IN  /\ reply.code = "ok"
        /\ store' = [store EXCEPT ![r] = reply.run]
        /\ queue' = Append(queue, r)
        /\ UNCHANGED <<delivered, pending, idle, lease, heartbeat, pc, job, proc, crashes>>

-----------------------------------------------------------------------------
(* run_once: the lease and the choice of an entry.                         *)

\* Mutant of AcquireLease: SET without NX.
AcquireWithoutNX(s) ==
    /\ pc[s] = "idle"
    /\ lease' = s
    /\ Goto(s, "next")
    /\ UNCHANGED <<store, queue, delivered, pending, idle, heartbeat, job, proc, crashes>>

\* SET NX PX.  A scheduler that does not get the lease sleeps and tries again.
AcquireLease(s) ==
    /\ pc[s] = "idle"
    /\ lease = NoOne
    /\ lease' = s
    /\ Goto(s, "next")
    /\ UNCHANGED <<store, queue, delivered, pending, idle, heartbeat, job, proc, crashes>>

\* Mutant of CountPending: new entries do not wait for the recovery of old ones.
ReadFirst(s) ==
    /\ pc[s] = "next"
    /\ Goto(s, IF delivered = Len(queue) THEN "claim" ELSE "read")
    /\ UNCHANGED <<redisVars, job, proc, crashes>>

\* Mutant of CountPending: no recovery.
ReadOnly(s) ==
    /\ pc[s] = "next"
    /\ Goto(s, "read")
    /\ UNCHANGED <<redisVars, job, proc, crashes>>

\* next_entry: recovery comes first, a new entry is read only when nothing is pending.
CountPending(s) ==
    /\ pc[s] = "next"
    /\ Goto(s, IF pending # {} THEN "claim" ELSE "read")
    /\ UNCHANGED <<redisVars, job, proc, crashes>>

\* e was submitted no later than f.
NoLater(e, f) == \E i, j \in DOMAIN queue : i <= j /\ queue[i] = e /\ queue[j] = f

\* The entries XAUTOCLAIM may hand over.
Claimable == {e \in pending \intersect idle :
                \/ "slow_boot" \in Faults
                \/ \A p \in Proc : ~(proc[p].run = e /\ proc[p].state = "booting")}

Take(s, e, isRecovered) ==
    /\ job' = [job EXCEPT ![s] = [NoJob EXCEPT !.entry = e, !.recovered = isRecovered]]
    /\ Goto(s, "status")

\* XAUTOCLAIM with COUNT 1: the oldest idle entry, whoever held it.
ClaimEntry(s) ==
    /\ pc[s] = "claim"
    /\ \E e \in Claimable :
         /\ \A f \in Claimable : NoLater(e, f)
         /\ Take(s, e, TRUE)
         /\ idle' = idle \ {e}
    /\ UNCHANGED <<store, queue, delivered, pending, lease, heartbeat, proc, crashes>>

\* XREADGROUP ">".
ReadEntry(s) ==
    /\ pc[s] = "read"
    /\ delivered < Len(queue)
    /\ delivered' = delivered + 1
    /\ pending' = pending \union {queue[delivered + 1]}
    /\ idle' = idle \ {queue[delivered + 1]}
    /\ Take(s, queue[delivered + 1], FALSE)
    /\ UNCHANGED <<store, queue, lease, heartbeat, proc, crashes>>

FindNothing(s) ==
    /\ \/ pc[s] = "claim" /\ Claimable = {}
       \/ pc[s] = "read" /\ delivered = Len(queue)
    /\ Goto(s, "release")
    /\ UNCHANGED <<redisVars, job, proc, crashes>>

-----------------------------------------------------------------------------
(* _handle_entry.                                                          *)

ReadStatus(s) ==
    /\ pc[s] = "status"
    /\ job' = [job EXCEPT ![s].seen = store[job[s].entry].status]
    /\ Goto(s, IF Settled(job[s].entry) THEN "ack" ELSE "beat")
    /\ UNCHANGED <<redisVars, proc, crashes>>

\* Mutant of CheckHeartbeat: a recovered entry whose Analyzer is alive is acknowledged.
AcknowledgeBeating(s) ==
    /\ pc[s] = "beat"
    /\ Goto(s, IF job[s].entry \in heartbeat THEN "ack"
               ELSE IF job[s].recovered /\ job[s].seen \in {"starting", "running", "stale"}
               THEN "abort"
               ELSE "start")
    /\ UNCHANGED <<redisVars, job, proc, crashes>>

\* Mutant of CheckHeartbeat: the heartbeat is not looked at.
IgnoreHeartbeat(s) ==
    /\ pc[s] = "beat"
    /\ Goto(s, IF job[s].recovered /\ job[s].seen \in {"starting", "running", "stale"}
               THEN "abort"
               ELSE "start")
    /\ UNCHANGED <<redisVars, job, proc, crashes>>

\* Mutant of CheckHeartbeat: a recovered run that was only starting is started again.
StartAgain(s) ==
    /\ pc[s] = "beat"
    /\ Goto(s, IF job[s].entry \in heartbeat THEN "release"
               ELSE IF job[s].recovered /\ job[s].seen \in {"running", "stale"}
               THEN "abort"
               ELSE "start")
    /\ UNCHANGED <<redisVars, job, proc, crashes>>

\* A heartbeat leaves the entry pending; a recovered entry whose Analyzer is silent
\* is aborted; anything else is started.
CheckHeartbeat(s) ==
    /\ pc[s] = "beat"
    /\ Goto(s, IF job[s].entry \in heartbeat THEN "release"
               ELSE IF job[s].recovered /\ job[s].seen \in {"starting", "running", "stale"}
               THEN "abort"
               ELSE "start")
    /\ UNCHANGED <<redisVars, job, proc, crashes>>

\* RedisRunQueue.transition: a rejected transition raises out of run_once.
Transition(s, new, next) ==
    LET reply == SchedulerWrite(store[job[s].entry], new)
    IN  /\ store' = [store EXCEPT ![job[s].entry] = reply.run]
        /\ Goto(s, IF Rejected(reply) THEN "unwind" ELSE next)
        /\ UNCHANGED <<queue, delivered, pending, idle, lease, heartbeat, job, proc, crashes>>

AbortRecovered(s)  == pc[s] = "abort" /\ Transition(s, "aborted", "ack")
MarkStarting(s)    == pc[s] = "start" /\ Transition(s, "starting", "spawn")
MarkSpawnFailed(s) == pc[s] = "spawn_failed" /\ Transition(s, "failed", "ack")

\* popen_factory.
Spawn(s, p) ==
    /\ pc[s] = "spawn"
    /\ proc[p].state = "free"
    /\ proc' = [proc EXCEPT ![p] = [NoProc EXCEPT !.state = "booting", !.run = job[s].entry]]
    /\ job' = [job EXCEPT ![s].child = p]
    /\ Goto(s, "wait")
    /\ UNCHANGED <<redisVars, crashes>>

\* Mutant of SpawnFails: the failure falls through to the child's exit code.
SpawnFallsThrough(s) ==
    /\ pc[s] = "spawn"
    /\ Goto(s, "verdict")
    /\ UNCHANGED <<redisVars, job, proc, crashes>>

SpawnFails(s) ==
    /\ pc[s] = "spawn"
    /\ Goto(s, "spawn_failed")
    /\ UNCHANGED <<redisVars, job, proc, crashes>>

\* process.wait returns.
Reap(s) ==
    /\ pc[s] = "wait"
    /\ proc[job[s].child].state = "exited"
    /\ Goto(s, "verdict")
    /\ UNCHANGED <<redisVars, job, proc, crashes>>

\* Only a run that the Analyzer left unsettled gets a verdict from the exit code.
CheckVerdict(s) ==
    /\ pc[s] = "verdict"
    /\ Goto(s, IF Settled(job[s].entry) THEN "ack" ELSE "conclude")
    /\ UNCHANGED <<redisVars, job, proc, crashes>>

Conclude(s) ==
    /\ pc[s] = "conclude"
    /\ Transition(s, IF proc[job[s].child].ok THEN "succeeded" ELSE "failed", "ack")

\* XACK names the entry, not the consumer that holds it.
Ack(s) ==
    /\ pc[s] = "ack"
    /\ pending' = pending \ {job[s].entry}
    /\ idle' = idle \ {job[s].entry}
    /\ Goto(s, "release")
    /\ UNCHANGED <<store, queue, delivered, lease, heartbeat, job, proc, crashes>>

\* The finally clause: the lease is deleted only while it holds this process's token.
ReleaseLease(s) ==
    /\ pc[s] \in {"release", "unwind"}
    /\ lease' = IF lease = s THEN NoOne ELSE lease
    /\ Goto(s, IF pc[s] = "release" THEN "idle" ELSE "down")
    /\ job' = [job EXCEPT ![s] = NoJob]
    /\ UNCHANGED <<store, queue, delivered, pending, idle, heartbeat, proc, crashes>>

-----------------------------------------------------------------------------
(* Failures of a scheduler.                                                *)

\* A Redis error or a KeyboardInterrupt at any call: run_once unwinds through its
\* finally clause and serve_forever ends.  The Analyzer, if any, lives on.
Interrupt(s) ==
    /\ pc[s] \in Busy \ {"release", "unwind"}
    /\ crashes < MaxCrashes
    /\ crashes' = crashes + 1
    /\ Goto(s, "unwind")
    /\ UNCHANGED <<redisVars, job, proc>>

\* The process is killed: its token stays in the lease until the TTL elapses.
Crash(s) ==
    /\ pc[s] \in Busy
    /\ crashes < MaxCrashes
    /\ crashes' = crashes + 1
    /\ lease' = IF lease = s THEN Orphan ELSE lease
    /\ Goto(s, "down")
    /\ job' = [job EXCEPT ![s] = NoJob]
    /\ UNCHANGED <<store, queue, delivered, pending, idle, heartbeat, proc>>

\* A new process: a new token, and nothing remembered.
Restart(s) ==
    /\ pc[s] = "down"
    /\ Goto(s, "idle")
    /\ UNCHANGED <<redisVars, job, proc, crashes>>

-----------------------------------------------------------------------------
(* Time.                                                                   *)

LeaseExpires ==
    /\ \/ lease = Orphan
       \/ lease \in Scheduler /\ "lease_lapse" \in Faults
    /\ lease' = NoOne
    /\ UNCHANGED <<store, queue, delivered, pending, idle, heartbeat, pc, job, proc, crashes>>

EntryIdles(e) ==
    /\ e \in pending \ idle
    /\ idle' = idle \union {e}
    /\ UNCHANGED <<store, queue, delivered, pending, lease, heartbeat, pc, job, proc, crashes>>

HeartbeatExpires(r) ==
    /\ r \in heartbeat
    /\ \/ "heartbeat_lapse" \in Faults
       \/ \A p \in Proc : ~(proc[p].run = r /\ proc[p].state \in Beating)
    /\ heartbeat' = heartbeat \ {r}
    /\ UNCHANGED <<store, queue, delivered, pending, idle, lease, pc, job, proc, crashes>>

-----------------------------------------------------------------------------
(* The Analyzer subprocess: _analyze_config's calls on its reporter.       *)

procOnly == <<queue, delivered, pending, idle, lease, pc, job, crashes>>

\* initialize_run, with the heartbeat that ends its first synchronisation.
AnalyzerInitialize(p) ==
    LET r == proc[p].run
    IN  /\ proc[p].state = "booting"
        /\ store' = [store EXCEPT ![r] =
               InitializeRun(@, [t \in Task |-> [status |-> "pending", revision |-> 0]]).run]
        /\ heartbeat' = heartbeat \union {r}
        /\ proc' = [proc EXCEPT ![p].state = "live"]
        /\ UNCHANGED procOnly

\* emit_run_status: a rejected write rolls the local revision back.
AnalyzerReport(p, new, state) ==
    LET r == proc[p].run
        reply == WriteRun(store[r], proc[p].revision + 1, new, FALSE)
    IN  /\ store' = [store EXCEPT ![r] = reply.run]
        /\ proc' = [proc EXCEPT ![p].state = state, ![p].verdict = new,
                                ![p].revision = IF Rejected(reply) THEN @ ELSE @ + 1]

\* RUNNING, and the heartbeat call that follows it.
AnalyzerRunning(p) ==
    /\ proc[p].state = "live"
    /\ AnalyzerReport(p, "running", "working")
    /\ heartbeat' = heartbeat \union {proc[p].run}
    /\ UNCHANGED procOnly

\* SUCCEEDED or FAILED; a plan that does not build is FAILED without RUNNING.
AnalyzerVerdict(p) ==
    /\ \/ proc[p].state = "working" /\ \E v \in {"succeeded", "failed"} : AnalyzerReport(p, v, "reported")
       \/ proc[p].state = "live" /\ AnalyzerReport(p, "failed", "reported")
    /\ UNCHANGED <<procOnly, heartbeat>>

\* finalize_run, then close stops the heartbeat thread.
AnalyzerFinalize(p) ==
    LET r == proc[p].run
    IN  /\ proc[p].state = "reported"
        /\ store' = [store EXCEPT ![r] = FinalizeRun(@, proc[p].verdict, @.counts).run]
        /\ proc' = [proc EXCEPT ![p].state = "closing"]
        /\ UNCHANGED <<procOnly, heartbeat>>

\* The process ends: after its last report, or before it because it was killed or
\* could not reach Redis, and then with either exit code.
AnalyzerExit(p) ==
    /\ proc[p].state \in Alive
    /\ \E ok \in BOOLEAN : proc' = [proc EXCEPT ![p].state = "exited", ![p].ok = ok]
    /\ UNCHANGED <<store, procOnly, heartbeat>>

\* The heartbeat thread.
AnalyzerBeat(p) ==
    /\ proc[p].state \in Beating
    /\ proc[p].run \notin heartbeat
    /\ heartbeat' = heartbeat \union {proc[p].run}
    /\ UNCHANGED <<store, procOnly, proc>>

-----------------------------------------------------------------------------
SchedulerStep(s) ==
    \/ AcquireLease(s) \/ CountPending(s) \/ ClaimEntry(s) \/ ReadEntry(s)
    \/ FindNothing(s) \/ ReadStatus(s) \/ CheckHeartbeat(s) \/ AbortRecovered(s)
    \/ MarkStarting(s) \/ (\E p \in Proc : Spawn(s, p)) \/ SpawnFails(s)
    \/ MarkSpawnFailed(s) \/ Reap(s) \/ CheckVerdict(s) \/ Conclude(s)
    \/ Ack(s) \/ ReleaseLease(s)

AnalyzerStep(p) ==
    \/ AnalyzerInitialize(p) \/ AnalyzerRunning(p) \/ AnalyzerVerdict(p)
    \/ AnalyzerFinalize(p) \/ AnalyzerExit(p) \/ AnalyzerBeat(p)

Next ==
    \/ \E r \in Run : Submit(r)
    \/ \E s \in Scheduler : SchedulerStep(s)
    \/ \E s \in Scheduler : Interrupt(s) \/ Crash(s) \/ Restart(s)
    \/ \E p \in Proc : AnalyzerStep(p)
    \/ LeaseExpires
    \/ \E r \in Run : EntryIdles(r) \/ HeartbeatExpires(r)

Spec == Init /\ [][Next]_vars

\* A scheduler process keeps executing, time passes, an Analyzer ends (its workers
\* have timeouts) and an operator restarts a scheduler that is down.
Fairness ==
    /\ \A s \in Scheduler : WF_vars(SchedulerStep(s)) /\ WF_vars(Restart(s))
    /\ WF_vars(LeaseExpires)
    /\ \A r \in Run : WF_vars(EntryIdles(r)) /\ WF_vars(HeartbeatExpires(r))
    /\ \A p \in Proc : WF_vars(AnalyzerExit(p))

FairSpec == Spec /\ Fairness

-----------------------------------------------------------------------------
(* Properties.                                                             *)

Job == [entry: Run \union {NoOne}, recovered: BOOLEAN, seen: RunStatus,
        child: Proc \union {NoOne}]
Process == [state: Alive \union {"free", "exited"}, run: Run \union {NoOne},
            revision: Nat, verdict: {"none", "running"} \union Terminal, ok: BOOLEAN]

\* The variables have the types of the code's data, and a local variable is set where
\* run_once and _handle_entry use it: an entry while one is handled, a child while
\* one is waited for, a verdict when one is finalized.
TypeOK ==
    /\ store \in [Run -> StoredRun]
    /\ queue \in Seq(Run)
    /\ delivered \in 0..Len(queue)
    /\ pending \subseteq Run
    /\ idle \subseteq pending
    /\ lease \in Scheduler \union {NoOne, Orphan}
    /\ heartbeat \subseteq Run
    /\ pc \in [Scheduler -> Busy \union {"idle", "down"}]
    /\ job \in [Scheduler -> Job]
    /\ proc \in [Proc -> Process]
    /\ crashes \in Nat
    /\ \A s \in Scheduler : pc[s] \in Holding => job[s].entry \in Run
    /\ \A s \in Scheduler : pc[s] \in {"wait", "verdict", "conclude"} => job[s].child \in Proc
    /\ \A p \in Proc : proc[p].state # "free" => proc[p].run \in Run
    /\ \A p \in Proc : proc[p].state = "reported" => proc[p].verdict \in Terminal

\* The lease serialises schedulers: whoever is inside run_once holds it, so two
\* schedulers never handle entries at the same time (acquire_scheduler_lease,
\* renew_scheduler_lease, release_scheduler_lease).
LeaseExcludes ==
    "lease_lapse" \notin Faults => \A s \in Scheduler : pc[s] \in Busy => lease = s

\* A run that left the group's pending list is settled: no crash, interrupt or
\* recovery acknowledges an entry whose run still needs somebody (_handle_entry).
AckedIsSettled ==
    \A i \in 1..delivered : queue[i] \in pending \/ Settled(queue[i])

\* At most one Analyzer is at work: an orphan left by a crashed scheduler and the
\* Analyzer of the next entry never analyse at the same time (next_entry's recovery
\* before new entries, _handle_entry's heartbeat test).
OneAnalysis ==
    \A p, q \in Proc :
        /\ proc[p].state \in {"booting", "live", "working"}
        /\ proc[q].state \in {"booting", "live", "working"}
        => p = q

\* No run gets a second Analyzer, however often its entry is recovered
\* (_handle_entry aborts a recovered run instead of starting it again).
LaunchedOnce ==
    \A p, q \in Proc :
        proc[p].state # "free" /\ proc[p].run = proc[q].run => p = q

\* The "running" set that the dashboards list holds exactly the runs whose status is
\* running, whichever of the four scripts changed the status last.
RunningSetExact == \A r \in Run : store[r].listed <=> store[r].status = "running"

\* A settled run keeps its verdict: neither a late Analyzer nor a recovering or
\* superseded scheduler replaces it.
VerdictIsFinal ==
    [][\A r \in Run : Settled(r) => store'[r].status = store[r].status]_vars

Launch(r) == \E p \in Proc : proc[p].state = "free" /\ proc'[p].state = "booting"
                             /\ proc'[p].run = r

\* docs/en/process-monitoring.md: the scheduler "does not relaunch a recovered Run
\* while its Analyzer heartbeat is still alive".
NoRelaunchWhileBeating == [][\A r \in heartbeat : ~Launch(r)]_vars

\* Every submitted run is settled and acknowledged in the end, through crashes of its
\* scheduler and of its Analyzer.
EveryRunSettles ==
    \A r \in Run : store[r].status = "queued" ~> (Settled(r) /\ r \notin pending)

-----------------------------------------------------------------------------
(* What the scheduler promises, under its timing assumptions: JobQueue.    *)

Delivered == {queue[i] : i \in 1..delivered}

Jobs == INSTANCE JobQueue WITH
            status   <- [r \in Run |-> store[r].status],
            order    <- queue,
            retired  <- Delivered \ pending,
            launched <- {proc[p].run : p \in {q \in Proc : proc[q].state # "free"}}

ImplementsJobQueue == Jobs!Spec
=============================================================================
