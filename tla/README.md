# TLA+ verification of GoldSrc_VibeSignatures

GoldSrc_VibeSignatures drives IDA over MCP to locate symbols in game binaries. Around the analysis
it keeps a run queue and a progress store in Redis, a cache of immutable IDA databases with leases,
a batch coordinator with a memory gate, and a release pipeline. This directory models the parts
whose correctness depends on the order of events: processes that crash, keys that expire, calls and
answers that are lost, threads and workflow runs that interleave.

Run a model with `tlc -config <run>.cfg <module>.tla`, a proof with `tlapm <module>.tla`.
`PROJECT.json` is the index: components, runs, mutants, the map from definitions to source lines,
hazards, findings and theorems.

## Inventory

| Component (source) | State | Operations | Talks to | What is hard, and what makes it correct |
|---|---|---|---|---|
| Redis write model (`process_reporter_redis_scripts.py`) | per run: meta hash (status, revision, counters), status hash, snapshot hash, membership of `running` | five Lua scripts, each atomic; two lease scripts | called by reporter and scheduler | writers that do not know of each other; a verdict is final, the duplicated data agree |
| Run scheduler (`process_scheduler_redis.py`, `process_scheduler_cli.py`) | stream, consumer group, lease token, heartbeats; local: entry, child process | submit, run_once, _handle_entry, lease renewal thread | Redis, Analyzer subprocess | crash between any two calls, expiry, recovery; FIFO, one Analyzer at a time, nobody forgotten |
| Redis reporter (`process_reporter_redis*.py`) | local snapshots, dirty flag, final status | initialize_run, emit, heartbeat, finalize_run, flush, close, heartbeat thread | Redis; a scheduler may settle the run meanwhile | lost requests, lost answers, half-done resynchronisation; Redis ends up with what the Analyzer said |
| Analyzer run (`ida_analyze_bin.py`: analyze, _execute_selected_nodes, run_analysis_pipeline, AnalysisReporting) | task states of the plan, summary, runtime in use | validate, run a segment, run a node, record failures, finish | lifecycle, reporter | failures at every level; each node counted once, an honest verdict, no work under a stale identity |
| MCP supervisor lifecycle (`ida_analyze_bin.py`: IdaMcpLifecycle and its helpers, `mcp_startup.py`) | process, runtime, recovery budget, database file | enter, ensure_ready, exit; start, verify, recover, rebuild, stop | idalib-mcp process trees, worker client | a supervisor that dies or hangs at any moment, errors in the recovery of errors; nothing survives the with block, no database is removed under a live worker |
| Status reader, API (`process_status_reader_redis*.py`, `process_api*.py`) and the page of a run (`pages/src/features/run-detail/`, `pages/src/api/sse.ts`) | cursor of the stream; the page's store | snapshot, event page, SSE stream | Redis | trimmed streams, snapshot and cursor taken at different moments: a client that follows the events ends at the stored state |
| IDB cache (`idb_cache.py`, `idb_cache_leases.py`, `idb_cache_locks.py`) | generations, READY pointer, lease files per tag | publish, probe, restore, pin, seal, release, prune | file locks | pruning against concurrent runs, expiry, clock skew, crashes between renames: what a live lease pins is never pruned |
| IDB selections (`idb_cache_selection.py`, `idb_cache_workflow.py`, `idb_cache_release.py`) | selection document with sealed leases | prepare, seal, restore, release | IDB cache | partial failure must keep every pin; release only after a complete restore |
| S3 transport (`idb_cache_s3.py`, `ci_s3_cache.py`) | objects, receipts | put, prefetch, fetch, receipt | IDB cache | receipt only after its objects; validation before installation |
| Batch coordinator (`analysis_batch.py`, `analysis_memory.py`) | queue of binaries, active workers, results | schedule, launch, finish, terminate, cancel | worker processes, memory gate | one binary per worker, barrier before the serial phase, nothing leaks on cancellation |
| Memory gate (`warmup_memory.py`, `warmup_idb.py`, `idb_warm_worker.py`) | reservations, observed memory | launch, worker_finished, producer owner | batch coordinator | budget at its limit, double release |
| POSIX memory control (`posix_memory.py`) | cgroups, watchdog thread | create, attach, kill, watch | batch workers | race between exit and kill |
| MCP sessions (`mcp_worker_client.py`, `ida_mcp_session.py`, `ida_mcp_keepalive.py`) | worker thread, session, bound database | start, call, retire, respawn, close | IDA processes | a late answer of a retired worker, use of a session bound to another database |
| Planner (`analysis_planner.py`, `analysis_config.py`) | none | plan a configuration | Analyzer, batch | producers before consumers; cycles and duplicate producers are errors |
| Preprocessors, agents, LLM (`ida_skill_preprocessor.py`, `agent_runner.py`, `ida_analyze_util.py`, `ida_llm_decompile.py`, ...) | session ids, attempts | run, retry, fall back | IDA, agent CLI, model | retry limits; the rest is text |
| Release (`release_publish.py`, `release_git.py`, `release_bundle.py`, `release_workflow_lib/`) | accepted artifacts, branches, manifests | validate, accept, push | git, release host | a push with an unknown outcome, a moved branch |
| Game-symbol snapshots, gamedata (`gamesymbol_*.py`, `gamesymbol_snapshot_lib/`, `gamedata_*.py`) | content-addressed files | build, diff, validate, store | release | sequential file transformations |
| Downloads, binaries, tools | files | | | input and output |

Data, configuration and generated files (`bin_artifacts/`, `configs/`, `ida_preprocessor_scripts/`,
`memory/`, the rest of `pages/`) are not components of the program's logic.

## Modules

**RunStore** is the Redis write model of one run. Redis executes a script atomically, so each Lua
script is an operator from a stored run to `[code, run]`: the first element of the script's reply
and what the script leaves behind. A stored run holds the four places where the scripts keep a run's
state: the meta hash, the status hash (`task`), the snapshot hash (`data`) and the `running` set
(`listed`). The duplication is deliberate: the scripts decide by the status hash, dashboards show the
snapshots, counters live in a third place. Timestamps, metadata, the graph and the event stream are
left out; nothing here depends on them.

**ProcessScheduler** is the scheduler with everything it meets: submitters, the stream and its
consumer group, several scheduler processes, the lease key, heartbeat keys and the Analyzer
processes. One action is one Redis call (or one process call), so that anything may happen between
two calls of `_handle_entry`. `pc` is the place in `run_once`, `job` its local variables. An Analyzer
is reduced to the calls it makes on the run's status: the initialisation, RUNNING, the verdict,
FINALIZE, heartbeats; it may die before any of them. `Interrupt` is an exception or a
KeyboardInterrupt at any call (the finally clause releases the lease), `Crash` a kill (the token
stays), `Restart` the operator or the service manager. Time is abstract: a TTL elapses in an action.
`Faults` names the timing assumptions an instance gives up; with `Faults = {}` leases and heartbeats
are renewed before they expire and an Analyzer contacts Redis before its entry is recovered.

**JobQueue** is what the scheduler promises: a FIFO queue with one server, in which only the run at
the head ever changes, is launched at most once, and leaves only with a verdict. `ProcessScheduler`
instantiates it (`Jobs`) with the public status, the stream, the delivered and no longer pending
entries and the launched runs.

**RedisReporter** is the Analyzer's reporter. Every Redis call is a step with three outcomes:
answered, request lost, or applied with its answer lost. An operation takes the reporter's lock
(`call`, `pc`), synchronises first when the reporter is dirty, and then writes; a synchronisation is
a sequence of calls, each of which may fail. The caller is AnalysisReporting with its own record of
the tasks; the heartbeat thread competes for the lock; a scheduler may abort the run at any time and
judges it when the Analyzer is gone.

**RunRecord** is what a reader of a run's record may rely on: the plan is installed once, the run and
its tasks only go forward, each event of a task comes under a greater revision, a verdict stays, and
once a scheduler has settled an installed run its tasks and counters stay too. `RedisReporter`
instantiates it (`Record`) with the status hash, the revisions and counters of the stored run.

**IdbCache** is the warm IDB cache with the jobs of several workflow runs. Its files are generations
(`state`, `stamp`), READY pointers and lease records per tag; its jobs are `prepare_cache_selection`
(under the producer lock: probe, warm, publish and pin, prune, seal, validate, write, validate again)
and `restore_cache_selection` (validate, restore entry by entry, release), in the order the code
visits keys and tags. A key is one binary identity, a generation the database of a key published by a
run. One action is one lock section of a tag for one key or tag; a section that writes twice (READY
or the rename, then the pin) keeps the lock in `lock`, so that a kill may fall between the writes. The
code takes the lock once for all keys of a group; the model once per key, which only adds
interleavings. `Abort`, `Interrupt` and `PruneCut` are errors, cancellations and kills at any point:
the locks disappear with the process, the files stay. Every reading of a clock is the true time plus
up to `Skew`, independently each time, because runners share the directory. A seal is a flag: digests
and canonical JSON tie a record to one selection, which one run makes anyway. Left out: S3 prefetch,
scratch and incoming directories, the stand-alone warm, publish, probe and restore commands, the
workspace side of a restore, plan binding. The check against leases from the future
(`validate_lease`) is modelled where it guards deletions.

**PinStore** is what the cache promises its runs, without files, locks, stages or clocks: items that
can be read, places that name one of them, and holders whose pins keep what they pin until they are
done or their time has ended. A selection is handed over only when all of it is pinned, and its use
ends only while all of it is still there. `IdbCache` instantiates it (`Store`): items are the good
generations, places the READY pointers, a run's pins the references of its leases over all tags. The
phase of a run is "open" from its lease on, "handed" from the second validation on, "done" after the
last copy of a restore and "ended" when its lease is over.

**BatchCoordinator** is `run_batch` with the worker count of its memory gate. A work item is its
place in `schedule.all_items`, so the order of the code's lists is the order of numbers. The
coordinator is one thread (`pc`); beside it move the workers, which exit, hang or run into their
timeout, the admission clock, and an interrupt (KeyboardInterrupt, SystemExit) between any two steps.
The parallel loop admits, launches and polls; each of its passes visits the active workers in order
(`todo`). `tree` is the operating system's truth about a worker's process tree, `active`,
`uncleaned` and `slots` are what the coordinator and the gate believe. A kill is confirmed or not;
an unconfirmed tree keeps its slot. `tally` counts how often an item's nodes were added to the
outcome, `event` is the last task status it was notified with. The gate's byte arithmetic is
abstracted to an admission, a refusal or an error at any attempt; a worker's result to succeeded or
failed, with or without failed nodes. A launch that fails leaves no process, which the handler around
Popen ensures. Left out: a batch without a gate, the diagnostic failures of `notify`, and interrupts
inside a step (inside `_terminate_worker` or `notify`).

**WorkPlan** is what the batch promises of its schedule, without a gate, clocks or a place in the
code: each item waits, is started and succeeds or fails, or is refused; starts follow the order and the
capacity, a serial item starts when everything before it has succeeded and nothing else is alive, a
failure lets the others go on only if that was asked for and its process is gone, and the outcome is a
success exactly if every item is one. `BatchCoordinator` instantiates it (`Plan`): an item's fate is its
last terminal event, before that whether its process was ever there; the plan is open while `run_batch`
is in one of its loops and `stop_admission` is not set.

**IdaLifecycle** is `IdaMcpLifecycle` with every helper it calls: `start_idalib_mcp`,
`start_dynamic_idalib_mcp`, `verify_owned_mcp_with_single_recovery`, `ensure_mcp_available`,
`quit_ida_gracefully`, `_rebuild_stale_database`, `_cleanup`. It has no initial state of a system of its
own: it is a machine whose owner calls `Enter`, `EnsureReady` and `Exit` and waits until `call` is
"none" again. `pc` is the place inside the call; `site` tells the helpers who asked, because a start
returns to `__enter__`, to a recovery or to a rebuild. A supervisor is a process tree (`tree`): up,
exited with remnants of its group, or gone; every successful Popen makes a new one, which is what an
identity check can tell apart. `process` and `runtime` are the attributes of the object, `local` the
variable of the helper that is running, `lost` and `unstopped` history variables: the tree a helper
dropped and the trees a stop gave up. Each operation may fail or be cancelled; `Crash` kills a supervisor
at any step. The model assumes POSIX process groups.

**AnalysisRun** is a run of `analyze` (drivers "full" and "selected") or a lone with block ("bare",
with any arguments of the class), over one lifecycle per segment. `opc` is the place in `analyze`;
the nodes of a segment (`pending`) and those left are sets that are walked in the order of the plan
(`First`). A node goes through the stages of `run_analysis_pipeline`, each with all its outcomes, and
may ask for a recovery in the middle. `state`, `counted`, `failed` are AnalysisReporting and the summary. `analyze`
itself always asks for `restored_strict` without saving, and so does `generate_reference_yaml.py`; the
rebuild policy and save_on_success are arguments of the class that only the driver "bare" exercises. An
interrupt can hit a node and any lifecycle call, not the bookkeeping between them.

**RunReport** is what `analyze` promises of what it reports: nodes run one at a time and only while
the worker of their job is open, a job succeeds only when all its nodes went well and its worker
closed, fails only for one of its nodes or for its own worker, and nothing is reported after the
verdict, which is that of the jobs. `AnalysisRun` instantiates it (`Report`); the driver "bare", which
reports nothing, stutters.

**StatusStream** is one dashboard page that follows one run: `get_snapshot` as its separate reads, the
SSE loop of `_event_stream` with its checks for a trimmed cursor, `ProcessEventStream` and the store of
the page, while scripts add events and trim the stream. An event is known by its place in the history,
and the revision of a task is the place of its last event; the task rows are `stored`. The scheduler's
sweep adds one event for a task that stands for all it sweeps. Cursor "0-0" is exempt from the check,
as in the code.

**MCProcessScheduler**, **MCRedisReporter**, **MCIdbCache**, **MCAnalysisRun** give the instances for
TLC; BatchCoordinator and StatusStream are checked as they are. **RunStoreProofs**,
**ProcessSchedulerProofs**, **IdbCacheProofs**, **BatchCoordinatorProofs**, **IdaLifecycleProofs**,
**AnalysisRunProofs**, **StatusStreamProofs** and **RedisReporterProofs** hold the theorems.
Definitions introduced as "Mutant of X" are plausible mistakes in X; PROJECT.json names for each property one that breaks it.

## Runs

| Run | Shows | Bounds |
|---|---|---|
| SchedTimely | `LeaseExcludes`, `OneAnalysis`, `LaunchedOnce`, the refinement `ImplementsJobQueue` and, under fairness, `EveryRunSettles`: with timely renewals the schedulers are one FIFO queue although one crashes, and no run is forgotten | 2 runs, 2 schedulers, 2 Analyzers, 1 crash |
| SchedFaulty | `AckedIsSettled`, `RunningSetExact`, `VerdictIsFinal` with every fault: leases and heartbeats lapse at any moment, Analyzers boot late | 1 run, 2 schedulers, 2 Analyzers, 1 crash |
| SchedRelaunch | violated: `NoRelaunchWhileBeating` (finding 1) | 1 run, no crash, leases may lapse |
| ReporterLossy | `SnapshotsReplayed`, `StoreAgrees` (counters and both hashes), `ClosedCleanIsComplete`, the refinement `ImplementsRunRecord`, `CatchesUp` | a job and a node, 3 events per task, 2 losses after the initialisation |
| ReporterEarlyLoss | violated: `SnapshotsReplayed` (finding 2) | the same, 2 events per task, 3 losses, before the initialisation too |
| IdbSafe | `SelectionRestorable`, `HintNeverDangles` and the refinement `ImplementsPinStore`: clocks differ by the allowance, two revisions of one binary compete for retention, failures between tags, between the last copy and the releases, and a binary both runs select | 2 tags, 3 keys, 2 runs, lifetime 1, time 3, skew and allowance 1, 1 restore job per run |
| IdbLive | `JobsEnd`, `PinsReclaimed` | the same, time 3, equal clocks |
| Batch | `SerialAlone`, `GateConserved`, `NodesAccounted`, `SuccessIsTotal`, `OwnedTreesSwept`, the refinement `ImplementsWorkPlan` and `BatchEnds`: whatever fails, the gate's count, the barrier and the outcome stay right, nothing starts that should not, and the batch ends | 3 parallel items, 2 serial segments, 2 workers at a time, both values of `skip_error`, an interrupt |
| BatchCancel | violated: `CancelLeavesNoTree` (finding 3) | 2 parallel items, 1 segment, 2 workers at a time |
| AnalysisRun | `VerifiedUse`, `TreesReclaimed`, `NodesCounted`, `VerdictHonest`, `DatabaseRemovedAlone`, the refinement `ImplementsRunReport`, `RunEnds`: whatever happens to supervisors and nodes, identities are current, trees reclaimed, nodes counted, the verdict true, the report one that analyze promises, and the run ends | 3 nodes of 2 binaries, 2 start attempts, all three drivers, both values of `skip_error` |
| AnalysisLeak | violated: `EveryTreeReclaimed` (finding 4) | 1 node, a selected run |
| StatusStream | `NothingMissed`, `PageCatchesUp`: no event is lost between snapshot, stream, trims and broken connections | 2 tasks, 5 events, 2 retained, batches of 2, 2 faults |

Why the bounds are enough. Two runs tell the head of the queue from the next entry; two schedulers
are the holder of the lease and its successor; two Analyzers are an orphan and a second launch.
Nothing in the code counts further than that: every decision looks at one entry, one lease and one
heartbeat. One crash is what liveness and safety can share in one run; that a recovery may crash as
well is covered by the theorems, which bound no crashes. In SchedFaulty every property is
about a single run, and other runs reach it only through the scheduler's time. In ReporterLossy a job
and a node are what the counters tell apart, three events take a task from pending to a verdict with
a progress report between, and two losses let a resynchronisation fail once before it succeeds.
Schedulers, processes and run ids are interchangeable in the safety runs (no definition names one), so
symmetry is sound in SchedFaulty, which checks no liveness; SchedTimely uses none.

In IdbCache time passes the end of the last lease plus the allowance, so that expiry, the allowance
and reclaiming all happen; `KeepLatest` and `MinimumAge` are as small as they can be, so that pruning
is as greedy as the code allows and nothing is protected by age alone. Two runs are a holder and a
pruner, two keys of a target are a generation and what pushes it out of the retention, two tags are
what a restore or a release can stop between. `LastStart` bounds the moment a run begins, because a
later one would outlive the bound on time. `SelectionRestorable` and `ImplementsPinStore` hold for
`Skew <= Allowance`, which the instances satisfy.

In Batch three parallel items under a concurrency of two are one that ends, one that runs and one
that waits for a slot; two segments are one that fails and one behind it. The loops treat every
further item like these. The bounds matter less here: all safety properties of the run are theorems.

In AnalysisRun two nodes of one binary are a node with a successor, the third node begins a second
segment; two attempts are one that fails and the last; the budget is the code's single restart, so a
third tree needs no fourth (`Tree`). All its safety properties are theorems for every plan. In StatusStream five events are the run's, the initialisation and
three more, so that with two retained a trim can overtake a page that has shown something, between its
check and its read; batches of two can jump over a trimmed event; two faults let a retry fail.

Deadlock is checked in the Batch and AnalysisRun runs, where only an ended batch or run stops. Elsewhere it is not: the
system stops when every run is settled and crashes are used up, or, in IdbCache, when time and
restore jobs are used up.

### Fairness

`SchedTimely`: a scheduler process keeps executing its own steps and is restarted when it is down (it
runs as a service), time passes (a lease whose holder is gone expires, a pending entry becomes idle,
the heartbeat of a dead Analyzer expires) and an Analyzer ends (its workers have timeouts). No
fairness is assumed of the Analyzer's reports. `ReporterLossy`: a thread that holds the lock goes on
(sockets have timeouts) and the heartbeat thread keeps calling (`_heartbeat_loop`).

`IdbLive`: time passes; a job takes its next step when it can (locks are waited for without a
timeout, so a step under a free lock is eventually taken; TLC finds no run that starves with weak
fairness because other jobs end too), or ends with the error its check raises (`Refused`); tags are
pruned again and again, by the command here, by every later prepare in practice. Failures are never
fair: they may happen and need not.

`Batch`: the coordinator keeps executing, a worker's timeout and the admission timeout elapse. No
worker need ever exit and the gate need never admit; `BatchEnds` rests on the two timeouts alone.

`AnalysisRun`: the run goes on: every wait in the lifecycle has a deadline, an agent a timeout. Crashes
are not fair, and each failure or cancellation is a choice of the step that meets it.

`StatusStream`: a snapshot request is answered in the end (faults are bounded; a page whose request
failed for good waits for the user, see Findings) and the loop of the stream goes on. Writers need not
write.

## Proofs

TLAPS proves for any number of runs, schedulers, Analyzers, tasks and crashes, and for any Faults:

* `TypeCorrect`: `Spec => []TypeOK`. The type invariant also says where local variables are set.
* `VerdictFinal` and `RunningSetCorrect`. Both rest on `StoreNext`: every step leaves a stored run
  alone or takes it through one script, and on two lemmas about the scripts themselves
  (`ScriptsKeepVerdict`, for all arguments; `ScriptsKeepListing`, as long as no reporter sends stale).
* `AckedSettled`. `AckedIsSettled` is not inductive; the invariant `AckInv` adds `SeenSettled`: a
  scheduler that is about to acknowledge has an entry whose run is settled. `SchedulerWriteSettles`
  gives it after a verdict, `VerdictFinal`'s argument keeps it until the acknowledgement.
* `LeaseSafe`: `LeaseExcludes` is inductive with the types. It states its own assumption: no lease of
  a live holder lapses.

and, assuming `Faults = {}` (leases and heartbeats are renewed in time, an Analyzer makes itself heard
before its entry is recovered), for any number of crashes and restarts:

* `OneAtWork`, `OneLaunch` and `SchedulerImplementsJobQueue`, from one inductive invariant, `ServeInv`.
  `QueueInv`: runs are submitted once, at most one is delivered and not yet acknowledged, what was not
  delivered is still queued. `LaunchInv`: a process belongs to one delivered run; while it is at work the
  entry is pending, the run unsettled and, from its first contact on, its heartbeat there. `StageInv` says
  what a scheduler may rely on at each place: before the transition to STARTING the run is queued, and so
  never launched; between it and the launch nobody else has launched it; a scheduler that aborts a
  recovered run has seen no heartbeat, so nothing is at work on it. For the
  refinement, `PendingIsHead`: the pending run is the head of JobQueue's queue, so every script that
  changes a status changes the head's.

and for any plan of tasks, any number of events, losses and synchronisations of a reporter:

* `ReporterTypeCorrect`, and, without any condition, `ReporterImplementsRunRecord`, from which
  `TasksProgress` and `SettledCorrect` (no task regresses, nothing of a settled run moves) follow in
  their own form. `RecordInv` is the invariant: a reporter that is clean or past
  INITIALIZE has an installed plan (`Contact`); its own record of the run never holds a scheduler's
  verdict (`Rising`); the caller is never behind the reporter's record of a task (`LocalsRecord`), nor
  that record behind what Redis holds of a task that is not concluded (`TasksRecord`), so that every
  write is one step or several forward; and only an installed run is settled (`StatusRecord`).
  Finding 2 thus costs agreement, replay and a correct
  close, but never the monotony of the record.
* `StoreCorrect`, `ReplayCorrect` and `CloseCorrect`, when the first contact does not fail
  (`EarlyLoss = FALSE`; finding 2 is what happens otherwise), from `ReporterInv`.
  `MirrorInv` relates Redis to the local snapshots: a revision identifies a snapshot, Redis is never
  ahead, and while it is behind it is not final (`TaskMirror`, `RunMirror`), so that no replay is refused;
  `Synced` says what a synchronisation has written at each place. `LocalInv` relates the snapshots to the
  caller's own record, up to the event in hand. `StoreInv` holds also after a scheduler has settled the
  run, when Redis and the reporter differ for good. Consistency needs the mirror: FINALIZE overwrites the
  counters with the Analyzer's summary, which agrees with the tasks only because every task was written
  before (`FinalKnown`). `CensusMove` is the arithmetic of the counters.

and for any number of runs, keys, tags, restores, any lifetime, retention and plan of the cache:

* `CacheTypeCorrect`: `Spec => []TypeOK`.
* `HintSafe`: READY never dangles. The invariant `FilesInv` says that every lease references an intact
  generation of its own tag (`RefsGood`), READY an intact one (`ReadyGood`), that what a job found or
  published is intact while the job is still inside its lock section (`FoundGood`), and that a job is
  in one section of a tag at a time (`OneSection`). Without `FoundGood` a prune could delete what is
  about to be pinned; what excludes it is that the section still holds the tag's lock.
* `SelectionSafe` and `LivePinsSafe`. `PinInv` adds for each run `StageInv` (from the prune on every key
  is pinned; a lease is only released after a complete restore) and, when clocks differ by at most the
  allowance, `HeldInv`: while the run still needs its selection its record holds every pinned
  generation, and from the seal on it is sealed. `PruneKeepsLive` is where the allowance enters: a
  pruner whose clock is at most `Skew` ahead sees a lease lapse `Allowance` after its end, so never
  before it. `Spared` says what a step leaves alone for every run but its own (`OtherRun`).
* `CacheImplementsPinStore`, under `Skew <= Allowance`: every step is a step of PinStore or a stutter.
  `StoreInv` adds `FreshInv` to `PinInv`: a run that has not begun has no pins, and nobody has restored
  what is still being prepared, so that a prune unpins only the pins of runs that are done or whose lease
  has ended (`PruneCollects`). `SelectionHeld` is what a hand-over and the last copy need: all of the
  selection is pinned and good. `SameView` reduces the phases and selections of all runs to the one that
  takes the step.

and for any number of parallel items, serial segments and concurrent workers of a batch every safety
property of the run Batch: `TypeCorrect`, `GateCorrect`, `SerialAloneCorrect`,
`NodesCorrect`, `SuccessCorrect`, `SweepCorrect`, `FailureStops` (no start after a failure that ends
admission) and `BatchImplementsWorkPlan`. They follow from one inductive invariant, `BatchInv`, built in layers so that each lemma needs the layers before it only:

* `ControlInv`: `TypeOK`; `ShapeInv`, which tells by `pc`, `next` and `todo` whether the parallel or the
  serial loop runs, and whom each may own (the parallel loop items before `next`, the serial loop at
  most the segment it is at); `SlotInv`, the gate's count as an equation with an `Offset` for the
  steps between a worker's end and its removal. That a slot is never given back below zero follows
  from the equation, so the type invariant needs it.
* `TreeInv`: only held or just launched workers can be alive. `BlameInv`: what has failed is known to the
  switches that stop admission. `SuccessInv`: what lies behind the schedule has succeeded unless a
  failure is known; it carries the success of the parallel items across the barrier.
* `SweepInv`: during the sweep no more workers are left than the gate counts, plus one. This is why the
  gate's RuntimeError, which ends the sweep early, comes at the last worker at the earliest.
* `TallyInv`: `Counted` says for every place in the code which items are in the outcome.
* `BatchImplementsWorkPlan`: every step is a step of WorkPlan or a stutter. `PlanInv` adds to `BatchInv`
  what the events say of the schedule (`EventInv`: from `next` on nothing has begun, what was passed is
  judged, an active worker is running unless it is being retired, and a launch has room), that the sweep
  visits only workers that were launched (`BegunInv`), and the converse of `SuccessInv` (`FailureInv`:
  whatever keeps the outcome from being a success, a count, a reason or an abort, some item has failed
  or was never admitted). Without the last the outcome could be a failure of nothing.

and for any plan, any number of start attempts and any owner of the lifecycle:

* `RunUsesVerified`, `RunReclaimsTrees` and `RunRemovesAlone`. The lifecycle's own invariant, `LifeInv`
  (module IdaLifecycleProofs), is kept by every step of a call whoever the owner is
  (`LifeStepCorrect`). `OwnerInv` says that every tree that may have processes is known to somebody:
  `self.process`, the helper about to hand it over (`Handed`), or the history; and that nothing is
  spawned before the supervisor of before is `Retired`. `SpentInv` shows that every start but the first
  is paid for by the budget, which is why at most one tree is ever lost (`LostInv`) and why the model
  needs no more than `Attempts + 1` trees. `ReturnStep` says how a call ends (`CallEnds`). `RunInv` adds
  what the owner does with it: `CalledFrom`, who waits for which call, and `HandOver`, what each place
  of the run may rely on. `RunRemovesAlone` is an action property; it rests on `RemovalStep`: at the
  deletion `self.process` is already None.

for every plan, in the same module:

* `RunTypeCorrect`, `NodesCountedCorrect` and `VerdictCorrect`, from `OwnInv`, inductive beside `RunInv`.
  `TallyInv` says of each node that it is still ahead, part of the segment or recorded, and `SegmentInv`
  what each place in a segment means for it: two ways lead to the handler, before any node ran or after
  every one was counted, and only the second counts a node twice. `JobsInv` ties the state of a job to
  where its nodes are. `BlamedInv` is why the verdict is true: a failed node or an unclosed worker is
  held against its job, by the job's state, by `failed_binaries`, or by `failed > before` until the
  segment ends; and a failure that was counted can be found on some task or job. `VerdictHonest` alone is
  not inductive: the verdict is drawn from counters, the states are emitted one by one.
* `RunImplementsReport`: every step is a step of RunReport or a stutter. `ReportInv` adds `CauseInv` to
  the two invariants: no job is in `failed_binaries`, and no failure is counted against a segment,
  without a bad node or an unclosed worker of that very job. It is the converse of `BlamedInv`, and
  what makes "fails only for a cause of its own" provable: the causes are counters shared by all jobs
  (`failed > before`). `Finished` and `Prepared` say what the end of a run and its validation emit at once.

and for any number of tasks, events, retained events and faults, and any batch size:

* `StreamTypeCorrect` and `PageMissesNothing`. `NothingMissed` becomes inductive as `StreamInv` with
  `LogInv` (a task's row is as new as its last event), `AnswerInv` (the id of a snapshot was read before
  everything else in it, so the rest is at least as new) and `BatchInv`: what the stream holds after a
  read is the events that follow the cursor, or the cursor is behind the stream's first event, and then
  the check after the read stops the delivery. Neither check alone suffices.

Assumptions: `BatchAssumption` (the counts are numbers, at least one worker at a time),
`TaskAssumption` (tasks are finite, nodes are tasks; in StatusStream: no task is called "run" or
"init"), `OrderAssumption`, `BinaryAssumption` and
`DriverAssumption` (a plan is not empty and lists no node twice, each node has a binary),
`SchedulerAssumption` (NoOne and Orphan are not ids), `KeyAssumption` (keys and runs are
ordered like names; a run selects something), `TimeAssumption` and `BoundsAssumption` (times and bounds
are numbers), `AttemptsAssumption` (at least one attempt), evaluated by TLC in the runs. Every
safety property of a passing run is a theorem. Only model-checked are the liveness properties
(`EveryRunSettles`, `CatchesUp`, `JobsEnd`, `PinsReclaimed`, `BatchEnds`, `RunEnds`, `PageCatchesUp`):
liveness and fairness are out of the prover's reach and stay with TLC.

## Findings

1. *A second launch beside a live Analyzer* (SchedRelaunch). `_handle_entry` tests the heartbeat once
   and launches two calls later, without asking whether it still holds the lease; the transition to
   STARTING accepts a run that is already starting. A scheduler that is suspended in between for the
   lease's TTL launches a second Analyzer, against docs/en/process-monitoring.md:27.
2. *The first contact comes too late* (ReporterEarlyLoss). If Redis is unreachable at initialize_run
   and tasks advance before the first contact, INITIALIZE stores the advanced snapshots next to a
   pending status hash and pending counters; the replay has the same revisions and is refused as
   stale. The reporter believes it is clean while Redis stays behind, against
   docs/en/process-monitoring.md:16. ReporterLossy shows that the promise holds once the run is
   initialised.
3. *A worker that escapes the cancellation* (BatchCancel). The sweep of `run_batch` visits `active`,
   which a worker joins only after `launch_worker` has started its process and its reader thread. An
   interrupt in between leaves the process tree running, its slot taken and its task reported as not
   executed, against the comment at analysis_batch.py:925. `OwnedTreesSwept` bounds the damage to that
   one worker.
4. *The restarted supervisor nobody owns* (AnalysisLeak). `verify_owned_mcp_with_single_recovery`
   restarts a dead supervisor and returns it together with the second verification
   (ida_analyze_bin.py:1172-1186). If that verification raises anything but McpDatabaseUnavailableError,
   a timeout, an OSError, a cancellation, the new process is never assigned: the cleanup stops the old
   one, against docs/en/requirements.md:42-43, where recovery follows the same cleanup. `TreesReclaimed`
   shows that this is the only leak, and `LostInv` that it happens at most once per with block.

Seen while modelling, without a run of their own:

* A node can be counted as failed twice (`NodesCounted` states when): the full run records all nodes of
  the segment again, those that succeeded included, when the with block ends with an
  McpLifecycleError (ida_analyze_bin.py:2529-2535); the selected run records again what `ensure_ready`
  had recorded (2263, 2301).
* The page closes its stream as soon as the run query answers with a terminal status
  (useRunLive.ts:41-43). Task events that have not arrived by then, the scheduler's sweep among them,
  are never shown until the page is reloaded; `PageCatchesUp` is about a page that has not seen the end.
* After a reset the page has no stream until the next snapshot arrives; when that request and its
  retries fail, nothing asks again.
* A serial segment whose launch fails does not abort the segments behind it
  (analysis_batch.py:873-881), so their nodes are neither failed nor aborted in the outcome, although
  every other failure of the serial loop aborts them; `NodesAccounted` states the exception.
* An interrupt between the release of a slot and the removal of its worker (analysis_batch.py:679)
  makes the sweep release the slot again; when no other slot is taken, the gate's RuntimeError replaces
  the interrupt, and the not-executed notifications are skipped.

## Not modelled

* The worker client (`mcp_worker_client.py`, `ida_mcp_session.py`): its thread, respawn and session
  binding are what IdaLifecycle calls a valid or invalid client. It would be the next module.
* Planner and configuration: pure functions of a document, best checked against a reference definition.
* S3 transport and release publishing: sequences of uploads, validations and pushes in one process;
  what is hard is the remote side's concurrency, which the repository does not contain.
* POSIX memory control: cgroup files and a watchdog whose effect is a kill, which BatchCoordinator and
  IdaLifecycle have as workers and supervisors that die at any step.
* Preprocessors, agents, LLM decompilation, artifact helpers, snapshots, gamedata, downloads, tools:
  calls into IDA or a model, text and file transformations. They are most of the repository's lines and
  keep no state that several actors share.

## Plan

In this order; each module gets its MC instance, properties with mutants, and proofs where named.

1. RunStore, ProcessScheduler, JobQueue, RedisReporter, RunRecord: done, all their safety properties
   and both refinements proved. Next: the writers of StatusStream as an instance of RunRecord.
2. IdbCache, PinStore: done, with the refinement proved. Next: the commands that publish without a
   lease.
3. BatchCoordinator, WorkPlan: done, with the refinement proved. Next: the classification of a plan into items (`classify_tag_plan`), with
   Planner; the waiting threads of `wait_for_launch` and the owner of a producer's memory.
4. IdaLifecycle, AnalysisRun, RunReport: done, all their safety properties and the refinement proved.
   Next: the worker client below the lifecycle.
5. StatusStream: done.
6. Planner; IdbTransport and ReleasePublish.
