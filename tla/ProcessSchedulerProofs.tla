----------------------- MODULE ProcessSchedulerProofs -----------------------
(***************************************************************************)
(* What holds of ProcessScheduler for any number of runs, schedulers,      *)
(* Analyzers and crashes, and for any of the Faults.                       *)
(***************************************************************************)
EXTENDS ProcessScheduler, RunStoreProofs, SequenceTheorems

-----------------------------------------------------------------------------
(* Types.                                                                  *)

LEMMA TransitionType ==
    ASSUME TypeOK, NEW s \in Scheduler, pc[s] \in Holding, NEW new \in RunStatus,
           NEW next \in {"ack", "spawn"}, Transition(s, new, next)
    PROVE  TypeOK'
<1>1. job[s].entry \in Run
    BY DEF TypeOK
<1>2. SchedulerWrite(store[job[s].entry], new).run \in StoredRun
    BY <1>1, SchedulerWriteType DEF TypeOK
<1>3. store' \in [Run -> StoredRun]
    BY <1>1, <1>2 DEF TypeOK, Transition
<1> QED
    BY <1>3 DEF TypeOK, Transition, Goto, Busy, Holding

LEMMA SchedulerStepType ==
    ASSUME TypeOK, NEW s \in Scheduler, SchedulerStep(s)
    PROVE  TypeOK'
<1> USE DEF Goto, Busy, Holding, redisVars
<1>1. CASE AcquireLease(s)
    BY <1>1 DEF AcquireLease, TypeOK
<1>2. CASE CountPending(s)
    BY <1>2 DEF CountPending, TypeOK
<1>3. CASE ClaimEntry(s)
    <2>1. PICK e \in Claimable : Take(s, e, TRUE) /\ idle' = idle \ {e}
        BY <1>3 DEF ClaimEntry
    <2>2. e \in Run
        BY <2>1 DEF Claimable, TypeOK
    <2>3. job' \in [Scheduler -> Job]
        BY <2>1, <2>2, SchedulerAssumption DEF Take, NoJob, Job, TypeOK, RunStatus
    <2> QED
        BY <1>3, <2>1, <2>2, <2>3 DEF ClaimEntry, Take, NoJob, TypeOK
<1>4. CASE ReadEntry(s)
    <2> DEFINE e == queue[delivered + 1]
    <2>1. e \in Run /\ delivered + 1 \in 0..Len(queue)
        BY <1>4 DEF ReadEntry, TypeOK
    <2>2. job' \in [Scheduler -> Job]
        BY <1>4, <2>1 DEF ReadEntry, Take, NoJob, Job, TypeOK, RunStatus
    <2>3. \A t \in Scheduler : pc'[t] \in Holding => job'[t].entry \in Run
        BY <1>4, <2>1 DEF ReadEntry, Take, NoJob, TypeOK
    <2>4. \A t \in Scheduler : pc'[t] \in {"wait", "verdict", "conclude"} => job'[t].child \in Proc
        BY <1>4 DEF ReadEntry, Take, TypeOK
    <2>5. delivered' \in 0..Len(queue') /\ pending' \subseteq Run /\ idle' \subseteq pending'
        BY <1>4, <2>1 DEF ReadEntry, TypeOK
    <2> QED
        BY <1>4, <2>2, <2>3, <2>4, <2>5 DEF ReadEntry, Take, TypeOK
<1>5. CASE FindNothing(s)
    BY <1>5 DEF FindNothing, TypeOK
<1>6. CASE ReadStatus(s)
    <2>1. job[s].entry \in Run
        BY <1>6 DEF ReadStatus, TypeOK
    <2>2. store[job[s].entry].status \in RunStatus
        BY <2>1 DEF TypeOK, StoredRun
    <2>3. job' \in [Scheduler -> Job]
        BY <1>6, <2>2 DEF ReadStatus, Job, TypeOK
    <2> QED
        BY <1>6, <2>1, <2>3 DEF ReadStatus, TypeOK, Job
<1>7. CASE CheckHeartbeat(s)
    BY <1>7 DEF CheckHeartbeat, TypeOK
<1>8. CASE AbortRecovered(s)
    BY <1>8, TransitionType DEF AbortRecovered, RunStatus, Terminal
<1>9. CASE MarkStarting(s)
    BY <1>9, TransitionType DEF MarkStarting, RunStatus
<1>10. CASE \E p \in Proc : Spawn(s, p)
    <2>1. PICK p \in Proc : Spawn(s, p)
        BY <1>10
    <2>2. job[s].entry \in Run
        BY <2>1 DEF Spawn, TypeOK
    <2>3. proc' \in [Proc -> Process]
        BY <2>1, <2>2 DEF Spawn, NoProc, Process, Alive, TypeOK
    <2>4. job' \in [Scheduler -> Job]
        BY <2>1 DEF Spawn, Job, TypeOK
    <2> QED
        BY <2>1, <2>2, <2>3, <2>4 DEF Spawn, NoProc, TypeOK, Job
<1>11. CASE SpawnFails(s)
    BY <1>11 DEF SpawnFails, TypeOK
<1>12. CASE MarkSpawnFailed(s)
    BY <1>12, TransitionType DEF MarkSpawnFailed, RunStatus, Terminal
<1>13. CASE Reap(s)
    BY <1>13 DEF Reap, TypeOK
<1>14. CASE CheckVerdict(s)
    BY <1>14 DEF CheckVerdict, TypeOK
<1>15. CASE Conclude(s)
    BY <1>15, TransitionType DEF Conclude, RunStatus, Terminal
<1>16. CASE Ack(s)
    BY <1>16 DEF Ack, TypeOK
<1>17. CASE ReleaseLease(s)
    <2>1. NoJob \in Job
        BY DEF NoJob, Job, RunStatus
    <2> QED
        BY <1>17, <2>1 DEF ReleaseLease, TypeOK
<1> QED
    BY <1>1, <1>2, <1>3, <1>4, <1>5, <1>6, <1>7, <1>8, <1>9, <1>10, <1>11, <1>12,
       <1>13, <1>14, <1>15, <1>16, <1>17 DEF SchedulerStep

LEMMA AnalyzerStepType ==
    ASSUME TypeOK, NEW p \in Proc, AnalyzerStep(p)
    PROVE  TypeOK'
<1> DEFINE r == proc[p].run
<1> USE DEF procOnly
<1>1. CASE AnalyzerInitialize(p)
    <2> DEFINE snapshots == [t \in Task |-> [status |-> "pending", revision |-> 0]]
    <2>1. r \in Run
        BY <1>1 DEF AnalyzerInitialize, TypeOK
    <2>2. snapshots \in [Task -> Snapshot]
        BY DEF Snapshot, TaskStatus
    <2>3. InitializeRun(store[r], snapshots).run \in StoredRun
        BY <2>1, <2>2, InitializeType DEF TypeOK
    <2>4. store' \in [Run -> StoredRun]
        BY <1>1, <2>1, <2>3 DEF AnalyzerInitialize, TypeOK
    <2>5. proc' \in [Proc -> Process]
        BY <1>1 DEF AnalyzerInitialize, TypeOK, Process, Alive
    <2> QED
        BY <1>1, <2>1, <2>4, <2>5 DEF AnalyzerInitialize, TypeOK, Process
<1>2. ASSUME NEW new \in {"running"} \union Terminal, NEW state \in Alive,
             proc[p].state # "free", AnalyzerReport(p, new, state),
             state = "reported" => new \in Terminal,
             heartbeat' \subseteq Run, UNCHANGED procOnly
      PROVE  TypeOK'
    <2> DEFINE reply == WriteRun(store[r], proc[p].revision + 1, new, FALSE)
    <2>1. r \in Run /\ proc[p].revision \in Nat /\ new \in RunStatus
        BY <1>2 DEF TypeOK, Process, RunStatus
    <2>2. reply.run \in StoredRun
        <3>1. store[r] \in StoredRun /\ proc[p].revision + 1 \in Nat
            BY <2>1 DEF TypeOK
        <3> QED
            BY <2>1, <3>1, WriteRunType
    <2>3. store' \in [Run -> StoredRun]
        BY <1>2, <2>1, <2>2 DEF AnalyzerReport, TypeOK
    <2>4. proc' \in [Proc -> Process]
        <3> DEFINE rev == IF Rejected(reply) THEN proc[p].revision ELSE proc[p].revision + 1
        <3>1. rev \in Nat
            <4>1. proc[p].revision + 1 \in Nat
                BY <2>1
            <4> QED
                BY <2>1, <4>1, Zenon
        <3>2. proc' = [proc EXCEPT ![p].state = state, ![p].verdict = new, ![p].revision = rev]
            BY <1>2 DEF AnalyzerReport
        <3> HIDE DEF rev
        <3>3. [proc[p] EXCEPT !.state = state, !.verdict = new, !.revision = rev] \in Process
            BY <1>2, <3>1 DEF TypeOK, Process
        <3> QED
            BY <3>2, <3>3 DEF TypeOK
    <2>5. \A q \in Proc : proc'[q].run = proc[q].run
        BY <1>2 DEF AnalyzerReport, TypeOK, Process
    <2>6. \A q \in Proc : proc'[q].state # "free" => proc[q].state # "free"
        BY <1>2 DEF AnalyzerReport, TypeOK, Process
    <2>7. \A q \in Proc : proc'[q].state = "reported" => proc'[q].verdict \in Terminal
        BY <1>2 DEF AnalyzerReport, TypeOK, Process
    <2> QED
        BY <1>2, <2>3, <2>4, <2>5, <2>6, <2>7 DEF TypeOK
<1>3. CASE AnalyzerRunning(p)
    <2>1. heartbeat' \subseteq Run
        BY <1>3 DEF AnalyzerRunning, TypeOK
    <2>2. AnalyzerReport(p, "running", "working") /\ proc[p].state # "free" /\ UNCHANGED procOnly
        BY <1>3 DEF AnalyzerRunning
    <2> QED
        BY <1>2, <2>1, <2>2 DEF Alive
<1>4. CASE AnalyzerVerdict(p)
    <2>1. heartbeat' \subseteq Run
        BY <1>4 DEF AnalyzerVerdict, TypeOK
    <2>2. PICK v \in Terminal : AnalyzerReport(p, v, "reported")
        BY <1>4 DEF AnalyzerVerdict, Terminal
    <2>3. proc[p].state # "free" /\ UNCHANGED procOnly
        BY <1>4 DEF AnalyzerVerdict
    <2> QED
        BY <1>2, <2>1, <2>2, <2>3 DEF Alive
<1>5. CASE AnalyzerFinalize(p)
    <2>1. r \in Run /\ proc[p].verdict \in Terminal
        BY <1>5 DEF AnalyzerFinalize, TypeOK, Process
    <2>2. FinalizeRun(store[r], proc[p].verdict, store[r].counts).run \in StoredRun
        BY <2>1, FinalizeType DEF TypeOK, StoredRun, RunStatus
    <2>3. store' \in [Run -> StoredRun]
        BY <1>5, <2>1, <2>2 DEF AnalyzerFinalize, TypeOK
    <2>4. proc' \in [Proc -> Process]
        BY <1>5 DEF AnalyzerFinalize, TypeOK, Process, Alive
    <2>5. \A q \in Proc : /\ proc'[q].run = proc[q].run
                          /\ proc'[q].verdict = proc[q].verdict
                          /\ proc'[q].state \in {"free", "reported"} => proc'[q].state = proc[q].state
        BY <1>5 DEF AnalyzerFinalize, TypeOK, Process
    <2> QED
        BY <1>5, <2>1, <2>3, <2>4, <2>5 DEF AnalyzerFinalize, TypeOK
<1>6. CASE AnalyzerExit(p)
    <2>1. PICK ok \in BOOLEAN : proc' = [proc EXCEPT ![p].state = "exited", ![p].ok = ok]
        BY <1>6 DEF AnalyzerExit
    <2>2. proc' \in [Proc -> Process]
        <3>1. [proc[p] EXCEPT !.state = "exited", !.ok = ok] \in Process
            BY DEF TypeOK, Process
        <3> QED
            BY <2>1, <3>1 DEF TypeOK
    <2>3. \A q \in Proc : /\ proc'[q].run = proc[q].run
                          /\ proc'[q].verdict = proc[q].verdict
                          /\ proc'[q].state \in {"free", "reported"} => proc'[q].state = proc[q].state
        BY <2>1 DEF TypeOK, Process
    <2>4. proc[p].state # "free"
        BY <1>6 DEF AnalyzerExit, Alive
    <2> QED
        BY <1>6, <2>1, <2>2, <2>3, <2>4 DEF AnalyzerExit, TypeOK
<1>7. CASE AnalyzerBeat(p)
    BY <1>7 DEF AnalyzerBeat, TypeOK, Beating
<1> QED
    BY <1>1, <1>3, <1>4, <1>5, <1>6, <1>7 DEF AnalyzerStep

LEMMA TypeInit == Init => TypeOK
<1> SUFFICES ASSUME Init PROVE TypeOK
    OBVIOUS
<1>1. store \in [Run -> StoredRun]
    BY NoRunType DEF Init
<1>2. job \in [Scheduler -> Job] /\ proc \in [Proc -> Process]
    BY DEF Init, NoJob, Job, NoProc, Process, RunStatus
<1>3. queue \in Seq(Run) /\ delivered \in 0..Len(queue)
    BY DEF Init
<1> QED
    BY <1>1, <1>2, <1>3 DEF Init, TypeOK, Busy, Holding, NoProc

LEMMA TypeNext == TypeOK /\ [Next]_vars => TypeOK'
<1> SUFFICES ASSUME TypeOK, [Next]_vars PROVE TypeOK'
    OBVIOUS
<1> USE DEF redisVars
<1>1. ASSUME NEW r \in Run, Submit(r) PROVE TypeOK'
    <2>1. store' \in [Run -> StoredRun]
        BY <1>1, SubmitType DEF Submit, TypeOK
    <2>2. queue' \in Seq(Run) /\ Len(queue') = Len(queue) + 1
        BY <1>1, AppendProperties DEF Submit, TypeOK
    <2>3. delivered' \in 0..Len(queue')
        BY <1>1, <2>2, LenProperties DEF Submit, TypeOK
    <2> QED
        BY <1>1, <2>1, <2>2, <2>3 DEF Submit, TypeOK
<1>2. ASSUME NEW s \in Scheduler, SchedulerStep(s) PROVE TypeOK'
    BY <1>2, SchedulerStepType
<1>3. ASSUME NEW s \in Scheduler, Interrupt(s) PROVE TypeOK'
    BY <1>3, SchedulerAssumption DEF Interrupt, Goto, TypeOK, Busy, Holding
<1>4. ASSUME NEW s \in Scheduler, Crash(s) PROVE TypeOK'
    <2>1. NoJob \in Job
        BY DEF NoJob, Job, RunStatus
    <2> QED
        BY <1>4, <2>1, SchedulerAssumption DEF Crash, Goto, TypeOK, Busy, Holding
<1>5. ASSUME NEW s \in Scheduler, Restart(s) PROVE TypeOK'
    BY <1>5 DEF Restart, Goto, TypeOK, Busy, Holding
<1>6. ASSUME NEW p \in Proc, AnalyzerStep(p) PROVE TypeOK'
    BY <1>6, AnalyzerStepType
<1>7. CASE LeaseExpires
    BY <1>7 DEF LeaseExpires, TypeOK
<1>8. ASSUME NEW r \in Run, EntryIdles(r) \/ HeartbeatExpires(r) PROVE TypeOK'
    BY <1>8 DEF EntryIdles, HeartbeatExpires, TypeOK
<1>9. CASE UNCHANGED vars
    BY <1>9 DEF vars, TypeOK
<1> QED
    BY <1>1, <1>2, <1>3, <1>4, <1>5, <1>6, <1>7, <1>8, <1>9 DEF Next

\* Every reachable state is well typed, and each local variable is set where run_once,
\* _handle_entry and the Analyzer use it.
THEOREM TypeCorrect == Spec => []TypeOK
BY TypeInit, TypeNext, PTL DEF Spec

-----------------------------------------------------------------------------
(* The stored runs: whatever step is taken, every run stays as it was or   *)
(* went through one script.                                                *)

ScriptStep(run, next) ==
    /\ run.status \in Terminal => next.status = run.status
    /\ ListedExactly(run) => ListedExactly(next)

LEMMA StoreNext ==
    ASSUME TypeOK, [Next]_vars, NEW r \in Run
    PROVE  ScriptStep(store[r], store'[r])
<1> USE DEF ScriptStep
<1>1. store[r] \in StoredRun
    BY DEF TypeOK
<1>2. ASSUME store' = store PROVE ScriptStep(store[r], store'[r])
    BY <1>2
<1>3. ASSUME NEW q \in Run, Submit(q) PROVE ScriptStep(store[r], store'[r])
    BY <1>1, <1>3, ScriptsKeepVerdict, ScriptsKeepListing DEF Submit, TypeOK
<1>4. ASSUME NEW s \in Scheduler, NEW new \in {"starting"} \union Terminal, NEW next,
             Transition(s, new, next)
      PROVE  ScriptStep(store[r], store'[r])
    BY <1>1, <1>4, ScriptsKeepVerdict, ScriptsKeepListing DEF Transition, TypeOK
<1>5. ASSUME NEW s \in Scheduler, SchedulerStep(s) PROVE ScriptStep(store[r], store'[r])
    <2>1. CASE AbortRecovered(s) \/ MarkStarting(s) \/ MarkSpawnFailed(s) \/ Conclude(s)
        BY <1>4, <2>1 DEF AbortRecovered, MarkStarting, MarkSpawnFailed, Conclude, Terminal
    <2>2. CASE ~(AbortRecovered(s) \/ MarkStarting(s) \/ MarkSpawnFailed(s) \/ Conclude(s))
        <3>1. store' = store
            BY <1>5, <2>2 DEF SchedulerStep, AcquireLease, CountPending, ClaimEntry, ReadEntry,
               FindNothing, ReadStatus, CheckHeartbeat, Spawn, SpawnFails, Reap,
               CheckVerdict, Ack, ReleaseLease, redisVars
        <3> QED
            BY <1>2, <3>1
    <2> QED
        BY <2>1, <2>2
<1>6. ASSUME NEW p \in Proc, AnalyzerStep(p) PROVE ScriptStep(store[r], store'[r])
    <2>1. CASE AnalyzerInitialize(p)
        BY <1>1, <2>1, ScriptsKeepVerdict, ScriptsKeepListing DEF AnalyzerInitialize, TypeOK
    <2>2. ASSUME NEW new \in {"running"} \union Terminal, NEW state, AnalyzerReport(p, new, state)
          PROVE  ScriptStep(store[r], store'[r])
        <3> DEFINE written == WriteRun(store[r], proc[p].revision + 1, new, FALSE).run
        <3>1. store'[r] \in {store[r], written}
            BY <2>2 DEF AnalyzerReport, TypeOK
        <3>2. ASSUME store[r].status \in Terminal PROVE written.status = store[r].status
            <4>1. \A revision, status, isSnapshot :
                    WriteRun(store[r], revision, status, isSnapshot).run.status = store[r].status
                BY <1>1, <3>2, ScriptsKeepVerdict
            <4> QED
                BY <4>1, Zenon
        <3>3. ListedExactly(store[r]) => ListedExactly(written)
            BY <1>1, <2>2, ScriptsKeepListing, Zenon
        <3> QED
            BY <3>1, <3>2, <3>3
    <2>3. CASE AnalyzerRunning(p)
        BY <2>2, <2>3 DEF AnalyzerRunning
    <2>4. CASE AnalyzerVerdict(p)
        BY <2>2, <2>4 DEF AnalyzerVerdict, Terminal
    <2>5. CASE AnalyzerFinalize(p)
        <3>1. proc[p].verdict \in Terminal
            BY <2>5 DEF AnalyzerFinalize, TypeOK
        <3> QED
            BY <1>1, <2>5, <3>1, ScriptsKeepVerdict, ScriptsKeepListing DEF AnalyzerFinalize, TypeOK
    <2>6. CASE AnalyzerExit(p) \/ AnalyzerBeat(p)
        BY <1>2, <2>6 DEF AnalyzerExit, AnalyzerBeat
    <2> QED
        BY <1>6, <2>1, <2>3, <2>4, <2>5, <2>6 DEF AnalyzerStep
<1>7. CASE \/ \E s \in Scheduler : Interrupt(s) \/ Crash(s) \/ Restart(s)
           \/ LeaseExpires
           \/ \E q \in Run : EntryIdles(q) \/ HeartbeatExpires(q)
    BY <1>2, <1>7 DEF Interrupt, Crash, Restart, LeaseExpires, EntryIdles, HeartbeatExpires,
       redisVars
<1>8. CASE UNCHANGED vars
    BY <1>2, <1>8 DEF vars, redisVars
<1> QED
    BY <1>3, <1>5, <1>6, <1>7, <1>8 DEF Next

\* A settled run keeps its verdict in every execution, with every fault: neither a late
\* Analyzer nor a recovering or superseded scheduler replaces it.
THEOREM VerdictFinal == Spec => VerdictIsFinal
<1>1. TypeOK /\ [Next]_vars
      => [\A r \in Run : Settled(r) => store'[r].status = store[r].status]_vars
    BY StoreNext DEF Settled, ScriptStep
<1> QED
    BY <1>1, TypeCorrect, PTL DEF Spec, VerdictIsFinal

\* The "running" set holds exactly the runs whose status is running.
THEOREM RunningSetCorrect == Spec => []RunningSetExact
<1>1. Init => RunningSetExact
    BY DEF Init, RunningSetExact, NoRun
<1>2. TypeOK /\ RunningSetExact /\ [Next]_vars => RunningSetExact'
    BY StoreNext DEF RunningSetExact, ScriptStep, ListedExactly
<1> QED
    BY <1>1, <1>2, TypeCorrect, PTL DEF Spec

-----------------------------------------------------------------------------
(* Acknowledgements.  AckedIsSettled is not inductive: it needs to know    *)
(* that a scheduler about to acknowledge an entry has seen it settled.     *)

SeenSettled == \A s \in Scheduler : pc[s] = "ack" => Settled(job[s].entry)

AckInv == AckedIsSettled /\ SeenSettled

LEMMA SettledNext ==
    ASSUME TypeOK, [Next]_vars, NEW r \in Run, Settled(r) PROVE Settled(r)'
BY StoreNext DEF Settled, ScriptStep

LEMMA TransitionSettles ==
    ASSUME TypeOK, NEW s \in Scheduler, pc[s] \in Holding, NEW new \in Terminal,
           NEW next, Transition(s, new, next), pc'[s] = "ack"
    PROVE  Settled(job[s].entry)'
<1> DEFINE r == job[s].entry
           reply == SchedulerWrite(store[r], new)
<1>1. r \in Run /\ store[r] \in StoredRun
    BY DEF TypeOK
<1>2. ~Rejected(reply)
    BY DEF Transition, Goto, TypeOK
<1>3. store'[r] = reply.run /\ job' = job
    BY <1>1 DEF Transition, TypeOK
<1> QED
    BY <1>1, <1>2, <1>3, SchedulerWriteSettles DEF Settled

LEMMA SeenSettledNext ==
    ASSUME TypeOK, SeenSettled, [Next]_vars
    PROVE  SeenSettled'
<1> SUFFICES ASSUME NEW t \in Scheduler, pc'[t] = "ack"
             PROVE  Settled(job[t].entry)'
    BY DEF SeenSettled
<1> USE DEF Goto, redisVars
<1>1. ASSUME pc[t] = "ack", job'[t] = job[t] PROVE Settled(job[t].entry)'
    <2>1. job[t].entry \in Run /\ Settled(job[t].entry)
        BY <1>1 DEF SeenSettled, TypeOK, Holding
    <2>2. store'[job[t].entry].status \in Terminal
        BY <2>1, SettledNext DEF Settled
    <2> QED
        BY <1>1, <2>2 DEF Settled
<1>2. ASSUME NEW s \in Scheduler, SchedulerStep(s) PROVE Settled(job[t].entry)'
    <2>1. CASE s # t
        <3>1. pc[t] = "ack" /\ job'[t] = job[t]
            BY <1>2, <2>1 DEF SchedulerStep, AcquireLease, CountPending, ClaimEntry, ReadEntry,
               FindNothing, ReadStatus, CheckHeartbeat, AbortRecovered, MarkStarting,
               MarkSpawnFailed, Conclude, Transition, Spawn, SpawnFails, Reap, CheckVerdict,
               Ack, ReleaseLease, Take, TypeOK
        <3> QED
            BY <1>1, <3>1
    <2>2. CASE s = t
        <3>1. CASE AbortRecovered(t) \/ MarkSpawnFailed(t) \/ Conclude(t)
            BY <3>1, TransitionSettles DEF AbortRecovered, MarkSpawnFailed, Conclude, Terminal, Holding
        <3>2. CASE ReadStatus(t) \/ CheckVerdict(t)
            <4>1. Settled(job[t].entry) /\ job'[t].entry = job[t].entry /\ store' = store
                BY <3>2 DEF ReadStatus, CheckVerdict, TypeOK, Job
            <4> QED
                BY <4>1 DEF Settled
        <3>3. CASE ~(\/ AbortRecovered(t) \/ MarkSpawnFailed(t) \/ Conclude(t)
                     \/ ReadStatus(t) \/ CheckVerdict(t))
            <4>1. pc'[t] # "ack"
                BY <1>2, <2>2, <3>3 DEF SchedulerStep, AcquireLease, CountPending, ClaimEntry,
                   ReadEntry, FindNothing, CheckHeartbeat, MarkStarting, Transition, Spawn,
                   SpawnFails, Reap, Ack, ReleaseLease, Take, TypeOK
            <4> QED
                BY <4>1
        <3> QED
            BY <3>1, <3>2, <3>3
    <2> QED
        BY <2>1, <2>2
<1>3. ASSUME NEW s \in Scheduler, Interrupt(s) \/ Crash(s) \/ Restart(s)
      PROVE  Settled(job[t].entry)'
    <2>1. pc[t] = "ack" /\ job'[t] = job[t]
        BY <1>3 DEF Interrupt, Crash, Restart, TypeOK
    <2> QED
        BY <1>1, <2>1
<1>4. CASE \/ \E r \in Run : Submit(r) \/ EntryIdles(r) \/ HeartbeatExpires(r)
           \/ LeaseExpires
           \/ \E p \in Proc : AnalyzerStep(p)
           \/ UNCHANGED vars
    <2>1. pc' = pc /\ job' = job
        BY <1>4 DEF Submit, EntryIdles, HeartbeatExpires, LeaseExpires, AnalyzerStep,
           AnalyzerInitialize, AnalyzerRunning, AnalyzerVerdict, AnalyzerFinalize,
           AnalyzerExit, AnalyzerBeat, procOnly, vars
    <2> QED
        BY <1>1, <2>1
<1> QED
    BY <1>2, <1>3, <1>4 DEF Next

\* The stream and the pending list change in three ways only.
LEMMA QueueNext ==
    ASSUME TypeOK, [Next]_vars
    PROVE  \/ /\ UNCHANGED <<delivered, pending>>
              /\ queue' = queue \/ \E r \in Run : queue' = Append(queue, r)
           \/ \E s \in Scheduler : ReadEntry(s) \/ Ack(s)
<1> USE DEF redisVars
<1>1. ASSUME NEW s \in Scheduler, SchedulerStep(s), ~ReadEntry(s), ~Ack(s)
      PROVE  UNCHANGED <<delivered, pending, queue>>
    BY <1>1 DEF SchedulerStep, AcquireLease, CountPending, ClaimEntry, FindNothing, ReadStatus,
       CheckHeartbeat, AbortRecovered, MarkStarting, MarkSpawnFailed, Conclude, Transition,
       Spawn, SpawnFails, Reap, CheckVerdict, ReleaseLease
<1>2. ASSUME NEW p \in Proc, AnalyzerStep(p) PROVE UNCHANGED <<delivered, pending, queue>>
    BY <1>2 DEF AnalyzerStep, AnalyzerInitialize, AnalyzerRunning, AnalyzerVerdict,
       AnalyzerFinalize, AnalyzerExit, AnalyzerBeat, procOnly
<1> QED
    BY <1>1, <1>2 DEF Next, Submit, Interrupt, Crash, Restart, LeaseExpires, EntryIdles,
       HeartbeatExpires, vars

LEMMA AckNext == TypeOK /\ AckInv /\ [Next]_vars => AckInv'
<1> SUFFICES ASSUME TypeOK, AckInv, [Next]_vars PROVE AckInv'
    OBVIOUS
<1>1. SeenSettled'
    BY SeenSettledNext DEF AckInv
<1>2. ASSUME NEW i \in 1..delivered PROVE queue[i] \in Run
    BY <1>2 DEF TypeOK
<1>3. CASE /\ UNCHANGED <<delivered, pending>>
           /\ queue' = queue \/ \E r \in Run : queue' = Append(queue, r)
    <2>1. ASSUME NEW i \in 1..delivered PROVE queue'[i] = queue[i]
        <3>1. queue \in Seq(Run) /\ i \in 1..Len(queue)
            BY <2>1 DEF TypeOK
        <3>2. ASSUME NEW r \in Run PROVE Append(queue, r)[i] = queue[i]
            BY <3>1, AppendProperties
        <3>3. CASE queue' = queue
            BY <3>3
        <3>4. ASSUME NEW r \in Run, queue' = Append(queue, r) PROVE queue'[i] = queue[i]
            BY <3>2, <3>4
        <3> QED
            BY <1>3, <3>3, <3>4
    <2> QED
        BY <1>1, <1>2, <1>3, <2>1, SettledNext DEF AckInv, AckedIsSettled, Settled
<1>4. ASSUME NEW s \in Scheduler, ReadEntry(s) PROVE AckInv'
    <2>1. delivered \in Nat /\ delivered' = delivered + 1 /\ queue' = queue
        BY <1>4 DEF ReadEntry, TypeOK
    <2>2. pending' = pending \union {queue[delivered + 1]}
        BY <1>4 DEF ReadEntry
    <2> QED
        BY <1>1, <1>2, <2>1, <2>2, SettledNext DEF AckInv, AckedIsSettled, Settled
<1>5. ASSUME NEW s \in Scheduler, Ack(s) PROVE AckInv'
    <2>1. Settled(job[s].entry) /\ store' = store
        BY <1>5 DEF Ack, AckInv, SeenSettled
    <2>2. /\ pending' = pending \ {job[s].entry}
          /\ UNCHANGED <<queue, delivered>>
        BY <1>5 DEF Ack
    <2> QED
        BY <1>1, <2>1, <2>2 DEF AckInv, AckedIsSettled, Settled
<1> QED
    BY <1>3, <1>4, <1>5, QueueNext

\* An entry is acknowledged only when its run is settled, through any crash, interrupt,
\* lapse of a lease or of a heartbeat, and recovery by another scheduler.
THEOREM AckedSettled == Spec => []AckedIsSettled
<1>1. Init => AckInv
    BY DEF Init, AckInv, AckedIsSettled, SeenSettled
<1>2. AckInv => AckedIsSettled
    BY DEF AckInv
<1> QED
    BY <1>1, <1>2, AckNext, TypeCorrect, PTL DEF Spec

-----------------------------------------------------------------------------
(* The lease.                                                              *)

LEMMA LeaseNext == TypeOK /\ LeaseExcludes /\ [Next]_vars => LeaseExcludes'
<1> SUFFICES ASSUME TypeOK, LeaseExcludes, [Next]_vars, "lease_lapse" \notin Faults,
                    NEW t \in Scheduler, pc'[t] \in Busy
             PROVE  lease' = t
    BY DEF LeaseExcludes
<1> USE DEF Goto, redisVars
<1>1. ASSUME pc'[t] = pc[t], lease' = lease PROVE lease' = t
    BY <1>1 DEF LeaseExcludes
<1>2. ASSUME NEW s \in Scheduler, SchedulerStep(s) PROVE lease' = t
    <2>1. CASE AcquireLease(s) \/ ReleaseLease(s)
        BY <2>1, SchedulerAssumption DEF AcquireLease, ReleaseLease, LeaseExcludes, Busy, TypeOK
    <2>2. CASE ~(AcquireLease(s) \/ ReleaseLease(s))
        <3>1. lease' = lease /\ pc[s] \in Busy
            BY <1>2, <2>2 DEF SchedulerStep, CountPending, ClaimEntry, ReadEntry, FindNothing,
               ReadStatus, CheckHeartbeat, AbortRecovered, MarkStarting, MarkSpawnFailed,
               Conclude, Transition, Spawn, SpawnFails, Reap, CheckVerdict, Ack, Busy
        <3>2. s # t => pc'[t] = pc[t]
            BY <1>2, <2>2 DEF SchedulerStep, CountPending, ClaimEntry, ReadEntry, FindNothing,
               ReadStatus, CheckHeartbeat, AbortRecovered, MarkStarting, MarkSpawnFailed,
               Conclude, Transition, Spawn, SpawnFails, Reap, CheckVerdict, Ack, Take, TypeOK
        <3> QED
            BY <1>1, <3>1, <3>2 DEF LeaseExcludes
    <2> QED
        BY <2>1, <2>2
<1>3. ASSUME NEW s \in Scheduler, Interrupt(s) \/ Crash(s) \/ Restart(s) PROVE lease' = t
    BY <1>3 DEF Interrupt, Crash, Restart, LeaseExcludes, Busy, TypeOK
<1>4. CASE LeaseExpires
    BY <1>4, SchedulerAssumption DEF LeaseExpires, LeaseExcludes
<1>5. CASE \/ \E r \in Run : Submit(r) \/ EntryIdles(r) \/ HeartbeatExpires(r)
           \/ \E p \in Proc : AnalyzerStep(p)
           \/ UNCHANGED vars
    <2>1. pc' = pc /\ lease' = lease
        BY <1>5 DEF Submit, EntryIdles, HeartbeatExpires, AnalyzerStep,
           AnalyzerInitialize, AnalyzerRunning, AnalyzerVerdict, AnalyzerFinalize,
           AnalyzerExit, AnalyzerBeat, procOnly, vars
    <2> QED
        BY <1>1, <2>1
<1> QED
    BY <1>2, <1>3, <1>4, <1>5 DEF Next

\* Two schedulers are never inside run_once together, however many there are and whatever
\* else goes wrong, as long as the lease of a live scheduler does not lapse.
THEOREM LeaseSafe == Spec => []LeaseExcludes
<1>1. Init => LeaseExcludes
    BY DEF Init, LeaseExcludes, Busy
<1> QED
    BY <1>1, LeaseNext, TypeCorrect, PTL DEF Spec

-----------------------------------------------------------------------------
(* One Analyzer at a time, and one per run, when the timing assumptions    *)
(* hold.  The invariant follows an entry through run_once: what the lease, *)
(* the pending list and the heartbeat say of the Analyzers that exist.     *)

\* The statuses of a run whose Analyzer was launched.
Started == {"starting", "running"} \union Terminal

Launched(r) == \E p \in Proc : proc[p].state # "free" /\ proc[p].run = r
AtWork(p) == proc[p].state \in {"booting", "live", "working"}

\* Runs are submitted once and served in order, at most one is delivered and not yet
\* acknowledged, and what was not delivered is untouched.
QueueInv ==
    /\ \A i, j \in DOMAIN queue : queue[i] = queue[j] => i = j
    /\ \A i \in DOMAIN queue : store[queue[i]].status # "none"
    /\ \A i \in DOMAIN queue : i > delivered => store[queue[i]].status = "queued"
    /\ pending \subseteq Delivered
    /\ \A e, f \in pending : e = f

\* An Analyzer belongs to one delivered run; while it works the entry is pending, the run
\* unsettled and, once it has reached Redis, its heartbeat there.
LaunchInv ==
    /\ LaunchedOnce
    /\ \A p \in Proc : proc[p].state = "free" => proc[p].run = NoOne
    /\ \A r \in Run : store[r].status # "stale"
    /\ \A p \in Proc : proc[p].state # "free" =>
          proc[p].run \in Delivered /\ store[proc[p].run].status \in Started
    /\ \A p \in Proc : AtWork(p) => proc[p].run \in pending /\ ~Settled(proc[p].run)
    /\ \A p \in Proc : proc[p].state \in Beating => proc[p].run \in heartbeat

\* What a scheduler may rely on at each place of run_once and _handle_entry.
Stage(s) ==
    LET e == job[s].entry
        status == store[e].status
        booting == \E p \in Proc : proc[p].run = e /\ proc[p].state = "booting"
    IN  /\ pc[s] = "read" => pending = {}
        /\ pc[s] \in Holding => e \in pending
        /\ pc[s] \in {"status", "beat"} => ~booting /\ (job[s].recovered \/ status = "queued")
        /\ pc[s] = "beat" => \/ job[s].seen = "queued" /\ status = "queued"
                             \/ job[s].seen \in {"starting", "running"} /\ status \in Started
        /\ pc[s] = "abort" => status \in Started /\ \A p \in Proc : AtWork(p) => proc[p].run # e
        /\ pc[s] = "start" => status = "queued"
        /\ pc[s] \in {"spawn", "spawn_failed"} => status = "starting" /\ ~Launched(e)
        /\ pc[s] \in {"wait", "verdict", "conclude"} =>
              proc[job[s].child].run = e /\ proc[job[s].child].state # "free"
        /\ pc[s] \in {"verdict", "conclude"} => proc[job[s].child].state = "exited"

StageInv == \A s \in Scheduler : Stage(s)

ServeInv == TypeOK /\ LeaseExcludes /\ AckInv /\ QueueInv /\ LaunchInv /\ StageInv

RunningOr(old, new) == new = old \/ (old = "starting" /\ new = "running")

\* What an Analyzer's reports do to the status of a run that was started.
LEMMA ReportsKeepStarted ==
    ASSUME NEW run \in StoredRun, run.status \in Started
    PROVE  /\ \A snapshots : InitializeRun(run, snapshots).run.status = run.status
           /\ \A revision : RunningOr(run.status, WriteRun(run, revision, "running", FALSE).run.status)
           /\ \A revision : \A new \in Terminal :
                 WriteRun(run, revision, new, FALSE).run.status \in {run.status, new}
           /\ \A summary : \A new \in Terminal :
                 FinalizeRun(run, new, summary).run.status \in {run.status, new}
<1> USE DEF Started, Terminal, Reply, StoredRun
<1>1. ASSUME NEW snapshots PROVE InitializeRun(run, snapshots).run.status = run.status
    BY DEF InitializeRun
<1>2. ASSUME NEW revision
      PROVE  RunningOr(run.status, WriteRun(run, revision, "running", FALSE).run.status)
    BY DEF WriteRun, RunLegal, RunEdge, RunningOr
<1>3. ASSUME NEW revision, NEW new \in Terminal
      PROVE  WriteRun(run, revision, new, FALSE).run.status \in {run.status, new}
    BY DEF WriteRun
<1>4. ASSUME NEW new \in Terminal, NEW summary
      PROVE  FinalizeRun(run, new, summary).run.status \in {run.status, new}
    BY DEF FinalizeRun
<1> QED
    BY <1>1, <1>2, <1>3, <1>4

\* What a step of an Analyzer does: it concerns its own run, which stays started, and is
\* settled by nobody who goes on working.
LEMMA AnalyzerEffect ==
    ASSUME TypeOK, LaunchInv, NEW p \in Proc, AnalyzerStep(p)
    PROVE  /\ UNCHANGED procOnly
           /\ proc[p].state # "free"
           /\ \A q \in Proc \ {p} : proc'[q] = proc[q]
           /\ proc'[p].run = proc[p].run
           /\ proc'[p].state \notin {"free", "booting"}
           /\ proc[p].state = "exited" => proc'[p].state = "exited"
           /\ AtWork(p)' => AtWork(p)
           /\ \A r \in Run \ {proc[p].run} : store'[r] = store[r]
           /\ store'[proc[p].run].status \in Started
           /\ store[proc[p].run].status # store'[proc[p].run].status =>
                 \/ store'[proc[p].run].status \in Terminal
                 \/ store[proc[p].run].status = "starting" /\ store'[proc[p].run].status = "running"
           /\ AtWork(p)' => store'[proc[p].run].status \notin Terminal
           /\ heartbeat \subseteq heartbeat'
           /\ proc'[p].state \in Beating => proc[p].run \in heartbeat'
<1> DEFINE r == proc[p].run
<1>1. proc[p] \in Process /\ proc[p].state # "free" /\ r \in Run /\ store[r] \in StoredRun
    BY DEF TypeOK, AnalyzerStep, AnalyzerInitialize, AnalyzerRunning, AnalyzerVerdict,
       AnalyzerFinalize, AnalyzerExit, AnalyzerBeat, Alive, Beating
<1>2. store[r].status \in Started /\ (AtWork(p) => store[r].status \notin Terminal)
    BY <1>1 DEF LaunchInv, Settled
<1>3. CASE AnalyzerInitialize(p)
    <2>1. store'[r].status = store[r].status
        BY <1>1, <1>2, <1>3, ReportsKeepStarted DEF AnalyzerInitialize, TypeOK
    <2> QED
        BY <1>1, <1>2, <1>3, <2>1 DEF AnalyzerInitialize, AtWork, Beating, TypeOK, Process
<1>4. ASSUME NEW new, NEW state \in Alive \ {"booting"}, AnalyzerReport(p, new, state)
      PROVE  /\ \A q \in Proc \ {p} : proc'[q] = proc[q]
             /\ proc'[p].run = proc[p].run /\ proc'[p].state = state
             /\ \A q \in Run \ {r} : store'[q] = store[q]
             /\ store'[r] = WriteRun(store[r], proc[p].revision + 1, new, FALSE).run
    BY <1>1, <1>4 DEF AnalyzerReport, TypeOK, Process
<1>5. CASE AnalyzerRunning(p)
    <2>1. AnalyzerReport(p, "running", "working") /\ "working" \in Alive \ {"booting"}
        BY <1>5 DEF AnalyzerRunning, Alive
    <2>2. RunningOr(store[r].status, store'[r].status)
        <3>1. \A revision : RunningOr(store[r].status, WriteRun(store[r], revision, "running", FALSE).run.status)
            BY <1>1, <1>2, ReportsKeepStarted
        <3>2. store'[r] = WriteRun(store[r], proc[p].revision + 1, "running", FALSE).run
            BY <1>4, <2>1
        <3> QED
            BY <3>1, <3>2, Zenon
    <2>3. store'[r].status \in Started /\ store'[r].status \notin Terminal
        BY <1>2, <1>5, <2>2 DEF AnalyzerRunning, AtWork, Started, Terminal, RunningOr
    <2> QED
        BY <1>1, <1>2, <1>4, <1>5, <2>1, <2>2, <2>3 DEF AnalyzerRunning, AtWork, Beating, RunningOr
<1>6. CASE AnalyzerVerdict(p)
    <2>1. PICK v \in Terminal : AnalyzerReport(p, v, "reported")
        BY <1>6 DEF AnalyzerVerdict, Terminal
    <2>2. store'[r].status \in {store[r].status, v}
        <3>1. \A revision : WriteRun(store[r], revision, v, FALSE).run.status \in {store[r].status, v}
            BY <1>1, <1>2, ReportsKeepStarted
        <3>2. store'[r] = WriteRun(store[r], proc[p].revision + 1, v, FALSE).run
            BY <1>4, <2>1 DEF Alive
        <3> QED
            BY <3>1, <3>2, Zenon
    <2>3. AtWork(p) /\ proc[p].state \in Beating /\ UNCHANGED <<procOnly, heartbeat>>
        BY <1>6 DEF AnalyzerVerdict, AtWork, Beating
    <2>4. r \in heartbeat
        BY <2>3 DEF LaunchInv
    <2>5. /\ \A q \in Proc \ {p} : proc'[q] = proc[q]
          /\ proc'[p].run = proc[p].run /\ proc'[p].state = "reported"
          /\ \A q \in Run \ {r} : store'[q] = store[q]
        BY <1>4, <2>1 DEF Alive
    <2>6. store'[r].status \in Started /\ (store'[r].status # store[r].status => store'[r].status \in Terminal)
        BY <1>2, <2>2 DEF Started
    <2> QED
        BY <1>1, <2>3, <2>4, <2>5, <2>6 DEF AtWork
<1>7. CASE AnalyzerFinalize(p)
    <2>1. proc[p].verdict \in Terminal
        BY <1>7 DEF AnalyzerFinalize, TypeOK
    <2>2. store'[r].status \in {store[r].status, proc[p].verdict}
        BY <1>1, <1>2, <1>7, <2>1, ReportsKeepStarted DEF AnalyzerFinalize, TypeOK
    <2> QED
        BY <1>1, <1>2, <1>7, <2>1, <2>2 DEF AnalyzerFinalize, AtWork, Beating, TypeOK, Process, Started
<1>8. CASE AnalyzerExit(p)
    BY <1>1, <1>2, <1>8 DEF AnalyzerExit, AtWork, Beating, TypeOK, Process
<1>9. CASE AnalyzerBeat(p)
    BY <1>1, <1>2, <1>9 DEF AnalyzerBeat, AtWork, Beating, LaunchInv
<1> QED
    BY <1>3, <1>5, <1>6, <1>7, <1>8, <1>9 DEF AnalyzerStep

LEMMA AnalyzerServe ==
    ASSUME ServeInv, NEW p \in Proc, AnalyzerStep(p)
    PROVE  QueueInv' /\ LaunchInv' /\ StageInv'
<1> DEFINE r == proc[p].run
<1> USE DEF ServeInv
<1>1. /\ UNCHANGED <<queue, delivered, pending, pc, job>>
      /\ proc[p].state # "free"
      /\ \A q \in Proc \ {p} : proc'[q] = proc[q]
      /\ proc'[p].run = r
      /\ proc'[p].state \notin {"free", "booting"}
      /\ proc[p].state = "exited" => proc'[p].state = "exited"
      /\ AtWork(p)' => AtWork(p)
      /\ \A q \in Run \ {r} : store'[q] = store[q]
      /\ store'[r].status \in Started
      /\ AtWork(p)' => store'[r].status \notin Terminal
      /\ heartbeat \subseteq heartbeat'
      /\ proc'[p].state \in Beating => r \in heartbeat'
    BY AnalyzerEffect DEF procOnly
<1>2. r \in Run /\ r \in Delivered /\ store[r].status \in Started /\ Delivered' = Delivered
    BY <1>1 DEF LaunchInv, TypeOK, Delivered
<1>3. \A q \in Run : store[q].status \notin Started => q # r /\ store'[q] = store[q]
    BY <1>1, <1>2
<1>4. QueueInv'
    <2>1. \A i \in DOMAIN queue : queue[i] \in Run
        BY DEF TypeOK
    <2>2. "none" \notin Started /\ "queued" \notin Started
        BY DEF Started, Terminal
    <2>3. \A i \in DOMAIN queue : store'[queue[i]].status # "none"
        BY <1>1, <1>3, <2>1, <2>2 DEF QueueInv
    <2>4. \A i \in DOMAIN queue : i > delivered => store'[queue[i]].status = "queued"
        BY <1>1, <1>3, <2>1, <2>2 DEF QueueInv
    <2> QED
        BY <1>1, <1>2, <2>3, <2>4 DEF QueueInv
<1>5. LaunchInv'
    <2>1. \A q \in Proc : proc'[q].run = proc[q].run /\ (proc'[q].state # "free" => proc[q].state # "free")
        BY <1>1
    <2>2. LaunchedOnce'
        BY <2>1 DEF LaunchInv, LaunchedOnce
    <2>3. \A q \in Run : store'[q].status # "stale"
        BY <1>1 DEF LaunchInv, Started, Terminal
    <2>4. \A q \in Proc : proc'[q].state # "free" =>
              proc'[q].run \in Delivered' /\ store'[proc'[q].run].status \in Started
        BY <1>1, <1>2, <2>1 DEF LaunchInv, TypeOK
    <2>5. ASSUME NEW q \in Proc, AtWork(q)'
          PROVE  proc'[q].run \in pending' /\ ~Settled(proc[q].run)'
        <3>1. CASE q = p
            BY <1>1, <2>5, <3>1 DEF LaunchInv, Settled
        <3>2. CASE q # p
            <4>1. AtWork(q) /\ proc'[q] = proc[q]
                BY <1>1, <2>5, <3>2 DEF AtWork
            <4>2. proc[q].run \in Run /\ proc[q].run # r
                BY <1>1, <3>2, <4>1 DEF LaunchInv, LaunchedOnce, AtWork, TypeOK
            <4> QED
                BY <1>1, <4>1, <4>2 DEF LaunchInv, Settled
        <3> QED
            BY <3>1, <3>2
    <2>6. \A q \in Proc : proc'[q].state \in Beating => proc'[q].run \in heartbeat'
        BY <1>1 DEF LaunchInv
    <2>7. \A q \in Proc : proc'[q].state = "free" => proc'[q].run = NoOne
        BY <1>1 DEF LaunchInv
    <2> QED
        BY <2>2, <2>3, <2>4, <2>5, <2>6, <2>7 DEF LaunchInv
<1>6. ASSUME NEW s \in Scheduler PROVE Stage(s)'
    <2> DEFINE e == job[s].entry
    <2>1. Stage(s) /\ job'[s] = job[s] /\ pc'[s] = pc[s]
        BY <1>1 DEF StageInv
    <2>2. pc[s] \in Holding => e \in Run
        BY DEF TypeOK
    <2>3. \A q \in Proc : /\ proc'[q].run = proc[q].run
                          /\ proc'[q].state = "booting" => proc[q].state = "booting"
                          /\ proc'[q].state # "free" <=> proc[q].state # "free"
                          /\ proc[q].state = "exited" => proc'[q].state = "exited"
                          /\ AtWork(q)' => AtWork(q)
        BY <1>1 DEF AtWork
    <2>4. Launched(e)' <=> Launched(e)
        BY <2>1, <2>3 DEF Launched
    <2>5. pc[s] \in Holding /\ store[e].status = "queued" => store'[e].status = "queued"
        BY <1>3, <2>2 DEF Started, Terminal
    <2>6. pc[s] \in Holding /\ store[e].status \in Started => store'[e].status \in Started
        BY <1>1, <2>2
    <2>7. pc[s] \in {"spawn", "spawn_failed"} => store'[e] = store[e]
        BY <1>1, <2>1, <2>2 DEF Stage, Launched, Holding
    <2>8. pc[s] \in {"wait", "verdict", "conclude"} => job[s].child \in Proc
        BY DEF TypeOK
    <2> QED
        BY <1>1, <2>1, <2>2, <2>3, <2>4, <2>5, <2>6, <2>7, <2>8 DEF Stage, Holding
<1> QED
    BY <1>4, <1>5, <1>6 DEF StageInv

\* Whoever takes a step inside run_once is there alone.
LEMMA OthersOutside ==
    ASSUME TypeOK, LeaseExcludes, Faults = {}, NEW s \in Scheduler, SchedulerStep(s),
           NEW t \in Scheduler \ {s}
    PROVE  pc'[t] = pc[t] /\ job'[t] = job[t] /\ pc[t] \notin Busy
<1>1. pc'[t] = pc[t] /\ job'[t] = job[t]
    BY DEF SchedulerStep, AcquireLease, CountPending, ClaimEntry, ReadEntry, FindNothing,
       ReadStatus, CheckHeartbeat, AbortRecovered, MarkStarting, MarkSpawnFailed, Conclude,
       Transition, Spawn, SpawnFails, Reap, CheckVerdict, Ack, ReleaseLease, Take, Goto, TypeOK
<1>2. pc[s] \in Busy \/ lease = NoOne
    BY DEF SchedulerStep, AcquireLease, CountPending, ClaimEntry, ReadEntry, FindNothing,
       ReadStatus, CheckHeartbeat, AbortRecovered, MarkStarting, MarkSpawnFailed, Conclude,
       Spawn, SpawnFails, Reap, CheckVerdict, Ack, ReleaseLease, Busy
<1> QED
    BY <1>1, <1>2, SchedulerAssumption DEF LeaseExcludes

\* What a transition by a scheduler leaves of a run.
LEMMA SchedulerWriteEffect ==
    ASSUME NEW run \in StoredRun, NEW new \in RunStatus
    PROVE  /\ SchedulerWrite(run, new).run.status \in {run.status, new}
           /\ new = "starting" /\ run.status = "queued" =>
                 /\ SchedulerWrite(run, new).run.status = "starting"
                 /\ ~Rejected(SchedulerWrite(run, new))
<1>1. [Sweep(run) EXCEPT !.status = new, !.listed = FALSE].status = new
    BY SweepType DEF StoredRun
<1>2. [run EXCEPT !.status = new].status = new
    BY DEF StoredRun
<1>3. SchedulerWrite(run, new).run.status \in {run.status, new}
    BY <1>1, <1>2 DEF SchedulerWrite, Reply
<1>4. ASSUME new = "starting", run.status = "queued"
      PROVE  /\ SchedulerWrite(run, new).run.status = "starting"
             /\ ~Rejected(SchedulerWrite(run, new))
    <2>1. SchedulerWrite(run, new) = Reply("ok", [run EXCEPT !.status = new])
        BY <1>4 DEF SchedulerWrite, SchedulerEdge, Terminal
    <2>2. /\ SchedulerWrite(run, new).run = [run EXCEPT !.status = new]
          /\ SchedulerWrite(run, new).code = "ok"
        BY <2>1 DEF Reply
    <2> QED
        BY <1>2, <1>4, <2>2 DEF Rejected
<1> QED
    BY <1>3, <1>4

\* The four transitions of _handle_entry, where they are made.
TransitionAt(s, new, next) ==
    /\ Transition(s, new, next)
    /\ \/ pc[s] = "start" /\ new = "starting" /\ next = "spawn"
       \/ pc[s] \in {"abort", "spawn_failed", "conclude"} /\ new \in Terminal /\ next = "ack"

LEMMA TransitionEffect ==
    ASSUME TypeOK, NEW s \in Scheduler, Stage(s), NEW new, NEW next, TransitionAt(s, new, next)
    PROVE  LET e == job[s].entry
           IN  /\ e \in Run /\ e \in pending
               /\ UNCHANGED <<queue, delivered, pending, heartbeat, job, proc>>
               /\ \A r \in Run \ {e} : store'[r] = store[r]
               /\ store'[e].status \in {store[e].status, new}
               /\ pc'[s] \in {next, "unwind"}
               /\ pc[s] = "start" => store'[e].status = "starting" /\ pc'[s] = "spawn"
<1> DEFINE e == job[s].entry
           reply == SchedulerWrite(store[e], new)
<1>1. e \in Run /\ store[e] \in StoredRun /\ new \in RunStatus /\ e \in pending
    BY DEF TypeOK, Holding, Stage, RunStatus, TransitionAt, Terminal
<1>2. store' = [store EXCEPT ![e] = reply.run] /\ pc'[s] = IF Rejected(reply) THEN "unwind" ELSE next
    BY DEF TransitionAt, Transition, Goto, TypeOK
<1>3. pc[s] = "start" => store[e].status = "queued" /\ new = "starting" /\ next = "spawn"
    BY DEF Stage, TransitionAt
<1>4. reply.run.status \in {store[e].status, new}
    BY <1>1, SchedulerWriteEffect
<1>5. pc[s] = "start" => reply.run.status = "starting" /\ ~Rejected(reply)
    BY <1>1, <1>3, SchedulerWriteEffect
<1>6. store'[e] = reply.run /\ \A r \in Run \ {e} : store'[r] = store[r]
    BY <1>1, <1>2 DEF TypeOK
<1>7. UNCHANGED <<queue, delivered, pending, heartbeat, job, proc>>
    BY DEF TransitionAt, Transition
<1> HIDE DEF reply
<1> QED
    BY <1>1, <1>2, <1>3, <1>4, <1>5, <1>6, <1>7

LEMMA TransitionServe ==
    ASSUME ServeInv, NEW s \in Scheduler, NEW new, NEW next, TransitionAt(s, new, next)
    PROVE  QueueInv' /\ LaunchInv' /\ Stage(s)'
<1> DEFINE e == job[s].entry
<1> USE DEF ServeInv
<1>1. e \in Run /\ e \in pending /\ Stage(s)
    BY DEF TypeOK, Holding, Stage, StageInv, TransitionAt
<1>2. /\ UNCHANGED <<queue, delivered, pending, heartbeat, job, proc>>
      /\ \A r \in Run \ {e} : store'[r] = store[r]
      /\ store'[e].status \in {store[e].status, new}
      /\ pc'[s] \in {next, "unwind"}
      /\ pc[s] = "start" => store'[e].status = "starting" /\ pc'[s] = "spawn"
      /\ pc[s] \in {"start", "abort", "spawn_failed", "conclude"}
      /\ pc[s] = "start" \/ (next = "ack" /\ new \in Terminal)
    BY <1>1, TransitionEffect DEF TransitionAt
<1>3. store'[e].status \in Started
    BY <1>1, <1>2 DEF Stage, Started, LaunchInv, TypeOK, Holding
<1>4. \A p \in Proc : AtWork(p) => proc[p].run # e
    <2>1. CASE pc[s] = "start"
        BY <1>1, <2>1 DEF Stage, LaunchInv, AtWork, Started, Terminal
    <2>2. CASE pc[s] = "spawn_failed"
        BY <1>1, <2>2 DEF Stage, Launched, AtWork
    <2>3. CASE pc[s] = "abort"
        BY <1>1, <2>3 DEF Stage
    <2>4. CASE pc[s] = "conclude"
        <3>1. /\ job[s].child \in Proc /\ proc[job[s].child].run = e
              /\ proc[job[s].child].state = "exited"
            BY <1>1, <2>4 DEF Stage, TypeOK
        <3> QED
            BY <3>1 DEF LaunchInv, LaunchedOnce, AtWork
    <2> QED
        BY <1>2, <2>1, <2>2, <2>3, <2>4
<1>5. QueueInv'
    <2>1. \A i \in DOMAIN queue : queue[i] \in Run
        BY DEF TypeOK
    <2>2. ASSUME NEW i \in DOMAIN queue PROVE store'[queue[i]].status # "none"
        BY <1>2, <1>3, <2>1 DEF QueueInv, Started, Terminal
    <2>3. ASSUME NEW i \in DOMAIN queue, i > delivered PROVE store'[queue[i]].status = "queued"
        <3>1. PICK j \in 1..delivered : queue[j] = e
            BY <1>1 DEF QueueInv, Delivered
        <3>2. j \in DOMAIN queue /\ i # j
            BY <2>3 DEF TypeOK
        <3>3. queue[i] # e
            BY <3>1, <3>2 DEF QueueInv
        <3> QED
            BY <1>2, <2>1, <2>3, <3>3 DEF QueueInv
    <2> QED
        BY <1>2, <2>2, <2>3 DEF QueueInv, Delivered
<1>6. LaunchInv'
    <2>1. \A r \in Run : store'[r].status # "stale"
        BY <1>2, <1>3 DEF LaunchInv, Started, Terminal
    <2>2. \A p \in Proc : proc[p].state # "free" => proc[p].run \in Delivered /\ store'[proc[p].run].status \in Started
        BY <1>2, <1>3 DEF LaunchInv, TypeOK
    <2>3. \A p \in Proc : AtWork(p) => proc[p].run \in pending /\ store'[proc[p].run].status \notin Terminal
        BY <1>2, <1>4 DEF LaunchInv, TypeOK, AtWork, Settled
    <2>4. Delivered' = Delivered /\ LaunchedOnce'
        BY <1>2 DEF Delivered, LaunchInv, LaunchedOnce
    <2> QED
        BY <1>2, <2>1, <2>2, <2>3, <2>4 DEF LaunchInv, AtWork, Settled
<1>7. Stage(s)'
    <2>1. pc'[s] = "spawn" => store'[e].status = "starting" /\ ~Launched(e)
        BY <1>1, <1>2 DEF Stage, LaunchInv, Launched, Started, Terminal
    <2>2. pc'[s] \in {"ack", "spawn", "unwind"} /\ job'[s].entry = e /\ e \in pending'
        BY <1>1, <1>2
    <2>3. Launched(e)' <=> Launched(e)
        BY <1>2 DEF Launched
    <2> QED
        BY <2>1, <2>2, <2>3 DEF Stage, Holding
<1> QED
    BY <1>5, <1>6, <1>7

\* A step that leaves the runs, the queue and the Analyzers alone.
LEMMA StillServed ==
    ASSUME QueueInv, LaunchInv, UNCHANGED <<store, queue, delivered, pending, heartbeat, proc>>
    PROVE  QueueInv' /\ LaunchInv'
<1>1. Delivered' = Delivered
    BY DEF Delivered
<1> QED
    BY <1>1 DEF QueueInv, LaunchInv, LaunchedOnce, AtWork, Settled

LEMMA ReadServe ==
    ASSUME ServeInv, NEW s \in Scheduler, ReadEntry(s)
    PROVE  QueueInv' /\ LaunchInv' /\ Stage(s)'
<1> DEFINE e == queue[delivered + 1]
<1> USE DEF ServeInv
<1>1. /\ delivered \in Nat /\ delivered' = delivered + 1 /\ delivered + 1 \in DOMAIN queue
      /\ pending = {} /\ pending' = {e} /\ UNCHANGED <<queue, store, heartbeat, proc>>
      /\ pc'[s] = "status" /\ job'[s].entry = e /\ job'[s].recovered = FALSE
    BY DEF ReadEntry, Take, Goto, NoJob, TypeOK, StageInv, Stage
<1>2. e \in Run /\ store[e].status = "queued"
    BY <1>1 DEF QueueInv, TypeOK
<1>3. Delivered' = Delivered \union {e}
    BY <1>1 DEF Delivered
<1>4. \A p \in Proc : proc[p].state # "free" => proc[p].run # e
    BY <1>2 DEF LaunchInv, Started, Terminal
<1>5. QueueInv'
    <2>1. \A i \in DOMAIN queue : i \in Nat
        BY DEF TypeOK
    <2>2. \A i \in DOMAIN queue : i > delivered + 1 => store[queue[i]].status = "queued"
        BY <1>1, <2>1 DEF QueueInv
    <2>3. \A f, g \in pending' : f = g
        BY <1>1
    <2>4. pending' \subseteq Delivered'
        BY <1>1, <1>3
    <2> QED
        BY <1>1, <2>2, <2>3, <2>4 DEF QueueInv
<1>6. LaunchInv'
    BY <1>1, <1>3 DEF LaunchInv, LaunchedOnce, AtWork, Settled
<1>7. Stage(s)'
    BY <1>1, <1>2, <1>4 DEF Stage, Holding
<1> QED
    BY <1>5, <1>6, <1>7

LEMMA AckServe ==
    ASSUME ServeInv, NEW s \in Scheduler, Ack(s)
    PROVE  QueueInv' /\ LaunchInv' /\ Stage(s)'
<1> USE DEF ServeInv
<1>1. /\ UNCHANGED <<store, queue, delivered, heartbeat, proc>>
      /\ pending' = pending \ {job[s].entry}
      /\ pc'[s] = "release"
      /\ Settled(job[s].entry)
    BY DEF Ack, Goto, TypeOK, AckInv, SeenSettled
<1>2. Delivered' = Delivered
    BY <1>1 DEF Delivered
<1>3. QueueInv'
    BY <1>1, <1>2 DEF QueueInv
<1>4. LaunchInv'
    BY <1>1, <1>2 DEF LaunchInv, LaunchedOnce, AtWork, Settled
<1>5. Stage(s)'
    BY <1>1 DEF Stage, Holding
<1> QED
    BY <1>3, <1>4, <1>5

LEMMA SpawnServe ==
    ASSUME ServeInv, NEW s \in Scheduler, NEW p \in Proc, Spawn(s, p)
    PROVE  QueueInv' /\ LaunchInv' /\ Stage(s)'
<1> DEFINE e == job[s].entry
<1> USE DEF ServeInv
<1>1. /\ UNCHANGED <<store, queue, delivered, pending, heartbeat>>
      /\ proc[p].state = "free" /\ proc'[p].state = "booting" /\ proc'[p].run = e
      /\ \A q \in Proc \ {p} : proc'[q] = proc[q]
      /\ pc'[s] = "wait" /\ job'[s].entry = e /\ job'[s].child = p
    BY DEF Spawn, Goto, NoProc, TypeOK, redisVars, Job
<1>2. /\ e \in pending /\ e \in Delivered /\ e \in Run
      /\ store[e].status = "starting" /\ ~Launched(e)
    BY DEF Spawn, StageInv, Stage, Holding, QueueInv, TypeOK
<1>3. QueueInv'
    BY <1>1 DEF QueueInv, Delivered
<1>4. LaunchInv'
    <2>1. ASSUME NEW q \in Proc \ {p} PROVE proc'[q].run = proc[q].run /\ proc[q].run # e
        BY <1>1, <1>2, SchedulerAssumption DEF LaunchInv, Launched
    <2>2. LaunchedOnce'
        BY <1>1, <2>1 DEF LaunchInv, LaunchedOnce
    <2>3. Delivered' = Delivered
        BY <1>1 DEF Delivered
    <2> QED
        BY <1>1, <1>2, <2>2, <2>3 DEF LaunchInv, AtWork, Settled, Started, Terminal, Beating
<1>5. Stage(s)'
    BY <1>1, <1>2 DEF Stage, Holding
<1> QED
    BY <1>3, <1>4, <1>5

LEMMA SchedulerServe ==
    ASSUME ServeInv, Faults = {}, NEW s \in Scheduler, SchedulerStep(s)
    PROVE  QueueInv' /\ LaunchInv' /\ StageInv'
<1> DEFINE e == job[s].entry
<1> USE DEF ServeInv, Goto, redisVars
<1>1. Stage(s)
    BY DEF StageInv
<1>2. QueueInv' /\ LaunchInv' /\ Stage(s)'
    <2>1. CASE AcquireLease(s) \/ FindNothing(s) \/ ReleaseLease(s)
        <3>1. UNCHANGED <<store, queue, delivered, pending, heartbeat, proc>>
            BY <2>1 DEF AcquireLease, FindNothing, ReleaseLease
        <3>2. pc'[s] \in {"next", "release", "idle", "down"}
            BY <2>1 DEF AcquireLease, FindNothing, ReleaseLease, TypeOK
        <3> QED
            BY <3>1, <3>2, StillServed DEF Stage, Holding
    <2>2. CASE CountPending(s)
        BY <2>2, StillServed DEF CountPending, Stage, Holding, TypeOK
    <2>3. CASE ClaimEntry(s)
        <3>1. PICK f \in Claimable : Take(s, f, TRUE)
            BY <2>3 DEF ClaimEntry
        <3>2. /\ pc'[s] = "status" /\ job'[s].entry = f /\ job'[s].recovered = TRUE
              /\ UNCHANGED <<store, queue, delivered, pending, heartbeat, proc>>
            BY <2>3, <3>1 DEF ClaimEntry, Take, NoJob, TypeOK
        <3>3. f \in pending /\ \A p \in Proc : ~(proc[p].run = f /\ proc[p].state = "booting")
            BY <3>1 DEF Claimable
        <3> QED
            BY <3>2, <3>3, StillServed DEF Stage, Holding
    <2>4. CASE ReadEntry(s)
        BY <2>4, ReadServe
    <2>5. CASE ReadStatus(s)
        <3>1. /\ UNCHANGED <<store, queue, delivered, pending, heartbeat, proc>>
              /\ job'[s].entry = e /\ job'[s].recovered = job[s].recovered
              /\ job'[s].seen = store[e].status
              /\ pc[s] = "status" /\ pc'[s] = IF Settled(e) THEN "ack" ELSE "beat"
            BY <2>5 DEF ReadStatus, TypeOK, Job
        <3>2. e \in pending /\ e \in Run /\ store[e].status \in RunStatus
            BY <1>1, <3>1 DEF Stage, Holding, TypeOK, StoredRun
        <3>3. store[e].status \notin {"none", "stale"}
            <4>1. PICK i \in 1..delivered : queue[i] = e
                BY <3>2 DEF QueueInv, Delivered
            <4> QED
                BY <3>2, <4>1 DEF QueueInv, LaunchInv, TypeOK
        <3> QED
            BY <1>1, <3>1, <3>2, <3>3, StillServed DEF Stage, Holding, Settled, Started, RunStatus
    <2>6. CASE CheckHeartbeat(s)
        <3>1. /\ UNCHANGED <<store, queue, delivered, pending, heartbeat, proc, job>>
              /\ pc[s] = "beat"
              /\ \/ pc'[s] = "release"
                 \/ /\ pc'[s] = "abort" /\ e \notin heartbeat
                    /\ job[s].recovered /\ job[s].seen \in {"starting", "running", "stale"}
                 \/ /\ pc'[s] = "start"
                    /\ ~(job[s].recovered /\ job[s].seen \in {"starting", "running", "stale"})
            BY <2>6 DEF CheckHeartbeat, TypeOK
        <3>2. CASE pc'[s] = "release"
            BY <3>1, <3>2, StillServed DEF Stage, Holding
        <3>3. CASE pc'[s] = "abort"
            <4>1. store[e].status \in Started /\ e \in pending
                BY <1>1, <3>1, <3>3 DEF Stage, Holding
            <4>2. \A p \in Proc : AtWork(p) => proc[p].run # e
                BY <1>1, <3>1, <3>3 DEF Stage, AtWork, LaunchInv, Beating
            <4> QED
                BY <3>1, <3>3, <4>1, <4>2, StillServed DEF Stage, Holding, AtWork
        <3>4. CASE pc'[s] = "start"
            <4>1. store[e].status = "queued" /\ e \in pending
                BY <1>1, <3>1, <3>4 DEF Stage, Holding
            <4> QED
                BY <3>1, <3>4, <4>1, StillServed DEF Stage, Holding
        <3> QED
            BY <3>1, <3>2, <3>3, <3>4
    <2>7. CASE AbortRecovered(s) \/ MarkStarting(s) \/ MarkSpawnFailed(s) \/ Conclude(s)
        <3>1. \E new, next : TransitionAt(s, new, next)
            BY <2>7 DEF AbortRecovered, MarkStarting, MarkSpawnFailed, Conclude, TransitionAt, Terminal
        <3> QED
            BY <3>1, TransitionServe
    <2>8. CASE \E p \in Proc : Spawn(s, p)
        BY <2>8, SpawnServe
    <2>9. CASE SpawnFails(s) \/ Reap(s) \/ CheckVerdict(s)
        <3>1. UNCHANGED <<store, queue, delivered, pending, heartbeat, proc, job>>
            BY <2>9 DEF SpawnFails, Reap, CheckVerdict
        <3>2. \/ pc[s] = "spawn" /\ pc'[s] = "spawn_failed"
              \/ pc[s] = "wait" /\ pc'[s] = "verdict" /\ proc[job[s].child].state = "exited"
              \/ pc[s] = "verdict" /\ pc'[s] \in {"ack", "conclude"}
            BY <2>9 DEF SpawnFails, Reap, CheckVerdict, TypeOK
        <3> QED
            BY <1>1, <3>1, <3>2, StillServed DEF Stage, Holding, Launched
    <2>10. CASE Ack(s)
        BY <2>10, AckServe
    <2> QED
        BY <2>1, <2>2, <2>3, <2>4, <2>5, <2>6, <2>7, <2>8, <2>9, <2>10 DEF SchedulerStep
<1>3. ASSUME NEW t \in Scheduler \ {s} PROVE Stage(t)'
    <2>1. pc'[t] \notin Busy
        BY OthersOutside
    <2> QED
        BY <2>1 DEF Stage, Busy, Holding
<1> QED
    BY <1>2, <1>3 DEF StageInv

LEMMA SubmitServe ==
    ASSUME ServeInv, NEW r \in Run, Submit(r)
    PROVE  QueueInv' /\ LaunchInv' /\ StageInv'
<1> USE DEF ServeInv
<1>1. /\ UNCHANGED <<delivered, pending, heartbeat, pc, job, proc>>
      /\ store[r].status = "none" /\ store'[r].status = "queued"
      /\ \A q \in Run \ {r} : store'[q] = store[q]
      /\ queue' = Append(queue, r)
    <2>1. store[r].status = "none"
        BY DEF Submit, SubmitRun, Reply
    <2>2. SubmitRun(store[r]).run.status = "queued"
        BY <2>1 DEF SubmitRun, Reply, TypeOK, StoredRun
    <2> QED
        BY <2>1, <2>2 DEF Submit, TypeOK
<1>2. /\ DOMAIN queue' = 1..(Len(queue) + 1) /\ DOMAIN queue = 1..Len(queue) /\ Len(queue) \in Nat
      /\ \A i \in DOMAIN queue : queue'[i] = queue[i] /\ queue[i] \in Run
      /\ queue'[Len(queue) + 1] = r /\ delivered \in 0..Len(queue)
    BY <1>1, AppendProperties DEF TypeOK
<1>3. \A i \in DOMAIN queue : queue[i] # r
    BY <1>1 DEF QueueInv
<1>4. Delivered' = Delivered /\ r \notin Delivered
    BY <1>1, <1>2, <1>3 DEF Delivered
<1>5. QueueInv'
    <2>1. ASSUME NEW i \in DOMAIN queue', NEW j \in DOMAIN queue', queue'[i] = queue'[j] PROVE i = j
        BY <1>2, <1>3, <2>1 DEF QueueInv
    <2>2. ASSUME NEW i \in DOMAIN queue'
          PROVE  store'[queue'[i]].status # "none" /\ (i > delivered => store'[queue'[i]].status = "queued")
        BY <1>1, <1>2, <1>3, <2>2 DEF QueueInv
    <2> QED
        BY <1>1, <1>4, <2>1, <2>2 DEF QueueInv
<1>6. \A p \in Proc : proc[p].state # "free" => proc[p].run \in Run /\ proc[p].run # r
    BY <1>4 DEF LaunchInv, TypeOK
<1>7. LaunchInv'
    BY <1>1, <1>4, <1>6 DEF LaunchInv, LaunchedOnce, AtWork, Settled
<1>8. ASSUME NEW s \in Scheduler PROVE Stage(s)'
    <2>1. Stage(s)
        BY DEF StageInv
    <2>2. pc[s] \in Holding => job[s].entry \in Run /\ job[s].entry # r
        BY <1>4, <2>1 DEF Stage, TypeOK, QueueInv
    <2> QED
        BY <1>1, <2>1, <2>2 DEF Stage, Holding, AtWork, Launched
<1> QED
    BY <1>5, <1>7, <1>8 DEF StageInv

LEMMA ServeNext == Faults = {} /\ ServeInv /\ [Next]_vars => ServeInv'
<1> SUFFICES ASSUME Faults = {}, ServeInv, [Next]_vars PROVE ServeInv'
    OBVIOUS
<1> USE DEF ServeInv
<1>1. TypeOK' /\ LeaseExcludes' /\ AckInv'
    BY TypeNext, LeaseNext, AckNext
<1>2. ASSUME NEW s \in Scheduler, Interrupt(s) \/ Crash(s) \/ Restart(s)
      PROVE  QueueInv' /\ LaunchInv' /\ StageInv'
    <2>1. /\ UNCHANGED <<store, queue, delivered, pending, heartbeat, proc>>
          /\ pc'[s] \in {"unwind", "down", "idle"}
          /\ \A t \in Scheduler \ {s} : pc'[t] = pc[t] /\ job'[t] = job[t]
        BY <1>2 DEF Interrupt, Crash, Restart, Goto, redisVars, TypeOK
    <2>2. Stage(s)'
        BY <2>1 DEF Stage, Holding
    <2>3. ASSUME NEW t \in Scheduler \ {s} PROVE Stage(t)'
        BY <2>1 DEF StageInv, Stage, AtWork, Launched
    <2> QED
        BY <2>1, <2>2, <2>3, StillServed DEF StageInv
<1>3. CASE LeaseExpires \/ (\E r \in Run : EntryIdles(r)) \/ UNCHANGED vars
    <2>1. UNCHANGED <<store, queue, delivered, pending, heartbeat, proc, pc, job>>
        BY <1>3 DEF LeaseExpires, EntryIdles, vars, redisVars
    <2> QED
        BY <1>1, <2>1, StillServed DEF StageInv, Stage, AtWork, Launched
<1>4. ASSUME NEW r \in Run, HeartbeatExpires(r) PROVE QueueInv' /\ LaunchInv' /\ StageInv'
    <2>1. /\ UNCHANGED <<store, queue, delivered, pending, proc, pc, job>>
          /\ heartbeat' = heartbeat \ {r}
          /\ \A p \in Proc : ~(proc[p].run = r /\ proc[p].state \in Beating)
        BY <1>4 DEF HeartbeatExpires
    <2>2. QueueInv'
        BY <2>1 DEF QueueInv, Delivered
    <2>3. LaunchInv'
        BY <2>1 DEF LaunchInv, LaunchedOnce, AtWork, Settled, Delivered
    <2> QED
        BY <2>1, <2>2, <2>3 DEF StageInv, Stage, AtWork, Launched
<1> QED
    BY <1>1, <1>2, <1>3, <1>4, SubmitServe, SchedulerServe, AnalyzerServe DEF Next

LEMMA ServeInit == Init => ServeInv
<1> SUFFICES ASSUME Init PROVE ServeInv
    OBVIOUS
<1>1. LeaseExcludes /\ AckInv
    BY DEF Init, LeaseExcludes, Busy, AckInv, AckedIsSettled, SeenSettled
<1>2. QueueInv
    BY DEF Init, QueueInv, Delivered
<1>3. LaunchInv
    BY DEF Init, LaunchInv, LaunchedOnce, NoProc, NoRun, AtWork, Beating
<1>4. StageInv
    BY DEF Init, StageInv, Stage, Holding
<1> QED
    BY <1>1, <1>2, <1>3, <1>4, TypeInit DEF ServeInv

\* At most one Analyzer is at work, for any number of runs, schedulers, crashes and
\* interrupts, as long as no lease and no heartbeat of a live process lapses and an
\* Analyzer reaches Redis before its entry is recovered.
THEOREM OneAtWork == ASSUME Faults = {} PROVE Spec => []OneAnalysis
<1>1. ServeInv => OneAnalysis
    BY DEF ServeInv, QueueInv, LaunchInv, LaunchedOnce, AtWork, OneAnalysis
<1>2. ServeInv /\ [Next]_vars => ServeInv'
    BY ServeNext
<1> QED
    BY <1>1, <1>2, ServeInit, PTL DEF Spec

\* No run gets a second Analyzer, under the same assumptions.
THEOREM OneLaunch == ASSUME Faults = {} PROVE Spec => []LaunchedOnce
<1>1. ServeInv => LaunchedOnce
    BY DEF ServeInv, LaunchInv
<1>2. ServeInv /\ [Next]_vars => ServeInv'
    BY ServeNext
<1> QED
    BY <1>1, <1>2, ServeInit, PTL DEF Spec

-----------------------------------------------------------------------------
(* The refinement of JobQueue.  A run whose status still changes is the    *)
(* pending one, and the pending run is the head of the queue.              *)

HasStarted == {proc[p].run : p \in {q \in Proc : proc[q].state # "free"}}

LEMMA PendingIsHead ==
    ASSUME TypeOK, QueueInv, NEW e \in pending
    PROVE  Jobs!IsHead(e)
<1>1. PICK i \in 1..delivered : queue[i] = e
    BY DEF QueueInv, Delivered
<1>2. i \in DOMAIN queue /\ 1..(i - 1) \subseteq DOMAIN queue /\ 1..(i - 1) \subseteq 1..delivered
    BY DEF TypeOK
<1>3. ASSUME NEW j \in 1..(i - 1) PROVE queue[j] \in Delivered \ pending
    <2>1. queue[j] # e
        BY <1>1, <1>2 DEF QueueInv
    <2> QED
        BY <1>2, <2>1 DEF QueueInv, Delivered
<1> QED
    BY <1>1, <1>2, <1>3 DEF Jobs!IsHead

\* A step that changes at most the status of one started run, and how JobQueue sees it.
LEMMA StatusStep ==
    ASSUME ServeInv, NEW r \in Run, store[r].status \in Started, r \in Delivered,
           UNCHANGED <<queue, delivered, pending>>, HasStarted' = HasStarted,
           \A q \in Run \ {r} : store'[q].status = store[q].status,
           \/ store'[r].status = store[r].status
           \/ store[r].status \notin Terminal /\ store'[r].status \in Terminal
           \/ /\ store[r].status = "starting" /\ store'[r].status = "running"
              /\ r \in HasStarted
    PROVE  [Jobs!Next]_(Jobs!vars)
<1> DEFINE status == [q \in Run |-> store[q].status]
<1>1. Delivered' = Delivered
    BY DEF Delivered
<1>2. status' = [status EXCEPT ![r] = store'[r].status] /\ status[r] = store[r].status
    OBVIOUS
<1>3. UNCHANGED <<queue, Delivered \ pending, HasStarted>>
    BY <1>1
<1>4. CASE store'[r].status = store[r].status
    <2>1. status' = status
        BY <1>2, <1>4
    <2> QED
        BY <1>3, <2>1 DEF Jobs!vars, HasStarted
<1>5. CASE store'[r].status # store[r].status
    <2>1. r \in pending
        <3>1. PICK i \in 1..delivered : queue[i] = r
            BY DEF Delivered
        <3> QED
            BY <1>5, <3>1 DEF ServeInv, AckInv, AckedIsSettled, Settled, Terminal
    <2>2. Jobs!IsHead(r)
        BY <2>1, PendingIsHead DEF ServeInv
    <2>3. CASE store[r].status \notin Terminal /\ store'[r].status \in Terminal
        <3>1. status[r] \in {"starting", "running"} /\ store'[r].status \in Jobs!Verdict
            BY <1>2, <2>3 DEF Started, Terminal, Jobs!Verdict
        <3>2. Jobs!Settle(r)
            BY <1>2, <1>3, <2>2, <3>1 DEF Jobs!Settle, HasStarted
        <3> QED
            BY <3>2 DEF Jobs!Next
    <2>4. CASE /\ store[r].status = "starting" /\ store'[r].status = "running"
               /\ r \in HasStarted
        <3>1. Jobs!Work(r)
            BY <1>2, <1>3, <2>2, <2>4 DEF Jobs!Work, HasStarted
        <3> QED
            BY <3>1 DEF Jobs!Next
    <2> QED
        BY <1>5, <2>3, <2>4
<1> QED
    BY <1>4, <1>5

LEMMA BeginOrLaunch ==
    ASSUME NEW r \in Run, Jobs!Begin(r) \/ Jobs!Launch(r)
    PROVE  [Jobs!Next]_(Jobs!vars)
BY DEF Jobs!Next

LEMMA SubmitRefines ==
    ASSUME ServeInv, NEW r \in Run, Submit(r)
    PROVE  [Jobs!Next]_(Jobs!vars)
<1> DEFINE status == [q \in Run |-> store[q].status]
<1> USE DEF ServeInv
<1>1. store[r].status = "none" /\ SubmitRun(store[r]).run.status = "queued"
    BY DEF Submit, SubmitRun, Reply, TypeOK, StoredRun
<1>2. status[r] = "none" /\ status' = [status EXCEPT ![r] = "queued"]
    BY <1>1 DEF Submit, TypeOK
<1>3. queue' = Append(queue, r) /\ UNCHANGED <<delivered, pending, proc>>
    BY DEF Submit
<1>4. Delivered' = Delivered
    <2>1. ASSUME NEW i \in 1..delivered PROVE queue'[i] = queue[i]
        <3>1. queue \in Seq(Run) /\ i \in 1..Len(queue)
            BY DEF TypeOK
        <3> QED
            BY <1>3, <3>1, AppendProperties
    <2> QED
        BY <1>3, <2>1 DEF Delivered
<1>5. Jobs!Accept(r)
    BY <1>2, <1>3, <1>4 DEF Jobs!Accept
<1> QED
    BY <1>5 DEF Jobs!Next

LEMMA SchedulerRefines ==
    ASSUME ServeInv, Faults = {}, NEW s \in Scheduler, SchedulerStep(s)
    PROVE  [Jobs!Next]_(Jobs!vars)
<1> DEFINE e == job[s].entry
           status == [q \in Run |-> store[q].status]
<1> USE DEF ServeInv, Goto, redisVars
<1>1. Stage(s)
    BY DEF StageInv
<1>2. CASE \/ AcquireLease(s) \/ CountPending(s) \/ ClaimEntry(s) \/ FindNothing(s)
           \/ ReadStatus(s) \/ CheckHeartbeat(s) \/ SpawnFails(s) \/ Reap(s)
           \/ CheckVerdict(s) \/ ReleaseLease(s)
    <2>1. UNCHANGED <<store, queue, delivered, pending, proc>>
        BY <1>2 DEF AcquireLease, CountPending, ClaimEntry, FindNothing, ReadStatus,
           CheckHeartbeat, SpawnFails, Reap, CheckVerdict, ReleaseLease
    <2> QED
        BY <2>1 DEF Jobs!vars, Delivered
<1>3. CASE ReadEntry(s)
    <2>1. /\ delivered \in Nat /\ delivered' = delivered + 1 /\ delivered + 1 \in DOMAIN queue
          /\ pending = {} /\ pending' = {queue[delivered + 1]} /\ UNCHANGED <<queue, store, proc>>
        BY <1>1, <1>3 DEF ReadEntry, TypeOK, Stage
    <2>2. queue[delivered + 1] \notin Delivered
        BY <2>1 DEF QueueInv, Delivered, TypeOK
    <2>3. Delivered' \ pending' = Delivered \ pending
        BY <2>1, <2>2 DEF Delivered
    <2> QED
        BY <2>1, <2>3 DEF Jobs!vars
<1>4. CASE Ack(s)
    <2>1. /\ e \in Run /\ e \in pending /\ Settled(e)
          /\ pending' = pending \ {e} /\ UNCHANGED <<store, queue, delivered, proc>>
        BY <1>1, <1>4 DEF Ack, Stage, Holding, TypeOK, AckInv, SeenSettled
    <2>2. Jobs!IsHead(e) /\ Delivered' = Delivered /\ e \in Delivered
        BY <2>1, PendingIsHead DEF Delivered, QueueInv
    <2>3. status[e] \in Jobs!Verdict /\ status' = status
        BY <2>1 DEF Settled, Terminal, Jobs!Verdict
    <2>4. Delivered' \ pending' = (Delivered \ pending) \union {e}
        BY <2>1, <2>2
    <2>5. Jobs!Retire(e)
        BY <2>1, <2>2, <2>3, <2>4 DEF Jobs!Retire
    <2> QED
        BY <2>1, <2>5 DEF Jobs!Next
<1>5. CASE MarkStarting(s)
    <2>1. TransitionAt(s, "starting", "spawn") /\ pc[s] = "start" /\ store[e].status = "queued"
        BY <1>1, <1>5 DEF MarkStarting, TransitionAt, Stage
    <2>2. /\ e \in Run /\ e \in pending
          /\ UNCHANGED <<queue, delivered, pending, proc>>
          /\ \A r \in Run \ {e} : store'[r] = store[r]
          /\ store'[e].status = "starting"
        BY <1>1, <2>1, TransitionEffect
    <2>3. status[e] = "queued" /\ status' = [status EXCEPT ![e] = "starting"]
        BY <2>1, <2>2
    <2>4. Jobs!IsHead(e) /\ Delivered' = Delivered
        BY <2>2, PendingIsHead DEF Delivered
    <2>5. PICK r \in Run : r = e
        BY <2>2
    <2>6. Jobs!Begin(r)
        BY <2>2, <2>3, <2>4, <2>5 DEF Jobs!Begin
    <2> HIDE DEF e, status
    <2> QED
        BY <2>6, BeginOrLaunch
<1>6. CASE AbortRecovered(s) \/ MarkSpawnFailed(s) \/ Conclude(s)
    <2>1. PICK new \in Terminal : TransitionAt(s, new, "ack") /\ pc[s] # "start"
        BY <1>6 DEF AbortRecovered, MarkSpawnFailed, Conclude, TransitionAt, Terminal
    <2>2. /\ e \in Run /\ e \in pending
          /\ UNCHANGED <<queue, delivered, pending, proc>>
          /\ \A r \in Run \ {e} : store'[r] = store[r]
          /\ store'[e].status \in {store[e].status, new}
        BY <1>1, <2>1, TransitionEffect
    <2>3. store[e].status \in Started /\ e \in Delivered /\ HasStarted' = HasStarted
        BY <1>1, <2>1, <2>2 DEF TransitionAt, Stage, Started, LaunchInv, TypeOK, QueueInv, HasStarted
    <2>4. store[e].status \in Terminal => store'[e].status = store[e].status
        BY <2>2, StoreNext DEF ScriptStep, Next
    <2> QED
        BY <2>1, <2>2, <2>3, <2>4, StatusStep
<1>7. ASSUME NEW p \in Proc, Spawn(s, p) PROVE [Jobs!Next]_(Jobs!vars)
    <2>1. /\ UNCHANGED <<store, queue, delivered, pending>>
          /\ proc[p].state = "free" /\ proc'[p].state = "booting" /\ proc'[p].run = e
          /\ \A q \in Proc \ {p} : proc'[q] = proc[q]
        BY <1>7 DEF Spawn, NoProc, TypeOK
    <2>2. e \in Run /\ e \in pending /\ store[e].status = "starting" /\ ~Launched(e)
        BY <1>1, <1>7 DEF Spawn, Stage, Holding, TypeOK
    <2>3. HasStarted' = HasStarted \union {e} /\ e \notin HasStarted
        BY <2>1, <2>2 DEF HasStarted, Launched
    <2>4. Jobs!IsHead(e) /\ Delivered' = Delivered /\ status[e] = "starting" /\ status' = status
        BY <2>1, <2>2, PendingIsHead DEF Delivered
    <2>5. PICK r \in Run : r = e
        BY <2>2
    <2>6. Jobs!Launch(r)
        BY <2>1, <2>3, <2>4, <2>5 DEF Jobs!Launch, HasStarted
    <2> HIDE DEF e, status
    <2> QED
        BY <2>6, BeginOrLaunch
<1> QED
    BY <1>2, <1>3, <1>4, <1>5, <1>6, <1>7 DEF SchedulerStep

LEMMA AnalyzerRefines ==
    ASSUME ServeInv, NEW p \in Proc, AnalyzerStep(p)
    PROVE  [Jobs!Next]_(Jobs!vars)
<1> DEFINE r == proc[p].run
<1> USE DEF ServeInv
<1>1. /\ UNCHANGED <<queue, delivered, pending>>
      /\ proc[p].state # "free" /\ proc'[p].state # "free" /\ proc'[p].run = r
      /\ \A q \in Proc \ {p} : proc'[q] = proc[q]
      /\ \A q \in Run \ {r} : store'[q] = store[q]
      /\ store[r].status # store'[r].status =>
            \/ store'[r].status \in Terminal
            \/ store[r].status = "starting" /\ store'[r].status = "running"
    BY AnalyzerEffect DEF procOnly
<1>2. r \in Run /\ r \in Delivered /\ store[r].status \in Started /\ r \in HasStarted
    BY <1>1 DEF LaunchInv, TypeOK, HasStarted
<1>3. store[r].status \in Terminal => store'[r].status = store[r].status
    BY <1>2, StoreNext DEF ScriptStep, Next
<1>4. HasStarted' = HasStarted
    BY <1>1 DEF HasStarted
<1> QED
    BY <1>1, <1>2, <1>3, <1>4, StatusStep

LEMMA RefineNext == Faults = {} /\ ServeInv /\ [Next]_vars => [Jobs!Next]_(Jobs!vars)
<1> SUFFICES ASSUME Faults = {}, ServeInv, [Next]_vars PROVE [Jobs!Next]_(Jobs!vars)
    OBVIOUS
<1>1. CASE \/ \E s \in Scheduler : Interrupt(s) \/ Crash(s) \/ Restart(s)
           \/ LeaseExpires
           \/ \E r \in Run : EntryIdles(r) \/ HeartbeatExpires(r)
           \/ UNCHANGED vars
    <2>1. UNCHANGED <<store, queue, delivered, pending, proc>>
        BY <1>1 DEF Interrupt, Crash, Restart, LeaseExpires, EntryIdles, HeartbeatExpires,
           vars, redisVars
    <2> QED
        BY <2>1 DEF Jobs!vars, Delivered
<1> QED
    BY <1>1, SubmitRefines, SchedulerRefines, AnalyzerRefines DEF Next

\* Under the timing assumptions the schedulers implement the queue their users are promised:
\* runs are served in the order of submission, each is started at most once, and only the
\* run at the head of the queue changes.
THEOREM SchedulerImplementsJobQueue == ASSUME Faults = {} PROVE Spec => ImplementsJobQueue
<1>1. Init => Jobs!Init
    <2> SUFFICES ASSUME Init PROVE Jobs!Init
        OBVIOUS
    <2>1. [r \in Run |-> store[r].status] = [r \in Run |-> "none"]
        BY DEF Init, NoRun
    <2>2. Delivered \ pending = {} /\ HasStarted = {}
        BY DEF Init, Delivered, HasStarted, NoProc
    <2> QED
        BY <2>1, <2>2 DEF Init, Jobs!Init, HasStarted
<1>2. ServeInv /\ [Next]_vars => ServeInv'
    BY ServeNext
<1>3. ServeInv /\ [Next]_vars => [Jobs!Next]_(Jobs!vars)
    BY RefineNext
<1> QED
    BY <1>1, <1>2, <1>3, ServeInit, PTL DEF Spec, ImplementsJobQueue, Jobs!Spec
=============================================================================
