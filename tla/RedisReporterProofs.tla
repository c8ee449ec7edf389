------------------------ MODULE RedisReporterProofs ------------------------
(***************************************************************************)
(* The reporter's types and promises.  Whatever is lost, and however late  *)
(* the first contact is, Redis holds one history that goes forward only    *)
(* and that a scheduler's verdict ends: the reporter implements RunRecord. *)
(* As long as the first contact does not fail (EarlyLoss = FALSE), the     *)
(* three copies of a run's progress agree as well, and a clean reporter    *)
(* has told Redis everything.                                              *)
(***************************************************************************)
EXTENDS RedisReporter, RunStoreProofs

Judgement == {"succeeded", "failed"}
SyncPlace == {"init", "run", "tasks", "final", "beat"}
Ended == {"finalized", "flushed", "closed"}

\* Which operation may be under way in which phase, and what the run's verdict is there.
CallInv ==
    /\ final \in {"none"} \union Judgement
    /\ verdict \in {"none"} \union Judgement
    /\ phase = "new" => dirty /\ pc = "ready"
    /\ phase = "dead" => pc = "ready"
    /\ pc = "ready" => left = {}
    /\ phase \in {"judged"} \union Ended => verdict \in Judgement
    /\ phase \in {"new", "initialized", "working", "judged"} => final = "none"
    /\ phase \in Ended => final = verdict
    /\ call.kind = "task" => /\ phase = "working" /\ call.task \in Task
                             /\ call.status \in TaskStatus \ {"pending"}
    /\ call.kind = "run" => \/ phase = "working" /\ call.status = "running"
                            \/ phase = "judged" /\ call.status = verdict
    /\ call.kind = "finalize" => phase = "finalized"
    /\ call.kind = "initialize" => phase = "initialized"
    /\ pc \in SyncPlace => dirty
    /\ pc = "apply" /\ call.kind \in {"finalize", "heartbeat"} => ~dirty

-----------------------------------------------------------------------------
(* Types and control.                                                      *)

\* Begin starts an operation, with a synchronisation first when the reporter is dirty.
LEMMA BeginControl ==
    ASSUME TypeOK, CallInv, NEW k \in Kind \ {"none"}, NEW t \in Task \union {"none"},
           NEW status \in TaskStatus \union RunStatus, Begin(Op(k, t, status)),
           ~dirty => k \in {"run", "task", "finalize", "heartbeat"}
    PROVE  /\ call' \in [kind: Kind, task: Task \union {"none"}, status: TaskStatus \union RunStatus]
           /\ call'.kind = k /\ call'.task = t /\ call'.status = status
           /\ pc' = (IF dirty THEN "init" ELSE "apply") /\ left' \subseteq Task
           /\ call' # NoCall
<1> USE DEF Begin, Op, NoCall, TypeOK, Changed
<1>1. call' = [kind |-> k, task |-> t, status |-> status]
    OBVIOUS
<1> QED
    BY <1>1

\* Ending an operation, or going on to apply it.
LEMMA AfterSyncControl ==
    ASSUME TypeOK, CallInv, pc # "ready", NEW succeeded \in BOOLEAN, AfterSync(succeeded)
    PROVE  /\ call' \in {call, NoCall} /\ left' = {} /\ pc' \in {"ready", "apply"}
           /\ pc' = "ready" <=> call' = NoCall
           /\ pc' = "apply" => \/ call.kind \in {"run", "task"}
                               \/ succeeded /\ call.kind \in {"finalize", "heartbeat"}
BY DEF AfterSync, Done, TypeOK

LEMMA SyncControl ==
    ASSUME TypeOK, CallInv, NEW reply, NEW next \in SyncPlace, NEW rest \in SUBSET Task,
           reply.run \in StoredRun, pc \in SyncPlace, SyncCall(reply, next, rest),
           next = "tasks" => rest # {}, next = "final" => final # "none"
    PROVE  TypeOK' /\ CallInv'
<1>1. /\ store' \in StoredRun /\ losses' \in 0..MaxLosses /\ dirty' /\ dirty
      /\ UNCHANGED <<runState, tasks, final, states, verdict, phase, scheduler>>
    <2>1. dirty /\ UNCHANGED <<runState, tasks, final, states, verdict, phase, scheduler>>
        BY DEF SyncCall, CallInv, callerVars
    <2>2. \/ store' = reply.run /\ losses' = losses /\ dirty' = dirty
          \/ /\ losses < MaxLosses /\ losses' = losses + 1
             /\ store' \in {store, reply.run} /\ dirty' = TRUE
        BY DEF SyncCall, Answered, Fails
    <2>3. store \in StoredRun /\ losses \in 0..MaxLosses /\ MaxLosses \in Nat
        BY ReporterAssumption DEF TypeOK
    <2>4. losses' \in 0..MaxLosses /\ store' \in StoredRun
        BY <2>2, <2>3
    <2> QED
        BY <2>1, <2>2, <2>4
<1>2. \/ AfterSync(FALSE)
      \/ pc' = next /\ left' = rest /\ UNCHANGED call
    BY DEF SyncCall
<1>3. /\ call' \in [kind: Kind, task: Task \union {"none"}, status: TaskStatus \union RunStatus]
      /\ pc' \in {"ready", "apply"} \union SyncPlace /\ left' \subseteq Task
      /\ pc' = "ready" <=> call' = NoCall
      /\ pc' = "tasks" => left' # {}
      /\ pc' = "final" => final' # "none"
      /\ pc' = "apply" => call'.kind \in {"run", "task"}
      /\ call' \in {call, NoCall}
      /\ pc' = "ready" => left' = {}
    <2>1. CASE AfterSync(FALSE)
        <3>1. /\ call' \in {call, NoCall} /\ left' = {} /\ pc' \in {"ready", "apply"}
              /\ pc' = "ready" <=> call' = NoCall
              /\ pc' = "apply" => call.kind \in {"run", "task"}
            BY <2>1, AfterSyncControl DEF SyncPlace
        <3> QED
            BY <3>1 DEF TypeOK, SyncPlace, NoCall, Kind, RunStatus
    <2>2. CASE pc' = next /\ left' = rest /\ UNCHANGED call
        BY <1>1, <2>2 DEF TypeOK, SyncPlace
    <2> QED
        BY <1>2, <2>1, <2>2
<1>4. TypeOK'
    BY <1>1, <1>3 DEF TypeOK, SyncPlace
<1>5. CallInv'
    BY <1>1, <1>3 DEF CallInv, NoCall, SyncPlace
<1> QED
    BY <1>4, <1>5

LEMMA AfterTasksPlace ==
    ASSUME NEW rest
    PROVE  /\ AfterTasks(rest) \in SyncPlace
           /\ AfterTasks(rest) = "tasks" => rest # {}
           /\ AfterTasks(rest) = "final" => final # "none"
BY DEF AfterTasks, SyncPlace

LEMMA SummaryType == Summary \in [TaskStatus -> Int]
<1>1. Census(states) \in [TaskStatus -> Nat]
    BY CensusType
<1> QED
    BY <1>1 DEF Summary

\* A call of the Analyzer or its heartbeat thread.
Request ==
    \/ InitializeCall \/ RunningCall \/ FinalizeCall \/ FlushCall \/ CloseCall
    \/ HeartbeatCall
    \/ \E t \in Task : (\E new \in TaskStatus : TaskCall(t, new)) \/ ProgressCall(t)
    \/ \E v \in Judgement : VerdictCall(v)

\* What every call leaves alone.
LEMMA RequestKeeps ==
    ASSUME Request
    PROVE  /\ pc = "ready" /\ UNCHANGED <<store, runState, tasks, dirty, scheduler, losses>>
           /\ \/ left' = {} /\ ~dirty /\ pc' \in {"ready", "apply"}
              \/ left' = Changed /\ dirty /\ pc' = "init"
              \/ UNCHANGED left /\ ~dirty /\ pc' = "ready"
BY DEF Request, InitializeCall, RunningCall, FinalizeCall, FlushCall, CloseCall, HeartbeatCall,
   TaskCall, ProgressCall, VerdictCall, Flush, Begin

LEMMA RequestControl ==
    ASSUME TypeOK, CallInv, Request
    PROVE  TypeOK' /\ CallInv'
<1>1. /\ pc = "ready" /\ call = NoCall /\ left = {}
      /\ UNCHANGED <<store, runState, tasks, dirty, scheduler, losses>>
    BY RequestKeeps DEF TypeOK, CallInv
<1> DEFINE Step(k, t, status) ==
        /\ call'.kind = k /\ call'.task = t /\ call'.status = status
        /\ call' \in [kind: Kind, task: Task \union {"none"}, status: TaskStatus \union RunStatus]
        /\ call' # NoCall /\ left' \subseteq Task
        /\ pc' = (IF dirty THEN "init" ELSE "apply")
<1>2. ASSUME NEW k \in Kind \ {"none"}, NEW t \in Task \union {"none"},
             NEW status \in TaskStatus \union RunStatus, Begin(Op(k, t, status)),
             ~dirty => k \in {"run", "task", "finalize", "heartbeat"}
      PROVE  Step(k, t, status)
    BY <1>2, BeginControl
<1> HIDE DEF Step
<1>3. ASSUME NEW k \in Kind \ {"none"}, NEW t \in Task \union {"none"},
             NEW status \in TaskStatus \union RunStatus, Step(k, t, status),
             ~dirty => k \in {"run", "task", "finalize", "heartbeat"},
             final' \in {"none"} \union Judgement, verdict' \in {"none"} \union Judgement,
             states' \in [Task -> TaskStatus], phase' \in Beating \union Over,
             phase' # "dead",
             phase' \in {"judged"} \union Ended => verdict' \in Judgement,
             phase' \in {"initialized", "working", "judged"} => final' = "none",
             phase' \in Ended => final' = verdict',
             k = "task" => phase' = "working" /\ t \in Task /\ status \in TaskStatus \ {"pending"},
             k = "run" => \/ phase' = "working" /\ status = "running"
                          \/ phase' = "judged" /\ status = verdict',
             k = "finalize" => phase' = "finalized",
             k = "initialize" => phase' = "initialized"
      PROVE  TypeOK' /\ CallInv'
    <2>1. TypeOK'
        BY <1>1, <1>3 DEF Step, TypeOK, Judgement, Terminal
    <2>2. CallInv'
        BY <1>1, <1>3 DEF Step, CallInv, SyncPlace, Beating, Over, Ended
    <2> QED
        BY <2>1, <2>2
<1>4. CASE InitializeCall
    <2>1. Step("initialize", "none", "none")
        BY <1>2, <1>4 DEF InitializeCall, CallInv, Kind, RunStatus
    <2> QED
        BY <1>3, <1>4, <2>1 DEF InitializeCall, CallInv, TypeOK, Kind, RunStatus, Beating, Ended
<1>5. CASE RunningCall
    <2>1. Step("run", "none", "running")
        BY <1>2, <1>5 DEF RunningCall, Kind, RunStatus
    <2> QED
        BY <1>3, <1>5, <2>1 DEF RunningCall, CallInv, TypeOK, Kind, RunStatus, Beating, Ended
<1>6. CASE FinalizeCall
    <2>1. Step("finalize", "none", verdict)
        BY <1>2, <1>6 DEF FinalizeCall, CallInv, Kind, RunStatus, Judgement, Terminal
    <2> QED
        BY <1>3, <1>6, <2>1 DEF FinalizeCall, CallInv, TypeOK, Kind, RunStatus, Beating, Ended, Judgement, Terminal
<1>7. CASE FlushCall \/ CloseCall
    <2>1. CASE dirty
        <3>1. Step("flush", "none", "none")
            BY <1>2, <1>7, <2>1 DEF FlushCall, CloseCall, Flush, Kind, RunStatus
        <3> QED
            BY <1>3, <1>7, <2>1, <3>1 DEF FlushCall, CloseCall, CallInv, TypeOK, Kind, RunStatus,
               Beating, Over, Ended
    <2>2. CASE ~dirty
        <3>1. /\ UNCHANGED <<call, pc, left, final, states, verdict>>
              /\ phase \in {"finalized", "flushed"} /\ phase' \in {"flushed", "closed"}
            BY <1>7, <2>2 DEF FlushCall, CloseCall, Flush
        <3> QED
            BY <1>1, <3>1 DEF TypeOK, CallInv, Beating, Over, Ended, NoCall, SyncPlace
    <2> QED
        BY <2>1, <2>2 DEF TypeOK
<1>8. CASE HeartbeatCall
    <2>1. Step("heartbeat", "none", "none")
        BY <1>2, <1>8 DEF HeartbeatCall, Kind, RunStatus
    <2> QED
        BY <1>3, <1>8, <2>1 DEF HeartbeatCall, CallInv, TypeOK, Kind, RunStatus, Beating, Ended, callerVars
<1>9. ASSUME NEW t \in Task, NEW new \in TaskStatus, TaskCall(t, new)
      PROVE  TypeOK' /\ CallInv'
    <2>1. Step("task", t, new) /\ new # "pending"
        BY <1>2, <1>9 DEF TaskCall, Kind, TaskEdge, TerminalTask
    <2> QED
        BY <1>3, <1>9, <2>1 DEF TaskCall, CallInv, TypeOK, Kind, Beating, Ended
<1>10. ASSUME NEW t \in Task, ProgressCall(t)
       PROVE  TypeOK' /\ CallInv'
    <2>1. Step("task", t, "running")
        BY <1>2, <1>10 DEF ProgressCall, Kind, TaskStatus
    <2> QED
        BY <1>3, <1>10, <2>1 DEF ProgressCall, CallInv, TypeOK, Kind, TaskStatus, Beating, Ended, callerVars
<1>11. ASSUME NEW v \in Judgement, VerdictCall(v)
       PROVE  TypeOK' /\ CallInv'
    <2>1. Step("run", "none", v)
        BY <1>2, <1>11 DEF VerdictCall, Kind, RunStatus, Judgement, Terminal
    <2> QED
        BY <1>3, <1>11, <2>1 DEF VerdictCall, CallInv, TypeOK, Kind, RunStatus, Judgement, Terminal, Beating, Ended
<1> QED
    BY <1>4, <1>5, <1>6, <1>7, <1>8, <1>9, <1>10, <1>11 DEF Request

\* The steps of a synchronisation.
Synchronise ==
    SyncInitialize \/ SyncRun \/ (\E t \in Task : SyncTask(t)) \/ SyncFinalize \/ SyncHeartbeat

LEMMA SnapshotTypes ==
    ASSUME TypeOK
    PROVE  /\ tasks \in [Task -> Snapshot]
           /\ \A t \in Task : tasks[t] \in [status: TaskStatus, revision: Nat]
BY DEF TypeOK, Snapshot

LEMMA SynchroniseControl ==
    ASSUME TypeOK, CallInv, Synchronise
    PROVE  TypeOK' /\ CallInv'
<1>1. store \in StoredRun /\ left \in SUBSET Task
    BY DEF TypeOK
<1>2. CASE SyncInitialize
    <2> DEFINE next == IF runState.revision > 0 THEN "run" ELSE AfterTasks(left)
    <2>1. InitializeRun(store, tasks).run \in StoredRun
        BY <1>1, SnapshotTypes, InitializeType
    <2>2. next \in SyncPlace /\ (next = "tasks" => left # {}) /\ (next = "final" => final # "none")
        BY AfterTasksPlace DEF SyncPlace
    <2>3. pc \in SyncPlace /\ SyncCall(InitializeRun(store, tasks), next, left)
        BY <1>2 DEF SyncInitialize, SyncPlace
    <2> HIDE DEF next
    <2> QED
        BY <1>1, <2>1, <2>2, <2>3, SyncControl
<1>3. CASE SyncRun
    <2>1. WriteRun(store, runState.revision, runState.status, TRUE).run \in StoredRun
        BY <1>1, WriteRunType DEF TypeOK
    <2>2. pc \in SyncPlace
          /\ SyncCall(WriteRun(store, runState.revision, runState.status, TRUE), AfterTasks(left), left)
        BY <1>3 DEF SyncRun, SyncPlace
    <2> QED
        BY <1>1, <2>1, <2>2, AfterTasksPlace, SyncControl
<1>4. ASSUME NEW t \in Task, SyncTask(t)
      PROVE  TypeOK' /\ CallInv'
    <2>1. WriteTask(store, t, tasks[t], TRUE).run \in StoredRun
        BY <1>1, SnapshotTypes, WriteTaskType
    <2>2. pc \in SyncPlace
          /\ SyncCall(WriteTask(store, t, tasks[t], TRUE), AfterTasks(left \ {t}), left \ {t})
        BY <1>4 DEF SyncTask, SyncPlace
    <2>3. left \ {t} \in SUBSET Task
        BY <1>1
    <2> QED
        BY <2>1, <2>2, <2>3, AfterTasksPlace, SyncControl
<1>5. CASE SyncFinalize
    <2>1. final \in RunStatus
        BY <1>5 DEF SyncFinalize, TypeOK, RunStatus
    <2>2. FinalizeRun(store, final, Summary).run \in StoredRun
        BY <1>1, <2>1, SummaryType, FinalizeType
    <2>3. pc \in SyncPlace /\ SyncCall(FinalizeRun(store, final, Summary), "beat", left)
        BY <1>5 DEF SyncFinalize, SyncPlace
    <2>4. "beat" \in SyncPlace
        BY DEF SyncPlace
    <2> QED
        BY <1>1, <2>2, <2>3, <2>4, SyncControl
<1>6. CASE SyncHeartbeat
    <2>1. /\ pc = "beat" /\ UNCHANGED <<runState, tasks, final, states, verdict, phase, scheduler>>
          /\ store' = store
          /\ \/ losses' = losses /\ dirty' = FALSE /\ AfterSync(TRUE)
             \/ losses < MaxLosses /\ losses' = losses + 1 /\ dirty' = TRUE /\ AfterSync(FALSE)
        BY <1>6 DEF SyncHeartbeat, Answered, Fails, Acknowledged, callerVars
    <2>2. losses' \in 0..MaxLosses /\ dirty' \in BOOLEAN
        <3>1. losses \in 0..MaxLosses /\ MaxLosses \in Nat
            BY ReporterAssumption DEF TypeOK
        <3>2. losses' \in {losses, losses + 1} /\ (losses' # losses => losses < MaxLosses)
            BY <2>1
        <3>3. losses' \in 0..MaxLosses
            BY <3>1, <3>2
        <3>4. dirty' \in BOOLEAN
            BY <2>1
        <3> QED
            BY <3>3, <3>4
    <2>3. /\ call' \in {call, NoCall} /\ left' = {} /\ pc' \in {"ready", "apply"}
          /\ pc' = "ready" <=> call' = NoCall
          /\ pc' = "apply" => \/ call.kind \in {"run", "task"}
                              \/ ~dirty' /\ call.kind \in {"finalize", "heartbeat"}
        <3>1. CASE AfterSync(TRUE) /\ dirty' = FALSE
            BY <2>1, <3>1, AfterSyncControl
        <3>2. CASE AfterSync(FALSE)
            BY <2>1, <3>2, AfterSyncControl
        <3> QED
            BY <2>1, <3>1, <3>2
    <2>4. TypeOK'
        BY <2>1, <2>2, <2>3 DEF TypeOK, NoCall, Kind, RunStatus
    <2>5. CallInv'
        <3>1. pc' = "apply" /\ call'.kind \in {"finalize", "heartbeat"} => ~dirty'
            BY <2>3
        <3> QED
            BY <2>1, <2>3, <3>1 DEF CallInv, NoCall, SyncPlace
    <2> QED
        BY <2>4, <2>5
<1> QED
    BY <1>2, <1>3, <1>4, <1>5, <1>6 DEF Synchronise

\* Applying an operation ends it.
Apply == ApplyRun \/ ApplyTask \/ ApplyFinalize \/ ApplyHeartbeat

\* The reply of the operation in hand, when it is one of the scripts.
LEMMA ApplyTypes ==
    ASSUME TypeOK, CallInv, pc = "apply"
    PROVE  /\ call.kind = "run" =>
                WriteRun(store, runState.revision + 1, call.status, FALSE).run \in StoredRun
           /\ call.kind = "task" =>
                /\ [status |-> call.status, revision |-> tasks[call.task].revision + 1]
                      \in [status: TaskStatus, revision: Nat]
                /\ WriteTask(store, call.task, [status |-> call.status,
                             revision |-> tasks[call.task].revision + 1], FALSE).run \in StoredRun
           /\ call.kind = "finalize" => FinalizeRun(store, final, Summary).run \in StoredRun
<1>1. store \in StoredRun
    BY DEF TypeOK
<1>2. ASSUME call.kind = "run"
      PROVE  WriteRun(store, runState.revision + 1, call.status, FALSE).run \in StoredRun
    <2>1. runState.revision + 1 \in Nat /\ call.status \in RunStatus
        BY <1>2 DEF TypeOK, CallInv, RunStatus, Terminal, Judgement
    <2> QED
        BY <1>1, <2>1, WriteRunType
<1>3. ASSUME call.kind = "task"
      PROVE  /\ [status |-> call.status, revision |-> tasks[call.task].revision + 1]
                   \in [status: TaskStatus, revision: Nat]
             /\ call.task \in Task
    BY <1>3 DEF TypeOK, CallInv
<1>4. call.kind = "finalize" => final \in RunStatus
    BY DEF TypeOK, CallInv, RunStatus, Ended, Terminal, Judgement
<1>5. call.kind = "finalize" => FinalizeRun(store, final, Summary).run \in StoredRun
    BY <1>1, <1>4, SummaryType, FinalizeType
<1>6. call.kind = "task" =>
         WriteTask(store, call.task, [status |-> call.status,
                   revision |-> tasks[call.task].revision + 1], FALSE).run \in StoredRun
    BY <1>1, <1>3, WriteTaskType
<1> QED
    BY <1>2, <1>3, <1>5, <1>6

LEMMA ApplyControl ==
    ASSUME TypeOK, CallInv, Apply
    PROVE  TypeOK' /\ CallInv'
<1>1. /\ pc = "apply" /\ pc' = "ready" /\ call' = NoCall /\ left' = {}
      /\ UNCHANGED <<final, states, verdict, phase, scheduler>>
    BY DEF Apply, ApplyRun, ApplyTask, ApplyFinalize, ApplyHeartbeat, Done, callerVars
<1>2. /\ store' \in StoredRun
      /\ losses' \in {losses, losses + 1} /\ (losses' # losses => losses < MaxLosses)
      /\ dirty' \in BOOLEAN
    <2>1. CASE ApplyRun
        BY <1>1, <2>1, ApplyTypes DEF ApplyRun, Answered, Fails, TypeOK
    <2>2. CASE ApplyTask
        BY <1>1, <2>2, ApplyTypes DEF ApplyTask, Answered, Fails, TypeOK
    <2>3. CASE ApplyFinalize
        BY <1>1, <2>3, ApplyTypes DEF ApplyFinalize, WriteOrDefer, Answered, Fails, TypeOK
    <2>4. CASE ApplyHeartbeat
        BY <1>1, <2>4 DEF ApplyHeartbeat, WriteOrDefer, Answered, Acknowledged, Fails, TypeOK
    <2> QED
        BY <2>1, <2>2, <2>3, <2>4 DEF Apply
<1>3. /\ runState' \in [status: RunStatus, revision: Nat]
      /\ tasks' \in [Task -> [status: TaskStatus, revision: Nat]]
    <2>1. CASE ApplyRun
        <3>1. [status |-> call.status, revision |-> runState.revision + 1]
                 \in [status: RunStatus, revision: Nat]
            BY <2>1 DEF ApplyRun, TypeOK, CallInv, RunStatus, Terminal, Judgement
        <3> QED
            BY <2>1, <3>1 DEF ApplyRun, TypeOK
    <2>2. CASE ApplyTask
        <3> DEFINE new == [status |-> call.status, revision |-> tasks[call.task].revision + 1]
        <3>1. tasks' \in {tasks, [tasks EXCEPT ![call.task] = new]}
            BY <2>2 DEF ApplyTask
        <3>2. runState' = runState /\ call.kind = "task"
            BY <2>2 DEF ApplyTask
        <3>3. new \in [status: TaskStatus, revision: Nat]
            BY <1>1, <3>2, ApplyTypes
        <3>4. /\ runState \in [status: RunStatus, revision: Nat]
              /\ tasks \in [Task -> [status: TaskStatus, revision: Nat]]
            BY DEF TypeOK
        <3> HIDE DEF new
        <3> QED
            BY <3>1, <3>2, <3>3, <3>4
    <2>3. CASE ApplyFinalize \/ ApplyHeartbeat
        BY <2>3 DEF ApplyFinalize, ApplyHeartbeat, TypeOK
    <2> QED
        BY <2>1, <2>2, <2>3 DEF Apply
<1>4. losses' \in 0..MaxLosses
    BY <1>2, ReporterAssumption DEF TypeOK
<1>5. TypeOK'
    BY <1>1, <1>2, <1>3, <1>4 DEF TypeOK, NoCall, Kind, RunStatus
<1>6. CallInv'
    BY <1>1 DEF CallInv, NoCall, SyncPlace
<1> QED
    BY <1>5, <1>6

LEMMA WorldControl ==
    ASSUME TypeOK, CallInv, Die \/ Abort \/ Conclude
    PROVE  TypeOK' /\ CallInv'
<1>1. CASE Die
    BY <1>1 DEF Die, Done, TypeOK, CallInv, NoCall, Kind, RunStatus, Over, Ended, SyncPlace
<1>2. ASSUME NEW new \in Terminal, SchedulerSettles(new)
      PROVE  TypeOK' /\ CallInv'
    <2>1. store' \in StoredRun
        BY <1>2, SchedulerWriteType DEF SchedulerSettles, TypeOK, RunStatus
    <2>2. /\ scheduler' \in {"settled", "gone"}
          /\ UNCHANGED <<runState, tasks, dirty, final, states, verdict, phase, call, pc, left, losses>>
        BY <1>2 DEF SchedulerSettles, callerVars
    <2> QED
        BY <2>1, <2>2 DEF TypeOK, CallInv
<1> QED
    BY <1>1, <1>2 DEF Abort, Conclude, Terminal

LEMMA NextSplit ==
    ASSUME Next PROVE Request \/ Synchronise \/ Apply \/ Die \/ Abort \/ Conclude
BY DEF Next, Request, Synchronise, Apply, Operate, Judgement

ControlInv == TypeOK /\ CallInv

LEMMA ControlInit == Init => ControlInv
<1> SUFFICES ASSUME Init PROVE TypeOK /\ CallInv
    BY DEF ControlInv
<1>1. store \in StoredRun
    BY NoRunType DEF Init, StoredRun, RunStatus
<1>2. TypeOK
    BY <1>1, ReporterAssumption DEF Init, TypeOK, NoCall, Kind, RunStatus, TaskStatus
<1>3. CallInv
    BY DEF Init, CallInv, NoCall, SyncPlace, Ended
<1> QED
    BY <1>2, <1>3

LEMMA ControlNext == ControlInv /\ [Next]_vars => ControlInv'
<1> SUFFICES ASSUME TypeOK, CallInv, [Next]_vars PROVE TypeOK' /\ CallInv'
    BY DEF ControlInv
<1>1. CASE UNCHANGED vars
    BY <1>1 DEF vars, TypeOK, CallInv, NoCall
<1>2. CASE Next
    BY <1>2, NextSplit, RequestControl, SynchroniseControl, ApplyControl, WorldControl
<1> QED
    BY <1>1, <1>2

\* Every state the reporter, its caller and its scheduler reach is well typed, and an
\* operation is where its kind allows, whatever calls are lost.
THEOREM ReporterTypeCorrect == Spec => []TypeOK
<1>1. ControlInv => TypeOK
    BY DEF ControlInv
<1> QED
    BY <1>1, ControlInit, ControlNext, PTL DEF Spec

-----------------------------------------------------------------------------
(* The record as its readers see it.                                       *)

\* The forward relation of RunRecord: an event of a task, several, or none.
Forward(old, new) == Record!TaskForward(old, new)

\* A reporter that is clean, or past the first request of a synchronisation, has
\* installed its plan: nothing else is sent before.
Contact ==
    /\ ~dirty => store.initialized
    /\ pc \in SyncPlace \ {"init"} => store.initialized

\* The local record of the run never holds a scheduler's verdict.
Rising ==
    \/ runState.status = "starting" /\ runState.revision = 0
    \/ runState.status \in {"running"} \union Judgement

\* The caller's state of a task is never behind the local record, nor behind the
\* event under way, and no event follows a task's conclusion.
LocalRecord(t) ==
    /\ Forward(tasks[t].status, states[t])
    /\ call.kind = "task" /\ call.task = t =>
          /\ Forward(tasks[t].status, call.status)
          /\ Forward(call.status, states[t])
          /\ tasks[t].status \notin TerminalTask

\* A task in Redis is behind the local record or concluded.  A snapshot a scheduler did
\* not sweep is concluded before the status hash only when it came with the plan.
TaskRecord(t) ==
    /\ ~store.initialized => store.task[t] = "absent" /\ store.data[t] = NoSnapshot
    /\ store.initialized =>
          /\ store.task[t] \in TaskStatus /\ store.data[t].status \in TaskStatus
          /\ store.task[t] \in TerminalTask => store.data[t].status = store.task[t]
          /\ store.task[t] \notin TerminalTask =>
                /\ Forward(store.task[t], tasks[t].status)
                /\ store.data[t].status \in TerminalTask => store.data[t] = tasks[t]
    /\ scheduler = "settled" => ~Unfinished(store, t)

\* Only an installed run is settled; what a scheduler wrote there is a verdict.
StatusRecord ==
    /\ store.status \in {"none", "starting", "running"} \union Terminal
    /\ store.initialized => store.status # "none"
    /\ scheduler = "settled" => store.initialized
    /\ ~Undisturbed => \/ store.status = "aborted"
                       \/ store.status \in Terminal /\ phase \in Over /\ pc = "ready"

TasksRecord == \A t \in Task : TaskRecord(t)
LocalsRecord == \A t \in Task : LocalRecord(t)

RecordInv == TypeOK /\ CallInv /\ Contact /\ Rising /\ StatusRecord /\ LocalsRecord /\ TasksRecord

\* One event or several.
LEMMA ForwardTransitive ==
    ASSUME NEW a, NEW b, NEW c, Forward(a, b), Forward(b, c) PROVE Forward(a, c)
BY DEF Forward, Record!TaskForward, Record!Conclusion

LEMMA EdgeForward ==
    ASSUME NEW a, NEW b
    PROVE  /\ TaskEdge(a, b) => Forward(a, b) /\ a \notin TerminalTask
           /\ Forward(a, a)
           /\ Forward(a, b) /\ a \in TerminalTask => b = a
BY DEF Forward, Record!TaskForward, Record!Conclusion, TaskEdge, TerminalTask

\* A step as the readers see it: one of RunRecord or none.
RecordStep == [Record!Next]_(Record!vars)

\* The first contact installs the plan; a repeated one does nothing.
LEMMA Installs ==
    ASSUME RecordInv, store' = InitializeRun(store, tasks).run, UNCHANGED <<tasks, scheduler>>
    PROVE  RecordStep /\ TasksRecord' /\ store'.initialized
           /\ store'.status = IF store.status = "none" THEN "starting" ELSE store.status
<1> USE DEF RecordInv
<1>1. CASE store.initialized
    <2>1. store' = store
        BY <1>1 DEF InitializeRun, Reply
    <2>2. TasksRecord'
        BY <2>1 DEF TasksRecord, TaskRecord, Unfinished
    <2>3. UNCHANGED Record!vars
        BY <2>1 DEF Record!vars
    <2> QED
        BY <1>1, <2>1, <2>2, <2>3 DEF RecordStep, StatusRecord
<1>2. CASE ~store.initialized
    <2>1. \A t \in Task : store.task[t] = "absent" /\ store.data[t] = NoSnapshot
        BY <1>2 DEF TasksRecord, TaskRecord
    <2>2. /\ store'.initialized = TRUE
          /\ store'.task = [t \in Task |-> IF store.task[t] = "absent" THEN "pending" ELSE store.task[t]]
          /\ store'.data = [t \in Task |-> IF store.data[t].status = "absent"
                                           THEN tasks[t] ELSE store.data[t]]
          /\ store'.status = IF store.status = "none" THEN "starting" ELSE store.status
        BY <1>2 DEF InitializeRun, Reply, TypeOK, StoredRun, StatusRecord, Terminal
    <2>3. \A t \in Task : store'.task[t] = "pending" /\ store'.data[t] = tasks[t]
        BY <2>1, <2>2 DEF NoSnapshot
    <2>4. \A t \in Task : tasks[t].status \in TaskStatus /\ tasks[t].revision \in Nat
        BY DEF TypeOK
    <2>5. scheduler # "settled"
        BY <1>2 DEF StatusRecord
    <2>6. TasksRecord'
        <3> SUFFICES ASSUME NEW t \in Task PROVE TaskRecord(t)'
            BY DEF TasksRecord
        <3>1. Forward("pending", tasks[t].status)
            BY <2>4 DEF Forward, Record!TaskForward, Record!Conclusion, TaskStatus, TerminalTask
        <3> QED
            BY <2>2, <2>3, <2>4, <2>5, <3>1 DEF TaskRecord, TaskStatus, TerminalTask, Forward, Record!TaskForward
    <2>7. Record!Install
        BY <1>2, <2>2, <2>3, <2>4, <2>5 DEF Record!Install
    <2> QED
        BY <2>2, <2>6, <2>7 DEF RecordStep, Record!Next
<1> QED
    BY <1>1, <1>2

\* An event of a task arrives, at once or with a synchronisation.
Telling(t, snap) ==
    \/ snap = tasks[t] /\ tasks' = tasks
    \/ /\ call.kind = "task" /\ call.task = t
       /\ snap = [status |-> call.status, revision |-> tasks[t].revision + 1]
       /\ tasks' = [tasks EXCEPT ![t] = snap]

\* What is told is a snapshot.
LEMMA TellingType ==
    ASSUME TypeOK, CallInv, NEW t \in Task, NEW snap, Telling(t, snap)
    PROVE  snap \in [status: TaskStatus, revision: Nat]
BY DEF Telling, TypeOK, CallInv

\* The script of a task event tells that task or does nothing.
LEMMA Tells ==
    ASSUME RecordInv, NEW t \in Task, NEW snap, Telling(t, snap), NEW isSnapshot \in BOOLEAN,
           \/ store' = store
           \/ store.initialized /\ store' = WriteTask(store, t, snap, isSnapshot).run,
           UNCHANGED scheduler
    PROVE  /\ RecordStep /\ TasksRecord'
           /\ store'.initialized = store.initialized /\ store'.status = store.status
<1> USE DEF RecordInv
<1>1. /\ snap \in [status: TaskStatus, revision: Nat]
      /\ \A u \in Task \ {t} : tasks'[u] = tasks[u]
      /\ tasks'[t] = snap
      /\ Forward(tasks[t].status, snap.status)
      /\ snap = tasks[t] \/ tasks[t].status \notin TerminalTask
    <2>1. tasks \in [Task -> [status: TaskStatus, revision: Nat]]
        BY DEF TypeOK
    <2>2. CASE snap = tasks[t] /\ tasks' = tasks
        BY <2>1, <2>2, EdgeForward
    <2>3. CASE /\ call.kind = "task" /\ call.task = t
               /\ snap = [status |-> call.status, revision |-> tasks[t].revision + 1]
               /\ tasks' = [tasks EXCEPT ![t] = snap]
        <3>1. call.status \in TaskStatus /\ tasks[t].revision \in Nat
            BY <2>1, <2>3 DEF CallInv
        <3> QED
            BY <2>1, <2>3, <3>1 DEF LocalsRecord, LocalRecord
    <2> QED
        BY <2>2, <2>3 DEF Telling
<1>2. CASE store' = store
    <2>1. ASSUME NEW u \in Task PROVE TaskRecord(u)'
        <3>1. CASE u = t
            <4>1. store.initialized /\ store.task[t] \notin TerminalTask =>
                     Forward(store.task[t], tasks'[t].status)
                BY <1>1, ForwardTransitive DEF TasksRecord, TaskRecord
            <4>2. /\ store.initialized /\ store.task[t] \notin TerminalTask
                  /\ store.data[t].status \in TerminalTask
                  => store.data[t] = tasks'[t]
                BY <1>1 DEF TasksRecord, TaskRecord
            <4> QED
                BY <1>2, <3>1, <4>1, <4>2 DEF TasksRecord, TaskRecord, Unfinished
        <3>2. CASE u # t
            BY <1>1, <1>2, <3>2 DEF TasksRecord, TaskRecord, Unfinished
        <3> QED
            BY <3>1, <3>2
    <2>2. UNCHANGED Record!vars
        BY <1>2 DEF Record!vars
    <2> QED
        BY <1>2, <2>1, <2>2 DEF RecordStep, TasksRecord
<1>3. CASE /\ store' # store /\ store.initialized
           /\ store' = WriteTask(store, t, snap, isSnapshot).run
    <2> DEFINE old == store.task[t]
    <2>0. store.initialized
        BY <1>3
    <2> USE <2>0
    <2>1. old \in TaskStatus /\ Stored(store, t) = old
        BY DEF TasksRecord, TaskRecord, Stored, TaskStatus, TerminalTask
    <2>2. /\ snap.revision > store.data[t].revision
          /\ TaskLegal(old, snap.status, isSnapshot)
        <3>1. store.data[t].revision \in Int /\ snap.revision \in Nat
            BY <1>1 DEF TypeOK, StoredRun, Snapshot
        <3>2. ~(snap.revision <= store.data[t].revision)
            BY <1>3 DEF WriteTask, Reply
        <3>3. TaskLegal(old, snap.status, isSnapshot)
            BY <1>3, <2>1 DEF WriteTask, Reply
        <3> QED
            BY <3>1, <3>2, <3>3
    <2>3. /\ store'.task = [store.task EXCEPT ![t] = snap.status]
          /\ store'.data = [store.data EXCEPT ![t] = snap]
          /\ store'.counts = [s \in TaskStatus |->
                store.counts[s] + (IF t \in Counted /\ old # snap.status /\ s = snap.status THEN 1 ELSE 0)
                                - (IF t \in Counted /\ old # snap.status /\ s = old THEN 1 ELSE 0)]
          /\ store'.status = store.status /\ store'.initialized = store.initialized
        BY <1>3, <2>1, <2>2 DEF WriteTask, Reply, TypeOK, StoredRun
    <2>4. store.task \in [Task -> TaskStatus \union {"absent"}] /\ store.data \in [Task -> Snapshot]
          /\ store.counts \in [TaskStatus -> Int]
        BY DEF TypeOK, StoredRun
    <2>5. /\ Forward(old, snap.status)
          /\ old \in TerminalTask => snap.status = old
        <3>1. CASE old \in TerminalTask
            BY <2>2, <3>1, EdgeForward DEF TaskLegal
        <3>2. CASE old \notin TerminalTask
            BY <1>1, <3>2, ForwardTransitive DEF TasksRecord, TaskRecord
        <3> QED
            BY <3>1, <3>2
    <2>6. scheduler = "settled" => old \in TerminalTask
        <3> SUFFICES ASSUME scheduler = "settled", old \notin TerminalTask PROVE FALSE
            OBVIOUS
        <3>1. store.data[t].status \in TerminalTask
            BY DEF TasksRecord, TaskRecord, Unfinished, TaskStatus
        <3>2. store.data[t] = tasks[t]
            BY <3>1 DEF TasksRecord, TaskRecord
        <3>3. snap = tasks[t]
            BY <1>1, <3>1, <3>2
        <3> QED
            BY <1>1, <2>2, <3>2, <3>3
    <2>7. scheduler = "settled" => store'.task = store.task /\ store'.counts = store.counts
        <3>1. snap.status = old => store'.task = store.task /\ store'.counts = store.counts
            BY <2>3, <2>4
        <3> QED
            BY <2>5, <2>6, <3>1
    <2>8. \A u \in Task \ {t} : store'.task[u] = store.task[u] /\ store'.data[u] = store.data[u]
        BY <2>3, <2>4
    <2>9. store'.task[t] = snap.status /\ store'.data[t] = snap
        BY <2>3, <2>4
    <2>10. Record!Tell(t)
        BY <2>2, <2>3, <2>5, <2>7, <2>8, <2>9 DEF Record!Tell, Forward
    <2>11. ASSUME NEW u \in Task PROVE TaskRecord(u)'
        <3>1. CASE u = t
            <4>1. Forward(snap.status, snap.status)
                BY EdgeForward
            <4>2. scheduler' = "settled" => ~Unfinished(store', t)
                BY <2>5, <2>6, <2>9 DEF Unfinished, TerminalTask
            <4> QED
                BY <1>1, <2>3, <2>9, <3>1, <4>1, <4>2 DEF TaskRecord, Unfinished
        <3>2. CASE u # t
            BY <1>1, <2>3, <2>8, <3>2 DEF TasksRecord, TaskRecord, Unfinished
        <3> QED
            BY <3>1, <3>2
    <2> QED
        BY <2>3, <2>10, <2>11 DEF RecordStep, Record!Next, TasksRecord
<1> QED
    BY <1>2, <1>3

\* An event of the run, or its finalization.
LEMMA Announces ==
    ASSUME RecordInv, store.initialized, UNCHANGED <<tasks, scheduler>>,
           \/ \E revision \in Nat, isSnapshot \in BOOLEAN : \E new \in {"running"} \union Judgement :
                 store' = WriteRun(store, revision, new, isSnapshot).run
           \/ /\ scheduler # "settled" \/ store.status = "aborted"
              /\ final \in Judgement
              /\ store' = FinalizeRun(store, final, Summary).run
    PROVE  /\ RecordStep /\ TasksRecord' /\ store'.initialized
           /\ store'.status \in {"starting", "running"} \union Terminal
           /\ store.status \in Terminal => store'.status = store.status
<1> USE DEF RecordInv
<1>1. store.status \in {"starting", "running"} \union Terminal
    BY DEF StatusRecord
<1>2. CASE \E revision \in Nat, isSnapshot \in BOOLEAN : \E new \in {"running"} \union Judgement :
                 store' = WriteRun(store, revision, new, isSnapshot).run
    <2>1. PICK revision \in Nat, isSnapshot \in BOOLEAN, new \in {"running"} \union Judgement :
                 store' = WriteRun(store, revision, new, isSnapshot).run
        BY <1>2
    <2>2. \/ store' = store
          \/ RunLegal(store.status, new, isSnapshot) /\ store'.status = new
        BY <1>1, <2>1 DEF WriteRun, Reply, TypeOK, StoredRun, Terminal
    <2>3. /\ store'.task = store.task /\ store'.data = store.data /\ store'.counts = store.counts
          /\ store'.initialized = store.initialized
        BY <2>1 DEF WriteRun, Reply, TypeOK, StoredRun
    <2>4. /\ Record!RunForward(store.status, store'.status)
          /\ store'.status \in {"starting", "running"} \union Terminal
          /\ store.status \in Terminal => store'.status = store.status
        BY <1>1, <2>2 DEF RunLegal, RunEdge, Record!RunForward, Record!Verdict, Terminal, Judgement
    <2>5. TasksRecord'
        BY <2>3 DEF TasksRecord, TaskRecord, Unfinished
    <2>6. Record!Announce
        BY <2>3, <2>4 DEF Record!Announce
    <2> QED
        BY <2>3, <2>4, <2>5, <2>6 DEF RecordStep, Record!Next
<1>3. CASE /\ scheduler # "settled" \/ store.status = "aborted"
           /\ final \in Judgement
           /\ store' = FinalizeRun(store, final, Summary).run
    <2>1. /\ store'.task = store.task /\ store'.data = store.data
          /\ store'.initialized = store.initialized
          /\ \/ store' = store
             \/ store'.status = final /\ (store.status \in Terminal => store.status = final)
        BY <1>3 DEF FinalizeRun, Reply, TypeOK, StoredRun
    <2>2. scheduler = "settled" => store' = store
        BY <1>3 DEF FinalizeRun, Reply, Terminal, Judgement
    <2>3. /\ Record!RunForward(store.status, store'.status)
          /\ store'.status \in {"starting", "running"} \union Terminal
          /\ store.status \in Terminal => store'.status = store.status
        BY <1>1, <1>3, <2>1 DEF Record!RunForward, Record!Verdict, Terminal, Judgement
    <2>4. TasksRecord'
        BY <2>1 DEF TasksRecord, TaskRecord, Unfinished
    <2>5. Record!Announce
        BY <2>1, <2>2, <2>3 DEF Record!Announce
    <2> QED
        BY <2>1, <2>3, <2>4, <2>5 DEF RecordStep, Record!Next
<1> QED
    BY <1>2, <1>3

\* A scheduler's verdict aborts exactly the unfinished tasks.
LEMMA Settles ==
    ASSUME RecordInv, NEW new \in Terminal, SchedulerSettles(new)
    PROVE  /\ RecordStep /\ TasksRecord' /\ store'.initialized = store.initialized
           /\ store'.status = new
<1> USE DEF RecordInv
<1>1. /\ scheduler = "watching" /\ store.status \in {"starting", "running"}
      /\ store' = SchedulerWrite(store, new).run
      /\ scheduler' = IF store.initialized THEN "settled" ELSE "gone"
      /\ UNCHANGED tasks
    BY DEF SchedulerSettles
<1>2. store \in StoredRun
    BY DEF TypeOK
<1>3. /\ store'.task = SweptTask(store) /\ store'.data = SweptData(store)
      /\ store'.initialized = store.initialized /\ store'.status = new
    <2>1. store' = [Sweep(store) EXCEPT !.status = new, !.listed = FALSE]
        BY <1>1 DEF SchedulerWrite, Reply, SchedulerEdge, Terminal
    <2> QED
        BY <1>2, <2>1, SweepType DEF Sweep, StoredRun
<1>4. ASSUME NEW t \in Task
      PROVE  /\ Unfinished(store, t) => /\ store'.task[t] = "aborted" /\ store'.data[t].status = "aborted"
                                        /\ store'.data[t].revision > store.data[t].revision
             /\ ~Unfinished(store, t) => store'.task[t] = store.task[t] /\ store'.data[t] = store.data[t]
    BY <1>2, <1>3 DEF SweptTask, SweptData, StoredRun, Snapshot
<1>5. ASSUME NEW t \in Task
      PROVE  TaskRecord(t)'
    <2>1. ~Unfinished(store', t)
        BY <1>4 DEF Unfinished
    <2>2. TaskRecord(t)
        BY DEF TasksRecord
    <2>3. CASE ~store.initialized
        <3>1. ~Unfinished(store, t)
            BY <2>2, <2>3 DEF TaskRecord, Unfinished, NoSnapshot
        <3> QED
            BY <1>1, <1>3, <1>4, <2>2, <2>3, <3>1 DEF TaskRecord
    <2>4. CASE store.initialized /\ Unfinished(store, t)
        BY <1>1, <1>3, <1>4, <2>1, <2>4 DEF TaskRecord, TaskStatus, TerminalTask, Unfinished
    <2>5. CASE store.initialized /\ ~Unfinished(store, t)
        BY <1>1, <1>3, <1>4, <2>2, <2>5 DEF TaskRecord, Unfinished
    <2> QED
        BY <2>3, <2>4, <2>5
<1>6. ASSUME NEW t \in Task
      PROVE  \/ Record!Abort(t)
             \/ store'.task[t] = store.task[t] /\ store'.data[t].revision = store.data[t].revision
    <2>1. CASE Unfinished(store, t)
        <3>1. store.initialized /\ store.task[t] \notin Record!Conclusion
            BY <2>1 DEF TasksRecord, TaskRecord, Unfinished, Record!Conclusion, TerminalTask, NoSnapshot
        <3> QED
            BY <1>4, <2>1, <3>1 DEF Record!Abort
    <2>2. CASE ~Unfinished(store, t)
        BY <1>4, <2>2
    <2> QED
        BY <2>1, <2>2
<1>7. Record!Settle
    <2>1. (scheduler' = "settled") = store.initialized
        BY <1>1 DEF TypeOK, StoredRun
    <2>2. new \in Record!Verdict
        BY DEF Terminal, Record!Verdict
    <2> QED
        BY <1>1, <1>3, <1>6, <2>1, <2>2 DEF Record!Settle
<1> QED
    BY <1>3, <1>5, <1>7 DEF RecordStep, Record!Next, TasksRecord

\* What the thread that holds the lock does to the stored run.
LEMMA LockedWrites ==
    ASSUME RecordInv, Synchronise \/ Apply
    PROVE  /\ UNCHANGED scheduler
           /\ \/ store' = InitializeRun(store, tasks).run /\ UNCHANGED tasks
              \/ \E t \in Task, isSnapshot \in BOOLEAN : \E snap :
                    /\ Telling(t, snap)
                    /\ \/ store' = store
                       \/ store.initialized /\ store' = WriteTask(store, t, snap, isSnapshot).run
              \/ /\ store.initialized /\ UNCHANGED tasks
                 /\ \E revision \in Nat, isSnapshot \in BOOLEAN : \E new \in {"running"} \union Judgement :
                       store' = WriteRun(store, revision, new, isSnapshot).run
              \/ /\ store.initialized /\ UNCHANGED tasks
                 /\ pc = "final" \/ (pc = "apply" /\ call.kind = "finalize")
                 /\ scheduler # "settled" \/ store.status = "aborted"
                 /\ final \in Judgement
                 /\ store' = FinalizeRun(store, final, Summary).run
              \/ UNCHANGED <<store, tasks>>
<1> USE DEF RecordInv
<1>1. ASSUME NEW reply, NEW next, NEW rest, SyncCall(reply, next, rest)
      PROVE  UNCHANGED <<tasks, scheduler>> /\ (store' = store \/ store' = reply.run)
    BY <1>1 DEF SyncCall, Answered, Fails
<1>2. CASE SyncInitialize
    BY <1>1, <1>2 DEF SyncInitialize
<1>3. CASE SyncRun
    <2>1. pc = "run" /\ store.initialized
        BY <1>3 DEF SyncRun, Contact, SyncPlace
    <2>2. /\ UNCHANGED <<tasks, scheduler>>
          /\ store' = store \/ store' = WriteRun(store, runState.revision, runState.status, TRUE).run
        BY <1>1, <1>3 DEF SyncRun
    <2>3. runState.revision \in Nat /\ store.revision \in Nat
        BY DEF TypeOK, StoredRun
    <2>4. CASE runState.status = "starting" /\ runState.revision = 0
        <3>1. runState.revision <= store.revision
            BY <2>3, <2>4
        <3>2. WriteRun(store, runState.revision, runState.status, TRUE).run = store
            BY <3>1 DEF WriteRun, Reply
        <3> QED
            BY <2>2, <3>2
    <2>5. CASE runState.status \in {"running"} \union Judgement
        BY <2>1, <2>2, <2>3, <2>5
    <2> QED
        BY <2>4, <2>5 DEF Rising
<1>4. ASSUME NEW t \in Task, SyncTask(t)
      PROVE  /\ UNCHANGED <<tasks, scheduler>> /\ Telling(t, tasks[t]) /\ store.initialized
             /\ store' = store \/ store' = WriteTask(store, t, tasks[t], TRUE).run
    <2>1. store.initialized
        BY <1>4 DEF SyncTask, Contact, SyncPlace
    <2>2. /\ UNCHANGED <<tasks, scheduler>>
          /\ store' = store \/ store' = WriteTask(store, t, tasks[t], TRUE).run
        BY <1>1, <1>4 DEF SyncTask
    <2> QED
        BY <2>1, <2>2 DEF Telling
<1>5. pc = "final" \/ (pc = "apply" /\ call.kind = "finalize") =>
          /\ store.initialized /\ final \in Judgement
          /\ scheduler # "settled" \/ store.status = "aborted"
    BY DEF Contact, CallInv, StatusRecord, TypeOK, SyncPlace, Undisturbed, Ended
<1>6. CASE SyncFinalize
    BY <1>1, <1>5, <1>6 DEF SyncFinalize
<1>7. CASE SyncHeartbeat \/ ApplyHeartbeat
    BY <1>7 DEF SyncHeartbeat, ApplyHeartbeat, WriteOrDefer, Answered, Fails, Acknowledged
<1>8. CASE ApplyRun
    <2>1. /\ ~dirty => store.initialized
          /\ call.status \in {"running"} \union Judgement /\ UNCHANGED <<tasks, scheduler>>
          /\ runState.revision + 1 \in Nat
        BY <1>8 DEF ApplyRun, CallInv, Contact, TypeOK
    <2>2. \/ UNCHANGED store
          \/ ~dirty /\ store' = WriteRun(store, runState.revision + 1, call.status, FALSE).run
        BY <1>8 DEF ApplyRun, Answered, Fails
    <2> QED
        BY <2>1, <2>2
<1>9. CASE ApplyTask
    <2> DEFINE snap == [status |-> call.status, revision |-> tasks[call.task].revision + 1]
    <2>1. call.kind = "task" /\ call.task \in Task /\ UNCHANGED scheduler
          /\ (~dirty => store.initialized)
        BY <1>9 DEF ApplyTask, CallInv, Contact
    <2>2. \/ UNCHANGED <<store, tasks>>
          \/ /\ tasks' = [tasks EXCEPT ![call.task] = snap]
             /\ \/ UNCHANGED store
                \/ ~dirty /\ store' = WriteTask(store, call.task, snap, FALSE).run
        <3>1. Rejected(WriteTask(store, call.task, snap, FALSE)) =>
                 WriteTask(store, call.task, snap, FALSE).run = store
            BY DEF Rejected, WriteTask, Reply
        <3> QED
            BY <1>9, <3>1 DEF ApplyTask, Answered, Fails
    <2> HIDE DEF snap
    <2>3. \/ UNCHANGED <<store, tasks>>
          \/ /\ Telling(call.task, snap)
             /\ \/ UNCHANGED store
                \/ store.initialized /\ store' = WriteTask(store, call.task, snap, FALSE).run
        BY <2>1, <2>2 DEF Telling, snap
    <2> QED
        BY <2>1, <2>3
<1>10. CASE ApplyFinalize
    BY <1>5, <1>10 DEF ApplyFinalize, WriteOrDefer, Answered, Fails
<1> QED
    BY <1>2, <1>3, <1>4, <1>6, <1>7, <1>8, <1>9, <1>10 DEF Synchronise, Apply

\* The tasks in Redis after any step, and the step as the readers see it.
LEMMA RecordSteps ==
    ASSUME RecordInv, Next
    PROVE  /\ RecordStep /\ TasksRecord'
           /\ store.initialized => store'.initialized
           /\ pc = "init" /\ ~store'.initialized => pc' \in {"init", "ready", "apply"}
           /\ \/ \E new \in Terminal : SchedulerSettles(new) /\ store'.status = new
                    /\ (new = "aborted" \/ (phase \in Over /\ pc = "ready"))
              \/ /\ UNCHANGED scheduler
                 /\ store'.status \in {"none", "starting", "running"} \union Terminal
                 /\ store'.initialized => store'.status # "none"
                 /\ store.status \in Terminal => store'.status = store.status
<1> USE DEF RecordInv
<1>1. CASE Synchronise \/ Apply
    <2>1. /\ RecordStep /\ TasksRecord'
          /\ store.initialized => store'.initialized
          /\ UNCHANGED scheduler
          /\ store'.status \in {"none", "starting", "running"} \union Terminal
          /\ store'.initialized => store'.status # "none"
          /\ store.status \in Terminal => store'.status = store.status
        <3>1. UNCHANGED scheduler
            BY <1>1, LockedWrites
        <3>2. CASE store' = InitializeRun(store, tasks).run /\ UNCHANGED tasks
            BY <3>1, <3>2, Installs DEF StatusRecord, Terminal
        <3>3. CASE \E t \in Task, isSnapshot \in BOOLEAN : \E snap :
                    /\ Telling(t, snap)
                    /\ \/ store' = store
                       \/ store.initialized /\ store' = WriteTask(store, t, snap, isSnapshot).run
            BY <3>1, <3>3, Tells DEF StatusRecord
        <3>4. CASE /\ store.initialized /\ UNCHANGED tasks
                   /\ \/ \E revision \in Nat, isSnapshot \in BOOLEAN : \E new \in {"running"} \union Judgement :
                            store' = WriteRun(store, revision, new, isSnapshot).run
                      \/ /\ scheduler # "settled" \/ store.status = "aborted"
                         /\ final \in Judgement
                         /\ store' = FinalizeRun(store, final, Summary).run
            BY <3>1, <3>4, Announces DEF Terminal
        <3>5. CASE UNCHANGED <<store, tasks>>
            BY <3>1, <3>5 DEF RecordStep, Record!vars, TasksRecord, TaskRecord, Unfinished, StatusRecord
        <3> QED
            BY <1>1, <3>2, <3>3, <3>4, <3>5, LockedWrites
    <2>2. pc = "init" /\ ~store'.initialized => pc' \in {"init", "ready", "apply"}
        <3> SUFFICES ASSUME pc = "init", ~store'.initialized PROVE pc' \in {"init", "ready", "apply"}
            OBVIOUS
        <3>1. SyncInitialize
            BY <1>1 DEF Synchronise, SyncRun, SyncTask, SyncFinalize, SyncHeartbeat,
               Apply, ApplyRun, ApplyTask, ApplyFinalize, ApplyHeartbeat
        <3>2. store' # InitializeRun(store, tasks).run
            BY <3>1, Installs DEF SyncInitialize, SyncCall
        <3> QED
            BY <3>1, <3>2 DEF SyncInitialize, SyncCall, Answered, AfterSync, Done
    <2> QED
        BY <2>1, <2>2
<1>2. CASE Request
    <2>1. pc = "ready" /\ UNCHANGED <<store, tasks, scheduler>>
        BY <1>2, RequestKeeps
    <2> QED
        BY <2>1 DEF RecordStep, Record!vars, TasksRecord, TaskRecord, Unfinished, StatusRecord
<1>3. CASE Die
    BY <1>3 DEF Die, Done, RecordStep, Record!vars, TasksRecord, TaskRecord, Unfinished, StatusRecord
<1>4. CASE Abort \/ Conclude
    <2>1. PICK new \in Terminal : /\ SchedulerSettles(new)
                                  /\ new = "aborted" \/ (phase \in Over /\ pc = "ready")
        BY <1>4 DEF Abort, Conclude, Terminal
    <2>2. pc' = pc
        BY <2>1 DEF SchedulerSettles
    <2> QED
        BY <2>1, <2>2, Settles
<1> QED
    BY <1>1, <1>2, <1>3, <1>4, NextSplit

\* Whatever the reporter and its caller do with the tasks.
LEMMA LocalSteps ==
    ASSUME RecordInv, Next PROVE LocalsRecord'
<1> USE DEF RecordInv
<1>1. CASE Request
    <2>1. UNCHANGED tasks
        BY <1>1, RequestKeeps
    <2>2. ASSUME NEW t \in Task, NEW new \in TaskStatus, TaskCall(t, new)
          PROVE  LocalsRecord'
        <3>1. /\ states' = [states EXCEPT ![t] = new] /\ TaskEdge(states[t], new)
              /\ call' = [kind |-> "task", task |-> t, status |-> new]
            BY <2>2 DEF TaskCall, Begin, Op
        <3>2. states \in [Task -> TaskStatus]
            BY DEF TypeOK
        <3>3. ASSUME NEW u \in Task PROVE LocalRecord(u)'
            <4>1. CASE u = t
                <5>1. /\ Forward(tasks[t].status, states[t]) /\ Forward(states[t], new)
                      /\ states[t] \notin TerminalTask
                    BY <3>1, EdgeForward DEF LocalsRecord, LocalRecord
                <5>2. /\ Forward(tasks[t].status, new) /\ Forward(new, new)
                      /\ tasks[t].status \notin TerminalTask
                    BY <5>1, ForwardTransitive, EdgeForward
                <5> QED
                    BY <2>1, <3>1, <3>2, <4>1, <5>2 DEF LocalRecord
            <4>2. CASE u # t
                BY <2>1, <3>1, <3>2, <4>2 DEF LocalsRecord, LocalRecord
            <4> QED
                BY <4>1, <4>2
        <3> QED
            BY <3>3 DEF LocalsRecord
    <2>3. ASSUME NEW t \in Task, ProgressCall(t)
          PROVE  LocalsRecord'
        <3>1. /\ UNCHANGED states /\ states[t] = "running"
              /\ call' = [kind |-> "task", task |-> t, status |-> "running"]
            BY <2>3 DEF ProgressCall, Begin, Op, callerVars
        <3>2. /\ Forward(tasks[t].status, "running") /\ Forward("running", "running")
              /\ tasks[t].status \notin TerminalTask
            BY <3>1, EdgeForward DEF LocalsRecord, LocalRecord, TerminalTask
        <3> QED
            BY <2>1, <3>1, <3>2 DEF LocalsRecord, LocalRecord
    <2>4. CASE \/ InitializeCall \/ RunningCall \/ FinalizeCall \/ FlushCall \/ CloseCall
               \/ HeartbeatCall \/ \E v \in Judgement : VerdictCall(v)
        <3>1. UNCHANGED states /\ (call'.kind # "task" \/ call' = call)
            BY <2>4 DEF InitializeCall, RunningCall, FinalizeCall, FlushCall, CloseCall, HeartbeatCall,
               VerdictCall, Flush, Begin, Op, callerVars
        <3> QED
            BY <2>1, <3>1 DEF LocalsRecord, LocalRecord
    <2> QED
        BY <1>1, <2>2, <2>3, <2>4 DEF Request
<1>2. CASE ApplyTask
    <2> DEFINE t == call.task
    <2>1. call.kind = "task" /\ t \in Task /\ UNCHANGED states /\ call' = NoCall
        BY <1>2 DEF ApplyTask, CallInv, Done, callerVars
    <2>2. \/ UNCHANGED tasks
          \/ tasks' = [tasks EXCEPT ![t] = [status |-> call.status, revision |-> tasks[t].revision + 1]]
        BY <1>2 DEF ApplyTask
    <2>3. ASSUME NEW u \in Task
          PROVE  tasks'[u].status = tasks[u].status \/ (u = t /\ tasks'[u].status = call.status)
        BY <2>1, <2>2 DEF TypeOK
    <2> QED
        BY <2>1, <2>3 DEF LocalsRecord, LocalRecord, NoCall
<1>3. CASE Synchronise \/ ApplyRun \/ ApplyFinalize \/ ApplyHeartbeat \/ Die \/ Abort \/ Conclude
    <2>1. UNCHANGED <<tasks, states>> /\ call' \in {call, NoCall}
        BY <1>3 DEF Synchronise, SyncInitialize, SyncRun, SyncTask, SyncFinalize, SyncHeartbeat, SyncCall,
           AfterSync, Done, ApplyRun, ApplyFinalize, ApplyHeartbeat, Die, Abort, Conclude,
           SchedulerSettles, callerVars
    <2> QED
        BY <2>1 DEF LocalsRecord, LocalRecord, NoCall
<1> QED
    BY <1>1, <1>2, <1>3, NextSplit DEF Apply

\* Nothing but the first contact follows a lost first contact.
LEMMA ContactSteps ==
    ASSUME RecordInv, Next PROVE Contact'
<1> USE DEF RecordInv
<1>1. /\ store.initialized => store'.initialized
      /\ pc = "init" /\ ~store'.initialized => pc' \in {"init", "ready", "apply"}
    BY RecordSteps
<1>2. CASE Request \/ Apply \/ Die \/ Abort \/ Conclude
    <2>1. /\ dirty' = dirty \/ dirty' = TRUE
          /\ pc' \in {pc, "init", "ready", "apply"}
        BY <1>2, RequestKeeps DEF Apply, ApplyRun, ApplyTask, ApplyFinalize, ApplyHeartbeat, WriteOrDefer,
           Fails, Done, Die, Abort, Conclude, SchedulerSettles
    <2>2. ~dirty' => store'.initialized
        BY <1>1, <2>1 DEF Contact
    <2>3. pc' \in SyncPlace \ {"init"} => pc \in SyncPlace \ {"init"}
        BY <2>1 DEF SyncPlace
    <2>4. pc' \in SyncPlace \ {"init"} => store'.initialized
        BY <1>1, <2>3 DEF Contact
    <2> QED
        BY <2>2, <2>4 DEF Contact
<1>3. CASE Synchronise
    <2>1. dirty' \in {dirty, TRUE} \/ pc = "beat"
        BY <1>3 DEF Synchronise, SyncInitialize, SyncRun, SyncTask, SyncFinalize, SyncHeartbeat,
           SyncCall, Fails
    <2>2. pc \in SyncPlace
        BY <1>3 DEF Synchronise, SyncInitialize, SyncRun, SyncTask, SyncFinalize, SyncHeartbeat, SyncPlace
    <2> QED
        BY <1>1, <2>1, <2>2 DEF Contact, SyncPlace
<1> QED
    BY <1>2, <1>3, NextSplit

\* The status in Redis and in the local record.
LEMMA StatusSteps ==
    ASSUME RecordInv, Next PROVE StatusRecord' /\ Rising'
<1> USE DEF RecordInv
<1>1. CASE ApplyRun
    <2>1. call.status \in {"running"} \union Judgement
        BY <1>1 DEF ApplyRun, CallInv
    <2>2. runState' \in {runState, [status |-> call.status, revision |-> runState.revision + 1]}
        BY <1>1 DEF ApplyRun
    <2> QED
        BY <1>1, <2>1, <2>2, RecordSteps DEF Rising, StatusRecord, Undisturbed, Terminal, ApplyRun, Over,
           SchedulerSettles
<1>2. CASE ~ApplyRun
    <2>1. runState' = runState
        BY <1>2, NextSplit, RequestKeeps DEF Synchronise, SyncInitialize, SyncRun, SyncTask,
           SyncFinalize, SyncHeartbeat, SyncCall, Apply, ApplyTask, ApplyFinalize,
           ApplyHeartbeat, Die, Abort, Conclude, SchedulerSettles
    <2>2. CASE \E new \in Terminal : SchedulerSettles(new) /\ store'.status = new
                    /\ (new = "aborted" \/ (phase \in Over /\ pc = "ready"))
        <3>1. store'.initialized = store.initialized
            BY <2>2, Settles
        <3> QED
            BY <2>1, <2>2, <3>1 DEF Rising, StatusRecord, Undisturbed, SchedulerSettles, Terminal, callerVars
    <2>3. CASE /\ UNCHANGED scheduler
               /\ store'.status \in {"none", "starting", "running"} \union Terminal
               /\ store'.initialized => store'.status # "none"
               /\ store.status \in Terminal => store'.status = store.status
        <3>1. phase \in Over /\ pc = "ready" => phase' \in Over /\ pc' = "ready"
            BY NextSplit DEF Request, InitializeCall, RunningCall, FinalizeCall, FlushCall, CloseCall,
               HeartbeatCall, TaskCall, ProgressCall, VerdictCall, Beating, Over,
               Synchronise, SyncInitialize, SyncRun, SyncTask, SyncFinalize, SyncHeartbeat,
               Apply, ApplyRun, ApplyTask, ApplyFinalize, ApplyHeartbeat, Die, Abort, Conclude,
               SchedulerSettles, callerVars
        <3>2. store.initialized => store'.initialized
            BY RecordSteps
        <3> QED
            BY <2>1, <2>3, <3>1, <3>2 DEF Rising, StatusRecord, Undisturbed, Terminal
    <2> QED
        BY <2>2, <2>3, RecordSteps
<1> QED
    BY <1>1, <1>2

LEMMA RecordInit == Init => RecordInv /\ Record!Init
<1> SUFFICES ASSUME Init PROVE RecordInv /\ Record!Init
    OBVIOUS
<1>1. TypeOK /\ CallInv
    BY ControlInit DEF ControlInv
<1>2. /\ store.status \in {"none", "starting"} /\ ~store.initialized
      /\ store.task = [t \in Task |-> "absent"]
      /\ \A t \in Task : store.data[t] = NoSnapshot
    BY DEF Init, NoRun
<1>3. Contact /\ Rising /\ StatusRecord
    BY <1>2 DEF Init, Contact, Rising, StatusRecord, SyncPlace, Undisturbed
<1>4. LocalsRecord
    BY EdgeForward DEF Init, LocalsRecord, LocalRecord, NoCall
<1>5. TasksRecord
    BY <1>2 DEF Init, TasksRecord, TaskRecord
<1>6. Record!Init
    BY <1>2 DEF Init, Record!Init, NoSnapshot
<1> QED
    BY <1>1, <1>3, <1>4, <1>5, <1>6 DEF RecordInv

LEMMA RecordNext == RecordInv /\ [Next]_vars => RecordInv' /\ RecordStep
<1> SUFFICES ASSUME RecordInv, [Next]_vars PROVE RecordInv' /\ RecordStep
    OBVIOUS
<1>1. TypeOK' /\ CallInv'
    BY ControlNext DEF RecordInv, ControlInv
<1>2. CASE Next
    BY <1>1, <1>2, RecordSteps, LocalSteps, ContactSteps, StatusSteps DEF RecordInv
<1>3. CASE UNCHANGED vars
    BY <1>1, <1>3 DEF vars, RecordInv, Contact, Rising, StatusRecord, Undisturbed, LocalsRecord, LocalRecord,
       TasksRecord, TaskRecord, Unfinished, RecordStep, Record!vars
<1> QED
    BY <1>2, <1>3

\* Lost, repeated and late requests, replays and a scheduler's verdict in between are, for
\* the readers of the run, one history that goes forward only: every step of the reporter,
\* its caller and the scheduler is a step of RunRecord or changes nothing of the record.
THEOREM ReporterImplementsRunRecord == Spec => ImplementsRunRecord
<1>1. RecordInv /\ [Next]_vars => RecordInv'
    BY RecordNext
<1>2. RecordInv /\ [Next]_vars => [Record!Next]_(Record!vars)
    BY RecordNext DEF RecordStep
<1>3. Init => RecordInv /\ Record!Init
    BY RecordInit
<1> QED
    BY <1>1, <1>2, <1>3, PTL DEF Spec, ImplementsRunRecord, Record!Spec

\* In Redis a finished task stays as it finished, and no snapshot replaces a newer one.
TaskNeverRegresses ==
    [][\A t \in Task :
          /\ store.task[t] \in TerminalTask => store'.task[t] = store.task[t]
          /\ store'.data[t].revision >= store.data[t].revision]_vars

\* What a dashboard may remember of a task holds for ever, however many requests and answers are
\* lost and however late the first contact is.
THEOREM TasksProgress == Spec => TaskNeverRegresses
<1> DEFINE A == \A t \in Task : /\ store.task[t] \in TerminalTask => store'.task[t] = store.task[t]
                                /\ store'.data[t].revision >= store.data[t].revision
<1>1. RecordInv /\ [Next]_vars => [A]_vars
    <2> SUFFICES ASSUME RecordInv, Next PROVE A
        OBVIOUS
    <2>1. \A t \in Task : store.data[t].revision \in Int /\ store'.data[t].revision \in Int
        BY RecordNext DEF RecordInv, TypeOK, StoredRun, Snapshot
    <2>2. [Record!Next]_(Record!vars)
        BY RecordNext DEF RecordStep
    <2>3. CASE UNCHANGED Record!vars
        <3>1. store'.task = store.task
            BY <2>3 DEF Record!vars
        <3>2. \A t \in Task : store'.data[t].revision = store.data[t].revision
            BY <2>3 DEF Record!vars
        <3> QED
            BY <2>1, <3>1, <3>2
    <2>4. CASE Record!Install
        BY <2>1, <2>4 DEF Record!Install, RecordInv, TasksRecord, TaskRecord, NoSnapshot, TerminalTask
    <2>5. ASSUME NEW t \in Task, Record!Tell(t) PROVE A
        BY <2>1, <2>5 DEF Record!Tell, Record!TaskForward, Record!Conclusion, TerminalTask
    <2>6. CASE Record!Announce
        BY <2>1, <2>6 DEF Record!Announce
    <2>7. CASE Record!Settle
        BY <2>1, <2>7 DEF Record!Settle, Record!Abort, Record!Conclusion, TerminalTask
    <2> QED
        BY <2>2, <2>3, <2>4, <2>5, <2>6, <2>7 DEF Record!Next
<1>2. RecordInv /\ [Next]_vars => RecordInv'
    BY RecordNext
<1> HIDE DEF A
<1>3. Spec => [][A]_vars
    BY <1>1, <1>2, RecordInit, PTL DEF Spec
<1> QED
    BY <1>3 DEF TaskNeverRegresses, A

\* After a scheduler has settled an initialized run, nothing the Analyzer still sends
\* changes the run's status, a task's status or a counter.
SettledStaysSettled ==
    [][scheduler = "settled" =>
          /\ store'.status = store.status
          /\ store'.task = store.task
          /\ store'.counts = store.counts]_vars

\* An Analyzer that lives on after a scheduler gave its run up cannot touch the result, however
\* late its first contact was.
THEOREM SettledCorrect == Spec => SettledStaysSettled
<1> DEFINE A == scheduler = "settled" => /\ store'.status = store.status
                                         /\ store'.task = store.task
                                         /\ store'.counts = store.counts
<1>1. RecordInv /\ [Next]_vars => [A]_vars
    <2> SUFFICES ASSUME RecordInv, Next, scheduler = "settled"
                 PROVE  /\ store'.status = store.status
                        /\ store'.task = store.task
                        /\ store'.counts = store.counts
        OBVIOUS
    <2>1. store.initialized /\ store.status \in Terminal
        BY DEF RecordInv, StatusRecord, Undisturbed, Terminal
    <2>2. [Record!Next]_(Record!vars)
        BY RecordNext DEF RecordStep
    <2> QED
        BY <2>1, <2>2 DEF Record!Next, Record!vars, Record!Install, Record!Tell, Record!Announce,
           Record!Settle, Record!RunForward, Record!Verdict, Terminal
<1>2. RecordInv /\ [Next]_vars => RecordInv'
    BY RecordNext
<1> HIDE DEF A
<1>3. Spec => [][A]_vars
    BY <1>1, <1>2, RecordInit, PTL DEF Spec
<1> QED
    BY <1>3 DEF SettledStaysSettled, A

-----------------------------------------------------------------------------
(* The scripts and the three copies of a run's progress.                   *)

\* The status hash, the snapshots and the counters agree; before the initialisation there
\* are none.
Consistent(run) ==
    /\ \A t \in Task : run.task[t] = run.data[t].status
    /\ run.initialized => /\ run.counts = Census(run.task)
                          /\ \A t \in Task : run.task[t] # "absent" /\ run.data[t].revision >= 0
    /\ ~run.initialized => \A t \in Task : run.task[t] = "absent" /\ run.data[t] = NoSnapshot

\* What a task's row may become: a finished one keeps its status, a newer snapshot is never
\* replaced by an older one.
NoRegress(old, new) ==
    \A t \in Task : /\ old.task[t] \in TerminalTask => new.task[t] = old.task[t]
                    /\ new.data[t].revision >= old.data[t].revision

\* A census counts what its function says of the counted tasks.
LEMMA CensusEqual ==
    ASSUME NEW f, NEW g, \A t \in Task : f[t] = g[t]
    PROVE  Census(f) = Census(g)
<1>1. ASSUME NEW s PROVE {t \in Counted : f[t] = s} = {t \in Counted : g[t] = s}
    BY TaskAssumption
<1> QED
    BY <1>1 DEF Census

\* At the initialisation every task is pending.
LEMMA CensusPending ==
    ASSUME NEW f, \A t \in Task : f[t] = "pending"
    PROVE  Census(f) = [NoCounts EXCEPT !["pending"] = Cardinality(Counted)]
<1>1. {t \in Counted : f[t] = "pending"} = Counted
    BY TaskAssumption
<1>2. ASSUME NEW s \in TaskStatus, s # "pending"
      PROVE  Cardinality({t \in Counted : f[t] = s}) = 0
    <2>1. {t \in Counted : f[t] = s} = {}
        BY <1>2, TaskAssumption
    <2> QED
        BY <2>1, FS_EmptySet
<1> QED
    BY <1>1, <1>2 DEF Census, NoCounts

\* A task that moves is counted once more where it arrives and once less where it was.
LEMMA CensusMove ==
    ASSUME NEW f, NEW g, NEW t \in Task, NEW old \in TaskStatus, NEW new \in TaskStatus,
           f[t] = old, g[t] = new, \A u \in Task \ {t} : g[u] = f[u], NEW s \in TaskStatus
    PROVE  LET counted == t \in Counted /\ old # new
           IN  Census(g)[s] = Census(f)[s] + (IF counted /\ s = new THEN 1 ELSE 0)
                                           - (IF counted /\ s = old THEN 1 ELSE 0)
<1> DEFINE F == {u \in Counted : f[u] = s}
           G == {u \in Counted : g[u] = s}
<1>1. IsFiniteSet(F) /\ IsFiniteSet(G)
    BY TaskAssumption, FS_Subset
<1>2. Cardinality(F) \in Nat /\ Cardinality(G) \in Nat
    BY <1>1, FS_CardinalityType
<1>3. Census(f)[s] = Cardinality(F) /\ Census(g)[s] = Cardinality(G)
    BY DEF Census
<1>4. CASE t \notin Counted \/ old = new \/ s \notin {old, new}
    <2>1. F = G
        BY <1>4, TaskAssumption
    <2> HIDE DEF F, G
    <2> QED
        BY <1>2, <1>3, <1>4, <2>1
<1>5. CASE t \in Counted /\ old # new /\ s = new
    <2>1. G = F \union {t} /\ t \notin F
        BY <1>5, TaskAssumption
    <2> HIDE DEF F, G
    <2>2. Cardinality(G) = Cardinality(F) + 1
        BY <1>1, <2>1, FS_AddElement
    <2> QED
        BY <1>2, <1>3, <1>5, <2>2
<1>6. CASE t \in Counted /\ old # new /\ s = old
    <2>1. G = F \ {t} /\ t \in F
        BY <1>6, TaskAssumption
    <2> HIDE DEF F, G
    <2>2. Cardinality(G) = Cardinality(F) - 1
        BY <1>1, <2>1, FS_RemoveElement
    <2> QED
        BY <1>2, <1>3, <1>6, <2>2
<1> QED
    BY <1>4, <1>5, <1>6

\* The first contact installs fresh snapshots.
LEMMA InitializeConsistent ==
    ASSUME NEW run \in StoredRun, Consistent(run),
           NEW snapshots \in [Task -> Snapshot],
           ~run.initialized =>
                \A t \in Task : snapshots[t] = [status |-> "pending", revision |-> 0]
    PROVE  /\ Consistent(InitializeRun(run, snapshots).run)
           /\ InitializeRun(run, snapshots).run.initialized
           /\ NoRegress(run, InitializeRun(run, snapshots).run)
           /\ run.initialized => InitializeRun(run, snapshots).run = run
           /\ ~run.initialized =>
                /\ \A t \in Task : InitializeRun(run, snapshots).run.data[t] = snapshots[t]
                /\ InitializeRun(run, snapshots).run.revision = 0
                /\ InitializeRun(run, snapshots).run.status =
                     IF run.status \in {"none", "queued"} THEN "starting" ELSE run.status
<1> DEFINE new == InitializeRun(run, snapshots).run
<1>1. CASE run.initialized
    <2>1. new = run
        BY <1>1 DEF InitializeRun, Reply
    <2> QED
        BY <1>1, <2>1 DEF NoRegress, StoredRun, Snapshot
<1>2. CASE ~run.initialized
    <2>1. \A t \in Task : /\ run.task[t] = "absent" /\ run.data[t] = NoSnapshot
                          /\ snapshots[t] = [status |-> "pending", revision |-> 0]
        BY <1>2 DEF Consistent
    <2>2. /\ new.initialized = TRUE /\ new.revision = 0
          /\ new.task = [t \in Task |-> IF run.task[t] = "absent" THEN "pending" ELSE run.task[t]]
          /\ new.data = [t \in Task |-> IF run.data[t].status = "absent"
                                        THEN snapshots[t] ELSE run.data[t]]
          /\ new.counts = [NoCounts EXCEPT !["pending"] = Cardinality(Counted)]
          /\ new.status = IF run.status \in {"none", "queued"} THEN "starting" ELSE run.status
        BY <1>2 DEF InitializeRun, Reply, StoredRun
    <2> HIDE DEF new
    <2>3. \A t \in Task : new.task[t] = "pending" /\ new.data[t] = snapshots[t]
        BY <2>1, <2>2 DEF NoSnapshot
    <2>4. new.counts = Census(new.task)
        BY <2>2, <2>3, CensusPending
    <2>5. Consistent(new)
        BY <2>1, <2>2, <2>3, <2>4 DEF Consistent
    <2>6. NoRegress(run, new)
        BY <2>1, <2>3 DEF NoRegress, NoSnapshot, TerminalTask
    <2> QED
        BY <1>2, <2>2, <2>3, <2>5, <2>6 DEF new
<1> QED
    BY <1>1, <1>2

LEMMA WriteTaskConsistent ==
    ASSUME NEW run \in StoredRun, Consistent(run), run.initialized, NEW t \in Task,
           NEW snap \in [status: TaskStatus, revision: Nat], NEW isSnapshot \in BOOLEAN
    PROVE  LET new == WriteTask(run, t, snap, isSnapshot).run
           IN  /\ Consistent(new) /\ NoRegress(run, new)
               /\ new.initialized /\ new.status = run.status /\ new.revision = run.revision
               /\ \A u \in Task \ {t} : new.data[u] = run.data[u] /\ new.task[u] = run.task[u]
               /\ new = run \/ new.data[t] = snap
               /\ run.task[t] \in TerminalTask => new.task = run.task /\ new.counts = run.counts
<1> DEFINE new == WriteTask(run, t, snap, isSnapshot).run
           old == run.task[t]
           counted == t \in Counted /\ old # snap.status
<1>1. old # "absent" /\ old \in TaskStatus /\ Stored(run, t) = old
    BY DEF Consistent, Stored, StoredRun
<1>2. CASE new = run
    BY <1>2 DEF NoRegress, StoredRun, Snapshot
<1>3. CASE new # run
    <2>1. /\ snap.revision > run.data[t].revision /\ TaskLegal(old, snap.status, isSnapshot)
          /\ new = [run EXCEPT
                  !.task[t] = snap.status,
                  !.data[t] = snap,
                  !.counts = [s \in TaskStatus |->
                                run.counts[s] + (IF counted /\ s = snap.status THEN 1 ELSE 0)
                                     - (IF counted /\ s = old THEN 1 ELSE 0)]]
        <3>1. run.data[t].revision \in Int
            BY DEF StoredRun, Snapshot
        <3> QED
            BY <1>1, <1>3, <3>1 DEF WriteTask, Reply
    <2>2. /\ new.initialized /\ new.status = run.status /\ new.revision = run.revision
          /\ new.task = [run.task EXCEPT ![t] = snap.status]
          /\ new.data = [run.data EXCEPT ![t] = snap]
          /\ new.counts = [s \in TaskStatus |->
                                run.counts[s] + (IF counted /\ s = snap.status THEN 1 ELSE 0)
                                     - (IF counted /\ s = old THEN 1 ELSE 0)]
        BY <2>1 DEF StoredRun
    <2> HIDE DEF new
    <2>3. /\ new.task[t] = snap.status /\ new.data[t] = snap
          /\ \A u \in Task \ {t} : new.data[u] = run.data[u] /\ new.task[u] = run.task[u]
        BY <2>2 DEF StoredRun
    <2>4. new.counts = Census(new.task)
        <3>1. run.counts = Census(run.task)
            BY DEF Consistent
        <3>2. ASSUME NEW s \in TaskStatus
              PROVE  new.counts[s] = Census(new.task)[s]
            <4>1. Census(new.task)[s] =
                     Census(run.task)[s] + (IF counted /\ s = snap.status THEN 1 ELSE 0)
                                         - (IF counted /\ s = old THEN 1 ELSE 0)
                <5> HIDE DEF old
                <5>1. snap.status \in TaskStatus /\ run.task[t] = old
                    BY DEF old
                <5> QED
                    BY <1>1, <2>3, <3>2, <5>1, CensusMove
            <4> QED
                BY <2>2, <3>1, <4>1
        <3>3. new.counts = [s \in TaskStatus |-> new.counts[s]]
            BY <2>2
        <3>4. Census(new.task) = [s \in TaskStatus |-> Census(new.task)[s]]
            BY DEF Census
        <3> QED
            BY <3>2, <3>3, <3>4
    <2>5. Consistent(new)
        BY <2>2, <2>3, <2>4 DEF Consistent, TaskStatus, TerminalTask
    <2>6. old \in TerminalTask => snap.status = old
        BY <2>1 DEF TaskLegal, TaskEdge, TerminalTask
    <2>7. NoRegress(run, new)
        BY <2>1, <2>3, <2>6 DEF NoRegress, StoredRun, Snapshot
    <2>8. old \in TerminalTask => new.task = run.task /\ new.counts = run.counts
        BY <1>1, <2>2, <2>6 DEF StoredRun
    <2> QED
        BY <2>2, <2>3, <2>5, <2>7, <2>8 DEF new
<1> QED
    BY <1>2, <1>3

\* A write of the run's status leaves the tasks alone.
LEMMA WriteRunConsistent ==
    ASSUME NEW run \in StoredRun, Consistent(run), NEW revision, NEW status, NEW isSnapshot
    PROVE  LET new == WriteRun(run, revision, status, isSnapshot).run
           IN  /\ Consistent(new)
               /\ new.task = run.task /\ new.data = run.data /\ new.counts = run.counts
               /\ new.initialized = run.initialized
<1> DEFINE new == WriteRun(run, revision, status, isSnapshot).run
<1>1. /\ new.task = run.task /\ new.data = run.data /\ new.counts = run.counts
      /\ new.initialized = run.initialized
    BY DEF WriteRun, Reply, StoredRun
<1> HIDE DEF new
<1> QED
    BY <1>1 DEF Consistent, new

LEMMA FinalizeConsistent ==
    ASSUME NEW run \in StoredRun, Consistent(run), NEW status, NEW summary,
           \/ run.status \in Terminal /\ run.status # status
           \/ run.initialized /\ summary = Census(run.task)
    PROVE  LET new == FinalizeRun(run, status, summary).run
           IN  /\ Consistent(new)
               /\ new.task = run.task /\ new.data = run.data
               /\ new.initialized = run.initialized /\ new.revision = run.revision
               /\ run.initialized => new.counts = run.counts
<1> DEFINE new == FinalizeRun(run, status, summary).run
<1>1. /\ new.task = run.task /\ new.data = run.data
      /\ new.initialized = run.initialized /\ new.revision = run.revision
      /\ new.counts = run.counts \/ (run.initialized /\ new.counts = Census(run.task))
    BY DEF FinalizeRun, Reply, StoredRun
<1> HIDE DEF new
<1> QED
    BY <1>1 DEF Consistent, new

LEMMA SchedulerWriteConsistent ==
    ASSUME NEW run \in StoredRun, Consistent(run), NEW status \in Terminal,
           run.status \in {"starting", "running"}
    PROVE  LET new == SchedulerWrite(run, status).run
           IN  /\ Consistent(new) /\ NoRegress(run, new)
               /\ new.initialized = run.initialized
               /\ new.status = status
               /\ run.initialized => \A t \in Task : new.task[t] \in TerminalTask
<1> DEFINE new == SchedulerWrite(run, status).run
<1>1. /\ new.task = SweptTask(run) /\ new.data = SweptData(run)
      /\ new.counts = Census([t \in Task |-> SweptData(run)[t].status])
      /\ new.initialized = run.initialized /\ new.status = status
    <2>1. new = [Sweep(run) EXCEPT !.status = status, !.listed = FALSE]
        BY DEF SchedulerWrite, Reply, SchedulerEdge, Terminal
    <2> QED
        BY <2>1, SweepType DEF Sweep, StoredRun
<1> HIDE DEF new
<1>2. ASSUME NEW t \in Task
      PROVE  /\ new.task[t] = new.data[t].status
             /\ new.data[t].status = [u \in Task |-> SweptData(run)[u].status][t]
             /\ new.data[t].revision >= run.data[t].revision
             /\ run.task[t] \in TerminalTask => new.task[t] = run.task[t]
             /\ run.task[t] = "absent" => new.task[t] = "absent" /\ new.data[t] = run.data[t]
             /\ run.task[t] # "absent" => new.task[t] \in TerminalTask
    <2>1. /\ run.task[t] = run.data[t].status /\ run.data[t] \in Snapshot
          /\ run.task[t] \in TaskStatus \union {"absent"}
        BY DEF Consistent, StoredRun
    <2>2. new.task[t] = IF Unfinished(run, t) THEN "aborted" ELSE run.task[t]
        BY <1>1 DEF SweptTask
    <2>3. new.data[t] = IF Unfinished(run, t)
                        THEN [status |-> "aborted", revision |-> run.data[t].revision + 1]
                        ELSE run.data[t]
        BY <1>1 DEF SweptData
    <2>4. new.data[t].status = [u \in Task |-> SweptData(run)[u].status][t]
        BY <1>1
    <2> QED
        BY <2>1, <2>2, <2>3, <2>4 DEF Unfinished, Snapshot, TaskStatus, TerminalTask
<1>3. new.counts = Census(new.task)
    BY <1>1, <1>2, CensusEqual
<1>4. Consistent(new)
    <2>1. \A t \in Task : run.data[t].revision \in Int /\ new.data[t].revision >= run.data[t].revision
        BY <1>2 DEF StoredRun, Snapshot
    <2>2. \A t \in Task : new.data[t].revision \in Int
        <3>1. Sweep(run).data = SweptData(run)
            BY DEF Sweep, StoredRun
        <3>2. Sweep(run).data \in [Task -> Snapshot]
            BY SweepType DEF StoredRun
        <3> QED
            BY <1>1, <3>1, <3>2 DEF Snapshot
    <2>3. run.initialized => \A t \in Task : new.data[t].revision >= 0
        BY <2>1, <2>2 DEF Consistent
    <2> QED
        BY <1>1, <1>2, <1>3, <2>3 DEF Consistent, TerminalTask
<1>5. NoRegress(run, new)
    BY <1>2 DEF NoRegress
<1> QED
    BY <1>1, <1>2, <1>4, <1>5 DEF Consistent, new

-----------------------------------------------------------------------------
(* What the reporter knows of Redis.                                       *)

Fresh == [status |-> "pending", revision |-> 0]

\* Redis holds one consistent run, also after a scheduler has settled it; before the first
\* contact nothing has happened.
StoreInv ==
    /\ Consistent(store)
    /\ ListedExactly(store)
    /\ ~store.initialized => /\ \A t \in Task : tasks[t] = Fresh
                             /\ \/ phase \in {"new", "dead"}
                                \/ phase = "initialized" /\ pc = "init"

\* The caller's own record and the reporter's snapshot differ by the event in hand.
TaskLocal(t) ==
    IF call.kind = "task" /\ call.task = t
    THEN /\ call.status = states[t]
         /\ \/ TaskEdge(tasks[t].status, states[t])
            \/ tasks[t].status = "running" /\ states[t] = "running"
    ELSE tasks[t].status = states[t]

RunLocal ==
    LET starting == [status |-> "starting", revision |-> 0]
        running == [status |-> "running", revision |-> 1]
        judged == [status |-> verdict, revision |-> 2]
    IN  /\ phase \in {"new", "initialized"} => runState = starting
        /\ phase = "working" => runState = IF call.kind = "run" THEN starting ELSE running
        /\ phase = "judged" => runState = IF call.kind = "run" THEN running ELSE judged
        /\ phase \in Ended => runState = judged
        /\ phase \in {"judged"} \union Ended => \A t \in Task : states[t] \in TerminalTask

\* A revision identifies a snapshot, and what Redis holds is never ahead; while it is behind
\* it is not final, so that a replay is legal.
TaskMirror(run, t) ==
    /\ run.data[t].revision <= tasks[t].revision
    /\ run.data[t].revision = tasks[t].revision => run.data[t] = tasks[t]
    /\ run.data[t].revision < tasks[t].revision => run.task[t] \notin TerminalTask

RunMirror(run) ==
    /\ run.revision <= runState.revision
    /\ run.revision = runState.revision => run.status = runState.status
    /\ run.revision < runState.revision => run.status \in {"starting", "running"}

Mirrors(run) == (\A t \in Task : TaskMirror(run, t)) /\ RunMirror(run)

\* What a synchronisation has written so far, and what a clean reporter has written.
Synced(run) ==
    /\ pc \in SyncPlace => \A t \in Task \ left : run.data[t] = tasks[t]
    /\ pc \in {"final", "beat"} => left = {}
    /\ pc \in {"tasks", "final", "beat"} => run.revision = runState.revision
    /\ ~dirty => /\ \A t \in Task : run.data[t] = tasks[t]
                 /\ run.revision = runState.revision

Live == Undisturbed /\ phase # "dead"

LocalInv == Live => RunLocal /\ \A t \in Task : TaskLocal(t)

MirrorInv == Live =>
    /\ store.initialized => Mirrors(store) /\ Synced(store)
    /\ ~store.initialized => dirty /\ store.revision = 0 /\ store.status \in {"none", "starting"}

ReporterInv == TypeOK /\ CallInv /\ RecordInv /\ StoreInv /\ LocalInv /\ MirrorInv

-----------------------------------------------------------------------------
(* The local record.                                                       *)

\* With an answer the event is taken over, except when a script refuses it, which a live
\* reporter never sees (ApplyAccepted).
LEMMA RunAccepted ==
    ASSUME ReporterInv, Live, pc = "apply", call.kind = "run"
    PROVE  LET reply == WriteRun(store, runState.revision + 1, call.status, FALSE)
           IN  /\ store.initialized
               /\ runState.status \in {"starting", "running"}
               /\ store.revision \in Nat /\ runState.revision \in Nat
               /\ ~dirty => /\ ~Rejected(reply)
                            /\ reply.run.status = call.status
                            /\ reply.run.revision = runState.revision + 1
<1> USE DEF ReporterInv
<1>1. store.initialized
    BY DEF StoreInv, CallInv
<1>2. \/ runState = [status |-> "starting", revision |-> 0] /\ call.status = "running"
      \/ runState = [status |-> "running", revision |-> 1] /\ call.status \in Judgement
    BY DEF LocalInv, RunLocal, CallInv
<1>3. store.revision \in Nat /\ runState.revision \in Nat
    BY DEF TypeOK, StoredRun
<1>4. ASSUME ~dirty
      PROVE  store.revision = runState.revision /\ store.status = runState.status
    BY <1>1, <1>4 DEF MirrorInv, Synced, Mirrors, RunMirror
<1>5. ASSUME ~dirty
      PROVE  LET reply == WriteRun(store, runState.revision + 1, call.status, FALSE)
             IN  /\ ~Rejected(reply)
                 /\ reply.run.status = call.status
                 /\ reply.run.revision = runState.revision + 1
    BY <1>2, <1>3, <1>4, <1>5 DEF WriteRun, RunLegal, RunEdge, Reply, Rejected, Judgement, Terminal,
       TypeOK, StoredRun
<1>6. runState.status \in {"starting", "running"}
    BY <1>2
<1> QED
    BY <1>1, <1>3, <1>5, <1>6

LEMMA TaskAccepted ==
    ASSUME ReporterInv, Live, pc = "apply", call.kind = "task"
    PROVE  LET t == call.task
               snap == [status |-> call.status, revision |-> tasks[t].revision + 1]
               reply == WriteTask(store, t, snap, FALSE)
           IN  /\ store.initialized /\ t \in Task
               /\ tasks[t].status \notin TerminalTask
               /\ ~dirty => ~Rejected(reply) /\ reply.run.data[t] = snap
<1> USE DEF ReporterInv
<1> DEFINE t == call.task
           snap == [status |-> call.status, revision |-> tasks[t].revision + 1]
           reply == WriteTask(store, t, snap, FALSE)
<1>1. store.initialized /\ t \in Task
    BY DEF StoreInv, CallInv
<1>2. /\ TaskEdge(tasks[t].status, call.status) \/ tasks[t].status = call.status
      /\ tasks[t].status \notin TerminalTask
    BY <1>1 DEF LocalInv, TaskLocal, TaskEdge, TerminalTask
<1>3. ASSUME ~dirty
      PROVE  reply.code = "ok" /\ reply.run.data[t] = snap
    <2>1. store.data[t] = tasks[t]
        BY <1>1, <1>3 DEF MirrorInv, Synced
    <2>2. store.task[t] = tasks[t].status /\ store.task[t] # "absent" /\ tasks[t].revision \in Nat
        BY <1>1, <2>1 DEF StoreInv, Consistent, TypeOK
    <2>3. ~(snap.revision <= store.data[t].revision)
        BY <2>1, <2>2
    <2>4. TaskLegal(Stored(store, t), snap.status, FALSE)
        BY <1>2, <2>2 DEF Stored, TaskLegal
    <2> QED
        BY <1>1, <2>3, <2>4 DEF WriteTask, Reply, TypeOK, StoredRun
<1> QED
    BY <1>1, <1>2, <1>3 DEF Rejected

\* Nobody comes back to life, and no scheduler lets go.
LEMMA LiveBefore == Next /\ Live' => Live
BY NextSplit, RequestKeeps DEF Live, Undisturbed, Synchronise, SyncInitialize, SyncRun, SyncTask,
   SyncFinalize, SyncHeartbeat, SyncCall, Apply, ApplyRun, ApplyTask, ApplyFinalize,
   ApplyHeartbeat, Die, Abort, Conclude, SchedulerSettles, Request, InitializeCall, RunningCall,
   FinalizeCall, FlushCall, CloseCall, HeartbeatCall, TaskCall, ProgressCall, VerdictCall, callerVars

LEMMA LocalNext == ASSUME ReporterInv, Next PROVE LocalInv'
<1> SUFFICES ASSUME Live' PROVE RunLocal' /\ \A t \in Task : TaskLocal(t)'
    BY DEF LocalInv
<1> USE DEF ReporterInv
<1>1. Live
    BY LiveBefore
<1>2. RunLocal /\ \A t \in Task : TaskLocal(t)
    BY <1>1 DEF LocalInv
<1>3. CASE Request
    <2>1. pc = "ready" /\ call = NoCall /\ UNCHANGED <<runState, tasks>>
        BY <1>3, RequestKeeps DEF TypeOK
    <2>2. \A t \in Task : tasks[t].status = states[t]
        BY <1>2, <2>1 DEF TaskLocal, NoCall
    <2>3. ASSUME NEW k, NEW t, NEW status, Begin(Op(k, t, status))
          PROVE  call'.kind = k /\ call'.task = t /\ call'.status = status
        BY <2>3 DEF Begin, Op
    <2>4. CASE InitializeCall \/ RunningCall \/ FinalizeCall \/ HeartbeatCall
        <3>1. call'.kind \notin {"task"} /\ states' = states
            BY <2>3, <2>4 DEF InitializeCall, RunningCall, FinalizeCall, HeartbeatCall, callerVars
        <3>2. RunLocal'
            BY <1>2, <2>1, <2>3, <2>4 DEF InitializeCall, RunningCall, FinalizeCall, HeartbeatCall,
               callerVars, RunLocal, NoCall, Ended, CallInv
        <3> QED
            BY <2>1, <2>2, <3>1, <3>2 DEF TaskLocal
    <2>5. CASE FlushCall \/ CloseCall
        <3>1. call'.kind \notin {"task", "run"} /\ states' = states /\ verdict' = verdict
            BY <2>1, <2>3, <2>5 DEF FlushCall, CloseCall, Flush, NoCall
        <3>2. RunLocal'
            BY <1>2, <2>1, <2>5, <3>1 DEF FlushCall, CloseCall, RunLocal, Ended
        <3> QED
            BY <2>1, <2>2, <3>1, <3>2 DEF TaskLocal
    <2>6. ASSUME NEW t \in Task, NEW new \in TaskStatus, TaskCall(t, new)
          PROVE  RunLocal' /\ \A u \in Task : TaskLocal(u)'
        <3>1. /\ call'.kind = "task" /\ call'.task = t /\ call'.status = new /\ phase = "working"
              /\ states' = [states EXCEPT ![t] = new] /\ TaskEdge(states[t], new)
              /\ verdict' = verdict /\ phase' = phase
            BY <2>3, <2>6 DEF TaskCall
        <3>2. RunLocal'
            BY <1>2, <2>1, <3>1 DEF RunLocal, NoCall, Ended
        <3> QED
            BY <2>1, <2>2, <3>1, <3>2 DEF TaskLocal, TypeOK
    <2>7. ASSUME NEW t \in Task, ProgressCall(t)
          PROVE  RunLocal' /\ \A u \in Task : TaskLocal(u)'
        <3>1. /\ call'.kind = "task" /\ call'.task = t /\ call'.status = "running" /\ phase = "working"
              /\ states[t] = "running" /\ UNCHANGED <<states, verdict, phase>>
            BY <2>3, <2>7 DEF ProgressCall, callerVars
        <3>2. RunLocal'
            BY <1>2, <2>1, <3>1 DEF RunLocal, NoCall, Ended
        <3> QED
            BY <2>1, <2>2, <3>1, <3>2 DEF TaskLocal
    <2>8. ASSUME NEW v \in Judgement, VerdictCall(v)
          PROVE  RunLocal' /\ \A u \in Task : TaskLocal(u)'
        <3>1. /\ call'.kind = "run" /\ phase = "working" /\ phase' = "judged"
              /\ states' = states /\ \A t \in Task : states[t] \in TerminalTask
            BY <2>3, <2>8 DEF VerdictCall
        <3>2. RunLocal'
            BY <1>2, <2>1, <3>1 DEF RunLocal, NoCall, Ended
        <3> QED
            BY <2>1, <2>2, <3>1, <3>2 DEF TaskLocal
    <2> QED
        BY <1>3, <2>4, <2>5, <2>6, <2>7, <2>8 DEF Request
<1>4. CASE Synchronise
    <2>1. /\ UNCHANGED <<runState, tasks, states, verdict, phase>>
          /\ call' = call \/ (call' = NoCall /\ call.kind \notin {"run", "task"})
        BY <1>4 DEF Synchronise, SyncInitialize, SyncRun, SyncTask, SyncFinalize, SyncHeartbeat,
           SyncCall, AfterSync, Done, callerVars
    <2> QED
        BY <1>2, <2>1 DEF RunLocal, TaskLocal, NoCall
<1>5. CASE ApplyRun
    <2>1. /\ pc = "apply" /\ call.kind = "run" /\ call' = NoCall
          /\ UNCHANGED <<tasks, states, verdict, phase>>
        BY <1>5 DEF ApplyRun, Done, callerVars
    <2>2. runState' = [status |-> call.status, revision |-> runState.revision + 1]
        BY <1>1, <1>5, <2>1, RunAccepted DEF ApplyRun
    <2>3. RunLocal'
        BY <1>2, <2>1, <2>2 DEF RunLocal, CallInv, NoCall, Ended
    <2> QED
        BY <1>2, <2>1, <2>3 DEF TaskLocal, NoCall
<1>6. CASE ApplyTask
    <2>1. /\ pc = "apply" /\ call.kind = "task" /\ call' = NoCall /\ call.task \in Task
          /\ UNCHANGED <<runState, states, verdict, phase>>
        BY <1>6 DEF ApplyTask, Done, callerVars, CallInv
    <2>2. tasks' = [tasks EXCEPT ![call.task] =
                [status |-> call.status, revision |-> tasks[call.task].revision + 1]]
        BY <1>1, <1>6, <2>1, TaskAccepted DEF ApplyTask
    <2>3. RunLocal'
        BY <1>2, <2>1 DEF RunLocal, NoCall
    <2> QED
        BY <1>2, <2>1, <2>2, <2>3 DEF TaskLocal, NoCall, TypeOK
<1>7. CASE ApplyFinalize \/ ApplyHeartbeat
    <2>1. /\ UNCHANGED <<runState, tasks, states, verdict, phase>>
          /\ call' = NoCall /\ call.kind \notin {"run", "task"}
        BY <1>7 DEF ApplyFinalize, ApplyHeartbeat, Done, callerVars
    <2> QED
        BY <1>2, <2>1 DEF RunLocal, TaskLocal, NoCall
<1>8. CASE Die \/ Abort \/ Conclude
    BY <1>8 DEF Die, Abort, Conclude, SchedulerSettles, Live, Undisturbed
<1> QED
    BY <1>3, <1>4, <1>5, <1>6, <1>7, <1>8, NextSplit DEF Apply

-----------------------------------------------------------------------------
(* The writes of a live reporter.                                          *)

LEMMA InitializedAt ==
    ASSUME ReporterInv, pc \notin {"ready", "init"} PROVE store.initialized
BY DEF ReporterInv, StoreInv, CallInv

\* Wherever a finalization is sent, Redis has every task and the verdict, or a scheduler's.
LEMMA FinalKnown ==
    ASSUME ReporterInv, pc = "final" \/ (pc = "apply" /\ call.kind = "finalize")
    PROVE  /\ final \in Judgement
           /\ \/ store.status = "aborted"
              \/ Live /\ Summary = Census(store.task) /\ store.status = final
<1> USE DEF ReporterInv
<1>1. final \in Judgement /\ phase \in Ended /\ call.kind \notin {"run", "task"}
    BY DEF TypeOK, CallInv, Ended, Judgement, Beating, Over
<1>2. store.initialized
    BY InitializedAt
<1>3. CASE ~Undisturbed
    BY <1>1, <1>3 DEF RecordInv, StatusRecord, Ended, Over, SyncPlace
<1>4. CASE Undisturbed
    <2>1. Live
        BY <1>1, <1>4 DEF Live, Ended
    <2>2. /\ \A t \in Task : store.data[t] = tasks[t]
          /\ store.revision = runState.revision
        BY <1>2, <2>1 DEF MirrorInv, Synced, CallInv, SyncPlace
    <2>3. store.status = runState.status /\ runState.status = final
        BY <1>1, <1>2, <2>1, <2>2 DEF MirrorInv, Mirrors, RunMirror, LocalInv, RunLocal, CallInv
    <2>4. \A t \in Task : states[t] = store.task[t]
        BY <1>1, <2>1, <2>2 DEF LocalInv, TaskLocal, StoreInv, Consistent
    <2>5. Census(states) = Census(store.task)
        BY <2>4, CensusEqual
    <2> QED
        BY <1>1, <2>1, <2>3, <2>5 DEF Summary
<1> QED
    BY <1>3, <1>4

LEMMA FinalizeKeeps ==
    ASSUME ReporterInv, pc = "final" \/ (pc = "apply" /\ call.kind = "finalize")
    PROVE  LET new == FinalizeRun(store, final, Summary).run
           IN  /\ Consistent(new) /\ ListedExactly(new)
               /\ new.task = store.task /\ new.data = store.data /\ new.counts = store.counts
               /\ new.revision = store.revision /\ new.status = store.status /\ new.initialized
<1> DEFINE new == FinalizeRun(store, final, Summary).run
<1>1. store \in StoredRun /\ Consistent(store) /\ ListedExactly(store) /\ store.initialized
    BY InitializedAt DEF ReporterInv, TypeOK, StoreInv
<1>2. /\ final \in Terminal
      /\ \/ store.status \in Terminal /\ store.status # final
         \/ Summary = Census(store.task) /\ store.status = final
    BY FinalKnown DEF Judgement, Terminal
<1>3. new.status = store.status
    BY <1>1, <1>2 DEF FinalizeRun, Reply, StoredRun
<1>4. ListedExactly(new)
    BY <1>1, <1>2, ScriptsKeepListing
<1> QED
    BY <1>1, <1>2, <1>3, <1>4, FinalizeConsistent

\* The replay of the run's status is legal, and leaves Redis with it.
LEMMA RunReplay ==
    ASSUME ReporterInv, Live, pc = "run"
    PROVE  LET reply == WriteRun(store, runState.revision, runState.status, TRUE)
           IN  /\ ~Rejected(reply) /\ Mirrors(reply.run)
               /\ reply.run.revision = runState.revision /\ reply.run.data = store.data
<1> USE DEF ReporterInv
<1> DEFINE reply == WriteRun(store, runState.revision, runState.status, TRUE)
<1>1. Mirrors(store) /\ store.initialized
    BY InitializedAt DEF MirrorInv
<1>2. store.revision \in Nat /\ runState.revision \in Nat /\ store \in StoredRun
    BY DEF TypeOK, StoredRun
<1>3. CASE runState.revision <= store.revision
    <2>1. reply.run = store /\ reply.code = "stale"
        BY <1>3 DEF WriteRun, Reply
    <2> HIDE DEF reply
    <2>2. store.revision = runState.revision
        BY <1>1, <1>2, <1>3 DEF Mirrors, RunMirror
    <2> QED
        BY <1>1, <2>1, <2>2 DEF Rejected, reply
<1>4. CASE ~(runState.revision <= store.revision)
    <2>1. store.status \in {"starting", "running"}
        BY <1>1, <1>2, <1>4 DEF Mirrors, RunMirror
    <2>2. reply.code = "ok" /\ reply.run = [store EXCEPT !.status = runState.status,
                !.revision = runState.revision, !.listed = Listing(store, runState.status)]
        BY <1>4, <2>1 DEF WriteRun, RunLegal, Reply, Terminal
    <2>3. /\ reply.run.status = runState.status /\ reply.run.revision = runState.revision
          /\ reply.run.data = store.data /\ reply.run.task = store.task
        BY <1>2, <2>2 DEF StoredRun
    <2> HIDE DEF reply
    <2>4. Mirrors(reply.run)
        BY <1>1, <1>2, <2>3 DEF Mirrors, RunMirror, TaskMirror
    <2> QED
        BY <2>2, <2>3, <2>4 DEF Rejected, reply
<1> QED
    BY <1>3, <1>4

\* The replay of a task, likewise.
LEMMA TaskReplay ==
    ASSUME ReporterInv, Live, store.initialized, NEW t \in Task
    PROVE  LET reply == WriteTask(store, t, tasks[t], TRUE)
           IN  /\ ~Rejected(reply) /\ Mirrors(reply.run) /\ reply.run.data[t] = tasks[t]
<1> USE DEF ReporterInv
<1> DEFINE reply == WriteTask(store, t, tasks[t], TRUE)
<1>1. Mirrors(store) /\ TaskMirror(store, t)
    BY DEF MirrorInv, Mirrors
<1>2. /\ store \in StoredRun /\ Consistent(store)
      /\ tasks[t] \in [status: TaskStatus, revision: Nat] /\ store.data[t].revision \in Int
    BY DEF TypeOK, StoredRun, Snapshot, StoreInv
<1>3. CASE tasks[t].revision <= store.data[t].revision
    <2>1. reply.run = store /\ reply.code = "stale"
        BY <1>3 DEF WriteTask, Reply
    <2>2. store.data[t] = tasks[t]
        BY <1>1, <1>2, <1>3 DEF TaskMirror
    <2> QED
        BY <1>1, <2>1, <2>2 DEF Rejected
<1>4. CASE ~(tasks[t].revision <= store.data[t].revision)
    <2>1. store.task[t] \notin TerminalTask /\ store.task[t] # "absent"
        BY <1>1, <1>2, <1>4 DEF TaskMirror, Consistent
    <2>2. TaskLegal(Stored(store, t), tasks[t].status, TRUE)
        BY <2>1 DEF Stored, TaskLegal
    <2>3. reply.code = "ok" /\ reply.run.data = [store.data EXCEPT ![t] = tasks[t]]
        BY <1>2, <1>4, <2>2 DEF WriteTask, Reply, StoredRun
    <2>4. reply.run.data[t] = tasks[t]
        BY <1>2, <2>3 DEF StoredRun
    <2>5. /\ reply.run.status = store.status /\ reply.run.revision = store.revision
          /\ \A u \in Task \ {t} : /\ reply.run.data[u] = store.data[u]
                                   /\ reply.run.task[u] = store.task[u]
        <3>1. PICK isSnapshot \in BOOLEAN : isSnapshot = TRUE
            OBVIOUS
        <3> DEFINE new == WriteTask(store, t, tasks[t], isSnapshot).run
        <3>2. /\ new.status = store.status /\ new.revision = store.revision
              /\ \A u \in Task \ {t} : new.data[u] = store.data[u] /\ new.task[u] = store.task[u]
            BY <1>2, WriteTaskConsistent
        <3> QED
            BY <3>1, <3>2
    <2> HIDE DEF reply
    <2>6. Mirrors(reply.run)
        BY <1>1, <1>2, <2>4, <2>5 DEF MirrorInv, Mirrors, RunMirror, TaskMirror
    <2> QED
        BY <2>3, <2>4, <2>6 DEF Rejected, reply
<1> QED
    BY <1>3, <1>4

\* A write of a synchronisation that is legal and leaves Redis in step.
LEMMA SyncMirror ==
    ASSUME ReporterInv, EarlyLoss = FALSE, Live, pc \in SyncPlace,
           NEW reply, NEW next \in SyncPlace, NEW rest \in SUBSET Task,
           SyncCall(reply, next, rest), ~Rejected(reply), Mirrors(reply.run),
           reply.run.initialized,
           \A t \in Task \ rest : reply.run.data[t] = tasks[t],
           next \in {"final", "beat"} => rest = {},
           next \in {"tasks", "final", "beat"} => reply.run.revision = runState.revision
    PROVE  MirrorInv'
<1> USE DEF ReporterInv
<1>1. dirty' /\ UNCHANGED <<runState, tasks>>
    BY DEF SyncCall, Fails, CallInv
<1>2. store'.initialized /\ store' \in {store, reply.run}
    BY DEF SyncCall, Answered, Fails
<1>3. Mirrors(store')
    BY <1>2 DEF MirrorInv
<1>4. Mirrors(store)'
    BY <1>1, <1>3 DEF Mirrors, RunMirror, TaskMirror
<1>5. Synced(store)'
    <2>1. CASE pc' = next /\ left' = rest /\ store' = reply.run
        BY <1>1, <2>1 DEF Synced, SyncPlace
    <2>2. CASE pc' \in {"ready", "apply"}
        BY <1>1, <2>2 DEF Synced, SyncPlace
    <2> QED
        BY <2>1, <2>2 DEF SyncCall, Answered, AfterSync, Done
<1> QED
    BY <1>2, <1>4, <1>5 DEF MirrorInv

LEMMA SynchroniseMirror ==
    ASSUME ReporterInv, EarlyLoss = FALSE, Live, Synchronise
    PROVE  MirrorInv'
<1> USE DEF ReporterInv
<1>1. /\ store \in StoredRun /\ Consistent(store) /\ left \in SUBSET Task
      /\ runState.revision \in Nat /\ store.revision \in Nat
    BY DEF TypeOK, StoredRun, StoreInv
<1>2. store.initialized => Mirrors(store) /\ Synced(store)
    BY DEF MirrorInv
<1>3. CASE SyncInitialize
    <2> DEFINE reply == InitializeRun(store, tasks)
               next == IF runState.revision > 0 THEN "run" ELSE AfterTasks(left)
    <2>1. pc = "init" /\ SyncCall(reply, next, left) /\ pc \in SyncPlace
        BY <1>3 DEF SyncInitialize, SyncPlace
    <2>2. next \in SyncPlace /\ ~Rejected(reply)
        BY AfterTasksPlace DEF SyncPlace, InitializeRun, Reply, Rejected
    <2>3. \A t \in Task : ~store.initialized => tasks[t] = Fresh
        BY DEF StoreInv
    <2>4. /\ reply.run.initialized
          /\ store.initialized => reply.run = store
          /\ ~store.initialized =>
                /\ \A t \in Task : reply.run.data[t] = tasks[t]
                /\ reply.run.revision = 0
                /\ reply.run.status = IF store.status \in {"none", "queued"}
                                      THEN "starting" ELSE store.status
        BY <1>1, <2>3, SnapshotTypes, InitializeConsistent DEF Fresh
    <2> HIDE DEF reply
    <2>5. /\ Mirrors(reply.run)
          /\ \A t \in Task \ left : reply.run.data[t] = tasks[t]
          /\ runState.revision = 0 => reply.run.revision = 0
        <3>1. CASE store.initialized
            BY <1>1, <1>2, <2>1, <2>4, <3>1 DEF Mirrors, RunMirror, Synced, SyncPlace
        <3>2. CASE ~store.initialized
            <4>1. runState = [status |-> "starting", revision |-> 0]
                BY <2>1, <3>2 DEF StoreInv, CallInv, LocalInv, RunLocal
            <4>2. reply.run.status = "starting" /\ reply.run.revision = 0
                BY <2>4, <3>2 DEF MirrorInv
            <4>3. \A t \in Task : reply.run.data[t] = tasks[t] /\ tasks[t].revision \in Nat
                BY <2>4, <3>2 DEF TypeOK
            <4> QED
                BY <4>1, <4>2, <4>3 DEF Mirrors, RunMirror, TaskMirror
        <3> QED
            BY <3>1, <3>2
    <2>6. /\ next \in {"final", "beat"} => left = {}
          /\ next \in {"tasks", "final", "beat"} => reply.run.revision = runState.revision
        BY <1>1, <2>5 DEF AfterTasks
    <2> HIDE DEF next
    <2> QED
        BY <1>1, <2>1, <2>2, <2>4, <2>5, <2>6, SyncMirror
<1>4. CASE SyncRun
    <2> DEFINE reply == WriteRun(store, runState.revision, runState.status, TRUE)
    <2>1. pc = "run" /\ SyncCall(reply, AfterTasks(left), left) /\ pc \in SyncPlace
        BY <1>4 DEF SyncRun, SyncPlace
    <2>2. store.initialized
        BY <2>1, InitializedAt
    <2>3. /\ ~Rejected(reply) /\ Mirrors(reply.run)
          /\ reply.run.revision = runState.revision /\ reply.run.data = store.data
        BY <2>1, RunReplay
    <2>4. reply.run.initialized
        BY <1>1, <2>2 DEF WriteRun, Reply, StoredRun
    <2>5. \A t \in Task \ left : store.data[t] = tasks[t]
        BY <1>2, <2>1, <2>2 DEF Synced
    <2>6. AfterTasks(left) \in SyncPlace /\ (AfterTasks(left) \in {"final", "beat"} => left = {})
        BY AfterTasksPlace DEF AfterTasks
    <2> HIDE DEF reply
    <2> QED
        BY <1>1, <2>1, <2>3, <2>4, <2>5, <2>6, SyncMirror
<1>5. ASSUME NEW t \in Task, SyncTask(t)
      PROVE  MirrorInv'
    <2> DEFINE reply == WriteTask(store, t, tasks[t], TRUE)
               rest == left \ {t}
    <2>1. pc = "tasks" /\ SyncCall(reply, AfterTasks(rest), rest) /\ pc \in SyncPlace
        BY <1>5 DEF SyncTask, SyncPlace
    <2>2. store.initialized
        BY <2>1, InitializedAt
    <2>3. ~Rejected(reply) /\ Mirrors(reply.run) /\ reply.run.data[t] = tasks[t]
        BY <2>2, TaskReplay
    <2>4. /\ reply.run.initialized /\ reply.run.revision = store.revision
          /\ \A u \in Task \ {t} : reply.run.data[u] = store.data[u]
        BY <1>1, <2>2 DEF WriteTask, Reply, StoredRun
    <2>5. store.revision = runState.revision /\ \A u \in Task \ left : store.data[u] = tasks[u]
        BY <1>2, <2>1, <2>2 DEF Synced
    <2>6. AfterTasks(rest) \in SyncPlace /\ (AfterTasks(rest) \in {"final", "beat"} => rest = {})
        BY AfterTasksPlace DEF AfterTasks
    <2> HIDE DEF reply
    <2>7. rest \in SUBSET Task /\ \A u \in Task \ rest : reply.run.data[u] = tasks[u]
        BY <1>1, <2>3, <2>4, <2>5
    <2> HIDE DEF rest
    <2> QED
        BY <2>1, <2>3, <2>4, <2>5, <2>6, <2>7, SyncMirror
<1>6. CASE SyncFinalize
    <2> DEFINE reply == FinalizeRun(store, final, Summary)
    <2>1. pc = "final" /\ SyncCall(reply, "beat", left) /\ pc \in SyncPlace /\ "beat" \in SyncPlace
        BY <1>6 DEF SyncFinalize, SyncPlace
    <2>2. store.initialized
        BY <2>1, InitializedAt
    <2>3. /\ reply.run.task = store.task /\ reply.run.data = store.data
          /\ reply.run.revision = store.revision /\ reply.run.status = store.status
          /\ reply.run.initialized
        BY <2>1, FinalizeKeeps
    <2>4. ~Rejected(reply)
        BY DEF FinalizeRun, Reply, Rejected
    <2>5. /\ store.revision = runState.revision /\ left = {}
          /\ \A u \in Task \ left : store.data[u] = tasks[u]
        BY <1>2, <2>1, <2>2 DEF Synced
    <2> HIDE DEF reply
    <2>6. Mirrors(reply.run)
        BY <1>2, <2>2, <2>3 DEF Mirrors, RunMirror, TaskMirror
    <2> QED
        BY <1>1, <2>1, <2>3, <2>4, <2>5, <2>6, SyncMirror
<1>7. CASE SyncHeartbeat
    <2>1. /\ pc = "beat" /\ store' = store /\ UNCHANGED <<runState, tasks>>
          /\ pc' \in {"ready", "apply"}
        BY <1>7 DEF SyncHeartbeat, Answered, Fails, Acknowledged, AfterSync, Done
    <2>2. Mirrors(store) /\ Synced(store) /\ store.initialized
        BY <1>2, <2>1, InitializedAt
    <2>3. Mirrors(store)'
        BY <2>1, <2>2 DEF Mirrors, RunMirror, TaskMirror
    <2>4. Synced(store)'
        BY <2>1, <2>2 DEF Synced, SyncPlace
    <2> QED
        BY <2>1, <2>2, <2>3, <2>4 DEF MirrorInv
<1> QED
    BY <1>3, <1>4, <1>5, <1>6, <1>7 DEF Synchronise

\* Applying an event keeps Redis in step or, when the write failed, behind.
LEMMA ApplyMirror ==
    ASSUME ReporterInv, EarlyLoss = FALSE, Live, Apply
    PROVE  MirrorInv'
<1> USE DEF ReporterInv
<1>1. /\ store \in StoredRun /\ Consistent(store) /\ pc = "apply" /\ pc' = "ready"
      /\ runState.revision \in Nat /\ store.revision \in Nat
    BY DEF TypeOK, StoredRun, StoreInv, Apply, ApplyRun, ApplyTask, ApplyFinalize, ApplyHeartbeat, Done
<1>2. store.initialized /\ Mirrors(store) /\ Synced(store)
    BY <1>1, InitializedAt DEF MirrorInv
<1>3. CASE ApplyRun
    <2> DEFINE new == [status |-> call.status, revision |-> runState.revision + 1]
               reply == WriteRun(store, runState.revision + 1, call.status, FALSE)
    <2>1. /\ call.kind = "run" /\ tasks' = tasks
          /\ runState.status \in {"starting", "running"}
          /\ ~dirty => /\ ~Rejected(reply)
                       /\ reply.run.status = new.status /\ reply.run.revision = new.revision
        BY <1>1, <1>3, RunAccepted DEF ApplyRun
    <2>2. /\ runState' = new
          /\ \/ dirty /\ store' = store /\ dirty' = dirty
             \/ ~dirty /\ store' = reply.run
             \/ ~dirty /\ store' = store /\ dirty' = TRUE
        BY <1>1, <1>3, <2>1 DEF ApplyRun, Answered, Fails
    <2>3. reply.run.data = store.data /\ reply.run.task = store.task /\ reply.run.initialized
        BY <1>1, <1>2 DEF WriteRun, Reply, StoredRun
    <2> HIDE DEF reply
    <2>4. /\ store'.data = store.data /\ store'.task = store.task /\ store'.initialized
          /\ \/ store' = store
             \/ store'.status = new.status /\ store'.revision = new.revision
        BY <1>2, <2>1, <2>2, <2>3
    <2>5. store.status \in {"starting", "running"} /\ store.revision < new.revision
        BY <1>1, <1>2, <2>1 DEF Mirrors, RunMirror
    <2>6. RunMirror(store)'
        BY <1>1, <2>2, <2>4, <2>5 DEF RunMirror
    <2>7. \A t \in Task : TaskMirror(store, t)'
        BY <1>2, <2>1, <2>4 DEF Mirrors, TaskMirror
    <2>8. Synced(store)'
        BY <1>1, <1>2, <2>1, <2>2, <2>4 DEF Synced, SyncPlace
    <2> QED
        BY <2>4, <2>6, <2>7, <2>8 DEF MirrorInv, Mirrors
<1>4. CASE ApplyTask
    <2> DEFINE t == call.task
               snap == [status |-> call.status, revision |-> tasks[t].revision + 1]
               reply == WriteTask(store, t, snap, FALSE)
    <2>1. /\ call.kind = "task" /\ t \in Task /\ runState' = runState
          /\ tasks[t].status \notin TerminalTask
          /\ ~dirty => ~Rejected(reply) /\ reply.run.data[t] = snap
        BY <1>1, <1>4, TaskAccepted DEF ApplyTask
    <2>2. /\ tasks' = [tasks EXCEPT ![t] = snap]
          /\ \/ dirty /\ store' = store /\ dirty' = dirty
             \/ ~dirty /\ store' = reply.run
             \/ ~dirty /\ store' = store /\ dirty' = TRUE
        BY <1>1, <1>4, <2>1 DEF ApplyTask, Answered, Fails
    <2>3. /\ reply.run.revision = store.revision /\ reply.run.status = store.status
          /\ reply.run.initialized
          /\ \A u \in Task \ {t} : reply.run.data[u] = store.data[u] /\ reply.run.task[u] = store.task[u]
        BY <1>1, <1>2, <2>1 DEF WriteTask, Reply, StoredRun
    <2> HIDE DEF reply
    <2>4. /\ store'.revision = store.revision /\ store'.status = store.status /\ store'.initialized
          /\ \A u \in Task \ {t} : store'.data[u] = store.data[u] /\ store'.task[u] = store.task[u]
          /\ store' = store \/ store'.data[t] = snap
        BY <1>2, <2>1, <2>2, <2>3
    <2>5. RunMirror(store)'
        BY <1>2, <2>1, <2>4 DEF Mirrors, RunMirror
    <2>6. tasks'[t] = snap /\ \A u \in Task \ {t} : tasks'[u] = tasks[u]
        BY <2>1, <2>2 DEF TypeOK
    <2>7. store.data[t].revision < snap.revision /\ store.task[t] \notin TerminalTask
        <3>1. tasks[t].revision \in Nat /\ store.data[t].revision \in Int
            BY <1>1, <2>1 DEF TypeOK, StoredRun, Snapshot
        <3>2. TaskMirror(store, t)
            BY <1>2, <2>1 DEF Mirrors
        <3>3. store.task[t] = store.data[t].status
            BY <1>1, <2>1 DEF Consistent
        <3> QED
            BY <2>1, <3>1, <3>2, <3>3 DEF TaskMirror
    <2>8. ASSUME NEW u \in Task PROVE TaskMirror(store, u)'
        <3>1. CASE u = t
            <4>1. snap.revision \in Int /\ store.data[t].revision \in Int
                BY <1>1, <2>1 DEF TypeOK, StoredRun, Snapshot
            <4> HIDE DEF snap
            <4> QED
                BY <2>4, <2>6, <2>7, <3>1, <4>1 DEF TaskMirror
        <3>2. CASE u # t
            BY <1>2, <2>4, <2>6, <3>2 DEF Mirrors, TaskMirror
        <3> QED
            BY <3>1, <3>2
    <2>9. Synced(store)'
        <3>1. CASE dirty'
            BY <1>1, <3>1 DEF Synced, SyncPlace
        <3>2. CASE ~dirty'
            <4>1. ~dirty /\ store' = reply.run
                BY <2>2, <3>2
            <4>2. store'.data[t] = snap
                BY <2>1, <4>1
            <4>3. \A u \in Task : store'.data[u] = tasks'[u]
                BY <1>2, <2>4, <2>6, <4>1, <4>2 DEF Synced
            <4> QED
                BY <1>1, <1>2, <2>1, <2>4, <4>1, <4>3 DEF Synced, SyncPlace
        <3> QED
            BY <3>1, <3>2
    <2> QED
        BY <2>4, <2>5, <2>8, <2>9 DEF MirrorInv, Mirrors
<1>5. CASE ApplyFinalize \/ ApplyHeartbeat
    <2>1. /\ store'.task = store.task /\ store'.data = store.data
          /\ store'.revision = store.revision /\ store'.status = store.status
          /\ store'.initialized
        BY <1>1, <1>2, <1>5, FinalizeKeeps DEF ApplyFinalize, ApplyHeartbeat, WriteOrDefer, Answered,
           Fails, Acknowledged
    <2>2. UNCHANGED <<runState, tasks>> /\ (dirty' \/ dirty' = dirty)
        BY <1>5 DEF ApplyFinalize, ApplyHeartbeat, WriteOrDefer, Fails
    <2>3. Mirrors(store)'
        BY <1>2, <2>1, <2>2 DEF Mirrors, RunMirror, TaskMirror
    <2>4. Synced(store)'
        BY <1>1, <1>2, <2>1, <2>2 DEF Synced, SyncPlace
    <2> QED
        BY <2>1, <2>3, <2>4 DEF MirrorInv
<1> QED
    BY <1>3, <1>4, <1>5 DEF Apply

LEMMA RequestMirror ==
    ASSUME ReporterInv, Live, Request
    PROVE  MirrorInv'
<1> USE DEF ReporterInv
<1>1. /\ pc = "ready" /\ left = {}
      /\ UNCHANGED <<store, runState, tasks, dirty>>
      /\ \/ left' = {} /\ ~dirty /\ pc' \in {"ready", "apply"}
         \/ left' = Changed /\ dirty /\ pc' = "init"
    BY RequestKeeps DEF CallInv
<1>2. CASE store.initialized
    <2>1. Mirrors(store) /\ Synced(store)
        BY <1>2 DEF MirrorInv
    <2>2. Mirrors(store)'
        BY <1>1, <2>1 DEF Mirrors, RunMirror, TaskMirror
    <2>3. ASSUME NEW t \in Task \ Changed PROVE store.data[t] = tasks[t]
        <3>1. tasks[t].revision = 0
            BY DEF Changed, TypeOK
        <3>2. store.data[t].revision \in Int /\ store.data[t].revision >= 0
            BY <1>2 DEF StoreInv, Consistent, TypeOK, StoredRun, Snapshot
        <3> QED
            BY <2>1, <3>1, <3>2 DEF Mirrors, TaskMirror
    <2>4. Synced(store)'
        BY <1>1, <2>1, <2>3 DEF Synced, SyncPlace
    <2> QED
        BY <1>1, <1>2, <2>2, <2>4 DEF MirrorInv
<1>3. CASE ~store.initialized
    BY <1>1, <1>3 DEF MirrorInv
<1> QED
    BY <1>2, <1>3

LEMMA MirrorNext ==
    ASSUME ReporterInv, EarlyLoss = FALSE, Next PROVE MirrorInv'
<1>1. CASE ~Live'
    BY <1>1 DEF MirrorInv
<1>2. CASE Live'
    <2>1. Live /\ ~Die /\ ~Abort /\ ~Conclude
        BY <1>2, LiveBefore DEF Die, Abort, Conclude, SchedulerSettles, Live, Undisturbed
    <2> QED
        BY <2>1, NextSplit, RequestMirror, SynchroniseMirror, ApplyMirror
<1> QED
    BY <1>1, <1>2

-----------------------------------------------------------------------------
(* Every step leaves the stored run alone or takes it through one script.  *)

InitializeStep == store' = InitializeRun(store, tasks).run

RunStep == /\ store.initialized
           /\ \E revision \in Nat, isSnapshot \in BOOLEAN : \E new \in {"running"} \union Judgement :
                 store' = WriteRun(store, revision, new, isSnapshot).run

TaskStep == /\ store.initialized
            /\ \E t \in Task, isSnapshot \in BOOLEAN :
               \E snap \in [status: TaskStatus, revision: Nat] :
                  store' = WriteTask(store, t, snap, isSnapshot).run

FinalizeStep == /\ pc = "final" \/ (pc = "apply" /\ call.kind = "finalize")
                /\ store' = FinalizeRun(store, final, Summary).run

SettleStep == \E new \in Terminal : /\ SchedulerSettles(new)
                                    /\ new = "aborted" \/ (phase \in Over /\ pc = "ready")

LEMMA StoreSteps ==
    ASSUME ReporterInv, Next
    PROVE  UNCHANGED store \/ InitializeStep \/ RunStep \/ TaskStep \/ FinalizeStep \/ SettleStep
<1>1. CASE Request \/ Die
    BY <1>1, RequestKeeps DEF Die
<1>2. CASE Synchronise \/ Apply
    <2>1. ASSUME NEW t \in Task, NEW snap, NEW isSnapshot, Telling(t, snap)
          PROVE  snap \in [status: TaskStatus, revision: Nat]
        BY <2>1, TellingType DEF ReporterInv, RecordInv
    <2> QED
        BY <1>2, <2>1, LockedWrites DEF ReporterInv, InitializeStep, RunStep, TaskStep, FinalizeStep
<1>3. CASE Abort \/ Conclude
    BY <1>3 DEF Abort, Conclude, SettleStep, Terminal
<1> QED
    BY <1>1, <1>2, <1>3, NextSplit

\* What one step does to the stored run.
LEMMA StepConsistent ==
    ASSUME ReporterInv, Next
    PROVE  /\ Consistent(store') /\ ListedExactly(store') /\ NoRegress(store, store')
           /\ store.initialized => store'.initialized
           /\ store.status \in Terminal => store'.status = store.status
<1> USE DEF ReporterInv
<1>1. store \in StoredRun /\ Consistent(store) /\ ListedExactly(store) /\ tasks \in [Task -> Snapshot]
    BY SnapshotTypes DEF TypeOK, StoreInv
<1>2. NoRegress(store, store)
    BY <1>1 DEF NoRegress, StoredRun, Snapshot
<1>3. CASE UNCHANGED store
    BY <1>1, <1>2, <1>3
<1>4. CASE InitializeStep
    <2>1. ~store.initialized => \A t \in Task : tasks[t] = [status |-> "pending", revision |-> 0]
        BY DEF StoreInv, Fresh
    <2>2. LET new == InitializeRun(store, tasks).run
          IN  Consistent(new) /\ NoRegress(store, new) /\ new.initialized
              /\ (store.initialized => new = store)
        BY <1>1, <2>1, InitializeConsistent
    <2>3. ListedExactly(InitializeRun(store, tasks).run)
        BY <1>1, ScriptsKeepListing
    <2>4. store.status \in Terminal => InitializeRun(store, tasks).run.status = store.status
        BY <1>1, ScriptsKeepVerdict
    <2> QED
        BY <1>4, <2>2, <2>3, <2>4 DEF InitializeStep
<1>5. CASE RunStep
    <2>1. PICK revision \in Nat, isSnapshot \in BOOLEAN, new \in {"running"} \union Judgement :
             store' = WriteRun(store, revision, new, isSnapshot).run
        BY <1>5 DEF RunStep
    <2>2. /\ Consistent(store') /\ store'.task = store.task /\ store'.data = store.data
          /\ store'.counts = store.counts /\ store'.initialized = store.initialized
        BY <1>1, <2>1, WriteRunConsistent
    <2>3. ListedExactly(store')
        BY <1>1, <2>1, ScriptsKeepListing DEF Judgement, Terminal
    <2>4. store.status \in Terminal => store'.status = store.status
        BY <1>1, <2>1, ScriptsKeepVerdict
    <2>5. NoRegress(store, store')
        BY <1>2, <2>2 DEF NoRegress
    <2> QED
        BY <2>2, <2>3, <2>4, <2>5
<1>6. CASE TaskStep
    <2>1. PICK t \in Task, isSnapshot \in BOOLEAN, snap \in [status: TaskStatus, revision: Nat] :
             store' = WriteTask(store, t, snap, isSnapshot).run
        BY <1>6 DEF TaskStep
    <2>2. store.initialized
        BY <1>6 DEF TaskStep
    <2>3. /\ Consistent(store') /\ NoRegress(store, store')
          /\ store'.initialized /\ store'.status = store.status
          /\ store.task[t] \in TerminalTask => store'.task = store.task /\ store'.counts = store.counts
        BY <1>1, <2>1, <2>2, WriteTaskConsistent
    <2>4. store'.listed = store.listed
        BY <1>1, <2>1 DEF WriteTask, Reply, StoredRun
    <2>5. ListedExactly(store')
        BY <1>1, <2>3, <2>4 DEF ListedExactly
    <2> QED
        BY <2>2, <2>3, <2>5
<1>7. CASE FinalizeStep
    <2>1. /\ Consistent(store') /\ ListedExactly(store')
          /\ store'.task = store.task /\ store'.data = store.data /\ store'.counts = store.counts
          /\ store'.status = store.status /\ store'.initialized
        BY <1>7, FinalizeKeeps DEF FinalizeStep
    <2>2. NoRegress(store, store')
        BY <1>2, <2>1 DEF NoRegress
    <2> QED
        BY <2>1, <2>2
<1>8. CASE SettleStep
    <2>1. PICK new \in Terminal : SchedulerSettles(new)
        BY <1>8 DEF SettleStep
    <2>2. /\ scheduler = "watching" /\ store.status \in {"starting", "running"}
          /\ store' = SchedulerWrite(store, new).run
        BY <2>1 DEF SchedulerSettles
    <2>3. /\ Consistent(store') /\ NoRegress(store, store')
          /\ store'.initialized = store.initialized
        BY <1>1, <2>2, SchedulerWriteConsistent
    <2>4. ListedExactly(store')
        BY <1>1, <2>2, ScriptsKeepListing
    <2> QED
        BY <2>2, <2>3, <2>4 DEF Terminal
<1> QED
    BY <1>3, <1>4, <1>5, <1>6, <1>7, <1>8, StoreSteps

-----------------------------------------------------------------------------
(* The inductive invariant and what follows from it.                       *)

LEMMA StoreNext ==
    ASSUME ReporterInv, EarlyLoss = FALSE, Next PROVE StoreInv'
<1> USE DEF ReporterInv
<1>1. Consistent(store') /\ ListedExactly(store')
    BY StepConsistent
<1>2. ~store'.initialized => /\ \A t \in Task : tasks'[t] = Fresh
                             /\ \/ phase' \in {"new", "dead"}
                                \/ phase' = "initialized" /\ pc' = "init"
    <2> SUFFICES ASSUME ~store'.initialized
                 PROVE  /\ \A t \in Task : tasks'[t] = Fresh
                        /\ \/ phase' \in {"new", "dead"}
                           \/ phase' = "initialized" /\ pc' = "init"
        OBVIOUS
    <2>1. /\ ~store.initialized /\ \A t \in Task : tasks[t] = Fresh
          /\ \/ phase \in {"new", "dead"} /\ pc = "ready"
             \/ phase = "initialized" /\ pc = "init"
        BY StepConsistent DEF StoreInv, CallInv
    <2>2. CASE Request
        BY <2>1, <2>2, RequestKeeps DEF Request, InitializeCall, RunningCall, FinalizeCall, FlushCall,
           CloseCall, HeartbeatCall, TaskCall, ProgressCall, VerdictCall, Begin, CallInv, Beating
    <2>3. CASE Synchronise
        <3>1. SyncInitialize
            BY <2>1, <2>3 DEF Synchronise, SyncRun, SyncTask, SyncFinalize, SyncHeartbeat
        <3>2. \/ store' = InitializeRun(store, tasks).run
              \/ EarlyLoss \/ store'.initialized
            BY <3>1 DEF SyncInitialize, SyncCall, Answered, Fails
        <3>3. InitializeRun(store, tasks).run.initialized
            BY <2>1, SnapshotTypes, InitializeConsistent DEF StoreInv, TypeOK, Fresh
        <3> QED
            BY <3>2, <3>3
    <2>4. CASE Apply
        BY <2>1, <2>4 DEF Apply, ApplyRun, ApplyTask, ApplyFinalize, ApplyHeartbeat
    <2>5. CASE Die \/ Abort \/ Conclude
        BY <2>1, <2>5 DEF Die, Abort, Conclude, SchedulerSettles, callerVars
    <2> QED
        BY <2>2, <2>3, <2>4, <2>5, NextSplit
<1> QED
    BY <1>1, <1>2 DEF StoreInv

LEMMA ReporterInit == Init => ReporterInv
<1> SUFFICES ASSUME Init PROVE ReporterInv
    OBVIOUS
<1>1. TypeOK /\ CallInv /\ RecordInv
    BY RecordInit DEF RecordInv
<1>2. store.status \in {"none", "starting"}
    BY DEF Init, NoRun
<1>3. /\ ~store.initialized /\ ~store.listed /\ store.revision = 0
      /\ \A t \in Task : store.task[t] = "absent" /\ store.data[t] = NoSnapshot
    BY DEF Init, NoRun
<1>4. StoreInv
    BY <1>2, <1>3 DEF Init, StoreInv, Consistent, ListedExactly, Fresh, NoSnapshot
<1>5. LocalInv
    BY DEF Init, LocalInv, RunLocal, TaskLocal, NoCall, Ended
<1>6. MirrorInv
    BY <1>2, <1>3 DEF Init, MirrorInv
<1> QED
    BY <1>1, <1>4, <1>5, <1>6 DEF ReporterInv

LEMMA ReporterNext == EarlyLoss = FALSE /\ ReporterInv /\ [Next]_vars => ReporterInv'
<1> SUFFICES ASSUME EarlyLoss = FALSE, ReporterInv, [Next]_vars PROVE ReporterInv'
    OBVIOUS
<1>1. TypeOK' /\ CallInv' /\ RecordInv'
    BY RecordNext DEF ReporterInv, RecordInv
<1>2. CASE Next
    BY <1>1, <1>2, StoreNext, LocalNext, MirrorNext DEF ReporterInv
<1>3. CASE UNCHANGED vars
    <2>1. StoreInv'
        BY <1>3 DEF vars, ReporterInv, StoreInv, Consistent, ListedExactly
    <2>2. LocalInv'
        BY <1>3 DEF vars, ReporterInv, LocalInv, Live, Undisturbed, RunLocal, TaskLocal
    <2>3. MirrorInv'
        BY <1>3 DEF vars, ReporterInv, MirrorInv, Live, Undisturbed, Mirrors, RunMirror, TaskMirror,
           Synced
    <2> QED
        BY <1>1, <2>1, <2>2, <2>3 DEF ReporterInv
<1> QED
    BY <1>2, <1>3

\* The status hash, the snapshots and the counters of an initialised run agree after every
\* script, however many requests and answers are lost and whoever settles the run.
THEOREM StoreCorrect == ASSUME EarlyLoss = FALSE PROVE Spec => []StoreAgrees
<1>1. ReporterInv => StoreAgrees
    BY DEF ReporterInv, StoreInv, Consistent, StoreAgrees, CountersExact, HashesAgree
<1>2. ReporterInv /\ [Next]_vars => ReporterInv'
    BY ReporterNext
<1> QED
    BY <1>1, <1>2, ReporterInit, PTL DEF Spec

\* A clean reporter has nothing left to tell: Redis holds its snapshots, and they are its
\* caller's.
THEOREM ReplayCorrect == ASSUME EarlyLoss = FALSE PROVE Spec => []SnapshotsReplayed
<1>1. ReporterInv => SnapshotsReplayed
    <2> SUFFICES ASSUME ReporterInv, phase # "dead", pc = "ready", ~dirty, Undisturbed
                 PROVE  /\ store.data = tasks
                        /\ \A t \in Task : store.task[t] = tasks[t].status /\ tasks[t].status = states[t]
                        /\ runState.revision > 0 => store.status = runState.status
        BY DEF SnapshotsReplayed
    <2> USE DEF ReporterInv
    <2>1. Live /\ store.initialized /\ call = NoCall
        BY DEF Live, StoreInv, CallInv, TypeOK
    <2>2. /\ \A t \in Task : store.data[t] = tasks[t]
          /\ store.status = runState.status
        BY <2>1 DEF MirrorInv, Synced, Mirrors, RunMirror
    <2>3. store.data = tasks
        BY <2>2 DEF TypeOK, StoredRun
    <2>4. \A t \in Task : store.task[t] = tasks[t].status /\ tasks[t].status = states[t]
        BY <2>1, <2>2 DEF StoreInv, Consistent, LocalInv, TaskLocal, NoCall
    <2> QED
        BY <2>2, <2>3, <2>4
<1>2. ReporterInv /\ [Next]_vars => ReporterInv'
    BY ReporterNext
<1> QED
    BY <1>1, <1>2, ReporterInit, PTL DEF Spec

\* A reporter that closed clean leaves the Analyzer's verdict, every task finished and the run
\* off the list of running ones.
THEOREM CloseCorrect == ASSUME EarlyLoss = FALSE PROVE Spec => []ClosedCleanIsComplete
<1>1. ReporterInv => ClosedCleanIsComplete
    <2> SUFFICES ASSUME ReporterInv, phase = "closed", pc = "ready", ~dirty, Undisturbed
                 PROVE  /\ store.status = verdict
                        /\ \A t \in Task : store.task[t] \in TerminalTask
                        /\ ~store.listed
        BY DEF ClosedCleanIsComplete
    <2> USE DEF ReporterInv
    <2>1. Live /\ store.initialized /\ call = NoCall /\ verdict \in Judgement
        BY DEF Live, StoreInv, CallInv, TypeOK, Ended
    <2>2. /\ \A t \in Task : store.data[t] = tasks[t]
          /\ store.status = runState.status
        BY <2>1 DEF MirrorInv, Synced, Mirrors, RunMirror
    <2>3. runState.status = verdict /\ \A t \in Task : states[t] \in TerminalTask
        BY <2>1 DEF LocalInv, RunLocal, Ended
    <2>4. \A t \in Task : store.task[t] = states[t]
        BY <2>1, <2>2 DEF StoreInv, Consistent, LocalInv, TaskLocal, NoCall
    <2>5. ~store.listed
        BY <2>1, <2>2, <2>3 DEF StoreInv, ListedExactly, Judgement
    <2> QED
        BY <2>2, <2>3, <2>4, <2>5
<1>2. ReporterInv /\ [Next]_vars => ReporterInv'
    BY ReporterNext
<1> QED
    BY <1>1, <1>2, ReporterInit, PTL DEF Spec
=============================================================================
