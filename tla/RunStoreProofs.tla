--------------------------- MODULE RunStoreProofs ---------------------------
(***************************************************************************)
(* Facts about the scripts of RunStore: what each leaves behind is a       *)
(* stored run, a verdict is never replaced by another status, and the      *)
(* "running" set keeps step with the status.                               *)
(***************************************************************************)
EXTENDS RunStore, FiniteSetTheorems, TLAPS

\* The counters are numbers: a census counts a subset of the finite set of nodes.
LEMMA CensusType ==
    ASSUME NEW f PROVE Census(f) \in [TaskStatus -> Nat]
<1>1. ASSUME NEW s PROVE Cardinality({t \in Counted : f[t] = s}) \in Nat
    <2>1. IsFiniteSet(Counted)
        BY TaskAssumption, FS_Subset
    <2>2. IsFiniteSet({t \in Counted : f[t] = s})
        BY <2>1, FS_Subset
    <2> QED
        BY <2>2, FS_CardinalityType
<1> QED
    BY <1>1 DEF Census

LEMMA CountedCardinality == Cardinality(Counted) \in Nat
BY TaskAssumption, FS_Subset, FS_CardinalityType

LEMMA NoCountsType == NoCounts \in [TaskStatus -> Int]
BY DEF NoCounts

\* An absent run is a stored run.
LEMMA NoRunType == NoRun \in StoredRun
BY NoCountsType DEF NoRun, StoredRun, RunStatus, NoSnapshot, Snapshot

LEMMA SubmitType ==
    ASSUME NEW run \in StoredRun PROVE SubmitRun(run).run \in StoredRun
BY NoCountsType DEF SubmitRun, Reply, StoredRun, RunStatus

LEMMA InitializeType ==
    ASSUME NEW run \in StoredRun, NEW snapshots \in [Task -> Snapshot]
    PROVE  InitializeRun(run, snapshots).run \in StoredRun
<1> DEFINE status == IF run.status \in {"none", "queued"} THEN "starting" ELSE run.status
           task == [t \in Task |-> IF run.task[t] = "absent" THEN "pending" ELSE run.task[t]]
           data == [t \in Task |-> IF run.data[t].status = "absent"
                                   THEN snapshots[t] ELSE run.data[t]]
           counts == [NoCounts EXCEPT !["pending"] = Cardinality(Counted)]
<1>1. status \in RunStatus
    BY DEF StoredRun, RunStatus
<1>2. task \in [Task -> TaskStatus \union {"absent"}]
    BY DEF StoredRun, TaskStatus
<1>3. data \in [Task -> Snapshot]
    BY DEF StoredRun
<1>4. counts \in [TaskStatus -> Int]
    BY CountedCardinality, NoCountsType DEF TaskStatus
<1> QED
    BY <1>1, <1>2, <1>3, <1>4 DEF InitializeRun, Reply, StoredRun

LEMMA WriteTaskType ==
    ASSUME NEW run \in StoredRun, NEW t \in Task,
           NEW snap \in [status: TaskStatus, revision: Nat], NEW isSnapshot \in BOOLEAN
    PROVE  WriteTask(run, t, snap, isSnapshot).run \in StoredRun
<1> DEFINE old == Stored(run, t)
           counted == t \in Counted /\ old # snap.status
           counts == [s \in TaskStatus |->
                        run.counts[s] + (IF counted /\ s = snap.status THEN 1 ELSE 0)
                                      - (IF counted /\ s = old THEN 1 ELSE 0)]
<1>1. counts \in [TaskStatus -> Int]
    BY DEF StoredRun
<1>2. [run.task EXCEPT ![t] = snap.status] \in [Task -> TaskStatus \union {"absent"}]
    BY DEF StoredRun
<1>3. [run.data EXCEPT ![t] = snap] \in [Task -> Snapshot]
    BY DEF StoredRun, Snapshot
<1> HIDE DEF old
<1> QED
    BY <1>1, <1>2, <1>3 DEF WriteTask, Reply, StoredRun, old

LEMMA WriteRunType ==
    ASSUME NEW run \in StoredRun, NEW revision \in Nat, NEW new \in RunStatus,
           NEW isSnapshot \in BOOLEAN
    PROVE  WriteRun(run, revision, new, isSnapshot).run \in StoredRun
<1>1. Listing(run, new) \in BOOLEAN
    BY DEF Listing, StoredRun
<1> QED
    BY <1>1 DEF WriteRun, Reply, StoredRun

LEMMA FinalizeType ==
    ASSUME NEW run \in StoredRun, NEW new \in RunStatus, NEW summary \in [TaskStatus -> Int]
    PROVE  FinalizeRun(run, new, summary).run \in StoredRun
BY DEF FinalizeRun, Reply, StoredRun

LEMMA SweepType ==
    ASSUME NEW run \in StoredRun PROVE Sweep(run) \in StoredRun
<1>1. SweptData(run) \in [Task -> Snapshot]
    <2>1. ASSUME NEW t \in Task
          PROVE  /\ run.data[t] \in Snapshot
                 /\ [status |-> "aborted", revision |-> run.data[t].revision + 1] \in Snapshot
        BY DEF StoredRun, Snapshot, TaskStatus, TerminalTask
    <2> QED
        BY <2>1 DEF SweptData
<1>2. SweptTask(run) \in [Task -> TaskStatus \union {"absent"}]
    BY DEF SweptTask, StoredRun, TaskStatus, TerminalTask
<1>3. Census([t \in Task |-> SweptData(run)[t].status]) \in [TaskStatus -> Int]
    BY CensusType
<1> QED
    BY <1>1, <1>2, <1>3 DEF Sweep, StoredRun

LEMMA SchedulerWriteType ==
    ASSUME NEW run \in StoredRun, NEW new \in RunStatus
    PROVE  SchedulerWrite(run, new).run \in StoredRun
<1>1. [run EXCEPT !.status = new] \in StoredRun
    BY DEF StoredRun
<1>2. [Sweep(run) EXCEPT !.status = new, !.listed = FALSE] \in StoredRun
    BY SweepType DEF StoredRun
<1> QED
    BY <1>1, <1>2 DEF SchedulerWrite, Reply

-----------------------------------------------------------------------------
\* No script gives a settled run another status, whoever calls it and with whatever
\* arguments (the terminal tests of the five scripts that write a run's status).
LEMMA ScriptsKeepVerdict ==
    ASSUME NEW run \in StoredRun, run.status \in Terminal
    PROVE  /\ SubmitRun(run).run.status = run.status
           /\ \A snapshots : InitializeRun(run, snapshots).run.status = run.status
           /\ \A revision, new, isSnapshot :
                 WriteRun(run, revision, new, isSnapshot).run.status = run.status
           /\ \A new, summary : FinalizeRun(run, new, summary).run.status = run.status
           /\ \A new : SchedulerWrite(run, new).run.status = run.status
<1>1. SubmitRun(run).run.status = run.status
    BY DEF SubmitRun, Reply, Terminal
<1>2. ASSUME NEW snapshots
      PROVE  InitializeRun(run, snapshots).run.status = run.status
    BY DEF InitializeRun, Reply, Terminal, StoredRun
<1>3. ASSUME NEW revision, NEW new, NEW isSnapshot
      PROVE  WriteRun(run, revision, new, isSnapshot).run.status = run.status
    BY DEF WriteRun, RunLegal, RunEdge, Reply, Terminal, StoredRun
<1>4. ASSUME NEW new, NEW summary
      PROVE  FinalizeRun(run, new, summary).run.status = run.status
    BY DEF FinalizeRun, Reply, Terminal, StoredRun
<1>5. ASSUME NEW new
      PROVE  SchedulerWrite(run, new).run.status = run.status
    BY DEF SchedulerWrite, Reply, Terminal
<1> QED
    BY <1>1, <1>2, <1>3, <1>4, <1>5

\* A write by the scheduler that is not refused leaves a settled run settled and settles
\* any other when it asks for a verdict.
LEMMA SchedulerWriteSettles ==
    ASSUME NEW run \in StoredRun, NEW new \in Terminal, ~Rejected(SchedulerWrite(run, new))
    PROVE  SchedulerWrite(run, new).run.status \in Terminal
<1>1. SchedulerWrite(run, new).code \notin {"invalid", "missing"}
    BY DEF Rejected
<1>2. Sweep(run) \in StoredRun
    BY SweepType
<1>3. [Sweep(run) EXCEPT !.status = new, !.listed = FALSE].status = new
    BY <1>2 DEF StoredRun
<1> QED
    BY <1>1, <1>3 DEF SchedulerWrite, Reply

\* What the "running" set says of a run.
ListedExactly(run) == run.listed <=> run.status = "running"

\* The scripts keep the "running" set exact as long as no reporter sends "stale".
LEMMA ScriptsKeepListing ==
    ASSUME NEW run \in StoredRun, ListedExactly(run)
    PROVE  /\ ListedExactly(SubmitRun(run).run)
           /\ \A snapshots : ListedExactly(InitializeRun(run, snapshots).run)
           /\ \A revision, isSnapshot : \A new \in {"running"} \union Terminal :
                 ListedExactly(WriteRun(run, revision, new, isSnapshot).run)
           /\ \A summary : \A new \in Terminal :
                 ListedExactly(FinalizeRun(run, new, summary).run)
           /\ \A new \in {"starting"} \union Terminal :
                 ListedExactly(SchedulerWrite(run, new).run)
<1> USE DEF ListedExactly, Reply, StoredRun
<1>1. ListedExactly(SubmitRun(run).run)
    BY DEF SubmitRun
<1>2. ASSUME NEW snapshots
      PROVE  ListedExactly(InitializeRun(run, snapshots).run)
    BY DEF InitializeRun
<1>3. ASSUME NEW revision, NEW isSnapshot, NEW new \in {"running"} \union Terminal
      PROVE  ListedExactly(WriteRun(run, revision, new, isSnapshot).run)
    BY DEF WriteRun, Listing, Terminal
<1>4. ASSUME NEW summary, NEW new \in Terminal
      PROVE  ListedExactly(FinalizeRun(run, new, summary).run)
    BY DEF FinalizeRun, Terminal
<1>5. ASSUME NEW new \in {"starting"} \union Terminal
      PROVE  ListedExactly(SchedulerWrite(run, new).run)
    <2>1. Sweep(run) \in StoredRun
        BY SweepType
    <2>2. /\ [Sweep(run) EXCEPT !.status = new, !.listed = FALSE].status = new
          /\ [Sweep(run) EXCEPT !.status = new, !.listed = FALSE].listed = FALSE
        BY <2>1
    <2> QED
        BY <2>2 DEF SchedulerWrite, SchedulerEdge, Terminal
<1> QED
    BY <1>1, <1>2, <1>3, <1>4, <1>5
=============================================================================
