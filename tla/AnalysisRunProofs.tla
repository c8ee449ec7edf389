-------------------------- MODULE AnalysisRunProofs --------------------------
(***************************************************************************)
(* The nodes of a run and the worker they use: module IdaLifecycleProofs   *)
(* says what the lifecycle keeps and how its calls end, here is what the   *)
(* owner makes of the answers (RunInv) and what becomes of the nodes and   *)
(* jobs of its plan (OwnInv), and why a job fails (CauseInv): a run is a   *)
(* behaviour of RunReport.                                                 *)
(***************************************************************************)
EXTENDS AnalysisRun, IdaLifecycleProofs, FiniteSetTheorems, WellFoundedInduction

\* The call in progress is the one this place waits for.
CalledFrom ==
    /\ opc = "entering" => call \in {"enter", "none"}
    /\ opc = "ensuring" => call \in {"ensure", "none"}
    /\ opc \in {"leaving", "unwinding"} => call \in {"exit", "none"}
    /\ opc \notin {"entering", "ensuring", "leaving", "unwinding"} => call = "none"
    /\ back \in {"node", "reinspectIn", "agent", "reinspectOut", "close"}

Verified == runtime # 0 /\ runtime = process

\* What a call leaves to the place that waits for it, and that place to those behind it.
HandOver ==
    /\ opc \in {"entering", "ensuring"} /\ call = "none" /\ answer = "ok" => Verified
    /\ opc = "entering" /\ call = "none" /\ answer # "ok" => process = 0
    /\ opc \in {"leaving", "unwinding"} /\ call = "none" => process = 0
    /\ Closed => process = 0
    /\ opc \in {"node", "inspectIn", "reinspectIn", "preprocess", "agent", "inspectOut", "reinspectOut"} =>
          Verified /\ rt = runtime

RunInv == LifeInv /\ CalledFrom /\ HandOver

-----------------------------------------------------------------------------
(* The lifecycle under its owner. *)

\* LifeInv does not look at what the client knows.
LEMMA SameLife ==
    ASSUME LifeInv, UNCHANGED <<osVars, opts, process, runtime, budget, force, callVars>>,
           client' \in {client, "invalid"}
    PROVE  LifeInv'
<1>1. LifeTypeOK'
    BY DEF LifeInv, LifeTypeOK, osVars, callVars
<1>2. CallInv' /\ SpentInv' /\ RuntimeInv'
    BY DEF LifeInv, CallInv, SpentInv, RuntimeInv, osVars, callVars
<1>3. OwnerInv' /\ LostInv'
    BY DEF LifeInv, OwnerInv, LostInv, Survivors, Handed, Retired, osVars, callVars
<1> QED BY <1>1, <1>2, <1>3 DEF LifeInv

LEMMA StillLife == ASSUME LifeInv, UNCHANGED lifeVars PROVE LifeInv'
BY SameLife DEF lifeVars, selfVars

LEMMA InitRun == Init => RunInv
<1> SUFFICES ASSUME Init PROVE RunInv
    OBVIOUS
<1>1. LifeInv
    BY InitLife DEF Init
<1>2. CalledFrom /\ HandOver
    BY DEF Init, LifeInit, CalledFrom, HandOver
<1> QED BY <1>1, <1>2 DEF RunInv

\* Between the calls the lifecycle does nothing; the call returns what its owner waits for.
LEMMA CallPreserves == RunInv /\ LifeStep /\ UNCHANGED ownerVars => RunInv'
<1> SUFFICES ASSUME RunInv, LifeStep, UNCHANGED ownerVars PROVE RunInv'
    OBVIOUS
<1>1. LifeInv'
    BY LifeStepCorrect DEF RunInv
<1>2. call # "none" /\ call' \in {call, "none"} /\ (call' = "none" => CallEnds)
    BY ReturnStep DEF RunInv
<1>3. opc' = opc /\ back' = back /\ rt' = rt
    BY DEF ownerVars, nodeVars
<1>4. CalledFrom'
    BY <1>2, <1>3 DEF RunInv, CalledFrom
<1>5. HandOver'
    BY <1>2, <1>3 DEF RunInv, CalledFrom, HandOver, CallEnds, Verified, Closed
<1> QED BY <1>1, <1>4, <1>5 DEF RunInv

LEMMA CrashPreserves == RunInv /\ Crash /\ UNCHANGED ownerVars => RunInv'
<1> SUFFICES ASSUME RunInv, Crash, UNCHANGED ownerVars PROVE RunInv'
    OBVIOUS
<1>1. LifeInv'
    BY CrashStep DEF RunInv
<1>2. UNCHANGED <<selfVars, callVars, opc, back, rt>>
    BY DEF Crash, ownerVars, nodeVars
<1>3. CalledFrom' /\ HandOver'
    BY <1>2 DEF RunInv, CalledFrom, HandOver, Verified, Closed, selfVars, callVars
<1> QED BY <1>1, <1>3 DEF RunInv

-----------------------------------------------------------------------------
(* The owner's own steps. *)

\* Steps that only move on, from one place to the next, beside the lifecycle.
LEMMA PlacePreserves ==
    ASSUME RunInv, UNCHANGED lifeVars,
           \/ Prepare \/ PassOver \/ Entered \/ StartNode \/ Agent \/ Interrupted
           \/ Ensured \/ EnsureFailed \/ EnsureRaised \/ BodyDone
           \/ Left \/ Handler \/ SegmentEnd \/ Finish \/ Abort
    PROVE  RunInv'
<1> USE DEF RunInv, CalledFrom, HandOver, Verified, Closed, lifeVars, selfVars, callVars,
            planVars, segVars, nodeVars, sumVars
<1>0. LifeInv' /\ answer \in {"ok", "lifecycle", "raise"}
    BY StillLife DEF LifeInv, LifeTypeOK, Answer
<1>1. CASE Prepare
    BY <1>0, <1>1 DEF Prepare
<1>2. CASE PassOver
    BY <1>0, <1>2 DEF PassOver
<1>3. CASE Entered
    <2>1. CASE answer = "ok"
        <3>1. opc' \in {"body", "node"} /\ rt' = runtime /\ Verified
            BY <1>0, <1>3, <2>1 DEF Entered
        <3> QED BY <1>0, <1>3, <3>1 DEF Entered
    <2>2. CASE answer # "ok"
        <3>1. opc' \in {"over", "handler", "abort"} /\ process = 0
            BY <1>0, <1>3, <2>2 DEF Entered
        <3> QED BY <1>0, <1>3, <3>1 DEF Entered
    <2> QED BY <2>1, <2>2
<1>4. CASE StartNode
    BY <1>0, <1>4 DEF StartNode, NodeEnds
<1>5. CASE Agent
    BY <1>0, <1>5 DEF Agent, NodeEnds, StepTo
<1>6. CASE Interrupted
    BY <1>0, <1>6 DEF Interrupted, StepTo
<1>7. CASE Ensured
    BY <1>0, <1>7 DEF Ensured
<1>8. CASE EnsureFailed
    BY <1>0, <1>8 DEF EnsureFailed, NodeEnds, StepTo
<1>9. CASE EnsureRaised
    BY <1>0, <1>9 DEF EnsureRaised, StepTo
<1>10. CASE BodyDone
    BY <1>0, <1>10 DEF BodyDone, StepTo
<1>11. CASE Left
    BY <1>0, <1>11 DEF Left
<1>12. CASE Handler
    BY <1>0, <1>12 DEF Handler
<1>13. CASE SegmentEnd
    BY <1>0, <1>13 DEF SegmentEnd
<1>14. CASE Finish
    BY <1>0, <1>14 DEF Finish
<1>15. CASE Abort
    BY <1>0, <1>15 DEF Abort
<1> QED BY <1>1, <1>2, <1>3, <1>4, <1>5, <1>6, <1>7, <1>8, <1>9, <1>10, <1>11, <1>12, <1>13, <1>14, <1>15

\* Steps that use the worker through its client.
LEMMA UsePreserves ==
    ASSUME RunInv, InspectInputs \/ InspectOutputs \/ Preprocess
    PROVE  RunInv'
<1> USE DEF RunInv, CalledFrom, HandOver, Verified, Closed, callVars, nodeVars
<1>1. UNCHANGED <<osVars, opts, process, runtime, budget, force, callVars>> /\ client' \in {client, "invalid"}
    BY DEF InspectInputs, InspectOutputs, Inspect, Preprocess, Doubted
<1>2. LifeInv'
    BY <1>1, SameLife
<1>3. CASE InspectInputs
    BY <1>1, <1>2, <1>3 DEF InspectInputs, Inspect, NodeEnds, StepTo
<1>4. CASE InspectOutputs
    BY <1>1, <1>2, <1>4 DEF InspectOutputs, Inspect, NodeEnds, StepTo
<1>5. CASE Preprocess
    BY <1>1, <1>2, <1>5 DEF Preprocess, NodeEnds, StepTo
<1> QED BY <1>3, <1>4, <1>5

\* Steps that enter, ask or leave a lifecycle.
LEMMA AskPreserves == ASSUME RunInv, StartSegment \/ Open \/ Ensure \/ Leave PROVE RunInv'
<1> USE DEF RunInv, CalledFrom, HandOver, Verified, Closed, planVars, segVars, nodeVars, sumVars
<1>1. CASE StartSegment
    <2>1. CASE opc' = "segmentEnd" /\ UNCHANGED lifeVars
        BY <1>1, <2>1, StillLife DEF StartSegment, lifeVars, selfVars, callVars
    <2>2. CASE opc' = "entering" /\ \E dynamic \in BOOLEAN, d \in Database :
                   Enter([policy |-> "restored_strict", saves |-> FALSE, dynamic |-> dynamic], d)
        <3>1. PICK dynamic \in BOOLEAN, d \in Database :
                  Enter([policy |-> "restored_strict", saves |-> FALSE, dynamic |-> dynamic], d)
            BY <2>2
        <3>2. [policy |-> "restored_strict", saves |-> FALSE, dynamic |-> dynamic]
                  \in [policy : Policy, saves : BOOLEAN, dynamic : BOOLEAN]
            BY DEF Policy
        <3>3. LifeInv'
            BY <3>1, <3>2, EnterStep
        <3>4. back' = back /\ call' = "enter"
            BY <1>1, <3>1 DEF StartSegment, Enter
        <3> QED BY <2>2, <3>3, <3>4
    <2> QED BY <1>1, <2>1, <2>2 DEF StartSegment
<1>2. CASE Open
    <2>1. PICK o \in [policy : Policy, saves : BOOLEAN, dynamic : BOOLEAN], d \in Database : Enter(o, d)
        BY <1>2 DEF Open
    <2>2. LifeInv'
        BY <2>1, EnterStep
    <2>3. opc' = "entering" /\ back' = back /\ call' = "enter"
        BY <1>2, <2>1 DEF Open, Enter
    <2> QED BY <2>2, <2>3
<1>3. CASE Ensure
    <2>1. LifeInv'
        BY <1>3, AskStep DEF Ensure
    <2>2. opc' = "ensuring" /\ call' = "ensure"
        BY <1>3 DEF Ensure, EnsureReady
    <2>3. back' \in {"node", "reinspectIn", "agent", "reinspectOut", "close"}
        BY <1>3 DEF Ensure, AskedFrom
    <2> QED BY <2>1, <2>2, <2>3
<1>4. CASE Leave
    <2>1. LifeInv'
        BY <1>4, AskStep DEF Leave
    <2>2. opc' \in {"leaving", "unwinding"} /\ call' = "exit" /\ back' = back
        BY <1>4 DEF Leave, Exit
    <2> QED BY <2>1, <2>2
<1> QED BY <1>1, <1>2, <1>3, <1>4

\* RunInv is inductive.
LEMMA NextRun == RunInv /\ [Next]_vars => RunInv'
<1> SUFFICES ASSUME RunInv, [Next]_vars PROVE RunInv'
    OBVIOUS
<1>1. CASE Step
    <2>1. CASE LifeStep /\ UNCHANGED ownerVars
        BY <2>1, CallPreserves
    <2>2. CASE \/ Prepare \/ PassOver \/ Entered \/ StartNode \/ Agent \/ Interrupted
               \/ Ensured \/ EnsureFailed \/ EnsureRaised \/ BodyDone
               \/ Left \/ Handler \/ SegmentEnd \/ Finish \/ Abort
        <3>1. UNCHANGED lifeVars
            BY <2>2 DEF Prepare, PassOver, Entered, StartNode, Agent, Interrupted, Ensured, EnsureFailed,
                        EnsureRaised, BodyDone, Left, Handler, SegmentEnd, Finish, Abort
        <3> QED BY <2>2, <3>1, PlacePreserves
    <2>3. CASE InspectInputs \/ InspectOutputs \/ Preprocess
        BY <2>3, UsePreserves
    <2>4. CASE StartSegment \/ Open \/ Ensure \/ Leave
        BY <2>4, AskPreserves
    <2> QED BY <1>1, <2>1, <2>2, <2>3, <2>4 DEF Step
<1>2. CASE Crash /\ UNCHANGED ownerVars
    BY <1>2, CrashPreserves
<1>3. CASE UNCHANGED vars
    <2>1. UNCHANGED lifeVars /\ opc' = opc /\ back' = back /\ rt' = rt
        BY <1>3 DEF vars, ownerVars, nodeVars
    <2>2. LifeInv'
        BY <2>1, StillLife DEF RunInv
    <2>3. CalledFrom' /\ HandOver'
        BY <2>1 DEF RunInv, CalledFrom, HandOver, Verified, Closed, lifeVars, selfVars, callVars
    <2> QED BY <2>2, <2>3 DEF RunInv
<1> QED BY <1>1, <1>2, <1>3 DEF Next

-----------------------------------------------------------------------------
(* The theorems. *)

\* The invariant behind the others: what the lifecycle owns and what its owner may rely on.
THEOREM RunCorrect == Spec => []RunInv
<1>1. Init => RunInv
    BY InitRun
<1>2. RunInv /\ [Next]_vars => RunInv'
    BY NextRun
<1> QED BY <1>1, <1>2, PTL DEF Spec

\* A node never works with the runtime of a supervisor that was replaced, for every plan,
\* number of start attempts and sequence of failures.
THEOREM RunUsesVerified == Spec => []VerifiedUse
<1>1. RunInv => VerifiedUse
    BY DEF RunInv, HandOver, Verified, VerifiedUse
<1> QED BY <1>1, RunCorrect, PTL

\* After every with block each process tree is gone, except where its stop failed and for the
\* one tree the second verification of a recovery may lose.
THEOREM RunReclaimsTrees == Spec => []TreesReclaimed
<1>1. RunInv => TreesReclaimed
    <2> SUFFICES ASSUME RunInv, Closed PROVE Survivors \subseteq unstopped \cup {lost}
        BY DEF TreesReclaimed
    <2>1. process = 0 /\ call = "none"
        BY DEF RunInv, HandOver, CalledFrom, Closed
    <2>2. Handed = {}
        BY <2>1 DEF RunInv, LifeInv, CallInv, Handed
    <2>3. Survivors \subseteq unstopped \cup {process, lost}
        BY <2>2 DEF RunInv, LifeInv, OwnerInv
    <2>4. 0 \notin Survivors
        BY DEF Survivors, Tree
    <2> QED BY <2>1, <2>3, <2>4
<1> QED BY <1>1, RunCorrect, PTL

\* No step removes an IDA database beside a supervisor that may still have it open.
THEOREM RunRemovesAlone == Spec => DatabaseRemovedAlone
<1> DEFINE Removed ==
        idb # "none" /\ idb' = "none" /\ opc' = opc =>
            opts.policy = "rebuild" /\ Survivors \subseteq unstopped \cup {lost}
<1>1. RunInv /\ [Next]_vars => [Removed]_vars
    <2> SUFFICES ASSUME RunInv, Next PROVE Removed
        OBVIOUS
    <2>1. CASE LifeStep
        BY <2>1, RemovalStep DEF RunInv
    <2>2. CASE StartSegment \/ Open
        BY <2>2 DEF StartSegment, Open, lifeVars, osVars
    <2>3. CASE EnsureReady \/ \E exc \in BOOLEAN : Exit(exc)
        BY <2>3 DEF EnsureReady, Exit, osVars
    <2>4. CASE UNCHANGED idb
        BY <2>4
    <2>5. Next => \/ LifeStep \/ StartSegment \/ Open
                  \/ EnsureReady \/ (\E exc \in BOOLEAN : Exit(exc)) \/ UNCHANGED idb
        BY DEF Next, Step, Prepare, PassOver, Entered, StartNode, Agent, Interrupted, Ensured, EnsureFailed,
               EnsureRaised, BodyDone, Left, Handler, SegmentEnd, Finish, Abort, InspectInputs, InspectOutputs,
               Inspect, Preprocess, Ensure, Leave, Crash, lifeVars, osVars, vars
    <2> QED BY <2>1, <2>2, <2>3, <2>4, <2>5
<1> QED BY <1>1, RunCorrect, PTL DEF Spec, DatabaseRemovedAlone

-----------------------------------------------------------------------------
(* What the run knows of its nodes and jobs: OwnInv, inductive beside RunInv. *)

Live == {"segment", "handler", "segmentEnd", "leave", "leaving", "entering", "node", "inspectIn", "recoverIn",
         "reinspectIn", "preprocess", "fallback", "agent", "inspectOut", "recoverOut", "reinspectOut",
         "ensuring", "between"}
Failing == {"unwind", "unwinding"}
Inside == Live \ {"segment", "handler", "segmentEnd", "leave", "leaving"}

\* The first node of rest is in the pipeline.
AtWork ==
    \/ opc \in Inside \ {"entering", "node", "between", "ensuring"}
    \/ opc = "ensuring" /\ back # "node"

\* An owner without a plan has no nodes to run, one with a plan asks for workers between and in them.
DriverInv ==
    IF driver = "bare"
    THEN /\ opc \in {"prepare", "entering", "body", "ensuring", "close", "leave", "leaving", "over"} \cup Failing
         /\ (opc = "ensuring" => back = "close")
         /\ verdict = "none" /\ failed = 0 /\ (\A t \in Tasks : state[t] = "PENDING")
    ELSE /\ opc \in {"prepare", "abort", "over"} \cup Live \cup Failing
         /\ (opc = "ensuring" => back # "close")

Untouched(n) == counted[n] = 0 /\ state[n] = "PENDING"
Running(n) == counted[n] = 0 /\ state[n] = "RUNNING"
Done(n) == counted[n] = 1 /\ state[n] \in Terminal
Recorded(n) == Done(n) \/ (counted[n] = 2 /\ state[n] \in Terminal /\ BinaryOf[n] \in unclosed)

\* Where the nodes of the current segment stand.
SegmentInv ==
    /\ opc \in Inside => \A n \in pending :
          IF n \notin rest THEN Done(n) ELSE IF AtWork /\ n = First(rest) THEN Running(n) ELSE Untouched(n)
    /\ opc \in {"leave", "leaving"} => \A n \in pending : Done(n)
    /\ opc = "handler" =>
          \/ pending = rest /\ \A n \in pending : Untouched(n)
          \/ here \in unclosed /\ \A n \in pending : Done(n)
    /\ opc \in {"segment", "segmentEnd"} => \A n \in pending : Recorded(n)

\* Each node is still ahead, part of the segment, or done with.
TallyInv ==
    /\ opc = "prepare" => left = Nodes /\ pending = {} /\ validated = {} /\ \A t \in Tasks : state[t] = "PENDING"
    /\ opc = "prepare" => failed = 0 /\ failedJobs = {} /\ unclosed = {} /\ \A n \in Nodes : counted[n] = 0
    /\ opc \in Live =>
          /\ left \cap pending = {}
          /\ \A n \in left : IF BinaryOf[n] \in validated THEN Untouched(n) ELSE Done(n)
          /\ \A n \in Nodes : n \notin left \cup pending => Recorded(n)
          /\ SegmentInv
    /\ opc \in Live \ {"segment", "segmentEnd"} =>
          pending # {} /\ \A n \in pending : BinaryOf[n] = here
    /\ opc \in Inside \ {"between"} => rest # {}
    /\ opc = "entering" => rest = pending

Bad == {"FAILED", "ABORTED"}
InSegment == (Live \cup Failing) \ {"segment"}

\* The state of a job follows from where its nodes are.
JobsInv ==
    /\ opc \in InSegment => here \in validated /\ state[here] = "RUNNING" /\ before <= failed
    /\ opc \in Live =>
          /\ failedJobs \subseteq validated /\ (driver = "full" => failedJobs = {})
          /\ validated # Binaries => failed > 0
          /\ \A b \in Binaries \ validated : state[b] = "FAILED"
          /\ \A b \in validated : state[b] \in {"RUNNING", "SUCCEEDED", "FAILED"}
          /\ \A b \in validated : driver = "selected" => state[b] = "RUNNING"
          /\ \A b \in validated : state[b] = "RUNNING" =>
                driver = "selected" \/ NodesOf(b) \subseteq left \/ (opc # "segment" /\ b = here)
          /\ \A b \in validated : state[b] = "FAILED" => failed > 0
          /\ \A n \in left : BinaryOf[n] \in validated => state[BinaryOf[n]] = "RUNNING"
          /\ driver = "full" /\ opc # "segment" => \A n \in left : BinaryOf[n] # here

\* Whatever went wrong with a binary is held against its job.
BlamedInv ==
    opc \in Live =>
        /\ \A n \in Nodes : state[n] \in Bad =>
              \/ BinaryOf[n] \notin validated \/ BinaryOf[n] \in failedJobs \/ state[BinaryOf[n]] = "FAILED"
              \/ opc # "segment" /\ BinaryOf[n] = here /\ failed > before
        /\ \A b \in unclosed :
              \/ b \in failedJobs \/ state[b] = "FAILED"
              \/ b = here /\ (opc = "handler" \/ (opc = "segmentEnd" /\ SegmentFailed))
        /\ failed > 0 =>
              \/ failedJobs # {} \/ (\E t \in Tasks : state[t] \in Bad)
              \/ opc = "segmentEnd" /\ failed > before

VerdictInv ==
    /\ VerdictHonest
    /\ verdict # "none" => opc = "over"
    /\ opc = "abort" => \E b \in Binaries : state[b] \notin {"SUCCEEDED", "SKIPPED"}

PlanInv == DriverInv /\ (driver # "bare" => TallyInv /\ JobsInv /\ BlamedInv) /\ VerdictInv

-----------------------------------------------------------------------------
(* The plan. *)

\* Every node has its place in the plan.
LEMMA TurnType == \A n \in Nodes : Turn(n) \in Nat
<1> SUFFICES ASSUME NEW n \in Nodes PROVE Turn(n) \in Nat
    OBVIOUS
<1>1. \E i \in DOMAIN Order : Order[i] = n
    BY DEF Nodes, ToSet
<1>2. Turn(n) \in DOMAIN Order
    BY <1>1 DEF Turn
<1> QED BY <1>2, OrderAssumption

\* Some node of those left comes first.
LEMMA FirstIn == ASSUME NEW ns, ns \subseteq Nodes, ns # {} PROVE First(ns) \in ns
<1> DEFINE T == {Turn(n) : n \in ns}
<1>1. T \subseteq Nat /\ T # {}
    BY TurnType
<1>2. \E x \in T : \A y \in T : <<y, x>> \notin OpToRel(<, Nat)
    BY <1>1, WFMin, NatLessThanWellFounded, Zenon
<1>3. PICK x \in T : \A y \in T : <<y, x>> \notin OpToRel(<, Nat)
    BY <1>2
<1>4. \A y \in T : ~(y < x)
    BY <1>1, <1>3, Zenon DEF OpToRel
<1>5. \A y \in T : x <= y
    BY <1>1, <1>4
<1>6. \E n \in ns : \A m \in ns : Turn(n) <= Turn(m)
    BY <1>5
<1> QED BY <1>6 DEF First

\* A plan is not empty, and finite.
LEMMA NodesFinite == IsFiniteSet(Nodes) /\ Nodes # {}
<1>1. Order \in [1 .. Len(Order) -> Nodes] /\ Len(Order) \in Nat
    BY OrderAssumption
<1>2. \A n \in Nodes : \E i \in 1 .. Len(Order) : Order[i] = n
    BY <1>1 DEF Nodes, ToSet
<1>3. Order \in Surjection(1 .. Len(Order), Nodes)
    BY <1>1, <1>2 DEF Surjection
<1>4. IsFiniteSet(1 .. Len(Order))
    BY <1>1, FS_Interval
<1>5. Len(Order) # 0
    BY OrderAssumption
<1>6. Order[1] \in Nodes
    BY <1>1, <1>5
<1> QED BY <1>3, <1>4, <1>6, FS_Surjection

\* The nodes a step records can be counted.
LEMMA CountSome ==
    ASSUME NEW ns, ns \subseteq Nodes
    PROVE  /\ IsFiniteSet(ns) /\ Cardinality(ns) \in Nat
           /\ Cardinality(ns) > 0 <=> ns # {}
<1>1. IsFiniteSet(ns)
    BY NodesFinite, FS_Subset
<1> QED BY <1>1, FS_CardinalityType, FS_EmptySet

\* Nodes and binaries are different tasks, and every binary has a node.
LEMMA PlanShape ==
    /\ Binaries # {} /\ Nodes \cap Binaries = {} /\ Nodes \subseteq Tasks /\ Binaries \subseteq Tasks
    /\ \A n \in Nodes : BinaryOf[n] \in Binaries
    /\ \A b \in Binaries : NodesOf(b) # {} /\ NodesOf(b) \subseteq Nodes
    /\ \A b : \A n : n \in NodesOf(b) <=> n \in Nodes /\ BinaryOf[n] = b
BY BinaryAssumption, NodesFinite DEF Binaries, Tasks, NodesOf

\* A segment is part of what is left, of the binary of its first node; in a full run it is all of it.
LEMMA SegmentShape ==
    ASSUME left \subseteq Nodes, left # {}
    PROVE  /\ First(left) \in left /\ NextSegment \subseteq left
           /\ \A n \in NextSegment : BinaryOf[n] = BinaryOf[First(left)]
           /\ driver = "full" => \A n \in left \ NextSegment : BinaryOf[n] # BinaryOf[First(left)]
<1>1. First(left) \in left
    BY FirstIn
<1>2. \A n \in left : Turn(n) <= Turn(n)
    BY TurnType
<1> QED BY <1>1, <1>2 DEF NextSegment, Stretch, SameBinary

-----------------------------------------------------------------------------
(* What is emitted and counted. *)

\* emit_task_status moves a task along a legal transition or leaves it where it is.
LEMMA Emitted ==
    ASSUME NEW st \in [Tasks -> Status], NEW ts, NEW s \in Status
    PROVE  /\ Emit(st, ts, s) \in [Tasks -> Status]
           /\ \A t \in Tasks : Emit(st, ts, s)[t] \in {st[t], s}
           /\ \A t \in Tasks : t \notin ts \/ st[t] \in Terminal => Emit(st, ts, s)[t] = st[t]
           /\ \A t \in Tasks : t \in ts /\ st[t] = "PENDING" /\ s \in {"RUNNING", "SKIPPED", "ABORTED"} =>
                 Emit(st, ts, s)[t] = s
           /\ \A t \in Tasks : t \in ts /\ st[t] = "RUNNING" /\ s \in Terminal => Emit(st, ts, s)[t] = s
<1> DEFINE e == Emit(st, ts, s)
<1>1. e = [t \in Tasks |-> IF t \in ts /\ <<st[t], s>> \in Transitions THEN s ELSE st[t]]
    BY DEF Emit
<1>2. \A x : <<x, s>> \in Transitions <=>
              (x = "PENDING" /\ s \in {"RUNNING", "SKIPPED", "ABORTED"}) \/ (x = "RUNNING" /\ s \in Terminal)
    BY DEF Transitions
<1>3. \A t \in Tasks : e[t] = IF t \in ts /\ <<st[t], s>> \in Transitions THEN s ELSE st[t]
    BY <1>1
<1>4. e \in [Tasks -> Status]
    BY <1>1
<1> HIDE DEF e
<1>5. /\ \A t \in Tasks : e[t] \in {st[t], s}
      /\ \A t \in Tasks : t \notin ts \/ st[t] \in Terminal => e[t] = st[t]
    BY <1>2, <1>3 DEF Terminal
<1>6. /\ \A t \in Tasks : t \in ts /\ st[t] = "PENDING" /\ s \in {"RUNNING", "SKIPPED", "ABORTED"} => e[t] = s
      /\ \A t \in Tasks : t \in ts /\ st[t] = "RUNNING" /\ s \in Terminal => e[t] = s
    BY <1>2, <1>3
<1>7. e = Emit(st, ts, s)
    BY DEF e
<1> QED BY <1>4, <1>5, <1>6, <1>7

-----------------------------------------------------------------------------
(* The steps of the owner. *)

\* TypeOK of module AnalysisRun without that of the lifecycle.
OwnType ==
    /\ driver \in Drivers
    /\ skip \in BOOLEAN
    /\ opc \in {"prepare", "body", "close", "abort", "over"} \cup Live \cup Failing
    /\ left \subseteq Nodes /\ pending \subseteq Nodes /\ rest \subseteq pending
    /\ here \in Binaries
    /\ back \in {"node", "reinspectIn", "agent", "reinspectOut", "close"}
    /\ rt \in Tree \cup {0}
    /\ validated \subseteq Binaries
    /\ state \in [Tasks -> Status]
    /\ counted \in [Nodes -> 0 .. 2]
    /\ failed \in Nat /\ before \in Nat
    /\ broken \in BOOLEAN
    /\ failedJobs \subseteq Binaries /\ unclosed \subseteq Binaries
    /\ verdict \in {"none", "SUCCEEDED", "FAILED"}

OwnInv == OwnType /\ PlanInv

\* An owner without a plan only opens and closes its worker.
LEMMA BarePreserves ==
    ASSUME OwnInv, RunInv, driver = "bare", Step
    PROVE  OwnInv'
<1> USE DEF OwnInv, OwnType, PlanInv, DriverInv, Live, Failing, Inside, VerdictInv, VerdictHonest, Fine, Terminal
<1>1. \/ LifeStep /\ UNCHANGED ownerVars
      \/ Open \/ Entered \/ Ensure \/ Ensured \/ EnsureFailed \/ EnsureRaised \/ BodyDone \/ Leave \/ Left
    BY DEF Step, Prepare, PassOver, StartSegment, StartNode, InspectInputs, InspectOutputs, Inspect, Preprocess,
           Agent, Interrupted, Handler, SegmentEnd, Finish, Abort
<1>2. runtime \in Tree \cup {0} /\ answer \in {"ok", "lifecycle", "raise"}
    BY DEF RunInv, LifeInv, LifeTypeOK, Answer
<1>3. /\ UNCHANGED <<planVars, segVars, rest, state, counted, failed, broken, failedJobs, verdict>>
      /\ unclosed' \in {unclosed, unclosed \cup {here}}
      /\ rt' \in {rt, runtime, 0}
      /\ opc' \in {"prepare", "entering", "body", "ensuring", "close", "leave", "leaving", "over"} \cup Failing
      /\ back' \in {"node", "reinspectIn", "agent", "reinspectOut", "close"}
      /\ opc' = "ensuring" => back' = "close"
    BY <1>1, <1>2 DEF Open, Entered, Ensure, AskedFrom, Ensured, EnsureFailed, StepTo, EnsureRaised, BodyDone, Leave, Left,
           ownerVars, nodeVars, sumVars, planVars, segVars
<1>4. \A t \in Tasks : state[t] = "PENDING"
    OBVIOUS
<1>5. OwnType'
    BY <1>2, <1>3 DEF planVars, segVars
<1>6. DriverInv' /\ VerdictInv'
    BY <1>2, <1>3, <1>4, PlanShape DEF planVars, segVars
<1> QED BY <1>3, <1>5, <1>6 DEF planVars

\* Everything but the place stays the same.
dataVars == <<planVars, segVars, rest, sumVars>>

Quiet ==
    /\ UNCHANGED dataVars
    /\ \/ /\ opc \in Inside /\ opc' \in Inside \ {"entering"}
          /\ AtWork' = AtWork
          /\ opc' = "between" \/ rest # {}
          /\ opc' = "ensuring" => back' # "close"
       \/ opc \in Inside /\ opc' \in {"unwind", "abort"}
       \/ opc = "between" /\ rest = {} /\ opc' = "leave"
       \/ opc = "leave" /\ opc' = "leaving"
       \/ opc = "unwind" /\ opc' = "unwinding"
       \/ opc = "entering" /\ opc' = "handler"
       \/ opc' = opc /\ back' = back

\* A step that only moves on keeps what is known of the plan.
LEMMA QuietPreserves ==
    ASSUME OwnInv, driver # "bare", Quiet
    PROVE  PlanInv'
<1> USE DEF OwnInv, OwnType, PlanInv, Live, Failing, Inside, Quiet, dataVars, planVars, segVars, sumVars
<1>1. DriverInv'
    BY DEF DriverInv
<1>2. SegmentInv' \/ opc' \notin Live
    BY DEF TallyInv, SegmentInv, AtWork, Untouched, Running, Done, Recorded
<1>3. TallyInv'
    BY <1>2 DEF TallyInv, Untouched, Done, Recorded
<1>4. JobsInv'
    BY DEF JobsInv, InSegment
<1>5. BlamedInv'
    BY DEF BlamedInv, SegmentFailed
<1>6. VerdictInv'
    BY DEF VerdictInv, VerdictHonest, Fine, JobsInv, InSegment
<1> QED BY <1>1, <1>3, <1>4, <1>5, <1>6

\* The first node of rest has run.
LEMMA NodeEndsPreserves ==
    ASSUME OwnInv, driver # "bare", NEW s \in {"SKIPPED", "FAILED", "SUCCEEDED"}, NodeEnds(s),
           UNCHANGED <<planVars, segVars>>, opc \in Inside \ {"entering", "between"},
           AtWork \/ (opc = "node" /\ s = "SKIPPED")
    PROVE  OwnInv'
<1> DEFINE n0 == First(rest)
<1>1. /\ opc \in Live /\ opc \in InSegment /\ opc \notin {"segment", "segmentEnd"}
      /\ TallyInv /\ JobsInv /\ BlamedInv /\ DriverInv /\ VerdictInv /\ OwnType
    BY DEF OwnInv, PlanInv, Live, Inside, InSegment
<1>2. rest # {} /\ rest \subseteq pending /\ pending \subseteq Nodes
    BY <1>1 DEF TallyInv, OwnType
<1>3. n0 \in rest /\ n0 \in pending /\ n0 \in Nodes /\ n0 \notin left /\ BinaryOf[n0] = here
    BY <1>1, <1>2, FirstIn DEF TallyInv
<1>4. counted[n0] = 0 /\ (state[n0] = "RUNNING" \/ (state[n0] = "PENDING" /\ s = "SKIPPED"))
    BY <1>1, <1>3 DEF TallyInv, SegmentInv, Running, Untouched, AtWork
<1>5. s \in Terminal /\ s \in Status
    BY DEF Terminal, Status
<1>6. /\ state' \in [Tasks -> Status] /\ n0 \in Tasks
      /\ state'[n0] = s
      /\ \A t \in Tasks : t # n0 => state'[t] = state[t]
    BY <1>1, <1>3, <1>4, <1>5, Emitted, PlanShape DEF NodeEnds, OwnType
<1>7. /\ counted' \in [Nodes -> 0 .. 2] /\ counted'[n0] = 1
      /\ \A n \in Nodes : n # n0 => counted'[n] = counted[n]
    <2>1. counted' = [n \in Nodes |-> counted[n] + IF n \in {n0} THEN 1 ELSE 0]
        BY DEF NodeEnds, Count
    <2>2. counted \in [Nodes -> 0 .. 2]
        BY <1>1 DEF OwnType
    <2> HIDE DEF n0
    <2> QED BY <1>3, <1>4, <2>1, <2>2
<1>8. /\ failed' = failed + IF s = "FAILED" THEN 1 ELSE 0
      /\ UNCHANGED <<rt, back, broken, failedJobs, unclosed, verdict, planVars, segVars>>
      /\ \/ opc' = "unwind" /\ rest' = rest
         \/ opc' = "between" /\ rest' = rest \ {n0}
    BY DEF NodeEnds
<1>9. /\ failed' \in Nat /\ failed' >= failed /\ (s = "FAILED" => failed' > failed)
      /\ opc' \in {"unwind", "between"} /\ rest' \subseteq pending
    BY <1>1, <1>2, <1>8 DEF OwnType
<1>10. here \in Tasks /\ here # n0 /\ (\A b \in Binaries : b \in Tasks /\ b # n0) /\ (\A n \in Nodes : n \in Tasks)
    BY <1>1, <1>3, PlanShape DEF OwnType
<1> HIDE DEF n0
<1> USE DEF planVars, segVars
<1>11. OwnType'
    BY <1>1, <1>6, <1>7, <1>8, <1>9 DEF OwnType, Failing, Live
<1>12. DriverInv'
    BY <1>1, <1>8, <1>9 DEF DriverInv, Failing, Live
<1>13. SegmentInv' \/ opc' = "unwind"
    <2> SUFFICES ASSUME opc' = "between" PROVE SegmentInv'
        BY <1>8
    <2>1. rest' = rest \ {n0} /\ ~AtWork'
        BY <1>8 DEF AtWork, Inside
    <2>2. \A n \in pending : n # n0 => IF n \notin rest THEN Done(n) ELSE Untouched(n)
        BY <1>1, <1>3 DEF TallyInv, SegmentInv, n0
    <2>3. \A n \in pending : IF n \notin rest' THEN Done(n)' ELSE Untouched(n)'
        BY <1>2, <1>5, <1>6, <1>7, <1>10, <2>1, <2>2 DEF Done, Untouched
    <2> QED BY <1>8, <2>1, <2>3 DEF SegmentInv
<1>14. TallyInv'
    <2>1. n0 \notin left /\ n0 \in pending
        BY <1>3
    <2>2. /\ left \cap pending = {}
          /\ \A n \in left : IF BinaryOf[n] \in validated THEN Untouched(n) ELSE Done(n)
          /\ \A n \in Nodes : n \notin left \cup pending => Recorded(n)
          /\ pending # {} /\ \A n \in pending : BinaryOf[n] = here
        BY <1>1 DEF TallyInv
    <2>3. /\ \A n \in left : IF BinaryOf[n] \in validated THEN Untouched(n)' ELSE Done(n)'
          /\ \A n \in Nodes : n \notin left \cup pending => Recorded(n)'
        BY <1>1, <1>6, <1>7, <1>8, <1>10, <2>1, <2>2 DEF OwnType, Untouched, Done, Recorded
    <2> QED BY <1>8, <1>9, <1>13, <2>2, <2>3 DEF TallyInv, Live, Inside
<1>15. JobsInv'
    BY <1>1, <1>6, <1>8, <1>9, <1>10 DEF JobsInv, InSegment, Live, Failing, OwnType
<1>16. BlamedInv'
    <2> SUFFICES ASSUME opc' = "between" PROVE BlamedInv'
        BY <1>9 DEF BlamedInv, Live
    <2>1. before <= failed /\ before \in Nat /\ failed \in Nat
        BY <1>1 DEF JobsInv, OwnType
    <2>2. \A n \in Nodes : state'[n] \in Bad => state[n] \in Bad \/ (BinaryOf[n] = here /\ failed' > before)
        BY <1>3, <1>6, <1>9, <1>10, <2>1 DEF Bad
    <2>3. \A t \in Tasks : state[t] \in Bad => state'[t] \in Bad
        BY <1>4, <1>6 DEF Bad
    <2>4. failed' > 0 => failed > 0 \/ state'[n0] \in Bad
        BY <1>6, <1>8, <2>1 DEF Bad
    <2>5. \A b \in Binaries : state'[b] = state[b]
        BY <1>6, <1>10
    <2>6. BinaryOf \in [Nodes -> Binaries]
        BY BinaryAssumption
    <2>7. \A n \in Nodes : state'[n] \in Bad =>
              \/ BinaryOf[n] \notin validated \/ BinaryOf[n] \in failedJobs \/ state'[BinaryOf[n]] = "FAILED"
              \/ BinaryOf[n] = here /\ failed' > before
        BY <1>1, <1>9, <2>1, <2>2, <2>5, <2>6 DEF BlamedInv
    <2>8. \A b \in unclosed : b \in failedJobs \/ state'[b] = "FAILED"
        BY <1>1, <2>5 DEF BlamedInv, OwnType, Inside
    <2>9. failed' > 0 => failedJobs # {} \/ \E t \in Tasks : state'[t] \in Bad
        BY <1>1, <1>6, <2>3, <2>4 DEF BlamedInv
    <2> QED BY <1>8, <2>7, <2>8, <2>9 DEF BlamedInv
<1>17. VerdictInv'
    <2>1. verdict = "none" /\ verdict' = "none"
        BY <1>1, <1>8 DEF VerdictInv, Live
    <2>2. \A b \in Binaries : state'[b] = "SUCCEEDED" => b \notin unclosed' /\ \A n \in NodesOf(b) : Fine(n)'
        <3> SUFFICES ASSUME NEW b \in Binaries, state[b] = "SUCCEEDED" PROVE b \notin unclosed /\ \A n \in NodesOf(b) : Fine(n)'
            BY <1>6, <1>8, <1>10
        <3>1. b \notin unclosed /\ \A n \in NodesOf(b) : Fine(n) /\ n \in Nodes
            BY <1>1, PlanShape DEF VerdictInv, VerdictHonest
        <3>2. \A n \in NodesOf(b) : n # n0
            BY <1>4, <3>1 DEF Fine
        <3> QED BY <1>6, <1>10, <3>1, <3>2 DEF Fine
    <2> QED BY <1>9, <2>1, <2>2 DEF VerdictInv, VerdictHonest
<1> QED BY <1>8, <1>11, <1>12, <1>14, <1>15, <1>16, <1>17 DEF OwnInv, PlanInv

\* A job that is reported to have succeeded stays without blame as long as no node that ended
\* well changes.
LEMMA StaysHonest ==
    ASSUME VerdictHonest,
           \A b \in Binaries : state'[b] = state[b] \/ state'[b] # "SUCCEEDED",
           \A n \in Nodes : Fine(n) => state'[n] = state[n],
           \A b \in unclosed' : b \in unclosed \/ state'[b] # "SUCCEEDED"
    PROVE  \A b \in Binaries : state'[b] = "SUCCEEDED" => b \notin unclosed' /\ \A n \in NodesOf(b) : Fine(n)'
<1> SUFFICES ASSUME NEW b \in Binaries, state'[b] = "SUCCEEDED"
             PROVE  b \notin unclosed' /\ \A n \in NodesOf(b) : Fine(n)'
    OBVIOUS
<1>1. b \notin unclosed /\ \A n \in NodesOf(b) : Fine(n) /\ n \in Nodes
    BY PlanShape DEF VerdictHonest
<1> QED BY <1>1 DEF Fine

\* The first node of rest begins, or is skipped at once.
LEMMA StartNodePreserves ==
    ASSUME OwnInv, driver # "bare", StartNode
    PROVE  OwnInv'
<1> DEFINE n0 == First(rest)
<1>1. /\ opc = "node" /\ UNCHANGED <<planVars, segVars>> /\ ~AtWork
      /\ TallyInv /\ JobsInv /\ BlamedInv /\ DriverInv /\ VerdictInv /\ OwnType
    BY DEF OwnInv, PlanInv, StartNode, AtWork
<1>2. CASE NodeEnds("SKIPPED")
    BY <1>1, <1>2, NodeEndsPreserves DEF Inside, Live
<1>3. CASE ~NodeEnds("SKIPPED")
    <2>1. /\ opc' \in {"inspectIn", "preprocess"}
          /\ state' = Emit(state, {n0}, "RUNNING")
          /\ UNCHANGED <<nodeVars, counted, failed, broken, failedJobs, unclosed, verdict>>
        BY <1>3 DEF StartNode
    <2>2. n0 \in rest /\ n0 \in pending /\ n0 \in Nodes /\ n0 \notin left
        BY <1>1, FirstIn DEF TallyInv, OwnType, Inside, Live
    <2>3. \A n \in pending : IF n \notin rest THEN Done(n) ELSE Untouched(n)
        BY <1>1 DEF TallyInv, SegmentInv, Inside, Live
    <2>4. /\ state' \in [Tasks -> Status] /\ state[n0] = "PENDING" /\ state'[n0] = "RUNNING"
          /\ \A t \in Tasks : t # n0 => state'[t] = state[t]
        BY <1>1, <2>1, <2>2, <2>3, Emitted, PlanShape DEF OwnType, Untouched, Status
    <2>5. here \in Tasks /\ here # n0 /\ (\A b \in Binaries : b \in Tasks /\ b # n0) /\ (\A n \in Nodes : n \in Tasks)
        BY <1>1, <2>2, PlanShape DEF OwnType
    <2>6. AtWork' /\ opc \in Live /\ opc \in Inside /\ opc' \in Live /\ opc' \in Inside
        BY <1>1, <2>1 DEF AtWork, Inside, Live
    <2>7. n0 = First(rest')
        BY <2>1 DEF nodeVars
    <2> HIDE DEF n0
    <2> USE DEF planVars, segVars, nodeVars
    <2>8. OwnType' /\ DriverInv'
        BY <1>1, <2>1, <2>4 DEF OwnType, DriverInv, Live
    <2>9. SegmentInv'
        <3>1. \A n \in pending :
                 IF n \notin rest THEN Done(n)' ELSE IF n = n0 THEN Running(n)' ELSE Untouched(n)'
            BY <1>1, <2>1, <2>2, <2>3, <2>4, <2>5 DEF OwnType, Done, Running, Untouched
        <3> QED BY <1>1, <2>1, <2>6, <2>7, <3>1 DEF SegmentInv
    <2>10. TallyInv'
        <3>1. /\ \A n \in left : IF BinaryOf[n] \in validated THEN Untouched(n)' ELSE Done(n)'
              /\ \A n \in Nodes : n \notin left \cup pending => Recorded(n)'
            BY <1>1, <2>1, <2>2, <2>4, <2>5, <2>6 DEF TallyInv, OwnType, Untouched, Done, Recorded
        <3> QED BY <1>1, <2>1, <2>2, <2>6, <2>9, <3>1 DEF TallyInv, Inside, Live
    <2>11. JobsInv'
        BY <1>1, <2>1, <2>4, <2>5, <2>6 DEF JobsInv, InSegment, Live, OwnType
    <2>12. BlamedInv'
        <3>1. \A t \in Tasks : state'[t] \in Bad <=> state[t] \in Bad
            BY <2>4 DEF Bad
        <3>2. \A n \in Nodes : state'[BinaryOf[n]] = state[BinaryOf[n]]
            BY <2>4, <2>5, PlanShape
        <3> QED BY <1>1, <2>1, <2>4, <2>5, <2>6, <3>1, <3>2 DEF BlamedInv, OwnType, Inside
    <2>13. VerdictInv'
        <3>1. \A n \in Nodes : Fine(n) => state'[n] = state[n]
            BY <2>4, <2>5 DEF Fine
        <3>2. \A b \in Binaries : state'[b] = "SUCCEEDED" => b \notin unclosed' /\ \A n \in NodesOf(b) : Fine(n)'
            BY <1>1, <2>1, <2>4, <2>5, <3>1, StaysHonest DEF VerdictInv
        <3> QED BY <1>1, <2>1, <3>2 DEF VerdictInv, VerdictHonest
    <2> QED BY <1>1, <2>1, <2>8, <2>10, <2>11, <2>12, <2>13 DEF OwnInv, PlanInv
<1> QED BY <1>2, <1>3

\* What recording the nodes ns of the segment does, from the steps that record them.
LEMMA Recording ==
    ASSUME OwnInv, NEW ns, ns \subseteq pending, RecordFailures(ns),
           \A n \in ns : counted[n] \in {0, 1}
    PROVE  /\ state' \in [Tasks -> Status] /\ counted' \in [Nodes -> 0 .. 2]
           /\ \A t \in Tasks : t \notin ns \/ state[t] \in Terminal => state'[t] = state[t]
           /\ \A n \in ns : state[n] = "PENDING" => state'[n] = "ABORTED"
           /\ \A n \in Nodes : counted'[n] = IF n \in ns THEN counted[n] + 1 ELSE counted[n]
           /\ \A t \in Tasks : state'[t] \in {state[t], "ABORTED"}
           /\ \A b \in Binaries : b \in Tasks /\ state'[b] = state[b]
           /\ failed' \in Nat /\ failed' >= failed /\ (ns # {} => failed' > failed) /\ (ns = {} => failed' = failed)
<1>1. ns \subseteq Nodes /\ OwnType
    BY DEF OwnInv, OwnType
<1>2. "ABORTED" \in Status /\ state' = Emit(state, ns, "ABORTED")
    BY DEF RecordFailures, Status, Terminal
<1>3. /\ state' \in [Tasks -> Status]
      /\ \A t \in Tasks : state'[t] \in {state[t], "ABORTED"}
      /\ \A t \in Tasks : t \notin ns \/ state[t] \in Terminal => state'[t] = state[t]
      /\ \A t \in Tasks : t \in ns /\ state[t] = "PENDING" => state'[t] = "ABORTED"
    BY <1>1, <1>2, Emitted DEF OwnType
<1>4. \A n \in Nodes : counted'[n] = IF n \in ns THEN counted[n] + 1 ELSE counted[n]
    BY <1>1 DEF RecordFailures, Count, OwnType
<1>5. counted' \in [Nodes -> 0 .. 2]
    <2>1. counted' = [n \in Nodes |-> counted[n] + IF n \in ns THEN 1 ELSE 0] /\ counted \in [Nodes -> 0 .. 2]
        BY <1>1 DEF RecordFailures, Count, OwnType
    <2> QED BY <2>1
<1>6. /\ Cardinality(ns) \in Nat /\ (Cardinality(ns) > 0 <=> ns # {})
      /\ failed' = failed + Cardinality(ns) /\ failed \in Nat
    BY <1>1, CountSome DEF RecordFailures, OwnType
<1>7. failed' \in Nat /\ failed' >= failed /\ (ns # {} => failed' > failed) /\ (ns = {} => failed' = failed)
    BY <1>6
<1> QED BY <1>1, <1>3, <1>4, <1>5, <1>7, PlanShape

\* No worker for the next node, or for the rest of this one.
LEMMA EnsureFailedPreserves ==
    ASSUME OwnInv, driver # "bare", EnsureFailed
    PROVE  OwnInv'
<1>1. /\ opc = "ensuring" /\ UNCHANGED <<planVars, segVars>>
      /\ TallyInv /\ JobsInv /\ BlamedInv /\ DriverInv /\ VerdictInv /\ OwnType
    BY DEF OwnInv, PlanInv, EnsureFailed
<1>2. back # "close"
    BY <1>1 DEF DriverInv
<1>3. opc \in Inside \ {"entering", "between"} /\ opc \in Live /\ opc \in Inside
    BY <1>1 DEF Inside, Live
<1>4. CASE back # "node"
    BY <1>1, <1>2, <1>3, <1>4, NodeEndsPreserves DEF EnsureFailed, AtWork
<1>5. CASE back = "node"
    <2>1. /\ RecordFailures(rest) /\ broken' = TRUE
          /\ opc' \in {"leave", "unwind"}
          /\ UNCHANGED <<nodeVars, failedJobs, unclosed, verdict>>
        BY <1>5 DEF EnsureFailed
    <2>2. /\ rest # {} /\ rest \subseteq pending /\ pending \subseteq Nodes /\ left \cap pending = {}
          /\ \A n \in pending : BinaryOf[n] = here
        BY <1>1, <1>3 DEF TallyInv, OwnType
    <2>3. \A n \in pending : IF n \notin rest THEN Done(n) ELSE Untouched(n)
        BY <1>1, <1>3, <1>5 DEF TallyInv, SegmentInv, AtWork
    <2>4. /\ state' \in [Tasks -> Status] /\ counted' \in [Nodes -> 0 .. 2]
          /\ \A t \in Tasks : t \notin rest \/ state[t] \in Terminal => state'[t] = state[t]
          /\ \A n \in rest : state'[n] = "ABORTED"
          /\ \A n \in Nodes : counted'[n] = IF n \in rest THEN counted[n] + 1 ELSE counted[n]
          /\ \A t \in Tasks : state'[t] \in {state[t], "ABORTED"}
          /\ \A b \in Binaries : b \in Tasks /\ state'[b] = state[b]
          /\ failed' \in Nat /\ failed' > failed
        BY <2>1, <2>2, <2>3, Recording DEF Untouched
    <2> USE DEF planVars, segVars, nodeVars
    <2>5. OwnType' /\ DriverInv'
        BY <1>1, <2>1, <2>4 DEF OwnType, DriverInv, Live, Failing
    <2>6. \A n \in pending : Done(n)'
        BY <1>1, <2>2, <2>3, <2>4, PlanShape DEF Done, Untouched, OwnType, Terminal
    <2>7. TallyInv'
        <3>1. SegmentInv'
            BY <1>1, <2>1, <2>6 DEF SegmentInv, Inside, Live
        <3>2. /\ \A n \in left : IF BinaryOf[n] \in validated THEN Untouched(n)' ELSE Done(n)'
              /\ \A n \in Nodes : n \notin left \cup pending => Recorded(n)'
            BY <1>1, <1>3, <2>1, <2>2, <2>4, PlanShape DEF TallyInv, OwnType, Untouched, Done, Recorded
        <3> QED BY <1>1, <1>3, <2>1, <2>2, <3>1, <3>2 DEF TallyInv, Inside, Live
    <2>8. JobsInv'
        BY <1>1, <1>3, <2>1, <2>4 DEF JobsInv, InSegment, Live, Failing, OwnType
    <2>9. BlamedInv'
        <3>1. failed' > before
            BY <1>1, <1>3, <2>4 DEF JobsInv, InSegment, OwnType
        <3>2. \A n \in Nodes : state'[n] \in Bad => state[n] \in Bad \/ BinaryOf[n] = here
            BY <2>2, <2>4, PlanShape
        <3>3. \E t \in Tasks : state'[t] \in Bad
            BY <2>2, <2>4, PlanShape DEF Bad
        <3>4. \A n \in Nodes : state'[BinaryOf[n]] = state[BinaryOf[n]]
            BY <2>4, PlanShape
        <3>5. \A b \in unclosed : b \in failedJobs \/ state'[b] = "FAILED"
            BY <1>1, <1>3, <2>4 DEF BlamedInv, OwnType
        <3> QED BY <1>1, <1>3, <2>1, <3>1, <3>2, <3>3, <3>4, <3>5 DEF BlamedInv
    <2>10. VerdictInv'
        <3>1. \A n \in Nodes : Fine(n) => state'[n] = state[n]
            BY <2>4, PlanShape DEF Fine, Terminal
        <3>2. \A b \in Binaries : state'[b] = "SUCCEEDED" => b \notin unclosed' /\ \A n \in NodesOf(b) : Fine(n)'
            BY <1>1, <2>1, <2>4, <3>1, StaysHonest DEF VerdictInv
        <3> QED BY <1>1, <2>1, <3>2 DEF VerdictInv, VerdictHonest
    <2> QED BY <1>1, <2>1, <2>5, <2>7, <2>8, <2>9, <2>10 DEF OwnInv, PlanInv
<1> QED BY <1>4, <1>5

\* The error of the with block itself is recorded, for nodes that may have ended already.
LEMMA HandlerPreserves ==
    ASSUME OwnInv, driver # "bare", Handler
    PROVE  OwnInv'
<1> DEFINE ns == IF driver = "full" THEN pending ELSE rest
<1>1. /\ opc = "handler" /\ UNCHANGED <<planVars, segVars, nodeVars, failedJobs, unclosed, verdict>>
      /\ TallyInv /\ JobsInv /\ BlamedInv /\ DriverInv /\ VerdictInv /\ OwnType
      /\ RecordFailures(ns) /\ broken' = TRUE /\ opc' \in {"segmentEnd", "abort"}
    BY DEF OwnInv, PlanInv, Handler
<1>2. opc \in Live /\ opc \in InSegment
    BY <1>1 DEF Live, InSegment
<1>3. /\ ns \subseteq pending /\ pending \subseteq Nodes /\ left \cap pending = {} /\ pending # {}
      /\ \A n \in pending : BinaryOf[n] = here
    BY <1>1, <1>2 DEF TallyInv, OwnType
<1>4. \/ pending = rest /\ \A n \in pending : Untouched(n)
      \/ here \in unclosed /\ \A n \in pending : Done(n)
    BY <1>1, <1>2 DEF TallyInv, SegmentInv
<1>5. /\ state' \in [Tasks -> Status] /\ counted' \in [Nodes -> 0 .. 2]
      /\ \A t \in Tasks : t \notin ns \/ state[t] \in Terminal => state'[t] = state[t]
      /\ \A n \in ns : state[n] = "PENDING" => state'[n] = "ABORTED"
      /\ \A n \in Nodes : counted'[n] = IF n \in ns THEN counted[n] + 1 ELSE counted[n]
      /\ \A t \in Tasks : state'[t] \in {state[t], "ABORTED"}
      /\ \A b \in Binaries : b \in Tasks /\ state'[b] = state[b]
      /\ failed' \in Nat /\ failed' >= failed /\ (ns # {} => failed' > failed) /\ (ns = {} => failed' = failed)
    <2>1. \A n \in ns : counted[n] \in {0, 1}
        BY <1>3, <1>4 DEF Untouched, Done
    <2> HIDE DEF ns
    <2> QED BY <1>1, <1>3, <2>1, Recording
<1>6. ns = {} => driver = "selected"
    BY <1>1, <1>3, DriverAssumption DEF OwnType
<1>7. pending = rest => ns = pending
    OBVIOUS
<1> HIDE DEF ns
<1> USE DEF planVars, segVars, nodeVars
<1>8. OwnType' /\ DriverInv'
    BY <1>1, <1>5 DEF OwnType, DriverInv, Live
<1>9. \A n \in pending : Recorded(n)'
    <2>1. CASE pending = rest /\ \A n \in pending : Untouched(n)
        BY <1>1, <1>3, <1>5, <1>7, <2>1, PlanShape DEF Untouched, Recorded, Done, Terminal, OwnType
    <2>2. CASE here \in unclosed /\ \A n \in pending : Done(n)
        BY <1>1, <1>3, <1>5, <2>2, PlanShape DEF Recorded, Done, OwnType
    <2> QED BY <1>4, <2>1, <2>2
<1>10. TallyInv'
    <2>1. SegmentInv'
        BY <1>1, <1>9 DEF SegmentInv, Inside, Live
    <2>2. /\ \A n \in left : IF BinaryOf[n] \in validated THEN Untouched(n)' ELSE Done(n)'
          /\ \A n \in Nodes : n \notin left \cup pending => Recorded(n)'
        BY <1>1, <1>2, <1>3, <1>5, PlanShape DEF TallyInv, OwnType, Untouched, Done, Recorded
    <2> QED BY <1>1, <1>2, <1>3, <2>1, <2>2 DEF TallyInv, Inside, Live
<1>11. JobsInv'
    BY <1>1, <1>2, <1>5 DEF JobsInv, InSegment, Live, Failing, OwnType
<1>12. BlamedInv'
    <2> SUFFICES ASSUME opc' = "segmentEnd" PROVE BlamedInv'
        BY <1>1 DEF BlamedInv, Live
    <2>1. before <= failed /\ before \in Nat /\ failed \in Nat
        BY <1>1, <1>2 DEF JobsInv, OwnType
    <2>2. SegmentFailed'
        BY <1>1, <1>5, <1>6, <2>1 DEF SegmentFailed
    <2>3. \A n \in Nodes : state'[n] \in Bad => state[n] \in Bad \/ (BinaryOf[n] = here /\ failed' > before)
        BY <1>3, <1>5, <2>1, PlanShape
    <2>4. \A t \in Tasks : state[t] \in Bad => state'[t] \in Bad
        BY <1>5 DEF Bad
    <2>5. \A n \in Nodes : state'[BinaryOf[n]] = state[BinaryOf[n]]
        BY <1>5, PlanShape
    <2>6. \A n \in Nodes : state'[n] \in Bad =>
              \/ BinaryOf[n] \notin validated \/ BinaryOf[n] \in failedJobs \/ state'[BinaryOf[n]] = "FAILED"
              \/ BinaryOf[n] = here /\ failed' > before
        BY <1>1, <1>2, <1>5, <2>1, <2>3, <2>5 DEF BlamedInv
    <2>7. \A b \in unclosed : b \in failedJobs \/ state'[b] = "FAILED" \/ b = here
        BY <1>1, <1>2, <1>5 DEF BlamedInv, OwnType
    <2>8. failed' > 0 => failedJobs # {} \/ (\E t \in Tasks : state'[t] \in Bad) \/ failed' > before
        <3>1. failed > 0 => failedJobs # {} \/ \E t \in Tasks : state'[t] \in Bad
            BY <1>1, <1>2, <2>4 DEF BlamedInv
        <3> QED BY <1>5, <2>1, <3>1
    <2> QED BY <1>1, <2>2, <2>6, <2>7, <2>8 DEF BlamedInv
<1>13. VerdictInv'
    <2>1. \A n \in Nodes : Fine(n) => state'[n] = state[n]
        BY <1>5, PlanShape DEF Fine, Terminal
    <2>2. \A b \in Binaries : state'[b] = "SUCCEEDED" => b \notin unclosed' /\ \A n \in NodesOf(b) : Fine(n)'
        BY <1>1, <1>5, <2>1, StaysHonest DEF VerdictInv
    <2>3. here \in Binaries /\ state'[here] = "RUNNING"
        BY <1>1, <1>2, <1>5 DEF OwnType, JobsInv
    <2> QED BY <1>1, <2>2, <2>3 DEF VerdictInv, VerdictHonest
<1> QED BY <1>1, <1>8, <1>10, <1>11, <1>12, <1>13 DEF OwnInv, PlanInv

\* The end of the with block.
LEMMA LeftPreserves ==
    ASSUME OwnInv, driver # "bare", Left, answer \in {"ok", "lifecycle", "raise"}
    PROVE  OwnInv'
<1>1. /\ opc \in {"leaving", "unwinding"} /\ (opc = "leaving" \/ opc' = "abort")
      /\ opc' \in {"segmentEnd", "handler", "abort"}
      /\ unclosed' = IF answer = "ok" THEN unclosed ELSE unclosed \cup {here}
      /\ opc' = "handler" => here \in unclosed'
      /\ opc' = "segmentEnd" => unclosed' = unclosed
      /\ rt' = 0 /\ back' = "node"
      /\ UNCHANGED <<planVars, segVars, rest, state, counted, failed, broken, failedJobs, verdict>>
      /\ TallyInv /\ JobsInv /\ BlamedInv /\ DriverInv /\ VerdictInv /\ OwnType
    BY DEF OwnInv, PlanInv, Left
<1>2. opc \in InSegment /\ (opc = "leaving" => opc \in Live)
    BY <1>1 DEF Live, InSegment, Failing
<1> USE DEF planVars, segVars
<1>3. OwnType' /\ DriverInv'
    BY <1>1 DEF OwnType, DriverInv, Live
<1>4. TallyInv'
    <2>1. SegmentInv' \/ opc' = "abort"
        BY <1>1, <1>2 DEF TallyInv, SegmentInv, Recorded, Done, Inside, Live
    <2>2. opc = "leaving" => \A n \in Nodes : n \notin left \cup pending => Recorded(n)'
        BY <1>1, <1>2 DEF TallyInv, Recorded, Done
    <2> QED BY <1>1, <1>2, <2>1, <2>2 DEF TallyInv, Untouched, Done, Inside, Live
<1>5. JobsInv'
    BY <1>1, <1>2 DEF JobsInv, InSegment, Live, Failing
<1>6. BlamedInv'
    BY <1>1, <1>2 DEF BlamedInv, Live
<1>7. VerdictInv'
    <2>1. here \in Binaries /\ state[here] = "RUNNING"
        BY <1>1, <1>2 DEF OwnType, JobsInv
    <2>2. \A b \in Binaries : state'[b] = "SUCCEEDED" => b \notin unclosed' /\ \A n \in NodesOf(b) : Fine(n)'
        BY <1>1, <2>1, StaysHonest DEF VerdictInv, Fine
    <2> QED BY <1>1, <2>1, <2>2 DEF VerdictInv, VerdictHonest
<1> QED BY <1>1, <1>3, <1>4, <1>5, <1>6, <1>7 DEF OwnInv, PlanInv

\* The nodes of a binary that was not validated were recorded when its validation failed.
LEMMA PassOverPreserves ==
    ASSUME OwnInv, driver # "bare", PassOver
    PROVE  OwnInv'
<1>1. /\ opc = "segment" /\ left # {} /\ BinaryOf[First(left)] \notin validated
      /\ left' = left \ NextSegment
      /\ UNCHANGED <<planVars, opc, here, pending, before, nodeVars, sumVars>>
      /\ TallyInv /\ JobsInv /\ BlamedInv /\ DriverInv /\ VerdictInv /\ OwnType
    BY DEF OwnInv, PlanInv, PassOver
<1>2. \A n \in NextSegment : n \in left /\ BinaryOf[n] \notin validated
    BY <1>1, SegmentShape DEF OwnType
<1>3. left' \subseteq left /\ \A n \in left : n \notin left' => n \in NextSegment
    BY <1>1
<1> HIDE DEF NextSegment
<1> USE DEF planVars, nodeVars, sumVars
<1>4. OwnType' /\ DriverInv'
    BY <1>1, <1>3 DEF OwnType, DriverInv
<1>5. TallyInv'
    <2>1. SegmentInv'
        BY <1>1 DEF TallyInv, SegmentInv, Recorded, Done, Inside, Live
    <2>2. \A n \in Nodes : n \notin left' \cup pending => Recorded(n)'
        BY <1>1, <1>2, <1>3 DEF TallyInv, Recorded, Done, Live
    <2> QED BY <1>1, <1>3, <2>1, <2>2 DEF TallyInv, Untouched, Done, Inside, Live
<1>6. JobsInv'
    <2>1. \A b \in validated : NodesOf(b) \subseteq left => NodesOf(b) \subseteq left'
        BY <1>1, <1>2, <1>3, PlanShape DEF OwnType
    <2> QED BY <1>1, <1>3, <2>1 DEF JobsInv, InSegment, Live, Failing
<1>7. BlamedInv' /\ VerdictInv'
    BY <1>1 DEF BlamedInv, VerdictInv, VerdictHonest, Fine, SegmentFailed, Live
<1> QED BY <1>1, <1>4, <1>5, <1>6, <1>7 DEF OwnInv, PlanInv

\* A new segment: some of its nodes are skipped, the others wait.
LEMMA StartSegmentPreserves ==
    ASSUME OwnInv, driver # "bare", StartSegment
    PROVE  OwnInv'
<1>1. PICK existing \in SUBSET NextSegment :
          /\ pending' = NextSegment \ existing /\ rest' = pending'
          /\ state' = Emit(state, existing, "SKIPPED") /\ Count(existing)
    BY DEF StartSegment
<1>2. /\ opc = "segment" /\ left # {} /\ BinaryOf[First(left)] \in validated
      /\ left' = left \ NextSegment /\ here' = BinaryOf[First(left)]
      /\ before' = failed /\ broken' = FALSE
      /\ opc' = IF pending' = {} THEN "segmentEnd" ELSE "entering"
      /\ UNCHANGED <<planVars, back, rt, failed, failedJobs, unclosed, verdict>>
      /\ TallyInv /\ JobsInv /\ BlamedInv /\ DriverInv /\ VerdictInv /\ OwnType
    BY DEF OwnInv, PlanInv, StartSegment
<1>3. /\ NextSegment \subseteq left /\ left \subseteq Nodes /\ left \cap pending = {} /\ First(left) \in left
      /\ \A n \in NextSegment : BinaryOf[n] = here'
      /\ driver = "full" => \A n \in left' : BinaryOf[n] # here'
    BY <1>2, SegmentShape DEF OwnType, TallyInv, Live
<1> DEFINE next == NextSegment
<1>4. left' = left \ next /\ next \subseteq left /\ existing \subseteq next /\ pending' = next \ existing
    BY <1>1, <1>2, <1>3
<1>5. \A n \in next : n \in Nodes /\ n \in Tasks /\ BinaryOf[n] = here' /\ Untouched(n)
    BY <1>2, <1>3, PlanShape DEF TallyInv, Live
<1> HIDE DEF next
<1>6. /\ state' \in [Tasks -> Status]
      /\ \A t \in Tasks : t \notin existing => state'[t] = state[t]
      /\ \A n \in existing : state'[n] = "SKIPPED"
    <2>1. "SKIPPED" \in Status
        BY DEF Status, Terminal
    <2> QED BY <1>1, <1>2, <1>4, <1>5, <2>1, Emitted DEF OwnType, Untouched
<1>7. /\ counted' \in [Nodes -> 0 .. 2]
      /\ \A n \in Nodes : counted'[n] = IF n \in existing THEN 1 ELSE counted[n]
    <2>1. /\ counted' = [n \in Nodes |-> counted[n] + IF n \in existing THEN 1 ELSE 0]
          /\ counted \in [Nodes -> 0 .. 2]
        BY <1>1, <1>2 DEF Count, OwnType
    <2> QED BY <1>4, <1>5, <2>1 DEF Untouched
<1>8. \A b \in Binaries : b \in Tasks /\ b \notin existing /\ state'[b] = state[b]
    BY <1>4, <1>5, <1>6, PlanShape
<1>9. opc' \in {"segmentEnd", "entering"} /\ opc' \in Live /\ opc' \in InSegment /\ opc' # "segment" /\ opc \in Live
    BY <1>2 DEF Live, InSegment
<1>10. here' \in validated /\ here' \in Binaries /\ state[here'] = "RUNNING"
    BY <1>2, <1>3, <1>9 DEF OwnType, JobsInv
<1> USE DEF planVars
<1>11. OwnType' /\ DriverInv'
    BY <1>1, <1>2, <1>3, <1>4, <1>5, <1>6, <1>7, <1>9, <1>10 DEF OwnType, DriverInv
<1>12. TallyInv'
    <2>1. \A n \in pending' : Untouched(n)'
        BY <1>4, <1>5, <1>6, <1>7 DEF Untouched
    <2>2. \A n \in Nodes : n \notin left' \cup pending' => Recorded(n)'
        <3> SUFFICES ASSUME NEW n \in Nodes, n \notin left' \cup pending' PROVE Recorded(n)'
            OBVIOUS
        <3>1. CASE n \in existing
            BY <1>6, <1>7, <3>1 DEF Recorded, Done, Terminal
        <3>2. CASE n \notin existing
            <4>1. n \notin left
                BY <1>4, <3>2
            <4>2. Recorded(n)
                BY <1>2, <1>9, <4>1 DEF TallyInv, SegmentInv
            <4> QED BY <1>2, <1>6, <1>7, <3>2, <4>2, PlanShape DEF Recorded, Done
        <3> QED BY <3>1, <3>2
    <2>3. \A n \in left' : IF BinaryOf[n] \in validated THEN Untouched(n)' ELSE Done(n)'
        BY <1>2, <1>3, <1>4, <1>6, <1>7, <1>9, PlanShape DEF TallyInv, Untouched, Done
    <2>4. ~AtWork'
        BY <1>9 DEF AtWork, Inside
    <2>5. SegmentInv'
        BY <1>1, <1>2, <2>1, <2>4 DEF SegmentInv, Inside, Live
    <2> QED BY <1>1, <1>2, <1>4, <1>5, <1>9, <2>1, <2>2, <2>3, <2>5 DEF TallyInv, Inside, Live
<1>13. JobsInv'
    <2>1. \A b \in validated : b # here' /\ NodesOf(b) \subseteq left => NodesOf(b) \subseteq left'
        BY <1>2, <1>4, <1>5, PlanShape DEF OwnType
    <2>2. before' <= failed'
        BY <1>2 DEF OwnType
    <2>3. \A n \in left' : BinaryOf[n] \in validated => state'[BinaryOf[n]] = "RUNNING"
        BY <1>2, <1>3, <1>4, <1>8, <1>9, PlanShape DEF JobsInv
    <2> QED BY <1>2, <1>3, <1>8, <1>9, <1>10, <2>1, <2>2, <2>3 DEF JobsInv, OwnType
<1>14. BlamedInv'
    <2>1. \A t \in Tasks : state'[t] \in Bad => state[t] \in Bad
        BY <1>6, <1>4, <1>5 DEF Bad
    <2>2. \A t \in Tasks : state[t] \in Bad => state'[t] \in Bad
        BY <1>6, <1>4, <1>5 DEF Bad, Untouched
    <2>3. \A n \in Nodes : n \in Tasks /\ BinaryOf[n] \in Binaries
        BY PlanShape
    <2>4. \A n \in Nodes : state'[n] \in Bad =>
              BinaryOf[n] \notin validated \/ BinaryOf[n] \in failedJobs \/ state'[BinaryOf[n]] = "FAILED"
        BY <1>2, <1>8, <1>9, <2>1, <2>3 DEF BlamedInv
    <2>5. \A b \in unclosed : b \in failedJobs \/ state'[b] = "FAILED"
        BY <1>2, <1>8, <1>9 DEF BlamedInv, OwnType
    <2>6. failed > 0 => failedJobs # {} \/ \E t \in Tasks : state'[t] \in Bad
        BY <1>2, <1>9, <2>2 DEF BlamedInv
    <2> QED BY <1>2, <2>4, <2>5, <2>6 DEF BlamedInv
<1>15. VerdictInv'
    <2>1. \A n \in Nodes : Fine(n) => state'[n] = state[n]
        BY <1>5, <1>4, <1>6, PlanShape DEF Fine, Untouched
    <2>2. \A b \in Binaries : state'[b] = "SUCCEEDED" => b \notin unclosed' /\ \A n \in NodesOf(b) : Fine(n)'
        BY <1>2, <1>8, <2>1, StaysHonest DEF VerdictInv
    <2> QED BY <1>2, <1>9, <2>2 DEF VerdictInv, VerdictHonest
<1> QED BY <1>2, <1>11, <1>12, <1>13, <1>14, <1>15 DEF OwnInv, PlanInv

\* The end of a segment: its job is judged, at once or by what it leaves in failedJobs.
LEMMA SegmentEndPreserves ==
    ASSUME OwnInv, driver # "bare", SegmentEnd
    PROVE  OwnInv'
<1>1. /\ opc = "segmentEnd" /\ opc' = "segment"
      /\ failedJobs' = IF driver = "selected" /\ SegmentFailed THEN failedJobs \cup {here} ELSE failedJobs
      /\ state' = IF driver = "selected" THEN state
                  ELSE Emit(state, {here}, IF SegmentFailed THEN "FAILED" ELSE "SUCCEEDED")
      /\ UNCHANGED <<planVars, segVars, nodeVars, counted, failed, broken, unclosed, verdict>>
      /\ TallyInv /\ JobsInv /\ BlamedInv /\ DriverInv /\ VerdictInv /\ OwnType
    BY DEF OwnInv, PlanInv, SegmentEnd
<1>2. opc \in Live /\ opc \in InSegment /\ opc' \in Live /\ opc' \notin InSegment
    BY <1>1 DEF Live, InSegment, Failing
<1>3. driver \in {"full", "selected"}
    BY <1>1, DriverAssumption DEF OwnType
<1>4. /\ here \in validated /\ here \in Binaries /\ here \in Tasks /\ state[here] = "RUNNING"
      /\ before <= failed /\ before \in Nat /\ failed \in Nat
    BY <1>1, <1>2, PlanShape DEF OwnType, JobsInv
<1>5. /\ state' \in [Tasks -> Status]
      /\ \A t \in Tasks : t # here => state'[t] = state[t]
      /\ driver = "full" => state'[here] = IF failed > before THEN "FAILED" ELSE "SUCCEEDED"
      /\ driver = "selected" => state' = state
    <2>1. CASE driver = "selected"
        BY <1>1, <2>1 DEF OwnType
    <2>2. CASE driver = "full"
        <3>1. SegmentFailed <=> failed > before
            BY <2>2 DEF SegmentFailed
        <3>2. {"FAILED", "SUCCEEDED"} \subseteq Status /\ {"FAILED", "SUCCEEDED"} \subseteq Terminal
            BY DEF Status, Terminal
        <3> QED BY <1>1, <1>4, <2>2, <3>1, <3>2, Emitted DEF OwnType
    <2> QED BY <1>3, <2>1, <2>2
<1>6. \A n \in Nodes : n \in Tasks /\ n # here /\ state'[n] = state[n] /\ BinaryOf[n] \in Binaries
    BY <1>4, <1>5, PlanShape
<1>7. failedJobs \subseteq failedJobs' /\ failedJobs' \subseteq failedJobs \cup {here}
      /\ (driver = "full" => failedJobs' = {}) /\ (driver = "selected" /\ SegmentFailed => here \in failedJobs')
    BY <1>1, <1>2 DEF JobsInv
<1>8. failed > before => failed > 0
    BY <1>4
<1> USE DEF planVars, segVars, nodeVars
<1>9. OwnType' /\ DriverInv'
    BY <1>1, <1>2, <1>4, <1>5, <1>7 DEF OwnType, DriverInv
<1>10. TallyInv'
    <2>1. SegmentInv'
        BY <1>1, <1>6 DEF TallyInv, SegmentInv, Recorded, Done, Inside, Live, OwnType
    <2>2. /\ \A n \in left : IF BinaryOf[n] \in validated THEN Untouched(n)' ELSE Done(n)'
          /\ \A n \in Nodes : n \notin left \cup pending => Recorded(n)'
        BY <1>1, <1>2, <1>6 DEF TallyInv, OwnType, Untouched, Done, Recorded
    <2> QED BY <1>1, <1>2, <2>1, <2>2 DEF TallyInv, Inside, Live
<1>11. JobsInv'
    <2>1. \A b \in Binaries : b \in Tasks /\ (b # here => state'[b] = state[b])
        BY <1>5, PlanShape
    <2>2. \A b \in validated : state'[b] = "RUNNING" => driver = "selected" \/ NodesOf(b) \subseteq left
        BY <1>1, <1>2, <1>3, <1>5, <2>1 DEF JobsInv, OwnType
    <2>3. \A n \in left : BinaryOf[n] \in validated => state'[BinaryOf[n]] = "RUNNING"
        BY <1>1, <1>2, <1>3, <1>5, <1>6, <2>1 DEF JobsInv, OwnType
    <2> QED BY <1>1, <1>2, <1>3, <1>4, <1>5, <1>7, <1>8, <2>1, <2>2, <2>3 DEF JobsInv, OwnType
<1>12. BlamedInv'
    <2>1. \A b \in Binaries : b \in Tasks /\ (state[b] = "FAILED" => state'[b] = "FAILED")
        BY <1>4, <1>5, PlanShape
    <2>2. SegmentFailed => here \in failedJobs' \/ state'[here] = "FAILED"
        BY <1>3, <1>5, <1>7 DEF SegmentFailed
    <2>3. failed > before => SegmentFailed
        BY DEF SegmentFailed
    <2>4. \A n \in Nodes : state'[n] \in Bad =>
              BinaryOf[n] \notin validated \/ BinaryOf[n] \in failedJobs' \/ state'[BinaryOf[n]] = "FAILED"
        BY <1>1, <1>2, <1>6, <1>7, <2>1, <2>2, <2>3 DEF BlamedInv
    <2>5. \A b \in unclosed : b \in failedJobs' \/ state'[b] = "FAILED"
        BY <1>1, <1>2, <1>7, <2>1, <2>2 DEF BlamedInv, OwnType
    <2>6. \A t \in Tasks : state[t] \in Bad => state'[t] \in Bad
        BY <1>4, <1>5 DEF Bad
    <2>7. failed > 0 => failedJobs' # {} \/ \E t \in Tasks : state'[t] \in Bad
        BY <1>1, <1>2, <1>4, <1>7, <2>2, <2>3, <2>6 DEF BlamedInv, Bad
    <2> QED BY <1>1, <2>4, <2>5, <2>7 DEF BlamedInv
<1>13. VerdictInv'
    <2>1. \A b \in Binaries \ {here} : state'[b] = "SUCCEEDED" => b \notin unclosed' /\ \A n \in NodesOf(b) : Fine(n)'
        BY <1>1, <1>5, <1>6, PlanShape DEF VerdictInv, VerdictHonest, Fine
    <2>2. state'[here] = "SUCCEEDED" => here \notin unclosed' /\ \A n \in NodesOf(here) : Fine(n)'
        <3> SUFFICES ASSUME state'[here] = "SUCCEEDED"
                     PROVE  here \notin unclosed /\ \A n \in NodesOf(here) : Fine(n)'
            BY <1>1
        <3>1. driver = "full" /\ ~(failed > before) /\ ~SegmentFailed
            BY <1>3, <1>4, <1>5 DEF SegmentFailed
        <3>2. failedJobs = {}
            BY <1>1, <1>2, <3>1 DEF JobsInv
        <3>3. here \notin unclosed
            BY <1>1, <1>2, <1>4, <3>1, <3>2 DEF BlamedInv
        <3>4. ASSUME NEW n \in NodesOf(here) PROVE Fine(n)'
            <4>1. n \in Nodes /\ BinaryOf[n] = here
                BY <3>4, <1>4, PlanShape
            <4>2. n \notin left
                BY <1>1, <1>2, <3>1, <4>1 DEF JobsInv
            <4>3. Recorded(n)
                BY <1>1, <1>2, <4>1, <4>2 DEF TallyInv, SegmentInv
            <4>4. state[n] \in Terminal /\ state[n] \notin Bad
                BY <1>1, <1>2, <1>4, <3>1, <3>2, <4>1, <4>3 DEF BlamedInv, Recorded, Done
            <4> QED BY <1>6, <4>1, <4>4 DEF Fine, Terminal, Bad
        <3> QED BY <3>3, <3>4
    <2> QED BY <1>1, <1>2, <2>1, <2>2 DEF VerdictInv, VerdictHonest, Live
<1> QED BY <1>1, <1>9, <1>10, <1>11, <1>12, <1>13 DEF OwnInv, PlanInv

\* What is not at its end is aborted at the end of the run.
LEMMA AllSettled ==
    ASSUME NEW st \in [Tasks -> Status]
    PROVE  /\ Emit(st, Tasks, "ABORTED") \in [Tasks -> Status]
           /\ \A t \in Tasks : Emit(st, Tasks, "ABORTED")[t] = IF st[t] \in Terminal THEN st[t] ELSE "ABORTED"
<1>1. "ABORTED" \in Status /\ "ABORTED" \in Terminal
    BY DEF Status, Terminal
<1>2. \A t \in Tasks : st[t] \in Terminal \/ st[t] = "PENDING" \/ st[t] = "RUNNING"
    BY DEF Status
<1> QED BY <1>1, <1>2, Emitted

\* The end of the run: the jobs that waited for it are judged, and nothing is left to abort.
LEMMA Finished ==
    ASSUME OwnInv, driver # "bare", Finish
    PROVE  /\ state' \in [Tasks -> Status]
           /\ \A n \in Nodes : state'[n] = state[n] /\ state[n] \in Terminal
           /\ \A b \in Binaries :
                 IF driver = "selected" /\ b \in validated
                 THEN state[b] = "RUNNING" /\ state'[b] = IF b \in failedJobs THEN "FAILED" ELSE "SUCCEEDED"
                 ELSE state[b] \in Terminal /\ state'[b] = state[b]
<1> DEFINE jobs == IF driver = "selected"
                   THEN Emit(Emit(state, failedJobs, "FAILED"), validated \ failedJobs, "SUCCEEDED")
                   ELSE state
<1>1. /\ opc = "segment" /\ left = {} /\ opc' = "over"
      /\ state' = Emit(jobs, Tasks, "ABORTED")
      /\ verdict' = IF failed > 0 \/ failedJobs # {} THEN "FAILED" ELSE "SUCCEEDED"
      /\ UNCHANGED <<planVars, segVars, nodeVars, counted, failed, broken, failedJobs, unclosed>>
      /\ TallyInv /\ JobsInv /\ BlamedInv /\ DriverInv /\ VerdictInv /\ OwnType
    BY DEF OwnInv, PlanInv, Finish
<1>2. opc \in Live /\ driver \in {"full", "selected"}
    BY <1>1, DriverAssumption DEF Live, OwnType
<1>3. \A b \in Binaries : b \in Tasks
    BY PlanShape
<1>4. \A n \in Nodes : n \in Tasks /\ n \notin Binaries /\ state[n] \in Terminal
    BY <1>1, <1>2, PlanShape DEF TallyInv, SegmentInv, Recorded, Done
<1>5. /\ jobs \in [Tasks -> Status]
      /\ \A n \in Nodes : jobs[n] = state[n]
      /\ driver = "full" => jobs = state
      /\ driver = "selected" => \A b \in Binaries :
            jobs[b] = IF b \notin validated THEN state[b] ELSE IF b \in failedJobs THEN "FAILED" ELSE "SUCCEEDED"
    <2>1. CASE driver = "full"
        BY <1>1, <2>1 DEF OwnType
    <2>2. CASE driver = "selected"
        <3> DEFINE mid == Emit(state, failedJobs, "FAILED")
        <3>1. jobs = Emit(mid, validated \ failedJobs, "SUCCEEDED")
            BY <2>2
        <3>2. {"FAILED", "SUCCEEDED"} \subseteq Status /\ {"FAILED", "SUCCEEDED"} \subseteq Terminal
            BY DEF Status, Terminal
        <3>3. failedJobs \subseteq validated /\ validated \subseteq Binaries /\ \A b \in validated : state[b] = "RUNNING"
            BY <1>1, <1>2, <2>2 DEF JobsInv, OwnType
        <3>4. /\ mid \in [Tasks -> Status]
              /\ \A t \in Tasks : t \notin failedJobs => mid[t] = state[t]
              /\ \A t \in Tasks : t \in failedJobs => mid[t] = "FAILED"
            BY <1>1, <3>2, <3>3, Emitted DEF OwnType
        <3> HIDE DEF mid, jobs
        <3>5. /\ jobs \in [Tasks -> Status]
              /\ \A t \in Tasks : t \notin validated \ failedJobs => jobs[t] = mid[t]
              /\ \A t \in Tasks : t \in validated \ failedJobs /\ mid[t] = "RUNNING" => jobs[t] = "SUCCEEDED"
            BY <3>1, <3>2, <3>4, Emitted
        <3>6. \A n \in Nodes : n \notin validated /\ n \notin failedJobs
            BY <1>4, <3>3
        <3> QED BY <1>3, <1>4, <2>2, <3>3, <3>4, <3>5, <3>6
    <2> QED BY <1>2, <2>1, <2>2
<1> HIDE DEF jobs
<1>6. /\ state' \in [Tasks -> Status]
      /\ \A t \in Tasks : state'[t] = IF jobs[t] \in Terminal THEN jobs[t] ELSE "ABORTED"
      /\ \A t \in Tasks : state'[t] \in Terminal
    <2>1. "ABORTED" \in Terminal
        BY DEF Terminal
    <2> QED BY <1>1, <1>5, <2>1, AllSettled
<1>7. \A n \in Nodes : state'[n] = state[n]
    BY <1>4, <1>5, <1>6
<1>8. ASSUME NEW b \in Binaries
      PROVE  IF driver = "selected" /\ b \in validated
             THEN state[b] = "RUNNING" /\ state'[b] = IF b \in failedJobs THEN "FAILED" ELSE "SUCCEEDED"
             ELSE state[b] \in Terminal /\ state'[b] = state[b]
    <2>1. b \in Tasks /\ "FAILED" \in Terminal /\ "SUCCEEDED" \in Terminal
        BY <1>3 DEF Terminal
    <2>2. b \notin validated => state[b] = "FAILED"
        BY <1>1, <1>2 DEF JobsInv
    <2>3. CASE driver = "selected"
        BY <1>1, <1>2, <1>5, <1>6, <2>1, <2>2, <2>3 DEF JobsInv
    <2>4. CASE driver = "full"
        <3>1. b \in validated => state[b] \in {"SUCCEEDED", "FAILED"}
            BY <1>1, <1>2, <2>4, PlanShape DEF JobsInv
        <3>2. state[b] \in Terminal
            BY <2>1, <2>2, <3>1
        <3> QED BY <1>5, <1>6, <2>1, <2>4, <3>2
    <2> QED BY <1>2, <2>3, <2>4
<1> QED BY <1>4, <1>6, <1>7, <1>8

\* The end of the run.
LEMMA FinishPreserves ==
    ASSUME OwnInv, driver # "bare", Finish
    PROVE  OwnInv'
<1>1. /\ opc = "segment" /\ left = {} /\ opc' = "over"
      /\ verdict' = IF failed > 0 \/ failedJobs # {} THEN "FAILED" ELSE "SUCCEEDED"
      /\ UNCHANGED <<planVars, segVars, nodeVars, counted, failed, broken, failedJobs, unclosed>>
      /\ TallyInv /\ JobsInv /\ BlamedInv /\ DriverInv /\ VerdictInv /\ OwnType
    BY DEF OwnInv, PlanInv, Finish
<1>2. opc \in Live /\ driver \in {"full", "selected"}
    BY <1>1, DriverAssumption DEF Live, OwnType
<1>3. /\ state' \in [Tasks -> Status]
      /\ \A n \in Nodes : state'[n] = state[n] /\ state[n] \in Terminal
      /\ \A b \in Binaries :
            IF driver = "selected" /\ b \in validated
            THEN state[b] = "RUNNING" /\ state'[b] = IF b \in failedJobs THEN "FAILED" ELSE "SUCCEEDED"
            ELSE state[b] \in Terminal /\ state'[b] = state[b]
    BY Finished
<1>4. {"FAILED", "SUCCEEDED", "ABORTED"} \subseteq Terminal
    BY DEF Terminal
<1>5. \A t \in Tasks : state'[t] \in Terminal
    BY <1>3, <1>4 DEF Tasks
<1>6. verdict' = "SUCCEEDED" => \A b \in Binaries : state'[b] = "SUCCEEDED"
    <2> SUFFICES ASSUME failed = 0, failedJobs = {}, NEW b \in Binaries PROVE state'[b] = "SUCCEEDED"
        BY <1>1 DEF OwnType
    <2>1. b \in validated
        BY <1>1, <1>2 DEF JobsInv
    <2>2. CASE driver = "selected"
        BY <1>3, <2>1, <2>2
    <2>3. CASE driver = "full"
        BY <1>1, <1>2, <1>3, <2>1, <2>3 DEF JobsInv, Terminal
    <2> QED BY <1>2, <2>2, <2>3
<1>7. \A b \in Binaries : state'[b] = "SUCCEEDED" => b \notin unclosed' /\ \A n \in NodesOf(b) : Fine(n)'
    <2> SUFFICES ASSUME NEW b \in Binaries, state'[b] = "SUCCEEDED"
                 PROVE  b \notin unclosed /\ \A n \in NodesOf(b) : Fine(n)'
        BY <1>1
    <2>1. CASE state[b] = "SUCCEEDED"
        BY <1>1, <1>3, <2>1, PlanShape DEF VerdictInv, VerdictHonest, Fine
    <2>2. CASE state[b] # "SUCCEEDED"
        <3>1. driver = "selected" /\ b \in validated /\ b \notin failedJobs /\ state[b] = "RUNNING"
            BY <1>3, <2>2
        <3>2. b \notin unclosed
            BY <1>1, <1>2, <3>1 DEF BlamedInv
        <3>3. \A n \in NodesOf(b) : n \in Nodes /\ state[n] \notin Bad
            BY <1>1, <1>2, <3>1, PlanShape DEF BlamedInv
        <3>4. \A n \in NodesOf(b) : Fine(n)'
            BY <1>3, <3>3 DEF Fine, Terminal, Bad
        <3> QED BY <3>2, <3>4
    <2> QED BY <2>1, <2>2
<1>8. verdict' = "FAILED" => \E t \in Tasks : state'[t] \in Bad
    <2> SUFFICES ASSUME failed > 0 \/ failedJobs # {} PROVE \E t \in Tasks : state'[t] \in Bad
        BY <1>1
    <2>1. CASE failedJobs # {}
        <3>1. PICK b \in failedJobs : TRUE
            BY <2>1
        <3>2. b \in validated /\ b \in Binaries /\ b \in Tasks /\ driver = "selected"
            BY <1>1, <1>2, <3>1, PlanShape DEF JobsInv, OwnType
        <3> QED BY <1>3, <3>1, <3>2 DEF Bad
    <2>2. CASE failedJobs = {}
        <3>1. PICK t \in Tasks : state[t] \in Bad
            BY <1>1, <1>2, <2>2 DEF BlamedInv
        <3>2. state'[t] = state[t]
            BY <1>3, <3>1 DEF Tasks, Bad
        <3> QED BY <3>1, <3>2
    <2> QED BY <2>1, <2>2
<1>9. verdict' \in {"SUCCEEDED", "FAILED"}
    BY <1>1
<1> USE DEF planVars, segVars, nodeVars
<1>10. OwnType' /\ DriverInv'
    BY <1>1, <1>3, <1>9 DEF OwnType, DriverInv
<1>11. TallyInv' /\ JobsInv' /\ BlamedInv'
    BY <1>1 DEF TallyInv, SegmentInv, JobsInv, BlamedInv, Inside, InSegment, Live, Failing
<1>12. VerdictInv'
    BY <1>1, <1>5, <1>6, <1>7, <1>8 DEF VerdictInv, VerdictHonest, Bad
<1> QED BY <1>1, <1>10, <1>11, <1>12 DEF OwnInv, PlanInv

\* A run that breaks off aborts what it had begun and what it never came to.
LEMMA AbortPreserves ==
    ASSUME OwnInv, driver # "bare", Abort
    PROVE  OwnInv'
<1>1. /\ opc = "abort" /\ opc' = "over" /\ verdict' = "FAILED"
      /\ state' = Emit(state, Tasks, "ABORTED")
      /\ UNCHANGED <<planVars, segVars, nodeVars, counted, failed, broken, failedJobs, unclosed>>
      /\ DriverInv /\ VerdictInv /\ OwnType
    BY DEF OwnInv, PlanInv, Abort
<1>2. /\ state' \in [Tasks -> Status]
      /\ \A t \in Tasks : state'[t] = IF state[t] \in Terminal THEN state[t] ELSE "ABORTED"
    BY <1>1, AllSettled DEF OwnType
<1>3. \A t \in Tasks : state'[t] \in Terminal
    BY <1>2 DEF Terminal
<1>4. \A b \in Binaries : state'[b] = "SUCCEEDED" => b \notin unclosed' /\ \A n \in NodesOf(b) : Fine(n)'
    <2>1. \A b \in Binaries : state'[b] = state[b] \/ state'[b] # "SUCCEEDED"
        BY <1>2, PlanShape
    <2>2. \A n \in Nodes : Fine(n) => state'[n] = state[n]
        BY <1>2, PlanShape DEF Fine, Terminal
    <2> QED BY <1>1, <2>1, <2>2, StaysHonest DEF VerdictInv
<1>5. \E t \in Tasks : state'[t] \in Bad
    <2>1. PICK b \in Binaries : state[b] \notin {"SUCCEEDED", "SKIPPED"}
        BY <1>1 DEF VerdictInv
    <2>2. b \in Tasks /\ state'[b] \in Bad
        BY <1>2, <2>1, PlanShape DEF Terminal, Bad
    <2> QED BY <2>2
<1> USE DEF planVars, segVars, nodeVars
<1>6. OwnType' /\ DriverInv'
    BY <1>1, <1>2 DEF OwnType, DriverInv
<1>7. TallyInv' /\ JobsInv' /\ BlamedInv'
    BY <1>1 DEF TallyInv, SegmentInv, JobsInv, BlamedInv, Inside, InSegment, Live, Failing
<1>8. VerdictInv'
    BY <1>1, <1>3, <1>4, <1>5 DEF VerdictInv, VerdictHonest, Bad
<1> QED BY <1>1, <1>6, <1>7, <1>8 DEF OwnInv, PlanInv

\* Binaries are validated; the nodes of those that are not are recorded at once.
LEMMA Prepared ==
    ASSUME OwnInv, Prepare
    PROVE  \E seen \in SUBSET Binaries : \E bad \in SUBSET seen :
              /\ opc = "prepare" /\ opc' \in {"abort", "segment"} /\ (opc' = "segment" => seen = Binaries)
              /\ validated' = seen \ bad
              /\ state' \in [Tasks -> Status] /\ counted' \in [Nodes -> 0 .. 2]
              /\ \A t \in Tasks : state[t] = "PENDING"
              /\ \A n \in Nodes :
                    /\ state'[n] = IF BinaryOf[n] \in bad THEN "ABORTED" ELSE "PENDING"
                    /\ counted'[n] = IF BinaryOf[n] \in bad THEN 1 ELSE 0
              /\ \A b \in Binaries : state'[b] = IF b \in bad THEN "FAILED" ELSE IF b \in seen THEN "RUNNING" ELSE "PENDING"
              /\ failed' \in Nat /\ (failed' > 0 <=> bad # {})
<1>1. PICK seen \in SUBSET Binaries, bad \in SUBSET Binaries :
          /\ bad \subseteq seen /\ opc' \in {"abort", "segment"} /\ (opc' = "segment" => seen = Binaries)
          /\ validated' = seen \ bad
          /\ LET unrun == UNION {NodesOf(b) : b \in bad} IN
             /\ state' = Emit(Emit(Emit(state, seen, "RUNNING"), bad, "FAILED"), unrun, "ABORTED")
             /\ Count(unrun) /\ failed' = failed + Cardinality(unrun)
    <2>1. PICK seen \in SUBSET Binaries : \E bad \in SUBSET seen :
              /\ skip \/ Cardinality(bad) <= 1
              /\ \/ opc' = "abort"
                 \/ opc' = "segment" /\ seen = Binaries /\ (skip \/ bad = {})
              /\ validated' = seen \ bad
              /\ LET unrun == UNION {NodesOf(b) : b \in bad} IN
                 /\ state' = Emit(Emit(Emit(state, seen, "RUNNING"), bad, "FAILED"), unrun, "ABORTED")
                 /\ Count(unrun) /\ failed' = failed + Cardinality(unrun)
        BY DEF Prepare
    <2> QED BY <2>1
<1> DEFINE unrun == {n \in Nodes : BinaryOf[n] \in bad}
           begun == Emit(state, seen, "RUNNING")
           judged == Emit(begun, bad, "FAILED")
<1>2. /\ opc = "prepare" /\ driver # "bare"
      /\ UNCHANGED <<lifeVars, driver, skip, segVars, nodeVars, broken, failedJobs, unclosed, verdict>>
      /\ TallyInv /\ DriverInv /\ VerdictInv /\ OwnType
    BY DEF OwnInv, PlanInv, Prepare
<1>3. /\ left = Nodes /\ failed = 0 /\ failedJobs = {} /\ unclosed = {}
      /\ (\A t \in Tasks : state[t] = "PENDING") /\ (\A n \in Nodes : counted[n] = 0)
    BY <1>2 DEF TallyInv
<1>4. UNION {NodesOf(b) : b \in bad} = unrun
    BY PlanShape
<1>5. state' = Emit(judged, unrun, "ABORTED") /\ Count(unrun) /\ failed' = failed + Cardinality(unrun)
    BY <1>1, <1>4
<1>6. /\ {"RUNNING", "FAILED", "ABORTED"} \subseteq Status
      /\ "FAILED" \in Terminal /\ "ABORTED" \in Terminal /\ "PENDING" \notin Terminal
    BY DEF Status, Terminal
<1>7. /\ \A b \in Binaries : b \in Tasks /\ b \notin unrun
      /\ \A n \in Nodes : n \in Tasks /\ n \notin seen /\ n \notin bad /\ BinaryOf[n] \in Binaries
    BY <1>1, PlanShape
<1>8. /\ begun \in [Tasks -> Status]
      /\ \A t \in Tasks : begun[t] = IF t \in seen THEN "RUNNING" ELSE "PENDING"
    BY <1>2, <1>3, <1>6, Emitted DEF OwnType
<1> HIDE DEF begun
<1>9. /\ judged \in [Tasks -> Status]
      /\ \A t \in Tasks : t \notin bad => judged[t] = begun[t]
      /\ \A t \in Tasks : t \in bad => judged[t] = "FAILED"
    BY <1>1, <1>6, <1>8, Emitted
<1> HIDE DEF judged
<1>10. /\ state' \in [Tasks -> Status]
       /\ \A n \in Nodes : state'[n] = IF BinaryOf[n] \in bad THEN "ABORTED" ELSE "PENDING"
       /\ \A b \in Binaries : state'[b] = IF b \in bad THEN "FAILED" ELSE IF b \in seen THEN "RUNNING" ELSE "PENDING"
    <2>1. /\ state' \in [Tasks -> Status]
          /\ \A t \in Tasks : t \notin unrun => state'[t] = judged[t]
          /\ \A t \in Tasks : t \in unrun /\ judged[t] = "PENDING" => state'[t] = "ABORTED"
        BY <1>5, <1>6, <1>9, Emitted
    <2>2. \A n \in Nodes : judged[n] = "PENDING"
        BY <1>7, <1>8, <1>9
    <2> QED BY <1>7, <1>8, <1>9, <2>1, <2>2
<1>11. /\ counted' \in [Nodes -> 0 .. 2]
       /\ \A n \in Nodes : counted'[n] = IF BinaryOf[n] \in bad THEN 1 ELSE 0
    <2>1. counted' = [n \in Nodes |-> counted[n] + IF n \in unrun THEN 1 ELSE 0] /\ counted \in [Nodes -> 0 .. 2]
        BY <1>2, <1>5 DEF Count, OwnType
    <2> QED BY <1>3, <2>1
<1>12. failed' \in Nat /\ (failed' > 0 <=> bad # {})
    <2>1. Cardinality(unrun) \in Nat /\ (Cardinality(unrun) > 0 <=> unrun # {})
        BY CountSome
    <2>2. unrun # {} <=> bad # {}
        BY PlanShape
    <2> HIDE DEF unrun
    <2> QED BY <1>3, <1>5, <2>1, <2>2
<1> HIDE DEF unrun
<1>13. bad \in SUBSET seen
    BY <1>1
<1>14.
      /\ opc = "prepare" /\ opc' \in {"abort", "segment"} /\ (opc' = "segment" => seen = Binaries)
      /\ validated' = seen \ bad
      /\ state' \in [Tasks -> Status] /\ counted' \in [Nodes -> 0 .. 2]
      /\ \A t \in Tasks : state[t] = "PENDING"
      /\ \A n \in Nodes :
            /\ state'[n] = IF BinaryOf[n] \in bad THEN "ABORTED" ELSE "PENDING"
            /\ counted'[n] = IF BinaryOf[n] \in bad THEN 1 ELSE 0
      /\ \A b \in Binaries : state'[b] = IF b \in bad THEN "FAILED" ELSE IF b \in seen THEN "RUNNING" ELSE "PENDING"
      /\ failed' \in Nat /\ (failed' > 0 <=> bad # {})
    BY <1>1, <1>2, <1>3, <1>10, <1>11, <1>12
<1> QED BY <1>13, <1>14

\* The run before its first segment.
LEMMA PreparePreserves ==
    ASSUME OwnInv, Prepare
    PROVE  OwnInv'
<1>1. PICK seen \in SUBSET Binaries : \E bad \in SUBSET seen :
          /\ opc = "prepare" /\ opc' \in {"abort", "segment"} /\ (opc' = "segment" => seen = Binaries)
          /\ validated' = seen \ bad
          /\ state' \in [Tasks -> Status] /\ counted' \in [Nodes -> 0 .. 2]
          /\ \A t \in Tasks : state[t] = "PENDING"
          /\ \A n \in Nodes :
                /\ state'[n] = IF BinaryOf[n] \in bad THEN "ABORTED" ELSE "PENDING"
                /\ counted'[n] = IF BinaryOf[n] \in bad THEN 1 ELSE 0
          /\ \A b \in Binaries : state'[b] = IF b \in bad THEN "FAILED" ELSE IF b \in seen THEN "RUNNING" ELSE "PENDING"
          /\ failed' \in Nat /\ (failed' > 0 <=> bad # {})
    BY Prepared
<1>2. PICK bad \in SUBSET seen :
          /\ opc = "prepare" /\ opc' \in {"abort", "segment"} /\ (opc' = "segment" => seen = Binaries)
          /\ validated' = seen \ bad
          /\ state' \in [Tasks -> Status] /\ counted' \in [Nodes -> 0 .. 2]
          /\ \A t \in Tasks : state[t] = "PENDING"
          /\ \A n \in Nodes :
                /\ state'[n] = IF BinaryOf[n] \in bad THEN "ABORTED" ELSE "PENDING"
                /\ counted'[n] = IF BinaryOf[n] \in bad THEN 1 ELSE 0
          /\ \A b \in Binaries : state'[b] = IF b \in bad THEN "FAILED" ELSE IF b \in seen THEN "RUNNING" ELSE "PENDING"
          /\ failed' \in Nat /\ (failed' > 0 <=> bad # {})
    BY <1>1
<1>3. /\ driver # "bare"
      /\ UNCHANGED <<lifeVars, driver, skip, segVars, nodeVars, broken, failedJobs, unclosed, verdict>>
      /\ TallyInv /\ DriverInv /\ VerdictInv /\ OwnType
    BY DEF OwnInv, PlanInv, Prepare
<1>4. left = Nodes /\ pending = {} /\ failed = 0 /\ failedJobs = {} /\ unclosed = {}
    BY <1>2, <1>3 DEF TallyInv
<1>5. /\ \A n \in Nodes : BinaryOf[n] \in Binaries /\ n \in Tasks
      /\ \A b \in Binaries : b \in Tasks
      /\ "ABORTED" \in Terminal
    BY PlanShape DEF Terminal
<1> USE DEF segVars, nodeVars
<1>6. verdict = "none"
    BY <1>2, <1>3 DEF VerdictInv
<1>7. OwnType' /\ DriverInv'
    BY <1>2, <1>3 DEF OwnType, DriverInv, Live
<1>8. TallyInv'
    <2>1. opc' = "segment" => \A n \in left' : IF BinaryOf[n] \in validated' THEN Untouched(n)' ELSE Done(n)'
        BY <1>2, <1>3, <1>4, <1>5 DEF Untouched, Done
    <2> QED BY <1>2, <1>3, <1>4, <2>1 DEF TallyInv, SegmentInv, Inside, Live
<1>9. JobsInv'
    BY <1>2, <1>3, <1>4, <1>5, PlanShape DEF JobsInv, InSegment, Live, Failing
<1>10. BlamedInv'
    <2> SUFFICES ASSUME opc' = "segment" PROVE BlamedInv'
        BY <1>2 DEF BlamedInv, Live
    <2>1. \A n \in Nodes : state'[n] \in Bad => BinaryOf[n] \notin validated'
        BY <1>2 DEF Bad
    <2>2. failed' > 0 => \E t \in Tasks : state'[t] \in Bad
        BY <1>2, <1>5 DEF Bad
    <2> QED BY <1>3, <1>4, <2>1, <2>2 DEF BlamedInv
<1>11. VerdictInv'
    BY <1>2, <1>3, <1>6, PlanShape DEF VerdictInv, VerdictHonest
<1> QED BY <1>3, <1>7, <1>8, <1>9, <1>10, <1>11 DEF OwnInv, PlanInv

\* The other steps of the owner end a node or only move on.
LEMMA WorkSteps ==
    ASSUME OwnInv, driver # "bare", answer \in {"ok", "lifecycle", "raise"}, runtime \in Tree \cup {0},
           \/ Entered \/ InspectInputs \/ Preprocess \/ Agent \/ InspectOutputs \/ Interrupted
           \/ Ensure \/ Ensured \/ EnsureRaised \/ BodyDone \/ Leave
    PROVE  OwnInv'
<1>1. /\ TallyInv /\ DriverInv /\ OwnType
      /\ UNCHANGED <<planVars, segVars>>
    BY DEF OwnInv, PlanInv, Entered, InspectInputs, InspectOutputs, Inspect, Preprocess, Agent, Interrupted,
           Ensure, Ensured, EnsureRaised, BodyDone, Leave
<1>2. ASSUME NEW s \in {"SKIPPED", "FAILED", "SUCCEEDED"}, NodeEnds(s),
             opc \in {"inspectIn", "reinspectIn", "preprocess", "agent", "inspectOut", "reinspectOut"}
      PROVE  OwnInv'
    BY <1>1, <1>2, NodeEndsPreserves DEF AtWork, Inside, Live
<1>3. ASSUME Quiet, rt' \in Tree \cup {0}, back' \in {"node", "reinspectIn", "agent", "reinspectOut", "close"}
      PROVE  OwnInv'
    <2>1. opc' \in Live \cup Failing \cup {"abort"} \/ opc' = opc
        BY <1>3 DEF Quiet, Inside, Live, Failing
    <2>2. OwnType'
        BY <1>1, <1>3, <2>1 DEF OwnType, Quiet, dataVars, planVars, segVars, sumVars
    <2> QED BY <1>3, <2>2, QuietPreserves DEF OwnInv
<1> USE DEF Live, Inside, AtWork, Failing
<1>4. rt \in Tree \cup {0} /\ back \in {"node", "reinspectIn", "agent", "reinspectOut", "close"}
    BY <1>1 DEF OwnType
<1>5. CASE Entered
    BY <1>1, <1>3, <1>4, <1>5 DEF Entered, Quiet, dataVars, TallyInv
<1>6. CASE InspectInputs
    BY <1>1, <1>2, <1>3, <1>4, <1>6 DEF InspectInputs, Inspect, StepTo, Quiet, dataVars, nodeVars, TallyInv
<1>7. CASE InspectOutputs
    BY <1>1, <1>2, <1>3, <1>4, <1>7 DEF InspectOutputs, Inspect, StepTo, Quiet, dataVars, nodeVars, TallyInv
<1>8. CASE Preprocess
    BY <1>1, <1>2, <1>3, <1>4, <1>8 DEF Preprocess, StepTo, Quiet, dataVars, nodeVars, TallyInv
<1>9. CASE Agent
    BY <1>1, <1>2, <1>3, <1>4, <1>9 DEF Agent, StepTo, Quiet, dataVars, nodeVars, TallyInv
<1>10. CASE Interrupted
    BY <1>1, <1>3, <1>4, <1>10 DEF Interrupted, StepTo, Quiet, dataVars, nodeVars, TallyInv
<1>11. CASE Ensure
    BY <1>1, <1>3, <1>4, <1>11 DEF Ensure, AskedFrom, Quiet, dataVars, TallyInv, DriverInv
<1>12. CASE Ensured
    BY <1>1, <1>3, <1>4, <1>12 DEF Ensured, Quiet, dataVars, TallyInv, DriverInv
<1>13. CASE EnsureRaised
    BY <1>1, <1>3, <1>4, <1>13 DEF EnsureRaised, StepTo, Quiet, dataVars, nodeVars
<1>14. CASE BodyDone
    BY <1>1, <1>3, <1>4, <1>14 DEF BodyDone, StepTo, Quiet, dataVars, nodeVars, DriverInv
<1>15. CASE Leave
    BY <1>1, <1>3, <1>4, <1>15 DEF Leave, Quiet, dataVars, nodeVars
<1> QED BY <1>5, <1>6, <1>7, <1>8, <1>9, <1>10, <1>11, <1>12, <1>13, <1>14, <1>15

\* What the lifecycle does between two calls does not touch the plan.
LEMMA StutterPreserves == ASSUME OwnInv, UNCHANGED ownerVars PROVE OwnInv'
<1> USE DEF ownerVars, planVars, segVars, nodeVars, sumVars
<1>1. OwnType'
    BY DEF OwnInv, OwnType
<1>2. CASE driver = "bare"
    BY <1>1, <1>2, PlanShape DEF OwnInv, PlanInv, DriverInv, VerdictInv, VerdictHonest, Fine
<1>3. CASE driver # "bare"
    <2>1. Quiet
        BY DEF Quiet, dataVars
    <2> QED BY <1>1, <1>3, <2>1, QuietPreserves DEF OwnInv
<1> QED BY <1>2, <1>3

\* The plan at the start.
LEMMA InitOwn == Init => OwnInv
<1> SUFFICES ASSUME Init PROVE OwnInv
    OBVIOUS
<1>1. First(Nodes) \in Nodes /\ BinaryOf[First(Nodes)] \in Binaries
    BY FirstIn, NodesFinite, PlanShape
<1>2. OwnType
    <2>1. state \in [Tasks -> Status] /\ counted \in [Nodes -> 0 .. 2] /\ rt \in Tree \cup {0}
        BY DEF Init, Status
    <2> QED BY <1>1, <2>1 DEF Init, OwnType
<1>3. DriverInv /\ VerdictInv
    BY PlanShape DEF Init, DriverInv, VerdictInv, VerdictHonest
<1>4. TallyInv /\ JobsInv /\ BlamedInv
    BY DEF Init, TallyInv, SegmentInv, JobsInv, BlamedInv, Inside, InSegment, Live, Failing
<1> QED BY <1>2, <1>3, <1>4 DEF OwnInv, PlanInv

\* With what the lifecycle keeps, OwnInv is inductive.
LEMMA NextOwn == RunInv /\ OwnInv /\ [Next]_vars => OwnInv'
<1> SUFFICES ASSUME RunInv, OwnInv, [Next]_vars PROVE OwnInv'
    OBVIOUS
<1>1. answer \in {"ok", "lifecycle", "raise"} /\ runtime \in Tree \cup {0}
    BY DEF RunInv, LifeInv, LifeTypeOK, Answer
<1>2. CASE UNCHANGED ownerVars
    BY <1>2, StutterPreserves
<1>3. CASE Step
    <2>1. CASE driver = "bare"
        BY <1>3, <2>1, BarePreserves
    <2>2. CASE driver # "bare"
        <3>1. CASE \/ Entered \/ InspectInputs \/ Preprocess \/ Agent \/ InspectOutputs \/ Interrupted
                   \/ Ensure \/ Ensured \/ EnsureRaised \/ BodyDone \/ Leave
            BY <1>1, <2>2, <3>1, WorkSteps
        <3>2. ~Open
            BY <2>2 DEF Open
        <3> QED BY <1>1, <1>2, <1>3, <2>2, <3>1, <3>2, PreparePreserves, PassOverPreserves, StartSegmentPreserves,
                   StartNodePreserves, EnsureFailedPreserves, LeftPreserves, HandlerPreserves, SegmentEndPreserves,
                   FinishPreserves, AbortPreserves DEF Step
    <2> QED BY <2>1, <2>2
<1> QED BY <1>2, <1>3 DEF Next, vars

\* The invariant of the plan: where each node is, what was counted and reported of it, and whom it is held against.
THEOREM OwnerCorrect == Spec => []OwnInv
<1>1. Init => OwnInv
    BY InitOwn
<1> QED BY <1>1, NextOwn, RunCorrect, PTL DEF Spec

\* The type invariant.
THEOREM RunTypeCorrect == Spec => []TypeOK
<1>1. RunInv /\ OwnInv => TypeOK
    BY DEF RunInv, LifeInv, OwnInv, OwnType, TypeOK, Live, Failing
<1> QED BY <1>1, RunCorrect, OwnerCorrect, PTL

\* However its workers fail, a run that ends has executed every node and counted it once, or a
\* second time where the with block around it ended with an error; for every plan.
THEOREM NodesCountedCorrect == Spec => []NodesCounted
<1>1. OwnInv => NodesCounted
    <2> SUFFICES ASSUME OwnInv, opc = "segment", left = {}, NEW n \in Nodes
                 PROVE  Recorded(n)
        BY DEF NodesCounted, Recorded, Done
    <2>1. driver # "bare"
        BY DEF OwnInv, PlanInv, DriverInv, Failing
    <2>2. opc \in Live /\ TallyInv
        BY <2>1 DEF OwnInv, PlanInv, Live
    <2> QED BY <2>2 DEF TallyInv, SegmentInv
<1> QED BY <1>1, OwnerCorrect, PTL

\* The verdict of a run and the states it reports of its jobs and nodes never contradict each other.
THEOREM VerdictCorrect == Spec => []VerdictHonest
<1>1. OwnInv => VerdictHonest
    BY DEF OwnInv, PlanInv, VerdictInv
<1> QED BY <1>1, OwnerCorrect, PTL
-----------------------------------------------------------------------------
(* The report: every step is one of RunReport, or changes nothing of it.   *)

ReportStep == [Report!Next]_(Report!vars)

\* Something that a job can be blamed for.
Blameworthy(b) == b \in unclosed \/ \E n \in NodesOf(b) : state[n] \in Bad

\* No job is held responsible without a cause: neither one of failed_binaries nor that of a
\* segment whose failures were counted.
CauseInv ==
    driver # "bare" /\ opc \in Live =>
        /\ \A b \in failedJobs : Blameworthy(b)
        /\ opc # "segment" /\ (failed > before \/ broken) => Blameworthy(here)

ReportInv == RunInv /\ OwnInv /\ CauseInv

\* Without a plan nothing is reported.
LEMMA BareReports ==
    ASSUME OwnInv, driver = "bare", Step
    PROVE  ReportStep
<1>1. \/ LifeStep /\ UNCHANGED ownerVars
      \/ Open \/ Entered \/ Ensure \/ Ensured \/ EnsureFailed \/ EnsureRaised \/ BodyDone \/ Leave \/ Left
    BY DEF OwnInv, PlanInv, DriverInv, Failing, Step, Prepare, PassOver, StartSegment, StartNode, InspectInputs,
           InspectOutputs, Inspect, Preprocess, Agent, Interrupted, Handler, SegmentEnd, Finish, Abort
<1>2. UNCHANGED <<driver, state, verdict>>
    BY <1>1 DEF OwnInv, PlanInv, DriverInv, Open, Entered, Ensure, Ensured, EnsureFailed, StepTo, EnsureRaised, BodyDone,
           Leave, Left, ownerVars, nodeVars, sumVars, planVars
<1> QED BY <1>2 DEF ReportStep, Report!vars, OpenJob, Spoilt

\* Steps that only move on report nothing.
LEMMA QuietReports ==
    ASSUME UNCHANGED <<driver, state, unclosed, verdict>>,
           \/ opc \in Block /\ opc' \in Block /\ here' = here
           \/ opc \notin Block /\ opc' \notin Block
    PROVE  ReportStep
BY DEF ReportStep, Report!vars, OpenJob, Spoilt

\* Where a worker is open its job runs, and only the node in the pipeline is reported as running.
LEMMA WorkerOpen ==
    ASSUME OwnInv, driver # "bare", opc \in Block
    PROVE  /\ OpenJob = {here} /\ here \in Binaries /\ here \in Tasks /\ state[here] = "RUNNING" /\ verdict = "none"
           /\ opc \in Live => \A n \in Nodes : state[n] = "RUNNING" => AtWork /\ n = First(rest)
<1>1. OpenJob = {here} /\ here \in Binaries /\ state[here] = "RUNNING" /\ verdict = "none"
    BY DEF OwnInv, OwnType, PlanInv, JobsInv, VerdictInv, OpenJob, Block, InSegment, Live, Failing
<1>2. opc \in Live => opc \in Live \ {"segment", "segmentEnd"} /\ opc \in Inside \cup {"leave", "leaving"}
    BY DEF Block, Live, Inside
<1>3. ASSUME opc \in Live, NEW n \in Nodes, state[n] = "RUNNING"
      PROVE  AtWork /\ n = First(rest)
    <2>1. TallyInv /\ SegmentInv
        BY <1>3 DEF OwnInv, PlanInv, TallyInv
    <2>2. ~Untouched(n) /\ ~Done(n) /\ ~Recorded(n)
        BY <1>3 DEF Untouched, Done, Recorded, Terminal
    <2>3. n \in pending
        BY <1>3, <2>1, <2>2 DEF TallyInv
    <2> QED BY <1>2, <1>3, <2>1, <2>2, <2>3 DEF SegmentInv
<1> QED BY <1>1, <1>3, PlanShape

\* A node ends, or is passed over.
LEMMA NodeEndsReports ==
    ASSUME OwnInv, driver # "bare", NEW s \in {"SKIPPED", "FAILED", "SUCCEEDED"}, NodeEnds(s),
           UNCHANGED <<planVars, segVars>>, opc \in Inside \ {"entering", "between"},
           AtWork \/ (opc = "node" /\ s = "SKIPPED")
    PROVE  /\ ReportStep /\ UNCHANGED <<failedJobs, broken, unclosed>>
           /\ failed' # failed => Blameworthy(here)'
<1> DEFINE n0 == First(rest)
<1>1. /\ opc \in Live /\ opc \in Block /\ opc' \in Block
      /\ TallyInv /\ OwnType
    BY DEF OwnInv, PlanInv, Live, Inside, Block, NodeEnds
<1>2. rest # {} /\ n0 \in rest /\ n0 \in pending /\ n0 \in Nodes /\ n0 \in Tasks /\ BinaryOf[n0] = here
    BY <1>1, FirstIn, PlanShape DEF TallyInv, OwnType, Inside, Live
<1>3. /\ state[n0] = "RUNNING" \/ (state[n0] = "PENDING" /\ s = "SKIPPED" /\ ~AtWork)
    BY <1>1, <1>2 DEF TallyInv, SegmentInv, Running, Untouched, AtWork
<1>4. s \in Terminal /\ s \in Status
    BY DEF Terminal, Status
<1>5. /\ state'[n0] = s
      /\ \A t \in Tasks : t # n0 => state'[t] = state[t]
    BY <1>1, <1>2, <1>3, <1>4, Emitted DEF NodeEnds, OwnType
<1>6. /\ failed' = failed + IF s = "FAILED" THEN 1 ELSE 0
      /\ UNCHANGED <<broken, failedJobs, unclosed, verdict, driver, here>>
    BY DEF NodeEnds, planVars, segVars
<1>7. OpenJob = {here} /\ OpenJob' = {here} /\ Spoilt' = Spoilt /\ verdict = "none"
    BY <1>1, <1>6, WorkerOpen DEF OpenJob, Spoilt
<1>8. ~AtWork => \A m \in Nodes : state[m] # "RUNNING"
    BY <1>1, WorkerOpen
<1>9. Report!Only({n0})
    BY <1>5 DEF Report!Only, Tasks
<1>10. Report!Work(n0)
    BY <1>2, <1>3, <1>5, <1>6, <1>7, <1>8, <1>9 DEF Report!Work
<1>11. failed' # failed => Blameworthy(here)'
    <2>1. failed' # failed => s = "FAILED"
        BY <1>1, <1>6 DEF OwnType
    <2>2. n0 \in NodesOf(here)
        BY <1>1, <1>2, PlanShape DEF OwnType
    <2> HIDE DEF n0
    <2> QED BY <1>5, <1>6, <2>1, <2>2 DEF Blameworthy, Bad
<1> QED BY <1>2, <1>6, <1>7, <1>10, <1>11 DEF ReportStep, Report!Next

\* A node begins, or is passed over.
LEMMA StartNodeReports ==
    ASSUME OwnInv, driver # "bare", StartNode
    PROVE  /\ ReportStep /\ UNCHANGED <<failedJobs, broken, unclosed>>
           /\ failed' # failed => Blameworthy(here)'
<1>1. /\ opc = "node" /\ UNCHANGED <<planVars, segVars>> /\ opc \in Block /\ opc \in Live /\ opc \in Inside /\ ~AtWork
      /\ TallyInv /\ OwnType
    BY DEF OwnInv, PlanInv, StartNode, AtWork, Block, Live, Inside
<1>2. CASE NodeEnds("SKIPPED")
    BY <1>1, <1>2, NodeEndsReports
<1>3. CASE ~NodeEnds("SKIPPED")
    <2> DEFINE n0 == First(rest)
    <2>1. /\ opc' \in Block
          /\ state' = Emit(state, {n0}, "RUNNING")
          /\ UNCHANGED <<nodeVars, counted, failed, broken, failedJobs, unclosed, verdict>>
        BY <1>3 DEF StartNode, Block
    <2>2. n0 \in rest /\ n0 \in pending /\ n0 \in Nodes /\ n0 \in Tasks /\ BinaryOf[n0] = here
        BY <1>1, FirstIn, PlanShape DEF TallyInv, OwnType, Inside, Live
    <2>3. state[n0] = "PENDING"
        BY <1>1, <2>2 DEF TallyInv, SegmentInv, Untouched
    <2>4. /\ state'[n0] = "RUNNING"
          /\ \A t \in Tasks : t # n0 => state'[t] = state[t]
        BY <1>1, <2>1, <2>2, <2>3, Emitted DEF OwnType, Status
    <2>5. OpenJob = {here} /\ OpenJob' = {here} /\ Spoilt' = Spoilt /\ verdict = "none"
        BY <1>1, <2>1, WorkerOpen DEF OpenJob, Spoilt, planVars, segVars
    <2>6. \A m \in Nodes : state[m] # "RUNNING"
        BY <1>1, WorkerOpen
    <2>7. Report!Work(n0)
        BY <2>1, <2>2, <2>3, <2>4, <2>5, <2>6 DEF Report!Work, Report!Only, Tasks
    <2> QED BY <2>1, <2>2, <2>5, <2>7 DEF ReportStep, Report!Next
<1> QED BY <1>2, <1>3

\* The other steps inside a segment.
LEMMA WorkReports ==
    ASSUME OwnInv, driver # "bare", answer \in {"ok", "lifecycle", "raise"},
           \/ Entered \/ InspectInputs \/ Preprocess \/ Agent \/ InspectOutputs \/ Interrupted
           \/ Ensure \/ Ensured \/ EnsureRaised \/ BodyDone \/ Leave
    PROVE  /\ ReportStep /\ UNCHANGED <<failedJobs, broken, unclosed>>
           /\ failed' # failed => Blameworthy(here)'
<1>1. /\ TallyInv /\ DriverInv /\ OwnType
      /\ UNCHANGED <<planVars, segVars>>
    BY DEF OwnInv, PlanInv, Entered, InspectInputs, InspectOutputs, Inspect, Preprocess, Agent, Interrupted,
           Ensure, Ensured, EnsureRaised, BodyDone, Leave
<1>2. driver' = driver /\ here' = here
    BY <1>1 DEF planVars, segVars
<1>3. CASE \E s \in {"SKIPPED", "FAILED", "SUCCEEDED"} :
              NodeEnds(s) /\ opc \in {"inspectIn", "reinspectIn", "preprocess", "agent", "inspectOut", "reinspectOut"}
    BY <1>1, <1>3, NodeEndsReports DEF AtWork, Inside, Live
<1>4. CASE Entered
    <2>1. opc = "entering" /\ opc' \in {"node", "handler", "abort"} /\ UNCHANGED sumVars
        BY <1>4 DEF Entered
    <2>2. CASE opc' = "node"
        BY <1>2, <2>1, <2>2, QuietReports DEF sumVars, Block
    <2>3. CASE opc' \in {"handler", "abort"}
        <3>1. OpenJob = {here} /\ OpenJob' = {} /\ Spoilt' = Spoilt /\ verdict = "none" /\ here \in Binaries
            BY <1>2, <2>1, <2>3, WorkerOpen DEF OpenJob, Spoilt, sumVars, Block
        <3>2. Report!Close(here)
            BY <2>1, <3>1 DEF Report!Close, sumVars
        <3> QED BY <2>1, <3>1, <3>2 DEF ReportStep, Report!Next, sumVars
    <2> QED BY <2>1, <2>2, <2>3 DEF sumVars
<1>5. CASE UNCHANGED sumVars /\ opc \in Block /\ opc' \in Block
    BY <1>2, <1>5, QuietReports DEF sumVars
<1>6. Ensure \/ Ensured \/ EnsureRaised \/ Leave \/ Interrupted => UNCHANGED sumVars /\ opc \in Block /\ opc' \in Block
    <2>1. opc \in {"between", "recoverIn", "fallback", "recoverOut"} \/ ~Ensure
        BY <1>1 DEF Ensure, AskedFrom, DriverInv, Live, Failing
    <2>2. back \in {"node", "reinspectIn", "agent", "reinspectOut"} \/ ~Ensured
        BY <1>1 DEF Ensured, DriverInv, OwnType
    <2> QED BY <2>1, <2>2 DEF Ensure, Ensured, EnsureRaised, Leave, Interrupted, StepTo, Block
<1>7. BodyDone => UNCHANGED sumVars /\ opc \in Block /\ opc' \in Block
    BY <1>1 DEF BodyDone, StepTo, DriverInv, Live, Failing, Block
<1>8. CASE InspectInputs \/ InspectOutputs \/ Preprocess \/ Agent
    <2>1. opc \in {"inspectIn", "reinspectIn", "preprocess", "agent", "inspectOut", "reinspectOut"}
        BY <1>8 DEF InspectInputs, InspectOutputs, Inspect, Preprocess, Agent
    <2>2. (\E s \in {"SKIPPED", "FAILED", "SUCCEEDED"} : NodeEnds(s)) \/ (UNCHANGED sumVars /\ opc' \in Block)
        BY <1>8 DEF InspectInputs, InspectOutputs, Inspect, Preprocess, Agent, StepTo, Block
    <2> QED BY <1>3, <1>5, <2>1, <2>2 DEF Block
<1> QED BY <1>4, <1>5, <1>6, <1>7, <1>8

\* No worker for the next node, or for the rest of this one.
LEMMA EnsureFailedReports ==
    ASSUME OwnInv, driver # "bare", EnsureFailed
    PROVE  /\ ReportStep /\ UNCHANGED <<failedJobs, unclosed>>
           /\ failed' # failed \/ broken' # broken => Blameworthy(here)'
<1>1. /\ opc = "ensuring" /\ UNCHANGED <<planVars, segVars>>
      /\ TallyInv /\ DriverInv /\ OwnType /\ back # "close"
    BY DEF OwnInv, PlanInv, DriverInv, EnsureFailed
<1>2. /\ opc \in Inside \ {"entering", "between"} /\ opc \in Live /\ opc \in Inside /\ opc \in Block
    BY <1>1 DEF Inside, Live, Block
<1>3. CASE back # "node"
    BY <1>1, <1>2, <1>3, NodeEndsReports DEF EnsureFailed, AtWork
<1>4. CASE back = "node"
    <2>1. /\ RecordFailures(rest) /\ opc' \in Block
          /\ UNCHANGED <<failedJobs, unclosed, verdict, driver, here>>
        BY <1>1, <1>4 DEF EnsureFailed, Block, planVars, segVars
    <2>2. /\ rest # {} /\ rest \subseteq pending /\ pending \subseteq Nodes
          /\ \A n \in pending : BinaryOf[n] = here
        BY <1>1, <1>2 DEF TallyInv, OwnType
    <2>3. \A n \in rest : Untouched(n)
        BY <1>1, <1>2, <1>4, <2>2 DEF TallyInv, SegmentInv, AtWork
    <2>4. /\ \A t \in Tasks : t \notin rest => state'[t] = state[t]
          /\ \A n \in rest : state[n] = "PENDING" /\ state'[n] = "ABORTED"
        BY <2>1, <2>2, <2>3, Recording DEF Untouched
    <2>5. /\ OpenJob = {here} /\ OpenJob' = {here} /\ Spoilt' = Spoilt /\ verdict = "none"
          /\ here \in Binaries /\ state[here] = "RUNNING"
        BY <1>2, <2>1, WorkerOpen DEF OpenJob, Spoilt
    <2>6. \A n \in rest : n \in NodesOf(here)
        BY <2>2, <2>5, PlanShape
    <2>7. Report!GiveUp(here)
        BY <2>1, <2>4, <2>5, <2>6, PlanShape DEF Report!GiveUp, Report!Only, Report!Of, NodesOf, Tasks
    <2>8. Blameworthy(here)'
        BY <2>1, <2>2, <2>4, <2>6 DEF Blameworthy, Bad
    <2> QED BY <2>1, <2>5, <2>7, <2>8 DEF ReportStep, Report!Next
<1> QED BY <1>3, <1>4

\* The error of the with block itself.
LEMMA HandlerReports ==
    ASSUME OwnInv, driver # "bare", Handler
    PROVE  /\ ReportStep /\ UNCHANGED <<failedJobs, unclosed>>
           /\ Blameworthy(here)'
<1> DEFINE ns == IF driver = "full" THEN pending ELSE rest
<1>1. /\ opc = "handler" /\ UNCHANGED <<planVars, segVars, nodeVars, failedJobs, unclosed, verdict>>
      /\ TallyInv /\ JobsInv /\ OwnType /\ VerdictInv
      /\ RecordFailures(ns) /\ opc' \in {"segmentEnd", "abort"}
    BY DEF OwnInv, PlanInv, Handler
<1>2. opc \in Live /\ opc \in InSegment
    BY <1>1 DEF Live, InSegment
<1>3. /\ ns \subseteq pending /\ pending \subseteq Nodes /\ pending # {} /\ (pending = rest => ns = pending)
      /\ \A n \in pending : BinaryOf[n] = here
    BY <1>1, <1>2 DEF TallyInv, OwnType
<1>4. \/ pending = rest /\ \A n \in pending : Untouched(n)
      \/ here \in unclosed /\ \A n \in pending : Done(n)
    BY <1>1, <1>2 DEF TallyInv, SegmentInv
<1> HIDE DEF ns
<1>5. \A n \in ns : counted[n] \in {0, 1} /\ (state[n] = "PENDING" \/ state[n] \in Terminal)
    BY <1>3, <1>4 DEF Untouched, Done
<1>6. /\ \A t \in Tasks : t \notin ns \/ state[t] \in Terminal => state'[t] = state[t]
      /\ \A n \in ns : state[n] = "PENDING" => state'[n] = "ABORTED"
    BY <1>1, <1>3, <1>5, Recording
<1>7. /\ OpenJob = {} /\ OpenJob' = {} /\ Spoilt' = Spoilt /\ verdict = "none" /\ verdict' = verdict
      /\ here \in Binaries /\ state[here] = "RUNNING" /\ here' = here
    BY <1>1, <1>2 DEF OpenJob, Spoilt, Block, OwnType, JobsInv, VerdictInv, planVars, segVars
<1>8. \A n \in ns : n \in NodesOf(here)
    BY <1>3, <1>7, PlanShape
<1>9. Report!GiveUp(here)
    BY <1>5, <1>6, <1>7, <1>8, PlanShape DEF Report!GiveUp, Report!Only, Report!Of, NodesOf, Tasks
<1>10. Blameworthy(here)'
    <2>1. CASE here \in unclosed
        BY <1>1, <1>7, <2>1 DEF Blameworthy
    <2>2. CASE pending = rest /\ \A n \in pending : Untouched(n)
        BY <1>3, <1>6, <1>7, <1>8, <2>2 DEF Blameworthy, Bad, Untouched
    <2> QED BY <1>4, <2>1, <2>2
<1> QED BY <1>1, <1>7, <1>9, <1>10 DEF ReportStep, Report!Next

\* The end of the with block.
LEMMA LeftReports ==
    ASSUME OwnInv, driver # "bare", answer \in {"ok", "lifecycle", "raise"}, Left
    PROVE  /\ ReportStep /\ UNCHANGED <<failedJobs, failed, broken>>
           /\ unclosed \subseteq unclosed'
<1>1. /\ opc \in {"leaving", "unwinding"} /\ opc' \notin Block
      /\ unclosed' \in {unclosed, unclosed \cup {here}}
      /\ UNCHANGED <<driver, here, state, failed, broken, failedJobs, verdict>>
    <2>1. opc' \in {"abort", "segmentEnd", "handler"}
        BY DEF Left
    <2> QED BY <2>1 DEF Left, Block, planVars, segVars
<1>2. opc \in Block
    BY <1>1 DEF Block
<1>3. OpenJob = {here} /\ OpenJob' = {} /\ verdict = "none" /\ here \in Binaries
      /\ Spoilt' \in {Spoilt, Spoilt \cup {here}}
    BY <1>1, <1>2, WorkerOpen DEF OpenJob, Spoilt
<1>4. Report!Close(here)
    BY <1>1, <1>3 DEF Report!Close
<1> QED BY <1>1, <1>3, <1>4 DEF ReportStep, Report!Next

\* A new segment.
LEMMA StartSegmentReports ==
    ASSUME OwnInv, driver # "bare", StartSegment
    PROVE  ReportStep /\ UNCHANGED <<failedJobs, unclosed>> /\ failed' = before' /\ broken' = FALSE
<1>1. PICK existing \in SUBSET NextSegment :
          /\ pending' = NextSegment \ existing /\ state' = Emit(state, existing, "SKIPPED")
    BY DEF StartSegment
<1>2. /\ opc = "segment" /\ left # {} /\ BinaryOf[First(left)] \in validated
      /\ here' = BinaryOf[First(left)] /\ before' = failed /\ broken' = FALSE
      /\ opc' = IF pending' = {} THEN "segmentEnd" ELSE "entering"
      /\ UNCHANGED <<driver, failed, failedJobs, unclosed, verdict>>
      /\ TallyInv /\ JobsInv /\ VerdictInv /\ OwnType
    BY DEF OwnInv, PlanInv, StartSegment, planVars
<1>3. \A n \in NextSegment : n \in NodesOf(here') /\ n \in Tasks /\ Untouched(n)
    BY <1>2, SegmentShape, PlanShape DEF OwnType, TallyInv, Live
<1>4. /\ \A t \in Tasks : t \notin existing => state'[t] = state[t]
      /\ \A n \in existing : state[n] = "PENDING" /\ state'[n] = "SKIPPED"
    <2>1. "SKIPPED" \in Status
        BY DEF Status, Terminal
    <2> QED BY <1>1, <1>2, <1>3, <2>1, Emitted DEF OwnType, Untouched
<1>5. here' \in Binaries /\ state[here'] = "RUNNING"
    BY <1>2, SegmentShape DEF OwnType, JobsInv, Live
<1>6. OpenJob = {} /\ OpenJob' = (IF pending' = {} THEN {} ELSE {here'}) /\ Spoilt' = Spoilt /\ verdict = "none"
    BY <1>2 DEF OpenJob, Spoilt, Block, VerdictInv
<1>7. pending' # {} => \E n \in NodesOf(here') : state'[n] = "PENDING"
    BY <1>1, <1>3, <1>4 DEF Untouched
<1> DEFINE b == here'
<1> HIDE DEF b, NextSegment
<1>8. Report!Enter(b)
    <2>1. \A n \in existing : n \in Report!Of(b)
        BY <1>1, <1>3 DEF b, Report!Of, NodesOf
    <2>2. Report!Only(Report!Of(b))
        BY <1>4, <2>1 DEF Report!Only, Tasks
    <2>3. \A n \in Report!Of(b) : state'[n] = state[n] \/ (state[n] = "PENDING" /\ state'[n] = "SKIPPED")
        BY <1>4, PlanShape DEF Report!Of
    <2>4. OpenJob' \in {{}, {b}} /\ (OpenJob' = {b} => \E n \in Report!Of(b) : state'[n] = "PENDING")
        BY <1>6, <1>7 DEF b, Report!Of, NodesOf
    <2> QED BY <1>2, <1>5, <1>6, <2>2, <2>3, <2>4 DEF Report!Enter, b
<1>9. b \in Binaries
    BY <1>5 DEF b
<1> QED BY <1>2, <1>6, <1>8, <1>9 DEF ReportStep, Report!Next

\* The end of a segment: in a full run its job is judged.
LEMMA SegmentEndReports ==
    ASSUME OwnInv, CauseInv, driver # "bare", SegmentEnd
    PROVE  ReportStep /\ UNCHANGED unclosed /\ failedJobs' \subseteq failedJobs \cup {here}
           /\ (failedJobs' # failedJobs => Blameworthy(here))
<1>1. /\ opc = "segmentEnd" /\ opc' = "segment"
      /\ failedJobs' = IF driver = "selected" /\ SegmentFailed THEN failedJobs \cup {here} ELSE failedJobs
      /\ state' = IF driver = "selected" THEN state
                  ELSE Emit(state, {here}, IF SegmentFailed THEN "FAILED" ELSE "SUCCEEDED")
      /\ UNCHANGED <<driver, here, unclosed, verdict>>
      /\ TallyInv /\ JobsInv /\ VerdictInv /\ OwnType
    BY DEF OwnInv, PlanInv, SegmentEnd, planVars, segVars
<1>2. opc \in Live /\ opc \in InSegment /\ opc \notin Block /\ opc' \notin Block
    BY <1>1 DEF Live, InSegment, Block
<1>3. here \in Binaries /\ here \in Tasks /\ state[here] = "RUNNING"
    BY <1>1, <1>2, PlanShape DEF OwnType, JobsInv
<1>4. SegmentFailed => Blameworthy(here)
    BY <1>1, <1>2 DEF SegmentFailed, CauseInv
<1>5. failedJobs' \subseteq failedJobs \cup {here} /\ (failedJobs' # failedJobs => Blameworthy(here))
    BY <1>1, <1>4
<1>6. CASE driver = "selected"
    BY <1>1, <1>2, <1>5, <1>6, QuietReports
<1>7. CASE driver # "selected"
    <2>1. driver = "full"
        BY <1>1, <1>7, DriverAssumption DEF OwnType
    <2> DEFINE s == IF SegmentFailed THEN "FAILED" ELSE "SUCCEEDED"
    <2>2. s \in Status /\ s \in Terminal
        BY DEF Status, Terminal
    <2>3. state' = Emit(state, {here}, s)
        BY <1>1, <1>7
    <2>4. (s = "FAILED" <=> SegmentFailed) /\ s \in {"FAILED", "SUCCEEDED"}
        OBVIOUS
    <2> HIDE DEF s
    <2>5. state'[here] = s /\ \A t \in Tasks : t # here => state'[t] = state[t]
        <3>1. state \in [Tasks -> Status] /\ here \in {here} /\ \A t \in Tasks : t # here => t \notin {here}
            BY <1>1 DEF OwnType
        <3> QED BY <1>3, <2>2, <2>3, <3>1, Emitted
    <2>6. \A n \in NodesOf(here) : n \in Nodes /\ n # here /\ state[n] \in Terminal
        <3> SUFFICES ASSUME NEW n \in NodesOf(here) PROVE n \in Nodes /\ n # here /\ state[n] \in Terminal
            OBVIOUS
        <3>1. n \in Nodes /\ BinaryOf[n] = here /\ n # here
            BY <1>3, PlanShape
        <3>2. n \notin left
            BY <1>1, <1>2, <2>1, <3>1 DEF JobsInv
        <3>3. Recorded(n)
            BY <1>1, <1>2, <3>1, <3>2 DEF TallyInv, SegmentInv
        <3> QED BY <3>1, <3>3 DEF Recorded, Done
    <2>7. s = "SUCCEEDED" => here \notin unclosed /\ \A n \in NodesOf(here) : Fine(n)
        <3> SUFFICES ASSUME s = "SUCCEEDED" PROVE here \notin unclosed /\ \A n \in NodesOf(here) : Fine(n)
            OBVIOUS
        <3>1. VerdictHonest'
            BY SegmentEndPreserves DEF OwnInv, PlanInv, VerdictInv
        <3>2. here \notin unclosed /\ \A n \in NodesOf(here) : Fine(n)'
            BY <1>1, <1>3, <2>5, <3>1 DEF VerdictHonest, NodesOf
        <3> QED BY <2>5, <2>6, <3>2, PlanShape DEF Fine
    <2>8. Report!Conclude(here)
        <3>1. Report!Judged(here)
            BY <1>1, <1>4, <2>4, <2>5, <2>7 DEF Report!Judged, Report!Of, NodesOf, Report!Fine, Fine, Blameworthy,
               Spoilt, Bad, Report!Bad
        <3>2. \A n \in Report!Of(here) : state[n] \in Report!Terminal
            BY <2>6 DEF Report!Of, NodesOf, Report!Terminal, Report!Bad, Terminal
        <3> QED BY <1>1, <1>2, <1>3, <2>4, <2>5, <3>1, <3>2
            DEF Report!Conclude, Report!Only, OpenJob, Spoilt, Tasks
    <2> QED BY <1>1, <1>2, <1>3, <1>5, <2>8 DEF ReportStep, Report!Next, VerdictInv
<1> QED BY <1>6, <1>7

\* The jobs begin, or fail with their nodes.
LEMMA PrepareReports ==
    ASSUME OwnInv, Prepare
    PROVE  ReportStep /\ UNCHANGED <<failedJobs, unclosed>> /\ failedJobs = {}
<1>1. PICK seen \in SUBSET Binaries : \E bad \in SUBSET seen :
          /\ opc = "prepare" /\ opc' \in {"abort", "segment"}
          /\ \A t \in Tasks : state[t] = "PENDING"
          /\ \A n \in Nodes : state'[n] = IF BinaryOf[n] \in bad THEN "ABORTED" ELSE "PENDING"
          /\ \A b \in Binaries :
                state'[b] = IF b \in bad THEN "FAILED" ELSE IF b \in seen THEN "RUNNING" ELSE "PENDING"
    BY Prepared
<1>2. PICK bad \in SUBSET seen :
          /\ opc = "prepare" /\ opc' \in {"abort", "segment"}
          /\ \A t \in Tasks : state[t] = "PENDING"
          /\ \A n \in Nodes : state'[n] = IF BinaryOf[n] \in bad THEN "ABORTED" ELSE "PENDING"
          /\ \A b \in Binaries :
                state'[b] = IF b \in bad THEN "FAILED" ELSE IF b \in seen THEN "RUNNING" ELSE "PENDING"
    BY <1>1
<1>3. /\ UNCHANGED <<driver, failedJobs, unclosed, verdict>> /\ failedJobs = {} /\ verdict = "none"
    BY <1>2 DEF OwnInv, PlanInv, TallyInv, VerdictInv, Prepare
<1>4. OpenJob = {} /\ OpenJob' = {} /\ Spoilt' = Spoilt
    BY <1>2, <1>3 DEF OpenJob, Spoilt, Block
<1>5. Report!Only(seen \cup {n \in Nodes : BinaryOf[n] \in bad})
    <2> SUFFICES ASSUME NEW t \in Nodes \cup Binaries, t \notin seen, t \notin {n \in Nodes : BinaryOf[n] \in bad}
                 PROVE  state'[t] = state[t]
        BY DEF Report!Only
    <2>1. t \in Tasks /\ state[t] = "PENDING"
        BY <1>2 DEF Tasks
    <2>2. CASE t \in Nodes
        BY <1>2, <2>1, <2>2
    <2>3. CASE t \in Binaries
        BY <1>2, <2>1, <2>3
    <2> QED BY <2>2, <2>3
<1>6. /\ \A j \in seen : state[j] = "PENDING" /\ state'[j] = IF j \in bad THEN "FAILED" ELSE "RUNNING"
      /\ \A n \in Nodes : BinaryOf[n] \in bad => state[n] = "PENDING" /\ state'[n] = "ABORTED"
    BY <1>2, PlanShape
<1>7. Report!Validate
    BY <1>3, <1>4, <1>5, <1>6 DEF Report!Validate
<1> QED BY <1>3, <1>7 DEF ReportStep, Report!Next

\* The end of the run: the jobs that waited for it are judged.
LEMMA FinishReports ==
    ASSUME OwnInv, CauseInv, driver # "bare", Finish
    PROVE  ReportStep
<1>1. /\ opc = "segment" /\ opc' = "over" /\ opc \in Live
      /\ UNCHANGED <<driver, failedJobs, unclosed>> /\ verdict = "none"
    BY DEF OwnInv, PlanInv, VerdictInv, Finish, planVars, Live
<1>2. /\ verdict' \in {"SUCCEEDED", "FAILED"} /\ VerdictHonest'
    BY FinishPreserves DEF OwnInv, PlanInv, VerdictInv, Finish
<1>3. /\ \A n \in Nodes : state'[n] = state[n] /\ state[n] \in Terminal
      /\ \A b \in Binaries :
            IF driver = "selected" /\ b \in validated
            THEN state[b] = "RUNNING" /\ state'[b] = IF b \in failedJobs THEN "FAILED" ELSE "SUCCEEDED"
            ELSE state[b] \in Terminal /\ state'[b] = state[b]
    BY Finished
<1>4. OpenJob = {} /\ OpenJob' = {} /\ Spoilt = unclosed /\ Spoilt' = Spoilt
    BY <1>1 DEF OpenJob, Spoilt, Block
<1>5. \A x : x \in Terminal <=> x \in Report!Terminal
    BY DEF Terminal, Report!Terminal, Report!Bad
<1>6. ASSUME NEW b \in Binaries, driver = "selected", b \in validated
      PROVE  Report!Judged(b)
    <2>1. state'[b] = "FAILED" => Blameworthy(b)
        BY <1>1, <1>3, <1>6 DEF CauseInv
    <2>2. state'[b] = "SUCCEEDED" => b \notin unclosed /\ \A n \in NodesOf(b) : n \in Nodes /\ Fine(n)
        BY <1>1, <1>2, <1>3, PlanShape DEF VerdictHonest, Fine
    <2> QED BY <1>4, <2>1, <2>2
            DEF Report!Judged, Report!Of, Report!Fine, Report!Bad, Fine, Bad, NodesOf, Blameworthy
<1>7. \A b \in Binaries : IF state[b] \in Report!Terminal THEN state'[b] = state[b]
                          ELSE state'[b] = "ABORTED"
                               \/ (state[b] = "RUNNING" /\ state'[b] \in {"SUCCEEDED", "FAILED"} /\ Report!Judged(b))
    <2> SUFFICES ASSUME NEW b \in Binaries
                 PROVE  IF state[b] \in Report!Terminal THEN state'[b] = state[b]
                        ELSE state[b] = "RUNNING" /\ state'[b] \in {"SUCCEEDED", "FAILED"} /\ Report!Judged(b)
        OBVIOUS
    <2>1. CASE driver = "selected" /\ b \in validated
        <3>1. state[b] = "RUNNING" /\ state'[b] \in {"SUCCEEDED", "FAILED"}
            BY <1>3, <2>1
        <3> QED BY <1>6, <2>1, <3>1 DEF Report!Terminal, Report!Bad
    <2>2. CASE ~(driver = "selected" /\ b \in validated)
        BY <1>3, <1>5, <2>2
    <2> QED BY <2>1, <2>2
<1>8. verdict' = IF \A b \in Binaries : state'[b] = "SUCCEEDED" THEN "SUCCEEDED" ELSE "FAILED"
    <2>1. verdict' = "SUCCEEDED" => \A b \in Binaries : state'[b] = "SUCCEEDED"
        BY <1>2 DEF VerdictHonest
    <2>2. ASSUME verdict' = "FAILED", \A b \in Binaries : state'[b] = "SUCCEEDED"
          PROVE  FALSE
        <3>1. PICK t \in Tasks : state'[t] \in {"FAILED", "ABORTED"}
            BY <1>2, <2>2 DEF VerdictHonest
        <3>2. t \in Nodes
            BY <2>2, <3>1 DEF Tasks
        <3>3. BinaryOf[t] \in Binaries /\ t \in NodesOf(BinaryOf[t])
            BY <3>2, PlanShape
        <3>4. Fine(t)'
            BY <1>2, <2>2, <3>3 DEF VerdictHonest, NodesOf
        <3> QED BY <3>1, <3>4 DEF Fine
    <2> QED BY <1>2, <2>1, <2>2
<1>9. Report!Judge
    <2>1. \A n \in Nodes : state'[n] = IF state[n] \in Report!Terminal THEN state[n] ELSE "ABORTED"
        BY <1>3, <1>5
    <2> QED BY <1>4, <1>7, <1>8, <2>1 DEF Report!Judge
<1> QED BY <1>1, <1>9 DEF ReportStep, Report!Next

\* A run that breaks off.
LEMMA AbortReports ==
    ASSUME OwnInv, driver # "bare", Abort
    PROVE  ReportStep
<1>1. /\ opc = "abort" /\ opc' = "over" /\ verdict' = "FAILED" /\ verdict = "none"
      /\ UNCHANGED <<driver, unclosed>> /\ state' = Emit(state, Tasks, "ABORTED")
      /\ \E b \in Binaries : state[b] \notin {"SUCCEEDED", "SKIPPED"}
    BY DEF OwnInv, PlanInv, VerdictInv, Abort, planVars
<1>2. \A t \in Tasks : state'[t] = IF state[t] \in Report!Terminal THEN state[t] ELSE "ABORTED"
    <2>1. \A x : x \in Terminal <=> x \in Report!Terminal
        BY DEF Terminal, Report!Terminal, Report!Bad
    <2> QED BY <1>1, <2>1, AllSettled DEF OwnInv, OwnType
<1>3. OpenJob = {} /\ OpenJob' = {} /\ Spoilt' = Spoilt
    BY <1>1 DEF OpenJob, Spoilt, Block
<1>4. ~ \A b \in Binaries : state'[b] = "SUCCEEDED"
    BY <1>1, <1>2, PlanShape
<1>5. Report!Judge
    BY <1>1, <1>2, <1>3, <1>4, PlanShape DEF Report!Judge
<1> QED BY <1>1, <1>5 DEF ReportStep, Report!Next

\* What is held against a job is not taken back.
LEMMA BlameStays ==
    ASSUME OwnInv, ReportStep, unclosed \subseteq unclosed', NEW b, Blameworthy(b)
    PROVE  Blameworthy(b)'
<1>1. CASE b \in unclosed
    BY <1>1 DEF Blameworthy
<1>2. CASE b \notin unclosed
    <2>1. PICK n \in NodesOf(b) : state[n] \in Bad
        BY <1>2 DEF Blameworthy
    <2>2. n \in Nodes /\ n \notin Binaries /\ BinaryOf[n] = b
        BY <2>1, PlanShape
    <2>3. state[n] \in Report!Terminal /\ state[n] # "PENDING" /\ state[n] # "RUNNING"
        BY <2>1 DEF Bad, Report!Terminal, Report!Bad
    <2>4. state'[n] = state[n]
        <3>1. CASE UNCHANGED Report!vars
            BY <3>1 DEF Report!vars
        <3>2. CASE Report!Validate
            BY <2>2, <2>3, <3>2 DEF Report!Validate, Report!Only
        <3>3. CASE \E j \in Binaries : Report!Enter(j) \/ Report!GiveUp(j) \/ Report!Close(j) \/ Report!Conclude(j)
            BY <2>2, <2>3, <3>3
               DEF Report!Enter, Report!GiveUp, Report!Close, Report!Conclude, Report!Only, Report!Of
        <3>4. CASE \E m \in Nodes : Report!Work(m)
            BY <2>2, <2>3, <3>4 DEF Report!Work, Report!Only
        <3>5. CASE Report!Judge
            BY <2>2, <2>3, <3>5 DEF Report!Judge
        <3> QED BY <3>1, <3>2, <3>3, <3>4, <3>5 DEF ReportStep, Report!Next
    <2> QED BY <2>1, <2>4 DEF Blameworthy, NodesOf
<1> QED BY <1>1, <1>2

\* A step inside a segment that leaves a cause for what it counts keeps CauseInv.
LEMMA CauseKept ==
    ASSUME OwnInv, CauseInv, driver # "bare", ReportStep, unclosed \subseteq unclosed',
           UNCHANGED <<driver, failedJobs, before, here>>,
           opc \in Live \ {"segment"} \/ opc' \notin Live,
           failed' # failed \/ broken' # broken => Blameworthy(here)'
    PROVE  CauseInv'
<1> SUFFICES ASSUME opc' \in Live
             PROVE  /\ \A b \in failedJobs : Blameworthy(b)'
                    /\ failed' > before' \/ broken' => Blameworthy(here)'
    BY DEF CauseInv
<1>1. \A b \in failedJobs : Blameworthy(b)'
    BY BlameStays DEF CauseInv
<1>2. failed > before \/ broken => Blameworthy(here)'
    BY BlameStays DEF CauseInv
<1> QED BY <1>1, <1>2

\* The report at the start.
LEMMA InitReport == Init => CauseInv /\ Report!Init
BY DEF Init, CauseInv, Live, Report!Init, OpenJob, Spoilt, Block, Tasks

\* Every step of the run is one of its report.
LEMMA NextReport == ReportInv /\ [Next]_vars => ReportStep /\ CauseInv'
<1> SUFFICES ASSUME RunInv, OwnInv, CauseInv, [Next]_vars PROVE ReportStep /\ CauseInv'
    BY DEF ReportInv
<1>1. answer \in {"ok", "lifecycle", "raise"}
    BY DEF RunInv, LifeInv, LifeTypeOK, Answer
<1>2. CASE UNCHANGED ownerVars
    BY <1>2 DEF ownerVars, planVars, segVars, nodeVars, sumVars, ReportStep, Report!vars, OpenJob, Spoilt, CauseInv,
       Blameworthy
<1>3. CASE driver = "bare" /\ Step
    <2>1. driver' = driver
        BY <1>3 DEF OwnInv, PlanInv, DriverInv, Failing, Step, Prepare, PassOver, StartSegment, Open, Entered,
           StartNode, InspectInputs, InspectOutputs, Inspect, Preprocess, Agent, Interrupted, Ensure, Ensured,
           EnsureFailed, EnsureRaised, BodyDone, Leave, Left, Handler, SegmentEnd, Finish, Abort, ownerVars, planVars
    <2> QED BY <1>3, <2>1, BareReports DEF CauseInv
<1>4. CASE driver # "bare" /\ Step
    <2>1. CASE Prepare
        <3>1. ReportStep /\ UNCHANGED failedJobs /\ failedJobs = {}
            BY <2>1, PrepareReports
        <3> QED BY <2>1, <3>1 DEF Prepare, CauseInv, Live
    <2>2. CASE PassOver
        <3>1. opc = "segment" /\ opc' = "segment" /\ UNCHANGED <<driver, sumVars>>
            BY <2>2 DEF PassOver, planVars
        <3>2. ReportStep
            BY <3>1, QuietReports DEF sumVars, Block
        <3> QED BY <3>1, <3>2 DEF CauseInv, Live, sumVars, Blameworthy
    <2>3. CASE StartSegment
        <3>1. ReportStep /\ UNCHANGED <<driver, failedJobs, unclosed>> /\ failed' = before' /\ broken' = FALSE
            BY <1>4, <2>3, StartSegmentReports DEF StartSegment, planVars
        <3>2. \A b \in failedJobs : Blameworthy(b)'
            BY <1>4, <2>3, <3>1, BlameStays DEF CauseInv, StartSegment, Live
        <3>3. before' \in Nat
            BY <2>3 DEF StartSegment, OwnInv, OwnType
        <3> QED BY <3>1, <3>2, <3>3 DEF CauseInv
    <2>4. CASE \/ Entered \/ InspectInputs \/ Preprocess \/ Agent \/ InspectOutputs \/ Interrupted
               \/ Ensure \/ Ensured \/ EnsureRaised \/ BodyDone \/ Leave
        <3>1. /\ ReportStep /\ UNCHANGED <<failedJobs, broken, unclosed>>
              /\ failed' # failed => Blameworthy(here)'
            BY <1>1, <1>4, <2>4, WorkReports
        <3>2. UNCHANGED <<driver, before, here>>
            BY <2>4 DEF Entered, InspectInputs, Preprocess, Agent, InspectOutputs, Inspect, Interrupted, Ensure,
               Ensured, EnsureRaised, BodyDone, Leave, planVars, segVars
        <3>3. opc \in Live \ {"segment"} \/ opc' \notin Live
            BY <1>4, <2>4 DEF Entered, InspectInputs, Preprocess, Agent, InspectOutputs, Inspect, Interrupted, Ensure,
               AskedFrom, Ensured, EnsureRaised, BodyDone, Leave, OwnInv, PlanInv, DriverInv, Live, Failing
        <3> QED BY <1>4, <3>1, <3>2, <3>3, CauseKept
    <2>5. CASE StartNode \/ EnsureFailed \/ Handler
        <3>1. /\ ReportStep /\ UNCHANGED <<failedJobs, unclosed>>
              /\ failed' # failed \/ broken' # broken => Blameworthy(here)'
            BY <1>4, <2>5, StartNodeReports, EnsureFailedReports, HandlerReports
        <3>2. UNCHANGED <<driver, before, here>> /\ opc \in Live \ {"segment"}
            BY <2>5 DEF StartNode, EnsureFailed, Handler, planVars, segVars, Live
        <3> QED BY <1>4, <3>1, <3>2, CauseKept
    <2>6. CASE Left
        <3>1. ReportStep /\ UNCHANGED <<failedJobs, failed, broken>> /\ unclosed \subseteq unclosed'
            BY <1>1, <1>4, <2>6, LeftReports
        <3>2. UNCHANGED <<driver, before, here>> /\ (opc \in Live \ {"segment"} \/ opc' \notin Live)
            BY <1>4, <2>6 DEF Left, planVars, segVars, Live
        <3> QED BY <1>4, <3>1, <3>2, CauseKept
    <2>7. CASE SegmentEnd
        <3>1. /\ ReportStep /\ UNCHANGED unclosed /\ failedJobs' \subseteq failedJobs \cup {here}
              /\ (failedJobs' # failedJobs => Blameworthy(here))
            BY <1>4, <2>7, SegmentEndReports
        <3>2. opc = "segmentEnd" /\ opc' = "segment" /\ driver' = driver /\ opc \in Live
            BY <2>7 DEF SegmentEnd, planVars, Live
        <3>3. \A b \in failedJobs' : Blameworthy(b)
            BY <1>4, <3>1, <3>2 DEF CauseInv
        <3>4. \A b \in failedJobs' : Blameworthy(b)'
            BY <3>1, <3>3, BlameStays
        <3> QED BY <3>1, <3>2, <3>4 DEF CauseInv
    <2>8. CASE Finish \/ Abort
        <3>1. opc' \notin Live
            BY <2>8 DEF Finish, Abort, Live
        <3> QED BY <1>4, <2>8, <3>1, FinishReports, AbortReports DEF CauseInv
    <2>9. ~Open
        BY <1>4 DEF Open
    <2> QED BY <1>2, <1>4, <2>1, <2>2, <2>3, <2>4, <2>5, <2>6, <2>7, <2>8, <2>9 DEF Step
<1> QED BY <1>2, <1>3, <1>4 DEF Next, vars

\* A run implements RunReport, for every plan and driver: its nodes are reported one at a time
\* and under the worker of their job, no job succeeds above a bad node or fails without a
\* cause, and the verdict, which nothing follows, is that of its jobs.
THEOREM RunImplementsReport == Spec => ImplementsRunReport
<1>1. Init => ReportInv /\ Report!Init
    BY InitRun, InitOwn, InitReport DEF ReportInv
<1>2. ReportInv /\ [Next]_vars => ReportInv' /\ [Report!Next]_(Report!vars)
    BY NextRun, NextOwn, NextReport DEF ReportInv, ReportStep
<1> QED BY <1>1, <1>2, PTL DEF Spec, ImplementsRunReport, Report!Spec
=============================================================================
