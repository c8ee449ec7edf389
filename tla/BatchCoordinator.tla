-------------------------- MODULE BatchCoordinator --------------------------
(***************************************************************************)
(* run_batch of analysis_batch.py: the coordinator that runs one worker    *)
(* process per work item under bounded concurrency and a memory gate,      *)
(* first the parallel items, then, if all of them succeeded, the serial    *)
(* segments one after the other.                                           *)
(*                                                                         *)
(* A work item is its place in schedule.all_items, so the smallest item of *)
(* a set is the one the code's lists hold first.  The coordinator is one   *)
(* thread; what moves beside it are the workers, which may exit or hang,   *)
(* the clock, and an interrupt (KeyboardInterrupt, SystemExit) that may    *)
(* arrive between any two of its steps.                                    *)
(***************************************************************************)
EXTENDS Integers, FiniteSets

CONSTANTS ParallelCount,   \* Len(schedule.parallel_items)
          SerialCount,     \* Len(schedule.serial_items)
          MaxConcurrency,  \* max_concurrency
          MayInterrupt     \* whether an interrupt can arrive

ASSUME BatchAssumption ==
    /\ ParallelCount \in Nat /\ SerialCount \in Nat
    /\ MaxConcurrency \in Nat \ {0}
    /\ MayInterrupt \in BOOLEAN

Item     == 1 .. (ParallelCount + SerialCount)
Parallel == 1 .. ParallelCount
Serial   == Item \ Parallel

VARIABLES
    skipError,   \* skip_error
    pc,          \* where the coordinator is
    next,        \* the next item to admit; the items after it are pending
    active,      \* items whose worker the coordinator owns
    todo,        \* workers the present loop over active has not visited
    uncleaned,   \* items whose process tree was not confirmed to be gone
    slots,       \* the gate's _active_workers
    tree,        \* tree[i]: the worker's process tree
    expired,     \* workers that ran longer than worker_timeout_seconds
    waited,      \* the admission clock of item next: "none", "started", "expired"
    tally,       \* tally[i]: how often the nodes of i were added to the outcome
    failedNodes, \* outcome.failed > 0
    aborted,     \* items whose nodes are in aborted_node_ids
    stop,        \* stop_admission
    parFailed,   \* parallel_failed
    reason,      \* failure_reason
    event        \* event[i]: the status of the task in summary.json

vars == <<skipError, pc, next, active, todo, uncleaned, slots, tree, expired,
          waited, tally, failedNodes, aborted, stop, parFailed, reason, event>>
workers == <<active, todo, uncleaned, tree, expired>>
verdict == <<tally, failedNodes, aborted, reason, event>>
switches == <<stop, parFailed>>

Ended == {"returned", "raised"}
Owned == {"admit", "launch", "launched", "poll", "record", "retire", "bury",
          "barrier", "segment", "rest", "wait", "drop"}

Init ==
    /\ skipError \in BOOLEAN
    /\ pc = "admit" /\ next = 1
    /\ active = {} /\ todo = {} /\ uncleaned = {} /\ slots = 0
    /\ tree = [i \in Item |-> "none"] /\ expired = {} /\ waited = "none"
    /\ tally = [i \in Item |-> 0] /\ failedNodes = FALSE /\ aborted = {}
    /\ stop = FALSE /\ parFailed = FALSE /\ reason = "none"
    /\ event = [i \in Item |-> "not_executed"]

First(w, set) == w \in set /\ \A v \in set : w <= v
After(i)      == {j \in Item : j > i}
Terminal      == {i \in Item : event[i] \in {"succeeded", "failed", "cancelled"}}
Because(why)  == IF reason = "none" THEN why ELSE reason

\* outcome.failed += len(node_ids), with the notification of the failure.
CountFailed(i) ==
    /\ tally' = [tally EXCEPT ![i] = @ + 1]
    /\ failedNodes' = TRUE
    /\ event' = [event EXCEPT ![i] = "failed"]

(***************************************************************************)
(* The parallel phase: admission.                                          *)
(***************************************************************************)
Pending == next \in Parallel
MayAdmit == pc = "admit" /\ ~stop /\ Pending /\ Cardinality(active) < MaxConcurrency

\* The inner loop is left; the batch sleeps and polls its workers, or the
\* outer loop is left.
EndAdmission(stopping, pending) ==
    /\ todo' = active
    /\ pc' = IF active = {} /\ (stopping \/ ~pending) THEN "barrier" ELSE "poll"

AdmissionOver ==
    /\ pc = "admit" /\ ~MayAdmit
    /\ EndAdmission(stop, Pending)
    /\ UNCHANGED <<skipError, next, active, uncleaned, slots, tree, expired, waited,
                   verdict, switches>>

Admit ==
    /\ MayAdmit
    /\ slots' = slots + 1 /\ waited' = "none" /\ pc' = "launch"
    /\ UNCHANGED <<skipError, next, workers, verdict, switches>>

\* The gate refuses while workers run: their own timeouts bound the wait.
WaitForWorkers ==
    /\ MayAdmit /\ active # {}
    /\ waited' = "none"
    /\ EndAdmission(stop, Pending)
    /\ UNCHANGED <<skipError, next, active, uncleaned, slots, tree, expired,
                   verdict, switches>>

\* Mutant of WaitIdle: every refusal restarts the admission clock.
WaitIdleAgain ==
    /\ MayAdmit /\ active = {}
    /\ waited' = "none"
    /\ EndAdmission(stop, Pending)
    /\ UNCHANGED <<skipError, next, active, uncleaned, slots, tree, expired,
                   verdict, switches>>

\* The gate refuses and no worker can release memory: the clock runs.
WaitIdle ==
    /\ MayAdmit /\ active = {} /\ waited # "expired"
    /\ waited' = "started"
    /\ EndAdmission(stop, Pending)
    /\ UNCHANGED <<skipError, next, active, uncleaned, slots, tree, expired,
                   verdict, switches>>

StopForGate(why) ==
    /\ stop' = TRUE /\ parFailed' = TRUE /\ reason' = why
    /\ EndAdmission(TRUE, Pending)
    /\ UNCHANGED <<skipError, next, active, uncleaned, slots, tree, expired,
                   tally, failedNodes, aborted, event>>

AdmissionTimeout ==
    /\ MayAdmit /\ active = {} /\ waited = "expired"
    /\ waited' = "none"
    /\ StopForGate("memory_admission_timeout")

GateError ==
    /\ MayAdmit
    /\ StopForGate("memory_gate_error")
    /\ UNCHANGED waited

(***************************************************************************)
(* Launching, in both phases.                                              *)
(***************************************************************************)
Launch ==
    /\ pc = "launch"
    /\ tree' = [tree EXCEPT ![next] = "running"]
    /\ pc' = "launched"
    /\ UNCHANGED <<skipError, next, active, todo, uncleaned, slots, expired, waited,
                   verdict, switches>>

LaunchFails ==
    /\ pc = "launch" /\ Pending
    /\ CountFailed(next)
    /\ reason' = Because("worker_launch_failed")
    /\ parFailed' = TRUE /\ stop' = (stop \/ ~skipError)
    /\ slots' = slots - 1
    /\ next' = next + 1 /\ pc' = "admit"
    /\ UNCHANGED <<skipError, workers, waited, aborted>>

SerialLaunchFails ==
    /\ pc = "launch" /\ ~Pending
    /\ CountFailed(next)
    /\ reason' = Because("worker_launch_failed")
    /\ slots' = slots - 1
    /\ pc' = "final"
    /\ UNCHANGED <<skipError, next, workers, waited, aborted, switches>>

\* The worker joins active and is reported running.
Track ==
    /\ pc = "launched"
    /\ active' = active \union {next}
    /\ event' = [event EXCEPT ![next] = "running"]
    /\ IF Pending THEN pc' = "admit" /\ next' = next + 1 /\ UNCHANGED todo
                  ELSE pc' = "wait" /\ todo' = {next} /\ UNCHANGED next
    /\ UNCHANGED <<skipError, uncleaned, slots, tree, expired, waited, tally,
                   failedNodes, aborted, reason, switches>>

(***************************************************************************)
(* Supervision: one pass over the active workers, or the wait for a serial *)
(* one.                                                                    *)
(***************************************************************************)
PollOver ==
    /\ pc = "poll" /\ todo = {}
    /\ pc' = "admit"
    /\ UNCHANGED <<skipError, next, workers, slots, waited, verdict, switches>>

StillRunning(w) ==
    /\ pc = "poll" /\ First(w, todo)
    /\ tree[w] = "running" /\ w \notin expired
    /\ todo' = todo \ {w}
    /\ UNCHANGED <<skipError, pc, next, active, uncleaned, slots, tree, expired,
                   waited, verdict, switches>>

Supervised(w) == pc \in {"poll", "wait"} /\ First(w, todo)

\* finish_worker: the slot is given back before the result is read.
Release(w) ==
    /\ Supervised(w) /\ tree[w] = "exited"
    /\ slots' = slots - 1 /\ pc' = "record"
    /\ UNCHANGED <<skipError, next, workers, waited, verdict, switches>>

\* validate_worker_result and the comparison of the exit codes.  A result that
\* breaks the contract counts like one whose nodes failed; a failed worker may
\* also report no failed node.
Record(w) ==
    /\ pc = "record" /\ First(w, todo)
    /\ \E status \in {"succeeded", "failed"}, failing \in BOOLEAN :
         /\ status = "succeeded" => ~failing
         /\ failedNodes' = (failedNodes \/ failing)
         /\ event' = [event EXCEPT ![w] = status]
    /\ tally' = [tally EXCEPT ![w] = @ + 1]
    /\ pc' = "retire"
    /\ UNCHANGED <<skipError, next, workers, slots, waited, aborted, reason, switches>>

Forget(w) == active' = active \ {w} /\ todo' = todo \ {w}

RetireSucceeded(w) ==
    /\ pc = "retire" /\ First(w, todo) /\ event[w] = "succeeded"
    /\ Forget(w)
    /\ IF w \in Parallel THEN pc' = "poll" /\ UNCHANGED next
                         ELSE pc' = "segment" /\ next' = next + 1
    /\ UNCHANGED <<skipError, uncleaned, slots, tree, expired, waited, verdict, switches>>

\* Mutant of RetireFailed: admission goes on without skip_error.
RetireFailedGoOn(w) ==
    /\ pc = "retire" /\ First(w, todo) /\ event[w] = "failed" /\ w \in Parallel
    /\ Forget(w)
    /\ parFailed' = TRUE
    /\ reason' = Because("worker_failed")
    /\ pc' = "poll"
    /\ UNCHANGED <<skipError, next, uncleaned, slots, tree, expired, waited, tally,
                   failedNodes, aborted, event, stop>>

RetireFailed(w) ==
    /\ pc = "retire" /\ First(w, todo) /\ event[w] = "failed" /\ w \in Parallel
    /\ Forget(w)
    /\ parFailed' = TRUE /\ stop' = (stop \/ ~skipError)
    /\ reason' = Because("worker_failed")
    /\ pc' = "poll"
    /\ UNCHANGED <<skipError, next, uncleaned, slots, tree, expired, waited, tally,
                   failedNodes, aborted, event>>

\* Mutant of RetireFailedSegment: the segments behind it are not aborted.
RetireFailedSegmentOnly(w) ==
    /\ pc = "retire" /\ First(w, todo) /\ event[w] = "failed" /\ w \in Serial
    /\ Forget(w)
    /\ reason' = Because("worker_failed")
    /\ pc' = "final"
    /\ UNCHANGED <<skipError, next, uncleaned, slots, tree, expired, waited, tally,
                   failedNodes, aborted, event, switches>>

RetireFailedSegment(w) ==
    /\ pc = "retire" /\ First(w, todo) /\ event[w] = "failed" /\ w \in Serial
    /\ Forget(w)
    /\ aborted' = aborted \union After(w)
    /\ tally' = [i \in Item |-> IF i \in After(w) THEN tally[i] + 1 ELSE tally[i]]
    /\ reason' = Because("worker_failed")
    /\ pc' = "final"
    /\ UNCHANGED <<skipError, next, uncleaned, slots, tree, expired, waited,
                   failedNodes, event, switches>>

\* The timeout: the tree is killed, and its end confirmed or not.
Kill(w) ==
    /\ Supervised(w) /\ tree[w] = "running" /\ w \in expired
    /\ \E end \in {"killed", "unconfirmed"} :
         /\ tree' = [tree EXCEPT ![w] = end]
         /\ reason' = Because(IF end = "killed" THEN "worker_timeout"
                                                ELSE "worker_cleanup_failed")
    /\ failedNodes' = TRUE
    /\ event' = [event EXCEPT ![w] = "failed"]
    /\ aborted' = IF w \in Serial THEN aborted \union After(w) ELSE aborted
    /\ tally' = [i \in Item |-> IF i = w \/ (w \in Serial /\ i > w)
                                THEN tally[i] + 1 ELSE tally[i]]
    /\ parFailed' = (parFailed \/ w \in Parallel)
    /\ pc' = "bury"
    /\ UNCHANGED <<skipError, next, active, todo, uncleaned, slots, expired, waited, stop>>

\* Mutant of BuryUnconfirmed: the slot is given back all the same.
BuryReleasing(w) ==
    /\ pc = "bury" /\ First(w, todo) /\ tree[w] = "unconfirmed"
    /\ Forget(w)
    /\ uncleaned' = uncleaned \union {w}
    /\ slots' = slots - 1
    /\ stop' = (stop \/ w \in Parallel)
    /\ pc' = IF w \in Parallel THEN "poll" ELSE "final"
    /\ UNCHANGED <<skipError, next, tree, expired, waited, verdict, parFailed>>

\* An unconfirmed tree keeps its slot and ends all admission.
BuryUnconfirmed(w) ==
    /\ pc = "bury" /\ First(w, todo) /\ tree[w] = "unconfirmed"
    /\ Forget(w)
    /\ uncleaned' = uncleaned \union {w}
    /\ stop' = (stop \/ w \in Parallel)
    /\ pc' = IF w \in Parallel THEN "poll" ELSE "final"
    /\ UNCHANGED <<skipError, next, slots, tree, expired, waited, verdict, parFailed>>

BuryKilled(w) ==
    /\ pc = "bury" /\ First(w, todo) /\ tree[w] = "killed" /\ w \in Parallel
    /\ Forget(w)
    /\ slots' = slots - 1
    /\ stop' = (stop \/ ~skipError)
    /\ pc' = "poll"
    /\ UNCHANGED <<skipError, next, uncleaned, tree, expired, waited, verdict, parFailed>>

\* The serial loop gives the slot back first.
BuryKilledSegment(w) ==
    /\ pc = "bury" /\ First(w, todo) /\ tree[w] = "killed" /\ w \in Serial
    /\ slots' = slots - 1
    /\ pc' = "drop"
    /\ UNCHANGED <<skipError, next, workers, waited, verdict, switches>>

DropSegment(w) ==
    /\ pc = "drop" /\ First(w, todo)
    /\ Forget(w)
    /\ pc' = "final"
    /\ UNCHANGED <<skipError, next, uncleaned, slots, tree, expired, waited, verdict, switches>>

(***************************************************************************)
(* The barrier and the serial phase.                                       *)
(***************************************************************************)
\* Mutant of SerialBlocked: the barrier waits for the workers, not for success.
SerialBlockedByWorkers == active # {}

SerialBlocked == parFailed \/ active # {}

Barrier ==
    /\ pc = "barrier"
    /\ LET left == {i \in Item : i >= next /\ (i \in Serial => SerialBlocked)}
       IN /\ aborted' = aborted \union left
          /\ tally' = [i \in Item |-> IF i \in left THEN tally[i] + 1 ELSE tally[i]]
    /\ IF SerialBlocked THEN pc' = "final" /\ UNCHANGED next
                        ELSE pc' = "segment" /\ next' = ParallelCount + 1
    /\ waited' = "none"
    /\ UNCHANGED <<skipError, workers, slots, failedNodes, reason, event, switches>>

SerialOver ==
    /\ pc = "segment" /\ next \notin Item
    /\ pc' = "final"
    /\ UNCHANGED <<skipError, next, workers, slots, waited, verdict, switches>>

\* The clock of the admission runs from the segment's first attempt on.
SerialWait ==
    /\ pc = "segment" /\ next \in Item /\ waited # "expired"
    /\ waited' = "started" /\ pc' = "rest"
    /\ UNCHANGED <<skipError, next, workers, slots, verdict, switches>>

SerialRetry ==
    /\ pc = "rest"
    /\ pc' = "segment"
    /\ UNCHANGED <<skipError, next, workers, slots, waited, verdict, switches>>

SerialAdmit ==
    /\ pc = "segment" /\ next \in Item
    /\ slots' = slots + 1 /\ waited' = "none" /\ pc' = "launch"
    /\ UNCHANGED <<skipError, next, workers, verdict, switches>>

\* The gate failed, or refused after admission_timeout_seconds.
SerialRefused ==
    /\ pc = "segment" /\ next \in Item
    /\ \/ reason' = Because("memory_gate_error")
       \/ waited = "expired" /\ reason' = Because("memory_admission_timeout")
    /\ failedNodes' = TRUE
    /\ event' = [event EXCEPT ![next] = "failed"]
    /\ aborted' = aborted \union After(next)
    /\ tally' = [i \in Item |-> IF i >= next THEN tally[i] + 1 ELSE tally[i]]
    /\ pc' = "final"
    /\ UNCHANGED <<skipError, next, workers, slots, waited, switches>>

(***************************************************************************)
(* The end: the outcome, or the sweep after an interrupt.                  *)
(***************************************************************************)
SettleEvents == event' = [i \in Item |-> IF i \in Terminal THEN event[i] ELSE "not_executed"]

Finish ==
    /\ pc = "final"
    /\ SettleEvents
    /\ failedNodes' = (failedNodes \/ aborted # {})
    /\ pc' = "returned"
    /\ UNCHANGED <<skipError, next, workers, slots, waited, tally, aborted, reason, switches>>

\* Mutant of Succeeded: only the counts decide.
SucceededByCounts == pc = "returned" /\ ~failedNodes /\ aborted = {}

\* outcome.succeeded.
Succeeded == pc = "returned" /\ ~failedNodes /\ aborted = {} /\ reason = "none"

\* Mutant of Interrupt: the serial worker that is waited for is not swept.
InterruptParallel ==
    /\ MayInterrupt /\ pc \in Owned
    /\ pc' = "sweep" /\ todo' = active \ Serial
    /\ UNCHANGED <<skipError, next, active, uncleaned, slots, tree, expired, waited,
                   verdict, switches>>

Interrupt ==
    /\ MayInterrupt /\ pc \in Owned
    /\ pc' = "sweep" /\ todo' = active
    /\ UNCHANGED <<skipError, next, active, uncleaned, slots, tree, expired, waited,
                   verdict, switches>>

\* Mutant of SweepConfirmed: worker_finished does not look at its count.
SweepUnchecked(w) ==
    /\ pc = "sweep" /\ First(w, todo)
    /\ tree' = [tree EXCEPT ![w] = "killed"]
    /\ slots' = slots - 1
    /\ event' = [event EXCEPT ![w] = "cancelled"]
    /\ todo' = todo \ {w}
    /\ UNCHANGED <<skipError, pc, next, active, uncleaned, expired, waited, tally,
                   failedNodes, aborted, reason, switches>>

\* Each owned tree is killed; the slot of a confirmed one is given back, which
\* raises when the gate counts no worker and so ends the sweep.
SweepConfirmed(w) ==
    /\ pc = "sweep" /\ First(w, todo)
    /\ tree' = [tree EXCEPT ![w] = "killed"]
    /\ IF slots < 1
       THEN pc' = "raised" /\ UNCHANGED <<slots, event, todo>>
       ELSE /\ slots' = slots - 1
            /\ event' = [event EXCEPT ![w] = "cancelled"]
            /\ todo' = todo \ {w} /\ UNCHANGED pc
    /\ UNCHANGED <<skipError, next, active, uncleaned, expired, waited, tally,
                   failedNodes, aborted, reason, switches>>

SweepUnconfirmed(w) ==
    /\ pc = "sweep" /\ First(w, todo)
    /\ tree' = [tree EXCEPT ![w] = IF @ = "running" THEN "unconfirmed" ELSE @]
    /\ event' = [event EXCEPT ![w] = "failed"]
    /\ todo' = todo \ {w}
    /\ UNCHANGED <<skipError, pc, next, active, uncleaned, slots, expired, waited, tally,
                   failedNodes, aborted, reason, switches>>

SweepOver ==
    /\ pc = "sweep" /\ todo = {}
    /\ SettleEvents
    /\ pc' = "raised"
    /\ UNCHANGED <<skipError, next, workers, slots, waited, tally, failedNodes, aborted,
                   reason, switches>>

(***************************************************************************)
(* The workers and the clock.                                              *)
(***************************************************************************)
WorkerExits(i) ==
    /\ tree[i] = "running"
    /\ tree' = [tree EXCEPT ![i] = "exited"]
    /\ UNCHANGED <<skipError, pc, next, active, todo, uncleaned, slots, expired, waited,
                   verdict, switches>>

WorkerExpires(i) ==
    /\ tree[i] = "running" /\ i \in active \ expired
    /\ expired' = expired \union {i}
    /\ UNCHANGED <<skipError, pc, next, active, todo, uncleaned, slots, tree, waited,
                   verdict, switches>>

AdmissionExpires ==
    /\ waited = "started" /\ pc \in Owned
    /\ waited' = "expired"
    /\ UNCHANGED <<skipError, pc, next, workers, slots, verdict, switches>>

Supervise(w) ==
    \/ StillRunning(w) \/ Release(w) \/ Record(w)
    \/ RetireSucceeded(w) \/ RetireFailed(w) \/ RetireFailedSegment(w)
    \/ Kill(w) \/ BuryUnconfirmed(w) \/ BuryKilled(w) \/ BuryKilledSegment(w)
    \/ DropSegment(w) \/ SweepConfirmed(w) \/ SweepUnconfirmed(w)

Coordinator ==
    \/ AdmissionOver \/ Admit \/ WaitForWorkers \/ WaitIdle \/ AdmissionTimeout
    \/ GateError \/ Launch \/ LaunchFails \/ SerialLaunchFails \/ Track \/ PollOver
    \/ Barrier \/ SerialOver \/ SerialWait \/ SerialRetry \/ SerialAdmit
    \/ SerialRefused \/ Finish \/ SweepOver
    \/ \E w \in Item : Supervise(w)

Stopped == pc \in Ended /\ UNCHANGED vars

Next ==
    \/ Coordinator \/ Interrupt \/ AdmissionExpires \/ Stopped
    \/ \E i \in Item : WorkerExits(i) \/ WorkerExpires(i)

Spec == Init /\ [][Next]_vars

\* The coordinator runs and time passes; no worker need ever exit and the gate
\* need never admit.
Fairness ==
    /\ WF_vars(Coordinator)
    /\ WF_vars(AdmissionExpires)
    /\ \A i \in Item : WF_vars(WorkerExpires(i))

FairSpec == Spec /\ Fairness

-----------------------------------------------------------------------------
FlagsOK ==
    /\ skipError \in BOOLEAN /\ failedNodes \in BOOLEAN
    /\ stop \in BOOLEAN /\ parFailed \in BOOLEAN
DataOK ==
    /\ pc \in Owned \union Ended \union {"final", "sweep"}
    /\ next \in 1 .. (ParallelCount + SerialCount + 1)
    /\ active \subseteq Item /\ todo \subseteq active
    /\ uncleaned \subseteq Item /\ expired \subseteq Item /\ aborted \subseteq Item
    /\ slots \in Nat
    /\ tree \in [Item -> {"none", "running", "exited", "killed", "unconfirmed"}]
    /\ waited \in {"none", "started", "expired"}
    /\ tally \in [Item -> Nat]
    /\ reason \in {"none", "worker_launch_failed", "worker_failed", "worker_timeout",
                   "worker_cleanup_failed", "memory_gate_error",
                   "memory_admission_timeout"}
    /\ event \in [Item -> {"not_executed", "running", "succeeded", "failed", "cancelled"}]

\* The type of the state; the gate never counts fewer than no workers.
TypeOK == FlagsOK /\ DataOK

\* Process trees that hold a binary, ports and memory, or may.
Alive == {i \in Item : tree[i] \in {"running", "unconfirmed"}}

\* A serial segment may reopen any binary and reads what every parallel item
\* wrote: its worker runs only while no other tree can be alive, and after all
\* parallel items have succeeded (the success barrier of run_batch).
SerialAlone ==
    \A s \in Serial : tree[s] = "running" =>
        /\ Alive = {s}
        /\ \A p \in Parallel : event[p] = "succeeded"

\* Until an interrupt, a tree that may be alive is paid for: the gate reserves a
\* slot for each, the trees included whose kill could not be confirmed.
SlotsCoverTrees == pc \notin {"sweep", "raised"} => Cardinality(Alive) <= slots

\* Between two steps of the schedule the gate counts exactly the workers that
\* are owned and those that were given up: no path through success, failure,
\* timeout or a failed launch gives a slot back twice or never.
SlotsExact ==
    pc \in {"admit", "barrier", "segment", "final", "returned"} =>
        slots = Cardinality(active \union uncleaned)

\* What the gate promises the rest of the machine: its count never falls below
\* the trees that may be alive, and never stays above the workers that hold one.
GateConserved == SlotsCoverTrees /\ SlotsExact

\* Every node of the schedule is in the outcome exactly once, as successful,
\* skipped, failed or aborted; only the segments behind a serial segment whose
\* launch failed are in none of them, because that branch does not abort them.
SerialLaunchFailed == reason = "worker_launch_failed" /\ ~parFailed
NodesAccounted ==
    pc = "returned" =>
        \A i \in Item :
            tally[i] = IF SerialLaunchFailed /\ i > next THEN 0 ELSE 1

\* A batch that reports success ran every item to a valid successful result and
\* left no process tree behind: a failure without failed nodes, a timeout, the
\* gate or a launch never disappears behind the counts.
SuccessIsTotal ==
    Succeeded =>
        /\ \A i \in Item : event[i] = "succeeded" /\ tally[i] = 1
        /\ Alive = {} /\ slots = 0

\* A cancellation ends with every owned worker's tree killed, or tried to be; at
\* most one tree escapes, that of a worker launched but not yet tracked.
OwnedTreesSwept ==
    pc = "raised" => \A i \in Item : tree[i] = "running" => i = next /\ i \notin active

\* However the workers and the gate behave, the batch ends: every wait is
\* bounded by a worker timeout or the admission timeout.
BatchEnds == <>(pc \in Ended)

\* What the comment on the cancellation sweep says: no process tree survives a
\* cancellation unless its kill could not be confirmed.
CancelLeavesNoTree == pc = "raised" => \A i \in Item : tree[i] # "running"

-----------------------------------------------------------------------------
(* What the batch promises of its schedule: WorkPlan.                      *)

Fate == [i \in Item |-> IF i \in Terminal THEN event[i]
                        ELSE IF tree[i] # "none" THEN "started" ELSE "waiting"]

Outcome == IF pc = "returned" THEN IF Succeeded THEN "success" ELSE "failure"
           ELSE IF pc \in {"sweep", "raised"} THEN "interrupted" ELSE "none"

\* run_batch admits an item before anything stopped it.
Open == pc \in Owned /\ ~stop

Plan == INSTANCE WorkPlan WITH
            Capacity <- MaxConcurrency,
            lenient  <- skipError,
            fate     <- Fate,
            alive    <- Alive,
            open     <- Open,
            outcome  <- Outcome

\* Workers start in the order of the schedule, within the concurrency, the serial ones alone;
\* no failure, timeout or refusal lets one start that should not, and the outcome is a success
\* exactly if every item succeeded.
ImplementsWorkPlan == Plan!Spec
=============================================================================
