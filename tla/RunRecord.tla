----------------------------- MODULE RunRecord -----------------------------
(***************************************************************************)
(* What whoever reads a run's record in Redis may rely on, however many    *)
(* requests of its reporter are lost, repeated or late and whoever settles *)
(* the run: the plan is installed once and its tasks are told only after   *)
(* it; the run and its tasks go forward only, each event of a task under a *)
(* greater revision; a verdict stays; and from the moment a scheduler      *)
(* settles the run, its tasks and counters stay as well.                   *)
(***************************************************************************)
EXTENDS Integers

CONSTANT Task

VARIABLES status,    \* the run's status
          task,      \* each task's status
          revision,  \* each task's revision, -1 before there is one
          counts,    \* the counters
          installed, \* the plan is there
          settled    \* a scheduler has settled the installed run

vars == <<status, task, revision, counts, installed, settled>>

Verdict    == {"succeeded", "failed", "aborted"}
Conclusion == {"succeeded", "failed", "skipped", "aborted"}

Init == /\ status \in {"none", "starting"}
        /\ task = [t \in Task |-> "absent"]
        /\ revision = [t \in Task |-> -1]
        /\ ~installed
        /\ ~settled

\* Forward, by one event or by several that a replay makes one.
TaskForward(old, new) ==
    \/ old = new
    \/ old = "pending" /\ new \in {"running"} \union Conclusion
    \/ old = "running" /\ new \in Conclusion

RunForward(old, new) ==
    \/ old = new
    \/ old = "none" /\ new = "starting"
    \/ old = "starting" /\ new \in {"running"} \union Verdict
    \/ old = "running" /\ new \in Verdict

Install == /\ ~installed /\ installed'
           /\ status' = IF status = "none" THEN "starting" ELSE status
           /\ \A t \in Task : task'[t] = "pending" /\ revision'[t] >= 0
           /\ UNCHANGED settled

\* An event of a task; of a settled run's task only the revision can still change.
Tell(t) == /\ installed
           /\ TaskForward(task[t], task'[t]) /\ revision'[t] > revision[t]
           /\ \A u \in Task \ {t} : task'[u] = task[u] /\ revision'[u] = revision[u]
           /\ settled => task' = task /\ counts' = counts
           /\ UNCHANGED <<status, installed, settled>>

\* An event of the run, or its finalization, which corrects the counters.
Announce == /\ installed
            /\ RunForward(status, status')
            /\ settled => counts' = counts
            /\ UNCHANGED <<task, revision, installed, settled>>

\* A scheduler's verdict, which aborts what is unfinished in an installed plan.
Abort(t) == installed /\ task[t] \notin Conclusion /\ task'[t] = "aborted" /\ revision'[t] > revision[t]

Settle == /\ status \in {"starting", "running"} /\ status' \in Verdict
          /\ \A t \in Task : Abort(t) \/ (task'[t] = task[t] /\ revision'[t] = revision[t])
          /\ settled' = installed
          /\ UNCHANGED installed

Next == Install \/ (\E t \in Task : Tell(t)) \/ Announce \/ Settle

Spec == Init /\ [][Next]_vars
=============================================================================
