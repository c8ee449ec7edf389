----------------------------- MODULE RunReport -----------------------------
(***************************************************************************)
(* What analyze promises of the run it reports, however its supervisors    *)
(* start, die, recover and stop: nodes run one at a time and only under    *)
(* the worker opened for their job; a job succeeds only above nodes that   *)
(* all went well and a worker that closed cleanly, and fails only for a    *)
(* cause that can be named; nothing changes after the verdict, which is    *)
(* that of the jobs.                                                       *)
(***************************************************************************)
CONSTANTS Node, Job, JobOf

VARIABLES state,  \* of nodes and jobs
          open,   \* the job whose worker is open
          spoilt, \* jobs whose worker did not close cleanly
          verdict

vars == <<state, open, spoilt, verdict>>

Bad == {"FAILED", "ABORTED"}
Terminal == {"SUCCEEDED", "SKIPPED"} \cup Bad

Of(j) == {n \in Node : JobOf[n] = j}
Fine(n) == state[n] \in {"SUCCEEDED", "SKIPPED"}

Init == /\ state = [t \in Node \cup Job |-> "PENDING"]
        /\ open = {} /\ spoilt = {} /\ verdict = "none"

Only(ts) == \A t \in (Node \cup Job) \ ts : state'[t] = state[t]

\* Before the first worker: jobs begin, or fail with all their nodes.
Validate ==
    /\ open = {}
    /\ \E seen \in SUBSET Job : \E bad \in SUBSET seen :
          /\ \A j \in seen : state[j] = "PENDING" /\ state'[j] = IF j \in bad THEN "FAILED" ELSE "RUNNING"
          /\ \A n \in Node : JobOf[n] \in bad => state[n] = "PENDING" /\ state'[n] = "ABORTED"
          /\ Only(seen \cup {n \in Node : JobOf[n] \in bad})
    /\ UNCHANGED <<open, spoilt, verdict>>

\* Nodes of a job are passed over; a worker is opened if one of them has to run.
Enter(j) ==
    /\ open = {} /\ state[j] = "RUNNING"
    /\ Only(Of(j))
    /\ \A n \in Of(j) : state'[n] = state[n] \/ (state[n] = "PENDING" /\ state'[n] = "SKIPPED")
    /\ open' \in {{}, {j}} /\ (open' = {j} => \E n \in Of(j) : state'[n] = "PENDING")
    /\ UNCHANGED <<spoilt, verdict>>

\* One node at a time begins or ends.
Work(n) ==
    /\ open = {JobOf[n]}
    /\ \/ /\ state[n] = "PENDING" /\ state'[n] \in {"RUNNING", "SKIPPED"}
          /\ \A m \in Node : state[m] # "RUNNING"
       \/ state[n] = "RUNNING" /\ state'[n] \in {"SUCCEEDED", "FAILED", "SKIPPED"}
    /\ Only({n})
    /\ UNCHANGED <<open, spoilt, verdict>>

\* Nodes that cannot run for want of a worker.
GiveUp(j) ==
    /\ open \subseteq {j} /\ state[j] = "RUNNING"
    /\ \A n \in Of(j) : state'[n] = state[n] \/ (state[n] = "PENDING" /\ state'[n] = "ABORTED")
    /\ Only(Of(j))
    /\ UNCHANGED <<open, spoilt, verdict>>

Close(j) ==
    /\ open = {j} /\ open' = {}
    /\ spoilt' \in {spoilt, spoilt \cup {j}}
    /\ UNCHANGED <<state, verdict>>

\* A job succeeds with all its nodes, and fails for one of them or for its worker.
Judged(j) ==
    /\ state'[j] = "SUCCEEDED" => j \notin spoilt /\ \A n \in Of(j) : Fine(n)
    /\ state'[j] = "FAILED" => j \in spoilt \/ \E n \in Of(j) : state[n] \in Bad

Conclude(j) ==
    /\ open = {} /\ state[j] = "RUNNING" /\ state'[j] \in {"SUCCEEDED", "FAILED"}
    /\ Judged(j) /\ \A n \in Of(j) : state[n] \in Terminal
    /\ Only({j})
    /\ UNCHANGED <<open, spoilt, verdict>>

\* What is unfinished is aborted, or concluded when the jobs wait for the end.
Judge ==
    /\ open = {}
    /\ \A j \in Job : IF state[j] \in Terminal THEN state'[j] = state[j]
                      ELSE state'[j] = "ABORTED"
                           \/ (state[j] = "RUNNING" /\ state'[j] \in {"SUCCEEDED", "FAILED"} /\ Judged(j))
    /\ \A n \in Node : state'[n] = IF state[n] \in Terminal THEN state[n] ELSE "ABORTED"
    /\ verdict' = IF \A j \in Job : state'[j] = "SUCCEEDED" THEN "SUCCEEDED" ELSE "FAILED"
    /\ UNCHANGED <<open, spoilt>>

Next ==
    /\ verdict = "none"
    /\ \/ Validate \/ Judge
       \/ \E j \in Job : Enter(j) \/ GiveUp(j) \/ Close(j) \/ Conclude(j)
       \/ \E n \in Node : Work(n)

Spec == Init /\ [][Next]_vars
=============================================================================
