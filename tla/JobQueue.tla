------------------------------ MODULE JobQueue ------------------------------
(***************************************************************************)
(* What process_scheduler_redis.py promises its users: runs are served one *)
(* at a time in the order of submission, each started at most once, and a  *)
(* run is left behind only with a verdict.  Only the run at the head of    *)
(* the queue ever changes.                                                 *)
(***************************************************************************)
EXTENDS Naturals, Sequences

CONSTANT Run

VARIABLES status,    \* each run's public status
          order,     \* the runs in the order of submission
          retired,   \* the runs the queue is done with
          launched   \* the runs whose analysis was started

vars == <<status, order, retired, launched>>

Verdict == {"succeeded", "failed", "aborted"}

Init == /\ status = [r \in Run |-> "none"]
        /\ order = << >>
        /\ retired = {}
        /\ launched = {}

IsHead(r) == \E i \in DOMAIN order : /\ order[i] = r
                                     /\ r \notin retired
                                     /\ \A j \in 1..(i - 1) : order[j] \in retired

Accept(r) == /\ status[r] = "none"
             /\ status' = [status EXCEPT ![r] = "queued"]
             /\ order' = Append(order, r)
             /\ UNCHANGED <<retired, launched>>

Begin(r) == /\ IsHead(r)
            /\ status[r] = "queued"
            /\ status' = [status EXCEPT ![r] = "starting"]
            /\ UNCHANGED <<order, retired, launched>>

Launch(r) == /\ IsHead(r)
             /\ status[r] = "starting"
             /\ r \notin launched
             /\ launched' = launched \union {r}
             /\ UNCHANGED <<status, order, retired>>

Work(r) == /\ IsHead(r)
           /\ r \in launched
           /\ status[r] = "starting"
           /\ status' = [status EXCEPT ![r] = "running"]
           /\ UNCHANGED <<order, retired, launched>>

Settle(r) == /\ IsHead(r)
             /\ status[r] \in {"starting", "running"}
             /\ \E v \in Verdict : status' = [status EXCEPT ![r] = v]
             /\ UNCHANGED <<order, retired, launched>>

Retire(r) == /\ IsHead(r)
             /\ status[r] \in Verdict
             /\ retired' = retired \union {r}
             /\ UNCHANGED <<status, order, launched>>

Next == \E r \in Run : \/ Accept(r) \/ Begin(r) \/ Launch(r)
                       \/ Work(r) \/ Settle(r) \/ Retire(r)

Spec == Init /\ [][Next]_vars
=============================================================================
