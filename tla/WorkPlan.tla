------------------------------ MODULE WorkPlan ------------------------------
(***************************************************************************)
(* What a batch promises of its plan, a number of parallel items and       *)
(* serial ones behind them, however workers exit, hang, resist the kill or *)
(* are refused: workers start in the order of the plan, no more at a time  *)
(* than there is room for, those that cannot be killed counted; a serial   *)
(* item has the machine for itself and everything before it done; after a  *)
(* failure that is not tolerated, or that leaves a process behind, nothing *)
(* starts any more; and the outcome is a success exactly if every item is  *)
(* one.                                                                    *)
(***************************************************************************)
EXTENDS Integers, FiniteSets

CONSTANTS Parallel, Serial,  \* the items, numbered in the order of the plan
          Capacity           \* processes at a time

Item == Parallel \cup Serial

VARIABLES lenient, \* whether a failure lets the parallel items go on
          fate,    \* of each item: waiting, started, succeeded, failed or cancelled
          alive,   \* the items whose processes may still be there
          open,    \* whether items may still start
          outcome  \* none, success, failure or interrupted

vars == <<lenient, fate, alive, open, outcome>>

Init == /\ lenient \in BOOLEAN
        /\ fate = [i \in Item |-> "waiting"] /\ alive = {}
        /\ open = TRUE /\ outcome = "none"

\* Whose turn it is.
Turn(i) == /\ open /\ fate[i] = "waiting"
           /\ \A j \in Item : j < i => fate[j] # "waiting"

Start(i) ==
    /\ Turn(i)
    /\ Cardinality(alive) < Capacity
    /\ \A j \in Item : fate[j] = "failed" => lenient /\ j \notin alive
    /\ i \in Serial => alive = {} /\ \A j \in Item : j < i => fate[j] = "succeeded"
    /\ fate' = [fate EXCEPT ![i] = "started"] /\ alive' = alive \cup {i}
    /\ UNCHANGED <<lenient, open, outcome>>

\* An item fails without ever having had a process.
Refuse(i) ==
    /\ Turn(i)
    /\ fate' = [fate EXCEPT ![i] = "failed"]
    /\ open' \in BOOLEAN
    /\ UNCHANGED <<lenient, alive, outcome>>

Gone(i) == /\ i \in alive /\ alive' = alive \ {i}
           /\ UNCHANGED <<lenient, fate, open, outcome>>

\* A success is one of a process that has ended; a failure may leave one behind.
Settle(i) ==
    /\ fate[i] = "started" /\ outcome = "none"
    /\ \/ i \notin alive /\ fate' = [fate EXCEPT ![i] = "succeeded"] /\ alive' = alive
       \/ fate' = [fate EXCEPT ![i] = "failed"] /\ alive' \in {alive, alive \ {i}}
    /\ UNCHANGED <<lenient, open, outcome>>

Close == /\ open /\ ~open'
         /\ UNCHANGED <<lenient, fate, alive, outcome>>

Conclude ==
    /\ ~open /\ outcome = "none"
    /\ outcome' = IF \A i \in Item : fate[i] = "succeeded" THEN "success" ELSE "failure"
    /\ UNCHANGED <<lenient, fate, alive, open>>

Interrupt == /\ outcome = "none" /\ outcome' = "interrupted" /\ ~open'
             /\ UNCHANGED <<lenient, fate, alive>>

\* Of an interrupted plan a worker is cancelled when its process is gone, failed when it
\* may still be there; a verdict that was not acted on yet is overridden.
Cancel(i) ==
    /\ outcome = "interrupted" /\ fate[i] # "waiting"
    /\ \/ fate' = [fate EXCEPT ![i] = "cancelled"] /\ alive' = alive \ {i}
       \/ fate' = [fate EXCEPT ![i] = "failed"] /\ alive' = alive
    /\ UNCHANGED <<lenient, open, outcome>>

Next ==
    \/ \E i \in Item : Start(i) \/ Refuse(i) \/ Gone(i) \/ Settle(i) \/ Cancel(i)
    \/ Close \/ Conclude \/ Interrupt

Spec == Init /\ [][Next]_vars
=============================================================================
