----------------------------- MODULE MCIdbCache -----------------------------
(***************************************************************************)
(* IdbCache for TLC.  Keys 1 and 2 are two revisions of one binary, which  *)
(* compete for the retention of their target; key 3 is a binary of another *)
(* tag.  Run 1 selects 1 and 3, run 2 selects 2 and 3.                     *)
(***************************************************************************)
EXTENDS IdbCache

Keys == 1..3
Tags == {"t", "u"}
KeyTag == [k \in Keys |-> IF k = 3 THEN "u" ELSE "t"]
KeyTarget == [k \in Keys |-> IF k = 3 THEN "b" ELSE "a"]

TwoRuns == 1..2
TwoPlans == [r \in TwoRuns |-> IF r = 1 THEN {1, 3} ELSE {2, 3}]
=============================================================================
