--------------------------- MODULE MCAnalysisRun ---------------------------
(***************************************************************************)
(* AnalysisRun for TLC: two binaries, the first with two nodes; and one    *)
(* binary with one node.                                                   *)
(***************************************************************************)
EXTENDS AnalysisRun

ThreeNodes == <<"n1", "n2", "n3">>
Together == [n1 |-> "a", n2 |-> "a", n3 |-> "b"]

OneNode == <<"n1">>
Alone == [n1 |-> "a"]
=============================================================================
