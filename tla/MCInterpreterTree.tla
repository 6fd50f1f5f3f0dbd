-------------------------- MODULE MCInterpreterTree --------------------------
(* Small trees.  "calls": a one-time block whose workflow holds another    *)
(* and a node that raises, then a reusable block, run three times.         *)
(* "batch": branches with a node that raises and with a one-time block,    *)
(* run once.  "nested": a reusable block in another, run twice; "again": a *)
(* batch, run twice.  "fast": a batch with fail_fast.                      *)
EXTENDS InterpreterTree

MCNodes  == {"f1", "f2", "f3", "r1", "r2", "r3", "b1", "b2", "b3",
             "p", "q", "q3", "s", "s3", "t", "u", "v", "w", "x2", "u3", "v3", "x3"}
MCBody   == [calls |-> <<"f1", "r1">>, g1 |-> <<"f2", "p">>, g2 |-> <<"q">>, g3 |-> <<"s">>,
             batch |-> <<"b1", "t">>, left |-> <<"u", "v">>, right |-> <<"f3", "w">>, g5 |-> <<"q3">>,
             again |-> <<"b2">>, g6 |-> <<"x2">>,
             nested |-> <<"r2">>, g4 |-> <<"r3">>, g7 |-> <<"s3">>,
             fast |-> <<"b3">>, g8 |-> <<"u3", "v3">>, g9 |-> <<"x3">>]
MCGraphs == DOMAIN MCBody
MCBranches == [n \in MCNodes |->
  CASE n = "f1" -> <<"g1">> [] n = "f2" -> <<"g2">> [] n = "f3" -> <<"g5">> [] n = "r1" -> <<"g3">>
    [] n = "b1" -> <<"left", "right">> [] n = "b2" -> <<"g6">> [] n = "b3" -> <<"g8", "g9">>
    [] n = "r2" -> <<"g4">> [] n = "r3" -> <<"g7">> [] OTHER -> <<>>]
MCRounds == [g \in {"calls", "batch"} |-> IF g = "calls" THEN 3 ELSE 1]
MCRoundsNested == [g \in {"nested"} |-> 2]
MCRoundsAgain  == [g \in {"again"} |-> 2]
MCRoundsFast   == [g \in {"fast"} |-> 1]

(* What the theorems suppose is so here, but for what the runs that expect *)
(* a violation are made for.                                               *)
ASSUME MCPrograms ==
  /\ OnePlace /\ Founded
  /\ Roots = {"calls", "batch"} => FailFast = {} /\ Tame({"calls", "g1", "g2", "g3"})
=============================================================================
