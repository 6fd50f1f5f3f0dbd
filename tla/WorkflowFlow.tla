---------------------------- MODULE WorkflowFlow ----------------------------
(***************************************************************************)
(* What an interpreter promises the author of a workflow: nodes run one    *)
(* after the other, and which node runs next depends on nothing but the    *)
(* workflow and how the previous node ended.  A node that raises is run    *)
(* again by the run that recovers from the panic; a node that suspends is  *)
(* stepped past by the run that resumes.  Injected calls, suspensions and  *)
(* stops leave no trace in it.                                             *)
(***************************************************************************)
EXTENDS Workflow

CONSTANT UserResets   (* Whether the user calls reset() between runs.      *)

VARIABLES
  pos,     (* The node that is running or is the next one to run.          *)
  inNode   (* Whether it is running.                                       *)

vars == <<pos, inNode>>

Init == pos = First /\ inNode = FALSE

Begin == ~inNode /\ inNode' = TRUE /\ UNCHANGED pos

(* The node returned, or suspended the workflow: the next one follows it,  *)
(* and a completed workflow starts over.                                   *)
Pass ==
  /\ inNode /\ inNode' = FALSE
  /\ Ends[pos] \cap {"return", "keep"} # {}
  /\ pos' = Entered(AdvanceAddr(pos))

(* The node jumped. *)
Jump ==
  /\ inNode /\ inNode' = FALSE
  /\ pos' \in Jumps[pos] \ {Nil}

(* The node raised, or the consumer of its result left: it runs again.     *)
Retry == inNode /\ inNode' = FALSE /\ UNCHANGED pos

(* The node reset the workflow, or the user did between two nodes.         *)
Restart ==
  /\ inNode' = FALSE /\ pos' = First
  /\ IF inNode THEN "notice" \in Ends[pos] ELSE UserResets

Next == Begin \/ Pass \/ Jump \/ Retry \/ Restart

Spec == Init /\ [][Next]_vars
=============================================================================
