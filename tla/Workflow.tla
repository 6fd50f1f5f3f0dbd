------------------------------ MODULE Workflow ------------------------------
(***************************************************************************)
(* The workflow an interpreter executes: a flat rendered composition whose *)
(* nodes are numbered 1 .. Last, in the layout the documentation gives for *)
(* a program with injectable handlers (nodes, the jump over the archive,   *)
(* the archived handlers, a trailing NOP).  A node's code is arbitrary, so *)
(* it is represented by what it may do to the interpreter: the calls it    *)
(* may make, the jump it may make and the ways in which it may end.        *)
(***************************************************************************)
EXTENDS Naturals

CONSTANTS
  Last,      (* Address of the last node.                                  *)
  Handlers,  (* Archived nodes, the ones external tasks inject.            *)
  Jumps,     (* Jumps[a]: where a may move the pointer; Nil is no jump.    *)
  Subs,      (* Subs[a]: nodes that the code of a may run by call_sub.     *)
  Ends       (* Ends[a]: the ways in which the code of a may end.          *)

Nil   == 0            (* The empty pointer.                                *)
Addr  == 1 .. Last
First == 1

(* "return"; "raise" an Exception; "keep" is InterruptKeepContext (the     *)
(* SUSPEND node), "notice" is InterruptNotice (the RESET node).            *)
Endings == {"return", "raise", "keep", "notice"}

ASSUME WorkflowAssumption ==
  /\ Last \in Nat \ {0}
  /\ Handlers \subseteq Addr
  /\ Jumps \in [Addr -> SUBSET (Addr \cup {Nil})]
  /\ Subs \in [Addr -> SUBSET Addr]
  /\ Ends \in [Addr -> SUBSET Endings]

----------------------------------------------------------------------------
(* Nodes that are called, by tasks or by other nodes, leave the pointer    *)
(* where it is, and what interrupts them interrupts their callers.         *)
Called == Handlers \cup UNION {Subs[a] : a \in Addr}

CallsStay == \A a \in Called : Jumps[a] \subseteq {Nil}

Propagates == \A a \in Addr : \A b \in Subs[a] : Ends[b] \cap {"keep", "notice"} \subseteq Ends[a]

-----------------------------------------------------------------------------
AdvanceAddrOff(a) == IF a # Nil THEN a + 1 ELSE Nil   \* mutant: no bounds check

(* AddressCalculator.advance on a flat composition: the next sibling, or   *)
(* the empty pointer when the walk is over.  Nested compositions are the   *)
(* subject of module Addressing.                                           *)
AdvanceAddr(a) == IF a # Nil /\ a < Last THEN a + 1 ELSE Nil

(* Where a pointer starts executing: the loop appends 0 to an empty one.   *)
Entered(p) == IF p = Nil THEN First ELSE p
=============================================================================
