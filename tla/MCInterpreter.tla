--------------------------- MODULE MCInterpreter ---------------------------
(* Small workflows for Interpreter.                                        *)
EXTENDS Interpreter

(* A node that may raise, suspend or reset the workflow or call node 4; a  *)
(* SUSPEND node that suspends or not; a loop node that jumps back to the   *)
(* first or over the archive; the archived handler 4, which may call the   *)
(* trailing node 5.                                                        *)
MCJumps == [a \in 1 .. 5 |-> IF a = 3 THEN {1, 5} ELSE {Nil}]
MCSubs  == [a \in 1 .. 5 |-> CASE a = 1 -> {4} [] a = 4 -> {5} [] OTHER -> {}]
MCEnds  == [a \in 1 .. 5 |-> CASE a = 1 -> {"return", "raise", "keep", "notice"}
                               [] a = 2 -> {"return", "keep"}
                               [] a = 4 -> {"return", "raise", "keep", "notice"}
                               [] a = 5 -> {"return", "keep"}
                               [] OTHER -> {"return"}]

(* Two nodes that may raise, the second after a jump as well; a handler    *)
(* that may jump.                                                          *)
MCJumpsBusy == [a \in 1 .. 3 |-> IF a = 1 THEN {Nil} ELSE {Nil, 1}]
MCSubsBusy  == [a \in 1 .. 3 |-> {}]
MCEndsBusy  == [a \in 1 .. 3 |-> IF a = 1 THEN {"return", "keep", "notice"} ELSE {"return", "raise"}]

(* Nodes that call, jump and then fail or halt, but reset nothing.         *)
MCJumpsUnruly == [a \in 1 .. 3 |-> IF a = 1 THEN {Nil} ELSE {Nil, 1}]
MCSubsUnruly  == [a \in 1 .. 3 |-> IF a = 3 THEN {} ELSE {3}]
MCEndsUnruly  == [a \in 1 .. 3 |-> IF a = 2 THEN {"return"} ELSE {"return", "raise", "keep"}]

(* What the theorem on the order of the nodes supposes.                    *)
ASSUME MCWorkflow == Window = "safe" => CallsStay /\ Propagates
=============================================================================
