---------------------------- MODULE FifoChannel ----------------------------
(***************************************************************************)
(* What one direction of a SuspendObjectStream promises: the reader gets   *)
(* what was sent, in the order in which it was sent and each item once;    *)
(* nothing that a sender was told is sent goes missing before the reader   *)
(* has it, unless the reader leaves; and the end comes after everything.   *)
(***************************************************************************)
EXTENDS Naturals, Sequences, SequencesExt

CONSTANTS Items, End

VARIABLES
  line,     (* What has been sent and not read, the oldest first.          *)
  settled,  (* How many of these, the first ones, their senders have been  *)
            (* told are sent; the others may still be withdrawn.           *)
  got,      (* What the reader has had.                                    *)
  open      (* Whether there is, or may still be, a reader.                *)

vars == <<line, settled, got, open>>

Init == line = <<>> /\ settled = 0 /\ got = <<>> /\ open = TRUE

Ended == End \in Range(line)

(* Whom a change of the line leaves in it is told no less than before.     *)
Settles(least) == settled' >= least /\ settled' <= Len(line')

Send ==
  /\ open /\ ~Ended
  /\ \E x \in Items : line' = Append(line, x)
  /\ Settles(settled) /\ UNCHANGED <<got, open>>

Finish ==
  /\ open /\ ~Ended
  /\ line' = Append(line, End)
  /\ Settles(settled) /\ UNCHANGED <<got, open>>

(* The sender is told that it was not sent. *)
Withdraw ==
  /\ \E i \in settled + 1 .. Len(line) : line' = RemoveAt(line, i)
  /\ UNCHANGED <<settled, got, open>>

Deliver ==
  /\ open /\ line # <<>> /\ Head(line) # End
  /\ got' = Append(got, Head(line)) /\ line' = Tail(line)
  /\ settled' + 1 >= settled /\ settled' <= Len(line') /\ UNCHANGED open

(* The reader has had everything. *)
Over == open /\ line = <<End>> /\ line' = <<>> /\ settled' = 0 /\ open' = FALSE /\ UNCHANGED got

(* The reader leaves before the end. *)
Leave == open /\ line' = <<>> /\ settled' = 0 /\ open' = FALSE /\ UNCHANGED got

Next == Send \/ Finish \/ Withdraw \/ Deliver \/ Over \/ Leave

Spec == Init /\ [][Next]_vars
=============================================================================
