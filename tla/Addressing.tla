----------------------------- MODULE Addressing -----------------------------
(***************************************************************************)
(* Addresses in nested compositions: AddressCalculator.advance             *)
(* (node/addressing.py), the arithmetic of PointerVector (types.py), the   *)
(* jump methods, and the walk over a rendered graph that _call and the     *)
(* main loop make of them (runtime/workflow.py).                           *)
(*                                                                         *)
(* An address is a sequence of indices.  A graph is given by the number of *)
(* children of each composition, the top one at the empty address; every   *)
(* other node is a leaf, which can be executed.  A pointer may hold a      *)
(* negative index as well, which Python counts from the end.               *)
(***************************************************************************)
EXTENDS Integers, Sequences

CONSTANTS
  Width,     (* Bound on the children of a composition.                    *)
  Depth,     (* Bound on the length of addresses.                          *)
  MaxOffset, (* Bound on the offsets that nodes use in relative jumps.     *)
  MaxJumps   (* Bound on the number of jumps.                              *)

ASSUME AddressingAssumption ==
  /\ Width \in Nat /\ Depth \in Nat \ {0} /\ {MaxOffset, MaxJumps} \subseteq Nat

VARIABLES
  kids,     (* kids[a]: number of children of the composition at a         *)
  pointer,  (* _pointer                                                    *)
  phase,    (* "fetch" the node, "ran" it, "over", or "failed": there is   *)
            (* no node to execute at the pointer                           *)
  last,     (* the leaf that the pointer has advanced from, or the empty   *)
            (* address if it was set otherwise                             *)
  jumps     (* number of jumps made                                        *)

vars == <<kids, pointer, phase, last, jumps>>

Up(a, n)    == SubSeq(a, 1, n)
Parent(a)   == Up(a, Len(a) - 1)
BumpNot(a)  == a   \* mutant: next_idx = end_idx
Bump(a)     == [a EXCEPT ![Len(a)] = @ + 1]
Down(a, n)  == a \o [i \in 1 .. n |-> 0]
Largest(S)  == CHOOSE n \in S : \A m \in S : m <= n
Smallest(S) == CHOOSE n \in S : \A m \in S : n <= m

(* All addresses up to the bounds, also of no node, and what pointers may  *)
(* be set to.                                                              *)
Addresses == UNION {[1 .. n -> 0 .. Width - 1] : n \in 0 .. Depth}
Pointers  == UNION {[1 .. n -> -Width .. Width - 1] : n \in 0 .. Depth}
Offsets   == -MaxOffset .. MaxOffset

Graph(k) ==
  /\ <<>> \in DOMAIN k /\ k[<<>>] > 0
  /\ \A a \in DOMAIN k \ {<<>>} : Parent(a) \in DOMAIN k /\ a[Len(a)] < k[Parent(a)]

Graphs ==
  LET Inner == {a \in Addresses : Len(a) < Depth}
  IN  {k \in UNION {[S -> 0 .. Width] : S \in SUBSET Inner} : Graph(k)}

(* A pointer a means the composition at b: it has its indices, or what     *)
(* they are counted from the end of the list they index.                   *)
Means(a, b) ==
  Len(a) = Len(b) /\ \A i \in 1 .. Len(a) : a[i] \in {b[i], b[i] - kids[Up(b, i - 1)]}

IsCompose(a) == \E b \in DOMAIN kids : Means(a, b)
Filled(a)    == \E b \in DOMAIN kids : Means(a, b) /\ kids[b] > 0

(* find_addr_safe finds a node. *)
IsNode(a) ==
  a # <<>> => \E b \in DOMAIN kids :
                Means(Parent(a), b) /\ -kids[b] <= a[Len(a)] /\ a[Len(a)] < kids[b]
IsLeaf(a) == IsNode(a) /\ ~IsCompose(a)

Init ==
  /\ kids \in Graphs
  /\ pointer = <<0>> /\ phase = "fetch" /\ last = <<>> /\ jumps = 0

-----------------------------------------------------------------------------
(* AddressCalculator.advance, at the address of a node: into a composition *)
(* that is not empty; else to the next sibling of the node or of the       *)
(* innermost ancestor that has one, and into that.                         *)
Enter(a) == IF Filled(a) THEN Append(a, 0) ELSE a

LevelsTop(a) == {n \in 1 .. Len(a) : n = 1 /\ IsNode(Bump(Up(a, n)))}   \* mutant: backs out to the top

LevelsOneUp(a) ==   \* mutant: backs out of one exhausted container only
  {n \in 1 .. Len(a) : n >= Len(a) - 1 /\ IsNode(Bump(Up(a, n)))}

LevelsUnbounded(a) == 1 .. Len(a)   \* mutant: next_idx is not compared with the length

Levels(a) == {n \in 1 .. Len(a) : IsNode(Bump(Up(a, n)))}

Advance(a) ==
  IF a # <<>> /\ Filled(a) THEN Append(a, 0)
  ELSE IF Levels(a) = {} THEN <<>> ELSE Enter(Bump(Up(a, Largest(Levels(a)))))

(* The loop appends 0 to an empty pointer; _call descends to a leaf.  An   *)
(* empty composition counts as no node (find_addr).                        *)
Entered(a) == IF a = <<>> THEN <<0>> ELSE a
Descended(a) == Down(a, Smallest({n \in 0 .. Depth : ~Filled(Down(a, n))}))

-----------------------------------------------------------------------------
(* Arithmetic of PointerVector.                                            *)

(* offset_far: the shorter vector is padded, and the result ends before    *)
(* the first negative coordinate.                                          *)
Coordinate(v, i) == IF i \in DOMAIN v THEN v[i] ELSE 0

OffsetFar(a, v) ==
  LET n   == IF Len(a) < Len(v) THEN Len(v) ELSE Len(a)
      sum == [i \in 1 .. n |-> Coordinate(a, i) + Coordinate(v, i)]
  IN  SubSeq(sum, 1, Largest({m \in 0 .. n : \A i \in 1 .. m : sum[i] >= 0}))

OffsetTopShort(a, k) == OffsetFar(a, <<k, -Coordinate(a, 2)>>)   \* mutant: off by one

(* jump_offset_top *)
OffsetTop(a, k) == OffsetFar(a, <<k, -(Coordinate(a, 2) + 1)>>)

-----------------------------------------------------------------------------
(* The walk.                                                               *)

Fetch ==
  /\ phase = "fetch"
  /\ pointer' = Descended(Entered(pointer))
  /\ phase' = IF IsLeaf(pointer') THEN "ran" ELSE "failed"
  /\ UNCHANGED <<kids, last, jumps>>

Return ==
  /\ phase = "ran"
  /\ pointer' = Advance(pointer) /\ last' = pointer
  /\ phase' = IF pointer' = <<>> THEN "over" ELSE "fetch"
  /\ UNCHANGED <<kids, jumps>>

Rerun ==   \* the pointer of a run that is over is empty
  /\ phase = "over" /\ phase' = "fetch" /\ last' = <<>>
  /\ UNCHANGED <<kids, pointer, jumps>>

(* The jump methods set the pointer; only jump_to checks that there is a   *)
(* node.                                                                   *)
JumpTo(a)        == IsNode(a) /\ pointer' = a
JumpFarPtr(a)    == pointer' = a
JumpToTop(i)     == pointer' = <<i>>
JumpNear(i)      == pointer' = [pointer EXCEPT ![Len(pointer)] = i]
JumpOffset(k)    == pointer' = [pointer EXCEPT ![Len(pointer)] = @ + k]
JumpOffsetFar(v) == pointer' = OffsetFar(pointer, v)
JumpOffsetTop(k) == pointer' = OffsetTop(pointer, k)

Jump ==
  /\ phase = "ran" /\ jumps < MaxJumps
  /\ jumps' = jumps + 1 /\ last' = <<>> /\ phase' = "fetch" /\ UNCHANGED kids
  /\ \/ \E a \in Pointers : JumpTo(a) \/ JumpFarPtr(a)
     \/ \E i \in -Width .. Width : JumpNear(i) \/ JumpToTop(i)
     \/ \E k \in Offsets : JumpOffset(k) \/ JumpOffsetTop(k)
     \/ \E v \in UNION {[1 .. n -> Offsets] : n \in 1 .. 2} : JumpOffsetFar(v)

Next == Fetch \/ Return \/ Rerun \/ Jump

Spec     == Init /\ [][Next]_vars
FairSpec == Spec /\ WF_vars(Fetch \/ Return)

-----------------------------------------------------------------------------
(* Properties.                                                             *)

(* Every variable keeps to its values. *)
TypeOK ==
  /\ kids \in [DOMAIN kids -> Nat] /\ Graph(kids)
  /\ pointer \in Seq(Int) /\ last \in Seq(Int)
  /\ phase \in {"fetch", "ran", "over", "failed"} /\ jumps \in 0 .. MaxJumps

(* The reference: leaves are executed in the order of their addresses.     *)
Before(a, b) ==
  \E n \in DOMAIN a \cap DOMAIN b : a[n] < b[n] /\ \A i \in 1 .. n - 1 : a[i] = b[i]

Leaves           == {a \in Addresses : IsLeaf(a)}
NoneBetween(a, b) == ~\E l \in Leaves : Before(a, l) /\ Before(l, b)

(* A walk that has advanced from a node addressed without negative indices. *)
Advanced == last # <<>> /\ last \in Seq(Nat)

(* A node that returns is followed by the next leaf of the graph, however  *)
(* deep either is: no leaf is skipped or executed twice.                   *)
InOrder ==
  [][phase = "fetch" /\ phase' = "ran" /\ Advanced =>
       Before(last, pointer') /\ NoneBetween(last, pointer')]_vars

(* The same of every walk: it only goes forward.  This is not so: where a  *)
(* jump has set -1, advance comes to 0, the first child of the container,  *)
(* and not to what is behind its last.                                     *)
Forward ==
  [][phase = "fetch" /\ phase' = "ran" /\ last # <<>> =>
       \A a, b \in Leaves : Means(last, a) /\ Means(pointer', b) => Before(a, b)]_vars

(* The walk is over only after the last leaf.                              *)
OverAtTheEnd == phase = "over" /\ Advanced => \A l \in Leaves : l # last => Before(l, last)

(* Unless a jump left the graph, the walk fails only on an empty           *)
(* composition, and on the first one after the node that returned.         *)
FailsOnEmpty ==
  phase = "failed" /\ Advanced =>
    pointer \in DOMAIN kids /\ kids[pointer] = 0 /\ NoneBetween(last, pointer)

(* jump_offset_top moves to a sibling of the top-level ancestor, from any  *)
(* depth; before the first one it empties the pointer.                     *)
TopSibling ==
  pointer # <<>> => \A k \in Offsets :
    OffsetTop(pointer, k) = IF pointer[1] + k < 0 THEN <<>> ELSE <<pointer[1] + k>>

(* A walk comes to an end. *)
WalkEnds == phase = "fetch" ~> phase \in {"over", "failed"}
=============================================================================
