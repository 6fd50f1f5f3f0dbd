------------------------------- MODULE Layout -------------------------------
(***************************************************************************)
(* What clauses compile to: the extract() of every SelfCompileInstruction  *)
(* (instructions/, instructions/native/) and the rendering of the result   *)
(* (NodeComposeRendered._process_nodes, node/core.py).                     *)
(*                                                                         *)
(* A source program is a tree of records, "op" telling what each is.  A    *)
(* clause becomes a sequence of nodes that call and jump to one another by *)
(* position; a rendered program gives the number of children of every      *)
(* composition, the node at every other address, and the alias table.      *)
(***************************************************************************)
EXTENDS Naturals, Sequences, SequencesExt, FiniteSets, TLC

NotSet == 99   \* no position: an address that is None, a control node not configured

(* Nodes of the user: what a call may end with, and where a "jump" goes.   *)
Leaf(id, may)     == [op |-> "leaf", id |-> id, may |-> may]
Cond(id)          == Leaf(id, {"TRUE", "FALSE"})
Hop(id, may, to)  == [op |-> "leaf", id |-> id, may |-> may, to |-> to]
Nop               == [op |-> "nop"]
Seq_(kids)        == [op |-> "seq", kids |-> kids]
Alias(node, name) == [op |-> "alias", node |-> node, name |-> name]

(* Clauses.  An arm is a pair of a condition and a body; what need not be  *)
(* given is a sequence of none or one.                                     *)
If(arms, els)      == [op |-> "if", arms |-> arms, els |-> els]
While(c, b)        == [op |-> "while", cond |-> c, body |-> b]
Do(b, c)           == [op |-> "do", cond |-> c, body |-> b]
Try(b, catch, then, fin) ==
  [op |-> "try", body |-> b, catch |-> catch, then |-> then, fin |-> fin]
NativeIf(arms, els) == [op |-> "nif", arms |-> arms, els |-> els]
NativeWhile(c, b)   == [op |-> "nwhile", cond |-> c, body |-> b]
NativeDo(b, c)      == [op |-> "ndo", cond |-> c, body |-> b]
Extracted(clause)   == [op |-> "extracted", of |-> clause]   \* clause.extract()

(* Jumps, calls and interrupts.                                            *)
Jmp(to)            == [op |-> "jmp", to |-> to]
Invoke(name)       == [op |-> "invoke", to |-> name]
Call(to, from)     == [op |-> "call", to |-> to, from |-> from]   \* from, ret: none or one
PushRet(to)        == [op |-> "pushret", to |-> to]
Ret                == [op |-> "ret"]
Interrupt(to, ret, ifs) == [op |-> "int", to |-> to, from |-> ret, ifs |-> ifs]
PushContext(to)    == [op |-> "pushctx", from |-> to]
PopContext         == [op |-> "popctx"]
Iret               == [op |-> "iret"]
Fn(name, block)      == [op |-> "fn", name |-> name, block |-> block]
InterFn(name, block) == [op |-> "interfn", name |-> name, block |-> block]
ArchivedSegment(seg) == [op |-> "segment", seg |-> seg]
ArchivedNodes(nodes) == [op |-> "archived", nodes |-> nodes]

(* An event: the node that makes it, and how its dispatch may end, which   *)
(* is for module EventDispatch to say.                                     *)
Event(constructor, dispatch) == [op |-> "trigger", of |-> constructor, dispatch |-> dispatch]

Clauses   == {"if", "while", "do", "try", "nif", "nwhile", "ndo", "fn", "interfn", "segment", "archived", "trigger"}
IsNode(s) == s.op \notin Clauses \cup {"seq", "extracted"}   \* a BaseNode

(* What the clauses refuse to be built from: an arm of IF must be a node,  *)
(* the body of WHILE and DO no composition, that of WHILE no JMP either,   *)
(* and Try must catch something or end with FINALLY.                       *)
check_do(s)                == IsNode(s)
reject_composition_body(b) == b.op # "seq"

Parts(s) ==
  CASE s.op = "seq" -> ToSet(s.kids)
    [] s.op \in {"if", "nif"} -> UNION {{a[1], a[2]} : a \in ToSet(s.arms)} \cup ToSet(s.els)
    [] s.op \in {"while", "do", "nwhile", "ndo"} -> {s.cond, s.body}
    [] s.op = "try" -> {s.body} \cup {c[2] : c \in ToSet(s.catch)} \cup ToSet(s.then) \cup ToSet(s.fin)
    [] s.op \in {"fn", "interfn"} -> {s.block}
    [] s.op = "segment"   -> {s.seg}
    [] s.op = "archived"  -> ToSet(s.nodes)
    [] s.op \in {"extracted", "trigger"} -> {s.of}
    [] s.op = "alias"     -> {s.node}
    [] OTHER -> {}

RECURSIVE Admitted(_)
Admitted(s) ==
  /\ s.op = "if" => \A b \in {a[2] : a \in ToSet(s.arms)} \cup ToSet(s.els) : check_do(b)
  /\ s.op \in {"while", "do"} => reject_composition_body(s.body)
  /\ s.op = "while" => s.body.op # "jmp"
  /\ s.op = "try" => s.catch # <<>> \/ s.fin # <<>>
  /\ \A k \in Parts(s) : Admitted(k)

-----------------------------------------------------------------------------
(* IF / ELIF / ELSE: three positions to an arm, then ELSE, then NOP.       *)

ConditionJumpNode(condition_offset, do_offset, false_offset, then_addr) ==
  [op |-> "jif", cond |-> condition_offset, do |-> do_offset, false |-> false_offset, then |-> then_addr]

make_chunk(arm, then, false) == <<ConditionJumpNode(1, 2, false, then), arm[1], arm[2]>>

Chunks(arms, then) == FlattenSeq([i \in DOMAIN arms |-> make_chunk(arms[i], then, 3)])

ELSENode(do_offset, then_offset) == [op |-> "else", do |-> do_offset, then |-> then_offset]

IFClause(arm)         == make_chunk(arm, 3, 3) \o <<Nop>>
ELIFClause(arms)      == Chunks(arms, 3 * Len(arms)) \o <<Nop>>
ELSEClauseShort(arms, do) ==   \* mutant: the arms end at the ELSE node
  Chunks(arms, 3 * Len(arms)) \o <<ELSENode(1, 2), do, Nop>>
ELSEClause(arms, do)  == Chunks(arms, 3 * Len(arms) + 2) \o <<ELSENode(1, 2), do, Nop>>

-----------------------------------------------------------------------------
(* WHILE, DO and Try.                                                      *)

WhileNode(condi_offset, do_offset, checkup_addr, else_addr) ==
  [op |-> "whilenode", cond |-> condi_offset, do |-> do_offset, checkup |-> checkup_addr, else |-> else_addr]
CheckUpNode(jump_near) == [op |-> "checkup", jump |-> jump_near]
WhileClauseOpen(c, b) ==   \* mutant: the exit is the CheckUpNode
  <<WhileNode(1, 2, 3, 3), c, b, CheckUpNode(0), Nop>>
WhileClause(c, b) == <<WhileNode(1, 2, 3, 4), c, b, CheckUpNode(0), Nop>>

DONode(do_offset, jmp_addr, break_addr) ==
  [op |-> "donode", do |-> do_offset, jmp |-> jmp_addr, break |-> break_addr]
DowhileNode(condi_offset, then_addr, back_addr) ==
  [op |-> "dowhile", cond |-> condi_offset, then |-> then_addr, back |-> back_addr]
DoWhileClause(b, c) == <<DONode(1, 2, 4), b, DowhileNode(1, 4, 0), c, Nop>>

TryNode(do, chain, fin, els, escape) ==
  [op |-> "trynode", do |-> do, chain |-> chain, fin |-> fin, els |-> els, escape |-> escape]

TryClause(b, catch, then, fin) ==
  LET n    == Len(catch)
      els  == IF then = <<>> THEN NotSet ELSE 2 + n
      last == 2 + n + Len(then) + Len(fin)
  IN  <<TryNode(1, [i \in 1 .. n |-> <<catch[i][1], i + 1>>],
                IF fin = <<>> THEN NotSet ELSE last - 1, els, last), b>>
      \o [i \in 1 .. n |-> catch[i][2]] \o then \o fin \o <<Nop>>

-----------------------------------------------------------------------------
(* Native clauses.                                                         *)

LoopControl(tag) == [op |-> "control", tag |-> tag, target |-> NotSet]
CONTINUE   == LoopControl("continue")
BREAK_LOOP == LoopControl("break")

NativeIfJumpNode(do_pos, ret_pos, false_pos, is_single) ==
  [op |-> "njif", cond |-> 1, do |-> 2, pos |-> do_pos, ret |-> ret_pos, false |-> false_pos, single |-> is_single]
NativeWhileNode(body_pos, self_pos, exit_pos) ==
  [op |-> "nwhilenode", cond |-> 1, body |-> body_pos, self |-> self_pos, exit |-> exit_pos]
NativeDoWhileNode(loop_pos, exit_pos) == [op |-> "ndowhile", cond |-> 1, loop |-> loop_pos, exit |-> exit_pos]
NativeBubbleEnterNode(body_pos, push) == [op |-> "nenter", body |-> body_pos, push |-> push]

(* Jump targets go to the control nodes of this level only: not into inner *)
(* native loops that have been extracted, nor into clauses that have not.  *)
RECURSIVE Configured(_, _, _)
Configured(kids, continue_pos, break_pos) ==
  [i \in DOMAIN kids |->
     LET k == kids[i] IN
     IF k.op = "control" /\ k.target = NotSet
     THEN [k EXCEPT !.target = IF k.tag = "continue" THEN continue_pos ELSE break_pos]
     ELSE IF k.op = "seq" /\ k.kids # <<>> /\ Head(k.kids).op \notin {"nwhilenode", "nenter"}
     THEN [k EXCEPT !.kids = Configured(@, continue_pos, break_pos)]
     ELSE k]

RECURSIVE extract(_), Source(_)   \* below

NATIVE_IF(arms, els) ==
  LET n      == Len(arms)
      single == els = <<>> \/ IsNode(els[1])
      merge  == 3 * n + IF single THEN 1 ELSE 2
      Arm(i) == <<NativeIfJumpNode(3 * i - 1, merge, IF i < n \/ els # <<>> THEN 3 * i ELSE merge, IsNode(arms[i][2])),
                  arms[i][1], Source(arms[i][2])>>
      tail   == IF els = <<>> THEN <<Nop>> ELSE IF single THEN els
                ELSE <<NativeBubbleEnterNode(3 * n + 1, FALSE), Source(els[1])>>
  IN  FlattenSeq([i \in 1 .. n |-> Arm(i)]) \o tail \o <<Nop>>

(* The body of a loop ends with a CONTINUE, whatever it is.                *)
Looping(b) == Append(IF IsNode(b) THEN <<b>> ELSE Source(b).kids, CONTINUE)

NATIVE_WHILE(c, b) ==
  <<NativeWhileNode(2, 0, 3), c, Seq_(Configured(Looping(b), 0, 3)), Nop>>

NATIVE_DO(b, c) ==
  <<NativeBubbleEnterNode(1, TRUE), Seq_(Configured(Looping(b), 2, 4)), NativeDoWhileNode(0, 4), c, Nop>>

-----------------------------------------------------------------------------
(* Subroutines and interrupt handlers: a head that skips them when they    *)
(* are come to, the entry point, the body and the return.                  *)
FnEscape == [op |-> "escape"]
FN(name, block)       == <<FnEscape, Alias(Nop, name), block, Ret>>
INTER_FN(name, block) == <<FnEscape, Alias(Nop, name), block, Iret>>
ARCHIVED_SEGMENT(seg) == <<[op |-> "skip"], seg, Nop>>
EventTrigger(c_offset, e_offset, dispatch) ==
  [op |-> "event", constructor |-> c_offset, escape |-> e_offset, dispatch |-> dispatch]
TriggerInstruction(constructor, dispatch) == <<EventTrigger(1, 2, dispatch), constructor, Nop>>

SubprogramJumpNode(target_near) == [op |-> "over", to |-> target_near]
SubprogramStorage(nodes) == <<SubprogramJumpNode(Len(nodes) + 1)>> \o nodes \o <<Nop>>

(* extract(), and the classification of native bodies: a node is itself,   *)
(* everything else a composition.                                          *)
Source(b) ==   \* _classify_body; what the writer extracted is a composition
  IF IsNode(b) THEN b
  ELSE IF b.op = "seq" THEN [b EXCEPT !.kids = [i \in DOMAIN @ |-> IF @[i].op = "extracted" THEN Source(@[i]) ELSE @[i]]]
  ELSE Seq_(extract(IF b.op = "extracted" THEN b.of ELSE b))

extract(s) ==
  CASE s.op = "if" /\ s.els # <<>> -> ELSEClause(s.arms, s.els[1])
    [] s.op = "if" /\ s.els = <<>> -> IF Len(s.arms) = 1 THEN IFClause(s.arms[1]) ELSE ELIFClause(s.arms)
    [] s.op = "while"    -> WhileClause(s.cond, s.body)
    [] s.op = "do"       -> DoWhileClause(s.body, s.cond)
    [] s.op = "try"      -> TryClause(s.body, s.catch, s.then, s.fin)
    [] s.op = "nif"      -> NATIVE_IF(s.arms, s.els)
    [] s.op = "nwhile"   -> NATIVE_WHILE(s.cond, s.body)
    [] s.op = "ndo"      -> NATIVE_DO(s.body, s.cond)
    [] s.op = "fn"       -> FN(s.name, s.block)
    [] s.op = "interfn"  -> INTER_FN(s.name, s.block)
    [] s.op = "segment"  -> ARCHIVED_SEGMENT(s.seg)
    [] s.op = "archived" -> SubprogramStorage(s.nodes)
    [] s.op = "trigger"  -> TriggerInstruction(s.of, s.dispatch)

-----------------------------------------------------------------------------
(* _build and _process_nodes: the children of a composition in order, each *)
(* at its path; clauses are extracted on the way, and an alias is entered  *)
(* in the table of the whole program and stands for the node it wraps.     *)
Rendered(kids, node, alias) == [kids |-> kids, node |-> node, alias |-> alias]
Joined(r, s) == Rendered(r.kids @@ s.kids, r.node @@ s.node, r.alias @@ s.alias)
Empty == Rendered(<<>>, <<>>, <<>>)

RECURSIVE process(_, _)
process(s, path) ==
  IF s.op = "seq"
  THEN LET Child(i) == process(s.kids[i], Append(path, i - 1))
       IN  Joined(Rendered(path :> Len(s.kids), <<>>, <<>>),
                  FoldLeft(LAMBDA r, i : Joined(r, Child(i)), Empty, [i \in DOMAIN s.kids |-> i]))
  ELSE IF s.op = "extracted" THEN process(Seq_(extract(s.of)), path)
  ELSE IF s.op \in Clauses THEN process(Seq_(extract(s)), path)
  ELSE IF s.op = "alias" THEN Rendered(<<>>, path :> s.node, s.name :> path)
  ELSE Rendered(<<>>, path :> s, <<>>)

render(s) == process(s, <<>>)
=============================================================================
