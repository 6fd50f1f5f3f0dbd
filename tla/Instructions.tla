---------------------------- MODULE Instructions ----------------------------
(***************************************************************************)
(* Running a compiled workflow: the handlers of the built-in nodes         *)
(* (instructions/, instructions/native/) over the interpreter's pointer,   *)
(* return stack, context stack and flags (runtime/workflow.py), node by    *)
(* node and call by call.  User nodes end in any way they are declared to. *)
(* "todo" is no part of the code: it is what module Structured says is     *)
(* left of the source program, and the properties compare the two.         *)
(***************************************************************************)
EXTENDS Structured, Integers

CONSTANTS
  Programs,   (* The source programs, by name.                             *)
  Squashable, (* Programs that are also run with SQUASHED_LOOP.            *)
  MaxTrue     (* Bound on how often a node is true, or jumps.              *)

ASSUME InstructionsAssumption ==
  /\ \A p \in DOMAIN Programs : Admitted(Programs[p])
  /\ Squashable \subseteq DOMAIN Programs /\ MaxTrue \in Nat

VARIABLES
  prog,     (* name of the program                                         *)
  squashed, (* __flags__.SQUASHED_LOOP                                     *)
  pc,       (* the interpreter: ptr, ret (top last), jmp, flag (IF), ctx   *)
  frames,   (* node calls in progress, innermost first: the node, the step *)
            (* of its handler and a local variable                         *)
  res,      (* how the call that the innermost handler made has ended      *)
  mode,     (* "main": the loop fetches a node; "work", "done", "panic"    *)
  todo,     (* what is left of the source program                          *)
  spent     (* how often each node has been true, or has jumped            *)

vars == <<prog, squashed, pc, frames, res, mode, todo, spent>>

Images == [p \in DOMAIN Programs |-> render(Programs[p])]
image  == Images[prog]

Addr(kids) == INSTANCE Addressing WITH
  Width <- 0, Depth <- 9, MaxOffset <- 0, MaxJumps <- 0,
  pointer <- <<>>, phase <- "", last <- <<>>, jumps <- 0

Init ==
  /\ prog \in DOMAIN Programs
  /\ squashed \in {FALSE} \cup {prog \in Squashable}
  /\ pc = [ptr |-> <<0>>, ret |-> <<>>, jmp |-> FALSE, flag |-> FALSE, ctx |-> <<>>]
  /\ frames = <<>> /\ res = "go" /\ mode = "main"
  /\ todo = Written(Programs[prog])
  /\ spent = <<>>

-----------------------------------------------------------------------------
(* The jump methods: a second jump before the loop has seen the first has  *)
(* no effect.                                                              *)
Sibling(a, i) == [a EXCEPT ![Len(a)] = i]
Beside(a, k)  == [a EXCEPT ![Len(a)] = @ + k]
Parent(a)     == SubSeq(a, 1, Len(a) - 1)

Marked(p, a)      == IF p.jmp THEN p ELSE [p EXCEPT !.ptr = a, !.jmp = TRUE]
jump_near(p, i)   == Marked(p, Sibling(p.ptr, i))
jump_offset(p, k) == Marked(p, Beside(p.ptr, k))
jump_to(p, a)     == Marked(p, a)
jump_child(p, i)  == Marked(p, Parent(p.ptr) \o <<i, 0>>)

Frame(node)   == [node |-> node, step |-> "start", local |-> "ok"]
Node          == Head(frames).node
At(op, step)  == mode = "work" /\ Node.op = op /\ Head(frames).step = step
Failed        == res \in Exceptions
Fine          == ~Failed

(* call_sub, up to the first step of the node called: the address of a     *)
(* composition stands for its first leaf.                                  *)
CallKeeping(a, step, local) ==
  LET d    == Addr(image.kids)!Descended(a)
      here == [Head(frames) EXCEPT !.step = step, !.local = local]
  IN  /\ IF d \in DOMAIN image.node
         THEN /\ pc' = [pc EXCEPT !.ret = Append(@, pc.ptr), !.ptr = d]
              /\ frames' = <<Frame(image.node[d]), here>> \o Tail(frames)
              /\ res' = "go"
         ELSE /\ frames' = <<here>> \o Tail(frames)
              /\ res' = "NullPointer" /\ UNCHANGED pc
      /\ UNCHANGED <<prog, squashed, mode, todo, spent>>

CallOffset(k, step) == CallKeeping(Beside(pc.ptr, k), step, Head(frames).local)
CallNear(i, step)   == CallKeeping(Sibling(pc.ptr, i), step, Head(frames).local)

Restored(p) == [p EXCEPT !.ptr = IF p.jmp THEN @ ELSE Last(p.ret), !.ret = Front(@)]

(* The innermost handler ends with an interpreter p and a result: back in  *)
(* the finally of call_sub, or in the main loop.                           *)
Leave(p, result) ==
  /\ frames' = Tail(frames)
  /\ IF Len(frames) > 1
     THEN /\ IF p.ret = <<>> THEN pc' = p /\ res' = "IndexError"
             ELSE pc' = Restored(p) /\ res' = result
          /\ UNCHANGED mode
     ELSE /\ res' = result
          /\ IF result \in Exceptions THEN pc' = p /\ mode' = "panic"
             ELSE IF p.jmp THEN pc' = [p EXCEPT !.jmp = FALSE] /\ mode' = "main"
             ELSE LET next == Addr(image.kids)!Advance(p.ptr) IN
                  pc' = [p EXCEPT !.ptr = next] /\ mode' = IF next = <<>> THEN "done" ELSE "main"
  /\ UNCHANGED <<prog, squashed>>

Ends(p, result) == Leave(p, result) /\ UNCHANGED <<todo, spent>>   \* of a built-in node

-----------------------------------------------------------------------------
(* The main loop fetches the node at the pointer.                          *)
Fetch ==
  /\ mode = "main"
  /\ LET d == Addr(image.kids)!Descended(pc.ptr) IN
     /\ pc' = [pc EXCEPT !.ptr = d]
     /\ IF d \in DOMAIN image.node
        THEN frames' = <<Frame(image.node[d])>> /\ mode' = "work" /\ res' = "go"
        ELSE mode' = "panic" /\ res' = "NullPointer" /\ UNCHANGED frames
  /\ UNCHANGED <<prog, squashed, todo, spent>>

(* A node of the user.  A jump outcome is a call of pc.jump_to.            *)
Spent(id) == IF id \in DOMAIN spent THEN spent[id] ELSE 0

RunLeaf ==
  /\ At("leaf", "start")
  /\ \E o \in Node.may :
       /\ IF o \in {"TRUE", "jump", "once"}
          THEN Spent(Node.id) < (IF o = "once" THEN 1 ELSE MaxTrue) /\ spent' = (Node.id :> Spent(Node.id) + 1) @@ spent
          ELSE UNCHANGED spent
       /\ todo' = After(Programs[prog], todo, Node.id, o)
       /\ Leave(IF o = "jump" THEN jump_to(pc, image.alias[Node.to]) ELSE pc, o)

(* ConditionJumpNode. *)
Branch ==
  \/ At("jif", "start") /\ CallOffset(Node.cond, "test")
  \/ At("jif", "test") /\ res = "TRUE" /\ CallOffset(Node.do, "body")
  \/ At("jif", "test") /\ res = "FALSE" /\ Ends(jump_offset(pc, Node.false), "ok")
  \/ At("jif", "body") /\ Fine /\ Ends(jump_near(pc, Node.then), "ok")

ElseBranch ==
  \/ At("else", "start") /\ CallOffset(Node.do, "body")
  \/ At("else", "body") /\ Fine /\ Ends(jump_offset(pc, Node.then), "ok")

(* WhileNode: one iteration, or all of them when squashed.                 *)
CatchesBreak ==
  /\ res = "BreakLoop"
  /\ \/ At("whilenode", "body") \/ At("donode", "body")
     \/ squashed /\ (At("whilenode", "test") \/ At("donode", "test"))

WhileLoop ==
  \/ At("whilenode", "start") /\ CallOffset(Node.cond, "test")
  \/ At("whilenode", "test") /\ res = "TRUE" /\ CallOffset(Node.do, "body")
  \/ At("whilenode", "test") /\ res = "FALSE" /\ Ends(jump_near(pc, Node.else), "ok")
  \/ At("whilenode", "body") /\ Fine /\ ~squashed /\ Ends(jump_near(pc, Node.checkup), "ok")
  \/ At("whilenode", "body") /\ Fine /\ squashed /\ ~pc.jmp /\ CallOffset(Node.cond, "test")
  \/ At("whilenode", "body") /\ Fine /\ squashed /\ pc.jmp /\ Ends(jump_near(pc, Node.else), "ok")
  \/ CatchesBreak /\ Node.op = "whilenode" /\ Ends(jump_near(pc, Node.else), "ok")

CheckUp == At("checkup", "start") /\ Ends(jump_near(pc, Node.jump), "ok")

(* DONode.  When squashed it calls the condition by a PointerVector of its *)
(* own, which becomes the pointer and is rebased when the call returns:    *)
(* "local" is where it points.                                             *)
DoLoop ==
  \/ At("donode", "start") /\ CallKeeping(Beside(pc.ptr, 1), "body", Beside(pc.ptr, Node.jmp + 1))
  \/ At("donode", "body") /\ Fine /\ ~squashed /\ Ends(jump_near(pc, Node.jmp), "ok")
  \/ At("donode", "body") /\ Fine /\ squashed /\ pc.jmp /\ Ends(pc, "ok")
  \/ At("donode", "body") /\ Fine /\ squashed /\ ~pc.jmp /\ CallKeeping(Head(frames).local, "test", "ok")
  \/ At("donode", "test") /\ res = "TRUE" /\ CallKeeping(Beside(pc.ptr, Node.do), "body", pc.ptr)
  \/ At("donode", "test") /\ res \in {"FALSE", "ok"} /\ Ends(jump_near(pc, Node.break), "ok")
  \/ CatchesBreak /\ Node.op = "donode" /\ Ends(jump_near(pc, Node.break), "ok")

DoWhileTest ==
  \/ At("dowhile", "start") /\ CallOffset(Node.cond, "test")
  \/ At("dowhile", "test") /\ res = "TRUE" /\ Ends(jump_near(pc, Node.back), "ok")
  \/ At("dowhile", "test") /\ res = "FALSE" /\ Ends(jump_near(pc, Node.then), "ok")

(* TryNode.  "local" is what the finally clause raises again, or "ok".     *)
ToFinally(result) ==
  IF Node.fin # NotSet THEN CallKeeping(Sibling(pc.ptr, Node.fin), "finally", result)
  ELSE IF result = "ok" THEN Ends(jump_near(pc, Node.escape), "ok")
  ELSE Ends(pc, result)

Handler == Matching(Node.chain, res)

TryCatch ==
  \/ At("trynode", "start") /\ CallNear(Node.do, "body")
  \/ At("trynode", "body") /\ Fine /\ Node.els # NotSet /\ CallNear(Node.els, "rest")
  \/ At("trynode", "body") /\ Fine /\ Node.els = NotSet /\ ToFinally("ok")
  \/ At("trynode", "body") /\ Failed /\ Handler > 0 /\ CallNear(Node.chain[Handler][2], "rest")
  \/ At("trynode", "body") /\ Failed /\ Handler = 0 /\ ToFinally(res)
  \/ At("trynode", "rest") /\ ToFinally(IF Failed THEN res ELSE "ok")
  \/ At("trynode", "finally") /\ Fine /\ Ends(IF Head(frames).local = "ok" THEN jump_near(pc, Node.escape) ELSE pc,
                                           Head(frames).local)

(* What no handler deals with ends the node that made the call.            *)
Propagate ==
  /\ mode = "work" /\ Failed /\ ~CatchesBreak
  /\ Node.op = "trynode" => Head(frames).step = "finally"
  /\ Ends(pc, res)

-----------------------------------------------------------------------------
(* Native clauses: bodies are jumped into, and the return stack holds a    *)
(* sentinel for every loop.                                                *)
NativeBranch ==
  \/ At("njif", "start") /\ CallOffset(Node.cond, "test")
  \/ At("njif", "test") /\ res = "TRUE" /\ Node.single /\ CallOffset(Node.do, "body")
  \/ At("njif", "test") /\ res = "TRUE" /\ ~Node.single /\ Ends(jump_child(pc, Node.pos), "ok")
  \/ At("njif", "test") /\ res = "FALSE" /\ Ends(jump_near(pc, Node.false), "ok")
  \/ At("njif", "body") /\ Fine /\ Ends(jump_near(pc, Node.ret), "ok")

Pushed(p, a) == [p EXCEPT !.ret = Append(@, a)]

NativeWhileTest ==
  \/ At("nwhilenode", "start") /\ CallOffset(Node.cond, "test")
  \/ At("nwhilenode", "test") /\ res = "TRUE"
       /\ Ends(jump_child(Pushed(pc, Sibling(pc.ptr, Node.self)), Node.body), "ok")
  \/ At("nwhilenode", "test") /\ res = "FALSE" /\ Ends(jump_near(pc, Node.exit), "ok")

NativeDoTest ==
  \/ At("ndowhile", "start") /\ CallOffset(Node.cond, "test")
  \/ At("ndowhile", "test") /\ res \in {"TRUE", "FALSE"}
       /\ Ends(jump_near(pc, IF res = "TRUE" THEN Node.loop ELSE Node.exit), "ok")

NativeEnter ==
  /\ At("nenter", "start")
  /\ Ends(jump_child(IF Node.push THEN Pushed(pc, Sibling(pc.ptr, 0)) ELSE pc, Node.body), "ok")

(* Pops the return stack and goes on with interpreter p, or fails.         *)
Popped      == [pc EXCEPT !.ret = Front(@)]
Popping(p)  == IF pc.ret = <<>> THEN Ends(pc, "IndexError") ELSE Ends(p, "ok")

Control ==
  /\ At("control", "start")
  /\ IF Node.target = NotSet THEN Ends(pc, "RuntimeError")
     ELSE Popping(Marked(Popped, Sibling(Last(pc.ret), Node.target)))

-----------------------------------------------------------------------------
(* Jumps, calls, interrupts.                                               *)
Nothing == At("nop", "start") /\ Ends(pc, "ok")
Jump    == At("jmp", "start") /\ Ends(jump_to(pc, image.alias[Node.to]), "ok")
Skip    == At("skip", "start") /\ Ends(jump_offset(pc, 2), "ok")
Over    == At("over", "start") /\ Ends(jump_near(pc, Node.to), "ok")
Escape  == At("escape", "start") /\ Ends([pc EXCEPT !.ptr = Beside(@, 3)], "ok")

InvokeNode ==
  \/ At("invoke", "start") /\ CallKeeping(image.alias[Node.to], "called", "ok")
  \/ At("invoke", "called") /\ Fine /\ Ends(pc, res)

(* EventTrigger: the constructor's event is dispatched by trigger_event,    *)
(* whose handlers run inside this node's call.                             *)
TriggerEvent ==
  \/ At("event", "start") /\ CallOffset(Node.constructor, "made")
  \/ /\ At("event", "made") /\ Fine
     /\ \E o \in Node.dispatch.may :
          /\ todo' = After(Programs[prog], todo, Node.dispatch.id, o)
          /\ Leave(IF o = "ok" THEN jump_offset(pc, Node.escape) ELSE pc, o)
     /\ UNCHANGED spent

Operand(names, default) == IF names = <<>> THEN default ELSE image.alias[names[1]]

CallNodeBefore == \* mutant: jumps without pushing
  At("call", "start") /\ Ends(jump_to(pc, image.alias[Node.to]), "ok")
CallNode ==
  /\ At("call", "start")
  /\ Ends(jump_to(Pushed(pc, Operand(Node.from, pc.ptr)), image.alias[Node.to]), "ok")
PushReturn == At("pushret", "start") /\ Ends(Pushed(pc, image.alias[Node.to]), "ok")
Return ==
  /\ At("ret", "start")
  /\ Popping([Popped EXCEPT !.ptr = Last(pc.ret)])

(* dump_interpreter and rebase_context, which restores the flags.          *)
Saved(a)   == [ptr |-> a, jmp |-> pc.jmp, flag |-> pc.flag]
Interrupt_ ==
  /\ At("int", "start")
  /\ IF pc.flag THEN Ends(pc, "IllegalState")
     ELSE LET back == Operand(Node.from, IF Len(frames) > 1 THEN Last(pc.ret) ELSE pc.ptr)
              in_handler == [pc EXCEPT !.ctx = Append(@, Saved(back)), !.flag = Node.ifs]
          IN  Ends(jump_to(in_handler, image.alias[Node.to]), "ok")
PushCtx ==
  /\ At("pushctx", "start")
  /\ Ends([pc EXCEPT !.ctx = Append(@, Saved(image.alias[Node.from]))], "ok")
PopCtx ==
  /\ At("popctx", "start")
  /\ IF pc.ctx = <<>> THEN Ends(pc, "IndexError") ELSE Ends([pc EXCEPT !.ctx = Front(@)], "ok")
IretKeepsFlag ==   \* mutant: the flags are not restored
  /\ At("iret", "start")
  /\ pc.ctx # <<>> /\ Ends([pc EXCEPT !.ctx = Front(@), !.ptr = Last(pc.ctx).ptr], "ok")
InterruptReturn ==
  /\ At("iret", "start")
  /\ IF pc.ctx = <<>> THEN Ends(pc, "IndexError")
     ELSE LET c == Last(pc.ctx) IN
          Ends([pc EXCEPT !.ctx = Front(@), !.ptr = c.ptr, !.jmp = c.jmp, !.flag = c.flag], "ok")

-----------------------------------------------------------------------------
BuiltIn ==
  \/ Branch \/ ElseBranch \/ WhileLoop \/ CheckUp \/ DoLoop \/ DoWhileTest \/ TryCatch \/ Propagate
  \/ NativeBranch \/ NativeWhileTest \/ NativeDoTest \/ NativeEnter \/ Control
  \/ Nothing \/ Jump \/ Skip \/ Over \/ Escape \/ InvokeNode \/ TriggerEvent
  \/ CallNode \/ PushReturn \/ Return \/ Interrupt_ \/ PushCtx \/ PopCtx \/ InterruptReturn

Stopped == mode \in {"done", "panic"} /\ UNCHANGED vars

Next == Fetch \/ RunLeaf \/ BuiltIn \/ Stopped

Spec == Init /\ [][Next]_vars /\ WF_vars(Fetch \/ RunLeaf \/ BuiltIn)

-----------------------------------------------------------------------------
(* The nodes of the user run in the order that the source program says,    *)
(* whatever conditions, exceptions and jumps come about.                   *)
FollowsSource == todo # Diverged

(* A run is complete only when nothing of the program is left and nothing  *)
(* is left on the stacks, and panics only with the exception that the      *)
(* program leaves uncaught.                                                *)
EndsAsWritten ==
  /\ mode = "done" => todo = <<>> /\ pc.ret = <<>> /\ pc.ctx = <<>> /\ ~pc.flag
  /\ mode = "panic" => todo = <<Raised(res)>>

(* When a node of the user runs, the return stack holds one entry for each *)
(* call in progress, subroutine and native loop, the context stack one for *)
(* each handler, and IF is what the innermost one set.                     *)
StacksBalanced ==
  mode = "work" /\ Node.op = "leaf" =>
    /\ Len(pc.ret) = Len(frames) - 1 + Count(todo, "back")
                     + Cardinality({i \in DOMAIN todo : todo[i].op = "again" /\ todo[i].native})
    /\ Len(pc.ctx) = Count(todo, "context")
    /\ pc.flag = InHandler(todo)

(* Every program comes to an end. *)
Terminates == <>(mode \in {"done", "panic"})
=============================================================================
