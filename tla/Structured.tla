----------------------------- MODULE Structured -----------------------------
(***************************************************************************)
(* What the clauses of a workflow mean to its author, whatever they        *)
(* compile to: a workflow is what is left "todo", a sequence of parts of   *)
(* the program and of marks for what encloses them, whose head is the next *)
(* node of the user to run or the next condition to test.                  *)
(***************************************************************************)
EXTENDS Layout

(* Exceptions of user nodes and of the interpreter.                        *)
Exceptions == {"Error", "Other", "BreakLoop", "IllegalState", "IndexError", "RuntimeError", "NullPointer"}

(* Try does not catch BreakLoop (exception_ignored).                       *)
Ignored == {"BreakLoop"}
Matching(catch, exc) ==
  IF exc \in Ignored THEN 0 ELSE SelectInSeq(catch, LAMBDA c : c[1] \in {exc, "Exception"})

Test(c, yes, no)    == [op |-> "test", id |-> c.id, yes |-> yes, no |-> no]
Again(native, next) == [op |-> "again", native |-> native, next |-> next]   \* end of a loop's body
Guard(try)          == [op |-> "guard", try |-> try]                        \* end of the body of Try
Finally(fin)        == [op |-> "finally", fin |-> fin]
Raised(exc)         == [op |-> "raised", exc |-> exc]
Back                == [op |-> "back"]                                      \* RET returns to what follows
Context(flag)       == [op |-> "context", flag |-> flag]                    \* IRET does

Diverged == <<[op |-> "diverged"]>>

Past(todo, i)    == SubSeq(todo, i + 1, Len(todo))
Mark(todo, op)   == SelectInSeq(todo, LAMBDA t : t.op = op)
LoopMark(todo)   == SelectInSeq(todo, LAMBDA t : t.op = "again" /\ t.native)
Count(todo, op)  == Cardinality({i \in DOMAIN todo : todo[i].op = op})

(* The rest of the current subroutine or handler, and what called it.      *)
LevelEnd(todo) ==
  LET i == SelectInSeq(todo, LAMBDA t : t.op \in {"back", "context"})
  IN  IF i = 0 THEN Len(todo) ELSE i - 1
Level(todo)    == SubSeq(todo, 1, LevelEnd(todo))
Callers(todo)  == Past(todo, LevelEnd(todo))
InHandler(todo) == Mark(todo, "context") > 0 /\ todo[Mark(todo, "context")].flag

(* An exception leaves everything up to the Try that catches it, or for    *)
(* BreakLoop the innermost WHILE or DO; every FINALLY on the way is run.   *)
RECURSIVE Raise(_, _)
Raise(todo, exc) ==
  IF todo = <<>> THEN <<Raised(exc)>>
  ELSE LET h == Head(todo) IN
       IF h.op = "again" /\ ~h.native /\ exc = "BreakLoop" THEN Tail(todo)
       ELSE IF h.op = "guard" /\ Matching(h.try.catch, exc) > 0
       THEN <<h.try.catch[Matching(h.try.catch, exc)][2], Finally(h.try.fin)>> \o Tail(todo)
       ELSE IF h.op = "guard" THEN h.try.fin \o <<Raised(exc)>> \o Tail(todo)
       ELSE IF h.op = "finally" THEN h.fin \o <<Raised(exc)>> \o Tail(todo)
       ELSE Raise(Tail(todo), exc)

(* What an alias stands for: the rest of the main sequence, a subroutine,  *)
(* a handler or an archived node.                                          *)
Inner(k) == IF k.op = "segment" THEN k.seg ELSE k
Named(k, name) ==
  \/ Inner(k).op \in {"alias", "fn", "interfn"} /\ Inner(k).name = name
  \/ k.op = "archived" /\ \E i \in DOMAIN k.nodes : k.nodes[i].name = name
From(main, name) ==
  LET i == SelectInSeq(main, LAMBDA k : Named(k, name))
      k == Inner(main[i])
  IN  CASE k.op = "alias"    -> SubSeq(main, i, Len(main))
        [] k.op = "fn"       -> <<k.block, Ret>>
        [] k.op = "interfn"  -> <<k.block, Iret>>
        [] k.op = "archived" -> <<k.nodes[SelectInSeq(k.nodes, LAMBDA n : n.name = name)]>>

Looped(s)  == s.op \in {"while", "nwhile"}
Native(s)  == s.op \in {"nwhile", "ndo"}
LoopTest(s) ==
  Test(s.cond, IF Looped(s) THEN <<s.body, Again(Native(s), <<s>>)>> ELSE <<s>>, <<>>)
ChooseArm(s) ==
  Test(s.arms[1][1], <<s.arms[1][2]>>,
       IF Len(s.arms) = 1 THEN s.els ELSE <<[s EXCEPT !.arms = Tail(@)]>>)

(* Replaces the head of todo until it is a node to run or a test.          *)
RECURSIVE Next_(_, _)
Next_(main, todo) ==
  IF todo = <<>> \/ (Len(todo) = 1 /\ todo[1].op = "raised") THEN todo ELSE
  LET h == Head(todo)  rest == Tail(todo)
      Then(t) == Next_(main, t)
      Returning(to) == IF to = <<>> THEN rest ELSE Past(From(main, to[1]), 1)
  IN
  CASE h.op \in {"leaf", "test"} -> todo
    [] h.op \in {"nop", "fn", "interfn", "segment", "archived"} -> Then(rest)
    [] h.op = "alias"     -> Then(<<h.node>> \o rest)
    [] h.op = "seq"       -> Then(h.kids \o rest)
    [] h.op = "extracted" -> Then(<<h.of>> \o rest)
    [] h.op = "trigger"   -> Then(<<h.of, h.dispatch>> \o rest)
    [] h.op \in {"if", "nif"} -> <<ChooseArm(h)>> \o rest
    [] h.op \in {"while", "nwhile"} -> <<LoopTest(h)>> \o rest
    [] h.op \in {"do", "ndo"} -> Then(<<h.body, Again(Native(h), <<LoopTest(h)>>)>> \o rest)
    [] h.op = "again"     -> Then(h.next \o rest)
    [] h.op = "control"   -> Then(Past(rest, LoopMark(rest) - IF h.tag = "continue" THEN 1 ELSE 0))
    [] h.op = "try"       -> Then(<<h.body, Guard(h)>> \o rest)
    [] h.op = "guard"     -> Then(h.try.then \o <<Finally(h.try.fin)>> \o rest)
    [] h.op = "finally"   -> Then(h.fin \o rest)
    [] h.op = "raised"    -> Then(Raise(rest, h.exc))
    [] h.op = "invoke"    -> Then(From(main, h.to) \o rest)
    [] h.op = "jmp"       -> Then(From(main, h.to) \o Callers(rest))
    [] h.op = "call"      -> Then(From(main, h.to) \o <<Back>> \o Returning(h.from))
    [] h.op = "pushret"   -> Then(Level(rest) \o <<Back>> \o Past(From(main, h.to), 1) \o Callers(rest))
    [] h.op = "ret"       -> Then(Past(rest, Mark(rest, "back")))
    [] h.op = "int"       ->
         IF InHandler(rest) THEN Then(Raise(rest, "IllegalState"))
         ELSE Then(From(main, h.to) \o <<Context(h.ifs)>> \o Returning(h.from))
    [] h.op = "pushctx"   ->
         Then(Level(rest) \o <<Context(InHandler(rest))>> \o Past(From(main, h.from), 1) \o Callers(rest))
    [] h.op = "popctx"    -> Then(RemoveAt(rest, Mark(rest, "context")))
    [] h.op = "iret"      -> Then(Past(rest, Mark(rest, "context")))

Written(program) == Next_(program.kids, <<program>>)

(* What is left after the user's node id has ended with an outcome.        *)
After(program, todo, id, outcome) ==
  IF todo = <<>> \/ Head(todo).op \notin {"leaf", "test"} \/ Head(todo).id # id THEN Diverged
  ELSE LET h == Head(todo) IN
       Next_(program.kids,
             IF outcome \in Exceptions THEN Raise(Tail(todo), outcome)
             ELSE IF outcome = "jump" THEN <<Jmp(h.to)>> \o Tail(todo)
             ELSE IF h.op = "test" THEN (IF outcome = "TRUE" THEN h.yes ELSE h.no) \o Tail(todo)
             ELSE Tail(todo))
=============================================================================
