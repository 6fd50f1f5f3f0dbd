--------------------------- MODULE MCInstructions ---------------------------
(* Source programs for Instructions: every clause, in the combinations     *)
(* that the documentation allows.                                          *)
EXTENDS Instructions

N(id) == Leaf(id, {"ok"})
c1 == Cond("c1")
c2 == Cond("c2")
c3 == Cond("c3")
Risky(id) == Leaf(id, {"ok", "Error", "Other", "BreakLoop"})
Careful(id) == Try(Risky(id), <<<<"Error", N("h")>>>>, <<N("t")>>, <<N("f")>>)

Control_ == [
  if        |-> Seq_(<<If(<<<<c1, N("a")>>>>, <<>>), If(<<<<c2, N("b")>>>>, <<N("e")>>), N("z")>>),
  elif      |-> Seq_(<<If(<<<<c1, N("a")>>, <<c2, N("b")>>, <<c3, N("d")>>>>, <<N("e")>>),
                       If(<<<<c1, N("a")>>, <<c2, Risky("b")>>>>, <<>>), N("z")>>),
  try       |-> Seq_(<<Try(Risky("a"), <<<<"Error", Risky("h")>>, <<"Exception", N("g")>>>>, <<>>, <<Risky("f")>>),
                       Try(N("b"), <<<<"Error", N("h")>>>>, <<Risky("t")>>, <<>>), N("z")>>),
  while     |-> Seq_(<<While(c1, Careful("a")), N("z")>>),
  whileIf   |-> Seq_(<<While(c1, If(<<<<c2, N("a")>>, <<c3, N("b")>>>>, <<N("e")>>)), N("z")>>),
  whileWhile |-> Seq_(<<While(c1, While(c2, Leaf("a", {"ok", "BreakLoop"}))), N("z")>>),
  event     |-> Seq_(<<Event(Leaf("a", {"ok", "Error"}), Leaf("e", {"ok", "Other"})), N("z")>>),
  whileEvent |-> Seq_(<<While(c1, If(<<<<c2, N("a")>>>>, <<>>)),
                        NativeWhile(c3, Seq_(<<Event(N("b"), Leaf("e", {"ok", "BreakLoop"})), BREAK_LOOP>>)), N("z")>>),
  do        |-> Seq_(<<Do(Careful("a"), c1), N("z")>>),
  doOnce    |-> Seq_(<<Do(Leaf("a", {"ok", "BreakLoop"}), Leaf("n", {"FALSE"})),
                       Do(Leaf("b", {"once", "BreakLoop"}), c1), N("z")>>),
  whileDo   |-> Seq_(<<While(c1, Do(Leaf("a", {"ok", "BreakLoop"}), c2)), N("z")>>),
  nif       |-> Seq_(<<NativeIf(<<<<c1, N("a")>>, <<c2, N("b")>>>>, <<Seq_(<<N("d"), N("e")>>)>>),
                       NativeIf(<<<<c3, Seq_(<<N("x"), N("y")>>)>>>>, <<>>), N("z")>>),
  nwhile    |-> Seq_(<<NativeWhile(c1, Seq_(<<N("a"),
                         Extracted(NativeIf(<<<<c2, Seq_(<<BREAK_LOOP>>)>>>>, <<>>)),
                         Extracted(NativeIf(<<<<c3, Seq_(<<N("b"), CONTINUE>>)>>>>, <<>>)), N("d")>>)), N("z")>>),
  nested    |-> Seq_(<<NativeWhile(c1, Seq_(<<
                         Extracted(NativeWhile(c2, Seq_(<<N("a"), CONTINUE, N("b")>>))),
                         Extracted(NativeDo(Seq_(<<N("d"), Extracted(NativeIf(<<<<c3, Seq_(<<BREAK_LOOP>>)>>>>, <<>>))>>), Cond("c4"))),
                         N("e")>>)), N("z")>>),
  ndo       |-> Seq_(<<NativeDo(N("a"), c1), NativeDo(Seq_(<<If(<<<<c2, N("b")>>>>, <<N("e")>>), Careful("d")>>), c3), N("z")>>)
]

Label(name) == Alias(Nop, name)
Hide(fn)    == ArchivedSegment(fn)

Subroutines == [
  call    |-> Seq_(<<N("a"), Call("f", <<>>), N("b"), Call("g", <<>>), Call("f", <<"back">>), N("no"),
                     Hide(Fn("f", N("x"))),
                     Hide(Fn("g", Seq_(<<Call("f", <<>>), NativeIf(<<<<c1, Seq_(<<Ret>>)>>>>, <<>>), Leaf("y", {"ok", "Error"})>>))),
                     Label("back"), N("z")>>),
  inline  |-> Seq_(<<Fn("f", N("x")), NativeWhile(c1, Seq_(<<Call("f", <<>>), N("a")>>)),
                     InterFn("h", N("y")), Interrupt("h", <<>>, TRUE), N("z")>>),
  int     |-> Seq_(<<Interrupt("h", <<>>, TRUE), N("a"), Interrupt("h", <<"back">>, FALSE), N("no"),
                     Hide(InterFn("h", Seq_(<<N("x"), NativeIf(<<<<c1, Seq_(<<Interrupt("i", <<>>, TRUE), N("y")>>)>>>>, <<>>)>>))),
                     Hide(InterFn("i", N("w"))), Label("back"), N("z")>>),
  invoke  |-> Seq_(<<Invoke("t"), ArchivedNodes(<<Alias(Leaf("t", {"ok", "Error"}), "t")>>), N("a"),
                     If(<<<<c1, Invoke("t")>>>>, <<>>), N("z")>>),
  pushret |-> Seq_(<<PushRet("back"), Jmp("f"), N("no"), Hide(Fn("f", N("x"))), Label("back"), N("z")>>),
  pushctx |-> Seq_(<<PushContext("back"), Jmp("h"), Hide(InterFn("h", N("x"))), N("no"), Label("back"), N("a"),
                     Interrupt("i", <<>>, FALSE), N("b"), Label("out"), N("z"),
                     Hide(InterFn("i", Seq_(<<NativeIf(<<<<c1, Seq_(<<PopContext, Jmp("out")>>)>>>>, <<>>), N("y")>>)))>>),
  jmp     |-> Seq_(<<Label("top"), N("a"), Hop("j", {"ok", "jump"}, "top"), Jmp("end"), N("no"), Label("end"),
                     If(<<<<c1, Hop("k", {"ok", "jump"}, "top")>>>>, <<N("e")>>), N("z")>>)
]

AllPrograms == Control_ @@ Subroutines
AllButDo    == DOMAIN AllPrograms \ {"whileDo"}   \* see SquashedDo

(* The combinations that do not do what they say.                          *)
NativeIfElse  == [p |-> Seq_(<<NativeIf(<<<<c1, Seq_(<<N("a"), N("b")>>)>>>>, <<N("e")>>), N("z")>>)]
SquashedDo    == [p |-> Seq_(<<Do(N("a"), c1), N("z")>>)]
CallInIf      == [p |-> Seq_(<<If(<<<<c1, Call("f", <<>>)>>>>, <<>>), N("a"), Hide(Fn("f", N("x"))), N("z")>>)]
BreakInElse   == [p |-> Seq_(<<While(c1, If(<<<<c2, N("a")>>>>, <<Leaf("e", {"BreakLoop"})>>)), N("z")>>)]
=============================================================================
