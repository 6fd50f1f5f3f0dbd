------------------------- MODULE DependenciesProofs -------------------------
(***************************************************************************)
(* Proofs about Dependencies, for any providers, branches, runs and        *)
(* scopes.  Types hold whatever overlaps; that resources are shared, known *)
(* and torn down in order holds when nothing overlaps with a run, and that *)
(* what is injected is safe to use when no teardown raises either.         *)
(***************************************************************************)
EXTENDS Dependencies, TLAPS

(* What the types of a step rest on: a branch that is under way has a      *)
(* provider to resolve, and an entry and a scope when it opens it.         *)
BranchShapes ==
  \A b \in Branches :
    /\ bpc[b] \in {"next", "waiting", "opening"} => todo[b] # <<>>
    /\ bpc[b] \in {"waiting", "opening"} => on[b] \in Res
    /\ bpc[b] = "opening" => from[b] \in Scopes
EntryShapes == \A n \in Res : entry[n] = "value" => val[n] \in Res
CloseShapes == \A c \in Closers : phase[c] = "closing" => ending[c] \in Scopes
Shapes == BranchShapes /\ EntryShapes /\ CloseShapes

EntryTypes ==
  /\ store \in [Keys -> Res \cup {0}] /\ val \in [Res -> Res \cup {0}]
  /\ entry \in [Res -> {"none", "pending", "value", "null", "raised"}]
  /\ res \in [Res -> {"none", "open", "closed"}]
  /\ key \in [Res -> Keys \cup {NoKey}] /\ built \in [Res -> SUBSET Res]
ScopeTypes ==
  /\ cur \in Scopes /\ closed \in [Scopes -> BOOLEAN]
  /\ values \in [Scopes -> [Keys -> Res \cup {0}]] /\ stack \in [Scopes -> Seq(Res)]
BranchTypes ==
  /\ seen \in Scopes \cup {0}
  /\ todo \in [Branches -> Seq(Keys)] /\ got \in [Branches -> SUBSET Res]
  /\ on \in [Branches -> Res \cup {0}] /\ from \in [Branches -> Scopes \cup {0}]
  /\ bpc \in [Branches -> {"idle", "next", "waiting", "opening", "ok", "failed"}]
ClosingTypes ==
  /\ held \subseteq Res /\ pending \in BOOLEAN
  /\ phase \in [Closers -> {"off", "between", "resolving", "running", "closing", "hung"}]
  /\ ending \in [Closers -> Scopes \cup {0}] /\ failing \in [Closers -> BOOLEAN]

TInv == EntryTypes /\ ScopeTypes /\ BranchTypes /\ ClosingTypes /\ Shapes

LEMMA TypesAre == TypeOK <=> EntryTypes /\ ScopeTypes /\ BranchTypes /\ ClosingTypes
BY DEF TypeOK, EntryTypes, ScopeTypes, BranchTypes, ClosingTypes

-----------------------------------------------------------------------------
LEMMA ResAre == 0 \notin Res /\ 0 \notin Scopes /\ Res \subseteq Nat /\ Scopes \subseteq Nat
BY DependenciesAssumption DEF Res, Scopes

LEMMA RestOf ==
  ASSUME NEW S, NEW s \in Seq(S), s # <<>>
  PROVE  /\ Head(s) \in S /\ Tail(s) \in Seq(S)
         /\ s[Len(s)] \in S /\ SubSeq(s, 1, Len(s) - 1) \in Seq(S)
         /\ Len(s) \in Nat /\ Len(s) >= 1
<1>1. Len(s) \in Nat /\ Len(s) >= 1
  OBVIOUS
<1>2. Head(s) \in S /\ Tail(s) \in Seq(S) /\ s[Len(s)] \in S
  BY <1>1
<1>3. SubSeq(s, 1, Len(s) - 1) \in Seq(S)
  BY <1>1
<1> QED BY <1>1, <1>2, <1>3

LEMMA TInitially == Init => TInv
<1> SUFFICES ASSUME Init PROVE TInv
  OBVIOUS
<1> USE DependenciesAssumption, ResAre DEF Init
<1>1. 1 \in Scopes
  BY DEF Scopes
<1>2. EntryTypes /\ ClosingTypes
  BY DEF EntryTypes, ClosingTypes
<1>3. ScopeTypes /\ BranchTypes
  BY <1>1 DEF ScopeTypes, BranchTypes
<1>4. Shapes
  BY DEF Shapes, BranchShapes, EntryShapes, CloseShapes
<1> QED BY <1>2, <1>3, <1>4 DEF TInv

(* A branch that takes the outcome of an entry. *)
LEMMA TakesTypes ==
  ASSUME TInv, NEW b \in Branches, NEW e \in Res, bpc[b] \in {"next", "waiting"}, Takes(b, e),
         UNCHANGED <<entries, scopes, held, closing, pending>>
  PROVE  TInv'
<1> USE DEF TInv, entries, scopes, closing
<1>0. EntryTypes' /\ ScopeTypes' /\ ClosingTypes'
  BY DEF EntryTypes, ScopeTypes, ClosingTypes
<1>1. todo[b] \in Seq(Keys) /\ todo[b] # <<>>
  BY DEF BranchTypes, Shapes, BranchShapes
<1>2. Tail(todo[b]) \in Seq(Keys)
  BY <1>1, RestOf
<1>3. EntryShapes' /\ CloseShapes'
  BY DEF Shapes, EntryShapes, CloseShapes
<1>4. CASE entry[e] = "value"
  <2>1. /\ on' = [on EXCEPT ![b] = 0] /\ got' = [got EXCEPT ![b] = @ \cup {val[e]}]
        /\ todo' = [todo EXCEPT ![b] = Tail(@)] /\ UNCHANGED <<seen, from>>
        /\ bpc' = [bpc EXCEPT ![b] = IF Tail(todo[b]) = <<>> THEN "ok" ELSE "next"]
    BY <1>4 DEF Takes
  <2>2. val[e] \in Res
    BY <1>4 DEF Shapes, EntryShapes
  <2>3. BranchTypes'
    BY <1>2, <2>1, <2>2 DEF BranchTypes
  <2>4. BranchShapes'
    BY <2>1 DEF Shapes, BranchShapes, BranchTypes
  <2> QED BY <1>0, <1>3, <2>3, <2>4 DEF Shapes
<1>5. CASE entry[e] # "value"
  <2>1. /\ on' = [on EXCEPT ![b] = 0] /\ UNCHANGED <<got, todo, seen, from>>
        /\ bpc' = [bpc EXCEPT ![b] = "failed"]
    BY <1>5 DEF Takes
  <2>2. BranchTypes'
    BY <2>1 DEF BranchTypes
  <2>3. BranchShapes'
    BY <2>1 DEF Shapes, BranchShapes, BranchTypes
  <2> QED BY <1>0, <1>3, <2>2, <2>3 DEF Shapes
<1> QED BY <1>4, <1>5

LEMMA JoinTypes ==
  ASSUME TInv, NEW b \in Branches, Join(b) \/ Woken(b)
  PROVE  TInv'
<1>1. CASE Woken(b)
  <2>1. on[b] \in Res /\ bpc[b] = "waiting"
    BY <1>1 DEF Woken, TInv, Shapes, BranchShapes
  <2> QED BY <1>1, <2>1, TakesTypes DEF Woken
<1>2. CASE Join(b)
  <2> DEFINE e == store[Head(todo[b])]
  <2>1. bpc[b] = "next" /\ e # 0
    BY <1>2 DEF Join
  <2>2. todo[b] \in Seq(Keys) /\ todo[b] # <<>>
    BY <2>1 DEF TInv, BranchTypes, Shapes, BranchShapes
  <2>3. e \in Res
    BY <2>1, <2>2, RestOf DEF TInv, EntryTypes
  <2>4. CASE entry[e] # "pending"
    <3> QED BY <1>2, <2>1, <2>3, <2>4, TakesTypes DEF Join
  <2>5. CASE entry[e] = "pending"
    <3> USE DEF entries, scopes, closing, TInv
    <3>1. /\ UNCHANGED <<entries, scopes, held, closing, pending, seen, todo, got, from>>
          /\ bpc' = [bpc EXCEPT ![b] = "waiting"] /\ on' = [on EXCEPT ![b] = e]
      BY <1>2, <2>5 DEF Join
    <3>2. EntryTypes' /\ ScopeTypes' /\ ClosingTypes' /\ EntryShapes' /\ CloseShapes'
      BY <3>1 DEF EntryTypes, ScopeTypes, ClosingTypes, Shapes, EntryShapes, CloseShapes
    <3>3. BranchTypes'
      BY <2>3, <3>1 DEF BranchTypes
    <3>4. BranchShapes'
      BY <2>2, <2>3, <3>1 DEF Shapes, BranchShapes, BranchTypes
    <3> QED BY <3>2, <3>3, <3>4 DEF Shapes
  <2> QED BY <2>4, <2>5
<1> QED BY <1>1, <1>2

LEMMA OpenTypes ==
  ASSUME TInv, NEW b \in Branches, NEW n \in Res, Open(b, n)
  PROVE  TInv'
<1> DEFINE k == Head(todo[b])
           s == IF seen = 0 THEN cur ELSE seen
           v == values[s][k]
<1> USE DEF TInv, scopes, closing
<1>1. todo[b] \in Seq(Keys) /\ todo[b] # <<>>
  BY DEF Open, BranchTypes, Shapes, BranchShapes
<1>2. k \in Keys /\ Tail(todo[b]) \in Seq(Keys)
  BY <1>1, RestOf
<1>3. s \in Scopes
  BY DEF BranchTypes, ScopeTypes
<1>4. v \in Res \cup {0}
  BY <1>2, <1>3 DEF ScopeTypes
<1>5. ScopeTypes' /\ ClosingTypes' /\ CloseShapes'
  BY DEF Open, ScopeTypes, ClosingTypes, Shapes, CloseShapes
<1>6. /\ store' = [store EXCEPT ![k] = n] /\ key' = [key EXCEPT ![n] = k]
      /\ UNCHANGED <<res, built, seen>>
  BY DEF Open
<1> HIDE DEF k, s, v
<1>7. CASE v # 0
  <2>1. /\ entry' = [entry EXCEPT ![n] = "value"] /\ val' = [val EXCEPT ![n] = v]
        /\ got' = [got EXCEPT ![b] = @ \cup {v}]
        /\ todo' = [todo EXCEPT ![b] = Tail(@)]
        /\ bpc' = [bpc EXCEPT ![b] = IF Tail(todo[b]) = <<>> THEN "ok" ELSE "next"]
        /\ UNCHANGED <<on, from>>
    BY <1>7 DEF Open, k, s, v
  <2>2. EntryTypes' /\ BranchTypes'
    BY <1>2, <1>4, <1>6, <1>7, <2>1 DEF EntryTypes, BranchTypes
  <2>3. EntryShapes'
    BY <1>4, <1>7, <2>1 DEF Shapes, EntryShapes, EntryTypes
  <2>4. BranchShapes'
    BY <2>1 DEF Shapes, BranchShapes, BranchTypes
  <2> QED BY <1>5, <2>2, <2>3, <2>4 DEF Shapes
<1>8. CASE v = 0 /\ closed[s]
  <2>1. /\ entry' = [entry EXCEPT ![n] = "raised"] /\ bpc' = [bpc EXCEPT ![b] = "failed"]
        /\ UNCHANGED <<val, got, todo, on, from>>
    BY <1>8 DEF Open, k, s, v
  <2>2. EntryTypes' /\ BranchTypes'
    BY <1>2, <1>6, <2>1 DEF EntryTypes, BranchTypes
  <2>3. EntryShapes' /\ BranchShapes'
    BY <2>1 DEF Shapes, EntryShapes, EntryTypes, BranchShapes, BranchTypes
  <2> QED BY <1>5, <2>2, <2>3 DEF Shapes
<1>9. CASE v = 0 /\ ~closed[s]
  <2>1. /\ entry' = [entry EXCEPT ![n] = "pending"] /\ bpc' = [bpc EXCEPT ![b] = "opening"]
        /\ on' = [on EXCEPT ![b] = n] /\ from' = [from EXCEPT ![b] = s]
        /\ UNCHANGED <<val, got, todo>>
    BY <1>9 DEF Open, k, s, v
  <2>2. EntryTypes' /\ BranchTypes'
    BY <1>2, <1>3, <1>6, <2>1 DEF EntryTypes, BranchTypes
  <2>3. EntryShapes'
    BY <2>1 DEF Shapes, EntryShapes, EntryTypes
  <2>4. BranchShapes'
    BY <1>1, <1>3, <2>1 DEF Shapes, BranchShapes, BranchTypes
  <2> QED BY <1>5, <2>2, <2>3, <2>4 DEF Shapes
<1> QED BY <1>7, <1>8, <1>9

LEMMA OpenedTypes ==
  ASSUME TInv, NEW b \in Branches, NEW how, Opened(b, how)
  PROVE  TInv'
<1> USE DEF TInv, closing
<1>1. todo[b] \in Seq(Keys) /\ todo[b] # <<>> /\ on[b] \in Res /\ from[b] \in Scopes
  BY DEF Opened, BranchTypes, Shapes, BranchShapes
<1>2. Tail(todo[b]) \in Seq(Keys)
  BY <1>1, RestOf
<1>3. /\ entry' = [entry EXCEPT ![on[b]] = how] /\ how \in {"value", "null"}
      /\ val' = [val EXCEPT ![on[b]] = on[b]]
      /\ UNCHANGED <<store, key, cur, closed, seen, held, phase, ending, failing, pending>>
      /\ built' = [built EXCEPT ![on[b]] = got[b]]
      /\ stack' = [stack EXCEPT ![from[b]] = Append(@, on[b])]
      /\ values' = [values EXCEPT ![from[b]][key[on[b]]] = on[b]]
      /\ on' = [on EXCEPT ![b] = 0] /\ from' = [from EXCEPT ![b] = 0]
  BY DEF Opened
<1>4. res' \in [Res -> {"none", "open", "closed"}]
  BY <1>1 DEF Opened, EntryTypes
<1>5. EntryTypes'
  BY <1>1, <1>3, <1>4 DEF EntryTypes, BranchTypes
<1>6. ScopeTypes'
  <2>1. stack[from[b]] \in Seq(Res)
    BY <1>1 DEF ScopeTypes
  <2>2. Append(stack[from[b]], on[b]) \in Seq(Res)
    BY <1>1, <2>1
  <2>3. stack' \in [Scopes -> Seq(Res)]
    BY <1>3, <2>2 DEF ScopeTypes
  <2>4. values' \in [Scopes -> [Keys -> Res \cup {0}]]
    BY <1>1, <1>3 DEF ScopeTypes
  <2> QED BY <1>3, <2>3, <2>4 DEF ScopeTypes
<1>7. ClosingTypes' /\ CloseShapes' /\ EntryShapes'
  BY <1>1, <1>3 DEF ClosingTypes, Shapes, CloseShapes, EntryShapes, EntryTypes
<1>8. \/ /\ got' = [got EXCEPT ![b] = @ \cup {on[b]}] /\ todo' = [todo EXCEPT ![b] = Tail(@)]
         /\ bpc' = [bpc EXCEPT ![b] = IF Tail(todo[b]) = <<>> THEN "ok" ELSE "next"]
      \/ bpc' = [bpc EXCEPT ![b] = "failed"] /\ UNCHANGED <<got, todo>>
  BY DEF Opened
<1>9. BranchTypes'
  <2>0. got' = [got EXCEPT ![b] = @ \cup {on[b]}] \/ UNCHANGED got
    BY <1>8
  <2>1. got' \in [Branches -> SUBSET Res]
    <3>1. CASE got' = [got EXCEPT ![b] = @ \cup {on[b]}]
      <4>1. got[b] \cup {on[b]} \in SUBSET Res
        BY <1>1 DEF BranchTypes
      <4> QED BY <3>1, <4>1 DEF BranchTypes
    <3> QED BY <2>0, <3>1 DEF BranchTypes
  <2>3. todo' \in [Branches -> Seq(Keys)]
    <3>1. CASE todo' = [todo EXCEPT ![b] = Tail(@)]
      BY <1>2, <3>1 DEF BranchTypes
    <3> QED BY <1>8, <3>1 DEF BranchTypes
  <2>2. bpc' \in [Branches -> {"idle", "next", "waiting", "opening", "ok", "failed"}]
    BY <1>8 DEF BranchTypes
  <2> QED BY <1>3, <2>1, <2>2, <2>3 DEF BranchTypes
<1>10. \A c \in Branches : c # b => UNCHANGED <<bpc[c], on[c], from[c], todo[c]>>
  BY <1>3, <1>8 DEF BranchTypes
<1>11. bpc'[b] \in {"ok", "failed", "next"} /\ (bpc'[b] = "next" => todo'[b] # <<>>)
  BY <1>8 DEF BranchTypes
<1>12. BranchShapes'
  BY <1>10, <1>11 DEF Shapes, BranchShapes
<1> QED BY <1>5, <1>6, <1>7, <1>9, <1>12 DEF Shapes

LEMMA DropTypes ==
  ASSUME TInv, NEW bs, Drop(bs)
  PROVE  /\ store' \in [Keys -> Res \cup {0}]
         /\ entry' \in [Res -> {"none", "pending", "value", "null", "raised"}]
         /\ \A n \in Res : entry'[n] = "value" => entry[n] = "value"
BY DEF TInv, EntryTypes, Drop

LEMMA FailsTypes ==
  ASSUME TInv, NEW b \in Branches, NEW how, Fails(b, how)
  PROVE  TInv'
<1> USE DEF TInv, scopes, closing
<1>1. /\ store' \in [Keys -> Res \cup {0}]
      /\ entry' \in [Res -> {"none", "pending", "value", "null", "raised"}]
      /\ \A n \in Res : entry'[n] = "value" => entry[n] = "value"
  <2>1. CASE how = "cancel"
    BY <2>1, DropTypes DEF Fails
  <2>2. CASE how # "cancel"
    BY <2>2 DEF Fails, EntryTypes
  <2> QED BY <2>1, <2>2
<1>2. EntryTypes' /\ EntryShapes'
  BY <1>1 DEF Fails, EntryTypes, Shapes, EntryShapes
<1>3. ScopeTypes' /\ ClosingTypes' /\ CloseShapes'
  BY DEF Fails, ScopeTypes, ClosingTypes, Shapes, CloseShapes
<1>4. BranchTypes' /\ BranchShapes'
  BY DEF Fails, BranchTypes, Shapes, BranchShapes
<1> QED BY <1>2, <1>3, <1>4 DEF Shapes

-----------------------------------------------------------------------------
(* Closing. *)
LEMMA SwapTypes ==
  ASSUME TInv, NEW c \in Closers, Swap(c, "off")
  PROVE  /\ cur' \in Scopes /\ store' \in [Keys -> Res \cup {0}]
         /\ res' \in [Res -> {"none", "open", "closed"}]
         /\ phase' = [phase EXCEPT ![c] = "off"] /\ ending' = [ending EXCEPT ![c] = 0]
<1>1. cur' \in Scopes
  BY DependenciesAssumption DEF Swap, TInv, ScopeTypes, Scopes
<1>2. store' \in [Keys -> Res \cup {0}]
  BY DEF Swap
<1>3. res' \in [Res -> {"none", "open", "closed"}]
  BY DEF Swap, TInv, EntryTypes
<1> QED BY <1>1, <1>2, <1>3 DEF Swap

LEMMA PhaseTypes ==
  ASSUME TInv, NEW c \in Closers,
         \/ phase' = [phase EXCEPT ![c] = "closing"] /\ ending' = [ending EXCEPT ![c] = cur]
         \/ phase' = [phase EXCEPT ![c] = "off"] /\ ending' = [ending EXCEPT ![c] = 0]
         \/ /\ phase' = [phase EXCEPT ![c] = "off"]
            /\ UNCHANGED ending
         \/ /\ \E p \in {"between", "resolving", "running", "hung"} : phase' = [phase EXCEPT ![c] = p]
            /\ UNCHANGED ending
  PROVE  /\ phase' \in [Closers -> {"off", "between", "resolving", "running", "closing", "hung"}]
         /\ ending' \in [Closers -> Scopes \cup {0}] /\ CloseShapes'
<1> USE DEF TInv, ClosingTypes, ScopeTypes, Shapes, CloseShapes
<1>1. CASE phase' = [phase EXCEPT ![c] = "closing"] /\ ending' = [ending EXCEPT ![c] = cur]
  BY <1>1
<1>2. CASE phase' = [phase EXCEPT ![c] = "off"] /\ ending' = [ending EXCEPT ![c] = 0]
  BY <1>2
<1>3. CASE phase' = [phase EXCEPT ![c] = "off"] /\ UNCHANGED ending
  BY <1>3
<1>4. CASE /\ \E p \in {"between", "resolving", "running", "hung"} : phase' = [phase EXCEPT ![c] = p]
           /\ UNCHANGED ending
  BY <1>4
<1> QED BY <1>1, <1>2, <1>3, <1>4

LEMMA CloseTypes ==
  ASSUME TInv, NEW c \in Closers, Close(c), UNCHANGED <<branch, held>>, pending' \in BOOLEAN
  PROVE  TInv'
<1> USE DEF TInv, branch
<1>1. /\ cur' \in Scopes /\ store' \in [Keys -> Res \cup {0}]
      /\ res' \in [Res -> {"none", "open", "closed"}]
      /\ \/ phase' = [phase EXCEPT ![c] = "closing"] /\ ending' = [ending EXCEPT ![c] = cur]
         \/ phase' = [phase EXCEPT ![c] = "off"] /\ ending' = [ending EXCEPT ![c] = 0]
  <2>1. CASE closed[cur] \/ stack[cur] = <<>>
    BY <2>1, SwapTypes DEF Close
  <2>2. CASE ~(closed[cur] \/ stack[cur] = <<>>)
    BY <2>2 DEF Close, EntryTypes, ScopeTypes
  <2> QED BY <2>1, <2>2
<1>2. EntryTypes' /\ EntryShapes'
  BY <1>1 DEF Close, EntryTypes, Shapes, EntryShapes
<1>3. ScopeTypes'
  BY <1>1 DEF Close, ScopeTypes
<1>4. BranchTypes' /\ BranchShapes'
  BY DEF BranchTypes, Shapes, BranchShapes
<1>5. ClosingTypes' /\ CloseShapes'
  BY <1>1, PhaseTypes DEF Close, ClosingTypes
<1> QED BY <1>2, <1>3, <1>4, <1>5 DEF Shapes

LEMMA TeardownTypes ==
  ASSUME TInv, NEW c \in Closers, Teardown(c) \/ Closed(c)
  PROVE  TInv'
<1> USE DEF TInv, branch
<1>1. CASE Teardown(c)
  <2>1. ending[c] \in Scopes
    BY <1>1 DEF Teardown, Shapes, CloseShapes
  <2>2. stack[ending[c]] \in Seq(Res) /\ stack[ending[c]] # <<>>
    BY <1>1, <2>1 DEF Teardown, ScopeTypes
  <2>3. SubSeq(stack[ending[c]], 1, Len(stack[ending[c]]) - 1) \in Seq(Res)
    BY <2>2, RestOf
  <2>4. ScopeTypes'
    BY <1>1, <2>1, <2>3 DEF Teardown, ScopeTypes
  <2>5. EntryTypes' /\ EntryShapes'
    BY <1>1 DEF Teardown, EntryTypes, Shapes, EntryShapes
  <2>6. BranchTypes' /\ BranchShapes'
    BY <1>1 DEF Teardown, BranchTypes, Shapes, BranchShapes
  <2>7. ClosingTypes' /\ CloseShapes'
    BY <1>1 DEF Teardown, ClosingTypes, Shapes, CloseShapes
  <2> QED BY <2>4, <2>5, <2>6, <2>7 DEF Shapes
<1>2. CASE Closed(c)
  <2>1. /\ cur' \in Scopes /\ store' \in [Keys -> Res \cup {0}]
        /\ res' \in [Res -> {"none", "open", "closed"}]
        /\ phase' = [phase EXCEPT ![c] = "off"] /\ ending' = [ending EXCEPT ![c] = 0]
    <3>1. CASE failing[c]
      BY <1>2, <3>1 DEF Closed, EntryTypes, ScopeTypes
    <3>2. CASE ~failing[c]
      BY <1>2, <3>2, SwapTypes DEF Closed
    <3> QED BY <3>1, <3>2
  <2>2. EntryTypes' /\ EntryShapes' /\ ScopeTypes'
    BY <1>2, <2>1 DEF Closed, EntryTypes, Shapes, EntryShapes, ScopeTypes
  <2>3. BranchTypes' /\ BranchShapes'
    BY <1>2 DEF Closed, BranchTypes, Shapes, BranchShapes
  <2>4. failing' \in [Closers -> BOOLEAN]
    BY <1>2 DEF Closed, ClosingTypes
  <2>5. ClosingTypes' /\ CloseShapes'
    BY <1>2, <2>1, <2>4, PhaseTypes DEF Closed, ClosingTypes
  <2> QED BY <2>2, <2>3, <2>5 DEF Shapes
<1> QED BY <1>1, <1>2

-----------------------------------------------------------------------------
(* Runs. *)
LEMMA RunTypes ==
  ASSUME TInv, NEW r \in Runners, RunNext(r)
  PROVE  TInv'
<1> USE DEF TInv, entries, scopes, Closers
<1>1. CASE Start(r) \/ \E to \in {"between", "off"} : NodeEnds(r, to)
  <2> USE DEF Start, NodeEnds, branch
  <2>1. EntryTypes' /\ ScopeTypes' /\ BranchTypes' /\ EntryShapes' /\ BranchShapes'
    BY <1>1 DEF EntryTypes, ScopeTypes, BranchTypes, Shapes, EntryShapes, BranchShapes
  <2>2. /\ UNCHANGED <<ending, failing, pending>> /\ held' \subseteq Res
        /\ \E p \in {"between", "off"} : phase' = [phase EXCEPT ![r] = p]
    BY <1>1 DEF ClosingTypes
  <2>3. ClosingTypes' /\ CloseShapes'
    BY <2>2, PhaseTypes DEF ClosingTypes
  <2> QED BY <2>1, <2>3 DEF Shapes
<1>2. CASE \E want \in [Branches -> Keys \cup {NoKey}] : Resolve(r, want)
  <2>1. PICK want \in [Branches -> Keys \cup {NoKey}] : Resolve(r, want)
    BY <1>2
  <2> USE <2>1 DEF Resolve
  <2>2. EntryTypes' /\ ScopeTypes' /\ EntryShapes'
    BY DEF EntryTypes, ScopeTypes, Shapes, EntryShapes
  <2>3. BranchTypes' /\ BranchShapes'
    BY DependenciesAssumption DEF BranchTypes, ScopeTypes, BranchShapes
  <2>4. \E p \in {"resolving"} : phase' = [phase EXCEPT ![r] = p]
    OBVIOUS
  <2>5. ClosingTypes' /\ CloseShapes'
    BY <2>4, PhaseTypes DEF ClosingTypes
  <2> QED BY <2>2, <2>3, <2>5 DEF Shapes
<1>3. CASE Gathered(r) \/ Cancel(r)
  <2>1. BranchTypes' /\ BranchShapes'
    <3>1. Leave
      BY <1>3 DEF Gathered, Cancel
    <3> QED BY <3>1 DEF Leave, BranchTypes, BranchShapes
  <2>2. EntryTypes' /\ EntryShapes'
    <3>1. CASE Gathered(r)
      BY <3>1 DEF Gathered, EntryTypes, Shapes, EntryShapes
    <3>2. CASE Cancel(r)
      BY <3>2, DropTypes DEF Cancel, EntryTypes, Shapes, EntryShapes
    <3> QED BY <1>3, <3>1, <3>2
  <2>3. ScopeTypes' /\ UNCHANGED <<ending, failing, pending>>
    BY <1>3 DEF Gathered, Cancel, ScopeTypes
  <2>4. held' \subseteq Res
    BY <1>3 DEF Gathered, Cancel, ClosingTypes, BranchTypes, Range
  <2>5. \E p \in {"running", "off"} : phase' = [phase EXCEPT ![r] = p]
    BY <1>3 DEF Gathered, Cancel
  <2>6. ClosingTypes' /\ CloseShapes'
    BY <2>3, <2>4, <2>5, PhaseTypes DEF ClosingTypes
  <2> QED BY <2>1, <2>2, <2>3, <2>6 DEF Shapes
<1>4. CASE RunEnds(r)
  BY <1>4, CloseTypes DEF RunEnds
<1> QED BY <1>1, <1>2, <1>3, <1>4 DEF RunNext

LEMMA TerminateTypes ==
  ASSUME TInv, NEW t \in Terminators, Terminate(t)
  PROVE  TInv'
<1> USE DEF TInv, entries, scopes, branch, Closers
<1>1. CASE ~pending /\ \E r \in Runners : Active(r)
  <2> USE <1>1 DEF Terminate
  <2>1. EntryTypes' /\ ScopeTypes' /\ BranchTypes' /\ EntryShapes' /\ BranchShapes'
    BY DEF EntryTypes, ScopeTypes, BranchTypes, Shapes, EntryShapes, BranchShapes
  <2>2. ClosingTypes' /\ CloseShapes'
    BY PhaseTypes DEF ClosingTypes
  <2> QED BY <2>1, <2>2 DEF Shapes
<1>2. CASE ~(~pending /\ \E r \in Runners : Active(r))
  BY <1>2, CloseTypes DEF Terminate
<1> QED BY <1>1, <1>2

LEMMA TSteps == TInv /\ [Next]_vars => TInv'
<1> SUFFICES ASSUME TInv, [Next]_vars PROVE TInv'
  OBVIOUS
<1>1. CASE UNCHANGED vars
  BY <1>1 DEF vars, entries, scopes, branch, closing, TInv, EntryTypes, ScopeTypes, BranchTypes,
              ClosingTypes, Shapes, EntryShapes, BranchShapes, CloseShapes
<1>2. ASSUME NEW b \in Branches, BranchNext(b) PROVE TInv'
  BY <1>2, JoinTypes, OpenTypes, OpenedTypes, FailsTypes DEF BranchNext
<1>3. ASSUME NEW c \in Closers, Teardown(c) \/ Closed(c) PROVE TInv'
  BY <1>3, TeardownTypes
<1> QED BY <1>1, <1>2, <1>3, RunTypes, TerminateTypes DEF Next

LEMMA TInvariant == Spec => []TInv
BY TInitially, TSteps, PTL DEF Spec

(* Every variable of the dependencies keeps its type, whatever overlaps    *)
(* and whichever teardowns raise.                                          *)
THEOREM TypeCorrect == Spec => []TypeOK
<1>1. TInv => TypeOK
  BY TypesAre DEF TInv
<1> QED BY TInvariant, <1>1, PTL

-----------------------------------------------------------------------------
(* The resources, when no run and no terminate() overlaps with another one *)
(* or with the closing of a scope.  After a teardown that raised, the      *)
(* closed scope stays in place, with an empty exit stack, until the next   *)
(* closing; the store then hands out what has been torn down, and nothing  *)
(* is opened.                                                              *)

Resolving == \E r \in Runners : phase[r] = "resolving"
Closing   == \E c \in Closers : phase[c] = "closing"

(* One run or terminate() at a time, and a closing is of the current scope. *)
Alone ==
  /\ \A c, d \in Closers : phase[c] # "off" /\ phase[d] # "off" => c = d
  /\ \A c \in Closers :
       /\ phase[c] # "hung" /\ (failing[c] => phase[c] = "closing" /\ TeardownFails)
       /\ ending[c] = IF phase[c] = "closing" THEN cur ELSE 0

(* Only the current scope has resources, and later ones are untouched.     *)
Scoped ==
  /\ \A s \in Scopes : /\ s # cur => stack[s] = <<>>
                       /\ s > cur => ~closed[s] /\ \A k \in Keys : values[s][k] = 0
  /\ Closing => closed[cur]
  /\ closed[cur] => \A k \in Keys : values[cur][k] = 0
  /\ closed[cur] /\ ~Closing => TeardownFails /\ stack[cur] = <<>>

Resting == /\ seen \in {0, cur}
           /\ ~Resolving => seen = 0 /\ \A b \in Branches : bpc[b] = "idle" /\ got[b] = {}

(* The exit stack has what is open, each once, above what it was built from. *)
Once(s) == \A i, j \in DOMAIN s : s[i] = s[j] => i = j
Stacked ==
  /\ Once(stack[cur])
  /\ \A n \in Res : IsOpen(n) <=> \E i \in DOMAIN stack[cur] : stack[cur][i] = n
  /\ \A j \in DOMAIN stack[cur] : \A m \in built[stack[cur][j]] :
       \E i \in DOMAIN stack[cur] : i < j /\ stack[cur][i] = m

Published ==
  /\ \A n \in Res : /\ entry[n] \in {"none", "pending"} => res[n] = "none"
                    /\ entry[n] # "none" => key[n] \in Keys
  /\ \A k \in Keys : store[k] # 0 => entry[store[k]] # "none"

(* What the scope and the store hand out is open.                          *)
InUse(n) == closed[cur] \/ IsOpen(n)
HandedOut ==
  /\ \A n \in Res : IsOpen(n) => values[cur][key[n]] = n
  /\ \A k \in Keys : /\ values[cur][k] # 0 => IsOpen(values[cur][k])
                     /\ store[k] # 0 /\ entry[store[k]] = "value" => InUse(val[store[k]])
Found == ~Closing => HandedOut

(* A branch that opens a resource is the only one to open its provider,    *)
(* and the entry it computes is the one that others find.                  *)
Opening(b) ==
  /\ ~closed[cur] /\ entry[on[b]] = "pending" /\ store[key[on[b]]] = on[b]
  /\ values[cur][key[on[b]]] = 0 /\ from[b] = cur
Waiting(b) ==
  /\ entry[on[b]] # "none"
  /\ entry[on[b]] = "value" => InUse(val[on[b]])
Branching ==
  /\ \A b \in Branches :
       /\ bpc[b] = "opening" => Opening(b)
       /\ bpc[b] = "waiting" => Waiting(b)
       /\ \A n \in got[b] : InUse(n)
  /\ \A b, c \in Branches : bpc[b] = "opening" /\ bpc[c] = "opening" /\ on[b] = on[c] => b = c

Injected == (\A n \in held : InUse(n)) /\ (held = {} \/ \E r \in Runners : phase[r] = "running")

SInv == /\ TInv /\ Alone /\ Scoped /\ Resting /\ Stacked /\ Published /\ Found
        /\ Branching /\ Injected /\ OneInstance

LEMMA SInitially == Init => SInv
<1> SUFFICES ASSUME Init PROVE SInv
  OBVIOUS
<1>0. TInv
  BY TInitially
<1> USE DependenciesAssumption, ResAre DEF Init
<1>1. Alone /\ Scoped /\ Resting
  BY DEF Alone, Scoped, Resting, Closing, Resolving, Scopes
<1>2. Stacked /\ Published /\ OneInstance /\ Injected
  BY DEF Stacked, Published, OneInstance, Injected, UsesOpen, IsOpen, Once, Scopes
<1>3. Found /\ Branching
  BY DEF Found, HandedOut, Branching, InUse, IsOpen, Scopes
<1> QED BY <1>0, <1>1, <1>2, <1>3 DEF SInv

(* While a branch is under way nothing is being closed. *)
LEMMA WhileResolving ==
  ASSUME SInv, NEW b \in Branches, bpc[b] # "idle"
  PROVE  /\ Resolving /\ ~Closing /\ cur \in Scopes
         /\ (IF seen = 0 THEN cur ELSE seen) = cur
         /\ HandedOut
<1>1. Resolving
  BY DEF SInv, Resting
<1>2. ~Closing
  BY <1>1 DEF SInv, Alone, Resolving, Closing, Closers
<1>3. seen \in {0, cur} /\ HandedOut
  BY <1>2 DEF SInv, Resting, Found
<1> QED BY <1>1, <1>2, <1>3 DEF SInv, TInv, ScopeTypes

LEMMA BranchStep ==
  ASSUME SInv, UNCHANGED <<scopes, held, closing, seen>>, Resolving, TInv'
  PROVE  /\ Alone' /\ Scoped' /\ Resting'
         /\ res' = res => Injected'
<1> USE DEF scopes, closing, SInv
<1>1. Alone' /\ Scoped' /\ Resolving'
  BY DEF Alone, Scoped, Closing, Resolving
<1>2. Resting'
  BY <1>1 DEF Resting
<1>3. res' = res => Injected'
  BY DEF Injected, InUse, IsOpen
<1> QED BY <1>1, <1>2, <1>3

(* A branch takes the outcome of an entry, or begins to wait for it. *)
LEMMA JoinSafe ==
  ASSUME SInv, NEW b \in Branches, Join(b) \/ Woken(b)
  PROVE  SInv'
<1> USE DEF entries, scopes, closing
<1>0. TInv'
  BY JoinTypes DEF SInv
<1>1. bpc[b] # "idle" /\ UNCHANGED <<entries, scopes, held, closing, seen, from>>
  BY DEF Join, Woken, Takes
<1>2. Resolving /\ ~Closing /\ HandedOut
  BY <1>1, WhileResolving
<1>3. Alone' /\ Scoped' /\ Resting' /\ Injected'
  BY <1>0, <1>1, <1>2, BranchStep
<1>4. Stacked' /\ Published' /\ OneInstance'
  BY <1>1 DEF SInv, Stacked, Published, OneInstance, IsOpen
<1>5. Found'
  BY <1>1, <1>2 DEF Found, HandedOut, InUse, IsOpen
<1>6. PICK e \in Res : \/ /\ bpc' = [bpc EXCEPT ![b] = "waiting"] /\ on' = [on EXCEPT ![b] = e]
                          /\ entry[e] = "pending" /\ UNCHANGED <<todo, got>>
                       \/ /\ Takes(b, e) /\ (entry[e] = "value" => InUse(val[e]))
  <2>1. CASE Woken(b)
    BY <2>1 DEF Woken, SInv, TInv, Shapes, BranchShapes, Branching, Waiting
  <2>2. CASE Join(b)
    <3>1. todo[b] \in Seq(Keys) /\ todo[b] # <<>>
      BY <2>2 DEF Join, SInv, TInv, BranchTypes, Shapes, BranchShapes
    <3>2. Head(todo[b]) \in Keys
      BY <3>1, RestOf
    <3>3. store[Head(todo[b])] \in Res
      BY <2>2, <3>2 DEF Join, SInv, TInv, EntryTypes
    <3> QED BY <1>2, <2>2, <3>2, <3>3 DEF Join, HandedOut
  <2> QED BY <2>1, <2>2
<1>7. \A c \in Branches : c # b => UNCHANGED <<bpc[c], on[c], got[c]>>
  BY <1>6 DEF Takes, SInv, TInv, BranchTypes
<1>8. /\ bpc'[b] # "opening" /\ (bpc'[b] = "waiting" => on'[b] = e /\ entry[e] = "pending")
      /\ \A n \in got'[b] : n \in got[b] \/ InUse(n)
  BY <1>6 DEF Takes, SInv, TInv, BranchTypes
<1>9. Branching'
  <2>1. \A c \in Branches : bpc'[c] = "opening" => Opening(c)'
    BY <1>1, <1>7, <1>8 DEF SInv, Branching, Opening
  <2>2. \A c \in Branches : bpc'[c] = "waiting" => Waiting(c)'
    BY <1>1, <1>7, <1>8 DEF SInv, Branching, Waiting, InUse, IsOpen
  <2>3. \A c \in Branches : \A n \in got'[c] : InUse(n)'
    BY <1>1, <1>7, <1>8 DEF SInv, Branching, InUse, IsOpen
  <2>4. \A c, d \in Branches : bpc'[c] = "opening" /\ bpc'[d] = "opening" /\ on'[c] = on'[d] => c = d
    BY <1>7, <1>8 DEF SInv, Branching
  <2> QED BY <2>1, <2>2, <2>3, <2>4 DEF Branching
<1> QED BY <1>0, <1>3, <1>4, <1>5, <1>9 DEF SInv

LEMMA OpenSafe ==
  ASSUME SInv, NEW b \in Branches, NEW n \in Res, Open(b, n)
  PROVE  SInv'
<1> DEFINE k == Head(todo[b])
           v == values[cur][k]
<1> USE DEF scopes, closing
<1>0. TInv'
  BY OpenTypes DEF SInv
<1>1. /\ bpc[b] # "idle" /\ UNCHANGED <<scopes, held, closing, seen, res, built>>
      /\ store[k] = 0 /\ entry[n] = "none"
      /\ store' = [store EXCEPT ![k] = n] /\ key' = [key EXCEPT ![n] = k]
  BY DEF Open, Fresh
<1>2. /\ Resolving /\ ~Closing /\ HandedOut
      /\ (IF seen = 0 THEN cur ELSE seen) = cur /\ cur \in Scopes
  BY <1>1, WhileResolving
<1>3. k \in Keys
  <2>1. todo[b] \in Seq(Keys) /\ todo[b] # <<>>
    BY DEF Open, SInv, TInv, BranchTypes, Shapes, BranchShapes
  <2> QED BY <2>1, RestOf
<1>4. Alone' /\ Scoped' /\ Resting' /\ Injected'
  BY <1>0, <1>1, <1>2, BranchStep
<1>5. \/ /\ v # 0 /\ entry' = [entry EXCEPT ![n] = "value"] /\ val' = [val EXCEPT ![n] = v]
         /\ got' = [got EXCEPT ![b] = @ \cup {v}] /\ bpc'[b] \notin {"opening", "waiting"}
         /\ \A c \in Branches : c # b => UNCHANGED bpc[c]
         /\ UNCHANGED on
      \/ /\ v = 0 /\ entry' = [entry EXCEPT ![n] = "pending"]
         /\ bpc' = [bpc EXCEPT ![b] = "opening"] /\ UNCHANGED <<val, got>>
         /\ on' = [on EXCEPT ![b] = n] /\ from' = [from EXCEPT ![b] = cur] /\ ~closed[cur]
      \/ /\ v = 0 /\ entry' = [entry EXCEPT ![n] = "raised"]
         /\ bpc' = [bpc EXCEPT ![b] = "failed"] /\ UNCHANGED <<val, got, on>>
  BY <1>2 DEF Open, SInv, TInv, BranchTypes
<1> HIDE DEF k, v
<1>6. /\ \A m \in Res \ {n} : UNCHANGED <<entry[m], val[m], key[m]>>
      /\ \A l \in Keys \ {k} : UNCHANGED store[l]
      /\ store'[k] = n /\ key'[n] = k /\ entry'[n] \in {"value", "pending", "raised"}
      /\ entry'[n] = "value" => val'[n] = v /\ v # 0
  BY <1>1, <1>3, <1>5 DEF SInv, TInv, EntryTypes
<1>7. res[n] = "none" /\ \A l \in Keys : store[l] # n
  BY <1>1, <1>3, ResAre DEF SInv, Published
<1>8. Published'
  <2>1. \A m \in Res : entry'[m] \in {"none", "pending"} => res'[m] = "none"
    BY <1>1, <1>6, <1>7 DEF SInv, Published
  <2>2. \A m \in Res : entry'[m] # "none" => key'[m] \in Keys
    BY <1>3, <1>6 DEF SInv, Published
  <2>3. \A l \in Keys : store'[l] # 0 => entry'[store'[l]] # "none"
    BY <1>6, <1>7 DEF SInv, Published, TInv, EntryTypes
  <2> QED BY <2>1, <2>2, <2>3 DEF Published
<1>9. Stacked' /\ OneInstance'
  <2>1. Stacked'
    BY <1>1 DEF SInv, Stacked, IsOpen
  <2>2. OneInstance'
    BY <1>1, <1>6, <1>7 DEF SInv, OneInstance, IsOpen
  <2> QED BY <2>1, <2>2
<1>10. Found'
  <2>1. \A m \in Res : IsOpen(m)' => (values[cur][key[m]] = m)'
    BY <1>1, <1>2, <1>6, <1>7 DEF HandedOut, IsOpen
  <2>2. \A l \in Keys : values'[cur'][l] # 0 => IsOpen(values[cur][l])'
    BY <1>1, <1>2 DEF HandedOut, IsOpen
  <2>3. \A l \in Keys : store'[l] # 0 /\ entry'[store'[l]] = "value" => InUse(val[store[l]])'
    <3> SUFFICES ASSUME NEW l \in Keys, store'[l] # 0, entry'[store'[l]] = "value"
                 PROVE  closed'[cur'] \/ res'[val'[store'[l]]] = "open"
      BY DEF InUse, IsOpen
    <3>1. CASE l = k
      <4>1. val'[store'[l]] = v /\ v # 0
        BY <1>6, <3>1
      <4>2. res[v] = "open"
        BY <1>2, <1>3, <4>1 DEF HandedOut, IsOpen, v
      <4> QED BY <1>1, <4>1, <4>2
    <3>2. CASE l # k
      <4>1. store'[l] = store[l] /\ store[l] \in Res \ {n}
        BY <1>6, <1>7, <3>2 DEF SInv, TInv, EntryTypes
      <4> QED BY <1>1, <1>2, <1>6, <4>1 DEF HandedOut, InUse, IsOpen
    <3> QED BY <3>1, <3>2
  <2> QED BY <2>1, <2>2, <2>3 DEF Found, HandedOut
<1>11. Branching'
  <2>1. \A c \in Branches : bpc[c] \in {"opening", "waiting"} => on[c] \in Res \ {n}
    BY <1>1 DEF SInv, Branching, Opening, Waiting, TInv, Shapes, BranchShapes
  <2>2. ASSUME NEW c \in Branches, bpc[c] = "opening" PROVE key[on[c]] \in Keys \ {k}
    <3>1. on[c] \in Res /\ entry[on[c]] = "pending" /\ store[key[on[c]]] = on[c]
      BY <2>1, <2>2 DEF SInv, Branching, Opening
    <3>2. key[on[c]] \in Keys
      BY <3>1 DEF SInv, Published
    <3> QED BY <1>1, <3>1, <3>2, ResAre
  <2>3. \A c \in Branches \ {b} : UNCHANGED <<bpc[c], on[c], got[c]>> /\ (bpc[c] = "opening" => UNCHANGED from[c])
    BY <1>5 DEF SInv, TInv, BranchTypes, Open
  <2>4. \A c \in Branches \ {b} : bpc'[c] = "opening" => Opening(c)'
    BY <1>1, <1>6, <2>1, <2>2, <2>3 DEF SInv, Branching, Opening
  <2>5. \A c \in Branches \ {b} : bpc'[c] = "waiting" => Waiting(c)'
    BY <1>1, <1>6, <2>1, <2>3 DEF SInv, Branching, Waiting, InUse, IsOpen
  <2>6. bpc'[b] # "waiting" /\ (bpc'[b] = "opening" => Opening(b)' /\ on'[b] = n)
    <3>1. bpc'[b] # "waiting"
      BY <1>5 DEF SInv, TInv, BranchTypes
    <3>2. ASSUME bpc'[b] = "opening" PROVE Opening(b)' /\ on'[b] = n
      <4>1. /\ v = 0 /\ entry' = [entry EXCEPT ![n] = "pending"] /\ ~closed[cur]
            /\ on' = [on EXCEPT ![b] = n] /\ from' = [from EXCEPT ![b] = cur]
        BY <1>5, <3>2 DEF SInv, TInv, BranchTypes
      <4>2. on'[b] = n /\ from'[b] = cur /\ entry'[n] = "pending"
        BY <4>1 DEF SInv, TInv, BranchTypes, EntryTypes
      <4> QED BY <1>1, <1>3, <1>6, <4>1, <4>2 DEF Opening, v
    <3> QED BY <3>1, <3>2
  <2>7. \A m \in got'[b] : InUse(m)'
    <3>1. v # 0 => IsOpen(v)
      BY <1>2, <1>3 DEF HandedOut, v
    <3> QED BY <1>1, <1>5, <3>1 DEF SInv, Branching, InUse, IsOpen, TInv, BranchTypes
  <2>8. \A c \in Branches \ {b} : \A m \in got'[c] : InUse(m)'
    BY <1>1, <2>3 DEF SInv, Branching, InUse, IsOpen
  <2>9. \A c, d \in Branches : bpc'[c] = "opening" /\ bpc'[d] = "opening" /\ on'[c] = on'[d] => c = d
    BY <2>1, <2>3, <2>6 DEF SInv, Branching
  <2> QED BY <2>4, <2>5, <2>6, <2>7, <2>8, <2>9 DEF Branching
<1> QED BY <1>0, <1>4, <1>8, <1>9, <1>10, <1>11 DEF SInv

LEMMA AppendIs ==
  ASSUME NEW S, NEW s \in Seq(S), NEW x \in S
  PROVE  /\ Append(s, x) \in Seq(S) /\ DOMAIN Append(s, x) = DOMAIN s \cup {Len(s) + 1}
         /\ \A i \in DOMAIN s : Append(s, x)[i] = s[i] /\ i < Len(s) + 1
         /\ Append(s, x)[Len(s) + 1] = x /\ Len(s) + 1 \in Nat
         /\ DOMAIN s \subseteq Nat
OBVIOUS

LEMMA OpenedSafe ==
  ASSUME SInv, NEW b \in Branches, NEW how, Opened(b, how)
  PROVE  SInv'
<1> DEFINE n == on[b]
           k == key[n]
<1> USE DEF closing
<1>0. TInv'
  BY OpenedTypes DEF SInv
<1>1. /\ bpc[b] = "opening" /\ UNCHANGED <<held, closing, seen, store, key, cur, closed>>
      /\ n \in Res /\ entry[n] = "pending" /\ from[b] = cur /\ res[n] = "none"
      /\ store[k] = n /\ k \in Keys /\ values[cur][k] = 0 /\ ~closed[cur]
  BY DEF Opened, SInv, TInv, Shapes, BranchShapes, Branching, Opening, Published
<1>2. Resolving /\ ~Closing /\ HandedOut /\ cur \in Scopes
  BY <1>1, WhileResolving
<1>3. /\ res' = [res EXCEPT ![n] = "open"] /\ built' = [built EXCEPT ![n] = got[b]]
      /\ entry' = [entry EXCEPT ![n] = how] /\ val' = [val EXCEPT ![n] = n]
      /\ how \in {"value", "null"}
      /\ stack' = [stack EXCEPT ![cur] = Append(@, n)]
      /\ values' = [values EXCEPT ![cur][k] = n]
      /\ on' = [on EXCEPT ![b] = 0] /\ from' = [from EXCEPT ![b] = 0]
  BY <1>1, <1>2 DEF Opened
<1>4. /\ \A c \in Branches \ {b} : UNCHANGED <<bpc[c], on[c], from[c], got[c]>>
      /\ bpc'[b] \notin {"opening", "waiting"} /\ \A m \in got'[b] : m \in got[b] \/ m = n
  BY <1>3 DEF Opened, SInv, TInv, BranchTypes
<1> HIDE DEF k, n
<1>5. /\ \A m \in Res : IsOpen(m)' <=> m = n \/ IsOpen(m)
      /\ \A m \in Res \ {n} : UNCHANGED <<entry[m], val[m], built[m]>>
      /\ \A l \in Keys : values'[cur][l] = IF l = k THEN n ELSE values[cur][l]
      /\ \A s \in Scopes \ {cur} : UNCHANGED <<values[s], stack[s]>>
      /\ entry'[n] = how /\ val'[n] = n /\ built'[n] = got[b]
      /\ stack'[cur] = Append(stack[cur], n)
  BY <1>1, <1>2, <1>3 DEF SInv, TInv, EntryTypes, ScopeTypes, IsOpen
<1>6. \A m \in Res : IsOpen(m) => m # n /\ key[m] # k /\ key[m] \in Keys
  BY <1>1, <1>2, ResAre DEF HandedOut, IsOpen, SInv, Published
<1>7. Alone' /\ Scoped' /\ Resting'
  <2>1. Closing' <=> Closing
    BY <1>1 DEF Closing
  <2>2. Resolving' <=> Resolving
    BY <1>1 DEF Resolving
  <2>3. Alone'
    BY <1>1 DEF SInv, Alone
  <2>4. Scoped'
    BY <1>1, <1>2, <1>5, <2>1 DEF SInv, Scoped, Scopes
  <2>5. Resting'
    BY <1>1, <1>2, <2>2 DEF SInv, Resting
  <2> QED BY <2>3, <2>4, <2>5
<1>8. Stacked'
  <2>1. stack[cur] \in Seq(Res)
    BY <1>2 DEF SInv, TInv, ScopeTypes
  <2>2. /\ DOMAIN stack'[cur] = DOMAIN stack[cur] \cup {Len(stack[cur]) + 1}
        /\ \A i \in DOMAIN stack[cur] : stack'[cur][i] = stack[cur][i] /\ i < Len(stack[cur]) + 1
        /\ stack'[cur][Len(stack[cur]) + 1] = n /\ DOMAIN stack[cur] \subseteq Nat
    BY <1>1, <1>5, <2>1, AppendIs
  <2>3. \A i \in DOMAIN stack[cur] : stack[cur][i] \in Res \ {n} /\ IsOpen(stack[cur][i])
    BY <1>6, <2>1 DEF SInv, Stacked
  <2>4. Once(stack'[cur])
    BY <2>2, <2>3 DEF Once, SInv, Stacked
  <2>5. \A m \in Res : IsOpen(m)' <=> \E i \in DOMAIN stack'[cur] : stack'[cur][i] = m
    BY <1>5, <2>2 DEF SInv, Stacked
  <2>6. ASSUME NEW j \in DOMAIN stack'[cur], NEW m \in built'[stack'[cur][j]]
        PROVE  \E i \in DOMAIN stack'[cur] : i < j /\ stack'[cur][i] = m
    <3>1. CASE j \in DOMAIN stack[cur]
      <4>1. stack'[cur][j] = stack[cur][j] /\ built'[stack[cur][j]] = built[stack[cur][j]]
        BY <1>5, <2>2, <2>3, <3>1
      <4>2. PICK i \in DOMAIN stack[cur] : i < j /\ stack[cur][i] = m
        BY <2>6, <3>1, <4>1 DEF SInv, Stacked
      <4> QED BY <2>2, <4>2
    <3>2. CASE j = Len(stack[cur]) + 1
      <4>1. m \in got[b]
        BY <1>5, <2>2, <2>6, <3>2
      <4>2. m \in Res /\ IsOpen(m)
        BY <1>1, <4>1 DEF SInv, Branching, InUse, TInv, BranchTypes
      <4>3. PICK i \in DOMAIN stack[cur] : stack[cur][i] = m
        BY <4>2 DEF SInv, Stacked
      <4> QED BY <2>2, <3>2, <4>3
    <3> QED BY <2>2, <3>1, <3>2
  <2> QED BY <1>1, <2>4, <2>5, <2>6 DEF Stacked
<1>9. Published'
  <2>1. \A m \in Res : entry'[m] \in {"none", "pending"} => res'[m] = "none"
    BY <1>3, <1>5, <1>1 DEF SInv, Published, TInv, EntryTypes
  <2>2. \A m \in Res : entry'[m] # "none" => key'[m] \in Keys
    BY <1>1, <1>5 DEF SInv, Published, k
  <2>3. \A l \in Keys : store'[l] # 0 => entry'[store'[l]] # "none"
    BY <1>1, <1>3, <1>5 DEF SInv, Published, TInv, EntryTypes
  <2> QED BY <2>1, <2>2, <2>3 DEF Published
<1>10. Found'
  <2>1. \A m \in Res : IsOpen(m)' => (values[cur][key[m]] = m)'
    BY <1>1, <1>2, <1>5, <1>6 DEF HandedOut, k
  <2>2. \A l \in Keys : values'[cur'][l] # 0 => IsOpen(values[cur][l])'
    <3> SUFFICES ASSUME NEW l \in Keys, values'[cur][l] # 0
                 PROVE  res'[values'[cur][l]] = "open"
      BY <1>1 DEF IsOpen
    <3>1. CASE l = k
      BY <1>1, <1>5, <3>1 DEF IsOpen
    <3>2. CASE l # k
      <4>1. values'[cur][l] = values[cur][l] /\ values[cur][l] \in Res /\ IsOpen(values[cur][l])
        BY <1>2, <1>5, <3>2 DEF HandedOut, SInv, TInv, ScopeTypes
      <4> QED BY <1>5, <4>1 DEF IsOpen
    <3> QED BY <3>1, <3>2
  <2>3. \A l \in Keys : store'[l] # 0 /\ entry'[store'[l]] = "value" => InUse(val[store[l]])'
    <3> SUFFICES ASSUME NEW l \in Keys, store[l] # 0, entry'[store[l]] = "value"
                 PROVE  res'[val'[store[l]]] = "open"
      BY <1>1 DEF InUse, IsOpen
    <3>0. store[l] \in Res
      BY DEF SInv, TInv, EntryTypes
    <3>1. CASE store[l] = n
      BY <1>1, <1>5, <3>1 DEF IsOpen
    <3>2. CASE store[l] # n
      <4>1. entry[store[l]] = "value" /\ val'[store[l]] = val[store[l]]
        BY <1>5, <3>0, <3>2
      <4>2. IsOpen(val[store[l]]) /\ val[store[l]] \in Res
        BY <1>1, <1>2, <3>0, <4>1 DEF HandedOut, InUse, SInv, TInv, Shapes, EntryShapes
      <4> QED BY <1>5, <4>1, <4>2 DEF IsOpen
    <3> QED BY <3>1, <3>2
  <2> QED BY <2>1, <2>2, <2>3 DEF Found, HandedOut
<1>11. Branching'
  <2>1. \A c \in Branches \ {b} : bpc[c] = "opening" => on[c] \in Res \ {n}
    BY <1>1 DEF SInv, Branching, TInv, Shapes, BranchShapes, n
  <2>2. \A c \in Branches \ {b} : bpc[c] = "opening" => key[on[c]] \in Keys \ {k}
    BY <1>1, <2>1 DEF SInv, Branching, Opening, Published
  <2>3. \A c \in Branches \ {b} : bpc'[c] = "opening" => Opening(c)'
    BY <1>1, <1>4, <1>5, <2>1, <2>2 DEF SInv, Branching, Opening
  <2>4. \A c \in Branches \ {b} : bpc'[c] = "waiting" => Waiting(c)'
    <3> SUFFICES ASSUME NEW c \in Branches \ {b}, bpc[c] = "waiting" PROVE Waiting(c)'
      BY <1>4
    <3>1. on[c] \in Res /\ Waiting(c) /\ on'[c] = on[c]
      BY <1>4 DEF SInv, Branching, TInv, Shapes, BranchShapes
    <3>2. CASE on[c] = n
      BY <1>1, <1>3, <1>5, <3>1, <3>2 DEF Waiting, InUse, IsOpen
    <3>3. CASE on[c] # n
      <4>1. UNCHANGED <<entry[on[c]], val[on[c]]>>
        BY <1>5, <3>1, <3>3
      <4>2. entry[on[c]] = "value" => IsOpen(val[on[c]]) /\ val[on[c]] \in Res
        BY <1>1, <3>1 DEF Waiting, InUse, SInv, TInv, Shapes, EntryShapes
      <4> QED BY <1>5, <3>1, <4>1, <4>2 DEF Waiting, InUse, IsOpen
    <3> QED BY <3>2, <3>3
  <2>5. \A c \in Branches : \A m \in got'[c] : InUse(m)'
    BY <1>1, <1>4, <1>5 DEF SInv, Branching, InUse, TInv, BranchTypes
  <2>6. \A c, d \in Branches : bpc'[c] = "opening" /\ bpc'[d] = "opening" /\ on'[c] = on'[d] => c = d
    BY <1>4 DEF SInv, Branching
  <2> QED BY <1>4, <2>3, <2>4, <2>5, <2>6 DEF Branching
<1>12. Injected'
  BY <1>1, <1>5 DEF SInv, Injected, InUse, TInv, ClosingTypes
<1>13. OneInstance'
  BY <1>1, <1>5, <1>6 DEF SInv, OneInstance, k
<1> QED BY <1>0, <1>7, <1>8, <1>9, <1>10, <1>11, <1>12, <1>13 DEF SInv

(* What a failure or a cancellation drops: the entries that bs compute, all *)
(* of them found in the store.                                             *)
LEMMA DropSafe ==
  ASSUME SInv, NEW bs \in SUBSET Branches, \A b \in bs : bpc[b] = "opening", Drop(bs),
         UNCHANGED <<key, res, val, values, cur, closed>>
  PROVE  /\ Published' /\ (HandedOut => HandedOut')
         /\ \A c \in Branches \ bs : bpc[c] = "opening" =>
              entry'[on[c]] = entry[on[c]] /\ store'[key[on[c]]] = store[key[on[c]]]
         /\ \A m \in Res : entry'[m] \in {entry[m], "raised"}
<1>1. \A b \in bs : /\ on[b] \in Res /\ entry[on[b]] = "pending" /\ key[on[b]] \in Keys
                    /\ store[key[on[b]]] = on[b]
  BY DEF SInv, Branching, Opening, Published, TInv, Shapes, BranchShapes
<1>2. \A m \in Res : /\ entry'[m] \in {entry[m], "raised"} /\ (entry'[m] = "none" => entry[m] = "none")
                     /\ (entry[m] = "none" => entry'[m] = "none")
                     /\ (entry'[m] = "pending" => entry[m] = "pending")
                     /\ (entry'[m] = "value" => entry[m] = "value")
  BY <1>1 DEF Drop, SInv, TInv, EntryTypes
<1>3. \A l \in Keys : store'[l] \in {0, store[l]}
  BY DEF Drop
<1>4. Published'
  <2>1. \A m \in Res : entry'[m] \in {"none", "pending"} => res'[m] = "none"
    BY <1>2 DEF SInv, Published
  <2>2. \A m \in Res : entry'[m] # "none" => key'[m] \in Keys
    BY <1>2 DEF SInv, Published
  <2>3. \A l \in Keys : store'[l] # 0 => entry'[store'[l]] # "none"
    BY <1>2, <1>3 DEF SInv, Published, TInv, EntryTypes
  <2> QED BY <2>1, <2>2, <2>3 DEF Published
<1>5. HandedOut => HandedOut'
  <2> SUFFICES ASSUME HandedOut PROVE HandedOut'
    OBVIOUS
  <2>1. \A m \in Res : IsOpen(m)' => (values[cur][key[m]] = m)'
    BY DEF HandedOut, IsOpen
  <2>2. \A l \in Keys : values'[cur'][l] # 0 => IsOpen(values[cur][l])'
    BY DEF HandedOut, IsOpen
  <2>3. \A l \in Keys : store'[l] # 0 /\ entry'[store'[l]] = "value" => InUse(val[store[l]])'
    BY <1>2, <1>3 DEF HandedOut, InUse, IsOpen, SInv, TInv, EntryTypes
  <2> QED BY <2>1, <2>2, <2>3 DEF HandedOut
<1>6. ASSUME NEW c \in Branches \ bs, bpc[c] = "opening"
      PROVE  entry'[on[c]] = entry[on[c]] /\ store'[key[on[c]]] = store[key[on[c]]]
  <2>1. on[c] \in Res /\ key[on[c]] \in Keys /\ store[key[on[c]]] = on[c]
    BY <1>6 DEF SInv, Branching, Opening, Published, TInv, Shapes, BranchShapes
  <2>2. \A b \in bs : on[b] # on[c]
    BY <1>6 DEF SInv, Branching
  <2>3. \A b \in bs : key[on[b]] # key[on[c]]
    BY <1>1, <2>1, <2>2
  <2> QED BY <2>1, <2>2, <2>3 DEF Drop
<1> QED BY <1>2, <1>4, <1>5, <1>6

LEMMA FailsSafe ==
  ASSUME SInv, NEW b \in Branches, NEW how, Fails(b, how)
  PROVE  SInv'
<1> USE DEF scopes, closing
<1>0. TInv'
  BY FailsTypes DEF SInv
<1>1. /\ bpc[b] = "opening"
      /\ UNCHANGED <<val, res, key, built, scopes, seen, got, held, closing>>
      /\ bpc' = [bpc EXCEPT ![b] = "failed"] /\ on' = [on EXCEPT ![b] = 0]
      /\ from' = [from EXCEPT ![b] = 0]
  BY DEF Fails
<1>2. Resolving /\ ~Closing /\ HandedOut
  BY <1>1, WhileResolving
<1>3. Alone' /\ Scoped' /\ Resting' /\ Injected'
  BY <1>0, <1>1, <1>2, BranchStep
<1>4. Stacked' /\ OneInstance'
  BY <1>1 DEF SInv, Stacked, OneInstance, IsOpen
<1>5. /\ Published' /\ HandedOut'
      /\ \A c \in Branches \ {b} : bpc[c] = "opening" =>
           entry'[on[c]] = entry[on[c]] /\ store'[key[on[c]]] = store[key[on[c]]]
      /\ \A m \in Res : entry'[m] \in {entry[m], "raised"}
  <2>1. CASE how = "cancel"
    <3>1. Drop({b})
      BY <2>1 DEF Fails
    <3> QED BY <1>1, <1>2, <3>1, DropSafe
  <2>2. CASE how # "cancel"
    <3>1. on[b] \in Res /\ entry[on[b]] = "pending" /\ res[on[b]] = "none"
      BY <1>1 DEF SInv, Branching, Opening, Published, TInv, Shapes, BranchShapes
    <3>2. entry' = [entry EXCEPT ![on[b]] = "raised"] /\ UNCHANGED store
      BY <2>2 DEF Fails
    <3>3. \A m \in Res : entry'[m] = IF m = on[b] THEN "raised" ELSE entry[m]
      BY <3>2 DEF SInv, TInv, EntryTypes
    <3>4. Published'
      <4>1. \A l \in Keys : store'[l] # 0 => entry'[store'[l]] # "none"
        BY <3>2, <3>3 DEF SInv, Published, TInv, EntryTypes
      <4>2. \A m \in Res : entry'[m] \in {"none", "pending"} => res'[m] = "none"
        BY <1>1, <3>3 DEF SInv, Published
      <4>3. \A m \in Res : entry'[m] # "none" => key'[m] \in Keys
        BY <1>1, <3>1, <3>3 DEF SInv, Published
      <4> QED BY <4>1, <4>2, <4>3 DEF Published
    <3>5. HandedOut'
      <4>1. \A l \in Keys : store'[l] # 0 /\ entry'[store'[l]] = "value" => InUse(val[store[l]])'
        BY <1>1, <1>2, <3>2, <3>3 DEF HandedOut, InUse, IsOpen, SInv, TInv, EntryTypes
      <4> QED BY <1>1, <1>2, <4>1 DEF HandedOut, InUse, IsOpen
    <3>6. \A c \in Branches \ {b} : bpc[c] = "opening" => on[c] \in Res \ {on[b]}
      BY <1>1 DEF SInv, Branching, TInv, Shapes, BranchShapes
    <3> QED BY <3>2, <3>3, <3>4, <3>5, <3>6
  <2> QED BY <2>1, <2>2
<1>6. Branching'
  <2>0. /\ \A c \in Branches \ {b} : UNCHANGED <<bpc[c], on[c], from[c]>>
        /\ bpc'[b] \notin {"opening", "waiting"}
    BY <1>1 DEF SInv, TInv, BranchTypes
  <2>1. \A c \in Branches : bpc'[c] = "opening" => Opening(c)'
    BY <1>1, <1>5, <2>0 DEF SInv, Branching, Opening
  <2>2. \A c \in Branches : bpc'[c] = "waiting" => Waiting(c)'
    <3> SUFFICES ASSUME NEW c \in Branches \ {b}, bpc[c] = "waiting" PROVE Waiting(c)'
      BY <2>0
    <3>1. on[c] \in Res /\ Waiting(c) /\ on'[c] = on[c]
      BY <2>0 DEF SInv, Branching, TInv, Shapes, BranchShapes
    <3> QED BY <1>1, <1>5, <3>1 DEF Waiting, InUse, IsOpen
  <2>3. \A c \in Branches : \A n \in got'[c] : InUse(n)'
    BY <1>1 DEF SInv, Branching, InUse, IsOpen
  <2>4. \A c, d \in Branches : bpc'[c] = "opening" /\ bpc'[d] = "opening" /\ on'[c] = on'[d] => c = d
    BY <2>0 DEF SInv, Branching
  <2> QED BY <2>1, <2>2, <2>3, <2>4 DEF Branching
<1> QED BY <1>0, <1>3, <1>4, <1>5, <1>6 DEF SInv, Found

-----------------------------------------------------------------------------
(* Closing.  It begins when nothing is under way and nothing is held. *)
LEMMA Rests ==
  ASSUME SInv, NEW c \in Closers, phase[c] \notin {"resolving", "running"},
         \A d \in Closers : d # c => phase[d] = "off"
  PROVE  ~Resolving /\ held = {} /\ seen = 0 /\ \A b \in Branches : bpc[b] = "idle" /\ got[b] = {}
<1>1. ~Resolving /\ ~\E r \in Runners : phase[r] = "running"
  BY DEF Resolving, Closers
<1> QED BY <1>1 DEF SInv, Injected, Resting

(* With nothing left to tear down, the next scope is as good as new. *)
LEMMA SwapSafe ==
  ASSUME SInv, NEW c \in Closers, phase[c] \notin {"resolving", "running"},
         \A d \in Closers : d # c => phase[d] = "off",
         stack[cur] = <<>>, Swap(c, "off"), TInv',
         UNCHANGED <<entry, val, key, built, stack, branch, held>>,
         \A d \in Closers : ~failing'[d],
         \A s \in Scopes : s # cur => UNCHANGED <<closed[s], values[s]>>
  PROVE  SInv'
<1> USE DEF branch
<1>1. ~Resolving /\ held = {} /\ seen = 0 /\ \A b \in Branches : bpc[b] = "idle" /\ got[b] = {}
  BY Rests
<1>2. /\ cur' = cur + 1 /\ cur \in Scopes /\ cur' \in Scopes /\ store' = [k \in Keys |-> 0]
      /\ cur' # cur /\ cur' > cur /\ \A s \in Scopes : s > cur' => s > cur /\ s # cur
  BY DEF Swap, SInv, TInv, ScopeTypes, Scopes
<1>3. UNCHANGED res
  <2>1. res \in [Res -> {"none", "open", "closed"}] /\ Range(stack[cur]) = {}
    BY DEF SInv, TInv, EntryTypes, Range
  <2> QED BY <2>1 DEF Swap
<1>4. \A n \in Res : ~IsOpen(n) /\ ~IsOpen(n)'
  BY <1>3 DEF SInv, Stacked, IsOpen
<1>5. \A d \in Closers : phase'[d] = "off" /\ ending'[d] = 0
  BY DEF Swap, SInv, TInv, ClosingTypes, Alone
<1>6. Alone'
  BY <1>5 DEF Alone
<1>7. ~Closing' /\ ~Resolving'
  BY <1>5 DEF Closing, Resolving, Closers
<1>8. Scoped'
  <2>1. \A s \in Scopes : stack'[s] = <<>>
    BY DEF SInv, Scoped
  <2>2. \A s \in Scopes : s > cur => ~closed'[s] /\ \A k \in Keys : values'[s][k] = 0
    BY <1>2, ResAre DEF SInv, Scoped
  <2> QED BY <1>2, <1>7, <2>1, <2>2 DEF Scoped
<1>9. Resting'
  BY <1>1 DEF Resting
<1>10. Stacked'
  <2>1. stack'[cur'] = <<>>
    BY <1>2 DEF SInv, Scoped
  <2> QED BY <1>4, <2>1 DEF Stacked, Once
<1>11. Published'
  BY <1>2, <1>3 DEF SInv, Published
<1>12. Found'
  <2>1. \A k \in Keys : values'[cur'][k] = 0 /\ store'[k] = 0
    BY <1>2 DEF SInv, Scoped
  <2> QED BY <1>4, <2>1 DEF Found, HandedOut
<1>13. Branching' /\ Injected' /\ OneInstance'
  BY <1>1, <1>4 DEF Branching, Injected, OneInstance
<1> QED BY <1>6, <1>8, <1>9, <1>10, <1>11, <1>12, <1>13 DEF SInv

LEMMA CloseSafe ==
  ASSUME SInv, NEW c \in Closers, phase[c] \in {"between", "off"},
         \A d \in Closers : d # c => phase[d] = "off",
         Close(c), UNCHANGED <<branch, held>>, TInv'
  PROVE  SInv'
<1>1. ~Resolving /\ held = {} /\ seen = 0 /\ \A b \in Branches : bpc[b] = "idle" /\ got[b] = {}
  BY Rests
<1>2. ~Closing /\ cur \in Scopes /\ (closed[cur] => stack[cur] = <<>>)
  BY DEF SInv, Closing, Scoped, TInv, ScopeTypes
<1>3. /\ closed' = [closed EXCEPT ![cur] = TRUE]
      /\ values' = [values EXCEPT ![cur] = [k \in Keys |-> 0]]
      /\ UNCHANGED <<entry, val, key, built, stack, failing>>
  BY DEF Close
<1>4. /\ \A s \in Scopes : s # cur => UNCHANGED <<closed[s], values[s]>>
      /\ closed'[cur] /\ \A k \in Keys : values'[cur][k] = 0
  BY <1>2, <1>3 DEF SInv, TInv, ScopeTypes
<1>5. CASE stack[cur] = <<>>
  <2>1. Swap(c, "off") /\ \A d \in Closers : ~failing'[d]
    BY <1>3, <1>5 DEF Close, SInv, Alone
  <2> QED BY <1>3, <1>4, <1>5, <2>1, SwapSafe
<1>6. CASE stack[cur] # <<>>
  <2>1. /\ phase' = [phase EXCEPT ![c] = "closing"] /\ ending' = [ending EXCEPT ![c] = cur]
        /\ UNCHANGED <<cur, store, res>>
    BY <1>2, <1>6 DEF Close
  <2>2. \A d \in Closers : /\ phase'[d] = IF d = c THEN "closing" ELSE "off"
                           /\ ending'[d] = IF d = c THEN cur ELSE 0
    BY <2>1 DEF SInv, TInv, ClosingTypes, Alone
  <2>3. Closing' /\ ~Resolving'
    BY <2>2 DEF Closing, Resolving, Closers
  <2>4. Alone' /\ Scoped'
    BY <1>2, <1>3, <1>4, <2>1, <2>2, <2>3 DEF SInv, Alone, Scoped, Scopes
  <2>5. Resting' /\ Found'
    BY <1>1, <2>3 DEF Resting, Found, branch
  <2>6. Stacked' /\ Published' /\ OneInstance'
    BY <1>3, <2>1 DEF SInv, Stacked, Published, OneInstance, IsOpen
  <2>7. Branching' /\ Injected'
    BY <1>1 DEF Branching, Injected, branch
  <2> QED BY <2>4, <2>5, <2>6, <2>7 DEF SInv
<1> QED BY <1>5, <1>6

(* The last resource on the exit stack is torn down. *)
LEMMA LastOf ==
  ASSUME NEW S, NEW s \in Seq(S), s # <<>>
  PROVE  /\ Len(s) \in DOMAIN s /\ DOMAIN s \subseteq Nat
         /\ DOMAIN SubSeq(s, 1, Len(s) - 1) = DOMAIN s \ {Len(s)}
         /\ \A i \in DOMAIN s \ {Len(s)} : SubSeq(s, 1, Len(s) - 1)[i] = s[i] /\ i < Len(s)
OBVIOUS

LEMMA TeardownSafe ==
  ASSUME SInv, NEW c \in Closers, Teardown(c)
  PROVE  SInv'
<1> DEFINE last == stack[cur][Len(stack[cur])]
<1>0. TInv'
  BY TeardownTypes DEF SInv
<1>1. /\ phase[c] = "closing" /\ ending[c] = cur /\ cur \in Scopes /\ stack[cur] # <<>>
      /\ stack' = [stack EXCEPT ![cur] = SubSeq(@, 1, Len(@) - 1)]
      /\ res' = [res EXCEPT ![last] = "closed"]
      /\ UNCHANGED <<store, entry, val, key, built, cur, closed, values, branch, held, phase, ending>>
      /\ failing' = failing \/ (TeardownFails /\ failing' = [failing EXCEPT ![c] = TRUE])
  BY DEF Teardown, SInv, Alone, TInv, ScopeTypes
<1>2. stack[cur] \in Seq(Res)
  BY <1>1 DEF SInv, TInv, ScopeTypes
<1>3. /\ Len(stack[cur]) \in DOMAIN stack[cur] /\ DOMAIN stack[cur] \subseteq Nat
      /\ DOMAIN SubSeq(stack[cur], 1, Len(stack[cur]) - 1) = DOMAIN stack[cur] \ {Len(stack[cur])}
      /\ \A i \in DOMAIN stack[cur] \ {Len(stack[cur])} :
           SubSeq(stack[cur], 1, Len(stack[cur]) - 1)[i] = stack[cur][i] /\ i < Len(stack[cur])
  BY <1>1, <1>2, LastOf
<1>4. last \in Res /\ res[last] = "open"
  BY <1>2, <1>3 DEF SInv, Stacked, IsOpen
<1> HIDE DEF last
<1>5. /\ stack'[cur] = SubSeq(stack[cur], 1, Len(stack[cur]) - 1)
      /\ \A s \in Scopes : s # cur => UNCHANGED stack[s]
      /\ \A n \in Res : IsOpen(n)' <=> IsOpen(n) /\ n # last
  BY <1>1, <1>4 DEF SInv, TInv, ScopeTypes, EntryTypes, IsOpen
<1>6. \A d \in Closers : d # c => phase[d] = "off"
  BY <1>1 DEF SInv, Alone
<1>7. held = {} /\ seen = 0 /\ \A b \in Branches : bpc[b] = "idle" /\ got[b] = {}
  BY <1>1, <1>6, Rests
<1>8. Closing' /\ (Closing <=> Closing') /\ ~Resolving'
  BY <1>1, <1>6 DEF Closing, Resolving, Closers
<1>9. Alone' /\ Resting' /\ Found'
  <2>1. \A d \in Closers : failing'[d] => failing[d] \/ (d = c /\ TeardownFails)
    BY <1>1 DEF SInv, TInv, ClosingTypes
  <2> QED BY <1>1, <1>7, <1>8, <2>1 DEF SInv, Alone, Resting, Found, branch
<1>10. Scoped'
  BY <1>1, <1>5, <1>8 DEF SInv, Scoped
<1>11. Stacked'
  <2>1. Once(stack'[cur])
    BY <1>3, <1>5 DEF SInv, Stacked, Once
  <2>2. ASSUME NEW n \in Res
        PROVE  IsOpen(n)' <=> \E i \in DOMAIN stack'[cur] : stack'[cur][i] = n
    <3>1. n = last => \A i \in DOMAIN stack'[cur] : stack'[cur][i] # n
      BY <1>3, <1>5 DEF SInv, Stacked, Once, last
    <3>2. n # last => (IsOpen(n) <=> \E i \in DOMAIN stack'[cur] : stack'[cur][i] = n)
      BY <1>3, <1>5 DEF SInv, Stacked, last
    <3> QED BY <1>5, <3>1, <3>2
  <2>3. ASSUME NEW j \in DOMAIN stack'[cur], NEW m \in built[stack'[cur][j]]
        PROVE  \E i \in DOMAIN stack'[cur] : i < j /\ stack'[cur][i] = m
    <3>1. j \in DOMAIN stack[cur] /\ stack'[cur][j] = stack[cur][j] /\ j < Len(stack[cur])
      BY <1>3, <1>5
    <3>2. PICK i \in DOMAIN stack[cur] : i < j /\ stack[cur][i] = m
      BY <2>3, <3>1 DEF SInv, Stacked
    <3>3. i # Len(stack[cur])
      BY <1>3, <3>1, <3>2
    <3> QED BY <1>3, <1>5, <3>2, <3>3
  <2>4. cur' = cur /\ built' = built
    BY <1>1
  <2> QED BY <2>1, <2>2, <2>3, <2>4 DEF Stacked
<1>12. Published'
  <2>1. \A n \in Res : res'[n] = "none" <=> res[n] = "none"
    BY <1>1, <1>4 DEF SInv, TInv, EntryTypes
  <2> QED BY <1>1, <2>1 DEF SInv, Published
<1>13. Branching' /\ Injected' /\ OneInstance'
  <2>1. OneInstance'
    BY <1>1, <1>5 DEF SInv, OneInstance
  <2>2. Branching' /\ Injected'
    BY <1>1, <1>7 DEF Branching, Injected, branch
  <2> QED BY <2>1, <2>2
<1> QED BY <1>0, <1>9, <1>10, <1>11, <1>12, <1>13 DEF SInv

LEMMA ClosedSafe ==
  ASSUME SInv, NEW c \in Closers, Closed(c)
  PROVE  SInv'
<1>0. TInv'
  BY TeardownTypes DEF SInv
<1>1. /\ phase[c] = "closing" /\ ending[c] = cur /\ stack[cur] = <<>>
      /\ \A d \in Closers : d # c => phase[d] = "off"
      /\ UNCHANGED <<entry, val, key, built, closed, values, stack, branch, held>>
  BY DEF Closed, SInv, Alone
<1>2. \A d \in Closers : ~failing'[d]
  BY <1>1 DEF Closed, SInv, Alone, TInv, ClosingTypes
<1>3. CASE ~failing[c]
  <2>1. Swap(c, "off")
    BY <1>3 DEF Closed
  <2> QED BY <1>0, <1>1, <1>2, <2>1, SwapSafe
<1>4. CASE failing[c]
  <2>1. /\ phase' = [phase EXCEPT ![c] = "off"] /\ ending' = [ending EXCEPT ![c] = 0]
        /\ UNCHANGED <<cur, store, res>>
    BY <1>4 DEF Closed
  <2>2. \A d \in Closers : phase'[d] = "off" /\ ending'[d] = 0
    BY <1>1, <2>1 DEF SInv, Alone, TInv, ClosingTypes
  <2>3. /\ ~Closing' /\ ~Resolving' /\ TeardownFails /\ closed[cur]
        /\ \A k \in Keys : values[cur][k] = 0
    BY <1>1, <1>4, <2>2 DEF Closing, Resolving, Closers, SInv, Alone, Scoped
  <2>4. held = {} /\ seen = 0 /\ \A b \in Branches : bpc[b] = "idle" /\ got[b] = {}
    BY <1>1, Rests
  <2>5. \A n \in Res : ~IsOpen(n)
    BY <1>1 DEF SInv, Stacked
  <2>6. Alone' /\ Scoped' /\ Resting'
    BY <1>1, <1>2, <2>1, <2>2, <2>3, <2>4 DEF SInv, Alone, Scoped, Resting, branch
  <2>7. Stacked' /\ Published' /\ OneInstance'
    BY <1>1, <2>1 DEF SInv, Stacked, Published, OneInstance, IsOpen
  <2>8. Found'
    BY <1>1, <2>1, <2>3, <2>5 DEF Found, HandedOut, InUse, IsOpen
  <2>9. Branching' /\ Injected'
    BY <1>1, <2>4 DEF Branching, Injected, branch
  <2> QED BY <1>0, <2>6, <2>7, <2>8, <2>9 DEF SInv
<1> QED BY <1>3, <1>4

-----------------------------------------------------------------------------
(* Runs.  A run goes from one phase to another, and the rest of the        *)
(* invariant follows when its branches are as they should be.              *)
LEMMA PhaseSafe ==
  ASSUME SInv, NEW r \in Runners, TInv', \A d \in Closers : d # r => phase[d] = "off",
         phase[r] # "closing",
         NEW to \in {"off", "between", "resolving", "running"}, phase' = [phase EXCEPT ![r] = to],
         UNCHANGED <<scopes, ending, failing>>
  PROVE  /\ Alone' /\ Scoped' /\ ~Closing /\ ~Closing' /\ HandedOut
         /\ Resolving' <=> to = "resolving"
<1> USE DEF scopes, Closers
<1>1. \A d \in Closers : phase'[d] = IF d = r THEN to ELSE "off"
  BY DEF SInv, TInv, ClosingTypes
<1>2. ~Closing /\ ~Closing'
  BY <1>1 DEF Closing
<1>3. Alone' /\ Scoped'
  BY <1>1, <1>2 DEF SInv, Alone, Scoped
<1> QED BY <1>1, <1>2, <1>3 DEF Resolving, SInv, Found

LEMMA RunSafe ==
  ASSUME SInv, ~Overlap, NEW r \in Runners, RunNext(r)
  PROVE  SInv'
<1> USE DEF scopes
<1>0. TInv' /\ r \in Closers
  BY RunTypes DEF SInv, Closers
<1>1. \A d \in Closers : d # r => phase[d] = "off"
  <2>1. CASE phase[r] = "off"
    <3>1. Start(r)
      BY <2>1 DEF RunNext, Gathered, Cancel, RunEnds, NodeEnds, Resolve
    <3> QED BY <3>1 DEF Start, Quiet, SInv, Alone
  <2>2. CASE phase[r] # "off"
    BY <1>0, <2>2 DEF SInv, Alone
  <2> QED BY <2>1, <2>2
<1>2. CASE RunEnds(r)
  <2>1. phase[r] = "between" /\ Close(r) /\ UNCHANGED <<branch, held>>
    BY <1>2 DEF RunEnds
  <2> QED BY <1>0, <1>1, <2>1, CloseSafe
<1>3. CASE Start(r) \/ \E to \in {"between", "off"} : NodeEnds(r, to)
  <2>1. PICK to \in {"between", "off"} : /\ phase' = [phase EXCEPT ![r] = to]
                                         /\ UNCHANGED <<entries, scopes, branch, ending, failing>>
                                         /\ phase[r] \in {"off", "running"} /\ held' \subseteq held
                                         /\ held' = {} \/ phase[r] = "off"
    BY <1>3 DEF Start, NodeEnds
  <2>2. Alone' /\ Scoped' /\ ~Closing /\ ~Closing' /\ HandedOut /\ ~Resolving'
    BY <1>0, <1>1, <2>1, PhaseSafe
  <2>3. ~Resolving
    BY <1>1, <2>1 DEF Resolving, Closers
  <2>4. held' = {}
    <3>1. phase[r] = "off" => held = {}
      BY <1>1 DEF SInv, Injected, Closers
    <3> QED BY <2>1, <3>1
  <2>5. Resting' /\ Found' /\ Branching'
    <3> USE <2>1, <2>2, <2>3 DEF entries, branch
    <3>1. Resting'
      BY DEF SInv, Resting
    <3>2. Found'
      BY DEF Found, HandedOut, InUse, IsOpen
    <3>3. Branching'
      BY DEF SInv, Resting, Branching, InUse, IsOpen
    <3> QED BY <3>1, <3>2, <3>3
  <2>6. Stacked' /\ Published' /\ OneInstance'
    BY <2>1 DEF SInv, Stacked, Published, OneInstance, IsOpen, entries
  <2>7. Injected'
    BY <2>4 DEF Injected
  <2> QED BY <1>0, <2>2, <2>5, <2>6, <2>7 DEF SInv
<1>4. CASE \E want \in [Branches -> Keys \cup {NoKey}] : Resolve(r, want)
  <2>1. PICK want \in [Branches -> Keys \cup {NoKey}] : Resolve(r, want)
    BY <1>4
  <2>2. /\ phase[r] = "between" /\ phase' = [phase EXCEPT ![r] = "resolving"] /\ seen' \in {0, cur}
        /\ \A b \in Branches : bpc'[b] \in {"ok", "next"}
        /\ UNCHANGED <<entries, scopes, got, on, from, held, ending, failing>>
    BY <2>1 DEF Resolve
  <2>3. Alone' /\ Scoped' /\ ~Closing' /\ HandedOut /\ Resolving'
    BY <1>0, <1>1, <2>2, PhaseSafe
  <2>4. held = {}
    BY <1>0, <1>1, <2>2, Rests
  <2>5. Stacked' /\ Published' /\ OneInstance' /\ Found' /\ Injected' /\ Resting'
    <3> USE <2>2 DEF entries
    <3>1. Stacked' /\ Published' /\ OneInstance'
      BY DEF SInv, Stacked, Published, OneInstance, IsOpen
    <3>2. Found' /\ Resting'
      BY <2>3 DEF Found, HandedOut, InUse, IsOpen, Resting
    <3>3. Injected'
      BY <2>4 DEF Injected
    <3> QED BY <3>1, <3>2, <3>3
  <2>6. Branching'
    BY <2>2 DEF SInv, Branching, InUse, IsOpen, entries
  <2> QED BY <1>0, <2>3, <2>5, <2>6 DEF SInv
<1>5. CASE Gathered(r)
  <2>1. PICK to \in {"running", "off"} :
          /\ phase' = [phase EXCEPT ![r] = to] /\ phase[r] = "resolving"
          /\ held' = {} \/ (to = "running" /\ held' = UNION Range(got))
          /\ Leave /\ UNCHANGED <<entries, scopes, ending, failing>>
    BY <1>5 DEF Gathered
  <2>2. Alone' /\ Scoped' /\ ~Closing' /\ HandedOut /\ ~Resolving'
    BY <1>0, <1>1, <2>1, PhaseSafe
  <2>3. to = "running" => \E q \in Runners : phase'[q] = "running"
    BY <1>0, <2>1 DEF SInv, TInv, ClosingTypes
  <2>4. \A n \in held' : InUse(n)
    BY <2>1 DEF SInv, Branching, Range, TInv, BranchTypes
  <2>5. Stacked' /\ Published' /\ OneInstance' /\ Found' /\ Injected'
    <3> USE <2>1 DEF entries
    <3>1. Stacked' /\ Published' /\ OneInstance'
      BY DEF SInv, Stacked, Published, OneInstance, IsOpen
    <3>2. Found'
      BY <2>2 DEF Found, HandedOut, InUse, IsOpen
    <3>3. Injected'
      BY <2>3, <2>4 DEF Injected, InUse, IsOpen
    <3> QED BY <3>1, <3>2, <3>3
  <2>6. Branching' /\ Resting'
    BY <2>1 DEF Branching, Resting, Leave
  <2> QED BY <1>0, <2>2, <2>5, <2>6 DEF SInv
<1>6. CASE Cancel(r)
  <2> DEFINE bs == {b \in Branches : bpc[b] = "opening"}
  <2>1. /\ phase' = [phase EXCEPT ![r] = "off"] /\ phase[r] = "resolving" /\ Drop(bs) /\ Leave
        /\ UNCHANGED <<val, res, key, built, scopes, held, ending, failing>>
    BY <1>6 DEF Cancel
  <2>2. Alone' /\ Scoped' /\ ~Closing' /\ HandedOut /\ ~Resolving'
    BY <1>0, <1>1, <2>1, PhaseSafe
  <2>3. Published' /\ HandedOut'
    <3>1. bs \in SUBSET Branches /\ \A b \in bs : bpc[b] = "opening"
      OBVIOUS
    <3> HIDE DEF bs
    <3> QED BY <2>1, <2>2, <3>1, DropSafe
  <2>4. Stacked' /\ OneInstance'
    BY <2>1 DEF SInv, Stacked, OneInstance, IsOpen
  <2>5. held = {}
    BY <1>1, <2>1 DEF SInv, Injected, Closers
  <2>6. Branching' /\ Resting' /\ Injected'
    BY <2>1, <2>5 DEF Branching, Resting, Leave, Injected
  <2> QED BY <1>0, <2>2, <2>3, <2>4, <2>6 DEF SInv, Found
<1> QED BY <1>2, <1>3, <1>4, <1>5, <1>6 DEF RunNext

LEMMA TerminateSafe ==
  ASSUME SInv, ~Overlap, NEW t \in Terminators, Terminate(t)
  PROVE  SInv'
<1>1. t \in Closers /\ \A c \in Closers : phase[c] = "off"
  BY DEF Terminate, Closers
<1>2. ~\E r \in Runners : Active(r)
  BY <1>1 DEF Active, Closers
<1>3. Close(t) /\ UNCHANGED <<branch, held>>
  BY <1>2 DEF Terminate
<1>4. TInv'
  BY TerminateTypes DEF SInv
<1> QED BY <1>1, <1>3, <1>4, CloseSafe

LEMMA SSteps == ~Overlap /\ SInv /\ [Next]_vars => SInv'
<1> SUFFICES ASSUME ~Overlap, SInv, [Next]_vars PROVE SInv'
  OBVIOUS
<1>1. CASE UNCHANGED vars
  <2> USE <1>1 DEF vars, entries, scopes, branch, closing
  <2>1. TInv'
    BY TSteps DEF SInv
  <2>2. Alone' /\ Scoped' /\ Resting' /\ Stacked'
    BY DEF SInv, Alone, Scoped, Resting, Stacked, Closing, Resolving, IsOpen
  <2>3. Published' /\ Found' /\ Injected' /\ OneInstance'
    BY DEF SInv, Published, Found, HandedOut, Closing, Injected, InUse, OneInstance, IsOpen
  <2>4. Branching'
    BY DEF SInv, Branching, Opening, Waiting, InUse, IsOpen
  <2> QED BY <2>1, <2>2, <2>3, <2>4 DEF SInv
<1>2. ASSUME NEW b \in Branches, BranchNext(b) PROVE SInv'
  BY <1>2, JoinSafe, OpenSafe, OpenedSafe, FailsSafe DEF BranchNext
<1>3. ASSUME NEW c \in Closers, Teardown(c) \/ Closed(c) PROVE SInv'
  BY <1>3, TeardownSafe, ClosedSafe
<1> QED BY <1>1, <1>2, <1>3, RunSafe, TerminateSafe DEF Next

LEMMA SInvariant == ~Overlap => (Spec => []SInv)
<1> SUFFICES ASSUME ~Overlap PROVE Spec => []SInv
  OBVIOUS
<1>1. SInv /\ [Next]_vars => SInv'
  BY SSteps
<1> QED BY SInitially, <1>1, PTL DEF Spec

-----------------------------------------------------------------------------
(* What a node has been given stays open until it returns: only a closing  *)
(* tears down, and it never begins while a node runs.  No teardown may     *)
(* raise, for the store of a scope that is left half closed hands out what *)
(* was torn down.                                                          *)
THEOREM InjectedStaysOpen == ~Overlap /\ ~TeardownFails => (Spec => []UsesOpen)
<1> SUFFICES ASSUME ~Overlap, ~TeardownFails PROVE Spec => []UsesOpen
  OBVIOUS
<1>1. SInv => UsesOpen
  <2> SUFFICES ASSUME SInv, NEW n \in held PROVE IsOpen(n)
    BY DEF UsesOpen
  <2>1. PICK r \in Runners : phase[r] = "running"
    BY DEF SInv, Injected
  <2>2. ~Closing
    BY <2>1 DEF Closing, Closers, SInv, Alone
  <2>3. ~closed[cur]
    BY <2>2 DEF SInv, Scoped
  <2> QED BY <2>3 DEF SInv, Injected, InUse
<1> QED BY SInvariant, <1>1, PTL

(* Without that hypothesis on teardowns, it stays open in every scope that *)
(* is not left half closed.                                                *)
THEOREM HeldStaysOpen == ~Overlap => (Spec => []HeldOpen)
<1>1. SInv => HeldOpen
  BY DEF SInv, Injected, InUse, HeldOpen
<1> QED BY SInvariant, <1>1, PTL

(* No provider has two resources open: whoever asks for one that another   *)
(* branch is opening finds its entry (DependencyStore.resolve), whatever   *)
(* factories and teardowns raise.                                          *)
THEOREM SharedInstance == ~Overlap => (Spec => []OneInstance)
<1>1. SInv => OneInstance
  BY DEF SInv
<1> QED BY SInvariant, <1>1, PTL

(* The exit stack tears a resource down before those it was built from,    *)
(* also when some of the teardowns raise.                                  *)
THEOREM ReverseOrder == ~Overlap => (Spec => []TornDownInReverse)
<1>1. SInv => TornDownInReverse
  <2> SUFFICES ASSUME SInv, NEW n \in Res, IsOpen(n), NEW m \in built[n] PROVE IsOpen(m)
    BY DEF TornDownInReverse
  <2>1. m \in Res
    BY DEF SInv, TInv, EntryTypes
  <2>2. PICK j \in DOMAIN stack[cur] : stack[cur][j] = n
    BY DEF SInv, Stacked
  <2>3. PICK i \in DOMAIN stack[cur] : stack[cur][i] = m
    BY <2>2 DEF SInv, Stacked
  <2> QED BY <2>1, <2>3 DEF SInv, Stacked
<1> QED BY SInvariant, <1>1, PTL

(* Whatever is open is on the exit stack of the current scope, so that the *)
(* next closing tears it down, however runs end in between and whichever   *)
(* teardowns raise.                                                        *)
THEOREM NothingOrphaned == ~Overlap => (Spec => []NoOrphans)
<1>1. SInv => NoOrphans
  <2> SUFFICES ASSUME SInv, NEW n \in Res, IsOpen(n) PROVE n \in Range(stack[cur]) /\ cur \in Scopes
    BY DEF NoOrphans
  <2> QED BY DEF SInv, Stacked, Range, TInv, ScopeTypes
<1> QED BY SInvariant, <1>1, PTL
=============================================================================
