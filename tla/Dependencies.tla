---------------------------- MODULE Dependencies ----------------------------
(***************************************************************************)
(* Generator dependencies of one interpreter: the providers a node opens   *)
(* through DependencyStore.resolve and LifecycleScope.acquire (di/), the   *)
(* branches that resolve them concurrently (asyncio.gather in              *)
(* _do_runtime_resolve), and _close_workflow_scope, called by a run that   *)
(* ends and by terminate().                                                *)
(*                                                                         *)
(* One step is the code a task executes between two awaits.  Opening a     *)
(* resource and tearing one down await; everything else does not.          *)
(***************************************************************************)
EXTENDS Naturals, Sequences, FiniteSets, Functions

CONSTANTS
  Keys,          (* Generator providers, with their arguments.              *)
  NoKey,
  Chain,         (* Chain[k]: the providers resolving k enters, in order;   *)
                 (* k itself is the last.                                   *)
  Outcomes,      (* How opening a resource may end: "value", "null" (None   *)
                 (* is yielded), "raise", "cancel" (CancelledError).        *)
  Branches,      (* Concurrent branches of the resolution of one node.      *)
  Runners,       (* Tasks that call run().                                  *)
  Terminators,   (* Tasks that call terminate().                            *)
  MaxRes,        (* Bound on the computations started.                      *)
  MaxScopes,     (* Bound on the workflow scopes created.                   *)
  Overlap,       (* Whether terminate() is called, and a run started, while *)
                 (* a run or the closing of a scope is under way.           *)
  TeardownFails  (* Whether a teardown may raise.                           *)

Closers == Runners \cup Terminators
Res     == 1 .. MaxRes
Scopes  == 1 .. MaxScopes

ASSUME DependenciesAssumption ==
  /\ NoKey \notin Keys
  /\ Chain \in [Keys -> Seq(Keys)]
  /\ \A k \in Keys : Chain[k] # <<>> /\ Chain[k][Len(Chain[k])] = k
  /\ Outcomes \subseteq {"value", "null", "raise", "cancel"}
  /\ Runners \cap Terminators = {}
  /\ MaxRes \in Nat /\ MaxScopes \in Nat \ {0}
  /\ {Overlap, TeardownFails} \subseteq BOOLEAN

VARIABLES
  store,   (* _dep_store: number of the entry of each key, or 0             *)
  entry,   (* entry[n]: state of entry n                                    *)
  val,     (* val[n]: the resource it resolved to, or 0                     *)
  res,     (* res[n]: state of the resource that the computation of n opens *)
  key,     (* key[n]: its provider                                          *)
  built,   (* built[n]: the resources that it was built from                *)
  cur,     (* _lifecycles[Scope.WORKFLOW]                                   *)
  closed,  (* closed[s]: _closed of scope s                                 *)
  values,  (* values[s]: _values of scope s, 0 for a missing key            *)
  stack,   (* stack[s]: resources on its exit stack                         *)
  seen,    (* the scope a node's resolution captured, or 0 if it looks it   *)
           (* up on use                                                     *)
  todo,    (* todo[b]: providers that branch b has yet to resolve           *)
  got,     (* got[b]: resources it has resolved                             *)
  on,      (* on[b]: entry it awaits or computes, or 0                      *)
  from,    (* from[b]: scope in which it opens a resource                   *)
  bpc,     (* where each branch is                                          *)
  held,    (* resources injected into the running node                      *)
  phase,   (* where each run or terminate() call is                         *)
  ending,  (* ending[c]: scope that c closes, or 0                          *)
  failing, (* failing[c]: whether a teardown has raised                     *)
  pending  (* _pending_stop                                                 *)

entries == <<store, entry, val, res, key, built>>
scopes  == <<cur, closed, values, stack>>
branch  == <<seen, todo, got, on, from, bpc>>
closing == <<phase, ending, failing>>
vars    == <<entries, scopes, branch, held, closing, pending>>

Init ==
  /\ store = [k \in Keys |-> 0] /\ entry = [n \in Res |-> "none"]
  /\ val = [n \in Res |-> 0] /\ res = [n \in Res |-> "none"]
  /\ key = [n \in Res |-> NoKey] /\ built = [n \in Res |-> {}]
  /\ cur = 1 /\ closed = [s \in Scopes |-> FALSE]
  /\ values = [s \in Scopes |-> [k \in Keys |-> 0]]
  /\ stack = [s \in Scopes |-> <<>>]
  /\ seen = 0 /\ todo = [b \in Branches |-> <<>>] /\ got = [b \in Branches |-> {}]
  /\ on = [b \in Branches |-> 0] /\ from = [b \in Branches |-> 0]
  /\ bpc = [b \in Branches |-> "idle"]
  /\ held = {} /\ phase = [c \in Closers |-> "off"]
  /\ ending = [c \in Closers |-> 0] /\ failing = [c \in Closers |-> FALSE]
  /\ pending = FALSE

-----------------------------------------------------------------------------
Active(r)   == phase[r] \in {"between", "resolving", "running"}
Quiet       == \A c \in Closers : phase[c] \in {"off", "hung"}
BeingClosed == {ending[c] : c \in Closers}

(* A scope that nothing refers to any more is collected, and the           *)
(* generators on its exit stack are finalised with it.                     *)
Referred(s) ==
  \/ s \in BeingClosed
  \/ seen = s
  \/ \E b \in Branches : bpc[b] = "opening" /\ from[b] = s

-----------------------------------------------------------------------------
(* Resolution of a node's dependencies.                                    *)

(* Branch b has the outcome of entry e. *)
Takes(b, e) ==
  /\ on' = [on EXCEPT ![b] = 0]
  /\ IF entry[e] = "value"
     THEN /\ got' = [got EXCEPT ![b] = @ \cup {val[e]}]
          /\ todo' = [todo EXCEPT ![b] = Tail(@)]
          /\ bpc' = [bpc EXCEPT ![b] = IF Tail(todo[b]) = <<>> THEN "ok" ELSE "next"]
     ELSE /\ bpc' = [bpc EXCEPT ![b] = "failed"]
          /\ UNCHANGED <<got, todo>>
  /\ UNCHANGED <<seen, from>>

(* DependencyStore.resolve finds an entry, and waits unless it is done.    *)
Join(b) ==
  /\ bpc[b] = "next"
  /\ LET e == store[Head(todo[b])] IN
     /\ e # 0
     /\ IF entry[e] = "pending"
        THEN /\ bpc' = [bpc EXCEPT ![b] = "waiting"] /\ on' = [on EXCEPT ![b] = e]
             /\ UNCHANGED <<seen, todo, got, from>>
        ELSE Takes(b, e)
  /\ UNCHANGED <<entries, scopes, held, closing, pending>>

Woken(b) ==
  /\ bpc[b] = "waiting" /\ entry[on[b]] # "pending" /\ Takes(b, on[b])
  /\ UNCHANGED <<entries, scopes, held, closing, pending>>

Fresh(n) == entry[n] = "none" /\ \A m \in 1 .. n - 1 : entry[m] # "none"

OpenUnpublished(b, n) ==   \* mutant: the entry is not published before the await
  /\ bpc[b] = "next" /\ store[Head(todo[b])] = 0 /\ Fresh(n)
  /\ entry' = [entry EXCEPT ![n] = "pending"]
  /\ key' = [key EXCEPT ![n] = Head(todo[b])]
  /\ from' = [from EXCEPT ![b] = IF seen = 0 THEN cur ELSE seen]
  /\ on' = [on EXCEPT ![b] = n] /\ bpc' = [bpc EXCEPT ![b] = "opening"]
  /\ UNCHANGED <<store, val, res, built, scopes, seen, todo, got, held, closing, pending>>

(* It finds none, publishes one, and acquires the resource from the scope: *)
(* a scope that has it hands it out, one that is closed refuses, otherwise *)
(* the provider is entered.                                                *)
Open(b, n) ==
  /\ bpc[b] = "next" /\ store[Head(todo[b])] = 0 /\ Fresh(n)
  /\ LET k == Head(todo[b])
         s == IF seen = 0 THEN cur ELSE seen
         v == values[s][k] IN
     /\ store' = [store EXCEPT ![k] = n]
     /\ key' = [key EXCEPT ![n] = k]
     /\ IF v # 0
        THEN /\ entry' = [entry EXCEPT ![n] = "value"] /\ val' = [val EXCEPT ![n] = v]
             /\ got' = [got EXCEPT ![b] = @ \cup {v}]
             /\ todo' = [todo EXCEPT ![b] = Tail(@)]
             /\ bpc' = [bpc EXCEPT ![b] = IF Tail(todo[b]) = <<>> THEN "ok" ELSE "next"]
             /\ UNCHANGED <<on, from>>
        ELSE /\ UNCHANGED <<val, got, todo>>
             /\ IF closed[s]
                THEN /\ entry' = [entry EXCEPT ![n] = "raised"]
                     /\ bpc' = [bpc EXCEPT ![b] = "failed"] /\ UNCHANGED <<on, from>>
                ELSE /\ entry' = [entry EXCEPT ![n] = "pending"]
                     /\ bpc' = [bpc EXCEPT ![b] = "opening"]
                     /\ on' = [on EXCEPT ![b] = n] /\ from' = [from EXCEPT ![b] = s]
  /\ UNCHANGED <<res, built, scopes, seen, held, closing, pending>>

OpenedUntracked(b, how) ==   \* mutant: entered, but not through the exit stack
  /\ bpc[b] = "opening" /\ how = "value"
  /\ entry' = [entry EXCEPT ![on[b]] = how] /\ val' = [val EXCEPT ![on[b]] = on[b]]
  /\ res' = [res EXCEPT ![on[b]] = "open"]
  /\ values' = [values EXCEPT ![from[b]][key[on[b]]] = on[b]]
  /\ got' = [got EXCEPT ![b] = @ \cup {on[b]}] /\ todo' = [todo EXCEPT ![b] = Tail(@)]
  /\ bpc' = [bpc EXCEPT ![b] = IF Tail(todo[b]) = <<>> THEN "ok" ELSE "next"]
  /\ on' = [on EXCEPT ![b] = 0] /\ from' = [from EXCEPT ![b] = 0]
  /\ UNCHANGED <<store, key, built, cur, closed, stack, seen, held, closing, pending>>

(* The provider has yielded: its resource goes on the exit stack of the    *)
(* scope, though it may have been closed meanwhile, and the waiters of the *)
(* entry wake up.  None counts as a failed resolution.                     *)
Opened(b, how) ==
  /\ bpc[b] = "opening" /\ how \in {"value", "null"} \cap Outcomes
  /\ LET n == on[b] s == from[b] IN
     /\ entry' = [entry EXCEPT ![n] = how] /\ val' = [val EXCEPT ![n] = n]
     /\ res' = [res EXCEPT ![n] = IF closed[s] /\ s \notin BeingClosed THEN "closed" ELSE "open"]
     /\ built' = [built EXCEPT ![n] = got[b]]
     /\ stack' = [stack EXCEPT ![s] = Append(@, n)]
     /\ values' = [values EXCEPT ![s][key[n]] = n]
     /\ on' = [on EXCEPT ![b] = 0] /\ from' = [from EXCEPT ![b] = 0]
     /\ IF how = "value"
        THEN /\ got' = [got EXCEPT ![b] = @ \cup {n}]
             /\ todo' = [todo EXCEPT ![b] = Tail(@)]
             /\ bpc' = [bpc EXCEPT ![b] = IF Tail(todo[b]) = <<>> THEN "ok" ELSE "next"]
        ELSE bpc' = [bpc EXCEPT ![b] = "failed"] /\ UNCHANGED <<got, todo>>
  /\ UNCHANGED <<store, key, cur, closed, seen, held, closing, pending>>

DropSilently(bs) ==   \* mutant: a cancelled entry is dropped but not failed
  /\ store' = [k \in Keys |-> IF \E b \in bs : key[on[b]] = k THEN 0 ELSE store[k]]
  /\ UNCHANGED entry

(* CancelledError fails an entry and drops whatever its key now maps to.   *)
Drop(bs) ==
  /\ store' = [k \in Keys |-> IF \E b \in bs : key[on[b]] = k THEN 0 ELSE store[k]]
  /\ entry' = [n \in Res |-> IF \E b \in bs : on[b] = n THEN "raised" ELSE entry[n]]

(* The provider has raised instead; an Exception stays in the store.       *)
Fails(b, how) ==
  /\ bpc[b] = "opening" /\ how \in {"raise", "cancel"} \cap Outcomes
  /\ IF how = "cancel" THEN Drop({b})
     ELSE entry' = [entry EXCEPT ![on[b]] = "raised"] /\ UNCHANGED store
  /\ bpc' = [bpc EXCEPT ![b] = "failed"]
  /\ on' = [on EXCEPT ![b] = 0] /\ from' = [from EXCEPT ![b] = 0]
  /\ UNCHANGED <<val, res, key, built, scopes, seen, todo, got, held, closing, pending>>

-----------------------------------------------------------------------------
(* Closing the workflow scope.                                             *)

SwapKeepingStore(c, to) ==   \* mutant: _dep_store is not cleared
  /\ cur < MaxScopes
  /\ cur' = cur + 1 /\ UNCHANGED <<store, res>>
  /\ phase' = [phase EXCEPT ![c] = to] /\ ending' = [ending EXCEPT ![c] = 0]

(* A fresh scope and an empty store. *)
Swap(c, to) ==
  /\ cur < MaxScopes
  /\ cur' = cur + 1 /\ store' = [k \in Keys |-> 0]
  /\ res' = IF Referred(cur) /\ ending[c] # cur THEN res
            ELSE [n \in Res |-> IF n \in Range(stack[cur]) THEN "closed" ELSE res[n]]
  /\ phase' = [phase EXCEPT ![c] = to] /\ ending' = [ending EXCEPT ![c] = 0]

(* LifecycleScope.aclose: at most once per scope; nothing to await when    *)
(* the exit stack is empty.                                                *)
Close(c) ==
  /\ closed' = [closed EXCEPT ![cur] = TRUE]
  /\ values' = [values EXCEPT ![cur] = [k \in Keys |-> 0]]
  /\ IF closed[cur] \/ stack[cur] = <<>>
     THEN Swap(c, "off")
     ELSE /\ phase' = [phase EXCEPT ![c] = "closing"]
          /\ ending' = [ending EXCEPT ![c] = cur]
          /\ UNCHANGED <<cur, store, res>>
  /\ UNCHANGED <<entry, val, key, built, stack, failing>>

TeardownOldest(c) ==   \* mutant: resources are torn down in order of creation
  /\ phase[c] = "closing" /\ stack[ending[c]] # <<>>
  /\ LET s == ending[c] IN
     /\ stack' = [stack EXCEPT ![s] = Tail(@)]
     /\ res' = [res EXCEPT ![Head(stack[s])] = "closed"]
  /\ UNCHANGED <<store, entry, val, key, built, cur, closed, values, branch, held,
                 closing, pending>>

(* The exit stack pops a callback and awaits the teardown; one that raises *)
(* does not keep the others from running.                                  *)
Teardown(c) ==
  /\ phase[c] = "closing" /\ stack[ending[c]] # <<>>
  /\ LET s == ending[c] n == stack[s][Len(stack[s])] IN
     /\ stack' = [stack EXCEPT ![s] = SubSeq(@, 1, Len(@) - 1)]
     /\ res' = [res EXCEPT ![n] = "closed"]
  /\ failing' \in {failing, IF TeardownFails THEN [failing EXCEPT ![c] = TRUE] ELSE failing}
  /\ UNCHANGED <<store, entry, val, key, built, cur, closed, values, branch, held,
                 phase, ending, pending>>

(* All torn down: the scope is replaced, unless a teardown raised.         *)
Closed(c) ==
  /\ phase[c] = "closing" /\ stack[ending[c]] = <<>>
  /\ IF failing[c]
     THEN /\ phase' = [phase EXCEPT ![c] = "off"] /\ ending' = [ending EXCEPT ![c] = 0]
          /\ UNCHANGED <<cur, store, res>>
     ELSE Swap(c, "off")
  /\ failing' = [failing EXCEPT ![c] = FALSE]
  /\ UNCHANGED <<entry, val, key, built, closed, values, stack, branch, held, pending>>

-----------------------------------------------------------------------------
(* Runs.                                                                   *)

Start(r) ==
  /\ phase[r] = "off" /\ \A q \in Runners : ~Active(q) /\ (Overlap \/ Quiet)
  /\ phase' = [phase EXCEPT ![r] = "between"]
  /\ UNCHANGED <<entries, scopes, branch, held, ending, failing, pending>>

(* A node whose branches resolve the providers in want.  When the node     *)
(* itself declares a generator, the scopes are copied beforehand.          *)
Resolve(r, want) ==
  /\ phase[r] = "between" /\ ~pending /\ \E b \in Branches : want[b] # NoKey
  /\ phase' = [phase EXCEPT ![r] = "resolving"]
  /\ seen' \in {0, cur}
  /\ todo' = [b \in Branches |-> IF want[b] = NoKey THEN <<>> ELSE Chain[want[b]]]
  /\ bpc' = [b \in Branches |-> IF want[b] = NoKey THEN "ok" ELSE "next"]
  /\ UNCHANGED <<entries, scopes, got, on, from, held, ending, failing, pending>>

Leave == /\ seen' = 0 /\ todo' = [b \in Branches |-> <<>>] /\ got' = [b \in Branches |-> {}]
         /\ on' = [b \in Branches |-> 0] /\ from' = [b \in Branches |-> 0]
         /\ bpc' = [b \in Branches |-> "idle"]

(* gather waits for all branches; then the node runs, or the run ends in a *)
(* way that can be resumed.                                                *)
Gathered(r) ==
  /\ phase[r] = "resolving" /\ \A b \in Branches : bpc[b] \in {"ok", "failed"}
  /\ LET good == \A b \in Branches : bpc[b] = "ok" IN
     /\ phase' = [phase EXCEPT ![r] = IF good THEN "running" ELSE "off"]
     /\ held' = IF good THEN UNION Range(got) ELSE {}
  /\ Leave
  /\ UNCHANGED <<entries, scopes, ending, failing, pending>>

(* The task of the run is cancelled during the resolution.                 *)
Cancel(r) ==
  /\ phase[r] = "resolving" /\ "cancel" \in Outcomes
  /\ phase' = [phase EXCEPT ![r] = "off"]
  /\ Drop({b \in Branches : bpc[b] = "opening"}) /\ Leave
  /\ UNCHANGED <<val, res, key, built, scopes, held, ending, failing, pending>>

(* The node returns, or it raises or suspends the run.                     *)
NodeEnds(r, to) ==
  /\ phase[r] = "running" /\ to \in {"between", "off"}
  /\ phase' = [phase EXCEPT ![r] = to] /\ held' = {}
  /\ UNCHANGED <<entries, scopes, branch, ending, failing, pending>>

(* The run is over: stopped at a checkpoint, which takes the request back, *)
(* or completed, which leaves one made since its last checkpoint.          *)
RunEnds(r) ==
  /\ phase[r] = "between" /\ Close(r)
  /\ pending' \in {FALSE, pending /\ \E t \in Terminators : phase[t] = "hung"}
  /\ UNCHANGED <<branch, held>>

(* terminate(): only the call that sets _pending_stop waits for a run that *)
(* is active, and in vain (module Interpreter); the others go on to close. *)
Terminate(t) ==
  /\ phase[t] = "off" /\ (Overlap \/ \A c \in Closers : phase[c] = "off")
  /\ pending' = TRUE
  /\ IF ~pending /\ \E r \in Runners : Active(r)
     THEN /\ phase' = [phase EXCEPT ![t] = "hung"]
          /\ UNCHANGED <<entries, scopes, ending, failing>>
     ELSE Close(t)
  /\ UNCHANGED <<branch, held>>

-----------------------------------------------------------------------------
BranchNext(b) ==
  \/ Join(b) \/ Woken(b)
  \/ \E n \in Res : Open(b, n)
  \/ \E how \in Outcomes : Opened(b, how) \/ Fails(b, how)

RunNext(r) ==
  \/ Start(r) \/ Gathered(r) \/ Cancel(r) \/ RunEnds(r)
  \/ \E to \in {"between", "off"} : NodeEnds(r, to)
  \/ \E want \in [Branches -> Keys \cup {NoKey}] : Resolve(r, want)

Next ==
  \/ \E b \in Branches : BranchNext(b)
  \/ \E r \in Runners : RunNext(r)
  \/ \E t \in Terminators : Terminate(t)
  \/ \E c \in Closers : Teardown(c) \/ Closed(c)

Spec == Init /\ [][Next]_vars

(* Providers yield or raise, and teardowns end. *)
FairSpec == Spec /\ \A b \in Branches : WF_vars(BranchNext(b))

-----------------------------------------------------------------------------
(* Properties.                                                             *)

(* Every variable keeps to the values the interpreter gives it. *)
TypeOK ==
  /\ store \in [Keys -> Res \cup {0}] /\ val \in [Res -> Res \cup {0}]
  /\ entry \in [Res -> {"none", "pending", "value", "null", "raised"}]
  /\ res \in [Res -> {"none", "open", "closed"}]
  /\ key \in [Res -> Keys \cup {NoKey}] /\ built \in [Res -> SUBSET Res]
  /\ cur \in Scopes /\ closed \in [Scopes -> BOOLEAN]
  /\ values \in [Scopes -> [Keys -> Res \cup {0}]] /\ stack \in [Scopes -> Seq(Res)]
  /\ seen \in Scopes \cup {0} /\ held \subseteq Res /\ pending \in BOOLEAN
  /\ todo \in [Branches -> Seq(Keys)] /\ got \in [Branches -> SUBSET Res]
  /\ on \in [Branches -> Res \cup {0}] /\ from \in [Branches -> Scopes \cup {0}]
  /\ bpc \in [Branches -> {"idle", "next", "waiting", "opening", "ok", "failed"}]
  /\ phase \in [Closers -> {"off", "between", "resolving", "running", "closing", "hung"}]
  /\ ending \in [Closers -> Scopes \cup {0}] /\ failing \in [Closers -> BOOLEAN]

IsOpen(n) == res[n] = "open"

(* The resources injected into a node stay open until it returns, however  *)
(* earlier runs ended: completed, stopped, panicked, cancelled.            *)
UsesOpen == \A n \in held : IsOpen(n)

(* The same whatever teardowns raise: only a scope whose closing was       *)
(* broken off by one hands out what has been torn down.                    *)
HeldOpen == \A n \in held : IsOpen(n) \/ closed[cur]

(* Racing resolvers share one computation, so that a provider never has    *)
(* two resources open in the workflow scope.                               *)
OneInstance == \A m, n \in Res : IsOpen(m) /\ IsOpen(n) /\ key[m] = key[n] => m = n

(* A resource outlives the ones that were built from it.                   *)
TornDownInReverse == \A n \in Res : IsOpen(n) => \A m \in built[n] : IsOpen(m)

(* Every open resource is on the exit stack of the current scope or of one *)
(* that is being closed, so that somebody will tear it down.               *)
NoOrphans ==
  \A n \in Res : IsOpen(n) =>
    \E s \in Scopes : n \in Range(stack[s]) /\ (s = cur \/ s \in BeingClosed)

(* A resolver that waits for another's computation wakes up, whether that  *)
(* succeeds, fails or is cancelled.                                        *)
WaitersWake == \A b \in Branches : bpc[b] = "waiting" ~> bpc[b] # "waiting"
=============================================================================
