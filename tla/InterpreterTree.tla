--------------------------- MODULE InterpreterTree ---------------------------
(***************************************************************************)
(* The tree of interpreters below a top one (workflow.py): FUN_BLOCK and   *)
(* BATCH_RUN nodes fork interpreters for their sub-workflows, run them and *)
(* terminate them; terminate_all() may come from the user in between.      *)
(* What a node does otherwise, and how one interpreter executes its nodes, *)
(* is the subject of the modules Interpreter and Instructions: here a run  *)
(* is the sequence of its checkpoints and nodes.                           *)
(***************************************************************************)
EXTENDS Naturals, FiniteSets, Sequences, Functions

CONSTANTS
  Graphs,      (* Compositions.                                            *)
  Roots,       (* Those a top interpreter is made for.                     *)
  Rounds,      (* Rounds[g]: how often the user runs g (a bound).          *)
  Nodes,       (* Of all compositions.                                     *)
  Body,        (* Body[g]: the nodes of g, in order.                       *)
  Branches,    (* Branches[n]: the compositions a block node runs.         *)
  Batch,       (* The BATCH_RUN nodes; other blocks are FUN_BLOCK nodes.   *)
  OneTime,     (* FUN_BLOCK nodes with one_time_interp.                    *)
  FailFast,    (* BATCH_RUN nodes with fail_fast.                          *)
  Failing,     (* Plain nodes that may raise.                              *)
  Interpreters,(* 1 is the top interpreter (a bound on the forks).         *)
  MaxAsked,    (* How often the user calls terminate_all (a bound).        *)
  NoOne        (* Not an interpreter.                                      *)

ASSUME InterpreterTreeAssumption ==
  /\ Roots \subseteq Graphs /\ Batch \cup OneTime \cup Failing \subseteq Nodes
  /\ FailFast \subseteq Batch /\ OneTime \cap Batch = {}
  /\ NoOne \notin Graphs /\ \A g \in Graphs : Body[g] # <<>>
  /\ Body \in [Graphs -> Seq(Nodes)] /\ Branches \in [Nodes -> Seq(Graphs)]
  /\ Rounds \in [Roots -> Nat] /\ MaxAsked \in Nat
  /\ Interpreters \subseteq Nat /\ 1 \in Interpreters /\ NoOne \notin Interpreters

VARIABLES
  graph,    (* graph[i]: the composition i was made for                    *)
  position, (* _pointer: the node that i executes next                     *)
  parent,   (* _parent_interpreter                                         *)
  subs,     (* _sub_interpreters: identities                               *)
  all,      (* _sub_interpreters_all of the top interpreter                *)
  pending,  (* _pending_stop                                               *)
  at,       (* where the task that runs i is, "rest" when none does        *)
  failed,   (* whether the last run of i raised                            *)
  forks,    (* forks[n]: _interpreter or _interpreters of the block n      *)
  calls,    (* the terminate() calls under way                             *)
  asked,    (* how often the user has called terminate_all                 *)
  rounds    (* how often the user has run the top interpreter              *)

tree == <<graph, parent, subs, all>>
user == <<asked, rounds>>
vars == <<tree, position, pending, at, failed, forks, calls, user>>

Top        == 1
Current(i) == Body[graph[i]][position[i]]
IsBlock(n) == Branches[n] # <<>>
Used       == {i \in Interpreters : graph[i] # NoOne}
Kids(n)    == Range(forks[n])

(* is_running: the run's future exists and is not done.                    *)
Running(i) == at[i] \in {"checkpoint", "node", "block", "cleanup"}

Init ==
  /\ \E g \in Roots : graph = [i \in Interpreters |-> IF i = Top THEN g ELSE NoOne]
  /\ position = [i \in Interpreters |-> 1] /\ parent = [i \in Interpreters |-> NoOne]
  /\ subs = [i \in Interpreters |-> {}] /\ all = {}
  /\ pending = [i \in Interpreters |-> FALSE] /\ failed = [i \in Interpreters |-> FALSE]
  /\ at = [i \in Interpreters |-> "rest"]
  /\ forks = [n \in Nodes |-> <<>>] /\ calls = {} /\ asked = 0 /\ rounds = 0

-----------------------------------------------------------------------------
(* A run: checkpoints, nodes, and the end of the graph.                    *)
Start(i) ==
  /\ at[i] = "called"
  /\ at' = [at EXCEPT ![i] = "checkpoint"]
  /\ UNCHANGED <<tree, position, pending, failed, forks, calls, user>>

(* A stop that was asked for ends the run, and the pointer stays.          *)
Stop(i) ==
  /\ at[i] = "checkpoint" /\ pending[i]
  /\ at' = [at EXCEPT ![i] = "rest"] /\ pending' = [pending EXCEPT ![i] = FALSE]
  /\ UNCHANGED <<tree, position, failed, forks, calls, user>>

Execute(i) ==
  /\ at[i] = "checkpoint" /\ ~pending[i] /\ ~IsBlock(Current(i))
  /\ at' = [at EXCEPT ![i] = "node"]
  /\ UNCHANGED <<tree, position, pending, failed, forks, calls, user>>

(* The node of i returned: to the next one, or the graph is at its end.    *)
Last(i)  == position[i] = Len(Body[graph[i]])
Moved(i) == [position EXCEPT ![i] = IF Last(i) THEN 1 ELSE @ + 1]

Advance(i) == at' = [at EXCEPT ![i] = IF Last(i) THEN "rest" ELSE "checkpoint"]

Panic(i) ==
  /\ at' = [at EXCEPT ![i] = "rest"] /\ failed' = [failed EXCEPT ![i] = TRUE]

NodeReturns(i) ==
  /\ at[i] = "node" /\ Advance(i) /\ position' = Moved(i)
  /\ UNCHANGED <<tree, pending, failed, forks, calls, user>>

NodeRaises(i) ==
  /\ at[i] = "node" /\ Current(i) \in Failing /\ Panic(i)
  /\ UNCHANGED <<tree, position, pending, forks, calls, user>>

-----------------------------------------------------------------------------
(* Block nodes.  _pre_check forks one interpreter for each composition,    *)
(* unless the node has some already.                                       *)
Fresh(k) == Cardinality(Used) + k

Fork(i, n) ==
  LET new == [k \in DOMAIN Branches[n] |-> Fresh(k)]
  IN  /\ Range(new) \subseteq Interpreters \ Used   \* identities are fresh
      /\ forks' = [forks EXCEPT ![n] = new]
      /\ graph' = [x \in Interpreters |->
           IF x \in Range(new)
           THEN Branches[n][CHOOSE k \in DOMAIN new : new[k] = x] ELSE graph[x]]
      /\ parent' = [x \in Interpreters |-> IF x \in Range(new) THEN i ELSE parent[x]]
      /\ subs' = [subs EXCEPT ![i] = @ \cup Range(new)]
      /\ all' = all \cup Range(new)

PreCheck(i, n) ==
  IF forks[n] = <<>> THEN Fork(i, n) ELSE UNCHANGED <<tree, forks>>

(* The block then calls run() of each of them.                             *)
Call(i) ==
  LET n == Current(i) IN
  /\ at[i] = "checkpoint" /\ ~pending[i] /\ IsBlock(n)
  /\ PreCheck(i, n)
  /\ at' = [x \in Interpreters |->
       CASE x = i -> "block" [] x \in Range(forks'[n]) -> "called" [] OTHER -> at[x]]
  /\ failed' = [x \in Interpreters |-> failed[x] /\ x \notin Range(forks'[n])]
  /\ UNCHANGED <<position, pending, calls, user>>

Terminate(by, of, eol) == [by |-> by, of |-> of, eol |-> eol, phase |-> "begin"]

Failed(n) == \E x \in Kids(n) : failed[x]

GatheredFirst(n) == \E x \in Kids(n) : at[x] = "rest"   \* mutant: the first branch ends the batch

(* asyncio.gather: it ends with the last branch, or with the first one     *)
(* that raises under fail_fast, and then leaves the others running.        *)
Gathered(n) ==
  \/ \A x \in Kids(n) : at[x] = "rest"
  \/ n \in FailFast /\ Failed(n)

(* The finally: a batch terminates its branches; a function block its      *)
(* interpreter and the direct forks of that (terminate_all_forks).         *)
Cleanup(i) ==
  LET n == Current(i) IN
  /\ at[i] = "block" /\ Gathered(n)
  /\ calls' = calls \cup
       (IF n \in Batch THEN {Terminate(i, x, TRUE) : x \in Kids(n)}
        ELSE {Terminate(i, y, n \in OneTime) :
                y \in Kids(n) \cup UNION {subs[x] : x \in Kids(n)}})
  /\ at' = [at EXCEPT ![i] = "cleanup"]
  /\ UNCHANGED <<tree, position, pending, failed, forks, user>>

RenewKeepingStop(n) ==   \* mutant: reset() leaves the stop request
  /\ forks' = IF n \in OneTime THEN [forks EXCEPT ![n] = <<>>] ELSE forks
  /\ UNCHANGED pending

(* A one-time interpreter is dropped, another reset for the next call; a   *)
(* batch keeps the ones it has terminated.                                 *)
Renew(n) ==
  /\ forks' = IF n \in OneTime THEN [forks EXCEPT ![n] = <<>>] ELSE forks
  /\ pending' = [x \in Interpreters |->
       pending[x] /\ (x \notin Kids(n) \/ n \in OneTime \cup Batch)]

Rewound(n, moved) == [x \in Interpreters |->
  IF x \in Kids(n) /\ n \notin OneTime \cup Batch THEN 1 ELSE moved[x]]

BlockEnds(i) ==
  LET n == Current(i) IN
  /\ at[i] = "cleanup" /\ \A c \in calls : c.by # i
  /\ Renew(n)
  /\ IF Failed(n)
     THEN Panic(i) /\ position' = Rewound(n, position)
     ELSE Advance(i) /\ position' = Rewound(n, Moved(i)) /\ UNCHANGED failed
  /\ UNCHANGED <<tree, calls, user>>

-----------------------------------------------------------------------------
(* terminate(): it sets the stop request and waits for a run that is under *)
(* way, which nothing ends (module Interpreter, SeesAwaiter); if the       *)
(* request is already there it goes on at once.                            *)
Request(c) ==
  /\ c.phase = "begin"
  /\ pending' = [pending EXCEPT ![c.of] = TRUE]
  /\ IF ~pending[c.of] /\ Running(c.of)
     THEN calls' = (calls \ {c}) \cup {[c EXCEPT !.phase = "wait"]} /\ UNCHANGED subs
     ELSE /\ calls' = (calls \ {c}) \cup (IF c.eol THEN {[c EXCEPT !.phase = "remove"]} ELSE {})
          /\ subs' = [p \in Interpreters |->
               IF c.eol /\ p = parent[c.of] THEN subs[p] \ {c.of} ELSE subs[p]]
  /\ UNCHANGED <<graph, parent, all, position, at, failed, forks, user>>

RemoveFromParent(c) ==   \* mutant: the registry of the top interpreter keeps its entry
  /\ c.phase = "remove"
  /\ parent' = [parent EXCEPT ![c.of] = NoOne] /\ calls' = calls \ {c}
  /\ UNCHANGED <<graph, subs, all, position, pending, at, failed, forks, user>>

(* With the registry's lock in hand, the rest of eol.                      *)
Remove(c) ==
  /\ c.phase = "remove"
  /\ all' = all \ {c.of} /\ parent' = [parent EXCEPT ![c.of] = NoOne]
  /\ calls' = calls \ {c}
  /\ UNCHANGED <<graph, subs, position, pending, at, failed, forks, user>>

-----------------------------------------------------------------------------
(* The user runs the top interpreter, and terminates all of the tree.      *)
Run ==
  /\ at[Top] = "rest" /\ rounds < Rounds[graph[Top]]
  /\ at' = [at EXCEPT ![Top] = "checkpoint"] /\ failed' = [failed EXCEPT ![Top] = FALSE]
  /\ rounds' = rounds + 1
  /\ UNCHANGED <<tree, position, pending, forks, calls, asked>>

TerminateAll(eol) ==
  /\ asked < MaxAsked /\ rounds > 0
  /\ asked' = asked + 1
  /\ calls' = calls \cup {Terminate(NoOne, x, eol) : x \in {Top} \cup all}
  /\ UNCHANGED <<tree, position, pending, at, failed, forks, rounds>>

Step(i) ==
  \/ Start(i) \/ Stop(i) \/ Execute(i) \/ NodeReturns(i) \/ NodeRaises(i)
  \/ Call(i) \/ Cleanup(i) \/ BlockEnds(i)

Continue(by) == \E c \in calls : c.by = by /\ (Request(c) \/ Remove(c))

Next ==
  \/ \E i \in Interpreters : Step(i) \/ Continue(i)
  \/ Continue(NoOne)
  \/ Run
  \/ \E eol \in BOOLEAN : TerminateAll(eol)

Spec == Init /\ [][Next]_vars

(* The event loop runs every task that can continue, node code ends, and   *)
(* the user need not do anything.                                          *)
FairSpec ==
  /\ Spec /\ WF_vars(Continue(NoOne))
  /\ \A i \in Interpreters : WF_vars(Step(i)) /\ WF_vars(Continue(i))

-----------------------------------------------------------------------------
(* Every variable keeps to its values; the pointer is within the graph.    *)
TypeOK ==
  /\ graph \in [Interpreters -> Graphs \cup {NoOne}]
  /\ position \in [Interpreters -> Nat \ {0}]
  /\ \A i \in Used : position[i] <= Len(Body[graph[i]])
  /\ parent \in [Interpreters -> Interpreters \cup {NoOne}]
  /\ subs \in [Interpreters -> SUBSET Interpreters] /\ all \subseteq Interpreters
  /\ pending \in [Interpreters -> BOOLEAN] /\ failed \in [Interpreters -> BOOLEAN]
  /\ at \in [Interpreters -> {"rest", "called", "checkpoint", "node", "block", "cleanup"}]
  /\ forks \in [Nodes -> Seq(Interpreters)]
  /\ calls \subseteq [by : Interpreters \cup {NoOne}, of : Interpreters, eol : BOOLEAN,
                      phase : {"begin", "wait", "remove"}]

(* The two registries and the parent links agree, up to what a terminate() *)
(* under way has still to remove.                                          *)
Removing(i) == \E c \in calls : c.of = i /\ c.phase = "remove"

Linked ==
  /\ \A p, i \in Interpreters : i \in subs[p] => parent[i] = p /\ i \in all
  /\ \A i \in Interpreters : i \in all <=> parent[i] # NoOne
  /\ \A i \in all : i \in subs[parent[i]] \/ Removing(i)

(* Between two runs of the top interpreter, only what a reusable function  *)
(* block keeps for its next call is registered: no branch of a batch and   *)
(* no one-time interpreter is left in the tree, whatever failed, was       *)
(* stopped or was terminated twice on the way (terminate, FuncBlock and    *)
(* BatchRun clean up on every path).                                       *)
Kept == UNION {Kids(n) : n \in Nodes \ (OneTime \cup Batch)}

NothingLeft ==
  at[Top] = "rest" /\ (\A c \in calls : c.phase = "wait") => all \subseteq Kept

TreeMatches == TypeOK /\ Linked /\ NothingLeft

(* The checkpoint of run_step_by ends no run that nobody wanted to end: a  *)
(* stop request that a cleanup left behind does not reach a later run,     *)
(* which would skip the sub-workflow without an error.                     *)
StopsOnlyAsked ==
  \A i \in Interpreters : at[i] \in {"called", "checkpoint"} /\ pending[i] =>
    asked > 0 \/ \E n \in FailFast : i \in Kids(n) /\ Failed(n)

(* The programs of which the last two are said.  A block node stands in    *)
(* one place and does not share the compositions it runs with another, no  *)
(* composition runs itself, and a batch gathers all of its branches.       *)
Below(g) == UNION {Range(Branches[Body[g][k]]) : k \in DOMAIN Body[g]}

OnePlace ==
  /\ \A g, h \in Graphs : \A k \in DOMAIN Body[g], l \in DOMAIN Body[h] :
       IsBlock(Body[g][k]) /\ Body[g][k] = Body[h][l] => g = h /\ k = l
  /\ \A m, n \in Nodes : \A k \in DOMAIN Branches[m], l \in DOMAIN Branches[n] :
       Branches[m][k] = Branches[n][l] => m = n /\ k = l
  /\ \A n \in Nodes : Range(Branches[n]) \cap Roots = {}

Founded ==
  \A S \in SUBSET Graphs : S # {} => \E g \in S : \A h \in S : g \notin Below(h)

(* Repeated compositions, those that may run more than once, have no batch *)
(* and, below a function block, no reusable function block.                *)
Tame(repeated) ==
  /\ \A g \in Roots : g \in repeated \/ Rounds[g] <= 1
  /\ \A g \in repeated : Below(g) \subseteq repeated
  /\ \A g \in repeated : \A k \in DOMAIN Body[g] : Body[g][k] \notin Batch
  /\ \A n \in Nodes \ Batch : \A g \in Range(Branches[n]) \cap repeated :
       \A k \in DOMAIN Body[g] : IsBlock(Body[g][k]) => Body[g][k] \in OneTime

(* Every run of the top interpreter ends, with what its blocks forked,     *)
(* whether nodes raise and whenever terminate_all() comes.                 *)
RunEnds == Running(Top) ~> at[Top] = "rest"
=============================================================================
