------------------------ MODULE InterpreterTreeProofs ------------------------
(***************************************************************************)
(* Proof that the interpreters of a tree stay linked: the registry of the  *)
(* top one, the tables of the forks and the parent links describe the same *)
(* tree, whatever programs run in it, whenever they are terminated, and    *)
(* however the steps of several terminate() calls for one interpreter      *)
(* interleave.  What has still to be said is who can be named: forks get   *)
(* fresh identities, and everything that a block, a table or a call        *)
(* refers to has been forked.  Then, for programs whose blocks stand in    *)
(* one place each and gather all of their branches, that nothing stays in  *)
(* the tree between two runs and that no stop request reaches a run it was *)
(* not made for.                                                           *)
(***************************************************************************)
EXTENDS InterpreterTree, FiniteSetTheorems, TLAPS

Placed ==
  /\ Top \in Used
  /\ \A i \in Interpreters \ Used : at[i] = "rest" /\ position[i] = 1 /\ parent[i] = NoOne
  /\ \A n \in Nodes : Kids(n) \subseteq Used
  /\ \A c \in calls : c.of \in Used

(* What is about to be removed is in no table of forks any more.           *)
Unlisted ==
  \A c \in calls : c.phase = "remove" => \A p \in Interpreters : c.of \notin subs[p]

IInv == TypeOK /\ Linked /\ Placed /\ Unlisted

-----------------------------------------------------------------------------
LEMMA Initially == Init => IInv
<1> SUFFICES ASSUME Init PROVE IInv
  OBVIOUS
<1> USE InterpreterTreeAssumption
<1>1. Used = {Top}
  BY DEF Init, Used, Top
<1>2. TypeOK
  <2>1. PICK g \in Roots : graph = [i \in Interpreters |-> IF i = Top THEN g ELSE NoOne]
    BY DEF Init
  <2>2. g \in Graphs /\ graph[Top] = g /\ Body[g] \in Seq(Nodes) /\ Body[g] # <<>>
    BY <2>1 DEF Top
  <2>3. Len(Body[g]) \in Nat /\ 1 <= Len(Body[g])
    BY <2>2
  <2>4. graph \in [Interpreters -> Graphs \cup {NoOne}]
    BY <2>1, <2>2
  <2>5. position \in [Interpreters -> Nat \ {0}] /\ \A i \in Used : position[i] <= Len(Body[graph[i]])
    <3>1. position = [i \in Interpreters |-> 1]
      BY DEF Init
    <3>2. Top \in Interpreters
      BY DEF Top
    <3> QED BY <1>1, <2>2, <2>3, <3>1, <3>2
  <2>6. forks \in [Nodes -> Seq(Interpreters)]
    <3>1. <<>> \in Seq(Interpreters)
      OBVIOUS
    <3> QED BY <3>1 DEF Init
  <2>7. /\ parent = [i \in Interpreters |-> NoOne] /\ subs = [i \in Interpreters |-> {}] /\ all = {}
        /\ pending = [i \in Interpreters |-> FALSE] /\ failed = [i \in Interpreters |-> FALSE]
        /\ at = [i \in Interpreters |-> "rest"] /\ calls = {}
    BY DEF Init
  <2> QED BY <2>4, <2>5, <2>6, <2>7 DEF TypeOK
<1>3. Linked
  BY DEF Init, Linked, Removing
<1>4. Placed
  <2>1. \A n \in Nodes : Kids(n) = {}
    BY DEF Init, Kids, Range
  <2> QED BY <1>1, <2>1 DEF Init, Placed
<1>5. Unlisted
  BY DEF Init, Unlisted
<1> QED BY <1>2, <1>3, <1>4, <1>5 DEF IInv

(* The node at the pointer is a node of the program.                       *)
LEMMA CurrentIs ==
  ASSUME IInv, NEW i \in Interpreters, at[i] # "rest"
  PROVE  i \in Used /\ Current(i) \in Nodes
<1> USE InterpreterTreeAssumption
<1>1. i \in Used
  BY DEF IInv, Placed
<1>2. graph[i] \in Graphs
  BY <1>1 DEF IInv, TypeOK, Used
<1>3. Body[graph[i]] \in Seq(Nodes)
  BY <1>2
<1>4. position[i] \in 1 .. Len(Body[graph[i]])
  BY <1>1, <1>3 DEF IInv, TypeOK
<1> QED BY <1>1, <1>3, <1>4 DEF Current

LEMMA MovedIs ==
  ASSUME IInv, NEW i \in Used
  PROVE  /\ Moved(i) \in [Interpreters -> Nat \ {0}]
         /\ \A x \in Used : Moved(i)[x] <= Len(Body[graph[x]])
         /\ \A x \in Interpreters \ Used : Moved(i)[x] = position[x]
<1> USE InterpreterTreeAssumption
<1>1. \A x \in Used : Len(Body[graph[x]]) \in Nat \ {0}
  <2> SUFFICES ASSUME NEW x \in Used PROVE Len(Body[graph[x]]) \in Nat \ {0}
    OBVIOUS
  <2>1. graph[x] \in Graphs
    BY DEF IInv, TypeOK, Used
  <2>2. Body[graph[x]] \in Seq(Nodes) /\ Body[graph[x]] # <<>>
    BY <2>1
  <2> QED BY <2>2
<1>2. i \in Interpreters /\ Used \subseteq Interpreters
  BY DEF Used
<1>3. position \in [Interpreters -> Nat \ {0}] /\ \A x \in Used : position[x] <= Len(Body[graph[x]])
  BY DEF IInv, TypeOK
<1>4. Moved(i) = [position EXCEPT ![i] = IF position[i] = Len(Body[graph[i]]) THEN 1 ELSE position[i] + 1]
  BY DEF Moved, Last
<1> QED BY <1>1, <1>2, <1>3, <1>4

-----------------------------------------------------------------------------
(* A step that leaves the tree and the calls alone keeps the invariant if  *)
(* it keeps the types, starts nothing unforked and forgets forks at most.  *)
LEMMA Aside ==
  ASSUME IInv, UNCHANGED <<tree, calls>>, TypeOK',
         \A x \in Interpreters \ Used : at'[x] = "rest" /\ position'[x] = 1,
         \A n \in Nodes : Kids(n)' \subseteq Kids(n)
  PROVE  IInv'
<1>1. Used' = Used
  BY DEF Used, tree
<1>2. Linked'
  BY DEF IInv, Linked, Removing, tree
<1>3. Placed'
  BY <1>1 DEF IInv, Placed, tree
<1>4. Unlisted'
  BY DEF IInv, Unlisted, tree
<1> QED BY <1>2, <1>3, <1>4 DEF IInv

LEMMA RunSteps ==
  ASSUME IInv, NEW i \in Interpreters,
         Start(i) \/ Stop(i) \/ Execute(i) \/ NodeReturns(i) \/ NodeRaises(i)
  PROVE  IInv'
<1>1. i \in Used
  BY DEF IInv, Placed, Start, Stop, Execute, NodeReturns, NodeRaises
<1>2. UNCHANGED <<tree, calls, forks>>
  BY DEF Start, Stop, Execute, NodeReturns, NodeRaises
<1>3. \A n \in Nodes : Kids(n)' = Kids(n)
  BY <1>2 DEF Kids
<1>4. Used' = Used
  BY <1>2 DEF Used, tree
<1>5. TypeOK' /\ \A x \in Interpreters \ Used : at'[x] = "rest" /\ position'[x] = 1
  <2>1. CASE Start(i) \/ Stop(i) \/ Execute(i) \/ NodeRaises(i)
    <3>1. UNCHANGED position
      BY <2>1 DEF Start, Stop, Execute, NodeRaises
    <3>2. /\ pending' \in [Interpreters -> BOOLEAN] /\ failed' \in [Interpreters -> BOOLEAN]
          /\ at' \in [Interpreters -> {"rest", "called", "checkpoint", "node", "block", "cleanup"}]
          /\ \A x \in Interpreters \ {i} : at'[x] = at[x]
      <4>1. CASE Start(i)
        BY <4>1 DEF Start, IInv, TypeOK
      <4>2. CASE Stop(i)
        BY <4>2 DEF Stop, IInv, TypeOK
      <4>3. CASE Execute(i)
        BY <4>3 DEF Execute, IInv, TypeOK
      <4>4. CASE NodeRaises(i)
        BY <4>4 DEF NodeRaises, Panic, IInv, TypeOK
      <4> QED BY <2>1, <4>1, <4>2, <4>3, <4>4
    <3> QED BY <1>1, <1>2, <1>4, <3>1, <3>2 DEF IInv, TypeOK, Placed, tree
  <2>2. CASE NodeReturns(i)
    <3>1. position' = Moved(i) /\ UNCHANGED <<pending, failed>>
      BY <2>2 DEF NodeReturns
    <3>2. /\ at' \in [Interpreters -> {"rest", "called", "checkpoint", "node", "block", "cleanup"}]
          /\ \A x \in Interpreters \ {i} : at'[x] = at[x]
      BY <2>2 DEF NodeReturns, Advance, IInv, TypeOK
    <3> QED BY <1>1, <1>2, <1>4, <3>1, <3>2, MovedIs DEF IInv, TypeOK, Placed, tree
  <2> QED BY <2>1, <2>2
<1> QED BY <1>2, <1>3, <1>5, Aside

LEMMA RunTop ==
  ASSUME IInv, Run
  PROVE  IInv'
<1> USE InterpreterTreeAssumption
<1>1. UNCHANGED <<tree, calls, forks, position, pending>>
  BY DEF Run
<1>2. \A n \in Nodes : Kids(n)' = Kids(n)
  BY <1>1 DEF Kids
<1>3. Used' = Used
  BY <1>1 DEF Used, tree
<1>4. TypeOK'
  BY <1>1, <1>3 DEF Run, IInv, TypeOK, tree
<1>5. \A x \in Interpreters \ Used : at'[x] = "rest" /\ position'[x] = 1
  BY <1>1 DEF Run, IInv, Placed, TypeOK
<1> QED BY <1>1, <1>2, <1>4, <1>5, Aside

LEMMA BlockStep ==
  ASSUME IInv, NEW i \in Interpreters, BlockEnds(i)
  PROVE  IInv'
<1> USE InterpreterTreeAssumption
<1> DEFINE n == Current(i)
<1>1. i \in Used /\ n \in Nodes
  BY CurrentIs DEF BlockEnds
<1>2. UNCHANGED <<tree, calls>>
  BY DEF BlockEnds
<1>3. Used' = Used
  BY <1>2 DEF Used, tree
<1>4. /\ forks' \in [Nodes -> Seq(Interpreters)]
      /\ \A m \in Nodes : Kids(m)' \subseteq Kids(m)
  <2>1. forks' = IF n \in OneTime THEN [forks EXCEPT ![n] = <<>>] ELSE forks
    BY DEF BlockEnds, Renew
  <2>2. \A m \in Nodes : forks'[m] = forks[m] \/ forks'[m] = <<>>
    BY <2>1 DEF IInv, TypeOK
  <2>3. <<>> \in Seq(Interpreters)
    OBVIOUS
  <2> QED BY <2>1, <2>2, <2>3 DEF IInv, TypeOK, Kids, Range
<1>5. pending' \in [Interpreters -> BOOLEAN]
  BY DEF BlockEnds, Renew, IInv, TypeOK
<1>6. /\ failed' \in [Interpreters -> BOOLEAN]
      /\ at' \in [Interpreters -> {"rest", "called", "checkpoint", "node", "block", "cleanup"}]
      /\ \A x \in Interpreters \ {i} : at'[x] = at[x]
  BY DEF BlockEnds, Panic, Advance, IInv, TypeOK
<1>7. position' = Rewound(n, position) \/ position' = Rewound(n, Moved(i))
  BY DEF BlockEnds
<1>8. /\ position' \in [Interpreters -> Nat \ {0}]
      /\ \A x \in Used : position'[x] <= Len(Body[graph[x]])
      /\ \A x \in Interpreters \ Used : position'[x] = 1
  <2>1. \A x \in Used : Len(Body[graph[x]]) \in Nat /\ 1 <= Len(Body[graph[x]])
    <3> SUFFICES ASSUME NEW x \in Used
                 PROVE  Len(Body[graph[x]]) \in Nat /\ 1 <= Len(Body[graph[x]])
      OBVIOUS
    <3>1. graph[x] \in Graphs
      BY DEF IInv, TypeOK, Used
    <3>2. Body[graph[x]] \in Seq(Nodes) /\ Body[graph[x]] # <<>>
      BY <3>1
    <3> QED BY <3>2
  <2>2. /\ position \in [Interpreters -> Nat \ {0}]
        /\ \A x \in Used : position[x] <= Len(Body[graph[x]])
        /\ \A x \in Interpreters \ Used : position[x] = 1
    BY DEF IInv, TypeOK, Placed
  <2>3. Used \subseteq Interpreters
    BY DEF Used
  <2>4. /\ Moved(i) \in [Interpreters -> Nat \ {0}]
        /\ \A x \in Used : Moved(i)[x] <= Len(Body[graph[x]])
        /\ \A x \in Interpreters \ Used : Moved(i)[x] = 1
    BY <1>1, <2>2, MovedIs
  <2>5. ASSUME NEW moved \in [Interpreters -> Nat \ {0}],
               \A x \in Used : moved[x] <= Len(Body[graph[x]]),
               \A x \in Interpreters \ Used : moved[x] = 1
        PROVE  /\ Rewound(n, moved) \in [Interpreters -> Nat \ {0}]
               /\ \A x \in Used : Rewound(n, moved)[x] <= Len(Body[graph[x]])
               /\ \A x \in Interpreters \ Used : Rewound(n, moved)[x] = 1
    BY <2>1, <2>3, <2>5 DEF Rewound
  <2>6. CASE position' = Rewound(n, position)
    BY <2>2, <2>5, <2>6
  <2>7. CASE position' = Rewound(n, Moved(i))
    BY <2>4, <2>5, <2>7
  <2> QED BY <1>7, <2>6, <2>7
<1>9. TypeOK'
  BY <1>2, <1>3, <1>4, <1>5, <1>6, <1>8 DEF IInv, TypeOK, tree
<1> QED BY <1>1, <1>2, <1>4, <1>6, <1>8, <1>9, Aside DEF IInv, Placed

-----------------------------------------------------------------------------
(* A block that calls its forks, which it may have to make.                *)
LEMMA CallStep ==
  ASSUME IInv, NEW i \in Interpreters, Call(i)
  PROVE  IInv'
<1> USE InterpreterTreeAssumption
<1> DEFINE n == Current(i)
<1>1. i \in Used /\ n \in Nodes
  BY CurrentIs DEF Call
<1>2. UNCHANGED <<position, pending, calls>>
  BY DEF Call
<1>3. CASE UNCHANGED <<tree, forks>>
  <2>1. Used' = Used /\ Range(forks'[n]) \subseteq Used /\ \A m \in Nodes : Kids(m)' = Kids(m)
    BY <1>1, <1>3 DEF Used, tree, IInv, Placed, Kids
  <2>2. /\ at' \in [Interpreters -> {"rest", "called", "checkpoint", "node", "block", "cleanup"}]
        /\ \A x \in Interpreters \ Used : at'[x] = at[x]
    BY <1>1, <2>1 DEF Call, IInv, TypeOK
  <2>3. failed' \in [Interpreters -> BOOLEAN]
    BY DEF Call, IInv, TypeOK
  <2>4. TypeOK'
    BY <1>2, <1>3, <2>1, <2>2, <2>3 DEF IInv, TypeOK, tree
  <2>5. UNCHANGED <<tree, calls>>
    BY <1>2, <1>3
  <2> QED BY <1>2, <2>1, <2>2, <2>4, <2>5, Aside DEF IInv, Placed
<1>4. CASE Fork(i, n)
  <2> DEFINE new == [k \in DOMAIN Branches[n] |-> Fresh(k)]
  <2>1. Range(new) \subseteq Interpreters \ Used /\ forks' = [forks EXCEPT ![n] = new]
    BY <1>4 DEF Fork
  <2>2. Branches[n] \in Seq(Graphs)
    BY <1>1
  <2>3. new \in Seq(Interpreters)
    <3>1. PICK m \in Nat : DOMAIN Branches[n] = 1 .. m
      BY <2>2
    <3>2. \A k \in 1 .. m : new[k] \in Interpreters
      BY <2>1, <3>1 DEF Range
    <3> QED BY <3>1, <3>2
  <2>4. \A x \in Interpreters : x \notin Range(new) => graph'[x] = graph[x] /\ parent'[x] = parent[x]
    BY <1>4 DEF Fork
  <2>5. graph' \in [Interpreters -> Graphs \cup {NoOne}] /\ \A x \in Range(new) : graph'[x] \in Graphs
    <3>1. \A x \in Range(new) : graph'[x] = Branches[n][CHOOSE k \in DOMAIN new : new[k] = x]
      BY <1>4, <2>1 DEF Fork
    <3>2. \A x \in Range(new) : (CHOOSE k \in DOMAIN new : new[k] = x) \in DOMAIN Branches[n]
      BY DEF Range
    <3>3. \A k \in DOMAIN Branches[n] : Branches[n][k] \in Graphs
      BY <2>2
    <3>4. \A x \in Range(new) : graph'[x] \in Graphs
      BY <3>1, <3>2, <3>3
    <3>5. graph' = [x \in Interpreters |->
            IF x \in Range(new) THEN Branches[n][CHOOSE k \in DOMAIN new : new[k] = x] ELSE graph[x]]
      BY <1>4 DEF Fork
    <3> QED BY <3>1, <3>4, <3>5 DEF IInv, TypeOK
  <2>6. Used' = Used \cup Range(new)
    <3>1. \A x \in Interpreters : x \notin Range(new) => (graph'[x] # NoOne <=> graph[x] # NoOne)
      BY <2>4
    <3>2. \A x \in Range(new) : graph'[x] # NoOne
      BY <2>5
    <3>3. Range(new) \subseteq Interpreters
      BY <2>1
    <3> HIDE DEF new
    <3> QED BY <3>1, <3>2, <3>3 DEF Used
  <2>7. /\ parent' = [x \in Interpreters |-> IF x \in Range(new) THEN i ELSE parent[x]]
        /\ subs' = [subs EXCEPT ![i] = @ \cup Range(new)]
        /\ all' = all \cup Range(new)
    BY <1>4 DEF Fork
  <2>8. /\ at' \in [Interpreters -> {"rest", "called", "checkpoint", "node", "block", "cleanup"}]
        /\ failed' \in [Interpreters -> BOOLEAN]
        /\ \A x \in Interpreters \ Used' : at'[x] = at[x]
    BY <1>1, <2>1, <2>3, <2>6 DEF Call, IInv, TypeOK
  <2>9. forks' \in [Nodes -> Seq(Interpreters)] /\ \A m \in Nodes : Kids(m)' \subseteq Kids(m) \cup Range(new)
    BY <1>1, <2>1, <2>3 DEF IInv, TypeOK, Kids
  <2>10. \A x \in Used' : position'[x] <= Len(Body[graph'[x]])
    <3>1. \A x \in Range(new) : position'[x] = 1 /\ graph'[x] \in Graphs
      BY <1>2, <2>1, <2>5 DEF IInv, Placed
    <3>2. \A g \in Graphs : Body[g] \in Seq(Nodes) /\ Body[g] # <<>>
      OBVIOUS
    <3>3. \A g \in Graphs : 1 <= Len(Body[g])
      BY <3>2
    <3>4. \A x \in Used : x \notin Range(new) /\ graph'[x] = graph[x] /\ position'[x] = position[x]
      BY <1>2, <2>1, <2>4 DEF Used
    <3> QED BY <2>6, <3>1, <3>3, <3>4 DEF IInv, TypeOK
  <2>11. TypeOK'
    <3>1. parent' \in [Interpreters -> Interpreters \cup {NoOne}]
      BY <2>7 DEF IInv, TypeOK
    <3>2. subs' \in [Interpreters -> SUBSET Interpreters] /\ all' \subseteq Interpreters
      BY <2>1, <2>7 DEF IInv, TypeOK
    <3> QED BY <1>2, <2>5, <2>8, <2>9, <2>10, <3>1, <3>2 DEF IInv, TypeOK
  <2>12. Linked'
    <3>1. \A x \in Range(new) : x \notin all /\ \A p \in Interpreters : x \notin subs[p]
      BY <2>1 DEF IInv, Placed, Linked
    <3>2. \A x \in Interpreters : Removing(x)' = Removing(x)
      BY <1>2 DEF Removing
    <3>3. \A p, x \in Interpreters : x \in subs'[p] <=> x \in subs[p] \/ (p = i /\ x \in Range(new))
      BY <2>7 DEF IInv, TypeOK
    <3>4. i # NoOne
      OBVIOUS
    <3> QED BY <2>1, <2>7, <3>1, <3>2, <3>3, <3>4 DEF IInv, Linked, TypeOK
  <2>13. Placed'
    BY <1>2, <2>4, <2>6, <2>8, <2>9 DEF IInv, Placed
  <2>14. Unlisted'
    BY <1>2, <2>1, <2>7 DEF IInv, Unlisted, Placed, TypeOK
  <2> QED BY <2>11, <2>12, <2>13, <2>14 DEF IInv
<1> QED BY <1>3, <1>4, <1>1 DEF Call, PreCheck

(* The calls that a cleanup or the user makes name interpreters that have  *)
(* been forked; they have everything still to do.                          *)
LEMMA NewCalls ==
  ASSUME IInv, NEW made,
         made \subseteq [by : Interpreters \cup {NoOne}, of : Interpreters, eol : BOOLEAN,
                         phase : {"begin"}],
         \A c \in made : c.of \in Used,
         calls' = calls \cup made,
         UNCHANGED <<tree, position, pending, failed, forks>>,
         at' \in [Interpreters -> {"rest", "called", "checkpoint", "node", "block", "cleanup"}],
         \A x \in Interpreters \ Used : at'[x] = "rest"
  PROVE  IInv'
<1>1. Used' = Used
  BY DEF Used, tree
<1>2. \A c \in made : c.phase = "begin"
  OBVIOUS
<1>3. TypeOK'
  <2>1. \A c \in made : c \in [by : Interpreters \cup {NoOne}, of : Interpreters, eol : BOOLEAN,
                                phase : {"begin", "wait", "remove"}]
    OBVIOUS
  <2> QED BY <1>1, <2>1 DEF IInv, TypeOK, tree
<1>4. Linked'
  BY <1>2 DEF IInv, Linked, Removing, tree
<1>5. Placed'
  BY <1>1 DEF IInv, Placed, Kids, tree
<1>6. Unlisted'
  BY <1>2 DEF IInv, Unlisted, tree
<1> QED BY <1>3, <1>4, <1>5, <1>6 DEF IInv

(* The calls of terminate() that a cleanup makes.                          *)
LEMMA CallsMade ==
  ASSUME NEW i \in Interpreters, NEW S \in SUBSET Interpreters, NEW eol \in BOOLEAN
  PROVE  {Terminate(i, x, eol) : x \in S} \subseteq
           [by : Interpreters \cup {NoOne}, of : Interpreters, eol : BOOLEAN, phase : {"begin"}]
BY DEF Terminate

LEMMA CleanupStep ==
  ASSUME IInv, NEW i \in Interpreters, Cleanup(i)
  PROVE  IInv'
<1> USE InterpreterTreeAssumption
<1> DEFINE n == Current(i)
           made == IF n \in Batch THEN {Terminate(i, x, TRUE) : x \in Kids(n)}
                   ELSE {Terminate(i, y, n \in OneTime) :
                           y \in Kids(n) \cup UNION {subs[x] : x \in Kids(n)}}
<1>1. i \in Used /\ n \in Nodes
  BY CurrentIs DEF Cleanup
<1>2. Kids(n) \subseteq Used /\ Used \subseteq Interpreters
  BY <1>1 DEF IInv, Placed, Used
<1>3. UNION {subs[x] : x \in Kids(n)} \subseteq Used
  <2>1. SUFFICES ASSUME NEW p \in Interpreters, NEW x \in subs[p] PROVE x \in Used
    BY <1>2
  <2>2. subs[p] \subseteq Interpreters /\ x \in all
    BY <2>1 DEF IInv, TypeOK, Linked
  <2>3. x \in Interpreters
    BY <2>1, <2>2
  <2> QED BY <2>2, <2>3 DEF IInv, Linked, Placed
<1>4. made \subseteq [by : Interpreters \cup {NoOne}, of : Interpreters, eol : BOOLEAN, phase : {"begin"}]
  <2>1. CASE n \in Batch
    <3>1. made = {Terminate(i, x, TRUE) : x \in Kids(n)}
      BY <2>1
    <3> HIDE DEF made
    <3> QED BY <1>2, <3>1, CallsMade
  <2>2. CASE n \notin Batch
    <3> DEFINE S   == Kids(n) \cup UNION {subs[x] : x \in Kids(n)}
               eol == n \in OneTime
    <3>1. eol \in BOOLEAN /\ made = {Terminate(i, y, eol) : y \in S}
      BY <2>2
    <3>2. S \in SUBSET Interpreters
      BY <1>2, <1>3
    <3> HIDE DEF made, S, eol
    <3>3. {Terminate(i, y, eol) : y \in S} \subseteq
            [by : Interpreters \cup {NoOne}, of : Interpreters, eol : BOOLEAN, phase : {"begin"}]
      BY <3>1, <3>2, CallsMade
    <3> QED BY <3>1, <3>3
  <2> QED BY <2>1, <2>2
<1>5. \A c \in made : c.of \in Used
  BY <1>2, <1>3 DEF Terminate
<1>6. /\ at' \in [Interpreters -> {"rest", "called", "checkpoint", "node", "block", "cleanup"}]
      /\ \A x \in Interpreters \ Used : at'[x] = "rest"
  BY <1>1 DEF Cleanup, IInv, TypeOK, Placed
<1>7. calls' = calls \cup made /\ UNCHANGED <<tree, position, pending, failed, forks>>
  BY DEF Cleanup
<1> HIDE DEF made
<1> QED BY <1>4, <1>5, <1>6, <1>7, NewCalls

LEMMA TerminateAllStep ==
  ASSUME IInv, NEW eol \in BOOLEAN, TerminateAll(eol)
  PROVE  IInv'
<1> USE InterpreterTreeAssumption
<1> DEFINE made == {Terminate(NoOne, x, eol) : x \in {Top} \cup all}
<1>1. {Top} \cup all \subseteq Used /\ Used \subseteq Interpreters
  BY DEF IInv, Placed, Linked, TypeOK, Used
<1>2. made \subseteq [by : Interpreters \cup {NoOne}, of : Interpreters, eol : BOOLEAN, phase : {"begin"}]
  <2> SUFFICES ASSUME NEW x \in {Top} \cup all
               PROVE  Terminate(NoOne, x, eol) \in
                        [by : Interpreters \cup {NoOne}, of : Interpreters, eol : BOOLEAN, phase : {"begin"}]
    OBVIOUS
  <2>1. x \in Interpreters
    BY <1>1
  <2> QED BY <2>1 DEF Terminate
<1>3. \A c \in made : c.of \in Used
  BY <1>1 DEF Terminate
<1>4. calls' = calls \cup made /\ UNCHANGED <<tree, position, pending, at, failed, forks>>
  BY DEF TerminateAll
<1>5. /\ at' \in [Interpreters -> {"rest", "called", "checkpoint", "node", "block", "cleanup"}]
      /\ \A x \in Interpreters \ Used : at'[x] = "rest"
  BY <1>4 DEF IInv, TypeOK, Placed
<1> HIDE DEF made
<1> QED BY <1>2, <1>3, <1>4, <1>5, NewCalls

-----------------------------------------------------------------------------
(* terminate().  What it takes out of its parent's table is announced as   *)
(* being removed, until the registry has forgotten it as well.             *)
LEMMA RequestStep ==
  ASSUME IInv, NEW c \in calls, Request(c)
  PROVE  IInv'
<1> USE InterpreterTreeAssumption
<1>1. /\ c \in [by : Interpreters \cup {NoOne}, of : Interpreters, eol : BOOLEAN,
                 phase : {"begin", "wait", "remove"}]
      /\ c.of \in Interpreters /\ c.of \in Used /\ c.phase = "begin"
  BY DEF IInv, TypeOK, Placed, Request
<1>2. UNCHANGED <<graph, parent, all, position, at, failed, forks>> /\ Used' = Used
  BY DEF Request, Used
<1>3. pending' \in [Interpreters -> BOOLEAN]
  BY <1>1 DEF Request, IInv, TypeOK
<1>4. CASE calls' = (calls \ {c}) \cup {[c EXCEPT !.phase = "wait"]} /\ UNCHANGED subs
  <2> DEFINE d == [c EXCEPT !.phase = "wait"]
  <2>1. /\ d \in [by : Interpreters \cup {NoOne}, of : Interpreters, eol : BOOLEAN,
                   phase : {"begin", "wait", "remove"}]
        /\ d.phase = "wait" /\ d.of = c.of
    BY <1>1
  <2> HIDE DEF d
  <2>2. calls' = (calls \ {c}) \cup {d} /\ UNCHANGED subs
    BY <1>4 DEF d
  <2>3. \A x \in Interpreters : Removing(x)' <=> Removing(x)
    BY <1>1, <2>1, <2>2 DEF Removing
  <2>4. TypeOK'
    BY <1>2, <1>3, <2>1, <2>2 DEF IInv, TypeOK
  <2>5. Linked'
    BY <1>2, <2>2, <2>3 DEF IInv, Linked, TypeOK
  <2>6. Placed'
    BY <1>1, <1>2, <2>1, <2>2 DEF IInv, Placed, Kids
  <2>7. Unlisted'
    BY <2>1, <2>2 DEF IInv, Unlisted
  <2> QED BY <2>4, <2>5, <2>6, <2>7 DEF IInv
<1>5. CASE /\ calls' = (calls \ {c}) \cup (IF c.eol THEN {[c EXCEPT !.phase = "remove"]} ELSE {})
           /\ subs' = [p \in Interpreters |->
                IF c.eol /\ p = parent[c.of] THEN subs[p] \ {c.of} ELSE subs[p]]
  <2> DEFINE d == [c EXCEPT !.phase = "remove"]
  <2>1. /\ d \in [by : Interpreters \cup {NoOne}, of : Interpreters, eol : BOOLEAN,
                   phase : {"begin", "wait", "remove"}]
        /\ d.phase = "remove" /\ d.of = c.of
    BY <1>1
  <2> HIDE DEF d
  <2>2. /\ calls' = (calls \ {c}) \cup (IF c.eol THEN {d} ELSE {})
        /\ subs' = [p \in Interpreters |->
             IF c.eol /\ p = parent[c.of] THEN subs[p] \ {c.of} ELSE subs[p]]
    BY <1>5 DEF d
  <2>3. \A x \in Interpreters : Removing(x) \/ (c.eol /\ x = c.of) => Removing(x)'
    BY <1>1, <2>1, <2>2 DEF Removing
  <2>4. \A p \in Interpreters : subs'[p] \subseteq subs[p] /\ (c.eol => c.of \notin subs'[p])
    BY <1>1, <2>2 DEF IInv, Linked
  <2>5. TypeOK'
    <3>1. subs' \in [Interpreters -> SUBSET Interpreters]
      BY <2>2 DEF IInv, TypeOK
    <3>2. \A e \in calls' : e \in [by : Interpreters \cup {NoOne}, of : Interpreters, eol : BOOLEAN,
                                   phase : {"begin", "wait", "remove"}]
      BY <2>1, <2>2 DEF IInv, TypeOK
    <3> QED BY <1>2, <1>3, <3>1, <3>2 DEF IInv, TypeOK
  <2>6. Linked'
    <3>1. \A p, x \in Interpreters : x \in subs'[p] => parent'[x] = p /\ x \in all'
      BY <1>2, <2>4 DEF IInv, Linked
    <3>2. \A x \in Interpreters : x \in all' <=> parent'[x] # NoOne
      BY <1>2 DEF IInv, Linked
    <3>3. ASSUME NEW x \in all' PROVE x \in subs'[parent'[x]] \/ Removing(x)'
      <4>1. x \in all /\ x \in Interpreters /\ parent[x] \in Interpreters
        BY <1>2, <3>3 DEF IInv, Linked, TypeOK
      <4>2. x \in subs[parent[x]] \/ Removing(x)
        BY <4>1 DEF IInv, Linked
      <4>3. CASE Removing(x) \/ (c.eol /\ x = c.of)
        BY <2>3, <4>1, <4>3
      <4>4. CASE x \in subs[parent[x]] /\ ~(c.eol /\ x = c.of)
        BY <1>2, <2>2, <4>1, <4>4
      <4> QED BY <4>2, <4>3, <4>4
    <3> QED BY <3>1, <3>2, <3>3 DEF Linked
  <2>7. Placed'
    BY <1>1, <1>2, <2>1, <2>2 DEF IInv, Placed, Kids
  <2>8. Unlisted'
    <3> SUFFICES ASSUME NEW e \in calls', e.phase = "remove", NEW p \in Interpreters
                 PROVE  e.of \notin subs'[p]
      BY DEF Unlisted
    <3>1. CASE e \in calls
      BY <2>4, <3>1 DEF IInv, Unlisted
    <3>2. CASE c.eol /\ e = d
      BY <2>1, <2>4, <3>2
    <3> QED BY <2>2, <3>1, <3>2
  <2> QED BY <2>5, <2>6, <2>7, <2>8 DEF IInv
<1> QED BY <1>4, <1>5 DEF Request

LEMMA RemoveStep ==
  ASSUME IInv, NEW c \in calls, Remove(c)
  PROVE  IInv'
<1> USE InterpreterTreeAssumption
<1>1. c.of \in Interpreters /\ c.of \in Used /\ c.phase = "remove"
  BY DEF IInv, TypeOK, Placed, Remove
<1>2. /\ UNCHANGED <<graph, subs, position, pending, at, failed, forks>> /\ Used' = Used
      /\ all' = all \ {c.of} /\ parent' = [parent EXCEPT ![c.of] = NoOne] /\ calls' = calls \ {c}
  BY DEF Remove, Used
<1>3. \A p \in Interpreters : c.of \notin subs[p]
  BY <1>1 DEF IInv, Unlisted
<1>4. \A x \in Interpreters \ {c.of} : Removing(x) => Removing(x)'
  BY <1>2 DEF Removing
<1>5. TypeOK'
  BY <1>1, <1>2 DEF IInv, TypeOK
<1>6. Linked'
  <2>1. \A x \in Interpreters \ {c.of} : parent'[x] = parent[x] /\ (x \in all' <=> x \in all)
    BY <1>1, <1>2 DEF IInv, TypeOK
  <2>2. parent'[c.of] = NoOne /\ c.of \notin all' /\ all' \subseteq Interpreters
    BY <1>1, <1>2 DEF IInv, TypeOK
  <2>3. ASSUME NEW p \in Interpreters, NEW x \in Interpreters, x \in subs'[p]
        PROVE  parent'[x] = p /\ x \in all'
    <3>1. x \in subs[p] /\ x # c.of
      BY <1>2, <1>3, <2>3
    <3>2. parent[x] = p /\ x \in all
      BY <3>1 DEF IInv, Linked
    <3> QED BY <2>1, <3>1, <3>2
  <2>4. \A x \in Interpreters : x \in all' <=> parent'[x] # NoOne
    BY <2>1, <2>2 DEF IInv, Linked
  <2>5. ASSUME NEW x \in all' PROVE x \in subs'[parent'[x]] \/ Removing(x)'
    <3>1. x \in Interpreters \ {c.of} /\ x \in all
      BY <1>2, <2>2
    <3> QED BY <1>2, <1>4, <2>1, <3>1 DEF IInv, Linked
  <2> QED BY <2>3, <2>4, <2>5 DEF Linked
<1>7. Placed'
  BY <1>1, <1>2 DEF IInv, Placed, Kids, TypeOK
<1>8. Unlisted'
  BY <1>2 DEF IInv, Unlisted
<1> QED BY <1>5, <1>6, <1>7, <1>8 DEF IInv

-----------------------------------------------------------------------------
LEMMA Steps == IInv /\ [Next]_vars => IInv'
<1> SUFFICES ASSUME IInv, [Next]_vars PROVE IInv'
  OBVIOUS
<1>1. ASSUME NEW i \in Interpreters, Step(i) PROVE IInv'
  BY <1>1, RunSteps, CallStep, CleanupStep, BlockStep DEF Step
<1>2. ASSUME NEW by, Continue(by) PROVE IInv'
  BY <1>2, RequestStep, RemoveStep DEF Continue
<1>3. CASE Run
  BY <1>3, RunTop
<1>4. ASSUME NEW eol \in BOOLEAN, TerminateAll(eol) PROVE IInv'
  BY <1>4, TerminateAllStep
<1>5. CASE UNCHANGED vars
  BY <1>5 DEF vars, tree, user, IInv, TypeOK, Linked, Removing, Placed, Kids, Used, Unlisted
<1> QED BY <1>1, <1>2, <1>3, <1>4, <1>5 DEF Next

(* Whatever the programs and however many terminations come at whatever    *)
(* moment: the registry of the top interpreter holds exactly those that    *)
(* have a parent, each of them is listed by its parent or being removed,   *)
(* and nothing else is listed (fork_interpreter and terminate).            *)
THEOREM TreeLinked == Spec => [](TypeOK /\ Linked)
<1>1. Spec => []IInv
  BY Initially, Steps, PTL DEF Spec
<1>2. IInv => TypeOK /\ Linked
  BY DEF IInv
<1> QED BY <1>1, <1>2, PTL

-----------------------------------------------------------------------------
(* What is left between two runs: the same programs, without fail_fast,    *)
(* each block in one place.                                                *)
Active(x)  == at[x] # "rest"
InBlock(j) == at[j] \in {"block", "cleanup"}

(* The forks of a node are for its branches, one for each.                 *)
Sorted ==
  /\ graph[Top] \in Roots
  /\ \A n \in Nodes : forks[n] = <<>> \/
       /\ DOMAIN forks[n] = DOMAIN Branches[n]
       /\ \A k \in DOMAIN Branches[n] : graph[forks[n][k]] = Branches[n][k]

(* Who runs is the top interpreter or a fork that a block waits for.       *)
Hosted ==
  \A x \in Interpreters \ {Top} : Active(x) =>
    \E j \in Interpreters : at[j] = "block" /\ x \in Kids(Current(j))

(* A composition is run by one interpreter at a time.                      *)
Sole == \A i, j \in Interpreters : Active(i) /\ Active(j) /\ graph[i] = graph[j] => i = j

(* Whatever is registered is kept, being removed, or in a block that is    *)
(* under way and will remove it or is removing it.                         *)
Calls(j, x) == \E c \in calls : c.by = j /\ c.of = x /\ c.eol

Held(x, j) ==
  /\ x \in Kids(Current(j)) /\ Current(j) \in OneTime \cup Batch
  /\ at[j] = "block" \/ (at[j] = "cleanup" /\ Calls(j, x))

Cleared == \A x \in all : x \in Kept \/ Removing(x) \/ \E j \in Interpreters : Held(x, j)

NInv == IInv /\ IsFiniteSet(Used) /\ Sorted /\ Hosted /\ Sole /\ Cleared

(* A fork of a node.                                                       *)
LEMMA KidIs ==
  ASSUME NInv, OnePlace, NEW n \in Nodes, NEW x \in Kids(n)
  PROVE  /\ x \in Used /\ x \in Interpreters /\ x # Top /\ IsBlock(n)
         /\ graph[x] \in Range(Branches[n])
         /\ \A y \in Kids(n) : graph[x] = graph[y] => x = y
<1> USE InterpreterTreeAssumption
<1>1. forks[n] # <<>> /\ x \in Range(forks[n])
  BY DEF Kids, Range
<1>2. DOMAIN forks[n] = DOMAIN Branches[n] /\ \A k \in DOMAIN Branches[n] : graph[forks[n][k]] = Branches[n][k]
  BY <1>1 DEF NInv, Sorted
<1>3. x \in Used /\ x \in Interpreters
  BY DEF NInv, IInv, Placed, Used
<1>4. PICK k \in DOMAIN Branches[n] : x = forks[n][k]
  BY <1>1, <1>2 DEF Range
<1>5. graph[x] = Branches[n][k] /\ graph[x] \in Range(Branches[n])
  BY <1>2, <1>4 DEF Range
<1>6. IsBlock(n)
  BY <1>4 DEF IsBlock
<1>7. x # Top
  BY <1>5 DEF NInv, Sorted, OnePlace
<1>8. ASSUME NEW y \in Kids(n), graph[x] = graph[y] PROVE x = y
  <2>1. PICK l \in DOMAIN Branches[n] : y = forks[n][l]
    BY <1>2 DEF Kids, Range
  <2>2. Branches[n][k] = Branches[n][l]
    BY <1>2, <1>5, <1>8, <2>1
  <2> QED BY <1>4, <2>1, <2>2 DEF OnePlace
<1> QED BY <1>3, <1>5, <1>6, <1>7, <1>8

(* The composition of an interpreter tells the node that runs it.          *)
LEMMA OneNode ==
  ASSUME OnePlace, NEW m \in Nodes, NEW n \in Nodes, NEW g, g \in Range(Branches[m]), g \in Range(Branches[n])
  PROVE  m = n
BY DEF OnePlace, Range

(* Where an interpreter is that runs.                                      *)
LEMMA Where ==
  ASSUME NInv, NEW i \in Interpreters, Active(i)
  PROVE  /\ i \in Used /\ graph[i] \in Graphs /\ position[i] \in DOMAIN Body[graph[i]]
         /\ Current(i) = Body[graph[i]][position[i]] /\ Current(i) \in Nodes
<1> USE InterpreterTreeAssumption
<1>1. i \in Used /\ Current(i) \in Nodes
  BY CurrentIs DEF NInv, Active
<1>2. graph[i] \in Graphs
  BY <1>1 DEF NInv, IInv, TypeOK, Used
<1>3. Body[graph[i]] \in Seq(Nodes)
  BY <1>2
<1>4. position[i] \in DOMAIN Body[graph[i]]
  BY <1>1, <1>3 DEF NInv, IInv, TypeOK
<1> QED BY <1>1, <1>2, <1>4 DEF Current

(* Two interpreters that run are not at the same block.                    *)
LEMMA OneBlock ==
  ASSUME NInv, OnePlace, NEW i \in Interpreters, NEW j \in Interpreters,
         Active(i), Active(j), Current(i) = Current(j), IsBlock(Current(i))
  PROVE  i = j
<1> USE InterpreterTreeAssumption
<1>1. \A x \in {i, j} : /\ graph[x] \in Graphs /\ position[x] \in DOMAIN Body[graph[x]]
                        /\ Current(x) = Body[graph[x]][position[x]]
  BY Where
<1>2. graph[i] = graph[j]
  BY <1>1, SMTT(30) DEF OnePlace
<1> QED BY <1>2 DEF NInv, Sole

(* A fork of n that runs is waited for by the block at n.                  *)
LEMMA HostIs ==
  ASSUME NInv, OnePlace, NEW n \in Nodes, NEW x \in Kids(n), Active(x)
  PROVE  \E j \in Interpreters : at[j] = "block" /\ Current(j) = n
<1>1. x \in Interpreters \ {Top} /\ graph[x] \in Range(Branches[n])
  BY KidIs
<1>2. PICK j \in Interpreters : at[j] = "block" /\ x \in Kids(Current(j))
  BY <1>1 DEF NInv, Hosted
<1>3. Current(j) \in Nodes
  BY <1>2, CurrentIs DEF NInv
<1>4. graph[x] \in Range(Branches[Current(j)])
  BY <1>2, <1>3, KidIs
<1> QED BY <1>1, <1>2, <1>3, <1>4, OneNode

(* Nobody else runs the forks of a node.                                   *)
LEMMA KidsRest ==
  ASSUME NInv, OnePlace, NEW i \in Interpreters, Active(i), at[i] # "block"
  PROVE  \A x \in Kids(Current(i)) : at[x] = "rest"
<1> SUFFICES ASSUME NEW x \in Kids(Current(i)), Active(x) PROVE FALSE
  BY DEF Active
<1>1. Current(i) \in Nodes
  BY CurrentIs DEF NInv, Active
<1>2. PICK j \in Interpreters : at[j] = "block" /\ Current(j) = Current(i)
  BY <1>1, HostIs
<1>3. IsBlock(Current(i))
  BY <1>1, KidIs
<1> QED BY <1>2, <1>3, OneBlock DEF Active

LEMMA InitiallyN ==
  ASSUME Init
  PROVE  NInv
<1> USE InterpreterTreeAssumption
<1>1. IInv
  BY Initially
<1>2. Used = {Top}
  BY DEF Init, Used, Top
<1>3. IsFiniteSet(Used)
  BY <1>2, FS_Singleton
<1>4. Sorted
  BY DEF Init, Sorted, Top
<1>5. Hosted /\ Sole /\ Cleared
  BY DEF Init, Hosted, Sole, Cleared, Active
<1> QED BY <1>1, <1>3, <1>4, <1>5 DEF NInv

(* A step within a run, which concerns i alone.                            *)
LEMMA RunStepsN ==
  ASSUME NInv, NEW i \in Interpreters,
         Start(i) \/ Stop(i) \/ Execute(i) \/ NodeReturns(i) \/ NodeRaises(i)
  PROVE  NInv'
<1>1. IInv'
  BY RunSteps DEF NInv
<1>2. UNCHANGED <<tree, calls, forks>>
  BY DEF Start, Stop, Execute, NodeReturns, NodeRaises
<1>3. /\ at[i] \in {"called", "checkpoint", "node"}
      /\ \A x \in Interpreters \ {i} : at'[x] = at[x] /\ position'[x] = position[x]
  BY DEF Start, Stop, Execute, NodeReturns, NodeRaises, Advance, Panic, Moved, NInv, IInv, TypeOK
<1>4. Used' = Used
  BY <1>2 DEF Used, tree
<1>5. \A j \in Interpreters : j # i => Current(j)' = Current(j)
  BY <1>2, <1>3 DEF Current, tree
<1>6. \A n : Kids(n)' = Kids(n)
  BY <1>2 DEF Kids
<1>7. \A x \in Interpreters : Active(x)' => Active(x)
  BY <1>3 DEF Active
<1>8. Sorted'
  BY <1>2 DEF NInv, Sorted, tree
<1>9. Hosted'
  <2> SUFFICES ASSUME NEW x \in Interpreters \ {Top}, Active(x)'
               PROVE  \E j \in Interpreters : at'[j] = "block" /\ x \in Kids(Current(j))'
    BY DEF Hosted
  <2>1. PICK j \in Interpreters : at[j] = "block" /\ x \in Kids(Current(j))
    BY <1>7 DEF NInv, Hosted
  <2>2. j # i
    BY <1>3, <2>1
  <2>3. Kids(Current(j))' = Kids(Current(j))
    BY <1>2, <1>5, <2>2 DEF Kids
  <2> QED BY <1>3, <2>1, <2>2, <2>3
<1>10. Sole'
  BY <1>2, <1>7 DEF NInv, Sole, tree
<1>11. Cleared'
  <2> SUFFICES ASSUME NEW x \in all' PROVE (x \in Kept \/ Removing(x) \/ \E j \in Interpreters : Held(x, j))'
    BY DEF Cleared
  <2>1. Kept' = Kept /\ Removing(x)' = Removing(x) /\ x \in all
    BY <1>2 DEF Kept, Kids, Removing, tree
  <2>2. ASSUME NEW j \in Interpreters, Held(x, j) PROVE Held(x, j)'
    <3>1. j # i
      BY <1>3, <2>2 DEF Held
    <3>2. Kids(Current(j))' = Kids(Current(j)) /\ Current(j)' = Current(j) /\ at'[j] = at[j]
      BY <1>2, <1>3, <1>5, <3>1 DEF Kids
    <3>3. Calls(j, x)' = Calls(j, x)
      BY <1>2 DEF Calls
    <3> QED BY <2>2, <3>2, <3>3 DEF Held
  <2> QED BY <2>1, <2>2 DEF NInv, Cleared
<1> QED BY <1>1, <1>4, <1>8, <1>9, <1>10, <1>11 DEF NInv

LEMMA RunTopN ==
  ASSUME NInv, OnePlace, Run
  PROVE  NInv'
<1> USE InterpreterTreeAssumption
<1>1. IInv'
  BY RunTop DEF NInv
<1>2. UNCHANGED <<tree, calls, forks, position>> /\ at[Top] = "rest" /\ Top \in Interpreters
  BY DEF Run, Top
<1>3. \A x \in Interpreters \ {Top} : at'[x] = at[x]
  BY DEF Run, NInv, IInv, TypeOK
<1>4. Used' = Used
  BY <1>2 DEF Used, tree
<1>5. \A j : Current(j)' = Current(j) /\ Kids(Current(j))' = Kids(Current(j))
  BY <1>2 DEF Current, Kids, tree
<1>6. Sorted'
  BY <1>2 DEF NInv, Sorted, tree
<1>7. Hosted'
  <2> SUFFICES ASSUME NEW x \in Interpreters \ {Top}, Active(x)'
               PROVE  \E j \in Interpreters : at'[j] = "block" /\ x \in Kids(Current(j))'
    BY DEF Hosted
  <2>1. PICK j \in Interpreters : at[j] = "block" /\ x \in Kids(Current(j))
    BY <1>3 DEF NInv, Hosted, Active
  <2>2. j # Top
    BY <1>2, <2>1
  <2> QED BY <1>3, <1>5, <2>1, <2>2
<1>8. Sole'
  <2>1. ASSUME NEW j \in Interpreters \ {Top}, Active(j) PROVE graph[j] # graph[Top]
    <3>1. PICK k \in Interpreters : at[k] = "block" /\ j \in Kids(Current(k))
      BY <2>1 DEF NInv, Hosted
    <3>2. Current(k) \in Nodes
      BY <3>1, CurrentIs DEF NInv
    <3>3. graph[j] \in Range(Branches[Current(k)])
      BY <3>1, <3>2, KidIs
    <3> QED BY <3>2, <3>3 DEF OnePlace, NInv, Sorted
  <2>2. \A x \in Interpreters \ {Top} : Active(x)' <=> Active(x)
    BY <1>3 DEF Active
  <2>3. graph' = graph
    BY <1>2 DEF tree
  <2> QED BY <2>1, <2>2, <2>3 DEF NInv, Sole
<1>9. Cleared'
  <2> SUFFICES ASSUME NEW x \in all' PROVE (x \in Kept \/ Removing(x) \/ \E j \in Interpreters : Held(x, j))'
    BY DEF Cleared
  <2>1. Kept' = Kept /\ Removing(x)' = Removing(x) /\ x \in all
    BY <1>2 DEF Kept, Kids, Removing, tree
  <2>2. ASSUME NEW j \in Interpreters, Held(x, j) PROVE Held(x, j)'
    <3>1. j # Top
      BY <1>2, <2>2 DEF Held
    <3>2. Calls(j, x)' = Calls(j, x)
      BY <1>2 DEF Calls
    <3> QED BY <1>3, <1>5, <2>2, <3>1, <3>2 DEF Held
  <2> QED BY <2>1, <2>2 DEF NInv, Cleared
<1> QED BY <1>1, <1>4, <1>6, <1>7, <1>8, <1>9 DEF NInv

(* A step that adds calls and lets at most a block without running forks   *)
(* go on to its cleanup, in which each fork is terminated.                 *)
LEMMA Asked ==
  ASSUME NInv, IInv',
         UNCHANGED <<tree, position, forks>>, calls \subseteq calls',
         \A x \in Interpreters : Active(x)' => Active(x),
         \A j \in Interpreters : at'[j] = at[j] \/
            (/\ at[j] = "block" /\ at'[j] = "cleanup"
             /\ \A x \in Kids(Current(j)) :
                  /\ at[x] = "rest"
                  /\ Current(j) \in OneTime \cup Batch => Calls(j, x)')
  PROVE  NInv'
<1>1. Used' = Used
  BY DEF Used, tree
<1>2. Sorted'
  BY DEF NInv, Sorted, tree
<1>3. \A j : Current(j)' = Current(j) /\ Kids(Current(j))' = Kids(Current(j))
  BY DEF Current, Kids, tree
<1>4. Hosted'
  <2> SUFFICES ASSUME NEW x \in Interpreters \ {Top}, Active(x)'
               PROVE  \E j \in Interpreters : at'[j] = "block" /\ x \in Kids(Current(j))'
    BY DEF Hosted
  <2>1. Active(x)
    OBVIOUS
  <2>2. PICK j \in Interpreters : at[j] = "block" /\ x \in Kids(Current(j))
    BY <2>1 DEF NInv, Hosted
  <2>3. at'[j] = at[j]
    BY <2>1, <2>2 DEF Active
  <2> QED BY <1>3, <2>2, <2>3
<1>5. Sole'
  BY DEF NInv, Sole, tree
<1>6. Cleared'
  <2> SUFFICES ASSUME NEW x \in all' PROVE (x \in Kept \/ Removing(x) \/ \E j \in Interpreters : Held(x, j))'
    BY DEF Cleared
  <2>1. Kept' = Kept /\ x \in all
    BY DEF Kept, Kids, tree
  <2>2. Removing(x) => Removing(x)'
    BY DEF Removing
  <2>3. ASSUME NEW j \in Interpreters, Held(x, j) PROVE Held(x, j)'
    <3>1. Calls(j, x) => Calls(j, x)'
      BY DEF Calls
    <3> QED BY <1>3, <2>3, <3>1 DEF Held
  <2> QED BY <2>1, <2>2, <2>3 DEF NInv, Cleared
<1> QED BY <1>1, <1>2, <1>4, <1>5, <1>6 DEF NInv

LEMMA CleanupN ==
  ASSUME NInv, FailFast = {}, NEW i \in Interpreters, Cleanup(i)
  PROVE  NInv'
<1> USE InterpreterTreeAssumption
<1> DEFINE n == Current(i)
<1>1. IInv'
  BY CleanupStep DEF NInv
<1>2. UNCHANGED <<tree, position, forks>> /\ calls \subseteq calls'
  BY DEF Cleanup
<1>3. at[i] = "block" /\ at'[i] = "cleanup" /\ \A j \in Interpreters \ {i} : at'[j] = at[j]
  BY DEF Cleanup, NInv, IInv, TypeOK
<1>4. \A x \in Kids(n) : at[x] = "rest"
  BY DEF Cleanup, Gathered
<1>5. ASSUME NEW x \in Kids(n), n \in OneTime \cup Batch PROVE Calls(i, x)'
  <2>1. n \notin Batch => n \in OneTime /\ (n \in OneTime) = TRUE
    BY <1>5
  <2>2. Terminate(i, x, TRUE) \in calls'
    BY <2>1 DEF Cleanup
  <2> QED BY <2>2 DEF Calls, Terminate
<1>6. \A x \in Interpreters : Active(x)' => Active(x)
  BY <1>3 DEF Active
<1> QED BY <1>1, <1>2, <1>3, <1>4, <1>5, <1>6, Asked

LEMMA TerminateAllN ==
  ASSUME NInv, NEW eol \in BOOLEAN, TerminateAll(eol)
  PROVE  NInv'
<1>1. IInv'
  BY TerminateAllStep DEF NInv
<1>2. UNCHANGED <<tree, position, forks, at>> /\ calls \subseteq calls'
  BY DEF TerminateAll
<1> QED BY <1>1, <1>2, Asked DEF Active

(* A step of a call, which leaves the runs and the forks alone, keeps who  *)
(* is being removed and whom a cleanup terminates.                         *)
LEMMA Continued ==
  ASSUME NInv, IInv',
         UNCHANGED <<graph, position, forks, at>>, all' \subseteq all,
         \A x \in all' : Removing(x) => Removing(x)',
         \A x \in all', j \in Interpreters : Calls(j, x) => Calls(j, x)'
  PROVE  NInv'
<1>1. Used' = Used
  BY DEF Used
<1>2. Sorted' /\ Sole'
  BY DEF NInv, Sorted, Sole, Active
<1>3. \A j : Current(j)' = Current(j) /\ Kids(Current(j))' = Kids(Current(j))
  BY DEF Current, Kids
<1>4. Hosted'
  BY <1>3 DEF NInv, Hosted, Active
<1>5. Cleared'
  <2>1. Kept' = Kept
    BY DEF Kept, Kids
  <2>2. \A x \in all', j \in Interpreters : Held(x, j) => Held(x, j)'
    BY <1>3 DEF Held
  <2> QED BY <2>1, <2>2 DEF NInv, Cleared
<1> QED BY <1>1, <1>2, <1>4, <1>5 DEF NInv

LEMMA RequestN ==
  ASSUME NInv, NEW c \in calls, Request(c)
  PROVE  NInv'
<1>1. IInv'
  BY RequestStep DEF NInv
<1>2. UNCHANGED <<graph, position, forks, at, all>> /\ c.phase = "begin"
  BY DEF Request
<1> DEFINE waiting == [c EXCEPT !.phase = "wait"]
           removing == [c EXCEPT !.phase = "remove"]
<1>3. /\ waiting.by = c.by /\ waiting.of = c.of /\ waiting.eol = c.eol
      /\ removing.by = c.by /\ removing.of = c.of /\ removing.eol = c.eol
  BY DEF NInv, IInv, TypeOK
<1>4. /\ calls \ {c} \subseteq calls'
      /\ c.eol => waiting \in calls' \/ removing \in calls'
  BY DEF Request
<1> HIDE DEF waiting, removing
<1>5. \A x : Removing(x) => Removing(x)'
  BY <1>2, <1>4 DEF Removing
<1>6. \A x, j : Calls(j, x) => Calls(j, x)'
  BY <1>3, <1>4 DEF Calls
<1> QED BY <1>1, <1>2, <1>5, <1>6, Continued

LEMMA RemoveN ==
  ASSUME NInv, NEW c \in calls, Remove(c)
  PROVE  NInv'
<1>1. IInv'
  BY RemoveStep DEF NInv
<1>2. /\ UNCHANGED <<graph, position, forks, at>>
      /\ all' = all \ {c.of} /\ calls' = calls \ {c}
  BY DEF Remove
<1>3. \A x \in all' : Removing(x) => Removing(x)'
  BY <1>2 DEF Removing
<1>4. \A x \in all', j \in Interpreters : Calls(j, x) => Calls(j, x)'
  BY <1>2 DEF Calls
<1> QED BY <1>1, <1>2, <1>3, <1>4, Continued

LEMMA BlockEndsN ==
  ASSUME NInv, OnePlace, NEW i \in Interpreters, BlockEnds(i)
  PROVE  NInv'
<1> USE InterpreterTreeAssumption
<1> DEFINE n == Current(i)
<1>1. IInv'
  BY BlockStep DEF NInv
<1>2. UNCHANGED <<tree, calls>> /\ at[i] = "cleanup" /\ \A c \in calls : c.by # i
  BY DEF BlockEnds
<1>3. n \in Nodes /\ Active(i)
  BY <1>2, CurrentIs DEF NInv, Active
<1>4. \A x \in Kids(n) : at[x] = "rest"
  BY <1>2, <1>3, KidsRest
<1>5. \A x \in Interpreters \ {i} : at'[x] = at[x]
  BY DEF BlockEnds, Panic, Advance, NInv, IInv, TypeOK
<1>6. \A j \in Interpreters : Active(j)' => Active(j)
  BY <1>3, <1>5 DEF Active
<1>7. ASSUME NEW j \in Interpreters \ {i}, Active(j) PROVE Current(j)' = Current(j)
  <2>1. j \notin Kids(n)
    BY <1>4, <1>7 DEF Active
  <2>2. Moved(i)[j] = position[j]
    BY DEF Moved, NInv, IInv, TypeOK
  <2>3. position'[j] = position[j]
    BY <2>1, <2>2 DEF BlockEnds, Rewound
  <2> QED BY <1>2, <2>3 DEF Current, tree
<1>8. forks' = IF n \in OneTime THEN [forks EXCEPT ![n] = <<>>] ELSE forks
  BY DEF BlockEnds, Renew
<1>9. \A m \in Nodes \ {n} : Kids(m)' = Kids(m)
  BY <1>8 DEF Kids
<1>10. ASSUME NEW j \in Interpreters \ {i}, Active(j)
       PROVE  Kids(Current(j))' = Kids(Current(j))
  <2>1. Current(j) \in Nodes
    BY <1>10, CurrentIs DEF NInv, Active
  <2>2. CASE Current(j) # n
    BY <1>7, <1>9, <1>10, <2>1, <2>2 DEF Kids
  <2>3. CASE Current(j) = n
    <3>1. ~IsBlock(n)
      BY <1>3, <1>10, <2>3, OneBlock
    <3>2. \A x \in Kids(n) : FALSE
      <4> SUFFICES ASSUME NEW x \in Kids(n) PROVE FALSE
        OBVIOUS
      <4> HIDE DEF n
      <4> QED BY <1>3, <3>1, KidIs
    <3>3. forks'[n] = forks[n] \/ forks'[n] = <<>>
      BY <1>3, <1>8 DEF NInv, IInv, TypeOK
    <3>4. Range(forks[n]) = {} /\ Range(forks'[n]) = {}
      <4>1. Range(forks[n]) = {}
        BY <3>2 DEF Kids
      <4>2. Range(<<>>) = {}
        BY DEF Range
      <4> QED BY <3>3, <4>1, <4>2
    <3>5. Current(j)' = n
      BY <1>7, <1>10, <2>3
    <3> QED BY <2>3, <3>4, <3>5 DEF Kids
  <2> QED BY <2>2, <2>3
<1>11. Sorted'
  BY <1>2, <1>8 DEF NInv, Sorted, tree
<1>12. Hosted'
  <2> SUFFICES ASSUME NEW x \in Interpreters \ {Top}, Active(x)'
               PROVE  \E j \in Interpreters : at'[j] = "block" /\ x \in Kids(Current(j))'
    BY DEF Hosted
  <2>1. PICK j \in Interpreters : at[j] = "block" /\ x \in Kids(Current(j))
    BY <1>6 DEF NInv, Hosted
  <2>2. j # i /\ Active(j)
    BY <1>2, <2>1 DEF Active
  <2> QED BY <1>5, <1>10, <2>1, <2>2
<1>13. Sole'
  BY <1>2, <1>6 DEF NInv, Sole, tree
<1>14. Cleared'
  <2> SUFFICES ASSUME NEW x \in all' PROVE (x \in Kept \/ Removing(x) \/ \E j \in Interpreters : Held(x, j))'
    BY DEF Cleared
  <2>1. Removing(x)' = Removing(x) /\ x \in all
    BY <1>2 DEF Removing, tree
  <2>2. Kept' = Kept
    <3>1. \A m \in Nodes \ (OneTime \cup Batch) : forks'[m] = forks[m]
      BY <1>8
    <3>2. \A m \in Nodes \ (OneTime \cup Batch) : Kids(m)' = Kids(m)
      BY <3>1 DEF Kids
    <3> QED BY <3>2 DEF Kept
  <2>3. ASSUME NEW j \in Interpreters, Held(x, j) PROVE Held(x, j)'
    <3>1. j # i
      BY <1>2, <2>3 DEF Held, Calls
    <3>2. Active(j)
      BY <2>3 DEF Held, Active
    <3>3. Kids(Current(j))' = Kids(Current(j)) /\ Current(j)' = Current(j) /\ at'[j] = at[j]
      BY <1>5, <1>7, <1>10, <3>1, <3>2
    <3>4. Calls(j, x)' = Calls(j, x)
      BY <1>2 DEF Calls
    <3> QED BY <2>3, <3>3, <3>4 DEF Held
  <2> QED BY <2>1, <2>2, <2>3 DEF NInv, Cleared
<1>15. Used' = Used
  BY <1>2 DEF Used, tree
<1> QED BY <1>1, <1>11, <1>12, <1>13, <1>14, <1>15 DEF NInv

(* What a block has after its check: its forks, for its branches in order, *)
(* at rest, and nothing else of the tree has changed.                      *)
LEMMA ForksMade ==
  ASSUME NInv, OnePlace, NEW i \in Interpreters, Call(i), NEW n, n = Current(i)
  PROVE  /\ IsFiniteSet(Used') /\ Used \subseteq Used'
         /\ \A x \in Used : graph'[x] = graph[x]
         /\ \A x \in Range(forks'[n]) : x \in Interpreters /\ at[x] = "rest"
         /\ DOMAIN forks'[n] = DOMAIN Branches[n]
         /\ \A k \in DOMAIN Branches[n] : graph'[forks'[n][k]] = Branches[n][k]
         /\ \A m \in Nodes \ {n} : forks'[m] = forks[m]
         /\ Kids(n) \subseteq Range(forks'[n])
         /\ all \subseteq all' /\ all' \subseteq all \cup Range(forks'[n])
         /\ Used' \subseteq Used \cup Range(forks'[n])
<1> USE InterpreterTreeAssumption
<1>1. i \in Used /\ n \in Nodes
  BY CurrentIs DEF Call, NInv
<1>2. CASE UNCHANGED <<tree, forks>> /\ forks[n] # <<>>
  <2>1. Used' = Used /\ graph' = graph /\ forks' = forks /\ all' = all
    BY <1>2 DEF Used, tree
  <2>2. \A x \in Kids(n) : at[x] = "rest" /\ x \in Interpreters
    <3>1. Active(i) /\ at[i] # "block"
      BY DEF Call, Active
    <3> QED BY <1>1, <3>1, KidsRest DEF NInv, IInv, Placed, Used
  <2>3. /\ DOMAIN forks[n] = DOMAIN Branches[n]
        /\ \A k \in DOMAIN Branches[n] : graph[forks[n][k]] = Branches[n][k]
    BY <1>1, <1>2 DEF NInv, Sorted
  <2> QED BY <2>1, <2>2, <2>3 DEF Kids, NInv
<1>3. CASE Fork(i, n) /\ forks[n] = <<>>
  <2> DEFINE new == [k \in DOMAIN Branches[n] |-> Fresh(k)]
  <2>1. /\ Range(new) \subseteq Interpreters \ Used /\ forks' = [forks EXCEPT ![n] = new]
        /\ all' = all \cup Range(new)
    BY <1>3 DEF Fork
  <2>2. forks'[n] = new /\ \A m \in Nodes \ {n} : forks'[m] = forks[m]
    BY <1>1, <2>1 DEF NInv, IInv, TypeOK
  <2>3. Branches[n] \in Seq(Graphs) /\ DOMAIN Branches[n] = 1 .. Len(Branches[n]) /\ Len(Branches[n]) \in Nat
    BY <1>1
  <2>4. Cardinality(Used) \in Nat
    BY FS_CardinalityType DEF NInv
  <2>5. \A k, l \in DOMAIN Branches[n] : new[k] = new[l] => k = l
    BY <2>3, <2>4 DEF Fresh
  <2>6. graph' = [x \in Interpreters |->
           IF x \in Range(new)
           THEN Branches[n][CHOOSE k \in DOMAIN new : new[k] = x] ELSE graph[x]]
    BY <1>3 DEF Fork
  <2>7. DOMAIN new = DOMAIN Branches[n]
    OBVIOUS
  <2> HIDE DEF new
  <2>8. \A k \in DOMAIN Branches[n] : new[k] \in Range(new)
    BY <2>7 DEF Range
  <2>9. \A k \in DOMAIN Branches[n] : graph'[new[k]] = Branches[n][k]
    <3> SUFFICES ASSUME NEW k \in DOMAIN Branches[n] PROVE graph'[new[k]] = Branches[n][k]
      OBVIOUS
    <3>1. (CHOOSE l \in DOMAIN new : new[l] = new[k]) = k
      BY <2>5, <2>7
    <3> QED BY <2>1, <2>6, <2>8, <3>1
  <2>10. \A x \in Used : graph'[x] = graph[x]
    BY <2>1, <2>6 DEF Used
  <2>11. \A x \in Range(new) : x \in Interpreters /\ at[x] = "rest" /\ graph'[x] # NoOne
    <3>1. \A k \in DOMAIN Branches[n] : Branches[n][k] \in Graphs
      BY <2>3
    <3>2. \A x \in Range(new) : graph'[x] # NoOne
      BY <2>7, <2>9, <3>1 DEF Range
    <3> QED BY <2>1, <3>2 DEF NInv, IInv, Placed
  <2>12. Used' = Used \cup Range(new)
    <3>1. \A x \in Interpreters : x \notin Range(new) => graph'[x] = graph[x]
      BY <2>6
    <3> QED BY <2>10, <2>11, <3>1 DEF Used
  <2>13. IsFiniteSet(Used')
    <3>1. IsFiniteSet(DOMAIN new)
      BY <2>3, <2>7, FS_Interval
    <3>2. new \in [DOMAIN new -> Range(new)]
      BY <2>1 DEF Range, new
    <3>3. new \in Surjection(DOMAIN new, Range(new))
      BY <3>2 DEF Surjection, Range
    <3>4. IsFiniteSet(Range(new))
      BY <3>1, <3>3, FS_Surjection
    <3> QED BY <2>12, <3>4, FS_Union DEF NInv
  <2>14. Kids(n) = {}
    BY <1>3 DEF Kids, Range
  <2> QED BY <2>1, <2>2, <2>7, <2>9, <2>10, <2>11, <2>12, <2>13, <2>14
<1> QED BY <1>2, <1>3 DEF Call, PreCheck

LEMMA CallN ==
  ASSUME NInv, OnePlace, NEW i \in Interpreters, Call(i)
  PROVE  NInv'
<1> USE InterpreterTreeAssumption
<1>1. PICK n \in Nodes : n = Current(i)
  BY CurrentIs DEF Call, NInv
<1> DEFINE K == Range(forks'[n])
<1>2. IInv'
  BY CallStep DEF NInv
<1>3. /\ UNCHANGED <<position, calls>> /\ at[i] = "checkpoint" /\ IsBlock(n) /\ i \in Used /\ Active(i)
      /\ at' = [x \in Interpreters |-> CASE x = i -> "block" [] x \in K -> "called" [] OTHER -> at[x]]
  BY <1>1, CurrentIs DEF Call, NInv, Active
<1>4. /\ IsFiniteSet(Used') /\ Used \subseteq Used'
      /\ \A x \in Used : graph'[x] = graph[x]
      /\ \A x \in K : x \in Interpreters /\ at[x] = "rest"
      /\ DOMAIN forks'[n] = DOMAIN Branches[n]
      /\ \A k \in DOMAIN Branches[n] : graph'[forks'[n][k]] = Branches[n][k]
      /\ \A m \in Nodes \ {n} : forks'[m] = forks[m]
      /\ Kids(n) \subseteq K
      /\ all \subseteq all' /\ all' \subseteq all \cup K
  BY <1>1, ForksMade
<1>5. K = Kids(n)' /\ \A m \in Nodes : Kids(m) \subseteq Kids(m)'
  BY <1>4 DEF Kids
<1>6. /\ at'[i] = "block" /\ \A x \in Interpreters \ K : x # i => at'[x] = at[x]
      /\ \A x \in K : at'[x] = "called" /\ x # i
  BY <1>3, <1>4
<1>7. \A x \in Interpreters : Active(x)' <=> Active(x) \/ x \in K
  BY <1>3, <1>4, <1>6 DEF Active
<1>8. \A x \in Interpreters : Active(x) => x \in Used /\ x \notin K
  BY <1>4 DEF NInv, IInv, Placed, Active
<1>9. Current(i)' = n /\ \A j \in Interpreters : Active(j) => Current(j)' = Current(j)
  BY <1>1, <1>3, <1>4, <1>8 DEF Current
<1>10. Sorted'
  <2>1. graph'[Top] \in Roots
    BY <1>4 DEF NInv, IInv, Placed, Sorted
  <2>2. ASSUME NEW m \in Nodes \ {n}, forks[m] # <<>>
        PROVE  /\ DOMAIN forks[m] = DOMAIN Branches[m]
               /\ \A k \in DOMAIN Branches[m] : graph'[forks[m][k]] = Branches[m][k]
    <3>1. /\ DOMAIN forks[m] = DOMAIN Branches[m]
          /\ \A k \in DOMAIN Branches[m] : graph[forks[m][k]] = Branches[m][k]
      BY <2>2 DEF NInv, Sorted
    <3>2. \A k \in DOMAIN Branches[m] : forks[m][k] \in Used
      BY <3>1 DEF NInv, IInv, Placed, Kids, Range
    <3> QED BY <1>4, <3>1, <3>2
  <2>3. ASSUME NEW m \in Nodes, forks'[m] # <<>>
        PROVE  /\ DOMAIN forks'[m] = DOMAIN Branches[m]
               /\ \A k \in DOMAIN Branches[m] : graph'[forks'[m][k]] = Branches[m][k]
    <3>1. CASE m = n
      BY <1>4, <3>1
    <3>2. CASE m # n
      <4>1. forks'[m] = forks[m]
        BY <1>4, <3>2
      <4> QED BY <2>2, <2>3, <3>2, <4>1
    <3> QED BY <3>1, <3>2
  <2> QED BY <2>1, <2>3 DEF Sorted
<1>11. Hosted'
  <2> SUFFICES ASSUME NEW x \in Interpreters \ {Top}, Active(x)'
               PROVE  \E j \in Interpreters : at'[j] = "block" /\ x \in Kids(Current(j))'
    BY DEF Hosted
  <2>1. CASE x \in K
    <3>1. Kids(Current(i))' = K
      BY <1>9 DEF Kids
    <3> QED BY <1>6, <2>1, <3>1
  <2>2. CASE Active(x)
    <3>1. PICK j \in Interpreters : at[j] = "block" /\ x \in Kids(Current(j))
      BY <2>2 DEF NInv, Hosted
    <3>2. Active(j) /\ j # i /\ j \notin K
      BY <1>3, <1>8, <3>1 DEF Active
    <3>3. Current(j) \in Nodes /\ Current(j)' = Current(j)
      BY <1>9, <3>2, CurrentIs DEF NInv, Active
    <3>4. x \in Kids(Current(j))'
      BY <1>5, <3>1, <3>3 DEF Kids
    <3> QED BY <1>6, <3>1, <3>2, <3>4
  <2> QED BY <1>7, <2>1, <2>2
<1>12. Sole'
  <2>1. ASSUME NEW x \in K, NEW y \in K, graph'[x] = graph'[y] PROVE x = y
    <3>1. PICK k \in DOMAIN Branches[n] : x = forks'[n][k]
      BY <1>4 DEF Range
    <3>2. PICK l \in DOMAIN Branches[n] : y = forks'[n][l]
      BY <1>4 DEF Range
    <3>3. Branches[n][k] = Branches[n][l]
      BY <1>4, <2>1, <3>1, <3>2
    <3> QED BY <3>1, <3>2, <3>3 DEF OnePlace
  <2>2. ASSUME NEW x \in K, NEW y \in Interpreters, Active(y) PROVE graph'[x] # graph'[y]
    <3>1. graph'[x] \in Range(Branches[n])
      BY <1>4 DEF Range
    <3>2. graph'[y] = graph[y]
      BY <1>4, <1>8, <2>2
    <3>3. CASE y = Top
      BY <3>1, <3>2, <3>3 DEF OnePlace, NInv, Sorted
    <3>4. CASE y # Top
      <4>1. PICK j \in Interpreters : at[j] = "block" /\ y \in Kids(Current(j))
        BY <2>2, <3>4 DEF NInv, Hosted
      <4>2. Current(j) \in Nodes
        BY <4>1, CurrentIs DEF NInv
      <4>3. graph[y] \in Range(Branches[Current(j)])
        BY <4>1, <4>2, KidIs
      <4>4. CASE graph'[x] = graph'[y]
        <5>1. Current(j) = n
          BY <3>1, <3>2, <4>2, <4>3, <4>4, OneNode
        <5>2. Active(j)
          BY <4>1 DEF Active
        <5> QED BY <1>1, <1>3, <4>1, <5>1, <5>2, OneBlock
      <4> QED BY <4>4
    <3> QED BY <3>3, <3>4
  <2>3. ASSUME NEW x \in Interpreters, NEW y \in Interpreters, Active(x), Active(y), graph'[x] = graph'[y]
        PROVE  x = y
    BY <1>4, <1>8, <2>3 DEF NInv, Sole
  <2> QED BY <1>7, <2>1, <2>2, <2>3 DEF Sole
<1>13. Cleared'
  <2> SUFFICES ASSUME NEW x \in all' PROVE (x \in Kept \/ Removing(x) \/ \E j \in Interpreters : Held(x, j))'
    BY DEF Cleared
  <2>1. Removing(x)' = Removing(x)
    BY <1>3 DEF Removing
  <2>2. Kept \subseteq Kept'
    BY <1>5 DEF Kept
  <2>3. ASSUME NEW j \in Interpreters, Held(x, j) PROVE Held(x, j)'
    <3>1. Active(j) /\ j # i /\ j \notin K
      BY <1>3, <1>8, <2>3 DEF Active, Held
    <3>2. Current(j) \in Nodes /\ Current(j)' = Current(j) /\ at'[j] = at[j]
      BY <1>6, <1>9, <3>1, CurrentIs DEF NInv, Active
    <3>3. Kids(Current(j)) \subseteq Kids(Current(j))'
      BY <1>5, <3>2 DEF Kids
    <3>4. Calls(j, x)' = Calls(j, x)
      BY <1>3 DEF Calls
    <3> QED BY <2>3, <3>2, <3>3, <3>4 DEF Held
  <2>4. CASE x \in K
    <3>1. Kids(Current(i))' = K
      BY <1>9 DEF Kids
    <3>2. CASE n \in OneTime \cup Batch
      BY <1>6, <1>9, <2>4, <3>1, <3>2 DEF Held
    <3>3. CASE n \notin OneTime \cup Batch
      BY <1>5, <2>4, <3>3 DEF Kept
    <3> QED BY <3>2, <3>3
  <2>5. CASE x \in all
    BY <2>1, <2>2, <2>3, <2>5 DEF NInv, Cleared
  <2> QED BY <1>4, <2>4, <2>5
<1> QED BY <1>2, <1>4, <1>10, <1>11, <1>12, <1>13 DEF NInv

LEMMA StepsN == NInv /\ OnePlace /\ FailFast = {} /\ [Next]_vars => NInv'
<1> SUFFICES ASSUME NInv, OnePlace, FailFast = {}, [Next]_vars PROVE NInv'
  OBVIOUS
<1>1. ASSUME NEW i \in Interpreters, Step(i) PROVE NInv'
  BY <1>1, RunStepsN, CallN, CleanupN, BlockEndsN DEF Step
<1>2. ASSUME NEW by, Continue(by) PROVE NInv'
  BY <1>2, RequestN, RemoveN DEF Continue
<1>3. CASE Run
  BY <1>3, RunTopN
<1>4. ASSUME NEW eol \in BOOLEAN, TerminateAll(eol) PROVE NInv'
  BY <1>4, TerminateAllN
<1>5. CASE UNCHANGED vars
  <2>1. UNCHANGED <<tree, position, forks, at, calls>>
    BY <1>5 DEF vars
  <2>2. IInv'
    BY <1>5, Steps DEF NInv
  <2>3. \A x \in Interpreters : Active(x)' => Active(x)
    BY <2>1 DEF Active
  <2> QED BY <2>1, <2>2, <2>3, Asked
<1> QED BY <1>1, <1>2, <1>3, <1>4, <1>5 DEF Next

(* When the top interpreter rests, everybody does: a composition under way *)
(* that no other one under way runs would be run by the top interpreter.   *)
LEMMA AllRest ==
  ASSUME NInv, OnePlace, Founded, at[Top] = "rest"
  PROVE  \A x \in Interpreters : at[x] = "rest"
<1> USE InterpreterTreeAssumption
<1> DEFINE S == {graph[x] : x \in {y \in Interpreters : Active(y)}}
<1> SUFFICES ASSUME S # {} PROVE FALSE
  BY DEF Active
<1>1. \A x \in Interpreters : Active(x) => x \in Used /\ graph[x] \in Graphs
  BY DEF NInv, IInv, Placed, Active, TypeOK, Used
<1>2. S \in SUBSET Graphs
  BY <1>1
<1>3. PICK g \in S : \A h \in S : g \notin Below(h)
  BY <1>2 DEF Founded
<1>4. PICK x \in Interpreters : Active(x) /\ graph[x] = g
  BY <1>3
<1>5. PICK j \in Interpreters : at[j] = "block" /\ x \in Kids(Current(j))
  BY <1>4 DEF NInv, Hosted, Active
<1>6. Active(j) /\ Current(j) \in Nodes
  BY <1>5, CurrentIs DEF Active, NInv
<1>7. g \in Range(Branches[Current(j)])
  BY <1>4, <1>5, <1>6, KidIs
<1>8. position[j] \in DOMAIN Body[graph[j]]
  BY <1>6, Where
<1>9. g \in Below(graph[j]) /\ graph[j] \in S
  BY <1>6, <1>7, <1>8 DEF Below, Current
<1> QED BY <1>3, <1>9

(* Without fail_fast, and with each block in one place and no composition  *)
(* that runs itself: between two runs, whatever failed, was stopped or was *)
(* terminated twice on the way, only what a reusable function block keeps  *)
(* for its next call is registered (terminate, FuncBlock, BatchRun).       *)
THEOREM NothingStays ==
  ASSUME OnePlace, Founded, FailFast = {}
  PROVE  Spec => []TreeMatches
<1>1. Init => NInv
  BY InitiallyN
<1>2. NInv /\ [Next]_vars => NInv'
  BY StepsN
<1>3. NInv => TreeMatches
  <2> SUFFICES ASSUME NInv, at[Top] = "rest", \A c \in calls : c.phase = "wait", NEW x \in all
               PROVE  x \in Kept
    BY DEF TreeMatches, NothingLeft, NInv, IInv
  <2>1. ~Removing(x)
    BY DEF Removing
  <2>2. \A j \in Interpreters : ~Held(x, j)
    BY AllRest DEF Held
  <2> QED BY <2>1, <2>2 DEF NInv, Cleared
<1> QED BY <1>1, <1>2, <1>3, PTL DEF Spec

-----------------------------------------------------------------------------
(* Which stop requests are about: besides, no repeated composition has a   *)
(* batch or, below a function block, a reusable one.                       *)
(* A one-time block has an interpreter only while it is executed.          *)
Busy ==
  \A n \in OneTime : forks[n] # <<>> => \E j \in Interpreters : InBlock(j) /\ Current(j) = n

(* What an interpreter lists is for a composition below its own.           *)
Listed ==
  \A p, x \in Interpreters : x \in subs[p] => p \in Used /\ graph[x] \in Below(graph[p])

(* Node k of its composition is still ahead of x, which has not run yet or *)
(* is in its first run.                                                    *)
Before(x, k) ==
  \/ at[x] = "called"
  \/ at[x] = "checkpoint" /\ position[x] <= k
  \/ at[x] \in {"node", "block", "cleanup"} /\ position[x] < k
  \/ x = Top /\ at[x] = "rest" /\ rounds = 0

Ahead(g, k) == \A x \in Used : graph[x] = g => Before(x, k)

(* A composition that is not repeated gets one interpreter, and its nodes  *)
(* are executed once: a block ahead has no forks yet, nor has another run  *)
(* a branch of it.                                                         *)
Untouched(repeated) ==
  \A g \in Graphs \ repeated : \A k \in DOMAIN Body[g] : Ahead(g, k) =>
    /\ forks[Body[g][k]] = <<>>
    /\ \A x \in Used : graph[x] \notin Range(Branches[Body[g][k]])

Single(repeated) ==
  \A x, y \in Used : graph[x] = graph[y] /\ graph[x] \notin repeated => x = y

Counted == asked \in Nat /\ rounds \in Nat /\ (rounds = 0 => at[Top] = "rest")

(* As long as the user has not asked, only cleanups do, and they ask the   *)
(* forks of their block and, in a function block, the forks of those.      *)
Near(x, n) ==
  x \in Kids(n) \/ (n \notin Batch /\ \E y \in Kids(n) : graph[x] \in Below(graph[y]))

Asking ==
  asked = 0 => \A c \in calls :
    c.by \in Interpreters /\ at[c.by] = "cleanup" /\ Near(c.of, Current(c.by))

(* Whoever has been asked rests, and the block that may run it again is    *)
(* about to forget the request.                                            *)
Renewing(n) == \E j \in Interpreters : at[j] = "cleanup" /\ Current(j) = n

Stopping(repeated) ==
  asked = 0 => \A x \in Interpreters : pending[x] =>
    /\ at[x] = "rest" /\ x # Top /\ x \in Used
    /\ \A g \in repeated : \A k \in DOMAIN Body[g] :
         Body[g][k] \notin OneTime /\ x \in Kids(Body[g][k]) => Renewing(Body[g][k])

SInv(repeated) ==
  /\ NInv /\ Busy /\ Listed /\ Untouched(repeated) /\ Single(repeated) /\ Counted
  /\ Asking /\ Stopping(repeated)

(* A step of i leaves whoever else runs where it is.                       *)
LEMMA Others ==
  ASSUME NInv, OnePlace, NEW i \in Interpreters, Step(i),
         NEW j \in Interpreters \ {i}, Active(j)
  PROVE  /\ at'[j] = at[j] /\ position'[j] = position[j] /\ Current(j)' = Current(j)
         /\ Kids(Current(j)) \subseteq Kids(Current(j))'
<1>1. Current(j) \in Nodes /\ j \in Used
  BY Where
<1>2. CASE Start(i) \/ Stop(i) \/ Execute(i) \/ NodeReturns(i) \/ NodeRaises(i) \/ Cleanup(i)
  <2>1. UNCHANGED <<graph, forks>> /\ at'[j] = at[j] /\ position'[j] = position[j]
    BY <1>2 DEF Start, Stop, Execute, NodeReturns, NodeRaises, Cleanup, Advance, Panic, Moved,
                tree, NInv, IInv, TypeOK
  <2> QED BY <2>1 DEF Current, Kids
<1>3. CASE BlockEnds(i)
  <2>1. /\ UNCHANGED graph /\ at'[j] = at[j]
        /\ forks' = IF Current(i) \in OneTime THEN [forks EXCEPT ![Current(i)] = <<>>] ELSE forks
    BY <1>3 DEF BlockEnds, Panic, Advance, Renew, tree, NInv, IInv, TypeOK
  <2>2. Active(i) /\ at[i] # "block" /\ Current(i) \in Nodes
    BY <1>3, Where DEF BlockEnds, Active
  <2>3. j \notin Kids(Current(i))
    BY <2>2, KidsRest DEF Active
  <2>4. position'[j] = position[j]
    BY <1>3, <2>3 DEF BlockEnds, Rewound, Moved, NInv, IInv, TypeOK
  <2>5. Current(j)' = Current(j)
    BY <2>1, <2>4 DEF Current
  <2>6. CASE Current(j) # Current(i)
    <3>1. forks'[Current(j)] = forks[Current(j)]
      BY <1>1, <2>1, <2>6 DEF NInv, IInv, TypeOK
    <3> QED BY <2>1, <2>4, <2>5, <3>1 DEF Kids
  <2>7. CASE Current(j) = Current(i)
    <3>1. ~IsBlock(Current(j))
      BY <2>2, <2>7, OneBlock
    <3> SUFFICES ASSUME NEW x \in Kids(Current(j)) PROVE FALSE
      BY <2>1, <2>4, <2>5
    <3> QED BY <1>1, <3>1, KidIs
  <2> QED BY <2>1, <2>4, <2>5, <2>6, <2>7
<1>4. CASE Call(i)
  <2>1. PICK n \in Nodes : n = Current(i)
    BY <1>4, CurrentIs DEF Call, NInv
  <2>2. /\ \A x \in Used : graph'[x] = graph[x]
        /\ \A x \in Range(forks'[n]) : at[x] = "rest"
        /\ \A m \in Nodes \ {n} : forks'[m] = forks[m]
        /\ Kids(n) \subseteq Range(forks'[n])
    BY <1>4, <2>1, ForksMade
  <2>3. j \notin Range(forks'[n])
    BY <2>2 DEF Active
  <2>4. at'[j] = at[j] /\ position'[j] = position[j]
    BY <1>4, <2>1, <2>3 DEF Call
  <2>5. Current(j)' = Current(j)
    BY <1>1, <2>2, <2>4 DEF Current
  <2> QED BY <1>1, <2>2, <2>4, <2>5 DEF Kids
<1> QED BY <1>2, <1>3, <1>4 DEF Step

(* Who takes a step, and what no step changes.                             *)
LEMMA Mover ==
  ASSUME NInv, OnePlace, NEW i \in Interpreters, Step(i)
  PROVE  /\ i \in Used /\ Active(i) /\ UNCHANGED user
         /\ Used \subseteq Used' /\ \A x \in Used : graph'[x] = graph[x]
<1>1. at[i] # "rest"
  BY DEF Step, Start, Stop, Execute, NodeReturns, NodeRaises, Call, Cleanup, BlockEnds
<1>2. UNCHANGED user
  BY DEF Step, Start, Stop, Execute, NodeReturns, NodeRaises, Call, Cleanup, BlockEnds
<1>3. CASE ~Call(i)
  <2>1. UNCHANGED graph
    BY <1>3 DEF Step, Start, Stop, Execute, NodeReturns, NodeRaises, Cleanup, BlockEnds, tree
  <2> QED BY <1>1, <1>2, <2>1, Where DEF Active, Used
<1>4. CASE Call(i)
  <2>1. PICK n \in Nodes : n = Current(i)
    BY <1>4, CurrentIs DEF Call, NInv
  <2> QED BY <1>1, <1>2, <1>4, <2>1, ForksMade, Where DEF Active
<1> QED BY <1>3, <1>4

LEMMA BusyStep ==
  ASSUME NInv, OnePlace, Busy, NEW i \in Interpreters, Step(i)
  PROVE  Busy'
<1> USE InterpreterTreeAssumption
<1> SUFFICES ASSUME NEW n \in OneTime, forks'[n] # <<>>
             PROVE  \E j \in Interpreters : InBlock(j)' /\ Current(j)' = n
  BY DEF Busy
<1>1. n \in Nodes
  OBVIOUS
<1>2. ASSUME NEW j \in Interpreters \ {i}, InBlock(j), Current(j) = n
      PROVE  InBlock(j)' /\ Current(j)' = n
  <2>1. Active(j)
    BY <1>2 DEF InBlock, Active
  <2>2. at'[j] = at[j] /\ Current(j)' = Current(j)
    BY <2>1, Others
  <2> QED BY <1>2, <2>2 DEF InBlock
<1>3. CASE Call(i)
  <2>1. Current(i)' = Current(i) /\ at'[i] = "block" /\ at[i] = "checkpoint"
    <3>1. i \in Used /\ graph'[i] = graph[i]
      BY Mover
    <3>2. at[i] = "checkpoint" /\ position' = position
      BY <1>3 DEF Call
    <3>3. i \notin Range(forks'[Current(i)])
      BY <1>3, <3>2, ForksMade
    <3>4. at'[i] = "block"
      BY <1>3, <3>3 DEF Call
    <3> QED BY <3>1, <3>2, <3>4 DEF Current
  <2>2. \A m \in Nodes \ {Current(i)} : forks'[m] = forks[m]
    BY <1>3, ForksMade
  <2>3. CASE n = Current(i)
    BY <2>1, <2>3 DEF InBlock
  <2>4. CASE n # Current(i)
    <3>1. PICK j \in Interpreters : InBlock(j) /\ Current(j) = n
      BY <1>1, <2>2, <2>4 DEF Busy
    <3> QED BY <1>2, <2>1, <3>1 DEF InBlock
  <2> QED BY <2>3, <2>4
<1>4. CASE BlockEnds(i)
  <2>1. forks' = IF Current(i) \in OneTime THEN [forks EXCEPT ![Current(i)] = <<>>] ELSE forks
    BY <1>4 DEF BlockEnds, Renew
  <2>2. n # Current(i) /\ forks[n] # <<>>
    BY <1>1, <2>1 DEF NInv, IInv, TypeOK
  <2>3. PICK j \in Interpreters : InBlock(j) /\ Current(j) = n
    BY <2>2 DEF Busy
  <2> QED BY <1>2, <2>2, <2>3
<1>5. CASE Cleanup(i)
  <2>1. PICK j \in Interpreters : InBlock(j) /\ Current(j) = n
    BY <1>5 DEF Busy, Cleanup
  <2>2. at'[i] = "cleanup" /\ Current(i)' = Current(i)
    BY <1>5 DEF Cleanup, Current, tree, NInv, IInv, TypeOK
  <2> QED BY <1>2, <2>1, <2>2 DEF InBlock
<1>6. CASE Start(i) \/ Stop(i) \/ Execute(i) \/ NodeReturns(i) \/ NodeRaises(i)
  <2>1. UNCHANGED forks /\ ~InBlock(i)
    BY <1>6 DEF Start, Stop, Execute, NodeReturns, NodeRaises, InBlock
  <2>2. PICK j \in Interpreters : InBlock(j) /\ Current(j) = n
    BY <2>1 DEF Busy
  <2> QED BY <1>2, <2>1, <2>2
<1> QED BY <1>3, <1>4, <1>5, <1>6 DEF Step

LEMMA ListedStep ==
  ASSUME NInv, OnePlace, Listed, NEW i \in Interpreters, Step(i)
  PROVE  Listed'
<1>1. CASE UNCHANGED tree
  BY <1>1 DEF Listed, tree, Used
<1>2. CASE Call(i) /\ Fork(i, Current(i))
  <2>1. PICK n \in Nodes : n = Current(i)
    BY <1>2, CurrentIs DEF Call, NInv
  <2>2. /\ DOMAIN forks'[n] = DOMAIN Branches[n]
        /\ \A k \in DOMAIN Branches[n] : graph'[forks'[n][k]] = Branches[n][k]
    BY <1>2, <2>1, ForksMade
  <2>3. forks' = [forks EXCEPT ![n] = [k \in DOMAIN Branches[n] |-> Fresh(k)]]
    BY <1>2, <2>1 DEF Fork
  <2>4. forks'[n] = [k \in DOMAIN Branches[n] |-> Fresh(k)]
    BY <2>3 DEF NInv, IInv, TypeOK
  <2>5. subs' = [subs EXCEPT ![i] = subs[i] \cup Range([k \in DOMAIN Branches[n] |-> Fresh(k)])]
    BY <1>2, <2>1 DEF Fork
  <2>6. subs' = [subs EXCEPT ![i] = subs[i] \cup Range(forks'[n])]
    BY <2>4, <2>5
  <2>7. i \in Used /\ Used \subseteq Used' /\ \A x \in Used : graph'[x] = graph[x]
    BY Mover
  <2>8. ASSUME NEW x \in Range(forks'[n]) PROVE graph'[x] \in Below(graph'[i])
    <3>1. graph'[x] \in Range(Branches[n])
      BY <2>2 DEF Range
    <3>2. Active(i)
      BY <1>2 DEF Call, Active
    <3>3. position[i] \in DOMAIN Body[graph[i]] /\ n = Body[graph[i]][position[i]]
      BY <2>1, <3>2, Where
    <3> QED BY <2>7, <3>1, <3>3 DEF Below
  <2>9. ASSUME NEW p \in Interpreters, NEW x \in subs[p]
        PROVE  p \in Used' /\ graph'[x] \in Below(graph'[p])
    <3>1. x \in Interpreters
      BY DEF NInv, IInv, TypeOK
    <3>2. x \in all /\ parent[x] = p
      BY <3>1 DEF NInv, IInv, Linked
    <3>3. parent[x] # NoOne
      BY <3>1, <3>2 DEF NInv, IInv, Linked
    <3>4. x \in Used
      BY <3>1, <3>3 DEF NInv, IInv, Placed
    <3>5. p \in Used /\ graph[x] \in Below(graph[p])
      BY <3>1 DEF Listed
    <3> QED BY <2>7, <3>4, <3>5
  <2> SUFFICES ASSUME NEW p \in Interpreters, NEW x \in Interpreters, x \in subs'[p]
               PROVE  p \in Used' /\ graph'[x] \in Below(graph'[p])
    BY DEF Listed
  <2>10. x \in subs[p] \/ (p = i /\ x \in Range(forks'[n]))
    BY <2>6 DEF NInv, IInv, TypeOK
  <2> QED BY <2>7, <2>8, <2>9, <2>10
<1> QED BY <1>1, <1>2
    DEF Step, Start, Stop, Execute, NodeReturns, NodeRaises, Call, PreCheck, Cleanup, BlockEnds

(* Steps that fork nobody and bring nobody before a node that it is past.  *)
LEMMA NoneNew ==
  ASSUME NEW R, Untouched(R), Single(R), UNCHANGED graph,
         \A m \in Nodes : forks'[m] = forks[m] \/ forks'[m] = <<>>,
         \A x \in Used, k \in Nat : graph[x] \notin R /\ Before(x, k)' => Before(x, k)
  PROVE  Untouched(R)' /\ Single(R)'
<1> USE InterpreterTreeAssumption
<1>1. Used' = Used
  BY DEF Used
<1>2. Single(R)'
  BY <1>1 DEF Single
<1>3. ASSUME NEW g \in Graphs \ R, NEW k \in DOMAIN Body[g], Ahead(g, k)'
      PROVE  /\ forks'[Body[g][k]] = <<>>
             /\ \A x \in Used : graph[x] \notin Range(Branches[Body[g][k]])
  <2>1. Body[g] \in Seq(Nodes)
    OBVIOUS
  <2>2. k \in Nat /\ Body[g][k] \in Nodes
    BY <2>1
  <2>3. Ahead(g, k)
    BY <1>1, <1>3, <2>2 DEF Ahead
  <2>4. forks[Body[g][k]] = <<>>
    BY <2>3 DEF Untouched
  <2>5. \A x \in Used : graph[x] \notin Range(Branches[Body[g][k]])
    BY <2>3 DEF Untouched
  <2> QED BY <2>2, <2>4, <2>5
<1> QED BY <1>1, <1>2, <1>3 DEF Untouched

LEMMA UntouchedRun ==
  ASSUME NInv, OnePlace, NEW R, Untouched(R), Single(R), Counted, NEW i \in Interpreters,
         Start(i) \/ Stop(i) \/ Execute(i) \/ NodeReturns(i) \/ NodeRaises(i) \/ Cleanup(i) \/ BlockEnds(i)
  PROVE  Untouched(R)' /\ Single(R)'
<1> USE InterpreterTreeAssumption
<1>1. Step(i) /\ i \in Used /\ Active(i) /\ rounds' = rounds
  BY Mover DEF Step, user
<1>2. position[i] \in Nat /\ Current(i) \in Nodes /\ position \in [Interpreters -> Nat \ {0}]
  BY <1>1, Where DEF NInv, IInv, TypeOK
<1>3. UNCHANGED graph
  BY DEF Start, Stop, Execute, NodeReturns, NodeRaises, Cleanup, BlockEnds, tree
<1>4. \A m \in Nodes : forks'[m] = forks[m] \/ forks'[m] = <<>>
  BY <1>2 DEF Start, Stop, Execute, NodeReturns, NodeRaises, Cleanup, BlockEnds, Renew, NInv, IInv, TypeOK
<1>5. i = Top => rounds # 0
  BY <1>1 DEF Counted, Active
<1>6. \A x \in Interpreters \ {i} : at'[x] = at[x]
  BY DEF Start, Stop, Execute, NodeReturns, NodeRaises, Cleanup, BlockEnds, Advance, Panic, NInv, IInv, TypeOK
<1>7. \/ at'[i] = "rest"
      \/ at[i] = "called"
      \/ at[i] = "checkpoint" /\ at'[i] \in {"node", "checkpoint"} /\ position'[i] = position[i]
      \/ at[i] = "block" /\ at'[i] = "cleanup" /\ position'[i] = position[i]
      \/ at[i] \in {"node", "cleanup"} /\ at'[i] = "checkpoint" /\ position'[i] = position[i] + 1
  <2>1. CASE Start(i)
    BY <2>1 DEF Start
  <2>2. CASE Stop(i) \/ NodeRaises(i)
    BY <2>2 DEF Stop, NodeRaises, Panic, NInv, IInv, TypeOK
  <2>3. CASE Execute(i)
    BY <2>3 DEF Execute, NInv, IInv, TypeOK
  <2>4. CASE Cleanup(i)
    BY <2>4 DEF Cleanup, NInv, IInv, TypeOK
  <2>5. Last(i) \/ Moved(i)[i] = position[i] + 1
    BY <1>2 DEF Moved
  <2>6. CASE NodeReturns(i)
    BY <2>5, <2>6 DEF NodeReturns, Advance, NInv, IInv, TypeOK
  <2>7. CASE BlockEnds(i)
    <3>1. at[i] = "cleanup"
      BY <2>7 DEF BlockEnds
    <3>2. i \notin Kids(Current(i))
      BY <1>1, <3>1, KidsRest
    <3>3. at'[i] = "rest" \/ (~Last(i) /\ at'[i] = "checkpoint" /\ position' = Rewound(Current(i), Moved(i)))
      BY <2>7 DEF BlockEnds, Panic, Advance, NInv, IInv, TypeOK
    <3>4. Rewound(Current(i), Moved(i))[i] = Moved(i)[i]
      BY <3>2 DEF Rewound
    <3> QED BY <2>5, <3>1, <3>3, <3>4
  <2> QED BY <2>1, <2>2, <2>3, <2>4, <2>6, <2>7
<1>8. ASSUME NEW x \in Used, NEW k \in Nat, Before(x, k)' PROVE Before(x, k)
  <2>1. CASE x = i
    BY <1>1, <1>2, <1>5, <1>7, <1>8, <2>1 DEF Before
  <2>2. CASE x # i /\ Active(x)
    <3>1. at'[x] = at[x] /\ position'[x] = position[x]
      BY <1>1, <2>2, Others DEF Used
    <3> QED BY <1>1, <1>8, <3>1 DEF Before
  <2>3. CASE x # i /\ ~Active(x)
    <3>1. at'[x] = "rest" /\ at[x] = "rest"
      BY <1>6, <2>3 DEF Active, Used
    <3> QED BY <1>1, <1>8, <3>1 DEF Before
  <2> QED BY <2>1, <2>2, <2>3
<1> QED BY <1>3, <1>4, <1>8, NoneNew

(* A block of a composition that is not repeated is at its first call.     *)
LEMMA FirstCall ==
  ASSUME NInv, NEW R, Untouched(R), Single(R), NEW i \in Interpreters,
         at[i] = "checkpoint", graph[i] \notin R
  PROVE  /\ forks[Current(i)] = <<>>
         /\ \A x \in Used : graph[x] \notin Range(Branches[Current(i)])
<1> USE InterpreterTreeAssumption
<1>1. /\ i \in Used /\ graph[i] \in Graphs /\ position[i] \in DOMAIN Body[graph[i]]
      /\ Current(i) = Body[graph[i]][position[i]]
  BY Where DEF Active
<1>2. position[i] <= position[i]
  BY <1>1 DEF NInv, IInv, TypeOK
<1>3. Before(i, position[i])
  BY <1>2 DEF Before
<1>4. Ahead(graph[i], position[i])
  BY <1>1, <1>3 DEF Ahead, Single
<1>5. graph[i] \in Graphs \ R
  BY <1>1
<1>6. forks[Body[graph[i]][position[i]]] = <<>>
  BY <1>1, <1>4, <1>5 DEF Untouched
<1>7. \A x \in Used : graph[x] \notin Range(Branches[Body[graph[i]][position[i]]])
  BY <1>1, <1>4, <1>5 DEF Untouched
<1> QED BY <1>1, <1>6, <1>7

LEMMA UntouchedCall ==
  ASSUME NInv, OnePlace, NEW R, Tame(R), Untouched(R), Single(R), Counted, NEW i \in Interpreters, Call(i)
  PROVE  Untouched(R)' /\ Single(R)'
<1> USE InterpreterTreeAssumption
<1>1. PICK n \in Nodes : n = Current(i)
  BY CurrentIs DEF Call, NInv
<1> DEFINE K == Range(forks'[n])
<1>2. /\ Used \subseteq Used' /\ Used' \subseteq Used \cup K
      /\ \A x \in Used : graph'[x] = graph[x]
      /\ \A x \in K : x \in Interpreters /\ at[x] = "rest"
      /\ DOMAIN forks'[n] = DOMAIN Branches[n]
      /\ \A k \in DOMAIN Branches[n] : graph'[forks'[n][k]] = Branches[n][k]
      /\ \A m \in Nodes \ {n} : forks'[m] = forks[m]
  BY <1>1, ForksMade
<1>3. /\ at[i] = "checkpoint" /\ position' = position /\ Active(i) /\ IsBlock(n)
      /\ at' = [x \in Interpreters |-> CASE x = i -> "block" [] x \in K -> "called" [] OTHER -> at[x]]
      /\ rounds' = rounds
  BY <1>1 DEF Call, Active, user
<1>4. /\ i \in Used /\ graph[i] \in Graphs /\ position[i] \in DOMAIN Body[graph[i]]
      /\ n = Body[graph[i]][position[i]]
  BY <1>1, <1>3, Where
<1> DEFINE h == graph[i]
<1>5. i \notin K /\ at'[i] = "block" /\ \A x \in Interpreters \ {i} : x \notin K => at'[x] = at[x]
  BY <1>2, <1>3
<1>6. ASSUME NEW x \in K
      PROVE  graph'[x] \in Range(Branches[n])
  BY <1>2 DEF Range
<1>7. h \in R => Range(Branches[n]) \subseteq R
  <2>1. Range(Branches[n]) \subseteq Below(h)
    BY <1>4 DEF Below
  <2> QED BY <2>1 DEF Tame
<1>8. h \notin R => K \cap Used = {} /\ \A x \in Used : graph[x] \notin Range(Branches[n])
  <2> SUFFICES ASSUME h \notin R PROVE K \cap Used = {} /\ \A x \in Used : graph[x] \notin Range(Branches[n])
    OBVIOUS
  <2>1. \A x \in Used : graph[x] \notin Range(Branches[n])
    BY <1>1, <1>3, FirstCall
  <2>2. \A x \in K \cap Used : graph[x] \in Range(Branches[n])
    BY <1>2, <1>6
  <2> QED BY <2>1, <2>2
<1> HIDE DEF h
<1>9. ASSUME NEW x \in K, graph'[x] \notin R
      PROVE  x \notin Used /\ \A y \in Used : graph[y] # graph'[x]
  BY <1>6, <1>7, <1>8, <1>9
<1>10. ASSUME NEW x \in K, NEW y \in K, graph'[x] = graph'[y] PROVE x = y
  <2>1. PICK k \in DOMAIN Branches[n] : x = forks'[n][k]
    BY <1>2 DEF Range
  <2>2. PICK l \in DOMAIN Branches[n] : y = forks'[n][l]
    BY <1>2 DEF Range
  <2>3. Branches[n][k] = Branches[n][l]
    BY <1>2, <1>10, <2>1, <2>2
  <2> QED BY <2>1, <2>2, <2>3 DEF OnePlace
<1>11. Single(R)'
  <2> SUFFICES ASSUME NEW x \in Used', NEW y \in Used', graph'[x] = graph'[y], graph'[x] \notin R
               PROVE  x = y
    BY DEF Single
  <2>1. CASE x \in Used /\ y \in Used
    BY <1>2, <2>1 DEF Single
  <2>2. CASE x \in K /\ y \in K
    BY <1>10, <2>2
  <2>3. CASE x \in K /\ y \in Used
    BY <1>2, <1>9, <2>3
  <2>4. CASE x \in Used /\ y \in K
    BY <1>2, <1>9, <2>4
  <2> QED BY <1>2, <2>1, <2>2, <2>3, <2>4
<1>12. ASSUME NEW g \in Graphs \ R, NEW k \in DOMAIN Body[g], Ahead(g, k)'
       PROVE  /\ forks'[Body[g][k]] = <<>>
              /\ \A x \in Used' : graph'[x] \notin Range(Branches[Body[g][k]])
  <2>1. Body[g] \in Seq(Nodes)
    OBVIOUS
  <2>2. k \in Nat /\ Body[g][k] \in Nodes
    BY <2>1
  <2>3. Body[g][k] # n
    <3> SUFFICES ASSUME Body[g][k] = n PROVE FALSE
      OBVIOUS
    <3>1. g = graph[i] /\ k = position[i]
      BY <1>3, <1>4, SMTT(30) DEF OnePlace
    <3>2. Before(i, k)'
      BY <1>2, <1>4, <1>12, <3>1 DEF Ahead
    <3>3. position[i] < position[i]
      BY <1>3, <1>5, <3>1, <3>2 DEF Before
    <3> QED BY <2>2, <3>1, <3>3
  <2>4. Ahead(g, k)
    <3> SUFFICES ASSUME NEW x \in Used, graph[x] = g PROVE Before(x, k)
      BY DEF Ahead
    <3>1. Before(x, k)' /\ x \in Interpreters
      BY <1>2, <1>12 DEF Ahead, Used
    <3>2. x \notin K
      BY <1>2, <1>9
    <3>3. CASE x # i
      BY <1>3, <1>5, <3>1, <3>2, <3>3 DEF Before
    <3>4. CASE x = i
      <4>1. position[i] < k /\ position[i] \in Nat
        BY <1>3, <1>5, <3>1, <3>4 DEF Before, NInv, IInv, TypeOK
      <4>2. position[i] <= k
        BY <2>2, <4>1
      <4> QED BY <1>3, <3>4, <4>2 DEF Before
    <3> QED BY <3>3, <3>4
  <2>5. forks[Body[g][k]] = <<>>
    BY <2>4 DEF Untouched
  <2>6. \A x \in Used : graph[x] \notin Range(Branches[Body[g][k]])
    BY <2>4 DEF Untouched
  <2>7. \A x \in K : graph'[x] \notin Range(Branches[Body[g][k]])
    BY <1>6, <2>2, <2>3, OneNode
  <2> QED BY <1>2, <2>2, <2>3, <2>5, <2>6, <2>7
<1> QED BY <1>11, <1>12 DEF Untouched

LEMMA CountedStep ==
  ASSUME NInv, OnePlace, Counted, NEW i \in Interpreters, Step(i)
  PROVE  Counted'
<1> USE InterpreterTreeAssumption
<1>1. UNCHANGED <<asked, rounds>> /\ Active(i)
  BY Mover DEF user
<1> SUFFICES ASSUME rounds = 0 PROVE at'[Top] = "rest"
  BY <1>1 DEF Counted
<1>2. at[Top] = "rest" /\ Top # i /\ Top \in Interpreters
  BY <1>1 DEF Counted, Active, Top
<1>3. CASE ~Call(i)
  BY <1>2, <1>3 DEF Step, Start, Stop, Execute, NodeReturns, NodeRaises, Cleanup, BlockEnds,
                    Advance, Panic, NInv, IInv, TypeOK
<1>4. CASE Call(i)
  <2>1. PICK n \in Nodes : n = Current(i)
    BY <1>4, CurrentIs DEF Call, NInv
  <2>2. Top \notin Range(forks'[n])
    <3>1. /\ DOMAIN forks'[n] = DOMAIN Branches[n]
          /\ \A k \in DOMAIN Branches[n] : graph'[forks'[n][k]] = Branches[n][k]
      BY <1>4, <2>1, ForksMade
    <3>2. graph'[Top] = graph[Top]
      BY Mover DEF NInv, IInv, Placed
    <3>3. graph[Top] \notin Range(Branches[n])
      BY DEF OnePlace, NInv, Sorted
    <3> QED BY <3>1, <3>2, <3>3 DEF Range
  <2> QED BY <1>2, <1>4, <2>1, <2>2 DEF Call
<1> QED BY <1>3, <1>4

(* The forks of a block that is under way only become more.                *)
LEMMA NearStays ==
  ASSUME NInv, OnePlace, NEW i \in Interpreters, Step(i),
         NEW j \in Interpreters \ {i}, Active(j), NEW x \in Used, Near(x, Current(j))
  PROVE  Near(x, Current(j))'
<1>1. Current(j)' = Current(j) /\ Kids(Current(j)) \subseteq Kids(Current(j))'
  BY Others
<1>2. Kids(Current(j)) \subseteq Used
  BY Where DEF NInv, IInv, Placed
<1>3. \A y \in Used : graph'[y] = graph[y]
  BY Mover
<1> QED BY <1>1, <1>2, <1>3 DEF Near

LEMMA AskingStep ==
  ASSUME NInv, OnePlace, Listed, Asking, NEW i \in Interpreters, Step(i)
  PROVE  Asking'
<1> USE InterpreterTreeAssumption
<1> SUFFICES ASSUME asked' = 0, NEW c \in calls'
             PROVE  c.by \in Interpreters /\ at'[c.by] = "cleanup" /\ Near(c.of, Current(c.by))'
  BY DEF Asking
<1>1. asked = 0
  BY Mover DEF user
<1>2. CASE c \in calls /\ c.by # i
  <2>1. c.by \in Interpreters /\ at[c.by] = "cleanup" /\ Near(c.of, Current(c.by))
    BY <1>1, <1>2 DEF Asking
  <2>2. c.of \in Used /\ Active(c.by)
    BY <1>2, <2>1 DEF NInv, IInv, Placed, Active
  <2>3. at'[c.by] = at[c.by]
    BY <1>2, <2>1, <2>2, Others
  <2>4. Near(c.of, Current(c.by))'
    BY <1>2, <2>1, <2>2, NearStays
  <2> QED BY <2>1, <2>3, <2>4
<1>3. CASE c \in calls /\ c.by = i
  <2>1. at[i] = "cleanup"
    BY <1>1, <1>3 DEF Asking
  <2> QED BY <1>3, <2>1
      DEF Step, Start, Stop, Execute, NodeReturns, NodeRaises, Call, Cleanup, BlockEnds
<1>4. CASE c \notin calls
  <2>1. Cleanup(i)
    BY <1>4 DEF Step, Start, Stop, Execute, NodeReturns, NodeRaises, Call, BlockEnds
  <2>2. PICK n \in Nodes : n = Current(i)
    BY <2>1, CurrentIs DEF Cleanup, NInv
  <2>3. /\ UNCHANGED <<graph, position, forks>> /\ at'[i] = "cleanup"
        /\ c \in (IF n \in Batch THEN {Terminate(i, x, TRUE) : x \in Kids(n)}
                  ELSE {Terminate(i, y, n \in OneTime) :
                          y \in Kids(n) \cup UNION {subs[x] : x \in Kids(n)}})
    BY <1>4, <2>1, <2>2 DEF Cleanup, tree, NInv, IInv, TypeOK
  <2>4. c.by = i /\ Near(c.of, n)
    <3>1. CASE n \in Batch
      BY <2>3, <3>1 DEF Terminate, Near
    <3>2. CASE n \notin Batch
      <4>1. PICK y \in Kids(n) \cup UNION {subs[x] : x \in Kids(n)} : c = Terminate(i, y, n \in OneTime)
        BY <2>3, <3>2
      <4>2. c.by = i /\ c.of = y
        BY <4>1 DEF Terminate
      <4>3. CASE y \in Kids(n)
        BY <4>2, <4>3 DEF Near
      <4>4. CASE y \notin Kids(n)
        <5>1. PICK x \in Kids(n) : y \in subs[x]
          BY <4>4
        <5>2. x \in Interpreters
          BY DEF NInv, IInv, Placed, Used
        <5>3. y \in Interpreters
          BY <5>1, <5>2 DEF NInv, IInv, TypeOK
        <5>4. graph[y] \in Below(graph[x])
          BY <5>1, <5>2, <5>3 DEF Listed
        <5> QED BY <3>2, <4>2, <5>4 DEF Near
      <4> QED BY <4>3, <4>4
    <3> QED BY <3>1, <3>2
  <2>5. Near(c.of, n)' /\ Current(i)' = n
    BY <2>2, <2>3, <2>4 DEF Near, Kids, Current
  <2> QED BY <2>3, <2>4, <2>5
<1> QED BY <1>2, <1>3, <1>4

(* What a cleanup asks rests: what it may concern runs nowhere else.       *)
LEMMA NearRests ==
  ASSUME NInv, OnePlace, NEW j \in Interpreters, at[j] = "cleanup",
         NEW x \in Used, Near(x, Current(j))
  PROVE  at[x] = "rest" /\ x # Top
<1> USE InterpreterTreeAssumption
<1>1. Active(j) /\ Current(j) \in Nodes /\ \A y \in Kids(Current(j)) : at[y] = "rest"
  BY KidsRest, Where DEF Active
<1>2. CASE x \in Kids(Current(j))
  BY <1>1, <1>2, KidIs
<1>3. CASE x \notin Kids(Current(j))
  <2>1. PICK y \in Kids(Current(j)) : graph[x] \in Below(graph[y])
    BY <1>3 DEF Near
  <2>2. /\ y \in Used /\ y \in Interpreters /\ y # Top /\ IsBlock(Current(j))
        /\ graph[y] \in Range(Branches[Current(j)])
    BY <1>1, KidIs
  <2>3. graph[y] \in Graphs /\ Body[graph[y]] \in Seq(Nodes)
    BY <2>2 DEF NInv, IInv, TypeOK, Used
  <2>4. PICK l \in DOMAIN Body[graph[y]] : graph[x] \in Range(Branches[Body[graph[y]][l]])
    BY <2>1 DEF Below
  <2>5. Body[graph[y]][l] \in Nodes
    BY <2>3
  <2>6. x # Top /\ x \in Interpreters
    BY <2>4, <2>5 DEF OnePlace, NInv, Sorted, Used
  <2>7. CASE Active(x)
    <3>1. PICK k \in Interpreters : at[k] = "block" /\ x \in Kids(Current(k))
      BY <2>6, <2>7 DEF NInv, Hosted
    <3>2. Active(k)
      BY <3>1 DEF Active
    <3>3. /\ graph[k] \in Graphs /\ position[k] \in DOMAIN Body[graph[k]]
          /\ Current(k) = Body[graph[k]][position[k]] /\ Current(k) \in Nodes
      BY <3>2, Where
    <3>4. graph[x] \in Range(Branches[Current(k)]) /\ IsBlock(Current(k))
      BY <3>1, <3>3, KidIs
    <3>5. Current(k) = Body[graph[y]][l]
      BY <2>4, <2>5, <3>3, <3>4, OneNode
    <3>6. graph[k] = graph[y]
      <4>1. /\ IsBlock(Body[graph[k]][position[k]])
            /\ Body[graph[k]][position[k]] = Body[graph[y]][l]
        BY <3>3, <3>4, <3>5
      <4> QED BY <2>3, <2>4, <3>3, <4>1 DEF OnePlace
    <3>7. k # Top
      BY <1>1, <2>2, <3>6 DEF OnePlace, NInv, Sorted
    <3>8. PICK m \in Interpreters : at[m] = "block" /\ k \in Kids(Current(m))
      BY <3>2, <3>7 DEF NInv, Hosted
    <3>9. Active(m) /\ Current(m) \in Nodes
      BY <3>8, Where DEF Active
    <3>10. graph[k] \in Range(Branches[Current(m)])
      BY <3>8, <3>9, KidIs
    <3>11. Current(m) = Current(j)
      BY <1>1, <2>2, <3>6, <3>9, <3>10, OneNode
    <3> QED BY <1>1, <2>2, <3>8, <3>9, <3>11, OneBlock
  <2> QED BY <2>6, <2>7 DEF Active
<1> QED BY <1>2, <1>3

(* The requests that a step leaves were there and are remembered.          *)
LEMMA StoppingStep ==
  ASSUME NInv, OnePlace, NEW R \in SUBSET Graphs, Tame(R), Untouched(R), Single(R), Busy, Stopping(R),
         NEW i \in Interpreters, Step(i)
  PROVE  Stopping(R)'
<1> USE InterpreterTreeAssumption
<1> SUFFICES ASSUME asked' = 0, NEW x \in Interpreters, pending'[x]
             PROVE  /\ at'[x] = "rest" /\ x # Top /\ x \in Used'
                    /\ \A g \in R : \A k \in DOMAIN Body[g] :
                         Body[g][k] \notin OneTime /\ x \in Kids(Body[g][k])' => Renewing(Body[g][k])'
  BY DEF Stopping
<1>1. asked = 0 /\ i \in Used /\ Active(i) /\ Used \subseteq Used'
  BY Mover DEF user
<1>2. PICK n \in Nodes : n = Current(i)
  BY <1>1, Where
<1>3. pending[x]
  BY DEF Step, Start, Stop, Execute, NodeReturns, NodeRaises, Call, Cleanup, BlockEnds, Renew, NInv, IInv, TypeOK
<1>4. /\ at[x] = "rest" /\ x # Top /\ x \in Used
      /\ \A g \in R : \A k \in DOMAIN Body[g] :
           Body[g][k] \notin OneTime /\ x \in Kids(Body[g][k]) => Renewing(Body[g][k])
  BY <1>1, <1>3 DEF Stopping
<1>5. x # i
  BY <1>1, <1>4 DEF Active
<1>6. ASSUME NEW m, Renewing(m), ~(BlockEnds(i) /\ m = n) PROVE Renewing(m)'
  <2>1. PICK j \in Interpreters : at[j] = "cleanup" /\ Current(j) = m
    BY <1>6 DEF Renewing
  <2>2. j # i
    BY <1>2, <1>6, <2>1 DEF Step, Start, Stop, Execute, NodeReturns, NodeRaises, Call, Cleanup
  <2>3. at'[j] = "cleanup" /\ Current(j)' = m
    BY <2>1, <2>2, Others DEF Active
  <2> QED BY <2>3 DEF Renewing
<1>7. CASE ~Call(i)
  <2>1. at'[x] = "rest"
    BY <1>4, <1>5, <1>7 DEF Step, Start, Stop, Execute, NodeReturns, NodeRaises, Cleanup, BlockEnds,
                            Advance, Panic, NInv, IInv, TypeOK
  <2> SUFFICES ASSUME NEW g \in R, NEW k \in DOMAIN Body[g],
                      Body[g][k] \notin OneTime, x \in Kids(Body[g][k])'
               PROVE  Renewing(Body[g][k])'
    BY <1>1, <1>4, <2>1
  <2>2. Body[g][k] \in Nodes
    <3>1. Body[g] \in Seq(Nodes)
      OBVIOUS
    <3> QED BY <3>1
  <2>3. forks'[Body[g][k]] = forks[Body[g][k]] \/ forks'[Body[g][k]] = <<>>
    BY <1>7, <2>2 DEF Step, Start, Stop, Execute, NodeReturns, NodeRaises, Cleanup, BlockEnds, Renew,
                      NInv, IInv, TypeOK
  <2>4. x \in Kids(Body[g][k])
    <3>1. Range(<<>>) = {}
      BY DEF Range
    <3> QED BY <2>3, <3>1 DEF Kids
  <2>5. Renewing(Body[g][k])
    BY <1>4, <2>4
  <2>6. CASE BlockEnds(i) /\ Body[g][k] = n
    <3>1. n \notin Batch
      BY <2>6 DEF Tame
    <3>2. pending[x] /\ (x \notin Kids(n) \/ n \in OneTime \cup Batch)
      BY <1>2, <2>6 DEF BlockEnds, Renew
    <3> QED BY <2>4, <2>6, <3>1, <3>2
  <2> QED BY <1>6, <2>5, <2>6
<1>8. CASE Call(i)
  <2> DEFINE K == Range(forks'[n])
  <2>1. at[i] = "checkpoint" /\ IsBlock(n) /\ PreCheck(i, n)
    BY <1>2, <1>8 DEF Call
  <2>2. x \notin K
    <3> SUFFICES ASSUME x \in K PROVE FALSE
      OBVIOUS
    <3>1. CASE Fork(i, n)
      <4>1. K \subseteq Interpreters \ Used
        BY <3>1 DEF Fork, NInv, IInv, TypeOK
      <4> QED BY <1>4, <4>1
    <3>2. CASE UNCHANGED forks /\ forks[n] # <<>>
      <4>1. x \in Kids(n)
        BY <3>2 DEF Kids
      <4>2. graph[i] \in R
        BY <1>2, <2>1, <3>2, FirstCall
      <4>3. position[i] \in DOMAIN Body[graph[i]] /\ n = Body[graph[i]][position[i]]
        BY <1>1, <1>2, Where
      <4>4. CASE n \in OneTime
        <5>1. PICK j \in Interpreters : InBlock(j) /\ Current(j) = n
          BY <3>2, <4>4 DEF Busy
        <5> QED BY <1>1, <1>2, <2>1, <5>1, OneBlock DEF InBlock, Active
      <4>5. CASE n \notin OneTime
        <5>1. Renewing(n)
          BY <1>4, <4>1, <4>2, <4>3, <4>5
        <5>2. PICK j \in Interpreters : at[j] = "cleanup" /\ Current(j) = n
          BY <5>1 DEF Renewing
        <5> QED BY <1>1, <1>2, <2>1, <5>2, OneBlock DEF Active
      <4> QED BY <4>4, <4>5
    <3> QED BY <2>1, <3>1, <3>2 DEF PreCheck
  <2>3. at'[x] = "rest"
    BY <1>2, <1>4, <1>5, <1>8, <2>2 DEF Call
  <2>4. \A m \in Nodes \ {n} : forks'[m] = forks[m]
    BY <1>2, <1>8, ForksMade
  <2> SUFFICES ASSUME NEW g \in R, NEW k \in DOMAIN Body[g],
                      Body[g][k] \notin OneTime, x \in Kids(Body[g][k])'
               PROVE  Renewing(Body[g][k])'
    BY <1>1, <1>4, <2>3
  <2>5. Body[g][k] \in Nodes
    <3>1. Body[g] \in Seq(Nodes)
      OBVIOUS
    <3> QED BY <3>1
  <2>6. Body[g][k] # n
    BY <2>2 DEF Kids
  <2>7. x \in Kids(Body[g][k])
    BY <2>4, <2>5, <2>6 DEF Kids
  <2>8. Renewing(Body[g][k])
    BY <1>4, <2>7
  <2> QED BY <1>6, <2>6, <2>8
<1> QED BY <1>7, <1>8

(* A cleanup asks what rests, and only what the block that may run it      *)
(* again is about to renew.                                                *)
LEMMA StoppingRequest ==
  ASSUME NInv, OnePlace, NEW R \in SUBSET Graphs, Tame(R), Asking, Stopping(R), NEW c \in calls, Request(c)
  PROVE  Stopping(R)'
<1> USE InterpreterTreeAssumption
<1>1. UNCHANGED <<graph, position, at, forks, asked>> /\ pending' = [pending EXCEPT ![c.of] = TRUE]
  BY DEF Request, user
<1>2. Used' = Used /\ \A m : Kids(m)' = Kids(m) /\ Renewing(m)' = Renewing(m)
  BY <1>1 DEF Used, Kids, Renewing, Current
<1> SUFFICES ASSUME asked = 0, NEW x \in Interpreters, pending'[x]
             PROVE  /\ at[x] = "rest" /\ x # Top /\ x \in Used
                    /\ \A g \in R : \A k \in DOMAIN Body[g] :
                         Body[g][k] \notin OneTime /\ x \in Kids(Body[g][k]) => Renewing(Body[g][k])
  BY <1>1, <1>2 DEF Stopping
<1>3. CASE x # c.of
  BY <1>1, <1>3 DEF Stopping, NInv, IInv, TypeOK
<1>4. CASE x = c.of
  <2> DEFINE j == c.by
             n == Current(j)
  <2>1. j \in Interpreters /\ at[j] = "cleanup" /\ Near(x, n) /\ x \in Used
    BY <1>4 DEF Asking, NInv, IInv, Placed
  <2>2. at[x] = "rest" /\ x # Top
    BY <2>1, NearRests
  <2>3. /\ n \in Nodes /\ graph[j] \in Graphs /\ position[j] \in DOMAIN Body[graph[j]]
        /\ n = Body[graph[j]][position[j]] /\ Renewing(n)
    BY <2>1, Where DEF Active, Renewing
  <2> SUFFICES ASSUME NEW g \in R, NEW k \in DOMAIN Body[g],
                      Body[g][k] \notin OneTime, x \in Kids(Body[g][k])
               PROVE  Renewing(Body[g][k])
    BY <2>1, <2>2
  <2> HIDE DEF j, n
  <2> DEFINE m == Body[g][k]
  <2>4. m \in Nodes
    <3>1. Body[g] \in Seq(Nodes)
      OBVIOUS
    <3> QED BY <3>1
  <2>5. graph[x] \in Range(Branches[m]) /\ IsBlock(m)
    BY <2>4, KidIs
  <2>6. CASE x \in Kids(n)
    <3>1. graph[x] \in Range(Branches[n])
      BY <2>3, <2>6, KidIs
    <3>2. m = n
      BY <2>3, <2>4, <2>5, <3>1, OneNode
    <3> QED BY <2>3, <3>2
  <2>7. CASE x \notin Kids(n)
    <3>1. PICK y \in Kids(n) : n \notin Batch /\ graph[x] \in Below(graph[y])
      BY <2>1, <2>7 DEF Near
    <3>2. y \in Used /\ graph[y] \in Range(Branches[n])
      BY <2>3, KidIs
    <3>3. graph[y] \in Graphs /\ Body[graph[y]] \in Seq(Nodes)
      BY <3>2 DEF NInv, IInv, TypeOK, Used
    <3>4. PICK l \in DOMAIN Body[graph[y]] : graph[x] \in Range(Branches[Body[graph[y]][l]])
      BY <3>1 DEF Below
    <3>5. Body[graph[y]][l] \in Nodes
      BY <3>3
    <3>6. Body[graph[y]][l] = m
      BY <2>4, <2>5, <3>4, <3>5, OneNode
    <3>7. g = graph[y] /\ k = l
      BY <2>5, <3>3, <3>6 DEF OnePlace
    <3> QED BY <2>3, <2>5, <3>1, <3>2, <3>7 DEF Tame
  <2> QED BY <2>6, <2>7
<1> QED BY <1>3, <1>4

-----------------------------------------------------------------------------
LEMMA InitiallyS ==
  ASSUME Init, OnePlace, NEW R
  PROVE  SInv(R)
<1> USE InterpreterTreeAssumption
<1>1. NInv
  BY InitiallyN
<1>2. Used = {Top}
  BY DEF Init, Used, Top
<1>3. Busy /\ Listed /\ Single(R) /\ Counted /\ Asking /\ Stopping(R)
  BY <1>2 DEF Init, Busy, Listed, Single, Counted, Asking, Stopping, Top
<1>4. Untouched(R)
  <2> SUFFICES ASSUME NEW g \in Graphs \ R, NEW k \in DOMAIN Body[g], Ahead(g, k)
               PROVE  /\ forks[Body[g][k]] = <<>>
                      /\ graph[Top] \notin Range(Branches[Body[g][k]])
    BY <1>2 DEF Untouched
  <2>1. Body[g] \in Seq(Nodes)
    OBVIOUS
  <2>2. Body[g][k] \in Nodes
    BY <2>1
  <2>3. graph[Top] \notin Range(Branches[Body[g][k]])
    BY <1>1, <2>2 DEF OnePlace, NInv, Sorted
  <2> QED BY <2>2, <2>3 DEF Init
<1> QED BY <1>1, <1>3, <1>4 DEF SInv

(* A step of an interpreter.                                               *)
LEMMA StepS ==
  ASSUME NEW R \in SUBSET Graphs, SInv(R), OnePlace, Tame(R), FailFast = {},
         NEW i \in Interpreters, Step(i)
  PROVE  SInv(R)'
<1>1. NInv'
  BY StepsN DEF SInv, Next
<1>2. Untouched(R)' /\ Single(R)'
  BY UntouchedRun, UntouchedCall DEF SInv, Step
<1>3. Busy' /\ Listed' /\ Counted' /\ Asking'
  BY BusyStep, ListedStep, CountedStep, AskingStep DEF SInv
<1>4. Stopping(R)'
  BY StoppingStep DEF SInv
<1> QED BY <1>1, <1>2, <1>3, <1>4 DEF SInv

(* A step that leaves the runs, the forks and the compositions alone.      *)
LEMMA Resting ==
  ASSUME NEW R, NInv, Busy, Listed, Untouched(R), Single(R), Counted,
         UNCHANGED <<graph, position, at, forks, rounds>>, asked' \in Nat,
         \A p \in Interpreters : subs'[p] \subseteq subs[p]
  PROVE  Busy' /\ Listed' /\ Untouched(R)' /\ Single(R)' /\ Counted'
<1>1. Used' = Used /\ \A j : Current(j)' = Current(j) /\ InBlock(j)' = InBlock(j)
  BY DEF Used, Current, InBlock
<1>2. Busy' /\ Counted'
  BY <1>1 DEF Busy, Counted
<1>3. Listed'
  BY <1>1 DEF Listed
<1>4. Untouched(R)' /\ Single(R)'
  BY NoneNew DEF Before
<1> QED BY <1>2, <1>3, <1>4

LEMMA ContinueS ==
  ASSUME NEW R \in SUBSET Graphs, SInv(R), OnePlace, Tame(R), FailFast = {},
         NEW c \in calls, Request(c) \/ Remove(c)
  PROVE  SInv(R)'
<1>1. NInv'
  BY RequestN, RemoveN DEF SInv
<1>2. UNCHANGED <<graph, position, at, forks, asked, rounds>> /\ asked' \in Nat
  BY DEF Request, Remove, user, SInv, Counted
<1>3. \A p \in Interpreters : subs'[p] \subseteq subs[p]
  BY DEF Request, Remove
<1>4. Busy' /\ Listed' /\ Untouched(R)' /\ Single(R)' /\ Counted'
  BY <1>2, <1>3, Resting DEF SInv
<1>5. \A j, x : Current(j)' = Current(j) /\ Near(x, Current(j))' = Near(x, Current(j))
  BY <1>2 DEF Current, Near, Kids
<1>6. \A d \in calls' : \E e \in calls : d.by = e.by /\ d.of = e.of
  <2>1. CASE Request(c)
    <3> DEFINE waiting == [c EXCEPT !.phase = "wait"]
               removing == [c EXCEPT !.phase = "remove"]
    <3>1. waiting.by = c.by /\ waiting.of = c.of /\ removing.by = c.by /\ removing.of = c.of
      BY DEF SInv, NInv, IInv, TypeOK
    <3>2. calls' \subseteq calls \cup {waiting, removing}
      BY <2>1 DEF Request
    <3> HIDE DEF waiting, removing
    <3> QED BY <3>1, <3>2
  <2>2. CASE Remove(c)
    BY <2>2 DEF Remove
  <2> QED BY <2>1, <2>2
<1>7. Asking'
  BY <1>2, <1>5, <1>6 DEF SInv, Asking
<1>8. Stopping(R)'
  <2>1. CASE Request(c)
    BY <2>1, StoppingRequest DEF SInv
  <2>2. CASE Remove(c)
    <3>1. UNCHANGED <<pending, graph, position, at, forks, asked>>
      BY <2>2 DEF Remove, user
    <3> QED BY <3>1 DEF SInv, Stopping, Renewing, Kids, Current, Used
  <2> QED BY <2>1, <2>2
<1> QED BY <1>1, <1>4, <1>7, <1>8 DEF SInv

(* A run of the top interpreter, which a composition that is not repeated  *)
(* has only one of.                                                        *)
LEMMA RunS ==
  ASSUME NEW R \in SUBSET Graphs, SInv(R), OnePlace, Tame(R), FailFast = {}, Run
  PROVE  SInv(R)'
<1> USE InterpreterTreeAssumption
<1>1. NInv'
  BY RunTopN DEF SInv
<1>2. /\ UNCHANGED <<tree, position, pending, forks, calls, asked>>
      /\ at[Top] = "rest" /\ rounds < Rounds[graph[Top]] /\ rounds' = rounds + 1
  BY DEF Run
<1>3. at'[Top] = "checkpoint" /\ \A x \in Interpreters \ {Top} : at'[x] = at[x]
  BY DEF Run, SInv, NInv, IInv, TypeOK, Top
<1>4. /\ Used' = Used /\ \A n : Kids(n)' = Kids(n) /\ \A j : Current(j)' = Current(j)
      /\ \A x, n : Near(x, n)' = Near(x, n)
  BY <1>2 DEF Used, Kids, Current, Near, tree
<1>5. ASSUME NEW j \in Interpreters, at[j] # "rest" PROVE at'[j] = at[j]
  BY <1>2, <1>3, <1>5
<1>6. Busy' /\ Asking'
  <2>1. \A j \in Interpreters : InBlock(j) => InBlock(j)'
    BY <1>5 DEF InBlock
  <2>2. Busy'
    BY <1>2, <1>4, <2>1 DEF SInv, Busy
  <2>3. ASSUME asked' = 0, NEW c \in calls
        PROVE  c.by \in Interpreters /\ at'[c.by] = "cleanup" /\ Near(c.of, Current(c.by))'
    <3>1. c.by \in Interpreters /\ at[c.by] = "cleanup" /\ Near(c.of, Current(c.by))
      BY <1>2, <2>3 DEF SInv, Asking
    <3>2. Near(c.of, Current(c.by))'
      BY <1>2, <1>4, <3>1 DEF Near, tree
    <3> QED BY <1>5, <3>1, <3>2
  <2> QED BY <1>2, <2>2, <2>3 DEF Asking
<1>7. Listed'
  BY <1>2, <1>4 DEF SInv, Listed, tree
<1>8. Counted'
  BY <1>2 DEF SInv, Counted
<1>9. Untouched(R)' /\ Single(R)'
  <2>1. ASSUME NEW x \in Used, NEW k \in Nat, graph[x] \notin R, Before(x, k)' PROVE Before(x, k)
    <3>1. CASE x # Top
      BY <1>2, <1>3, <2>1, <3>1 DEF Before, Used
    <3>2. CASE x = Top
      <4>1. graph[Top] \in Roots /\ Rounds[graph[Top]] \in Nat /\ rounds \in Nat
        BY DEF SInv, NInv, Sorted, Counted
      <4>2. Rounds[graph[Top]] <= 1
        BY <2>1, <3>2, <4>1 DEF Tame
      <4>3. rounds = 0
        BY <1>2, <4>1, <4>2
      <4> QED BY <1>2, <3>2, <4>3 DEF Before
    <3> QED BY <3>1, <3>2
  <2> QED BY <1>2, <2>1, NoneNew DEF SInv, tree
<1>10. Stopping(R)'
  <2>1. \A m : Renewing(m) => Renewing(m)'
    BY <1>4, <1>5 DEF Renewing
  <2> QED BY <1>2, <1>3, <1>4, <2>1 DEF SInv, Stopping
<1> QED BY <1>1, <1>6, <1>7, <1>8, <1>9, <1>10 DEF SInv

LEMMA StepsS ==
  ASSUME NEW R \in SUBSET Graphs, SInv(R), OnePlace, Tame(R), FailFast = {}, [Next]_vars
  PROVE  SInv(R)'
<1>1. ASSUME NEW i \in Interpreters, Step(i) PROVE SInv(R)'
  BY <1>1, StepS
<1>2. ASSUME NEW by, Continue(by) PROVE SInv(R)'
  BY <1>2, ContinueS DEF Continue
<1>3. CASE Run
  BY <1>3, RunS
<1>4. ASSUME NEW eol \in BOOLEAN, TerminateAll(eol) PROVE SInv(R)'
  <2>1. NInv'
    BY <1>4, TerminateAllN DEF SInv
  <2>2. UNCHANGED <<tree, position, at, forks, rounds>> /\ asked' = asked + 1 /\ asked' \in Nat /\ asked' # 0
    BY <1>4 DEF TerminateAll, SInv, Counted
  <2>3. Busy' /\ Listed' /\ Untouched(R)' /\ Single(R)' /\ Counted'
    BY <2>2, Resting DEF SInv, tree
  <2> QED BY <2>1, <2>2, <2>3 DEF SInv, Asking, Stopping
<1>5. CASE UNCHANGED vars
  <2>1. UNCHANGED <<tree, position, pending, at, forks, calls, asked, rounds>>
    BY <1>5 DEF vars, user
  <2>2. NInv'
    BY StepsN DEF SInv
  <2>3. Busy' /\ Listed' /\ Untouched(R)' /\ Single(R)' /\ Counted'
    BY <2>1, Resting DEF SInv, tree, Counted
  <2>4. Asking' /\ Stopping(R)'
    BY <2>1 DEF SInv, Asking, Stopping, Near, Renewing, Kids, Current, Used, tree
  <2> QED BY <2>2, <2>3, <2>4 DEF SInv
<1> QED BY <1>1, <1>2, <1>3, <1>4, <1>5 DEF Next

(* A stop request that a cleanup makes reaches no later run, so that none  *)
(* skips its sub-workflow unasked (FuncBlock, BatchRun, reset), provided   *)
(* that the compositions which may run more than once hold no batch and,   *)
(* below a function block, no reusable one.                                *)
THEOREM OnlyWanted ==
  ASSUME NEW R \in SUBSET Graphs, OnePlace, Tame(R), FailFast = {}
  PROVE  Spec => []StopsOnlyAsked
<1>1. Init => SInv(R)
  BY InitiallyS
<1>2. SInv(R) /\ [Next]_vars => SInv(R)'
  BY StepsS
<1>3. SInv(R) => StopsOnlyAsked
  <2> SUFFICES ASSUME SInv(R), NEW i \in Interpreters, at[i] \in {"called", "checkpoint"}, pending[i]
               PROVE  asked > 0
    BY DEF StopsOnlyAsked
  <2>1. asked # 0
    BY DEF SInv, Stopping
  <2> QED BY <2>1 DEF SInv, Counted
<1> QED BY <1>1, <1>2, <1>3, PTL DEF Spec
=============================================================================
