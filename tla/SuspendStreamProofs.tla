------------------------- MODULE SuspendStreamProofs -------------------------
(***************************************************************************)
(* Proofs about SuspendStream, for any number of producers, operators,     *)
(* resumers and requests, on one event loop or several.  The resume signal *)
(* needs no argument about the lock: only its creator replaces or forgets  *)
(* it, and whoever resolves it resolves the futures of all that joined.    *)
(***************************************************************************)
EXTENDS SuspendStream, TLAPS

(* TypeOK, in four parts. *)
SignalTypes ==
  /\ suspend \in 0 .. MaxRequests /\ tags \subseteq Tags
  /\ ack \in [1 .. MaxRequests -> Futures]
  /\ resume \in Producers \cup {NoOne}
  /\ fut \in [Producers -> Futures] /\ leader \in [Producers -> Producers \cup {NoOne}]

InputTypes ==
  /\ at \in [Producers -> Tags \cup {NoTag}]
  /\ want \in [Operators -> SUBSET Tags] /\ asked \in [Operators -> 0 .. MaxRequests]

LockTypes ==
  /\ lock \in Tasks \cup {NoOne} /\ queue \in Seq(Tasks)
  /\ pc \in [Tasks -> Locs]

HeardTypes == unheard \subseteq Tasks

(* The producer whose signal is in force is still at its checkpoint, and   *)
(* has joined nobody; who waits waits with somebody, and who leaves has    *)
(* been woken.                                                             *)
AtCheckpoint(p) == pc[p] \in {"settle", "wait", "leave"}

Created ==
  /\ resume # NoOne => leader[resume] = resume /\ AtCheckpoint(resume)
  /\ \A p \in Producers : pc[p] \in {"settle", "wait"} => leader[p] # NoOne
  /\ \A p \in Producers : pc[p] = "leave" => fut[p] # "pending"

Core == SignalTypes /\ LockTypes /\ Created /\ SharedResume
IInv == Core /\ InputTypes

-----------------------------------------------------------------------------
LEMMA TypesAre == TypeOK <=> SignalTypes /\ InputTypes /\ LockTypes /\ HeardTypes
BY DEF TypeOK, SignalTypes, InputTypes, LockTypes, HeardTypes

LEMMA Initially == Init => IInv
<1> SUFFICES ASSUME Init PROVE IInv
  OBVIOUS
<1> USE SuspendStreamAssumption DEF Init
<1>1. SignalTypes /\ InputTypes /\ LockTypes
  BY DEF SignalTypes, InputTypes, LockTypes, Futures, Locs, Tasks, Resuming
<1>2. Created /\ SharedResume
  BY DEF Created, SharedResume, Parked, Tasks, Resuming
<1> QED BY <1>1, <1>2 DEF IInv, Core

(* Taking and leaving the lock.                                            *)
LEMMA HeadAndTail ==
  ASSUME NEW S, NEW s \in Seq(S), s # <<>>
  PROVE  Head(s) \in S /\ Tail(s) \in Seq(S)
OBVIOUS

LEMMA GoTypes ==
  ASSUME LockTypes, NEW t \in Tasks, NEW loc \in Locs, Go(t, loc)
  PROVE  /\ pc' \in [Tasks -> Locs]
         /\ \A u \in Tasks : pc'[u] = IF u = t THEN loc ELSE pc[u]
BY DEF LockTypes, Go

LEMMA ReleaseTypes ==
  ASSUME LockTypes, Release
  PROVE  lock' \in Tasks \cup {NoOne} /\ queue' \in Seq(Tasks)
<1>1. CASE queue = <<>>
  BY <1>1 DEF Release, LockTypes
<1>2. CASE queue # <<>>
  <2>1. queue \in Seq(Tasks)
    BY DEF LockTypes
  <2>2. Head(queue) \in Tasks /\ Tail(queue) \in Seq(Tasks)
    BY <1>2, <2>1, HeadAndTail
  <2>3. lock' = Head(queue) /\ queue' = Tail(queue)
    BY <1>2 DEF Release
  <2> QED BY <2>2, <2>3
<1> QED BY <1>1, <1>2

LEMMA QueuesTypes ==
  ASSUME LockTypes, NEW t \in Tasks, NEW loc \in Locs, Queues(t, loc)
  PROVE  LockTypes'
<1>1. queue \in Seq(Tasks) /\ lock \in Tasks \cup {NoOne}
  BY DEF LockTypes
<1>2. Append(queue, t) \in Seq(Tasks)
  BY <1>1
<1>3. pc' \in [Tasks -> Locs]
  BY GoTypes DEF Queues
<1> QED BY <1>1, <1>2, <1>3 DEF Queues, LockTypes

-----------------------------------------------------------------------------
(* Steps that touch neither the signal nor the futures: a producer must    *)
(* not come to the checkpoint by one, nor leave it with its signal in      *)
(* force.                                                                  *)
Stays(p, loc) ==
  /\ loc \in {"settle", "wait"} => pc[p] \in {"settle", "wait"}
  /\ loc = "leave" => AtCheckpoint(p) /\ fut[p] # "pending"
  /\ loc \notin {"settle", "wait", "leave"} => resume # p

LEMMA SameSignal ==
  ASSUME Core, NEW t \in Tasks, NEW loc \in Locs, Go(t, loc),
         UNCHANGED <<resume, fut, leader>>, t \in Producers => Stays(t, loc)
  PROVE  Created' /\ SharedResume'
<1> USE SuspendStreamAssumption DEF Core, Tasks, Resuming
<1>1. /\ \A p \in Producers : pc'[p] = IF p = t THEN loc ELSE pc[p]
      /\ resume' = resume /\ fut' = fut /\ leader' = leader /\ resume \in Producers \cup {NoOne}
  BY GoTypes DEF SignalTypes
<1>2. Created'
  BY <1>1 DEF Created, Stays, AtCheckpoint
<1>3. SharedResume'
  <2> SUFFICES ASSUME NEW p \in Producers, Parked(p)'
               PROVE  (leader[p] = resume /\ fut[resume] = "pending")'
    BY DEF SharedResume
  <2>1. Parked(p)
    BY <1>1 DEF Parked, Stays
  <2> QED BY <2>1, <1>1 DEF SharedResume
<1> QED BY <1>2, <1>3

LEMMA QueuesKeeps ==
  ASSUME Core, NEW t \in Tasks, NEW loc \in Locs, Queues(t, loc), t \in Producers => Stays(t, loc)
  PROVE  Core'
<1>1. LockTypes' /\ SignalTypes'
  BY QueuesTypes DEF Core, Queues, signals, SignalTypes
<1>2. Created' /\ SharedResume'
  BY SameSignal DEF Queues, signals
<1> QED BY <1>1, <1>2 DEF Core

LEMMA ReleaseKeeps ==
  ASSUME Core, NEW t \in Tasks, NEW loc \in Locs, Release, Go(t, loc),
         SignalTypes', UNCHANGED <<resume, fut, leader>>, t \in Producers => Stays(t, loc)
  PROVE  Core'
<1>1. LockTypes'
  BY ReleaseTypes, GoTypes DEF Core, LockTypes
<1>2. Created' /\ SharedResume'
  BY SameSignal
<1> QED BY <1>1, <1>2 DEF Core

-----------------------------------------------------------------------------
(* Steps that change the signal or the futures.                            *)

LEMMA SignalOf ==   \* a producer that is not at its checkpoint has no signal
  ASSUME Core, NEW p \in Producers, ~AtCheckpoint(p)
  PROVE  resume # p
BY SuspendStreamAssumption DEF Core, Created, SignalTypes, Tasks

LEMMA ParkKeeps ==
  ASSUME Core, NEW p \in Producers, ~AtCheckpoint(p), suspend # 0, Park(p)
  PROVE  Core'
<1> USE SuspendStreamAssumption DEF Tasks, Resuming
<1>0. /\ resume # p /\ p # NoOne /\ suspend \in 1 .. MaxRequests
      /\ SignalTypes /\ LockTypes /\ Created /\ SharedResume
      /\ fut' = [fut EXCEPT ![p] = "pending"] /\ suspend' = suspend /\ tags' = tags
  BY SignalOf DEF Core, SignalTypes, Park
<1>1. \A q \in Producers : pc'[q] = IF q = p THEN "settle" ELSE pc[q]
  BY <1>0, GoTypes DEF Park, Locs
<1>2. \A q \in Producers : fut'[q] = IF q = p THEN "pending" ELSE fut[q]
  BY <1>0 DEF SignalTypes
<1>3. LockTypes'
  BY <1>0, GoTypes DEF Park, Locs, LockTypes
<1>4. CASE Shared
  <2>1. /\ leader' = [leader EXCEPT ![p] = resume] /\ ack' = ack /\ resume' = resume
        /\ resume \in Producers
    BY <1>0, <1>4 DEF Park, Shared, SignalTypes
  <2>2. SignalTypes'
    BY <1>0, <2>1 DEF SignalTypes, Futures
  <2>3. \A q \in Producers : leader'[q] = IF q = p THEN resume ELSE leader[q]
    BY <1>0, <2>1 DEF SignalTypes
  <2>4. Created'
    BY <1>0, <1>1, <1>2, <2>1, <2>3 DEF Created, AtCheckpoint
  <2>5. SharedResume'
    BY <1>0, <1>1, <1>2, <1>4, <2>1, <2>3 DEF SharedResume, Parked, Shared
  <2> QED BY <1>3, <2>2, <2>4, <2>5 DEF Core
<1>5. CASE ~Shared
  <2>1. /\ leader' = [leader EXCEPT ![p] = p] /\ resume' = p
        /\ ack' = IF ack[suspend] = "pending" THEN [ack EXCEPT ![suspend] = "set"] ELSE ack
    BY <1>0, <1>5 DEF Park
  <2>2. SignalTypes'
    BY <1>0, <2>1 DEF SignalTypes, Futures
  <2>3. \A q \in Producers : leader'[q] = IF q = p THEN p ELSE leader[q]
    BY <1>0, <2>1 DEF SignalTypes
  <2>4. Created'
    BY <1>0, <1>1, <1>2, <2>1, <2>3 DEF Created, AtCheckpoint
  <2>5. \A q \in Producers : ~Parked(q)
    BY <1>0, <1>5 DEF SharedResume, Shared, Created, Parked
  <2>6. SharedResume'
    BY <1>0, <1>1, <1>2, <2>1, <2>3, <2>5 DEF SharedResume, Parked
  <2> QED BY <1>3, <2>2, <2>4, <2>6 DEF Core
<1> QED BY <1>4, <1>5

LEMMA ForgetKeeps ==
  ASSUME Core, NEW p \in Producers, AtCheckpoint(p), fut[p] # "pending", Forget(p)
  PROVE  Core'
<1> USE SuspendStreamAssumption DEF Tasks, Resuming
<1>0. /\ p # NoOne /\ SignalTypes /\ LockTypes /\ Created /\ SharedResume
      /\ resume' = (IF resume = p THEN NoOne ELSE resume)
      /\ fut' = [fut EXCEPT ![p] = "none"] /\ leader' = [leader EXCEPT ![p] = NoOne]
      /\ suspend' = suspend /\ tags' = tags /\ ack' = ack
  BY DEF Core, Forget
<1>1. \A q \in Producers : pc'[q] = IF q = p THEN "run" ELSE pc[q]
  BY <1>0, GoTypes DEF Forget, Locs
<1>2. \A q \in Producers : /\ fut'[q] = (IF q = p THEN "none" ELSE fut[q])
                           /\ leader'[q] = (IF q = p THEN NoOne ELSE leader[q])
  BY <1>0 DEF SignalTypes
<1>3. LockTypes'
  BY <1>0, GoTypes, ReleaseTypes DEF Forget, Locs, LockTypes
<1>4. SignalTypes'
  BY <1>0 DEF SignalTypes, Futures
<1>5. Created'
  BY <1>0, <1>1, <1>2, <1>4 DEF Created, AtCheckpoint, SignalTypes
<1>6. SharedResume'
  BY <1>0, <1>1, <1>2 DEF SharedResume, Parked, Created, SignalTypes
<1> QED BY <1>3, <1>4, <1>5, <1>6 DEF Core

(* One that had joined goes on: its signal is not in force.                *)
LEMMA JoinedKeeps ==
  ASSUME Core, NEW p \in Producers, pc[p] = "wait", leader[p] # p, Go(p, "run"),
         fut' = [fut EXCEPT ![p] = "none"], leader' = [leader EXCEPT ![p] = NoOne],
         UNCHANGED <<suspend, tags, ack, resume, lock, queue>>
  PROVE  Core'
<1> USE SuspendStreamAssumption DEF Tasks, Resuming
<1>0. /\ p # NoOne /\ SignalTypes /\ LockTypes /\ Created /\ SharedResume
      /\ resume # p /\ resume' = resume
  BY DEF Core, Created
<1>1. \A q \in Producers : pc'[q] = IF q = p THEN "run" ELSE pc[q]
  BY <1>0, GoTypes DEF Locs
<1>2. \A q \in Producers : /\ fut'[q] = (IF q = p THEN "none" ELSE fut[q])
                           /\ leader'[q] = (IF q = p THEN NoOne ELSE leader[q])
  BY <1>0 DEF SignalTypes
<1>3. LockTypes'
  BY <1>0, GoTypes DEF Locs, LockTypes
<1>4. SignalTypes'
  BY <1>0 DEF SignalTypes, Futures
<1>5. Created'
  BY <1>0, <1>1, <1>2, <1>4 DEF Created, AtCheckpoint, SignalTypes
<1>6. SharedResume'
  BY <1>0, <1>1, <1>2 DEF SharedResume, Parked, Created, SignalTypes
<1> QED BY <1>3, <1>4, <1>5, <1>6 DEF Core

(* A future that is resolved takes along those that joined it.             *)
LEMMA ResolvedKeeps ==
  ASSUME Core, NEW p \in Producers, NEW how \in {"set", "cancelled"},
         fut' = Resolved(p, how), UNCHANGED <<suspend, tags, ack, resume, leader>>,
         LockTypes', \A q \in Producers : pc'[q] = pc[q]
  PROVE  Core' /\ (resume = p => \A q \in Producers : ~Parked(q)')
<1> USE SuspendStreamAssumption DEF Tasks, Resuming
<1>0. /\ p # NoOne /\ SignalTypes /\ Created /\ SharedResume
      /\ resume' = resume /\ leader' = leader
  BY DEF Core
<1>1. \A q \in Producers :
        /\ q = p => fut'[q] = how
        /\ q # p /\ leader[q] = p /\ fut[q] = "pending" => fut'[q] = "set"
        /\ q # p /\ ~(leader[q] = p /\ fut[q] = "pending") => fut'[q] = fut[q]
  BY DEF Resolved
<1>2. fut' \in [Producers -> Futures]
  <2>1. \A q \in Producers : fut[q] \in Futures
    BY <1>0 DEF SignalTypes
  <2>2. \A q \in Producers : fut'[q] \in Futures
    BY <1>1, <2>1 DEF Futures
  <2>3. fut' = [q \in Producers |-> fut'[q]]
    BY DEF Resolved
  <2> QED BY <2>2, <2>3
<1>3. SignalTypes'
  BY <1>0, <1>2 DEF SignalTypes
<1>4. Created'
  BY <1>0, <1>1 DEF Created, AtCheckpoint, SignalTypes
<1>5. SharedResume' /\ (resume = p => \A q \in Producers : ~Parked(q)')
  <2>1. \A q \in Producers : Parked(q)' => Parked(q) /\ q # p /\ leader[q] # p
    BY <1>1 DEF Parked
  <2>2. \A q \in Producers : Parked(q)' => leader[q] = resume /\ fut[resume] = "pending" /\ resume # p
    BY <1>0, <2>1 DEF SharedResume
  <2>3. \A q \in Producers : Parked(q)' => resume \in Producers /\ leader[resume] = resume
    BY <1>0, <2>1, <2>2 DEF Created, SignalTypes, Parked
  <2>4. \A q \in Producers : Parked(q)' => fut'[resume] = "pending"
    BY <1>1, <2>2, <2>3
  <2> QED BY <1>0, <2>2, <2>4 DEF SharedResume
<1> QED BY <1>3, <1>4, <1>5 DEF Core

-----------------------------------------------------------------------------
(* One lemma for each kind of task.                                        *)
LEMMA CheckKeeps ==
  ASSUME Core, NEW p \in Producers, NEW tag, pc[p] \in {"run", "enter"}, Check(p, tag)
  PROVE  Core'
<1>1. ~AtCheckpoint(p) /\ resume # p
  BY SignalOf DEF AtCheckpoint
<1>2. CASE Matches(tag)
  BY <1>1, <1>2, ParkKeeps DEF Check, Matches
<1>3. CASE ~Matches(tag)
  <2>1. Release /\ Go(p, "run") /\ UNCHANGED signals
    BY <1>3 DEF Check
  <2>2. SignalTypes' /\ p \in Tasks /\ "run" \in Locs /\ UNCHANGED <<resume, fut, leader>>
    BY <2>1 DEF Core, SignalTypes, signals, Tasks, Locs
  <2>3. Stays(p, "run")
    BY <1>1 DEF Stays
  <2> QED BY <2>1, <2>2, <2>3, ReleaseKeeps
<1> QED BY <1>2, <1>3

LEMMA ProducerSteps ==
  ASSUME IInv, NEW p \in Producers, ProducerNext(p)
  PROVE  IInv'
<1> USE DEF IInv
<1>0. p \in Tasks /\ {"enter", "wait", "leave"} \subseteq Locs
  BY DEF Tasks, Locs
<1>1. ASSUME NEW tag \in Tags, Reach(p, tag) PROVE IInv'
  <2>1. pc[p] = "run" /\ ~AtCheckpoint(p) /\ UNCHANGED <<want, asked>>
    BY <1>1 DEF Reach, At, AtCheckpoint
  <2>2. CASE Queues(p, "enter") /\ at' = [at EXCEPT ![p] = tag]
    <3>1. Stays(p, "enter")
      BY <2>1, SignalOf DEF Stays
    <3>2. Core'
      BY <1>0, <2>2, <3>1, QueuesKeeps
    <3>3. InputTypes'
      BY <2>1, <2>2 DEF InputTypes
    <3> QED BY <3>2, <3>3
  <2>3. CASE Check(p, tag) /\ UNCHANGED at
    BY <2>1, <2>3, CheckKeeps DEF InputTypes
  <2> QED BY <1>1, <2>2, <2>3 DEF Reach
<1>2. CASE Enter(p)
  <2>1. pc[p] = "enter" /\ Check(p, at[p]) /\ UNCHANGED <<want, asked>>
    BY <1>2 DEF Enter, Granted, At
  <2>2. Core'
    BY <2>1, CheckKeeps
  <2>3. InputTypes'
    BY <1>2, <2>1 DEF Enter, InputTypes
  <2> QED BY <2>2, <2>3
<1>3. CASE Settle(p)
  <2>1. /\ pc[p] = "settle" /\ Go(p, "wait") /\ Release
        /\ UNCHANGED <<suspend, tags, ack, resume, fut, leader, at, want, asked>>
    BY <1>3 DEF Settle, At, signals, inputs
  <2>2. SignalTypes' /\ InputTypes'
    BY <2>1 DEF Core, SignalTypes, InputTypes
  <2>3. Core'
    BY <1>0, <2>1, <2>2, ReleaseKeeps DEF Stays
  <2> QED BY <2>2, <2>3
<1>4. CASE Wakes(p)
  <2>1. pc[p] = "wait" /\ fut[p] # "pending" /\ AtCheckpoint(p) /\ InputTypes'
    BY <1>4 DEF Wakes, At, AtCheckpoint, inputs, InputTypes
  <2>2. CASE Queues(p, "leave")
    BY <1>0, <2>1, <2>2, QueuesKeeps DEF Stays
  <2>3. CASE Forget(p)
    BY <2>1, <2>3, ForgetKeeps
  <2>4. CASE /\ leader[p] # p
             /\ fut' = [fut EXCEPT ![p] = "none"] /\ leader' = [leader EXCEPT ![p] = NoOne]
             /\ Go(p, "run") /\ UNCHANGED <<suspend, tags, ack, resume, lock, queue>>
    BY <2>1, <2>4, JoinedKeeps
  <2> QED BY <1>4, <2>1, <2>2, <2>3, <2>4 DEF Wakes
<1>5. CASE Leave(p)
  <2>1. AtCheckpoint(p) /\ fut[p] # "pending" /\ Forget(p) /\ InputTypes'
    BY <1>5 DEF Leave, Granted, At, AtCheckpoint, Core, Created, inputs, InputTypes
  <2> QED BY <2>1, ForgetKeeps
<1>6. CASE Cancel(p)
  <2>1. /\ fut' = Resolved(p, "cancelled")
        /\ UNCHANGED <<suspend, tags, ack, resume, leader, at, want, asked, lock, queue, pc>>
    BY <1>6 DEF Cancel, inputs
  <2>2. LockTypes' /\ InputTypes'
    BY <2>1 DEF Core, LockTypes, InputTypes
  <2> QED BY <2>1, <2>2, ResolvedKeeps
<1> QED BY <1>1, <1>2, <1>3, <1>4, <1>5, <1>6 DEF ProducerNext, ProducerRuns

LEMMA RequestKeeps ==
  ASSUME IInv, NEW o \in Operators, NEW n \in 1 .. MaxRequests, NEW ts \in SUBSET Tags, Request(o, n, ts)
  PROVE  Core' /\ asked' \in [Operators -> 0 .. MaxRequests]
<1> USE SuspendStreamAssumption DEF IInv
<1>0. o \in Tasks /\ o \notin Producers /\ {"idle", "await"} \subseteq Locs
  BY DEF Tasks, Resuming, Locs
<1>1. Release /\ UNCHANGED <<resume, fut, leader>>
  BY DEF Request
<1>2. CASE Go(o, "idle") /\ UNCHANGED <<suspend, tags, ack, asked>>
  <2>1. SignalTypes'
    BY <1>1, <1>2 DEF Core, SignalTypes
  <2> QED BY <1>0, <1>1, <1>2, <2>1, ReleaseKeeps DEF InputTypes
<1>3. CASE /\ suspend' = n /\ tags' = ts /\ ack' = [ack EXCEPT ![n] = "pending"]
           /\ asked' = [asked EXCEPT ![o] = n] /\ Go(o, "await")
  <2>1. SignalTypes'
    BY <1>1, <1>3 DEF Core, SignalTypes, Futures
  <2>2. Core'
    BY <1>0, <1>1, <1>3, <2>1, ReleaseKeeps
  <2> QED BY <1>3, <2>2 DEF InputTypes
<1> QED BY <1>2, <1>3 DEF Request

LEMMA ClearKeeps ==
  ASSUME IInv, NEW o \in Operators, Clear(o)
  PROVE  IInv'
<1> USE SuspendStreamAssumption DEF IInv
<1> DEFINE loc == IF ack[asked[o]] = "set" \/ CautiousTimeout THEN "holding" ELSE "idle"
<1>0. o \in Tasks /\ o \notin Producers /\ loc \in Locs
  BY DEF Tasks, Resuming, Locs
<1>1. /\ suspend' = 0 /\ tags' = {} /\ Go(o, loc)
      /\ asked' = [asked EXCEPT ![o] = 0] /\ want' = [want EXCEPT ![o] = {}]
      /\ Release /\ UNCHANGED <<ack, resume, fut, leader, at>>
  BY DEF Clear
<1>2. SignalTypes' /\ InputTypes'
  BY <1>1 DEF Core, SignalTypes, InputTypes
<1> HIDE DEF loc
<1>3. Core'
  BY <1>0, <1>1, <1>2, ReleaseKeeps
<1> QED BY <1>2, <1>3

LEMMA OperatorSteps ==
  ASSUME IInv, NEW o \in Operators, OperatorNext(o)
  PROVE  IInv'
<1> USE SuspendStreamAssumption DEF IInv
<1>0. o \in Tasks /\ o \notin Producers /\ {"ask", "clear"} \subseteq Locs
  BY DEF Tasks, Resuming, Locs
<1>1. ASSUME NEW ts \in Selections, Ask(o, ts) PROVE IInv'
  <2>1. want' = [want EXCEPT ![o] = ts] /\ at' = at /\ ts \in SUBSET Tags
    BY <1>1 DEF Ask
  <2>2. PICK n \in 1 .. MaxRequests :
          (Queues(o, "ask") /\ UNCHANGED asked) \/ Request(o, n, ts)
    BY <1>1 DEF Ask
  <2>3. CASE Queues(o, "ask") /\ UNCHANGED asked
    <3>1. Core'
      BY <1>0, <2>3, QueuesKeeps
    <3>2. InputTypes'
      BY <2>1, <2>3 DEF InputTypes
    <3> QED BY <3>1, <3>2
  <2>4. CASE Request(o, n, ts)
    <3>1. Core' /\ asked' \in [Operators -> 0 .. MaxRequests]
      BY <2>1, <2>4, RequestKeeps
    <3> QED BY <2>1, <3>1 DEF InputTypes
  <2> QED BY <2>2, <2>3, <2>4
<1>2. CASE Asked(o)
  <2>1. PICK n \in 1 .. MaxRequests : Request(o, n, want[o])
    BY <1>2 DEF Asked
  <2>2. want[o] \in SUBSET Tags /\ UNCHANGED <<at, want>>
    BY <1>2 DEF Asked, InputTypes
  <2>3. Core' /\ asked' \in [Operators -> 0 .. MaxRequests]
    BY <2>1, <2>2, RequestKeeps
  <2> QED BY <2>2, <2>3 DEF InputTypes
<1>3. CASE TimesOut(o)
  <2>1. /\ ack' = [ack EXCEPT ![asked[o]] = "cancelled"]
        /\ UNCHANGED <<suspend, tags, resume, fut, leader, at, want, asked, lock, queue, pc>>
    BY <1>3 DEF TimesOut, inputs
  <2>2. SignalTypes' /\ LockTypes' /\ InputTypes'
    BY <2>1 DEF Core, SignalTypes, LockTypes, InputTypes, Futures
  <2>3. Created' /\ SharedResume'
    BY <2>1 DEF Core, Created, AtCheckpoint, SharedResume, Parked
  <2> QED BY <2>2, <2>3 DEF Core
<1>4. CASE Answered(o)
  <2>1. CASE Queues(o, "clear") /\ UNCHANGED inputs
    <3>1. Core'
      BY <1>0, <2>1, QueuesKeeps
    <3> QED BY <2>1, <3>1 DEF InputTypes, inputs
  <2> QED BY <1>4, <2>1, ClearKeeps DEF Answered
<1>5. CASE Cleared(o)
  BY <1>5, ClearKeeps DEF Cleared
<1> QED BY <1>1, <1>2, <1>3, <1>4, <1>5 DEF OperatorNext, OperatorRuns

(* resume() leaves nobody parked.                                          *)
LEMMA WakeKeeps ==
  ASSUME Core, NEW t \in Resuming, Wake(t)
  PROVE  Core' /\ \A p \in Producers : ~Parked(p)'
<1> USE SuspendStreamAssumption DEF Tasks
<1>0. t \in Tasks /\ t \notin Producers /\ "idle" \in Locs
  BY DEF Locs
<1>1. Release /\ Go(t, "idle") /\ UNCHANGED <<suspend, tags, ack, resume, leader>>
  BY DEF Wake
<1>2. /\ LockTypes' /\ \A q \in Producers : pc'[q] = pc[q]
  BY <1>0, <1>1, ReleaseTypes, GoTypes DEF Core, LockTypes
<1>3. CASE Shared
  <2>1. resume \in Producers /\ fut' = Resolved(resume, "set")
    BY <1>3 DEF Core, SignalTypes, Shared, Wake
  <2> QED BY <1>1, <1>2, <2>1, ResolvedKeeps
<1>4. CASE ~Shared
  <2>1. fut' = fut
    BY <1>4 DEF Wake
  <2>2. SignalTypes'
    BY <1>1, <2>1 DEF Core, SignalTypes
  <2>3. Core'
    BY <1>0, <1>1, <2>1, <2>2, ReleaseKeeps
  <2>4. \A p \in Producers : ~Parked(p)
    BY <1>4 DEF Core, SharedResume, Shared, Created, Parked
  <2>5. \A p \in Producers : ~Parked(p)'
    BY <1>2, <2>1, <2>4 DEF Parked
  <2> QED BY <2>3, <2>5
<1> QED BY <1>3, <1>4

LEMMA ResumeSteps ==
  ASSUME IInv, NEW t \in Resuming, ResumerNext(t)
  PROVE  IInv'
<1> USE SuspendStreamAssumption DEF IInv
<1>1. InputTypes'
  BY DEF ResumerNext, Resume, Resumed, inputs, InputTypes
<1>2. t \in Tasks /\ t \notin Producers /\ "blocked" \in Locs
  BY DEF Tasks, Locs
<1>3. CASE Queues(t, "blocked")
  BY <1>1, <1>2, <1>3, QueuesKeeps
<1>4. CASE Wake(t)
  BY <1>1, <1>4, WakeKeeps
<1> QED BY <1>3, <1>4 DEF ResumerNext, Resume, Resumed

LEMMA Steps == IInv /\ [Next]_vars => IInv'
<1> SUFFICES ASSUME IInv, [Next]_vars PROVE IInv'
  OBVIOUS
<1>1. CASE UNCHANGED vars
  BY <1>1 DEF vars, signals, inputs, IInv, Core, SignalTypes, InputTypes, LockTypes, Created,
              AtCheckpoint, SharedResume, Parked
<1>2. ASSUME NEW t \in Tasks, Turn(t) PROVE IInv'
  BY <1>2 DEF Turn, signals, inputs, IInv, Core, SignalTypes, InputTypes, LockTypes, Created,
              AtCheckpoint, SharedResume, Parked
<1> QED BY <1>1, <1>2, ProducerSteps, OperatorSteps, ResumeSteps DEF Next

LEMMA Invariant == Spec => []IInv
BY Initially, Steps, PTL DEF Spec

(* What a step adds to the unheard are tasks, too.                         *)
LEMMA Heard == Spec => []HeardTypes
<1>1. Init => HeardTypes
  BY DEF Init, HeardTypes
<1>2. HeardTypes /\ [Next]_vars => HeardTypes'
  BY DEF HeardTypes, Next, Turns, Turn, vars
<1> QED BY <1>1, <1>2, PTL DEF Spec

-----------------------------------------------------------------------------
(* Every variable of the stream keeps its type, whatever overlaps.         *)
THEOREM TypeCorrect == Spec => []TypeOK
<1>1. IInv /\ HeardTypes => TypeOK
  BY TypesAre DEF IInv, Core
<1> QED BY Invariant, Heard, <1>1, PTL

(* All that are parked hang on one pending signal (_wait_for_continue), so *)
(* that one resume() releases them all: for any number of producers,       *)
(* operators, timeouts and cancellations, in every order.                  *)
THEOREM OneSignal == Spec => []SharedResume
<1>1. IInv => SharedResume
  BY DEF IInv, Core
<1> QED BY Invariant, <1>1, PTL

-----------------------------------------------------------------------------
(* One operator, who resumes after a timeout too, asks only when nothing   *)
(* is requested and nobody is parked.                                      *)
OneOperator == \A o, u \in Operators : o = u

Asks ==
  \A o \in Operators :
    /\ pc[o] \notin {"await", "clear"} => suspend = 0
    /\ pc[o] \in {"idle", "ask"} => \A p \in Producers : ~Parked(p)

CInv == Asks /\ ParkConfirms

LEMMA FewerParked ==
  ASSUME CInv, UNCHANGED <<suspend, ack>>, \A p \in Producers : Parked(p)' => Parked(p),
         \A o \in Operators : pc'[o] = pc[o]
  PROVE  CInv'
BY DEF CInv, Asks, ParkConfirms

(* A step of a producer other than parking.                                *)
LEMMA ProducerGoes ==
  ASSUME IInv, CInv, NEW p \in Producers, NEW loc \in Locs, Go(p, loc),
         UNCHANGED <<suspend, ack>>,
         \/ UNCHANGED fut /\ Stays(p, loc)
         \/ fut' = [fut EXCEPT ![p] = "none"]
  PROVE  CInv'
<1> USE SuspendStreamAssumption DEF IInv, Core, Tasks, Resuming
<1>1. \A t \in Tasks : pc'[t] = IF t = p THEN loc ELSE pc[t]
  BY GoTypes
<1>2. \A o \in Operators : pc'[o] = pc[o]
  BY <1>1
<1>3. ASSUME NEW q \in Producers, Parked(q)' PROVE Parked(q)
  <2>1. CASE UNCHANGED fut /\ Stays(p, loc)
    BY <1>1, <1>3, <2>1 DEF Parked, Stays
  <2>2. CASE fut' = [fut EXCEPT ![p] = "none"]
    BY <1>1, <1>3, <2>2 DEF Parked, SignalTypes
  <2> QED BY <2>1, <2>2
<1> QED BY <1>2, <1>3, FewerParked

LEMMA ParkConfirmed ==
  ASSUME IInv, CInv, NEW p \in Producers, suspend # 0, Park(p)
  PROVE  CInv'
<1> USE SuspendStreamAssumption DEF Tasks, Resuming
<1>0. /\ SignalTypes /\ LockTypes /\ Created /\ SharedResume /\ Asks /\ ParkConfirms
      /\ suspend' = suspend /\ suspend \in 1 .. MaxRequests
  BY DEF IInv, Core, CInv, SignalTypes, Park
<1>1. \A o \in Operators : pc'[o] = pc[o]
  BY <1>0, GoTypes DEF Park, Locs
<1>2. Asks'
  BY <1>0, <1>1 DEF Asks
<1>3. ack'[suspend] # "pending"
  <2>1. CASE Shared
    <3>1. resume \in Producers /\ Parked(resume)
      BY <1>0, <2>1 DEF Shared, Created, SignalTypes, Parked, AtCheckpoint
    <3>2. ack' = ack
      BY <2>1 DEF Park
    <3> QED BY <1>0, <3>1, <3>2 DEF ParkConfirms
  <2>2. CASE ~Shared
    BY <1>0, <2>2 DEF Park, SignalTypes
  <2> QED BY <2>1, <2>2
<1> QED BY <1>0, <1>2, <1>3 DEF CInv, ParkConfirms

LEMMA CheckConfirms ==
  ASSUME IInv, CInv, NEW p \in Producers, NEW tag, pc[p] \in {"run", "enter"}, Check(p, tag)
  PROVE  CInv'
<1>1. CASE Matches(tag)
  BY <1>1, ParkConfirmed DEF Check, Matches
<1>2. CASE ~Matches(tag)
  <2>1. Go(p, "run") /\ UNCHANGED <<suspend, ack, fut>>
    BY <1>2 DEF Check, signals
  <2>2. Stays(p, "run") /\ "run" \in Locs
    BY SignalOf DEF IInv, Stays, AtCheckpoint, Locs
  <2> QED BY <2>1, <2>2, ProducerGoes
<1> QED BY <1>1, <1>2

LEMMA ProducerConfirms ==
  ASSUME IInv, CInv, NEW p \in Producers, ProducerNext(p)
  PROVE  CInv'
<1>0. {"run", "enter", "wait", "leave"} \subseteq Locs
  BY DEF Locs
<1>1. ASSUME NEW tag \in Tags, Reach(p, tag) PROVE CInv'
  <2>1. pc[p] = "run" /\ Stays(p, "enter")
    BY <1>1, SignalOf DEF Reach, At, Stays, AtCheckpoint, IInv
  <2>2. CASE Queues(p, "enter")
    BY <1>0, <2>1, <2>2, ProducerGoes DEF Queues, signals
  <2>3. CASE Check(p, tag)
    BY <2>1, <2>3, CheckConfirms
  <2> QED BY <1>1, <2>2, <2>3 DEF Reach
<1>2. CASE Enter(p)
  BY <1>2, CheckConfirms DEF Enter, Granted, At
<1>3. CASE Settle(p)
  <2>1. pc[p] = "settle" /\ Go(p, "wait") /\ UNCHANGED <<suspend, ack, fut>>
    BY <1>3 DEF Settle, At, signals
  <2> QED BY <1>0, <2>1, ProducerGoes DEF Stays
<1>4. ASSUME Forget(p) PROVE CInv'
  BY <1>0, <1>4, ProducerGoes DEF Forget
<1>5. CASE Wakes(p)
  <2>1. CASE Queues(p, "leave")
    <3>1. Stays(p, "leave")
      BY <1>5 DEF Wakes, At, Stays, AtCheckpoint
    <3> QED BY <1>0, <2>1, <3>1, ProducerGoes DEF Queues, signals
  <2>2. CASE fut' = [fut EXCEPT ![p] = "none"] /\ Go(p, "run") /\ UNCHANGED <<suspend, ack>>
    BY <1>0, <2>2, ProducerGoes
  <2> QED BY <1>4, <1>5, <2>1, <2>2 DEF Wakes
<1>6. CASE Leave(p)
  BY <1>4, <1>6 DEF Leave
<1>7. CASE Cancel(p)
  <2>1. fut' = Resolved(p, "cancelled") /\ UNCHANGED <<suspend, ack, pc>>
    BY <1>7 DEF Cancel
  <2>2. \A q \in Producers : Parked(q)' => Parked(q)
    BY <2>1 DEF Parked, Resolved
  <2> QED BY <2>1, <2>2, FewerParked
<1> QED BY <1>1, <1>2, <1>3, <1>5, <1>6, <1>7 DEF ProducerNext, ProducerRuns

(* The operator's own steps.                                               *)
LEMMA Alone ==
  ASSUME IInv, OneOperator, NEW o \in Operators, NEW loc \in Locs, Go(o, loc), UNCHANGED fut
  PROVE  /\ pc'[o] = loc /\ \A u \in Operators : u = o
         /\ \A p \in Producers : Parked(p)' <=> Parked(p)
<1>1. \A t \in Tasks : pc'[t] = IF t = o THEN loc ELSE pc[t]
  BY GoTypes DEF IInv, Core, Tasks, Resuming
<1> QED BY <1>1, SuspendStreamAssumption DEF Tasks, Resuming, OneOperator, Parked

LEMMA RequestConfirms ==
  ASSUME IInv, CInv, OneOperator, NEW o \in Operators, NEW n \in 1 .. MaxRequests, NEW ts,
         pc[o] \in {"idle", "ask"}, Request(o, n, ts)
  PROVE  CInv'
<1>1. suspend = 0 /\ \A p \in Producers : ~Parked(p)
  BY DEF CInv, Asks
<1>2. Go(o, "await") /\ UNCHANGED fut /\ "await" \in Locs
  BY <1>1 DEF Request, Locs
<1> QED BY <1>1, <1>2, Alone DEF CInv, Asks, ParkConfirms

LEMMA ClearConfirms ==
  ASSUME IInv, CInv, OneOperator, CautiousTimeout, NEW o \in Operators, Clear(o)
  PROVE  CInv'
<1>1. Go(o, "holding") /\ suspend' = 0 /\ UNCHANGED fut /\ "holding" \in Locs
  BY DEF Clear, Locs
<1> QED BY <1>1, Alone DEF CInv, Asks, ParkConfirms

LEMMA OperatorConfirms ==
  ASSUME IInv, CInv, OneOperator, CautiousTimeout, NEW o \in Operators, OperatorNext(o)
  PROVE  CInv'
<1>0. {"ask", "clear"} \subseteq Locs
  BY DEF Locs
<1>1. ASSUME NEW ts \in Selections, Ask(o, ts) PROVE CInv'
  <2>1. pc[o] = "idle"
    BY <1>1 DEF Ask, At
  <2>2. CASE Queues(o, "ask")
    <3>1. Go(o, "ask") /\ UNCHANGED <<suspend, ack, fut>>
      BY <2>2 DEF Queues, signals
    <3> QED BY <1>0, <2>1, <3>1, Alone DEF CInv, Asks, ParkConfirms
  <2>3. ASSUME NEW n \in 1 .. MaxRequests, Request(o, n, ts) PROVE CInv'
    BY <2>1, <2>3, RequestConfirms
  <2> QED BY <1>1, <2>2, <2>3 DEF Ask
<1>2. CASE Asked(o)
  BY <1>2, RequestConfirms DEF Asked, Granted, At
<1>3. CASE TimesOut(o)
  <2>1. /\ ack' = [ack EXCEPT ![asked[o]] = "cancelled"] /\ UNCHANGED <<suspend, fut, pc>>
    BY <1>3 DEF TimesOut
  <2>2. suspend = 0 \/ ack[suspend] # "pending" => suspend = 0 \/ ack'[suspend] # "pending"
    BY <2>1 DEF IInv, Core, SignalTypes
  <2> QED BY <2>1, <2>2 DEF CInv, Asks, ParkConfirms, Parked
<1>4. CASE Answered(o)
  <2>1. pc[o] = "await"
    BY <1>4 DEF Answered, At
  <2>2. CASE Queues(o, "clear")
    <3>1. Go(o, "clear") /\ UNCHANGED <<suspend, ack, fut>>
      BY <2>2 DEF Queues, signals
    <3> QED BY <1>0, <2>1, <3>1, Alone DEF CInv, Asks, ParkConfirms
  <2> QED BY <1>4, <2>2, ClearConfirms DEF Answered
<1>5. CASE Cleared(o)
  BY <1>5, ClearConfirms DEF Cleared
<1> QED BY <1>1, <1>2, <1>3, <1>4, <1>5 DEF OperatorNext, OperatorRuns

LEMMA ResumeConfirms ==
  ASSUME IInv, CInv, OneOperator, NEW t \in Resuming, ResumerNext(t)
  PROVE  CInv'
<1> USE SuspendStreamAssumption DEF Tasks, Resuming
<1>0. t \in Tasks /\ t \notin Producers /\ {"idle", "blocked"} \subseteq Locs /\ LockTypes
  BY DEF Locs, IInv, Core
<1>1. t \in Operators => pc[t] \in {"holding", "blocked"} /\ suspend = 0
  BY DEF ResumerNext, Resume, Resumed, At, CInv, Asks
<1>2. CASE Queues(t, "blocked")
  <2>1. UNCHANGED <<suspend, ack, fut>> /\ \A u \in Tasks : pc'[u] = IF u = t THEN "blocked" ELSE pc[u]
    BY <1>0, <1>2, GoTypes DEF Queues, signals
  <2>2. \A p \in Producers : Parked(p)' <=> Parked(p)
    BY <1>0, <2>1 DEF Parked
  <2> QED BY <1>0, <1>1, <2>1, <2>2 DEF CInv, Asks, ParkConfirms
<1>3. CASE Wake(t)
  <2>1. \A p \in Producers : ~Parked(p)'
    BY <1>3, WakeKeeps DEF IInv
  <2>2. suspend' = suspend /\ \A u \in Tasks : pc'[u] = IF u = t THEN "idle" ELSE pc[u]
    BY <1>0, <1>3, GoTypes DEF Wake
  <2> QED BY <1>0, <1>1, <2>1, <2>2 DEF CInv, Asks, ParkConfirms
<1> QED BY <1>2, <1>3 DEF ResumerNext, Resume, Resumed

LEMMA ConfirmSteps ==
  ASSUME OneOperator, CautiousTimeout
  PROVE  IInv /\ CInv /\ [Next]_vars => CInv'
<1> SUFFICES ASSUME IInv, CInv, [Next]_vars PROVE CInv'
  OBVIOUS
<1>1. CASE UNCHANGED vars
  <2>1. UNCHANGED <<suspend, ack, fut, pc>>
    BY <1>1 DEF vars, signals
  <2> QED BY <2>1, FewerParked DEF Parked
<1>2. ASSUME NEW t \in Tasks, Turn(t) PROVE CInv'
  <2>1. UNCHANGED <<suspend, ack, fut, pc>>
    BY <1>2 DEF Turn, signals
  <2> QED BY <2>1, FewerParked DEF Parked
<1> QED BY <1>1, <1>2, ProducerConfirms, OperatorConfirms, ResumeConfirms DEF Next

(* A producer that parks has told the operator so: it confirms the request *)
(* before it waits, or joins one that has (_wait_for_continue).            *)
THEOREM Confirms == OneOperator /\ CautiousTimeout => (Spec => []ParkConfirms)
<1> SUFFICES ASSUME OneOperator, CautiousTimeout PROVE Spec => []ParkConfirms
  OBVIOUS
<1>1. Init => CInv
  <2> SUFFICES ASSUME Init PROVE CInv
    OBVIOUS
  <2>1. suspend = 0 /\ \A p \in Producers : fut[p] = "none"
    BY DEF Init
  <2> QED BY <2>1 DEF CInv, Asks, ParkConfirms, Parked
<1>2. IInv /\ CInv /\ [Next]_vars => CInv'
  BY ConfirmSteps
<1>3. CInv => ParkConfirms
  BY DEF CInv
<1> QED BY <1>1, <1>2, <1>3, Invariant, PTL DEF Spec
=============================================================================
