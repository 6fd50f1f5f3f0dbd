--------------------------- MODULE SuspendStream ---------------------------
(***************************************************************************)
(* SuspendObjectStream (streaming.py), its suspend and resume control:     *)
(* producers that reach a tagged checkpoint (_wait_for_continue), operators *)
(* that suspend them (wait_to_suspend) and resume them, and tasks that     *)
(* only call resume().                                                     *)
(*                                                                         *)
(* One step is the code a task executes between two awaits.  The state     *)
(* lock is handed over in order of arrival, across threads as well; a task *)
(* that finds it free enters without awaiting.  A future that is resolved  *)
(* from the thread of another loop does not wake the loop it belongs to.   *)
(***************************************************************************)
EXTENDS Naturals, Sequences

CONSTANTS
  Producers,     (* Tasks that pass checkpoints.                            *)
  Operators,     (* Tasks that suspend and then resume.                     *)
  Resumers,      (* Tasks that call resume() at any time.                   *)
  NoOne,
  Tags,          (* Tags of the checkpoints.                                *)
  NoTag,
  Selections,    (* The sets of tags that operators ask for.                *)
  MaxRequests,   (* Bound on the calls of wait_to_suspend.                  *)
  SameLoop,      (* Whether all tasks share one event loop; otherwise each  *)
                 (* operator and each resumer has a thread of its own.      *)
  CautiousTimeout (* Whether an operator resumes after a timeout as well.   *)

Resuming == Operators \cup Resumers
Tasks    == Producers \cup Resuming

ASSUME SuspendStreamAssumption ==
  /\ Producers \cap Resuming = {} /\ Operators \cap Resumers = {}
  /\ NoOne \notin Tasks /\ MaxRequests \in Nat
  /\ NoTag \notin Tags /\ Selections \subseteq SUBSET Tags
  /\ {SameLoop, CautiousTimeout} \subseteq BOOLEAN

VARIABLES
  suspend,   (* __suspend_signal: number of the request it belongs to, or 0 *)
  tags,      (* _suspend_tags                                               *)
  ack,       (* ack[n]: state of the future of request n                    *)
  resume,    (* __resume_signal: the producer that created it, or NoOne     *)
  fut,       (* fut[p]: state of the future p awaits at a checkpoint        *)
  leader,    (* leader[p]: the producer whose future p's is resolved with   *)
  at,        (* at[p]: tag of the checkpoint at which p queues, or NoTag    *)
  want,      (* want[o]: tags of the request o is making                    *)
  asked,     (* asked[o]: its number, or 0                                  *)
  lock,      (* holder of _state_lock                                       *)
  queue,     (* tasks waiting for it, first come first served               *)
  unheard,   (* tasks whose future was resolved in another thread, and      *)
             (* whose own loop has not turned since                         *)
  pc

signals == <<suspend, tags, ack, resume, fut, leader>>
inputs  == <<at, want, asked>>
vars    == <<signals, inputs, lock, queue, unheard, pc>>

Futures == {"none", "pending", "set", "cancelled"}
Locs == {"run", "enter", "settle", "wait", "leave",                 \* producers
         "idle", "ask", "await", "clear", "holding", "blocked"}     \* the others

Init ==
  /\ suspend = 0 /\ tags = {} /\ ack = [n \in 1 .. MaxRequests |-> "none"]
  /\ resume = NoOne
  /\ fut = [p \in Producers |-> "none"] /\ leader = [p \in Producers |-> NoOne]
  /\ at = [p \in Producers |-> NoTag]
  /\ want = [o \in Operators |-> {}] /\ asked = [o \in Operators |-> 0]
  /\ lock = NoOne /\ queue = <<>> /\ unheard = {}
  /\ pc = [t \in Tasks |-> IF t \in Producers THEN "run" ELSE "idle"]

-----------------------------------------------------------------------------
(* The tasks of the event loop that runs t.                                *)
Loop(t) == IF SameLoop THEN Tasks ELSE IF t \in Producers THEN Producers ELSE {t}

(* A synchronous acquire that has to wait stops the event loop of its      *)
(* thread, and with it every task of that loop.                            *)
LoopRuns(t) == \A u \in Loop(t) : pc[u] # "blocked"

(* set_result() appends the wake-up of the awaiting task to the ready list *)
(* of its loop, and does not interrupt the select() that this loop may be  *)
(* in.  A step of a task is one turn of its own loop, which finds whatever *)
(* is in its list.                                                         *)
ResolvedNow(u) ==
  \/ u \in Producers /\ fut'[u] # fut[u]
  \/ u \in Operators /\ asked[u] # 0 /\ ack'[asked[u]] # ack[asked[u]]

Turns(t) == unheard' = {u \in Tasks \ Loop(t) : u \in unheard \/ ResolvedNow(u)}

At(t, loc) == pc[t] = loc /\ LoopRuns(t)
Go(t, to)  == pc' = [pc EXCEPT ![t] = to]

ReleaseToNobody == lock' = NoOne /\ UNCHANGED queue   \* mutant: wakes nobody

(* Leaving the lock: the first in line has it next.                        *)
Release ==
  IF queue = <<>> THEN lock' = NoOne /\ UNCHANGED queue
                  ELSE lock' = Head(queue) /\ queue' = Tail(queue)

(* A task enters a section that holds the lock and does not await: at once *)
(* when the lock is free, otherwise it queues at loc and enters when the   *)
(* lock is handed to it.                                                   *)
Queues(t, loc) ==
  /\ lock # NoOne /\ queue' = Append(queue, t) /\ Go(t, loc)
  /\ UNCHANGED <<signals, lock>>

Granted(t, loc) == At(t, loc) /\ lock = t

ResolvedAlone(p, how) ==   \* mutant: no callback registered on the shared future
  [fut EXCEPT ![p] = how]

(* Resolving a future runs its callbacks, which resolve the futures of the *)
(* producers that piggyback on it.                                         *)
Resolved(p, how) ==
  [q \in Producers |-> CASE q = p -> how
                         [] q # p /\ leader[q] = p /\ fut[q] = "pending" -> "set"
                         [] OTHER -> fut[q]]

-----------------------------------------------------------------------------
(* Producers.                                                              *)

Matches(tag) == suspend # 0 /\ (tags = {} \/ tag \in tags)
SharedEver   == resume # NoOne   \* mutant: a signal that is done is joined too
Shared       == resume # NoOne /\ fut[resume] = "pending"

(* Parking: join the pending resume signal, or confirm the suspension and  *)
(* create one; the lock is kept over an asyncio.sleep(0).                  *)
Park(p) ==
  /\ IF Shared
     THEN leader' = [leader EXCEPT ![p] = resume] /\ UNCHANGED <<ack, resume>>
     ELSE /\ ack' = IF ack[suspend] = "pending" THEN [ack EXCEPT ![suspend] = "set"] ELSE ack
          /\ resume' = p /\ leader' = [leader EXCEPT ![p] = p]
  /\ fut' = [fut EXCEPT ![p] = "pending"]
  /\ lock' = p /\ Go(p, "settle")
  /\ UNCHANGED <<suspend, tags, queue>>

Check(p, tag) ==
  IF Matches(tag) THEN Park(p) ELSE Release /\ Go(p, "run") /\ UNCHANGED signals

(* The unlocked fast path lets pass when nothing is requested.             *)
Reach(p, tag) ==
  /\ At(p, "run") /\ suspend # 0
  /\ \/ Queues(p, "enter") /\ at' = [at EXCEPT ![p] = tag]
     \/ lock = NoOne /\ Check(p, tag) /\ UNCHANGED at
  /\ UNCHANGED <<want, asked>>

Enter(p) ==
  /\ Granted(p, "enter") /\ Check(p, at[p])
  /\ at' = [at EXCEPT ![p] = NoTag] /\ UNCHANGED <<want, asked>>

Settle(p) ==
  /\ At(p, "settle") /\ Go(p, "wait") /\ Release
  /\ UNCHANGED <<signals, inputs>>

ForgetAny(p) ==   \* mutant: no check that the signal is still its own
  /\ resume' = NoOne
  /\ fut' = [fut EXCEPT ![p] = "none"] /\ leader' = [leader EXCEPT ![p] = NoOne]
  /\ Release /\ Go(p, "run")
  /\ UNCHANGED <<suspend, tags, ack>>

(* The finally of the producer that created the resume signal: forget it,  *)
(* unless it has been replaced.                                            *)
Forget(p) ==
  /\ resume' = IF resume = p THEN NoOne ELSE resume
  /\ fut' = [fut EXCEPT ![p] = "none"] /\ leader' = [leader EXCEPT ![p] = NoOne]
  /\ Release /\ Go(p, "run")
  /\ UNCHANGED <<suspend, tags, ack>>

Wakes(p) ==
  /\ At(p, "wait") /\ fut[p] # "pending" /\ p \notin unheard
  /\ \/ leader[p] = p /\ (Queues(p, "leave") \/ (lock = NoOne /\ Forget(p)))
     \/ /\ leader[p] # p
        /\ fut' = [fut EXCEPT ![p] = "none"] /\ leader' = [leader EXCEPT ![p] = NoOne]
        /\ Go(p, "run") /\ UNCHANGED <<suspend, tags, ack, resume, lock, queue>>
  /\ UNCHANGED inputs

Leave(p) == Granted(p, "leave") /\ Forget(p) /\ UNCHANGED inputs

(* The task of a parked producer is cancelled, and its future with it.     *)
Cancel(p) ==
  /\ At(p, "wait") /\ fut[p] = "pending"
  /\ fut' = Resolved(p, "cancelled")
  /\ UNCHANGED <<suspend, tags, ack, resume, leader, inputs, lock, queue, pc>>

-----------------------------------------------------------------------------
(* Operators.                                                              *)

(* wait_to_suspend: refused while a request is outstanding; one that has   *)
(* been confirmed but not yet cleared is replaced.                         *)
Request(o, n, ts) ==
  /\ IF suspend # 0 /\ ack[suspend] = "pending"
     THEN Go(o, "idle") /\ UNCHANGED <<suspend, tags, ack, asked>>
     ELSE /\ suspend' = n /\ tags' = ts /\ ack' = [ack EXCEPT ![n] = "pending"]
          /\ asked' = [asked EXCEPT ![o] = n] /\ Go(o, "await")
  /\ Release /\ UNCHANGED <<resume, fut, leader>>

NextRequest(n) == ack[n] = "none" /\ \A m \in 1 .. n - 1 : ack[m] # "none"

Ask(o, ts) ==
  /\ At(o, "idle") /\ want' = [want EXCEPT ![o] = ts]
  /\ \E n \in 1 .. MaxRequests :
       /\ NextRequest(n)
       /\ (Queues(o, "ask") /\ UNCHANGED asked) \/ (lock = NoOne /\ Request(o, n, ts))
  /\ UNCHANGED at

Asked(o) ==
  /\ Granted(o, "ask")
  /\ \E n \in 1 .. MaxRequests : NextRequest(n) /\ Request(o, n, want[o])
  /\ UNCHANGED <<at, want>>

(* wait_for gives up and cancels the future of the request.                *)
TimesOut(o) ==
  /\ At(o, "await") /\ ack[asked[o]] = "pending"
  /\ ack' = [ack EXCEPT ![asked[o]] = "cancelled"]
  /\ UNCHANGED <<suspend, tags, resume, fut, leader, inputs, lock, queue, pc>>

(* Its finally clears the request, whosever it is by then.                 *)
Clear(o) ==
  /\ suspend' = 0 /\ tags' = {}
  /\ Go(o, IF ack[asked[o]] = "set" \/ CautiousTimeout THEN "holding" ELSE "idle")
  /\ asked' = [asked EXCEPT ![o] = 0] /\ want' = [want EXCEPT ![o] = {}]
  /\ Release /\ UNCHANGED <<ack, resume, fut, leader, at>>

Answered(o) ==
  /\ At(o, "await") /\ ack[asked[o]] # "pending" /\ o \notin unheard
  /\ (Queues(o, "clear") /\ UNCHANGED inputs) \/ (lock = NoOne /\ Clear(o))

Cleared(o) == Granted(o, "clear") /\ Clear(o)

(* resume(): acquires the lock synchronously.  The hand-over wakes its     *)
(* thread, which has no loop that runs meanwhile.                          *)
Wake(t) ==
  /\ fut' = IF Shared THEN Resolved(resume, "set") ELSE fut
  /\ Release /\ Go(t, "idle")
  /\ UNCHANGED <<suspend, tags, ack, resume, leader>>

Resume(t) ==
  /\ At(t, IF t \in Operators THEN "holding" ELSE "idle")
  /\ Queues(t, "blocked") \/ (lock = NoOne /\ Wake(t))
  /\ UNCHANGED inputs

Resumed(t) ==
  /\ pc[t] = "blocked" /\ lock = t
  /\ Wake(t) /\ UNCHANGED inputs

-----------------------------------------------------------------------------
(* Something else makes the loop of t turn: a timer, input, another call.  *)
Turn(t) ==
  /\ t \in unheard /\ unheard' = unheard \ Loop(t)
  /\ UNCHANGED <<signals, inputs, lock, queue, pc>>

(* What a task does once it is ready, and what makes it ready.             *)
ProducerRuns(p) == Enter(p) \/ Settle(p) \/ Wakes(p) \/ Leave(p)
OperatorRuns(o) == Asked(o) \/ Answered(o) \/ Cleared(o)

ProducerNext(p) == ProducerRuns(p) \/ Cancel(p) \/ \E tag \in Tags : Reach(p, tag)
OperatorNext(o) == OperatorRuns(o) \/ TimesOut(o) \/ \E ts \in Selections : Ask(o, ts)
ResumerNext(t)  == Resume(t) \/ Resumed(t)

Next ==
  \/ \E p \in Producers : ProducerNext(p) /\ Turns(p)
  \/ \E o \in Operators : OperatorNext(o) /\ Turns(o)
  \/ \E t \in Resuming : ResumerNext(t) /\ Turns(t)
  \/ \E t \in Tasks : Turn(t)

Spec == Init /\ [][Next]_vars

(* An event loop runs every task it knows to be ready, and an operator     *)
(* resumes what it holds.  Nothing makes a loop turn that has no such task. *)
Fairness ==
  /\ \A p \in Producers : WF_vars(ProducerRuns(p) /\ Turns(p))
  /\ \A o \in Operators : WF_vars((OperatorRuns(o) \/ Resume(o)) /\ Turns(o))
  /\ \A t \in Resuming : WF_vars(Resumed(t) /\ Turns(t))

FairSpec == Spec /\ Fairness

-----------------------------------------------------------------------------
(* Properties.                                                             *)

(* Every variable keeps to the values the stream gives it. *)
TypeOK ==
  /\ suspend \in 0 .. MaxRequests /\ tags \subseteq Tags
  /\ ack \in [1 .. MaxRequests -> Futures]
  /\ resume \in Producers \cup {NoOne}
  /\ fut \in [Producers -> Futures] /\ leader \in [Producers -> Producers \cup {NoOne}]
  /\ at \in [Producers -> Tags \cup {NoTag}]
  /\ want \in [Operators -> SUBSET Tags] /\ asked \in [Operators -> 0 .. MaxRequests]
  /\ lock \in Tasks \cup {NoOne} /\ queue \in Seq(Tasks)
  /\ unheard \subseteq Tasks /\ pc \in [Tasks -> Locs]

Parked(p) == pc[p] \in {"settle", "wait"} /\ fut[p] = "pending"

(* All parked producers hang on the one resume signal, so that a single    *)
(* resume() releases them all, however parks, wake-ups, cancellations and  *)
(* new requests overlap.                                                   *)
SharedResume == \A p \in Producers : Parked(p) => leader[p] = resume /\ fut[resume] = "pending"

(* A producer that parks confirms the outstanding request: none is parked  *)
(* while the operator still waits to hear of it.                           *)
ParkConfirms ==
  \A p \in Producers : Parked(p) => suspend = 0 \/ ack[suspend] # "pending"

(* A producer stopped at a checkpoint gets past it: no wake-up is lost.  On *)
(* loops of several threads this is not so: resume() and the confirmation  *)
(* of a suspension resolve futures of other loops with set_result().       *)
ParkEnds == \A p \in Producers : pc[p] # "run" ~> pc[p] = "run"

(* It does get past it, through all overlaps of parks, requests, timeouts, *)
(* cancellations and resumes, when no loop sleeps for ever over a future   *)
(* that another thread has resolved.                                       *)
Awake         == \A t \in Tasks : []<>(t \notin unheard)
ParkEndsAwake == Awake => ParkEnds

(* resume() returns. *)
ResumeReturns == \A t \in Resuming : pc[t] = "blocked" ~> pc[t] # "blocked"
=============================================================================
