---------------------------- MODULE Interpreter ----------------------------
(***************************************************************************)
(* WorkflowInterpreter (runtime/workflow.py): the main loop of             *)
(* run_step_by, the subroutine calls that nodes and external tasks make    *)
(* with call_sub, panics, suspends, resets, and the tasks that wait for    *)
(* the run or terminate it.                                                *)
(*                                                                         *)
(* One step of the specification is the code a task executes between two   *)
(* awaits.  Callbacks of the event loop, or external tasks on other loops, *)
(* run between any two steps.                                              *)
(***************************************************************************)
EXTENDS Workflow, Sequences, FiniteSets

CONSTANTS
  Runners,        (* Tasks that call run().                                 *)
  Callers,        (* External tasks that call call_sub(interrupt=True).     *)
  Watchers,       (* Tasks that terminate() the run or await its future.    *)
  NoTask,
  MaxRuns,        (* Bound on the number of runs started.                   *)
  MaxNest,        (* Bound on call_sub frames of one task.                  *)
  Window,         (* When external tasks inject: "parked" is the documented *)
                  (* pattern (one at a time, while the loop is parked at    *)
                  (* PC_CHECKPOINT), "safe" that pattern unless the loop is *)
                  (* about to step past a halted node, "any" at any time.   *)
  WaitTimeouts,   (* Whether awaiting the run's future may time out.        *)
  FailAfterJump,  (* Whether a node that jumped may still fail or suspend,  *)
                  (* or the generator be closed on its result.              *)
  UserResets      (* Whether the user calls reset() between runs.           *)

Tasks == Runners \cup Callers

ASSUME InterpreterAssumption ==
  /\ Runners \cap Callers = {} /\ NoTask \notin Tasks
  /\ MaxRuns \in Nat /\ MaxNest \in Nat
  /\ Window \in {"parked", "safe", "any"}
  /\ {WaitTimeouts, FailAfterJump, UserResets} \subseteq BOOLEAN

VARIABLES
  pointer,   (* _pointer                                                    *)
  jmp, hlt,  (* the JMP and HLT bits of _flags                              *)
  outer,     (* __outer_interpreting                                        *)
  stack,     (* _ret_addr_stack                                             *)
  panic,     (* _panic_exc is not None                                      *)
  stopping,  (* _pending_stop                                               *)
  waiter,    (* _waiter_fut: number of the run whose future it is, or 0     *)
  future,    (* future[n]: state of the future of run n                     *)
  gate,      (* object_io at PC_CHECKPOINT: "open", "asked" to suspend or   *)
             (* "held" by a parked loop                                     *)
  lock,      (* holder of _interpret_lock                                   *)
  queue,     (* tasks waiting for it, first come first served               *)
  pc,        (* where each task is                                          *)
  frames,    (* frames[t]: nodes t is running, the innermost one last       *)
  awaits     (* awaits[w]: run whose future w awaits, or 0                  *)

regs  == <<pointer, jmp, hlt, outer, stack>>
life  == <<panic, stopping, waiter, future>>
sched == <<lock, queue, pc, frames>>
vars  == <<regs, life, gate, sched, awaits>>

Locs    == {"idle", "top", "parked", "resumed", "lockwait", "locked", "exec", "yielded",
            "closing"}
Futures == {"none", "pending", "done", "cancelled"}

-----------------------------------------------------------------------------
Active(r)     == pc[r] \notin {"idle", "closing"}
RunActive     == \E r \in Runners : Active(r)
WaiterPending == waiter # 0 /\ future[waiter] = "pending"
Node(t)       == frames[t][Len(frames[t])]

(* How many call_sub frames t has open: one for each of its nodes, except  *)
(* the node of the main loop; an external call opens its frame before it   *)
(* has the lock.                                                           *)
Calls(t) ==
  IF t \in Callers
  THEN IF pc[t] \in {"lockwait", "locked"} THEN 1 ELSE Len(frames[t])
  ELSE IF frames[t] = <<>> THEN 0 ELSE Len(frames[t]) - 1

(* asyncio clears _asyncio_future_blocking as soon as the awaiting task is *)
(* parked on the future, before any other callback can run.                *)
SeesAwaiter(n) == FALSE

Init ==
  /\ pointer = First /\ jmp = FALSE /\ hlt = FALSE /\ outer = FALSE /\ stack = <<>>
  /\ panic = FALSE /\ stopping = FALSE
  /\ waiter = 0 /\ future = [n \in 1 .. MaxRuns |-> "none"]
  /\ gate = "open"
  /\ lock = NoTask /\ queue = <<>>
  /\ pc = [t \in Tasks |-> "idle"]
  /\ frames = [t \in Tasks |-> <<>>]
  /\ awaits = [w \in Watchers |-> 0]

-----------------------------------------------------------------------------
(* The interpreter lock: aiologic.Lock hands over in order of arrival.     *)

TakeAnyway(t) ==   \* mutant: an interrupting call enters without the lock
  lock' = t /\ pc' = [pc EXCEPT ![t] = "locked"] /\ UNCHANGED queue

Take(t) ==
  IF lock = NoTask
  THEN lock' = t /\ pc' = [pc EXCEPT ![t] = "locked"] /\ UNCHANGED queue
  ELSE queue' = Append(queue, t) /\ pc' = [pc EXCEPT ![t] = "lockwait"] /\ UNCHANGED lock

ReleaseUnheard(t, to) ==   \* mutant: release does not wake the first in line
  lock' = NoTask /\ pc' = [pc EXCEPT ![t] = to] /\ UNCHANGED queue

Release(t, to) ==
  IF queue = <<>>
  THEN lock' = NoTask /\ pc' = [pc EXCEPT ![t] = to] /\ UNCHANGED queue
  ELSE /\ lock' = Head(queue) /\ queue' = Tail(queue)
       /\ pc' = [pc EXCEPT ![t] = to, ![Head(queue)] = "locked"]

(* The finally of run_step_by: resolve the future if somebody is seen to   *)
(* await it, then forget it, whichever run it belongs to.                  *)
RunEnds ==
  /\ future' = IF waiter # 0 /\ SeesAwaiter(waiter)
               THEN [future EXCEPT ![waiter] = "done"] ELSE future
  /\ waiter' = 0

(* Node code jumps to tgt (unless a jump is already marked), and the       *)
(* finally blocks of the k innermost call_sub frames run: each pops an     *)
(* address and, unless a jump is marked, puts the pointer back on it.      *)
Moves(tgt)       == tgt # Nil /\ ~jmp
PoppedOnce(k)    == IF k > 0 /\ stack # <<>> THEN 1 ELSE 0   \* mutant: one frame only
Popped(k)        == IF k <= Len(stack) THEN k ELSE Len(stack)
Rebases(k, tgt)  == Popped(k) > 0 /\ tgt = Nil /\ ~jmp

Unwind(k, tgt) ==
  /\ jmp' = (jmp \/ tgt # Nil)
  /\ pointer' = IF Moves(tgt) THEN tgt
                ELSE IF Rebases(k, tgt) THEN stack[Len(stack) - Popped(k) + 1] ELSE pointer
  /\ stack' = SubSeq(stack, 1, Len(stack) - Popped(k))
  /\ outer' = (outer /\ k = 0)

(* Moving the pointer clears HLT. *)
LeaveCalls(k, tgt) ==
  /\ Unwind(k, tgt)
  /\ hlt' = (hlt /\ ~Moves(tgt) /\ ~Rebases(k, tgt))

-----------------------------------------------------------------------------
(* The main loop.                                                          *)

StartUnguarded(r) ==   \* mutant: no check that a run is under way
  /\ pc[r] = "idle" /\ panic' = FALSE
  /\ \E n \in 1 .. MaxRuns :
       /\ future[n] = "none" /\ \A m \in 1 .. n - 1 : future[m] # "none"
       /\ waiter' = n /\ future' = [future EXCEPT ![n] = "pending"]
       /\ pc' = [pc EXCEPT ![r] = "top"]
  /\ UNCHANGED <<regs, stopping, gate, lock, queue, frames, awaits>>

(* run(): a recovered panic is forgotten, then a second run is refused.    *)
Start(r) ==
  /\ pc[r] = "idle"
  /\ panic' = FALSE
  /\ IF WaiterPending
     THEN UNCHANGED <<waiter, future, pc>>
     ELSE \E n \in 1 .. MaxRuns :
            /\ future[n] = "none" /\ \A m \in 1 .. n - 1 : future[m] # "none"
            /\ waiter' = n /\ future' = [future EXCEPT ![n] = "pending"]
            /\ pc' = [pc EXCEPT ![r] = "top"]
  /\ UNCHANGED <<regs, stopping, gate, lock, queue, frames, awaits>>

ProceedUnstopped(r) ==   \* mutant: _pending_stop is not looked at
  Take(r) /\ UNCHANGED <<stopping, waiter, future>>

(* What follows the checkpoint: a pending stop ends the run, otherwise the *)
(* loop goes for the lock.                                                 *)
Proceed(r) ==
  IF stopping
  THEN /\ stopping' = FALSE /\ RunEnds
       /\ pc' = [pc EXCEPT ![r] = "closing"]
       /\ UNCHANGED <<lock, queue>>
  ELSE Take(r) /\ UNCHANGED <<stopping, waiter, future>>

Pass(r) ==
  /\ pc[r] = "top" /\ gate # "asked" /\ Proceed(r)
  /\ UNCHANGED <<regs, panic, gate, frames, awaits>>

Park(r) ==
  /\ pc[r] = "top" /\ gate = "asked"
  /\ gate' = "held" /\ pc' = [pc EXCEPT ![r] = "parked"]
  /\ UNCHANGED <<regs, life, lock, queue, frames, awaits>>

Unpark(r) ==
  /\ pc[r] = "resumed" /\ Proceed(r)
  /\ UNCHANGED <<regs, panic, gate, frames, awaits>>

ResumeHalted(r) ==   \* mutant: resume_from_halt() leaves HLT set
  /\ r \in Runners /\ pc[r] = "locked" /\ hlt
  /\ hlt' = hlt /\ pointer' = AdvanceAddr(Entered(pointer))
  /\ IF pointer' = Nil
     THEN RunEnds /\ Release(r, "closing")
     ELSE Release(r, "top") /\ UNCHANGED <<waiter, future>>
  /\ UNCHANGED <<jmp, outer, stack, panic, stopping, gate, frames, awaits>>

(* Holding the lock: step past the node the workflow is halted on, or      *)
(* start the node the pointer addresses (a middleware may await first).    *)
Resume(r) ==
  /\ r \in Runners /\ pc[r] = "locked" /\ hlt
  /\ hlt' = FALSE /\ pointer' = AdvanceAddr(Entered(pointer))
  /\ IF pointer' = Nil
     THEN RunEnds /\ Release(r, "closing")
     ELSE Release(r, "top") /\ UNCHANGED <<waiter, future>>
  /\ UNCHANGED <<jmp, outer, stack, panic, stopping, gate, frames, awaits>>

Begin(t) ==
  /\ pc[t] = "locked" /\ (t \in Runners => ~hlt)
  /\ pointer' = Entered(pointer)
  /\ frames' = [frames EXCEPT ![t] = <<Entered(pointer)>>]
  /\ pc' = [pc EXCEPT ![t] = "exec"]
  /\ UNCHANGED <<jmp, hlt, outer, stack, life, gate, lock, queue, awaits>>

(* The consumer of run_step_by asks for more: a marked jump is consumed,   *)
(* otherwise the pointer advances; at the end the run is over.             *)
StepPast(r) ==
  /\ r \in Runners /\ pc[r] = "yielded"
  /\ frames' = [frames EXCEPT ![r] = <<>>]
  /\ jmp' = FALSE
  /\ pointer' = IF jmp THEN pointer ELSE AdvanceAddr(pointer)
  /\ IF ~jmp /\ pointer' = Nil
     THEN RunEnds /\ Release(r, "closing")
     ELSE Release(r, "top") /\ UNCHANGED <<waiter, future>>
  /\ UNCHANGED <<hlt, outer, stack, panic, stopping, gate, awaits>>

(* The consumer closes the generator instead: GeneratorExit at the yield.  *)
Abandon(r) ==
  /\ r \in Runners /\ pc[r] = "yielded" /\ (jmp => FailAfterJump)
  /\ frames' = [frames EXCEPT ![r] = <<>>]
  /\ RunEnds /\ Release(r, "idle")
  /\ UNCHANGED <<regs, panic, stopping, gate, awaits>>

Closed(r) ==   \* _close_workflow_scope returned
  /\ pc[r] = "closing" /\ pc' = [pc EXCEPT ![r] = "idle"]
  /\ UNCHANGED <<regs, life, gate, lock, queue, frames, awaits>>

-----------------------------------------------------------------------------
(* Node code.                                                              *)

(* A node runs another one by call_sub: it owns the lock, so no waiting.   *)
SubCall(t, h) ==
  /\ pc[t] = "exec" /\ h \in Subs[Node(t)] /\ Calls(t) < MaxNest
  /\ stack' = Append(stack, pointer) /\ pointer' = h /\ outer' = TRUE
  /\ frames' = [frames EXCEPT ![t] = Append(@, h)]
  /\ UNCHANGED <<jmp, hlt, life, gate, lock, queue, pc, awaits>>

(* The called node is over; an exception is its caller's to handle, which  *)
(* may end in any of its own ways.                                         *)
SubEnds(t, tgt) ==
  /\ pc[t] = "exec" /\ Len(frames[t]) > 1
  /\ Ends[Node(t)] \cap {"return", "raise"} # {} /\ tgt \in Jumps[Node(t)]
  /\ LeaveCalls(1, tgt)
  /\ frames' = [frames EXCEPT ![t] = SubSeq(@, 1, Len(@) - 1)]
  /\ UNCHANGED <<life, gate, lock, queue, pc, awaits>>

(* The node of the main loop returns; its result is yielded, the lock held. *)
Returns(r, tgt) ==
  /\ r \in Runners /\ pc[r] = "exec" /\ Len(frames[r]) = 1
  /\ "return" \in Ends[Node(r)] /\ tgt \in Jumps[Node(r)]
  /\ LeaveCalls(0, tgt)
  /\ pc' = [pc EXCEPT ![r] = "yielded"]
  /\ UNCHANGED <<life, gate, lock, queue, frames, awaits>>

(* It raises: a panic, which keeps pointer and stack for the next run.     *)
Panics(r, tgt) ==
  /\ r \in Runners /\ pc[r] = "exec" /\ Len(frames[r]) = 1
  /\ "raise" \in Ends[Node(r)] /\ tgt \in Jumps[Node(r)] /\ (tgt # Nil => FailAfterJump)
  /\ LeaveCalls(0, tgt) /\ panic' = TRUE
  /\ frames' = [frames EXCEPT ![r] = <<>>]
  /\ RunEnds /\ Release(r, "idle")
  /\ UNCHANGED <<stopping, gate, awaits>>

(* InterruptKeepContext, from any depth: the run ends halted; a jump the   *)
(* node made before stays marked.                                          *)
Halts(r, tgt) ==
  /\ r \in Runners /\ pc[r] = "exec" /\ "keep" \in Ends[Node(r)]
  /\ tgt \in Jumps[Node(r)] /\ (tgt # Nil => FailAfterJump)
  /\ Unwind(Calls(r), tgt) /\ hlt' = TRUE
  /\ frames' = [frames EXCEPT ![r] = <<>>]
  /\ RunEnds /\ Release(r, "idle")
  /\ UNCHANGED <<panic, stopping, gate, awaits>>

(* reset(): also cancels the future of the run.                            *)
Cleared ==
  /\ pointer' = Nil /\ stack' = <<>> /\ jmp' = FALSE /\ hlt' = FALSE
  /\ panic' = FALSE /\ stopping' = FALSE /\ waiter' = 0
  /\ future' = IF WaiterPending THEN [future EXCEPT ![waiter] = "cancelled"] ELSE future

(* InterruptNotice, from any depth: the run ends reset.                    *)
Resets(r) ==
  /\ r \in Runners /\ pc[r] = "exec" /\ "notice" \in Ends[Node(r)]
  /\ Cleared /\ outer' = (outer /\ Calls(r) = 0)
  /\ frames' = [frames EXCEPT ![r] = <<>>]
  /\ Release(r, "closing")
  /\ UNCHANGED <<gate, awaits>>

-----------------------------------------------------------------------------
(* External tasks.                                                         *)

MayInject ==
  \/ Window = "any"
  \/ /\ gate = "held" /\ \A e \in Callers : pc[e] = "idle"
     /\ Window = "safe" => ~hlt

(* call_sub(h, interrupt=True): the address is pushed and the pointer      *)
(* moved before the lock is asked for.                                     *)
Inject(e, h) ==
  /\ pc[e] = "idle" /\ MayInject
  /\ stack' = Append(stack, pointer) /\ pointer' = h /\ outer' = TRUE
  /\ Take(e)
  /\ UNCHANGED <<jmp, hlt, life, gate, frames, awaits>>

(* The injected node is over, in any way: lock released, frames unwound.   *)
InjectedEnds(e, tgt) ==
  /\ e \in Callers /\ pc[e] = "exec" /\ tgt \in Jumps[Node(e)]
  /\ \/ Len(frames[e]) = 1 /\ Ends[Node(e)] \cap {"return", "raise"} # {}
     \/ Ends[Node(e)] \cap {"keep", "notice"} # {} /\ (tgt # Nil => FailAfterJump)
  /\ LeaveCalls(Calls(e), tgt)
  /\ frames' = [frames EXCEPT ![e] = <<>>]
  /\ Release(e, "idle")
  /\ UNCHANGED <<life, gate, awaits>>

(* wait_to_suspend(PC_CHECKPOINT) and resume() of one operator, who, in    *)
(* the documented pattern, resumes when no injection is under way.         *)
AskSuspend ==
  /\ gate = "open" /\ RunActive /\ gate' = "asked"
  /\ UNCHANGED <<regs, life, sched, awaits>>

ResumeGate ==
  /\ gate = "held" /\ gate' = "open"
  /\ Window # "any" => \A e \in Callers : pc[e] = "idle"
  /\ pc' = [t \in Tasks |-> IF pc[t] = "parked" THEN "resumed" ELSE pc[t]]
  /\ UNCHANGED <<regs, life, lock, queue, frames, awaits>>

(* The request is withdrawn when no loop is left to honour it (timeout).   *)
GiveUpSuspend ==
  /\ gate = "asked" /\ ~RunActive /\ gate' = "open"
  /\ UNCHANGED <<regs, life, sched, awaits>>

(* terminate(): only the call that sets the flag waits for the run.        *)
Terminate(w) ==
  /\ awaits[w] = 0 /\ ~stopping /\ stopping' = TRUE
  /\ awaits' = [awaits EXCEPT ![w] = IF WaiterPending THEN waiter ELSE 0]
  /\ UNCHANGED <<regs, panic, waiter, future, gate, sched>>

AwaitRun(w) ==   \* await interpreter.wait
  /\ awaits[w] = 0 /\ waiter # 0
  /\ awaits' = [awaits EXCEPT ![w] = waiter]
  /\ UNCHANGED <<regs, life, gate, sched>>

Wake(w) ==
  /\ awaits[w] # 0 /\ future[awaits[w]] # "pending"
  /\ awaits' = [awaits EXCEPT ![w] = 0]
  /\ UNCHANGED <<regs, life, gate, sched>>

(* The await times out: cancelling it cancels the future itself.           *)
TimesOut(w) ==
  /\ WaitTimeouts /\ awaits[w] # 0 /\ future[awaits[w]] = "pending"
  /\ future' = [future EXCEPT ![awaits[w]] = "cancelled"]
  /\ awaits' = [awaits EXCEPT ![w] = 0]
  /\ UNCHANGED <<regs, panic, stopping, waiter, gate, sched>>

UserReset ==
  /\ UserResets /\ ~RunActive /\ \A e \in Callers : pc[e] = "idle"
  /\ Cleared
  /\ UNCHANGED <<outer, gate, sched, awaits>>

-----------------------------------------------------------------------------
RunnerNext(r) ==
  \/ Start(r) \/ Pass(r) \/ Park(r) \/ Unpark(r) \/ Resume(r)
  \/ StepPast(r) \/ Abandon(r) \/ Closed(r) \/ Resets(r)
  \/ \E tgt \in Addr \cup {Nil} : Returns(r, tgt) \/ Panics(r, tgt) \/ Halts(r, tgt)

NodeNext(t) ==
  \/ Begin(t)
  \/ \E h \in Addr : SubCall(t, h)
  \/ \E tgt \in Addr \cup {Nil} : SubEnds(t, tgt)

CallerNext(e) ==
  \/ \E h \in Handlers : Inject(e, h)
  \/ \E tgt \in Addr \cup {Nil} : InjectedEnds(e, tgt)

WatcherNext(w) == Terminate(w) \/ AwaitRun(w) \/ Wake(w) \/ TimesOut(w)

Next ==
  \/ \E r \in Runners : RunnerNext(r)
  \/ \E t \in Tasks : NodeNext(t)
  \/ \E e \in Callers : CallerNext(e)
  \/ \E w \in Watchers : WatcherNext(w)
  \/ AskSuspend \/ ResumeGate \/ GiveUpSuspend \/ UserReset

Spec == Init /\ [][Next]_vars

(* The event loop runs every ready task; node code ends, at every depth,   *)
(* after finitely many calls; the operator injects finitely often and then *)
(* resumes what he parked; the consumer goes on with the generator or      *)
(* closes it.  Nobody has to start a run, to inject, to stop or to reset.  *)
Fairness ==
  /\ \A r \in Runners :
       /\ WF_vars(Pass(r) \/ Park(r) \/ Unpark(r) \/ Resume(r) \/ Closed(r))
       /\ WF_vars(StepPast(r) \/ Abandon(r))
       /\ SF_vars(Resets(r)
                  \/ \E tgt \in Addr \cup {Nil} :
                       Returns(r, tgt) \/ Panics(r, tgt) \/ Halts(r, tgt))
  /\ \A e \in Callers : SF_vars(\E tgt \in Addr \cup {Nil} : InjectedEnds(e, tgt))
  /\ \A t \in Tasks :
       /\ WF_vars(Begin(t))
       /\ \A d \in 2 .. MaxNest + 1 :
            SF_vars(Len(frames[t]) = d /\ \E tgt \in Addr \cup {Nil} : SubEnds(t, tgt))
  /\ \A w \in Watchers : WF_vars(Wake(w))
  /\ SF_vars(ResumeGate) /\ WF_vars(GiveUpSuspend)

FairSpec == Spec /\ Fairness

-----------------------------------------------------------------------------
(* Properties. *)

(* Every variable keeps to the values the interpreter gives it. *)
TypeOK ==
  /\ pointer \in Addr \cup {Nil} /\ stack \in Seq(Addr \cup {Nil})
  /\ {jmp, hlt, outer, panic, stopping} \subseteq BOOLEAN
  /\ waiter \in 0 .. MaxRuns /\ future \in [1 .. MaxRuns -> Futures]
  /\ gate \in {"open", "asked", "held"}
  /\ lock \in Tasks \cup {NoTask} /\ queue \in Seq(Tasks)
  /\ pc \in [Tasks -> Locs]
  /\ frames \in [Tasks -> Seq(Addr)]
  /\ awaits \in [Watchers -> 0 .. MaxRuns]

(* Nodes never run concurrently: whatever external tasks inject and        *)
(* whenever they do, one task at a time is inside node code or between a   *)
(* node and the advance of the pointer.                                    *)
InNode(t) == pc[t] \in {"exec", "yielded"}
MutualExclusion == \A s, t \in Tasks : InNode(s) /\ InNode(t) => s = t

(* No hand-over of the lock is lost: whoever waits for it is in the queue, *)
(* and a task that is inside will release it to the first in line.         *)
WaitersInLine ==
  \A t \in Tasks : pc[t] = "lockwait" =>
    /\ \E i \in 1 .. Len(queue) : queue[i] = t
    /\ lock \in Tasks /\ pc[lock] \in {"locked", "exec", "yielded"}

(* The return-address stack holds one entry for each call under way, so    *)
(* when nothing is running it is empty, and the address the main loop will *)
(* return to is at the bottom.                                             *)
CallsOpen == UNION {{t} \X (1 .. Calls(t)) : t \in Tasks}

StackMatchesCalls == Len(stack) = Cardinality(CallsOpen)

(* run() refuses to start while a run is active, so that two loops never   *)
(* drive one pointer.                                                      *)
AtMostOneRun == \A q, r \in Runners : Active(q) /\ Active(r) => q = r

(* The workflow as its author sees it: the main loop's own nodes, with the *)
(* pointer read through the calls that external tasks have open.           *)
Running(r)  == r \in Runners /\ InNode(r)
MainRuns    == \E r \in Runners : Running(r)
MainPointer == IF \E e \in Callers : Calls(e) > 0 THEN stack[1] ELSE pointer

Position ==
  IF MainRuns
  THEN frames[CHOOSE r \in Runners : Running(r)][1]
  ELSE Entered(IF hlt THEN AdvanceAddr(Entered(MainPointer)) ELSE MainPointer)

Flow == INSTANCE WorkflowFlow WITH pos <- Position, inNode <- MainRuns

(* Nodes run in the order the workflow gives, each once, whatever is       *)
(* injected, suspended, stopped or resumed in between.                     *)
RunsInOrder == Flow!Spec

(* A stop request ends the active run. *)
StopTakesEffect == \A r \in Runners : stopping /\ Active(r) ~> ~Active(r)

(* A task that queues for the interpreter lock gets it. *)
LockIsGranted == \A t \in Tasks : pc[t] = "lockwait" ~> pc[t] = "locked"

(* wait resolves, and terminate() returns, when the run is over.           *)
WaitResolves == \A w \in Watchers : awaits[w] # 0 /\ ~RunActive ~> awaits[w] = 0
=============================================================================
