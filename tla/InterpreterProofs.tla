------------------------- MODULE InterpreterProofs -------------------------
(***************************************************************************)
(* Proofs about Interpreter, for every workflow and every number of tasks. *)
(* Type correctness comes first; the mutual exclusion of node code follows *)
(* from an invariant that relates the lock, its queue and the control      *)
(* state of the tasks, and so does its counterpart, that nobody waits for  *)
(* a lock that nobody will release.  A run at a time comes next, then, for *)
(* external tasks that inject in the documented window, that the           *)
(* interpreter implements WorkflowFlow, and last, that its return-address  *)
(* stack holds the calls under way.                                        *)
(***************************************************************************)
EXTENDS Interpreter, SequenceTheorems, FiniteSetTheorems, TLAPS

USE DEF Tasks

-----------------------------------------------------------------------------
(* Types of the helpers.                                                   *)

(* The address after one of a workflow, and the one where it starts.       *)
LEMMA AddrTypes ==
  /\ First \in Addr
  /\ \A p \in Addr \cup {Nil} : Entered(p) \in Addr /\ AdvanceAddr(p) \in Addr \cup {Nil}
BY WorkflowAssumption DEF Addr, Nil, First, Entered, AdvanceAddr

(* Asking for the lock keeps lock, queue and control state in their types. *)
LEMMA TakeType ==
  ASSUME TypeOK, NEW t \in Tasks, Take(t)
  PROVE  lock' \in Tasks \cup {NoTask} /\ queue' \in Seq(Tasks) /\ pc' \in [Tasks -> Locs]
<1>1. CASE lock = NoTask
  BY <1>1 DEF TypeOK, Take, Locs
<1>2. CASE lock # NoTask
  <2>1. queue' = Append(queue, t) /\ lock' = lock /\ pc' = [pc EXCEPT ![t] = "lockwait"]
    BY <1>2 DEF Take
  <2> QED
    BY <2>1, AppendProperties DEF TypeOK, Locs
<1> QED
  BY <1>1, <1>2

(* So does releasing it.                                                   *)
LEMMA ReleaseType ==
  ASSUME TypeOK, NEW t \in Tasks, NEW to \in Locs, Release(t, to)
  PROVE  lock' \in Tasks \cup {NoTask} /\ queue' \in Seq(Tasks) /\ pc' \in [Tasks -> Locs]
<1>1. CASE queue = <<>>
  BY <1>1 DEF TypeOK, Release
<1>2. CASE queue # <<>>
  <2>1. Head(queue) \in Tasks /\ Tail(queue) \in Seq(Tasks)
    BY <1>2, HeadTailProperties DEF TypeOK
  <2>2. /\ lock' = Head(queue) /\ queue' = Tail(queue)
        /\ pc' = [pc EXCEPT ![t] = to, ![Head(queue)] = "locked"]
    BY <1>2 DEF Release
  <2> QED
    BY <2>1, <2>2 DEF TypeOK, Locs
<1> QED
  BY <1>1, <1>2

(* The end of a run keeps the future and its owner in their types.         *)
LEMMA RunEndsType ==
  ASSUME TypeOK, RunEnds
  PROVE  waiter' \in 0 .. MaxRuns /\ future' \in [1 .. MaxRuns -> Futures]
BY InterpreterAssumption DEF TypeOK, RunEnds, SeesAwaiter, Futures

(* Unwinding frames pops existing addresses and may move the pointer there. *)
LEMMA UnwindType ==
  ASSUME TypeOK, NEW k \in Nat, NEW tgt \in Addr \cup {Nil}, Unwind(k, tgt)
  PROVE  /\ pointer' \in Addr \cup {Nil} /\ stack' \in Seq(Addr \cup {Nil})
         /\ jmp' \in BOOLEAN /\ outer' \in BOOLEAN
<1> DEFINE n == Len(stack)
           d == Popped(k)
<1>1. stack \in Seq(Addr \cup {Nil}) /\ n \in Nat
  BY LenProperties DEF TypeOK
<1>2. d \in 0 .. n
  BY <1>1 DEF Popped
<1>3. stack' \in Seq(Addr \cup {Nil})
  <2>1. stack' = SubSeq(stack, 1, n - d)
    BY DEF Unwind
  <2>2. n - d \in 0 .. n
    BY <1>1, <1>2
  <2> QED
    BY <1>1, <2>1, <2>2, SubSeqProperties
<1>4. Rebases(k, tgt) => stack[n - d + 1] \in Addr \cup {Nil}
  <2> SUFFICES ASSUME d > 0
               PROVE  stack[n - d + 1] \in Addr \cup {Nil}
    BY DEF Rebases
  <2>1. n - d + 1 \in 1 .. n
    BY <1>1, <1>2
  <2> QED
    BY <1>1, <2>1, ElementOfSeq
<1>5. pointer' \in Addr \cup {Nil}
  BY <1>4 DEF TypeOK, Unwind
<1> QED
  BY <1>3, <1>5 DEF TypeOK, Unwind

(* A task has a natural number of open frames.                             *)
LEMMA CallsType ==
  ASSUME TypeOK, NEW t \in Tasks
  PROVE  Calls(t) \in Nat
<1>1. frames[t] \in Seq(Addr)
  BY DEF TypeOK
<1>2. Len(frames[t]) \in Nat /\ (frames[t] # <<>> => Len(frames[t]) > 0)
  BY <1>1, LenProperties, EmptySeq
<1> QED
  BY <1>2 DEF Calls

(* reset() leaves every register and the future of the run in its type.    *)
LEMMA ClearedType ==
  ASSUME TypeOK, Cleared
  PROVE  /\ pointer' \in Addr \cup {Nil} /\ stack' \in Seq(Addr \cup {Nil})
         /\ {jmp', hlt', panic', stopping'} \subseteq BOOLEAN
         /\ waiter' \in 0 .. MaxRuns /\ future' \in [1 .. MaxRuns -> Futures]
<1>1. <<>> \in Seq(Addr \cup {Nil})
  BY EmptySeq
<1>2. /\ pointer' \in Addr \cup {Nil} /\ stack' \in Seq(Addr \cup {Nil})
      /\ {jmp', hlt', panic', stopping'} \subseteq BOOLEAN
  BY <1>1 DEF Cleared
<1>3. waiter' \in 0 .. MaxRuns
  BY InterpreterAssumption DEF Cleared
<1>4. future' \in [1 .. MaxRuns -> Futures]
  BY DEF Cleared, TypeOK, Futures
<1> QED
  BY <1>2, <1>3, <1>4

-----------------------------------------------------------------------------
(* Type correctness.                                                       *)

LEMMA TypeInit == Init => TypeOK
<1> SUFFICES ASSUME Init
             PROVE  TypeOK
  OBVIOUS
<1>1. <<>> \in Seq(Addr \cup {Nil}) /\ <<>> \in Seq(Tasks) /\ <<>> \in Seq(Addr)
  BY EmptySeq
<1>2. pointer \in Addr \cup {Nil} /\ {jmp, hlt, outer, panic, stopping} \subseteq BOOLEAN
  BY AddrTypes DEF Init
<1>3. /\ waiter \in 0 .. MaxRuns /\ future \in [1 .. MaxRuns -> Futures]
      /\ awaits \in [Watchers -> 0 .. MaxRuns] /\ gate \in {"open", "asked", "held"}
  BY InterpreterAssumption DEF Init, Futures
<1>4. /\ lock \in Tasks \cup {NoTask} /\ pc \in [Tasks -> Locs]
      /\ frames \in [Tasks -> Seq(Addr)]
  BY <1>1 DEF Init, Locs
<1> QED
  BY <1>1, <1>2, <1>3, <1>4 DEF Init, TypeOK

(* The step of every task and of the operator keeps the types.             *)
LEMMA TypeStep == TypeOK /\ [Next]_vars => TypeOK'
<1> SUFFICES ASSUME TypeOK, [Next]_vars
             PROVE  TypeOK'
  OBVIOUS
<1> USE DEF regs, life, sched
<1>1. ASSUME NEW r \in Runners, RunnerNext(r)
      PROVE  TypeOK'
  <2>1. CASE Start(r)
    <3>1. /\ waiter' \in 0 .. MaxRuns /\ future' \in [1 .. MaxRuns -> Futures]
          /\ pc' \in [Tasks -> Locs]
      <4>1. CASE WaiterPending
        BY <2>1, <4>1 DEF Start, TypeOK
      <4>2. CASE ~WaiterPending
        <5>1. PICK n \in 1 .. MaxRuns :
                /\ waiter' = n /\ future' = [future EXCEPT ![n] = "pending"]
                /\ pc' = [pc EXCEPT ![r] = "top"]
          BY <2>1, <4>2 DEF Start
        <5>2. waiter' \in 0 .. MaxRuns
          BY <5>1, InterpreterAssumption
        <5>3. future' \in [1 .. MaxRuns -> Futures]
          BY <5>1 DEF TypeOK, Futures
        <5> QED
          BY <5>1, <5>2, <5>3 DEF TypeOK, Locs
      <4> QED
        BY <4>1, <4>2
    <3> QED
      BY <2>1, <3>1 DEF Start, TypeOK
  <2>2. CASE Pass(r)
    BY <2>2, TakeType, RunEndsType DEF Pass, Proceed, TypeOK, Locs
  <2>3. CASE Park(r)
    BY <2>3 DEF Park, TypeOK, Locs
  <2>4. CASE Unpark(r)
    BY <2>4, TakeType, RunEndsType DEF Unpark, Proceed, TypeOK, Locs
  <2>5. CASE Resume(r)
    <3>1. pointer' \in Addr \cup {Nil}
      BY <2>5, AddrTypes DEF Resume, TypeOK
    <3>2. waiter' \in 0 .. MaxRuns /\ future' \in [1 .. MaxRuns -> Futures]
      BY <2>5, RunEndsType DEF Resume, TypeOK
    <3>3. lock' \in Tasks \cup {NoTask} /\ queue' \in Seq(Tasks) /\ pc' \in [Tasks -> Locs]
      BY <2>5, ReleaseType DEF Resume, Locs
    <3> QED
      BY <2>5, <3>1, <3>2, <3>3 DEF Resume, TypeOK
  <2>6. CASE StepPast(r)
    <3>1. pointer' \in Addr \cup {Nil}
      BY <2>6, AddrTypes DEF StepPast, TypeOK
    <3>2. waiter' \in 0 .. MaxRuns /\ future' \in [1 .. MaxRuns -> Futures]
      BY <2>6, RunEndsType DEF StepPast, TypeOK
    <3>3. lock' \in Tasks \cup {NoTask} /\ queue' \in Seq(Tasks) /\ pc' \in [Tasks -> Locs]
      BY <2>6, ReleaseType DEF StepPast, Locs
    <3>4. frames' \in [Tasks -> Seq(Addr)]
      BY <2>6, EmptySeq DEF StepPast, TypeOK
    <3> QED
      BY <2>6, <3>1, <3>2, <3>3, <3>4 DEF StepPast, TypeOK
  <2>7. CASE Abandon(r)
    <3>1. lock' \in Tasks \cup {NoTask} /\ queue' \in Seq(Tasks) /\ pc' \in [Tasks -> Locs]
      BY <2>7, ReleaseType DEF Abandon, Locs
    <3> QED
      BY <2>7, <3>1, RunEndsType DEF Abandon, TypeOK
  <2>8. CASE Closed(r)
    BY <2>8 DEF Closed, TypeOK, Locs
  <2>9. ASSUME NEW tgt \in Addr \cup {Nil}, Halts(r, tgt)
        PROVE  TypeOK'
    <3>1. Calls(r) \in Nat
      BY CallsType
    <3>2. /\ pointer' \in Addr \cup {Nil} /\ stack' \in Seq(Addr \cup {Nil})
          /\ jmp' \in BOOLEAN /\ outer' \in BOOLEAN
      BY <2>9, <3>1, UnwindType DEF Halts
    <3>3. lock' \in Tasks \cup {NoTask} /\ queue' \in Seq(Tasks) /\ pc' \in [Tasks -> Locs]
      BY <2>9, ReleaseType DEF Halts, Locs
    <3>4. waiter' \in 0 .. MaxRuns /\ future' \in [1 .. MaxRuns -> Futures]
      BY <2>9, RunEndsType DEF Halts
    <3> QED
      BY <2>9, <3>2, <3>3, <3>4 DEF Halts, TypeOK
  <2>10. CASE Resets(r)
    <3>1. lock' \in Tasks \cup {NoTask} /\ queue' \in Seq(Tasks) /\ pc' \in [Tasks -> Locs]
      BY <2>10, ReleaseType DEF Resets, Locs
    <3>2. frames' \in [Tasks -> Seq(Addr)]
      BY <2>10, EmptySeq DEF Resets, TypeOK
    <3>3. outer' \in BOOLEAN
      BY <2>10 DEF Resets
    <3> QED
      BY <2>10, <3>1, <3>2, <3>3, ClearedType DEF Resets, TypeOK
  <2>11. ASSUME NEW tgt \in Addr \cup {Nil}, Returns(r, tgt)
         PROVE  TypeOK'
    <3>1. /\ pointer' \in Addr \cup {Nil} /\ stack' \in Seq(Addr \cup {Nil})
          /\ jmp' \in BOOLEAN /\ outer' \in BOOLEAN
      BY <2>11, UnwindType DEF Returns, LeaveCalls
    <3> QED
      BY <2>11, <3>1 DEF Returns, LeaveCalls, TypeOK, Locs
  <2>12. ASSUME NEW tgt \in Addr \cup {Nil}, Panics(r, tgt)
         PROVE  TypeOK'
    <3>1. /\ pointer' \in Addr \cup {Nil} /\ stack' \in Seq(Addr \cup {Nil})
          /\ jmp' \in BOOLEAN /\ outer' \in BOOLEAN
      BY <2>12, UnwindType DEF Panics, LeaveCalls
    <3>2. lock' \in Tasks \cup {NoTask} /\ queue' \in Seq(Tasks) /\ pc' \in [Tasks -> Locs]
      BY <2>12, ReleaseType DEF Panics, Locs
    <3> QED
      BY <2>12, <3>1, <3>2, RunEndsType DEF Panics, LeaveCalls, TypeOK
  <2> QED
    BY <1>1, <2>1, <2>2, <2>3, <2>4, <2>5, <2>6, <2>7, <2>8, <2>9, <2>10, <2>11, <2>12
       DEF RunnerNext
<1>2. ASSUME NEW t \in Tasks, NodeNext(t)
      PROVE  TypeOK'
  <2>1. CASE Begin(t)
    <3>1. Entered(pointer) \in Addr
      BY AddrTypes DEF TypeOK
    <3> QED
      BY <2>1, <3>1 DEF Begin, TypeOK, Locs
  <2>2. ASSUME NEW h \in Addr, SubCall(t, h)
        PROVE  TypeOK'
    <3>1. Append(stack, pointer) \in Seq(Addr \cup {Nil}) /\ Append(frames[t], h) \in Seq(Addr)
      BY AppendProperties DEF TypeOK
    <3> QED
      BY <2>2, <3>1 DEF SubCall, TypeOK
  <2>3. ASSUME NEW tgt \in Addr \cup {Nil}, SubEnds(t, tgt)
        PROVE  TypeOK'
    <3>1. /\ pointer' \in Addr \cup {Nil} /\ stack' \in Seq(Addr \cup {Nil})
          /\ jmp' \in BOOLEAN /\ outer' \in BOOLEAN
      BY <2>3, UnwindType DEF SubEnds, LeaveCalls
    <3>2. SubSeq(frames[t], 1, Len(frames[t]) - 1) \in Seq(Addr)
      BY <2>3, SubSeqProperties, LenProperties DEF SubEnds, TypeOK
    <3>3. frames' \in [Tasks -> Seq(Addr)]
      BY <2>3, <3>2 DEF SubEnds, TypeOK
    <3> QED
      BY <2>3, <3>1, <3>3 DEF SubEnds, LeaveCalls, TypeOK
  <2> QED
    BY <1>2, <2>1, <2>2, <2>3 DEF NodeNext
<1>3. ASSUME NEW e \in Callers, CallerNext(e)
      PROVE  TypeOK'
  <2>1. ASSUME NEW h \in Handlers, Inject(e, h)
        PROVE  TypeOK'
    <3>1. Append(stack, pointer) \in Seq(Addr \cup {Nil}) /\ h \in Addr
      BY AppendProperties, WorkflowAssumption DEF TypeOK
    <3>2. lock' \in Tasks \cup {NoTask} /\ queue' \in Seq(Tasks) /\ pc' \in [Tasks -> Locs]
      BY <2>1, TakeType DEF Inject
    <3> QED
      BY <2>1, <3>1, <3>2 DEF Inject, TypeOK
  <2>2. ASSUME NEW tgt \in Addr \cup {Nil}, InjectedEnds(e, tgt)
        PROVE  TypeOK'
    <3>1. /\ pointer' \in Addr \cup {Nil} /\ stack' \in Seq(Addr \cup {Nil})
          /\ jmp' \in BOOLEAN /\ outer' \in BOOLEAN
      <4>1. Calls(e) \in Nat
        BY CallsType
      <4> QED
        BY <2>2, <4>1, UnwindType DEF InjectedEnds, LeaveCalls
    <3>2. lock' \in Tasks \cup {NoTask} /\ queue' \in Seq(Tasks) /\ pc' \in [Tasks -> Locs]
      BY <2>2, ReleaseType DEF InjectedEnds, Locs
    <3> QED
      BY <2>2, <3>1, <3>2 DEF InjectedEnds, LeaveCalls, TypeOK
  <2> QED
    BY <1>3, <2>1, <2>2 DEF CallerNext
<1>4. ASSUME NEW w \in Watchers, WatcherNext(w)
      PROVE  TypeOK'
  <2>1. CASE Terminate(w)
    <3>1. awaits' \in [Watchers -> 0 .. MaxRuns]
      BY <2>1, InterpreterAssumption DEF Terminate, TypeOK
    <3> QED
      BY <2>1, <3>1 DEF Terminate, TypeOK
  <2>2. CASE AwaitRun(w)
    BY <2>2 DEF AwaitRun, TypeOK
  <2>3. CASE Wake(w)
    <3>1. awaits' \in [Watchers -> 0 .. MaxRuns]
      BY <2>3, InterpreterAssumption DEF Wake, TypeOK
    <3> QED
      BY <2>3, <3>1 DEF Wake, TypeOK
  <2>4. CASE TimesOut(w)
    <3>1. awaits' \in [Watchers -> 0 .. MaxRuns]
      BY <2>4, InterpreterAssumption DEF TimesOut, TypeOK
    <3>2. future' \in [1 .. MaxRuns -> Futures]
      BY <2>4 DEF TimesOut, TypeOK, Futures
    <3> QED
      BY <2>4, <3>1, <3>2 DEF TimesOut, TypeOK
  <2> QED
    BY <1>4, <2>1, <2>2, <2>3, <2>4 DEF WatcherNext
<1>5. CASE AskSuspend \/ ResumeGate \/ GiveUpSuspend
  BY <1>5 DEF AskSuspend, ResumeGate, GiveUpSuspend, TypeOK, Locs
<1>6. CASE UserReset
  BY <1>6, ClearedType DEF UserReset, TypeOK
<1>7. CASE UNCHANGED vars
  BY <1>7 DEF vars, TypeOK
<1> QED
  BY <1>1, <1>2, <1>3, <1>4, <1>5, <1>6, <1>7 DEF Next

(* Type correctness: every variable of the interpreter keeps its type in   *)
(* every behaviour, whatever the workflow, the tasks and the window.       *)
THEOREM TypeCorrect == Spec => []TypeOK
<1> QED
  BY TypeInit, TypeStep, PTL DEF Spec

-----------------------------------------------------------------------------
(* Mutual exclusion.  MutualExclusion alone is not inductive: a task that  *)
(* is handed the lock must not be inside already, so the holder is the     *)
(* only task inside, and those in the queue, each once, are all waiting.   *)

Inside == {"locked", "exec", "yielded"}

LockInv ==
  /\ \A t \in Tasks : pc[t] \in Inside => lock = t
  /\ \A i \in 1 .. Len(queue) : pc[queue[i]] = "lockwait"
  /\ \A i, j \in 1 .. Len(queue) : queue[i] = queue[j] => i = j

(* Queueing for the lock, or taking a free one, from outside.              *)
LEMMA TakeLock ==
  ASSUME TypeOK, LockInv, NEW t \in Tasks, Take(t),
         lock = NoTask \/ pc[t] \notin Inside, pc[t] # "lockwait"
  PROVE  LockInv'
<1> USE InterpreterAssumption
<1>1. CASE lock = NoTask
  <2>1. lock' = t /\ pc' = [pc EXCEPT ![t] = "locked"] /\ queue' = queue
    BY <1>1 DEF Take
  <2>2. \A s \in Tasks : pc'[s] \in Inside => lock' = s
    BY <1>1, <2>1 DEF TypeOK, LockInv
  <2>3. \A i \in 1 .. Len(queue) : queue[i] \in Tasks
    BY ElementOfSeq DEF TypeOK
  <2> QED
    BY <2>1, <2>2, <2>3 DEF TypeOK, LockInv
<1>2. CASE lock # NoTask
  <2>1. queue' = Append(queue, t) /\ pc' = [pc EXCEPT ![t] = "lockwait"] /\ lock' = lock
    BY <1>2 DEF Take
  <2>2. /\ Len(queue') = Len(queue) + 1 /\ Len(queue) \in Nat
        /\ \A i \in 1 .. Len(queue) : queue'[i] = queue[i] /\ queue[i] \in Tasks
        /\ queue'[Len(queue) + 1] = t
    BY <2>1, AppendProperties, ElementOfSeq, LenProperties DEF TypeOK
  <2>3. \A s \in Tasks : pc'[s] \in Inside => lock' = s
    BY <2>1 DEF TypeOK, LockInv, Inside
  <2>4. \A i \in 1 .. Len(queue') : pc'[queue'[i]] = "lockwait"
    BY <2>1, <2>2 DEF TypeOK, LockInv
  <2>5. \A i \in 1 .. Len(queue) : queue[i] # t
    BY DEF LockInv
  <2>6. \A i, j \in 1 .. Len(queue') : queue'[i] = queue'[j] => i = j
    BY <2>2, <2>5 DEF LockInv
  <2> QED
    BY <2>3, <2>4, <2>6 DEF LockInv
<1> QED
  BY <1>1, <1>2

(* Leaving the lock: the first in line is the only one let in.             *)
LEMMA ReleaseLock ==
  ASSUME TypeOK, LockInv, NEW t \in Tasks, NEW to \in {"idle", "top", "closing"},
         pc[t] \in Inside, Release(t, to)
  PROVE  LockInv'
<1>1. lock = t /\ \A s \in Tasks : pc[s] \in Inside => s = t
  BY DEF LockInv
<1>2. pc[t] # "lockwait" /\ "lockwait" \notin Inside /\ to \notin Inside
  BY DEF Inside
<1>3. \A i \in 1 .. Len(queue) : queue[i] \in Tasks /\ queue[i] # t
  BY <1>2, ElementOfSeq DEF TypeOK, LockInv
<1>4. CASE queue = <<>>
  <2>1. lock' = NoTask /\ queue' = queue /\ pc' = [pc EXCEPT ![t] = to]
    BY <1>4 DEF Release
  <2>2. \A s \in Tasks : pc'[s] \notin Inside
    BY <1>1, <1>2, <2>1 DEF TypeOK
  <2>3. Len(queue') = 0
    BY <1>4, <2>1, EmptySeq
  <2> QED
    BY <2>2, <2>3 DEF LockInv
<1>5. CASE queue # <<>>
  <2> DEFINE h == Head(queue)
  <2>1. /\ lock' = h /\ queue' = Tail(queue)
        /\ pc' = [pc EXCEPT ![t] = to, ![h] = "locked"]
    BY <1>5 DEF Release
  <2>2. /\ Len(queue) \in Nat /\ Len(queue) > 0 /\ h = queue[1]
        /\ Len(Tail(queue)) = Len(queue) - 1
        /\ \A i \in 1 .. Len(Tail(queue)) : Tail(queue)[i] = queue[i + 1]
    BY <1>5, HeadTailProperties, LenProperties, EmptySeq DEF TypeOK
  <2>3. h \in Tasks /\ h # t
    BY <1>3, <2>2
  <2>4. \A s \in Tasks : pc'[s] \in Inside => s = h
    BY <1>1, <1>2, <2>1, <2>3 DEF TypeOK
  <2>5. \A i \in 1 .. Len(queue') : queue'[i] = queue[i + 1] /\ i + 1 \in 2 .. Len(queue)
    BY <2>1, <2>2
  <2>6. \A i \in 2 .. Len(queue) : queue[i] \in Tasks /\ queue[i] # t /\ queue[i] # h
    BY <1>3, <2>2 DEF LockInv
  <2>7. \A i \in 1 .. Len(queue') : pc'[queue'[i]] = "lockwait"
    <3>1. \A i \in 2 .. Len(queue) : pc'[queue[i]] = pc[queue[i]]
      BY <2>1, <2>3, <2>6 DEF TypeOK
    <3>2. \A i \in 2 .. Len(queue) : pc[queue[i]] = "lockwait"
      BY <2>2 DEF LockInv
    <3> QED
      BY <2>5, <3>1, <3>2
  <2>8. \A i, j \in 1 .. Len(queue') : queue'[i] = queue'[j] => i = j
    BY <2>1, <2>2, <2>5 DEF LockInv
  <2> QED
    BY <2>1, <2>4, <2>7, <2>8 DEF LockInv
<1> QED
  BY <1>4, <1>5

(* A task that moves without touching the lock stays on its side of it.    *)
LEMMA KeepLock ==
  ASSUME TypeOK, LockInv, NEW t \in Tasks, NEW to \in Locs,
         UNCHANGED <<lock, queue>>, pc' = [pc EXCEPT ![t] = to],
         pc[t] # "lockwait", to \in Inside => pc[t] \in Inside
  PROVE  LockInv'
<1>1. \A i \in 1 .. Len(queue) : queue[i] \in Tasks /\ queue[i] # t
  BY ElementOfSeq DEF TypeOK, LockInv
<1> QED
  BY <1>1 DEF TypeOK, LockInv

LEMMA LockInit == Init => LockInv
BY EmptySeq DEF Init, LockInv, Inside

LEMMA LockStep == TypeOK /\ LockInv /\ [Next]_vars => LockInv'
<1> SUFFICES ASSUME TypeOK, LockInv, [Next]_vars
             PROVE  LockInv'
  OBVIOUS
<1> USE DEF regs, life, sched
<1>1. ASSUME NEW r \in Runners, RunnerNext(r)
      PROVE  LockInv'
  <2>1. CASE Start(r)
    <3>1. CASE WaiterPending
      BY <2>1, <3>1 DEF Start, LockInv
    <3>2. CASE ~WaiterPending
      <4>1. pc' = [pc EXCEPT ![r] = "top"] /\ pc[r] = "idle"
        BY <2>1, <3>2 DEF Start
      <4> QED
        BY <2>1, <4>1, KeepLock DEF Start, Locs, Inside
    <3> QED
      BY <3>1, <3>2
  <2>2. CASE Pass(r) \/ Unpark(r)
    <3>1. pc[r] \in {"top", "resumed"} /\ Proceed(r)
      BY <2>2 DEF Pass, Unpark
    <3>2. CASE stopping
      BY <3>1, <3>2, KeepLock DEF Proceed, Locs, Inside
    <3>3. CASE ~stopping
      BY <3>1, <3>3, TakeLock DEF Proceed, Inside
    <3> QED
      BY <3>2, <3>3
  <2>3. CASE Park(r)
    BY <2>3, KeepLock DEF Park, Locs, Inside
  <2>4. CASE Resume(r)
    BY <2>4, ReleaseLock DEF Resume, Inside
  <2>5. CASE StepPast(r)
    BY <2>5, ReleaseLock DEF StepPast, Inside
  <2>6. CASE Abandon(r) \/ Resets(r)
    BY <2>6, ReleaseLock DEF Abandon, Resets, Inside
  <2>10. ASSUME NEW tgt \in Addr \cup {Nil}, Halts(r, tgt)
         PROVE  LockInv'
    BY <2>10, ReleaseLock DEF Halts, Inside
  <2>7. CASE Closed(r)
    BY <2>7, KeepLock DEF Closed, Locs, Inside
  <2>8. ASSUME NEW tgt \in Addr \cup {Nil}, Returns(r, tgt)
        PROVE  LockInv'
    BY <2>8, KeepLock DEF Returns, Locs, Inside
  <2>9. ASSUME NEW tgt \in Addr \cup {Nil}, Panics(r, tgt)
        PROVE  LockInv'
    BY <2>9, ReleaseLock DEF Panics, Inside
  <2> QED
    BY <1>1, <2>1, <2>2, <2>3, <2>4, <2>5, <2>6, <2>7, <2>8, <2>9, <2>10
       DEF RunnerNext
<1>2. ASSUME NEW t \in Tasks, NodeNext(t)
      PROVE  LockInv'
  <2>1. CASE Begin(t)
    BY <2>1, KeepLock DEF Begin, Locs, Inside
  <2>2. ASSUME NEW h \in Addr, SubCall(t, h)
        PROVE  LockInv'
    BY <2>2 DEF SubCall, LockInv
  <2>3. ASSUME NEW tgt \in Addr \cup {Nil}, SubEnds(t, tgt)
        PROVE  LockInv'
    BY <2>3 DEF SubEnds, LockInv
  <2> QED
    BY <1>2, <2>1, <2>2, <2>3 DEF NodeNext
<1>3. ASSUME NEW e \in Callers, CallerNext(e)
      PROVE  LockInv'
  <2>1. ASSUME NEW h \in Handlers, Inject(e, h)
        PROVE  LockInv'
    BY <2>1, TakeLock DEF Inject, Inside
  <2>2. ASSUME NEW tgt \in Addr \cup {Nil}, InjectedEnds(e, tgt)
        PROVE  LockInv'
    BY <2>2, ReleaseLock DEF InjectedEnds, Inside
  <2> QED
    BY <1>3, <2>1, <2>2 DEF CallerNext
<1>4. ASSUME NEW w \in Watchers, WatcherNext(w)
      PROVE  LockInv'
  BY <1>4 DEF WatcherNext, Terminate, AwaitRun, Wake, TimesOut, LockInv
<1>5. CASE ResumeGate
  <2>1. \A i \in 1 .. Len(queue) : queue[i] \in Tasks
    BY ElementOfSeq DEF TypeOK
  <2> QED
    BY <1>5, <2>1 DEF ResumeGate, TypeOK, LockInv, Inside
<1>6. CASE AskSuspend \/ GiveUpSuspend \/ UserReset
  BY <1>6 DEF AskSuspend, GiveUpSuspend, UserReset, LockInv
<1>7. CASE UNCHANGED vars
  BY <1>7 DEF vars, LockInv
<1> QED
  BY <1>1, <1>2, <1>3, <1>4, <1>5, <1>6, <1>7 DEF Next

(* Nodes never run concurrently, whatever external tasks inject and        *)
(* whenever they do, for every number of runners and callers.              *)
THEOREM NodesExclude == Spec => []MutualExclusion
<1>1. TypeOK /\ LockInv => MutualExclusion
  BY DEF LockInv, MutualExclusion, InNode, Inside
<1> QED
  BY <1>1, TypeInit, TypeStep, LockInit, LockStep, PTL DEF Spec

-----------------------------------------------------------------------------
(* The hand-over.  The holder of the lock is inside, so that it will       *)
(* release it; nobody waits for a free lock, and nobody waits unqueued.    *)

LineInv ==
  /\ lock # NoTask => pc[lock] \in Inside
  /\ queue # <<>> => lock # NoTask
  /\ \A t \in Tasks : pc[t] = "lockwait" => \E i \in 1 .. Len(queue) : queue[i] = t

LEMMA TakeLine ==
  ASSUME TypeOK, LockInv, LineInv, NEW t \in Tasks, Take(t),
         pc[t] \notin Inside, pc[t] # "lockwait"
  PROVE  LineInv'
<1>1. CASE lock = NoTask
  <2>1. /\ lock' = t /\ pc' = [pc EXCEPT ![t] = "locked"] /\ queue' = queue
        /\ t # NoTask
    BY <1>1, InterpreterAssumption DEF Take
  <2> QED
    BY <2>1 DEF LineInv, TypeOK, Inside
<1>2. CASE lock # NoTask
  <2>1. queue' = Append(queue, t) /\ pc' = [pc EXCEPT ![t] = "lockwait"] /\ lock' = lock
    BY <1>2 DEF Take
  <2>2. /\ Len(queue') = Len(queue) + 1 /\ Len(queue) \in Nat
        /\ \A i \in 1 .. Len(queue) : queue'[i] = queue[i]
        /\ queue'[Len(queue) + 1] = t
    BY <2>1, AppendProperties, LenProperties DEF TypeOK
  <2>3. pc'[lock'] \in Inside
    BY <1>2, <2>1 DEF LineInv, TypeOK
  <2>4. ASSUME NEW s \in Tasks, pc'[s] = "lockwait"
        PROVE  \E i \in 1 .. Len(queue') : queue'[i] = s
    <3>1. CASE s = t
      BY <2>2, <3>1
    <3>2. CASE s # t
      <4>1. PICK i \in 1 .. Len(queue) : queue[i] = s
        BY <2>1, <2>4, <3>2 DEF LineInv, TypeOK
      <4>2. i \in 1 .. Len(queue') /\ queue'[i] = s
        BY <2>2, <4>1
      <4> QED
        BY <4>2
    <3> QED
      BY <3>1, <3>2
  <2> QED
    BY <1>2, <2>1, <2>3, <2>4 DEF LineInv
<1> QED
  BY <1>1, <1>2

LEMMA ReleaseLine ==
  ASSUME TypeOK, LockInv, LineInv, NEW t \in Tasks, NEW to \in {"idle", "top", "closing"},
         pc[t] \in Inside, Release(t, to)
  PROVE  LineInv'
<1>1. CASE queue = <<>>
  <2>1. lock' = NoTask /\ queue' = queue /\ pc' = [pc EXCEPT ![t] = to]
    BY <1>1 DEF Release
  <2>2. \A s \in Tasks : pc[s] # "lockwait"
    BY <1>1, EmptySeq DEF LineInv
  <2>3. \A s \in Tasks : pc'[s] # "lockwait"
    BY <2>1, <2>2 DEF TypeOK
  <2> QED
    BY <1>1, <2>1, <2>3 DEF LineInv
<1>2. CASE queue # <<>>
  <2> DEFINE h == Head(queue)
  <2>1. lock' = h /\ queue' = Tail(queue) /\ pc' = [pc EXCEPT ![t] = to, ![h] = "locked"]
    BY <1>2 DEF Release
  <2>2. /\ Len(queue) \in Nat /\ Len(queue) > 0 /\ h = queue[1]
        /\ Len(Tail(queue)) = Len(queue) - 1
        /\ \A i \in 1 .. Len(Tail(queue)) : Tail(queue)[i] = queue[i + 1]
    BY <1>2, HeadTailProperties, LenProperties, EmptySeq DEF TypeOK
  <2>3. h \in Tasks /\ h # NoTask
    BY <2>2, ElementOfSeq, InterpreterAssumption DEF TypeOK
  <2> HIDE DEF h
  <2>4. pc'[h] = "locked" /\ \A s \in Tasks : s # h => pc'[s] = IF s = t THEN to ELSE pc[s]
    BY <2>1, <2>3 DEF TypeOK
  <2>5. ASSUME NEW s \in Tasks, pc'[s] = "lockwait"
        PROVE  \E i \in 1 .. Len(queue') : queue'[i] = s
    <3>1. s # h /\ pc[s] = "lockwait"
      BY <2>4, <2>5
    <3>2. PICK i \in 1 .. Len(queue) : queue[i] = s
      BY <3>1 DEF LineInv
    <3>3. i # 1
      BY <2>2, <3>1, <3>2
    <3>4. i - 1 \in 1 .. Len(Tail(queue)) /\ i - 1 + 1 = i
      BY <2>2, <3>2, <3>3
    <3> QED
      BY <2>1, <2>2, <3>2, <3>4
  <2> QED
    BY <2>1, <2>3, <2>4, <2>5 DEF LineInv, Inside
<1> QED
  BY <1>1, <1>2

(* Whoever moves without touching the lock does not walk away with it.     *)
LEMMA KeepLine ==
  ASSUME TypeOK, LineInv, NEW t \in Tasks, NEW to \in Locs,
         UNCHANGED <<lock, queue>>, pc' = [pc EXCEPT ![t] = to],
         to # "lockwait", pc[t] \in Inside => to \in Inside
  PROVE  LineInv'
BY DEF TypeOK, LineInv

LEMMA LineInit == Init => LineInv
BY DEF Init, LineInv

LEMMA LineStep == TypeOK /\ LockInv /\ LineInv /\ [Next]_vars => LineInv'
<1> SUFFICES ASSUME TypeOK, LockInv, LineInv, [Next]_vars
             PROVE  LineInv'
  OBVIOUS
<1> USE DEF regs, life, sched
<1>1. ASSUME NEW r \in Runners, RunnerNext(r)
      PROVE  LineInv'
  <2>1. CASE Start(r)
    <3>1. CASE WaiterPending
      BY <2>1, <3>1 DEF Start, LineInv
    <3>2. CASE ~WaiterPending
      <4>1. pc' = [pc EXCEPT ![r] = "top"] /\ pc[r] = "idle"
        BY <2>1, <3>2 DEF Start
      <4> QED
        BY <2>1, <4>1, KeepLine DEF Start, Locs, Inside
    <3> QED
      BY <3>1, <3>2
  <2>2. CASE Pass(r) \/ Unpark(r)
    <3>1. pc[r] \in {"top", "resumed"} /\ Proceed(r)
      BY <2>2 DEF Pass, Unpark
    <3>2. CASE stopping
      BY <3>1, <3>2, KeepLine DEF Proceed, Locs, Inside
    <3>3. CASE ~stopping
      BY <3>1, <3>3, TakeLine DEF Proceed, Inside
    <3> QED
      BY <3>2, <3>3
  <2>3. CASE Park(r)
    BY <2>3, KeepLine DEF Park, Locs, Inside
  <2>4. CASE Resume(r)
    BY <2>4, ReleaseLine DEF Resume, Inside
  <2>5. CASE StepPast(r)
    BY <2>5, ReleaseLine DEF StepPast, Inside
  <2>6. CASE Abandon(r) \/ Resets(r)
    BY <2>6, ReleaseLine DEF Abandon, Resets, Inside
  <2>10. ASSUME NEW tgt \in Addr \cup {Nil}, Halts(r, tgt)
         PROVE  LineInv'
    BY <2>10, ReleaseLine DEF Halts, Inside
  <2>7. CASE Closed(r)
    BY <2>7, KeepLine DEF Closed, Locs, Inside
  <2>8. ASSUME NEW tgt \in Addr \cup {Nil}, Returns(r, tgt)
        PROVE  LineInv'
    BY <2>8, KeepLine DEF Returns, Locs, Inside
  <2>9. ASSUME NEW tgt \in Addr \cup {Nil}, Panics(r, tgt)
        PROVE  LineInv'
    BY <2>9, ReleaseLine DEF Panics, Inside
  <2> QED
    BY <1>1, <2>1, <2>2, <2>3, <2>4, <2>5, <2>6, <2>7, <2>8, <2>9, <2>10
       DEF RunnerNext
<1>2. ASSUME NEW t \in Tasks, NodeNext(t)
      PROVE  LineInv'
  <2>1. CASE Begin(t)
    BY <2>1, KeepLine DEF Begin, Locs, Inside
  <2>2. CASE UNCHANGED <<lock, queue, pc>>
    BY <2>2 DEF LineInv
  <2> QED
    BY <1>2, <2>1, <2>2 DEF NodeNext, SubCall, SubEnds
<1>3. ASSUME NEW e \in Callers, CallerNext(e)
      PROVE  LineInv'
  <2>1. ASSUME NEW h \in Handlers, Inject(e, h)
        PROVE  LineInv'
    BY <2>1, TakeLine DEF Inject, Inside
  <2>2. ASSUME NEW tgt \in Addr \cup {Nil}, InjectedEnds(e, tgt)
        PROVE  LineInv'
    BY <2>2, ReleaseLine DEF InjectedEnds, Inside
  <2> QED
    BY <1>3, <2>1, <2>2 DEF CallerNext
<1>4. ASSUME NEW w \in Watchers, WatcherNext(w)
      PROVE  LineInv'
  BY <1>4 DEF WatcherNext, Terminate, AwaitRun, Wake, TimesOut, LineInv
<1>5. CASE ResumeGate
  <2>1. \A t \in Tasks : pc'[t] = pc[t] \/ (pc[t] = "parked" /\ pc'[t] = "resumed")
    BY <1>5 DEF ResumeGate, TypeOK
  <2>2. lock # NoTask => lock \in Tasks
    BY DEF TypeOK
  <2> QED
    BY <1>5, <2>1, <2>2 DEF ResumeGate, LineInv, Inside
<1>6. CASE AskSuspend \/ GiveUpSuspend \/ UserReset
  BY <1>6 DEF AskSuspend, GiveUpSuspend, UserReset, LineInv
<1>7. CASE UNCHANGED vars
  BY <1>7 DEF vars, LineInv
<1> QED
  BY <1>1, <1>2, <1>3, <1>4, <1>5, <1>6, <1>7 DEF Next

(* No hand-over of the interpreter lock is lost, for every number of       *)
(* runners and callers, wherever a run ends or a task is let in.           *)
THEOREM LockHandedOver == Spec => []WaitersInLine
<1>1. TypeOK /\ LockInv /\ LineInv => WaitersInLine
  <2> SUFFICES ASSUME TypeOK, LineInv, NEW t \in Tasks, pc[t] = "lockwait"
               PROVE  /\ \E i \in 1 .. Len(queue) : queue[i] = t
                      /\ lock \in Tasks /\ pc[lock] \in Inside
    BY DEF WaitersInLine, Inside
  <2>1. \E i \in 1 .. Len(queue) : queue[i] = t
    BY DEF LineInv
  <2>2. queue # <<>>
    BY <2>1, EmptySeq
  <2> QED
    BY <2>1, <2>2 DEF LineInv, TypeOK
<1> QED
  BY <1>1, TypeInit, TypeStep, LockInit, LockStep, LineInit, LineStep, PTL DEF Spec

-----------------------------------------------------------------------------
(* At most one run.  run() looks at the future of the run, not at the      *)
(* loops, so the invariant ties the two: an active loop has its future     *)
(* pending.  A timeout of whoever awaits the future breaks the tie, which  *)
(* is why the theorem assumes that no one's await times out.               *)

RunInv ==
  /\ \A q \in Runners : Active(q) => WaiterPending
  /\ AtMostOneRun

(* A step that starts no loop and leaves the future alone.                 *)
LEMMA SameRun ==
  ASSUME RunInv, \A q \in Runners : Active(q)' => Active(q), UNCHANGED <<waiter, future>>
  PROVE  RunInv'
BY DEF RunInv, AtMostOneRun, WaiterPending

(* A step that ends the only loop.                                         *)
LEMMA LastRun ==
  ASSUME RunInv, \A q \in Runners : Active(q)' => Active(q),
         NEW r \in Runners, Active(r), ~Active(r)'
  PROVE  RunInv'
BY DEF RunInv, AtMostOneRun

(* Waiting for the lock and being handed it are parts of an active run.    *)
LEMMA TakeActive ==
  ASSUME TypeOK, NEW t \in Tasks, Take(t), t \in Runners => Active(t)
  PROVE  \A q \in Runners : Active(q)' => Active(q)
BY DEF TypeOK, Take, Active

LEMMA ReleaseActive ==
  ASSUME TypeOK, LockInv, NEW t \in Tasks, NEW to \in Locs, pc[t] \in Inside, Release(t, to)
  PROVE  /\ \A q \in Runners : Active(q)' => Active(q)
         /\ pc'[t] = to
<1>1. CASE queue = <<>>
  BY <1>1 DEF Release, TypeOK, Active, Inside
<1>2. CASE queue # <<>>
  <2> DEFINE h == Head(queue)
  <2>1. h \in Tasks /\ pc[h] = "lockwait"
    <3>1. h = queue[1] /\ 1 \in 1 .. Len(queue)
      BY <1>2, HeadTailProperties, LenProperties, EmptySeq DEF TypeOK
    <3> QED
      BY <3>1, ElementOfSeq DEF TypeOK, LockInv
  <2>2. pc' = [pc EXCEPT ![t] = to, ![h] = "locked"]
    BY <1>2 DEF Release
  <2>3. h # t
    BY <2>1 DEF Inside
  <2> QED
    BY <2>1, <2>2, <2>3 DEF TypeOK, Active, Inside
<1> QED
  BY <1>1, <1>2

LEMMA RunInit == Init => RunInv
BY DEF Init, RunInv, AtMostOneRun, Active

LEMMA RunStep ==
  ASSUME ~WaitTimeouts
  PROVE  TypeOK /\ LockInv /\ RunInv /\ [Next]_vars => RunInv'
<1> SUFFICES ASSUME TypeOK, LockInv, RunInv, [Next]_vars
             PROVE  RunInv'
  OBVIOUS
<1> USE DEF regs, life, sched
<1>1. ASSUME NEW r \in Runners, RunnerNext(r)
      PROVE  RunInv'
  <2>1. CASE Start(r)
    <3>1. CASE WaiterPending
      BY <2>1, <3>1, SameRun DEF Start, Active
    <3>2. CASE ~WaiterPending
      <4>1. \A q \in Runners : ~Active(q)
        BY <3>2 DEF RunInv
      <4>2. PICK n \in 1 .. MaxRuns :
              /\ waiter' = n /\ future' = [future EXCEPT ![n] = "pending"]
              /\ pc' = [pc EXCEPT ![r] = "top"]
        BY <2>1, <3>2 DEF Start
      <4>3. WaiterPending'
        BY <4>2, InterpreterAssumption DEF WaiterPending, TypeOK
      <4>4. \A q \in Runners : Active(q)' => q = r
        BY <4>1, <4>2 DEF TypeOK, Active
      <4> QED
        BY <4>3, <4>4 DEF RunInv, AtMostOneRun
    <3> QED
      BY <3>1, <3>2
  <2>2. CASE Pass(r) \/ Unpark(r)
    <3>1. pc[r] \in {"top", "resumed"} /\ Proceed(r) /\ Active(r)
      BY <2>2 DEF Pass, Unpark, Active
    <3>2. CASE stopping
      <4>1. pc' = [pc EXCEPT ![r] = "closing"]
        BY <3>1, <3>2 DEF Proceed
      <4>2. ~Active(r)' /\ \A q \in Runners : Active(q)' => Active(q)
        BY <4>1 DEF TypeOK, Active
      <4> QED
        BY <3>1, <4>2, LastRun
    <3>3. CASE ~stopping
      BY <3>1, <3>3, TakeActive, SameRun DEF Proceed
    <3> QED
      BY <3>2, <3>3
  <2>3. CASE Park(r)
    <3>1. \A q \in Runners : Active(q)' => Active(q)
      BY <2>3 DEF Park, TypeOK, Active
    <3> QED
      BY <2>3, <3>1, SameRun DEF Park
  <2>4. CASE Resume(r) \/ StepPast(r)
    <3>1. pc[r] \in Inside /\ Active(r)
      BY <2>4 DEF Resume, StepPast, Inside, Active
    <3>2. \/ Release(r, "closing")
          \/ Release(r, "top") /\ UNCHANGED <<waiter, future>>
      BY <2>4 DEF Resume, StepPast
    <3>3. CASE Release(r, "closing")
      <4>1. pc'[r] = "closing" /\ \A q \in Runners : Active(q)' => Active(q)
        BY <3>1, <3>3, ReleaseActive DEF Locs
      <4>2. ~Active(r)'
        BY <4>1 DEF Active
      <4> QED
        BY <3>1, <4>1, <4>2, LastRun
    <3>4. CASE Release(r, "top") /\ UNCHANGED <<waiter, future>>
      BY <3>1, <3>4, ReleaseActive, SameRun DEF Locs
    <3> QED
      BY <3>2, <3>3, <3>4
  <2>5. ASSUME NEW to \in {"idle", "closing"}, pc[r] \in Inside, Release(r, to)
        PROVE  RunInv'
    <3>1. pc'[r] = to /\ \A q \in Runners : Active(q)' => Active(q)
      BY <2>5, ReleaseActive DEF Locs
    <3>2. Active(r) /\ ~Active(r)'
      BY <2>5, <3>1 DEF Active, Inside
    <3> QED
      BY <3>1, <3>2, LastRun
  <2>6. CASE Abandon(r) \/ Resets(r)
    BY <2>5, <2>6 DEF Abandon, Resets, Inside
  <2>10. ASSUME NEW tgt \in Addr \cup {Nil}, Halts(r, tgt)
         PROVE  RunInv'
    BY <2>5, <2>10 DEF Halts, Inside
  <2>7. ASSUME NEW tgt \in Addr \cup {Nil}, Panics(r, tgt)
        PROVE  RunInv'
    BY <2>5, <2>7 DEF Panics, Inside
  <2>8. CASE Closed(r)
    <3>1. \A q \in Runners : Active(q)' => Active(q)
      BY <2>8 DEF Closed, TypeOK, Active
    <3> QED
      BY <2>8, <3>1, SameRun DEF Closed
  <2>9. ASSUME NEW tgt \in Addr \cup {Nil}, Returns(r, tgt)
        PROVE  RunInv'
    <3>1. \A q \in Runners : Active(q)' => Active(q)
      BY <2>9 DEF Returns, TypeOK, Active
    <3> QED
      BY <2>9, <3>1, SameRun DEF Returns
  <2> QED
    BY <1>1, <2>1, <2>2, <2>3, <2>4, <2>6, <2>7, <2>8, <2>9, <2>10 DEF RunnerNext
<1>2. ASSUME NEW t \in Tasks, NodeNext(t)
      PROVE  RunInv'
  <2>1. UNCHANGED <<waiter, future>>
    BY <1>2 DEF NodeNext, Begin, SubCall, SubEnds
  <2>2. pc' = pc \/ (pc[t] = "locked" /\ pc' = [pc EXCEPT ![t] = "exec"])
    BY <1>2 DEF NodeNext, Begin, SubCall, SubEnds
  <2>3. \A q \in Runners : Active(q)' => Active(q)
    BY <2>2 DEF TypeOK, Active
  <2> QED
    BY <2>1, <2>3, SameRun
<1>3. ASSUME NEW e \in Callers, CallerNext(e)
      PROVE  RunInv'
  <2>1. e \notin Runners /\ UNCHANGED <<waiter, future>>
    BY <1>3, InterpreterAssumption DEF CallerNext, Inject, InjectedEnds
  <2>2. \/ Take(e)
        \/ pc[e] \in Inside /\ Release(e, "idle")
    BY <1>3 DEF CallerNext, Inject, InjectedEnds, Inside
  <2>3. \A q \in Runners : Active(q)' => Active(q)
    BY <2>1, <2>2, TakeActive, ReleaseActive DEF Locs
  <2> QED
    BY <2>1, <2>3, SameRun
<1>4. ASSUME NEW w \in Watchers, WatcherNext(w)
      PROVE  RunInv'
  <2>1. UNCHANGED <<waiter, future, pc>>
    BY <1>4 DEF WatcherNext, Terminate, AwaitRun, Wake, TimesOut
  <2> QED
    BY <2>1, SameRun DEF Active
<1>5. CASE AskSuspend \/ ResumeGate \/ GiveUpSuspend
  <2>1. \A q \in Runners : Active(q)' => Active(q)
    BY <1>5 DEF AskSuspend, ResumeGate, GiveUpSuspend, TypeOK, Active
  <2> QED
    BY <1>5, <2>1, SameRun DEF AskSuspend, ResumeGate, GiveUpSuspend
<1>6. CASE UserReset
  BY <1>6 DEF UserReset, RunActive, Active, RunInv, AtMostOneRun
<1>7. CASE UNCHANGED vars
  <2>1. UNCHANGED <<waiter, future, pc>>
    BY <1>7 DEF vars
  <2> QED
    BY <2>1, SameRun DEF Active
<1> QED
  BY <1>1, <1>2, <1>3, <1>4, <1>5, <1>6, <1>7 DEF Next

(* As long as nobody's await of the run times out, two loops never drive   *)
(* the interpreter at the same time, however runs are started, stopped,    *)
(* abandoned, panicked, reset and recovered.                               *)
THEOREM OneRunAtATime ==
  ASSUME ~WaitTimeouts
  PROVE  Spec => []AtMostOneRun
<1>1. RunInv => AtMostOneRun
  BY DEF RunInv
<1>2. TypeOK /\ LockInv /\ RunInv /\ [Next]_vars => RunInv'
  BY RunStep
<1> QED
  BY <1>1, <1>2, TypeInit, TypeStep, LockInit, LockStep, RunInit, PTL DEF Spec

-----------------------------------------------------------------------------
(* Nodes in order: Interpreter implements WorkflowFlow.  This holds as long *)
(* as external tasks inject in the documented window, the loop parked and  *)
(* not halted, and what is called keeps to the two rules of Workflow.      *)

Orderly == Window = "safe" /\ ~WaitTimeouts /\ ~FailAfterJump /\ CallsStay /\ Propagates

(* Nobody queues for the lock; a caller that is not idle holds it, while   *)
(* the loop is parked.                                                     *)
Alone ==
  /\ queue = <<>> /\ (lock # NoTask => pc[lock] \in Inside)
  /\ \A t \in Tasks : pc[t] # "lockwait"
  /\ gate = "held" <=> \E r \in Runners : pc[r] = "parked"
  /\ \A e \in Callers : pc[e] \in {"idle", "locked", "exec"}
  /\ \A e \in Callers : pc[e] # "idle" => gate = "held" /\ ~hlt

(* Who is in a node runs frames: the outermost one may end in any way an   *)
(* inner one interrupts it, and what is called is called by somebody.      *)
Framed ==
  \A t \in Tasks :
    /\ frames[t] # <<>> <=> InNode(t)
    /\ pc[t] = "yielded" => Len(frames[t]) = 1
    /\ \A k \in 1 .. Len(frames[t]) :
         /\ k > 1 \/ t \in Callers => frames[t][k] \in Called
         /\ Ends[frames[t][k]] \cap {"keep", "notice"} \subseteq Ends[frames[t][1]]

(* Where the pointer is once every open call has returned. *)
Outermost == IF stack = <<>> THEN pointer ELSE stack[1]

Calling(t) == pc[t] = "exec" \/ (t \in Callers /\ pc[t] = "locked")

(* The stack is as high as the calls are deep, and its bottom is where the *)
(* node of the loop is, or where the parked loop will go on.               *)
Stacked ==
  /\ \A r \in Runners : pc[r] = "exec" =>
       ~hlt /\ ~jmp /\ Len(stack) = Len(frames[r]) - 1 /\ frames[r][1] = Outermost
  /\ \A r \in Runners : pc[r] = "yielded" =>
       /\ ~hlt /\ stack = <<>> /\ "return" \in Ends[frames[r][1]]
       /\ IF jmp THEN pointer \in Jumps[frames[r][1]] \ {Nil} ELSE pointer = frames[r][1]
  /\ \A e \in Callers : pc[e] = "locked" => Len(stack) = 1 /\ pointer \in Handlers
  /\ \A e \in Callers : pc[e] = "exec" => Len(stack) = Len(frames[e])
  /\ stack # <<>> => \E t \in Tasks : Calling(t)
  /\ jmp => \E r \in Runners : pc[r] = "yielded"

FInv == TypeOK /\ LockInv /\ RunInv /\ Alone /\ Framed /\ Stacked

(* While the loop runs, unless it is parked, no caller is under way and no *)
(* other loop is.                                                          *)
LEMMA RunnerAlone ==
  ASSUME FInv, NEW r \in Runners, Active(r), pc[r] # "parked"
  PROVE  /\ gate # "held" /\ \A e \in Callers : pc[e] = "idle"
         /\ \A t \in Tasks : t # r => pc[t] \in {"idle", "closing"}
<1>1. \A q \in Runners : q # r => pc[q] \in {"idle", "closing"}
  BY DEF FInv, RunInv, AtMostOneRun, Active
<1>2. \A q \in Runners : pc[q] # "parked"
  BY <1>1
<1>3. gate # "held"
  BY <1>2 DEF FInv, Alone
<1>4. \A e \in Callers : pc[e] = "idle"
  BY <1>3 DEF FInv, Alone
<1> QED
  BY <1>1, <1>3, <1>4

(* While a caller is under way, no other one is, and the loop is parked.   *)
LEMMA CallerAlone ==
  ASSUME FInv, NEW e \in Callers, pc[e] # "idle"
  PROVE  /\ gate = "held" /\ ~hlt /\ pc[e] \in {"locked", "exec"}
         /\ \A t \in Tasks : t # e => pc[t] \in {"idle", "closing", "parked"}
<1>1. gate = "held" /\ ~hlt /\ pc[e] \in {"locked", "exec"}
  BY DEF FInv, Alone
<1>2. \A t \in Tasks : t # e => pc[t] \notin Inside
  BY <1>1 DEF FInv, LockInv, Inside
<1>3. PICK p \in Runners : pc[p] = "parked"
  BY <1>1 DEF FInv, Alone
<1>4. \A q \in Runners : q # p => pc[q] \in {"idle", "closing"}
  BY <1>3 DEF FInv, RunInv, AtMostOneRun, Active
<1>5. \A d \in Callers : d # e => pc[d] = "idle"
  BY <1>2 DEF FInv, Alone, Inside
<1> QED
  BY <1>1, <1>3, <1>4, <1>5

(* A task outside has no frames.                                           *)
LEMMA NoFrames ==
  ASSUME FInv, NEW t \in Tasks, pc[t] \notin {"exec", "yielded"}
  PROVE  frames[t] = <<>> /\ Len(frames[t]) = 0
BY EmptySeq DEF FInv, Framed, InNode

(* Asking for a free lock, with nobody inside, is getting it.              *)
LEMMA TakeFree ==
  ASSUME FInv, NEW t \in Tasks, \A s \in Tasks : pc[s] \notin Inside, Take(t)
  PROVE  lock' = t /\ pc' = [pc EXCEPT ![t] = "locked"] /\ queue' = <<>>
<1>1. lock \in Tasks \cup {NoTask}
  BY DEF FInv, TypeOK
<1>2. lock = NoTask
  BY <1>1 DEF FInv, Alone
<1> QED
  BY <1>2 DEF FInv, Alone, Take

LEMMA ReleaseFree ==
  ASSUME FInv, NEW t \in Tasks, NEW to, Release(t, to)
  PROVE  lock' = NoTask /\ pc' = [pc EXCEPT ![t] = to] /\ queue' = <<>>
BY DEF FInv, Alone, Release

-----------------------------------------------------------------------------
(* Steps that leave nodes and registers alone.                             *)

LEMMA Elsewhere ==
  ASSUME FInv, UNCHANGED <<pointer, jmp, hlt, stack, frames>>,
         \A t \in Tasks : pc'[t] = pc[t] \/ (t \in Runners /\ {pc[t], pc'[t]} \cap {"exec", "yielded"} = {})
  PROVE  Framed' /\ Stacked'
<1>1. Runners \cap Callers = {}
  BY InterpreterAssumption
<1>2. \A t \in Tasks : \A p \in {"exec", "yielded"} : pc'[t] = p <=> pc[t] = p
  OBVIOUS
<1>3. \A e \in Callers : pc'[e] = pc[e]
  BY <1>1
<1>4. Framed'
  <2>1. \A t \in Tasks : InNode(t)' <=> InNode(t)
    BY <1>2 DEF InNode
  <2> QED
    BY <1>2, <2>1 DEF FInv, Framed
<1>5. Stacked'
  <2>1. stack' # <<>> => \E t \in Tasks : Calling(t)'
    BY <1>2, <1>3 DEF FInv, Stacked, Calling
  <2>2. jmp' => \E r \in Runners : pc'[r] = "yielded"
    BY <1>2 DEF FInv, Stacked
  <2> QED
    BY <1>2, <1>3, <2>1, <2>2 DEF FInv, Stacked, Outermost
<1> QED
  BY <1>4, <1>5

(* A loop that moves outside of the nodes, neither parking nor unparking.  *)
LEMMA LoopMoves ==
  ASSUME FInv, NEW r \in Runners, NEW to \in {"idle", "top", "closing"},
         pc[r] \in {"idle", "top", "resumed", "closing"},
         UNCHANGED <<pointer, jmp, hlt, stack, frames, gate, lock, queue>>,
         pc' = [pc EXCEPT ![r] = to]
  PROVE  Alone' /\ Framed' /\ Stacked'
<1>1. Runners \cap Callers = {} /\ NoTask \notin Tasks
  BY InterpreterAssumption
<1>2. \A t \in Tasks : pc'[t] = IF t = r THEN to ELSE pc[t]
  BY DEF FInv, TypeOK
<1>3. Framed' /\ Stacked'
  BY <1>2, Elsewhere
<1>4. \A q \in Runners : pc'[q] = "parked" <=> pc[q] = "parked"
  BY <1>2
<1>5. lock # NoTask => lock # r /\ lock \in Tasks
  BY DEF FInv, TypeOK, Alone, Inside
<1>6. Alone'
  BY <1>1, <1>2, <1>4, <1>5 DEF FInv, Alone
<1> QED
  BY <1>3, <1>6

-----------------------------------------------------------------------------
(* Unwinding the calls.                                                    *)

LEMMA StackType ==
  ASSUME FInv
  PROVE  stack \in Seq(Addr \cup {Nil}) /\ Len(stack) \in Nat /\ (stack = <<>> <=> Len(stack) = 0)
BY LenProperties, EmptySeq DEF FInv, TypeOK

(* A sequence without its last element.                                    *)
LEMMA Butlast ==
  ASSUME NEW S, NEW s \in Seq(S), Len(s) > 0
  PROVE  /\ SubSeq(s, 1, Len(s) - 1) \in Seq(S)
         /\ Len(SubSeq(s, 1, Len(s) - 1)) = Len(s) - 1
         /\ \A i \in 1 .. Len(s) - 1 : SubSeq(s, 1, Len(s) - 1)[i] = s[i]
<1> DEFINE n == Len(s)
           q == SubSeq(s, 1, n - 1)
<1>1. n \in Nat /\ n > 0
  BY LenProperties
<1>2. \A i \in 1 .. n - 1 : s[i] \in S
  BY <1>1, ElementOfSeq
<1>3. /\ q \in Seq(S) /\ Len(q) = IF 1 <= n - 1 THEN n - 1 - 1 + 1 ELSE 0
      /\ \A i \in 1 .. n - 1 - 1 + 1 : q[i] = s[1 + i - 1]
  BY <1>1, <1>2, SubSeqProperties
<1> HIDE DEF n, q
<1>4. CASE n = 1
  BY <1>3, <1>4 DEF n, q
<1>5. CASE n > 1
  <2>1. 1 <= n - 1 /\ n - 1 - 1 + 1 = n - 1
    BY <1>1, <1>5
  <2>2. Len(q) = n - 1
    BY <1>3, <2>1
  <2>3. ASSUME NEW i \in 1 .. n - 1
        PROVE  q[i] = s[i]
    <3>1. i \in 1 .. n - 1 - 1 + 1 /\ 1 + i - 1 = i
      BY <1>1
    <3> QED
      BY <1>3, <3>1
  <2> QED
    BY <1>3, <2>2, <2>3 DEF n, q
<1> QED
  BY <1>1, <1>4, <1>5

(* All of them, without a jump: the pointer is back where it was.          *)
LEMMA UnwindAll ==
  ASSUME FInv, ~jmp, Unwind(Len(stack), Nil)
  PROVE  stack' = <<>> /\ pointer' = Outermost /\ jmp' = FALSE
<1> DEFINE n == Len(stack)
<1>1. n \in Nat /\ (stack = <<>> <=> n = 0) /\ stack \in Seq(Addr \cup {Nil})
  BY StackType
<1>2. Popped(n) = n /\ n - n = 0 /\ n - n + 1 = 1
  BY <1>1 DEF Popped
<1>3. stack' = SubSeq(stack, 1, 0)
  BY <1>2 DEF Unwind
<1>4. stack' \in Seq(Addr \cup {Nil}) /\ Len(stack') = 0
  BY <1>1, <1>3, SubSeqProperties
<1>5. Rebases(n, Nil) <=> n > 0
  BY <1>1, <1>2 DEF Rebases
<1>6. pointer' = IF n > 0 THEN stack[1] ELSE pointer
  BY <1>2, <1>5 DEF Unwind, Moves
<1>7. jmp' = FALSE
  <2>1. jmp = FALSE
    BY DEF FInv, TypeOK
  <2> QED
    BY <2>1 DEF Unwind
<1> QED
  BY <1>1, <1>4, <1>6, <1>7, EmptySeq DEF Outermost

(* The innermost one, without a jump.                                      *)
LEMMA UnwindOne ==
  ASSUME FInv, ~jmp, stack # <<>>, Unwind(1, Nil)
  PROVE  /\ stack' \in Seq(Addr \cup {Nil}) /\ Len(stack') = Len(stack) - 1
         /\ (stack' # <<>> => stack'[1] = stack[1]) /\ Outermost' = stack[1] /\ jmp' = FALSE
<1> DEFINE n == Len(stack)
<1>1. n \in Nat /\ n > 0 /\ stack \in Seq(Addr \cup {Nil})
  BY StackType
<1>2. Popped(1) = 1
  BY <1>1 DEF Popped
<1>3. stack' = SubSeq(stack, 1, n - 1)
  BY <1>2 DEF Unwind
<1>4. stack' \in Seq(Addr \cup {Nil}) /\ Len(stack') = n - 1
      /\ \A i \in 1 .. n - 1 : stack'[i] = stack[i]
  BY <1>1, <1>3, Butlast
<1>5. pointer' = stack[n]
  BY <1>1, <1>2 DEF Unwind, Moves, Rebases
<1>6. stack' = <<>> => n = 1
  BY <1>1, <1>4, EmptySeq
<1>7. stack' # <<>> => n - 1 > 0
  BY <1>1, <1>4, EmptySeq
<1>8. jmp' = FALSE
  <2>1. jmp = FALSE
    BY DEF FInv, TypeOK
  <2> QED
    BY <2>1 DEF Unwind
<1>9. stack' # <<>> => stack'[1] = stack[1]
  BY <1>1, <1>4, <1>7
<1> QED
  BY <1>1, <1>4, <1>5, <1>6, <1>8, <1>9 DEF Outermost

-----------------------------------------------------------------------------
(* Steps of the loop inside the lock.                                      *)

(* The loop leaves its node, or a place next to it, with nothing called.   *)
LEMMA Leaves ==
  ASSUME FInv, NEW r \in Runners, NEW to \in {"idle", "top", "closing"},
         pc[r] \in Inside, Release(r, to), frames' = [frames EXCEPT ![r] = <<>>],
         stack' = <<>>, jmp' = FALSE, gate' = gate
  PROVE  Alone' /\ Framed' /\ Stacked'
<1>1. Runners \cap Callers = {}
  BY InterpreterAssumption
<1>2. /\ gate # "held" /\ \A e \in Callers : pc[e] = "idle"
      /\ \A t \in Tasks : t # r => pc[t] \in {"idle", "closing"}
  BY RunnerAlone DEF Inside, Active
<1>3. lock' = NoTask /\ pc' = [pc EXCEPT ![r] = to] /\ queue' = <<>>
  BY ReleaseFree
<1>4. \A t \in Tasks : pc'[t] = IF t = r THEN to ELSE pc[t]
  BY <1>3 DEF FInv, TypeOK
<1>5. \A t \in Tasks : pc'[t] \in {"idle", "top", "closing"}
  BY <1>2, <1>4
<1>6. \A e \in Callers : pc'[e] = "idle"
  BY <1>1, <1>2, <1>4
<1>7. \A t \in Tasks : frames'[t] = <<>>
  <2>1. \A t \in Tasks : t # r => frames[t] = <<>>
    BY <1>2, NoFrames
  <2> QED
    BY <2>1 DEF FInv, TypeOK
<1>8. Alone'
  BY <1>2, <1>3, <1>5, <1>6 DEF Alone
<1>9. Framed'
  BY <1>5, <1>7, EmptySeq DEF Framed, InNode
<1>10. Stacked'
  BY <1>5, <1>6 DEF Stacked
<1> QED
  BY <1>8, <1>9, <1>10

(* What the loop finds in a node of its own.                               *)
LEMMA AtNode ==
  ASSUME FInv, NEW r \in Runners, pc[r] = "exec"
  PROVE  /\ ~hlt /\ ~jmp /\ Len(stack) = Len(frames[r]) - 1 /\ frames[r][1] = Outermost
         /\ frames[r] \in Seq(Addr) /\ Len(frames[r]) \in Nat \ {0}
         /\ Calls(r) = Len(stack) /\ Calls(r) \in Nat
         /\ Node(r) \in Addr /\ frames[r][1] \in Addr
         /\ Ends[Node(r)] \cap {"keep", "notice"} \subseteq Ends[frames[r][1]]
         /\ (Len(frames[r]) > 1 => Node(r) \in Called)
<1>1. frames[r] \in Seq(Addr) /\ frames[r] # <<>>
  BY DEF FInv, TypeOK, Framed, InNode
<1>2. Len(frames[r]) \in Nat \ {0}
  BY <1>1, LenProperties, EmptySeq
<1>3. r \notin Callers
  BY InterpreterAssumption
<1>4. Len(frames[r]) \in 1 .. Len(frames[r]) /\ 1 \in 1 .. Len(frames[r])
  BY <1>2
<1>5. Node(r) \in Addr /\ frames[r][1] \in Addr
  BY <1>1, <1>4, ElementOfSeq DEF Node
<1>6. /\ Ends[Node(r)] \cap {"keep", "notice"} \subseteq Ends[frames[r][1]]
      /\ (Len(frames[r]) > 1 => Node(r) \in Called)
  BY <1>4 DEF FInv, Framed, Node
<1>7. ~hlt /\ ~jmp /\ Len(stack) = Len(frames[r]) - 1 /\ frames[r][1] = Outermost
  BY DEF FInv, Stacked
<1> QED
  BY <1>1, <1>2, <1>3, <1>5, <1>6, <1>7 DEF Calls

(* A marked jump is of a node that has returned.                           *)
LEMMA Unmarked ==
  ASSUME FInv, \A r \in Runners : pc[r] # "yielded"
  PROVE  ~jmp
BY DEF FInv, Stacked

(* With nobody in a node and no caller holding the lock, nothing is called. *)
LEMMA Uncalled ==
  ASSUME FInv, \A t \in Tasks : pc[t] # "exec", \A e \in Callers : pc[e] # "locked"
  PROVE  stack = <<>>
BY DEF FInv, Stacked, Calling

LEMMA InvResume ==
  ASSUME FInv, NEW r \in Runners, Resume(r)
  PROVE  Alone' /\ Framed' /\ Stacked'
<1>1. pc[r] = "locked" /\ UNCHANGED <<jmp, stack, gate, frames>>
  BY DEF Resume
<1>2. /\ \A e \in Callers : pc[e] = "idle"
      /\ \A t \in Tasks : t # r => pc[t] \in {"idle", "closing"}
  BY <1>1, RunnerAlone DEF Active
<1>3. stack = <<>> /\ ~jmp
  BY <1>1, <1>2, Uncalled, Unmarked
<1>4. frames' = [frames EXCEPT ![r] = <<>>]
  BY <1>1, NoFrames DEF FInv, TypeOK
<1>5. Release(r, "closing") \/ Release(r, "top")
  BY DEF Resume
<1>6. jmp' = FALSE
  BY <1>1, <1>3 DEF FInv, TypeOK
<1> QED
  BY <1>1, <1>3, <1>4, <1>5, <1>6, Leaves DEF Inside

LEMMA InvStepPast ==
  ASSUME FInv, NEW r \in Runners, StepPast(r)
  PROVE  Alone' /\ Framed' /\ Stacked'
<1>1. /\ pc[r] = "yielded" /\ UNCHANGED <<stack, gate>> /\ jmp' = FALSE
      /\ frames' = [frames EXCEPT ![r] = <<>>]
  BY DEF StepPast
<1>2. stack = <<>>
  BY <1>1 DEF FInv, Stacked
<1>3. Release(r, "closing") \/ Release(r, "top")
  BY DEF StepPast
<1> QED
  BY <1>1, <1>2, <1>3, Leaves DEF Inside

LEMMA InvAbandon ==
  ASSUME Orderly, FInv, NEW r \in Runners, Abandon(r)
  PROVE  Alone' /\ Framed' /\ Stacked'
<1>1. /\ pc[r] = "yielded" /\ UNCHANGED <<stack, gate, jmp>>
      /\ frames' = [frames EXCEPT ![r] = <<>>] /\ Release(r, "idle")
  BY DEF Abandon, regs
<1>2. stack = <<>>
  BY <1>1 DEF FInv, Stacked
<1>3. jmp' = FALSE
  BY <1>1 DEF Orderly, Abandon, FInv, TypeOK
<1> QED
  BY <1>1, <1>2, <1>3, Leaves DEF Inside

(* A node that raises has not jumped, so that the pointer stays.           *)
LEMMA PanicStays ==
  ASSUME Orderly, FInv, NEW r \in Runners, NEW tgt \in Addr \cup {Nil}, Panics(r, tgt)
  PROVE  stack' = <<>> /\ jmp' = FALSE /\ hlt' = FALSE /\ pointer' = frames[r][1]
<1>1. /\ pc[r] = "exec" /\ Len(frames[r]) = 1 /\ tgt = Nil /\ LeaveCalls(0, Nil)
  BY DEF Panics, Orderly
<1>2. /\ ~hlt /\ ~jmp /\ Len(stack) = Len(frames[r]) - 1 /\ frames[r][1] = Outermost
  BY <1>1, AtNode
<1>3. Len(stack) = 0
  BY <1>1, <1>2
<1>4. Unwind(Len(stack), Nil)
  BY <1>1, <1>3 DEF LeaveCalls
<1>5. hlt' = FALSE
  BY <1>1, <1>2 DEF LeaveCalls
<1> QED
  BY <1>2, <1>4, <1>5, UnwindAll

LEMMA InvPanics ==
  ASSUME Orderly, FInv, NEW r \in Runners, NEW tgt \in Addr \cup {Nil}, Panics(r, tgt)
  PROVE  Alone' /\ Framed' /\ Stacked'
<1>1. /\ pc[r] = "exec" /\ frames' = [frames EXCEPT ![r] = <<>>]
      /\ Release(r, "idle") /\ UNCHANGED gate
  BY DEF Panics
<1> QED
  BY <1>1, PanicStays, Leaves DEF Inside

(* A node that suspends leaves the pointer on the node of the main loop.   *)
LEMMA HaltStays ==
  ASSUME Orderly, FInv, NEW r \in Runners, NEW tgt \in Addr \cup {Nil}, Halts(r, tgt)
  PROVE  stack' = <<>> /\ jmp' = FALSE /\ hlt' = TRUE /\ pointer' = frames[r][1]
<1>1. pc[r] = "exec" /\ Unwind(Calls(r), Nil) /\ hlt' = TRUE
  BY DEF Halts, Orderly
<1>2. ~jmp /\ Calls(r) = Len(stack) /\ frames[r][1] = Outermost
  BY <1>1, AtNode
<1> QED
  BY <1>1, <1>2, UnwindAll

LEMMA InvHalts ==
  ASSUME Orderly, FInv, NEW r \in Runners, NEW tgt \in Addr \cup {Nil}, Halts(r, tgt)
  PROVE  Alone' /\ Framed' /\ Stacked'
<1>1. /\ pc[r] = "exec" /\ frames' = [frames EXCEPT ![r] = <<>>]
      /\ Release(r, "idle") /\ UNCHANGED gate
  BY DEF Halts
<1> QED
  BY <1>1, HaltStays, Leaves DEF Inside

LEMMA InvResets ==
  ASSUME FInv, NEW r \in Runners, Resets(r)
  PROVE  Alone' /\ Framed' /\ Stacked'
<1>1. /\ pc[r] = "exec" /\ frames' = [frames EXCEPT ![r] = <<>>]
      /\ Release(r, "closing") /\ UNCHANGED gate /\ stack' = <<>> /\ jmp' = FALSE
  BY DEF Resets, Cleared
<1> QED
  BY <1>1, Leaves DEF Inside

-----------------------------------------------------------------------------
(* Steps inside a node.                                                    *)

(* The holder of the lock keeps it.                                        *)
LEMMA StaysInside ==
  ASSUME FInv, NEW t \in Tasks, NEW to \in {"exec", "yielded"}, pc[t] \in Inside,
         pc' = [pc EXCEPT ![t] = to], t \in Callers => to = "exec",
         UNCHANGED <<gate, lock, queue>>, hlt' => hlt \/ t \in Runners
  PROVE  Alone'
<1>1. Runners \cap Callers = {}
  BY InterpreterAssumption
<1>2. \A s \in Tasks : pc'[s] = IF s = t THEN to ELSE pc[s]
  BY DEF FInv, TypeOK
<1>3. lock \in Tasks \cup {NoTask} /\ (lock # NoTask => pc[lock] \in Inside)
  BY DEF FInv, TypeOK, Alone
<1>4. lock' # NoTask => pc'[lock'] \in Inside
  BY <1>2, <1>3 DEF Inside
<1>5. (\E r \in Runners : pc'[r] = "parked") <=> \E r \in Runners : pc[r] = "parked"
  BY <1>2 DEF Inside
<1>6. t \in Runners => \A e \in Callers : pc'[e] = "idle"
  BY <1>1, <1>2, RunnerAlone DEF Inside, Active
<1>7. t \in Callers => \A e \in Callers : pc'[e] # "idle" => pc[e] # "idle"
  BY <1>2 DEF Inside
<1>8. \A e \in Callers : pc'[e] # "idle" => gate' = "held" /\ ~hlt'
  BY <1>1, <1>6, <1>7 DEF FInv, Alone
<1>9. \A e \in Callers : pc'[e] \in {"idle", "locked", "exec"}
  BY <1>2 DEF FInv, Alone
<1> QED
  BY <1>2, <1>4, <1>5, <1>8, <1>9 DEF FInv, Alone

(* Frames of the holder that keep to the rules.                            *)
LEMMA Reframed ==
  ASSUME FInv, NEW t \in Tasks, NEW to \in {"exec", "yielded"}, NEW f \in Seq(Addr),
         pc' = [pc EXCEPT ![t] = to], frames' = [frames EXCEPT ![t] = f],
         f # <<>>, to = "yielded" => Len(f) = 1,
         \A k \in 1 .. Len(f) : /\ k > 1 \/ t \in Callers => f[k] \in Called
                                /\ Ends[f[k]] \cap {"keep", "notice"} \subseteq Ends[f[1]]
  PROVE  Framed'
<1>1. /\ \A s \in Tasks : pc'[s] = IF s = t THEN to ELSE pc[s]
      /\ \A s \in Tasks : frames'[s] = IF s = t THEN f ELSE frames[s]
  BY DEF FInv, TypeOK
<1> DEFINE G(s) ==
      /\ frames[s] # <<>> <=> InNode(s)
      /\ pc[s] = "yielded" => Len(frames[s]) = 1
      /\ \A k \in 1 .. Len(frames[s]) :
           /\ k > 1 \/ s \in Callers => frames[s][k] \in Called
           /\ Ends[frames[s][k]] \cap {"keep", "notice"} \subseteq Ends[frames[s][1]]
<1>2. \A s \in Tasks : G(s)
  BY DEF FInv, Framed
<1>3. G(t)'
  BY <1>1 DEF InNode
<1>4. ASSUME NEW s \in Tasks, s # t
      PROVE  G(s)'
  BY <1>1, <1>2, <1>4 DEF InNode
<1> QED
  BY <1>3, <1>4 DEF Framed

(* A runner in a node, with a stack that fits its frames.                  *)
LEMMA RunnerStacked ==
  ASSUME FInv, NEW r \in Runners, pc[r] \in Inside, pc' = [pc EXCEPT ![r] = "exec"],
         ~hlt', ~jmp', Len(stack') = Len(frames'[r]) - 1, frames'[r][1] = Outermost'
  PROVE  Stacked'
<1>1. Runners \cap Callers = {}
  BY InterpreterAssumption
<1>2. \A t \in Tasks : pc'[t] = IF t = r THEN "exec" ELSE pc[t]
  BY DEF FInv, TypeOK
<1>3. \A t \in Tasks : t # r => pc'[t] \in {"idle", "closing"}
  BY <1>2, RunnerAlone DEF Inside, Active
<1>4. pc'[r] = "exec"
  BY <1>2
<1> QED
  BY <1>1, <1>3, <1>4 DEF Stacked, Calling

(* The same for a caller.                                                  *)
LEMMA CallerStacked ==
  ASSUME FInv, NEW e \in Callers, pc[e] # "idle", pc' = [pc EXCEPT ![e] = "exec"],
         ~jmp', Len(stack') = Len(frames'[e])
  PROVE  Stacked'
<1>1. Runners \cap Callers = {}
  BY InterpreterAssumption
<1>2. \A t \in Tasks : pc'[t] = IF t = e THEN "exec" ELSE pc[t]
  BY DEF FInv, TypeOK
<1>3. \A t \in Tasks : t # e => pc'[t] \in {"idle", "closing", "parked"}
  BY <1>2, CallerAlone
<1>4. pc'[e] = "exec"
  BY <1>2
<1> QED
  BY <1>1, <1>3, <1>4 DEF Stacked, Calling

(* While a caller is under way, no jump is marked.                         *)
LEMMA CallerUnmarked ==
  ASSUME FInv, NEW e \in Callers, pc[e] # "idle"
  PROVE  ~jmp
<1>1. \A r \in Runners : pc[r] # "yielded"
  BY CallerAlone, InterpreterAssumption
<1> QED
  BY <1>1, Unmarked

LEMMA InvReturns ==
  ASSUME FInv, NEW r \in Runners, NEW tgt \in Addr \cup {Nil}, Returns(r, tgt)
  PROVE  Alone' /\ Framed' /\ Stacked'
<1>1. /\ pc[r] = "exec" /\ Len(frames[r]) = 1 /\ LeaveCalls(0, tgt)
      /\ "return" \in Ends[Node(r)] /\ tgt \in Jumps[Node(r)]
      /\ pc' = [pc EXCEPT ![r] = "yielded"] /\ UNCHANGED <<gate, lock, queue, frames>>
  BY DEF Returns
<1>2. /\ ~hlt /\ ~jmp /\ Len(stack) = Len(frames[r]) - 1 /\ frames[r][1] = Outermost
      /\ frames[r] \in Seq(Addr) /\ Node(r) = frames[r][1]
  BY <1>1, AtNode DEF Node
<1>3. stack = <<>>
  BY <1>1, <1>2, StackType
<1>4. ~hlt'
  BY <1>1, <1>2 DEF LeaveCalls
<1>5. Popped(0) = 0
  BY <1>3, EmptySeq DEF Popped
<1>6. stack' = <<>> /\ pointer' = (IF tgt # Nil THEN tgt ELSE pointer) /\ (jmp' <=> tgt # Nil)
  <2>1. pointer' = IF tgt # Nil THEN tgt ELSE pointer
    BY <1>1, <1>2, <1>5 DEF LeaveCalls, Unwind, Moves, Rebases
  <2>2. jmp' <=> tgt # Nil
    BY <1>1, <1>2 DEF LeaveCalls, Unwind
  <2>3. stack' = SubSeq(stack, 1, 0)
    BY <1>1, <1>3, <1>5, EmptySeq DEF LeaveCalls, Unwind
  <2>4. stack' \in Seq(Addr) /\ Len(stack') = 0
    BY <2>3, SubSeqProperties
  <2> QED
    BY <2>1, <2>2, <2>4, EmptySeq
<1>7. \A t \in Tasks : pc'[t] = IF t = r THEN "yielded" ELSE pc[t]
  BY <1>1 DEF FInv, TypeOK
<1>8. \A t \in Tasks : t # r => pc'[t] \in {"idle", "closing"}
  BY <1>1, <1>7, RunnerAlone DEF Active
<1>9. Alone'
  BY <1>1, <1>4, StaysInside, InterpreterAssumption DEF Inside
<1>10. Framed'
  <2>1. frames' = [frames EXCEPT ![r] = frames[r]] /\ frames[r] # <<>>
    BY <1>1 DEF FInv, TypeOK, Framed, InNode
  <2> QED
    BY <1>1, <1>2, <2>1, Reframed DEF FInv, Framed
<1>11. Stacked'
  <2>1. pointer = frames[r][1]
    BY <1>2, <1>3 DEF Outermost
  <2>2. pc'[r] = "yielded" /\ r \notin Callers
    BY <1>7, InterpreterAssumption
  <2> QED
    BY <1>1, <1>2, <1>4, <1>6, <1>8, <2>1, <2>2 DEF Stacked
<1> QED
  BY <1>9, <1>10, <1>11

(* A task that begins a node: the loop its own, a caller the handler.      *)
LEMMA InvBegin ==
  ASSUME FInv, TypeOK', NEW t \in Tasks, Begin(t)
  PROVE  Alone' /\ Framed' /\ Stacked'
<1> DEFINE p == Entered(pointer)
<1>1. /\ pc[t] = "locked" /\ (t \in Runners => ~hlt) /\ pointer' = p
      /\ frames' = [frames EXCEPT ![t] = <<p>>] /\ pc' = [pc EXCEPT ![t] = "exec"]
      /\ UNCHANGED <<jmp, hlt, stack, gate, lock, queue>>
  BY DEF Begin
<1>2. p \in Addr /\ <<p>> \in Seq(Addr) /\ <<p>> # <<>> /\ Len(<<p>>) = 1 /\ <<p>>[1] = p
  BY AddrTypes DEF FInv, TypeOK
<1>3. t \in Callers => Len(stack) = 1 /\ pointer \in Handlers
  BY <1>1 DEF FInv, Stacked
<1>4. t \in Callers => p \in Called
  <2>1. Handlers \subseteq Addr /\ Nil \notin Addr
    BY WorkflowAssumption DEF Addr, Nil
  <2> QED
    BY <1>3, <2>1 DEF Entered, Called
<1>5. Alone'
  BY <1>1, StaysInside DEF Inside
<1>6. Framed'
  <2>1. \A k \in 1 .. Len(<<p>>) : k = 1
    BY <1>2
  <2>2. \A k \in 1 .. Len(<<p>>) :
          /\ k > 1 \/ t \in Callers => <<p>>[k] \in Called
          /\ Ends[<<p>>[k]] \cap {"keep", "notice"} \subseteq Ends[<<p>>[1]]
    BY <1>2, <1>4, <2>1
  <2> HIDE DEF p
  <2> QED
    BY <1>1, <1>2, <2>2, Reframed
<1>7. frames'[t] = <<p>>
  BY <1>1 DEF FInv, TypeOK
<1>8. CASE t \in Runners
  <2>1. \A s \in Tasks : pc[s] # "exec" /\ pc[s] # "yielded"
    BY <1>1, <1>8, RunnerAlone DEF Active
  <2>2. \A e \in Callers : pc[e] # "locked"
    BY <1>1, <1>8, RunnerAlone DEF Active
  <2>3. stack' = <<>> /\ ~jmp'
    BY <1>1, <2>1, <2>2, Uncalled, Unmarked
  <2>4. Len(stack') = Len(frames'[t]) - 1 /\ frames'[t][1] = Outermost'
    BY <1>1, <1>2, <1>7, <2>3, EmptySeq DEF Outermost
  <2> QED
    BY <1>1, <1>5, <1>6, <1>8, <2>3, <2>4, RunnerStacked DEF Inside
<1>9. CASE t \in Callers
  <2>1. ~jmp'
    BY <1>1, <1>9, CallerUnmarked
  <2> QED
    BY <1>1, <1>2, <1>3, <1>5, <1>6, <1>7, <1>9, <2>1, CallerStacked
<1> QED
  BY <1>8, <1>9

-----------------------------------------------------------------------------
(* Calls of nodes and of external tasks.                                   *)

(* What a task in a node has, loop or caller.                              *)
LEMMA AtAnyNode ==
  ASSUME FInv, NEW t \in Tasks, pc[t] = "exec"
  PROVE  /\ frames[t] \in Seq(Addr) /\ Len(frames[t]) \in Nat \ {0} /\ Calls(t) = Len(stack)
         /\ ~hlt /\ ~jmp /\ Node(t) \in Addr /\ frames[t][1] \in Addr
         /\ Ends[Node(t)] \cap {"keep", "notice"} \subseteq Ends[frames[t][1]]
         /\ (Len(frames[t]) > 1 \/ t \in Callers => Node(t) \in Called)
<1>1. CASE t \in Runners
  <2>1. t \notin Callers
    BY <1>1, InterpreterAssumption
  <2> QED
    BY <1>1, <2>1, AtNode
<1>2. CASE t \in Callers
  <2>1. frames[t] \in Seq(Addr) /\ frames[t] # <<>>
    BY DEF FInv, TypeOK, Framed, InNode
  <2>2. Len(frames[t]) \in Nat \ {0}
    BY <2>1, LenProperties, EmptySeq
  <2>3. Len(frames[t]) \in 1 .. Len(frames[t]) /\ 1 \in 1 .. Len(frames[t])
    BY <2>2
  <2>4. Node(t) \in Addr /\ frames[t][1] \in Addr
    BY <2>1, <2>3, ElementOfSeq DEF Node
  <2>5. Ends[Node(t)] \cap {"keep", "notice"} \subseteq Ends[frames[t][1]] /\ Node(t) \in Called
    BY <1>2, <2>3 DEF FInv, Framed, Node
  <2>6. Len(stack) = Len(frames[t]) /\ Calls(t) = Len(frames[t])
    BY <1>2 DEF FInv, Stacked, Calls
  <2>7. ~hlt /\ ~jmp
    BY <1>2, CallerAlone, CallerUnmarked
  <2> QED
    BY <2>1, <2>2, <2>4, <2>5, <2>6, <2>7
<1> QED
  BY <1>1, <1>2

(* A node calls another one: one more address, one more frame.             *)
LEMMA InvSubCall ==
  ASSUME Orderly, FInv, NEW t \in Tasks, NEW h \in Addr, SubCall(t, h)
  PROVE  /\ Alone' /\ Framed' /\ Stacked' /\ frames'[t][1] = frames[t][1]
         /\ (stack # <<>> => stack'[1] = stack[1])
<1> DEFINE f == frames[t]
           g == Append(f, h)
           n == Len(f)
<1>1. /\ pc[t] = "exec" /\ h \in Subs[Node(t)] /\ stack' = Append(stack, pointer) /\ pointer' = h
      /\ frames' = [frames EXCEPT ![t] = g] /\ UNCHANGED <<jmp, hlt, gate, lock, queue, pc>>
  BY DEF SubCall
<1>2. /\ f \in Seq(Addr) /\ n \in Nat \ {0} /\ ~hlt /\ ~jmp /\ Node(t) = f[n] /\ f[n] \in Addr
      /\ Ends[f[n]] \cap {"keep", "notice"} \subseteq Ends[f[1]]
  BY <1>1, AtAnyNode DEF Node
<1>3. /\ g \in Seq(Addr) /\ Len(g) = n + 1 /\ g[n + 1] = h /\ \A k \in 1 .. n : g[k] = f[k]
  BY <1>2, AppendProperties
<1>4. frames'[t] = g
  BY <1>1 DEF FInv, TypeOK
<1>5. /\ Len(stack') = Len(stack) + 1 /\ stack' \in Seq(Addr \cup {Nil})
      /\ (IF stack = <<>> THEN stack'[1] = pointer ELSE stack'[1] = stack[1])
  <2>1. /\ stack \in Seq(Addr \cup {Nil}) /\ Len(stack) \in Nat /\ pointer \in Addr \cup {Nil}
        /\ (stack = <<>> <=> Len(stack) = 0)
    BY StackType DEF FInv, TypeOK
  <2>2. /\ Len(stack') = Len(stack) + 1 /\ stack' \in Seq(Addr \cup {Nil})
        /\ stack'[Len(stack) + 1] = pointer /\ \A i \in 1 .. Len(stack) : stack'[i] = stack[i]
    BY <1>1, <2>1, AppendProperties
  <2>3. CASE stack = <<>>
    BY <2>1, <2>2, <2>3
  <2>4. CASE stack # <<>>
    BY <2>1, <2>2, <2>4
  <2> QED
    BY <2>2, <2>3, <2>4
<1>6. h \in Called /\ Ends[h] \cap {"keep", "notice"} \subseteq Ends[f[1]]
  <2>1. Ends[h] \cap {"keep", "notice"} \subseteq Ends[f[n]]
    BY <1>1, <1>2 DEF Orderly, Propagates
  <2> QED
    BY <1>1, <1>2, <2>1 DEF Called
<1>7. pc' = [pc EXCEPT ![t] = "exec"]
  BY <1>1 DEF FInv, TypeOK
<1>8. Alone'
  BY <1>1, <1>7, StaysInside DEF Inside
<1>9. g # <<>> /\ frames'[t][1] = f[1]
  BY <1>2, <1>3, <1>4, EmptySeq
<1>10. Framed'
  <2>1. ASSUME NEW k \in 1 .. Len(g)
        PROVE  /\ k > 1 \/ t \in Callers => g[k] \in Called
               /\ Ends[g[k]] \cap {"keep", "notice"} \subseteq Ends[g[1]]
    <3>1. g[1] = f[1]
      BY <1>2, <1>3
    <3>2. CASE k = n + 1
      BY <1>3, <1>6, <3>1, <3>2
    <3>3. CASE k # n + 1
      <4>1. k \in 1 .. n
        BY <1>2, <1>3, <3>3
      <4> QED
        BY <1>3, <3>1, <4>1 DEF FInv, Framed
    <3> QED
      BY <3>2, <3>3
  <2> HIDE DEF g
  <2> QED
    BY <1>1, <1>3, <1>7, <1>9, <2>1, Reframed
<1>11. Stacked'
  <2>1. CASE t \in Runners
    <3>1. Len(stack) = n - 1 /\ f[1] = Outermost
      BY <1>1, <2>1, AtNode
    <3>2. Len(stack') = Len(frames'[t]) - 1
      BY <1>2, <1>3, <1>4, <1>5, <3>1
    <3>3. stack' # <<>>
      BY <1>5, <3>2, StackType, EmptySeq
    <3>4. frames'[t][1] = Outermost'
      BY <1>5, <1>9, <3>1, <3>3 DEF Outermost
    <3> QED
      BY <1>1, <1>2, <1>7, <2>1, <3>2, <3>4, RunnerStacked DEF Inside
  <2>2. CASE t \in Callers
    <3>1. Len(stack) = n
      BY <1>1, <2>2 DEF FInv, Stacked
    <3>2. Len(stack') = Len(frames'[t])
      BY <1>3, <1>4, <1>5, <3>1
    <3> QED
      BY <1>1, <1>2, <1>7, <2>2, <3>2, CallerStacked
  <2> QED
    BY <2>1, <2>2
<1> QED
  BY <1>5, <1>8, <1>9, <1>10, <1>11

(* What was called leaves the pointer where it is.                         *)
LEMMA CalledStays ==
  ASSUME Orderly, FInv, NEW t \in Tasks, pc[t] = "exec", Len(frames[t]) > 1 \/ t \in Callers,
         NEW tgt \in Jumps[Node(t)]
  PROVE  tgt = Nil
BY AtAnyNode DEF Orderly, CallsStay

(* The called node is over.                                                *)
LEMMA InvSubEnds ==
  ASSUME Orderly, FInv, NEW t \in Tasks, NEW tgt \in Addr \cup {Nil}, SubEnds(t, tgt)
  PROVE  /\ Alone' /\ Framed' /\ Stacked' /\ frames'[t][1] = frames[t][1]
         /\ (t \in Callers => stack'[1] = stack[1])
<1> DEFINE f == frames[t]
           n == Len(f)
           g == SubSeq(f, 1, n - 1)
<1>1. /\ pc[t] = "exec" /\ n > 1 /\ tgt \in Jumps[Node(t)] /\ LeaveCalls(1, tgt)
      /\ frames' = [frames EXCEPT ![t] = g] /\ UNCHANGED <<gate, lock, queue, pc>>
  BY DEF SubEnds
<1>2. tgt = Nil
  BY <1>1, CalledStays
<1>3. f \in Seq(Addr) /\ n \in Nat \ {0} /\ ~hlt /\ ~jmp /\ Calls(t) = Len(stack)
  BY <1>1, AtAnyNode
<1>4. Len(stack) = IF t \in Callers THEN n ELSE n - 1
  BY <1>1, <1>3 DEF Calls
<1>5. stack # <<>>
  BY <1>1, <1>3, <1>4, StackType
<1>6. Unwind(1, Nil)
  BY <1>1, <1>2 DEF LeaveCalls
<1>7. /\ stack' \in Seq(Addr \cup {Nil}) /\ Len(stack') = Len(stack) - 1
      /\ (stack' # <<>> => stack'[1] = stack[1]) /\ Outermost' = stack[1] /\ jmp' = FALSE
  BY <1>3, <1>5, <1>6, UnwindOne
<1>8. ~hlt'
  BY <1>1, <1>3 DEF LeaveCalls
<1>9. g \in Seq(Addr) /\ Len(g) = n - 1 /\ \A i \in 1 .. n - 1 : g[i] = f[i]
  BY <1>1, <1>3, Butlast
<1>10. frames'[t] = g /\ pc' = [pc EXCEPT ![t] = "exec"]
  BY <1>1 DEF FInv, TypeOK
<1>11. g # <<>> /\ g[1] = f[1]
  <2> HIDE DEF g, n
  <2>1. n - 1 # 0 /\ 1 \in 1 .. n - 1
    BY <1>1, <1>3
  <2> QED
    BY <1>9, <2>1, EmptySeq
<1>12. Alone'
  BY <1>1, <1>8, <1>10, StaysInside DEF Inside
<1>13. Framed'
  <2>1. ASSUME NEW k \in 1 .. Len(g)
        PROVE  /\ k > 1 \/ t \in Callers => g[k] \in Called
               /\ Ends[g[k]] \cap {"keep", "notice"} \subseteq Ends[g[1]]
    <3>1. k \in 1 .. n /\ g[k] = f[k]
      BY <1>3, <1>9
    <3> QED
      BY <1>11, <3>1 DEF FInv, Framed
  <2> HIDE DEF g
  <2> QED
    BY <1>1, <1>9, <1>10, <1>11, <2>1, Reframed
<1>14. Stacked' /\ (t \in Callers => stack'[1] = stack[1])
  <2>1. CASE t \in Runners
    <3>1. t \notin Callers /\ f[1] = Outermost
      BY <1>1, <2>1, AtNode, InterpreterAssumption
    <3>2. Len(stack') = Len(frames'[t]) - 1
      BY <1>3, <1>4, <1>7, <1>9, <1>10, <3>1
    <3>3. frames'[t][1] = Outermost'
      BY <1>5, <1>7, <1>10, <1>11, <3>1 DEF Outermost
    <3> QED
      BY <1>1, <1>7, <1>8, <1>10, <2>1, <3>1, <3>2, <3>3, RunnerStacked DEF Inside
  <2>2. CASE t \in Callers
    <3>1. Len(stack') = Len(frames'[t])
      BY <1>3, <1>4, <1>7, <1>9, <1>10, <2>2
    <3>2. stack' # <<>>
      BY <1>9, <1>10, <1>1, <1>3, <3>1, EmptySeq
    <3> QED
      BY <1>1, <1>7, <1>10, <2>2, <3>1, <3>2, CallerStacked
  <2> QED
    BY <2>1, <2>2
<1> QED
  BY <1>10, <1>11, <1>12, <1>13, <1>14

(* An injection: the parked loop has an empty stack and nobody inside.     *)
LEMMA InvInject ==
  ASSUME Orderly, FInv, NEW e \in Callers, NEW h \in Handlers, Inject(e, h)
  PROVE  /\ Alone' /\ Framed' /\ Stacked' /\ stack'[1] = pointer /\ ~hlt
         /\ (\A d \in Callers : pc[d] = "idle") /\ pc'[e] = "locked"
<1>1. /\ pc[e] = "idle" /\ MayInject /\ stack' = Append(stack, pointer) /\ pointer' = h /\ Take(e)
      /\ UNCHANGED <<jmp, hlt, gate, frames>>
  BY DEF Inject
<1>2. gate = "held" /\ ~hlt /\ \A d \in Callers : pc[d] = "idle"
  BY <1>1 DEF MayInject, Orderly
<1>3. PICK p \in Runners : pc[p] = "parked"
  BY <1>2 DEF FInv, Alone
<1>4. \A q \in Runners : pc[q] \in {"idle", "closing", "parked"}
  BY <1>3 DEF FInv, RunInv, AtMostOneRun, Active
<1>5. \A t \in Tasks : pc[t] \in {"idle", "closing", "parked"}
  BY <1>2, <1>4
<1>6. stack = <<>> /\ ~jmp
  BY <1>5, Uncalled, Unmarked
<1>7. lock' = e /\ pc' = [pc EXCEPT ![e] = "locked"] /\ queue' = <<>>
  BY <1>1, <1>5, TakeFree DEF Inside
<1>8. \A t \in Tasks : pc'[t] = IF t = e THEN "locked" ELSE pc[t]
  BY <1>7 DEF FInv, TypeOK
<1>9. Runners \cap Callers = {}
  BY InterpreterAssumption
<1>10. Len(stack') = 1 /\ stack'[1] = pointer
  <2>1. stack \in Seq(Addr \cup {Nil}) /\ pointer \in Addr \cup {Nil} /\ Len(stack) = 0
    BY <1>6, StackType DEF FInv, TypeOK
  <2> QED
    BY <1>1, <2>1, AppendProperties
<1>11. Alone'
  <2>1. lock' # NoTask => pc'[lock'] \in Inside
    BY <1>7, <1>8 DEF Inside
  <2>2. gate' = "held" /\ pc'[p] = "parked"
    BY <1>1, <1>2, <1>3, <1>8, <1>9
  <2>3. \A t \in Tasks : pc'[t] # "lockwait"
    BY <1>5, <1>8
  <2>4. \A d \in Callers : pc'[d] \in {"idle", "locked", "exec"}
    BY <1>2, <1>8
  <2> QED
    BY <1>1, <1>2, <1>7, <2>1, <2>2, <2>3, <2>4 DEF Alone
<1>12. Framed'
  <2>1. \A t \in Tasks : InNode(t)' <=> InNode(t)
    BY <1>5, <1>8 DEF InNode
  <2>2. \A t \in Tasks : pc'[t] # "yielded"
    BY <1>5, <1>8
  <2> QED
    BY <1>1, <2>1, <2>2 DEF FInv, Framed
<1>13. Stacked'
  <2>1. \A t \in Tasks : pc'[t] # "yielded" /\ pc'[t] # "exec"
    BY <1>5, <1>8
  <2>2. Calling(e)'
    BY <1>8 DEF Calling
  <2> QED
    BY <1>1, <1>6, <1>10, <2>1, <2>2 DEF Stacked
<1> QED
  BY <1>2, <1>8, <1>10, <1>11, <1>12, <1>13

(* The injected node is over: the pointer is back where the loop left it.  *)
LEMMA InvInjectedEnds ==
  ASSUME Orderly, FInv, NEW e \in Callers, NEW tgt \in Addr \cup {Nil}, InjectedEnds(e, tgt)
  PROVE  /\ Alone' /\ Framed' /\ Stacked' /\ pointer' = stack[1] /\ ~hlt'
         /\ (\A t \in Tasks : ~InNode(t)') /\ (\A d \in Callers : pc'[d] = "idle")
<1>1. /\ pc[e] = "exec" /\ tgt \in Jumps[Node(e)] /\ LeaveCalls(Calls(e), tgt)
      /\ frames' = [frames EXCEPT ![e] = <<>>] /\ Release(e, "idle") /\ UNCHANGED gate
  BY DEF InjectedEnds
<1>2. /\ tgt = Nil /\ Calls(e) = Len(stack) /\ ~hlt /\ ~jmp /\ Len(frames[e]) \in Nat \ {0}
  BY <1>1, CalledStays, AtAnyNode
<1>3. stack' = <<>> /\ pointer' = Outermost /\ jmp' = FALSE
  BY <1>1, <1>2, UnwindAll DEF LeaveCalls
<1>4. stack # <<>>
  <2>1. Len(stack) = Len(frames[e])
    BY <1>1 DEF FInv, Stacked
  <2> QED
    BY <1>2, <2>1, StackType
<1>5. pointer' = stack[1] /\ ~hlt'
  BY <1>1, <1>2, <1>3, <1>4 DEF LeaveCalls, Outermost
<1>6. lock' = NoTask /\ pc' = [pc EXCEPT ![e] = "idle"] /\ queue' = <<>>
  BY <1>1, ReleaseFree
<1>7. \A t \in Tasks : pc'[t] = IF t = e THEN "idle" ELSE pc[t]
  BY <1>6 DEF FInv, TypeOK
<1>8. /\ gate = "held"
      /\ \A t \in Tasks : t # e => pc[t] \in {"idle", "closing", "parked"}
  BY <1>1, CallerAlone
<1>9. \A t \in Tasks : pc'[t] \in {"idle", "closing", "parked"}
  BY <1>7, <1>8
<1>10. \A d \in Callers : pc'[d] = "idle"
  BY <1>7, <1>8 DEF FInv, Alone
<1>11. \A t \in Tasks : frames'[t] = <<>>
  <2>1. \A t \in Tasks : t # e => frames[t] = <<>>
    BY <1>8, NoFrames
  <2> QED
    BY <1>1, <2>1 DEF FInv, TypeOK
<1>12. Alone'
  <2>1. \E r \in Runners : pc'[r] = "parked"
    <3>1. PICK p \in Runners : pc[p] = "parked"
      BY <1>8 DEF FInv, Alone
    <3> QED
      BY <1>7, <3>1, InterpreterAssumption
  <2> QED
    BY <1>1, <1>6, <1>8, <1>9, <1>10, <2>1 DEF Alone
<1>13. Framed'
  BY <1>9, <1>11, EmptySeq DEF Framed, InNode
<1>14. Stacked'
  BY <1>3, <1>9, <1>10 DEF Stacked
<1> QED
  BY <1>5, <1>9, <1>10, <1>12, <1>13, <1>14 DEF InNode

-----------------------------------------------------------------------------
(* Steps of the loop outside of the nodes, the operator and the watchers.  *)

LEMMA InvStart ==
  ASSUME FInv, NEW r \in Runners, Start(r)
  PROVE  Alone' /\ Framed' /\ Stacked'
<1>1. /\ pc[r] = "idle" /\ UNCHANGED <<pointer, jmp, hlt, stack, frames, gate, lock, queue>>
      /\ pc' = pc \/ pc' = [pc EXCEPT ![r] = "top"]
  BY DEF Start, regs
<1>2. pc' = pc => pc' = [pc EXCEPT ![r] = "idle"]
  BY <1>1 DEF FInv, TypeOK
<1> QED
  BY <1>1, <1>2, LoopMoves

LEMMA InvClosed ==
  ASSUME FInv, NEW r \in Runners, Closed(r)
  PROVE  Alone' /\ Framed' /\ Stacked'
<1>1. /\ pc[r] = "closing" /\ UNCHANGED <<pointer, jmp, hlt, stack, frames, gate, lock, queue>>
      /\ pc' = [pc EXCEPT ![r] = "idle"]
  BY DEF Closed, regs
<1> QED
  BY <1>1, LoopMoves

LEMMA InvProceed ==
  ASSUME FInv, NEW r \in Runners, Pass(r) \/ Unpark(r)
  PROVE  Alone' /\ Framed' /\ Stacked'
<1>1. /\ pc[r] \in {"top", "resumed"} /\ Proceed(r)
      /\ UNCHANGED <<pointer, jmp, hlt, stack, frames, gate>>
  BY DEF Pass, Unpark, regs
<1>2. CASE stopping
  <2>1. pc' = [pc EXCEPT ![r] = "closing"] /\ UNCHANGED <<lock, queue>>
    BY <1>1, <1>2 DEF Proceed
  <2> QED
    BY <1>1, <2>1, LoopMoves
<1>3. CASE ~stopping
  <2>1. /\ gate # "held" /\ \A e \in Callers : pc[e] = "idle"
        /\ \A t \in Tasks : t # r => pc[t] \in {"idle", "closing"}
    BY <1>1, RunnerAlone DEF Active
  <2>2. lock' = r /\ pc' = [pc EXCEPT ![r] = "locked"] /\ queue' = <<>>
    <3>1. \A s \in Tasks : pc[s] \notin Inside
      BY <1>1, <2>1 DEF Inside
    <3> QED
      BY <1>1, <1>3, <3>1, TakeFree DEF Proceed
  <2>3. \A t \in Tasks : pc'[t] = IF t = r THEN "locked" ELSE pc[t]
    BY <2>2 DEF FInv, TypeOK
  <2>4. Runners \cap Callers = {}
    BY InterpreterAssumption
  <2>5. Framed' /\ Stacked'
    BY <1>1, <2>3, Elsewhere
  <2>6. Alone'
    BY <1>1, <2>1, <2>2, <2>3, <2>4 DEF Alone, Inside
  <2> QED
    BY <2>5, <2>6
<1> QED
  BY <1>2, <1>3

LEMMA InvPark ==
  ASSUME FInv, NEW r \in Runners, Park(r)
  PROVE  Alone' /\ Framed' /\ Stacked'
<1>1. /\ pc[r] = "top" /\ gate' = "held" /\ pc' = [pc EXCEPT ![r] = "parked"]
      /\ UNCHANGED <<pointer, jmp, hlt, stack, frames, lock, queue>>
  BY DEF Park, regs
<1>2. \A e \in Callers : pc[e] = "idle"
  BY <1>1, RunnerAlone DEF Active
<1>3. \A t \in Tasks : pc'[t] = IF t = r THEN "parked" ELSE pc[t]
  BY <1>1 DEF FInv, TypeOK
<1>4. Framed' /\ Stacked'
  BY <1>1, <1>3, Elsewhere
<1>5. lock # NoTask => lock # r /\ lock \in Tasks
  BY <1>1 DEF FInv, TypeOK, Alone, Inside
<1>6. \A e \in Callers : pc'[e] = "idle"
  BY <1>2, <1>3, InterpreterAssumption
<1>7. Alone'
  BY <1>1, <1>3, <1>5, <1>6 DEF FInv, Alone
<1> QED
  BY <1>4, <1>7

LEMMA InvGate ==
  ASSUME Orderly, FInv, AskSuspend \/ ResumeGate \/ GiveUpSuspend
  PROVE  Alone' /\ Framed' /\ Stacked'
<1>1. CASE AskSuspend \/ GiveUpSuspend
  <2>1. /\ gate # "held" /\ gate' # "held" /\ UNCHANGED <<pointer, jmp, hlt, stack, frames, lock, queue, pc>>
    BY <1>1 DEF AskSuspend, GiveUpSuspend, regs, sched
  <2>2. Framed' /\ Stacked'
    BY <2>1, Elsewhere
  <2>3. Alone'
    BY <2>1 DEF FInv, Alone
  <2> QED
    BY <2>2, <2>3
<1>2. CASE ResumeGate
  <2>1. /\ gate' = "open" /\ \A e \in Callers : pc[e] = "idle"
        /\ pc' = [t \in Tasks |-> IF pc[t] = "parked" THEN "resumed" ELSE pc[t]]
        /\ UNCHANGED <<pointer, jmp, hlt, stack, frames, lock, queue>>
    BY <1>2 DEF ResumeGate, regs, Orderly
  <2>2. \A t \in Tasks : pc'[t] = IF pc[t] = "parked" THEN "resumed" ELSE pc[t]
    BY <2>1
  <2>3. Framed' /\ Stacked'
    <3>1. \A t \in Tasks : pc'[t] = pc[t] \/ (t \in Runners /\ {pc[t], pc'[t]} \cap {"exec", "yielded"} = {})
      BY <2>1, <2>2
    <3> QED
      BY <2>1, <3>1, Elsewhere
  <2>4. lock \in Tasks \cup {NoTask}
    BY DEF FInv, TypeOK
  <2>5. Alone'
    BY <2>1, <2>2, <2>4 DEF FInv, Alone, Inside
  <2> QED
    BY <2>3, <2>5
<1> QED
  BY <1>1, <1>2

(* A reset between two runs.                                               *)
LEMMA InvUserReset ==
  ASSUME FInv, UserReset
  PROVE  Alone' /\ Framed' /\ Stacked'
<1>1. /\ \A r \in Runners : pc[r] \in {"idle", "closing"}
      /\ \A e \in Callers : pc[e] = "idle"
      /\ stack' = <<>> /\ jmp' = FALSE /\ hlt' = FALSE
      /\ UNCHANGED <<gate, lock, queue, pc, frames>>
  BY DEF UserReset, RunActive, Active, Cleared, sched
<1>2. \A t \in Tasks : pc[t] \in {"idle", "closing"}
  BY <1>1
<1>3. Alone'
  BY <1>1, <1>2 DEF FInv, Alone
<1>4. Framed'
  BY <1>1 DEF FInv, Framed, InNode
<1>5. Stacked'
  BY <1>1, <1>2 DEF Stacked
<1> QED
  BY <1>3, <1>4, <1>5

LEMMA InvStill ==
  ASSUME FInv, UNCHANGED <<regs, gate, sched>>
  PROVE  Alone' /\ Framed' /\ Stacked'
<1>1. UNCHANGED <<pointer, jmp, hlt, stack, gate, lock, queue, pc, frames>>
  BY DEF regs, sched
<1>2. Framed' /\ Stacked'
  BY <1>1, Elsewhere
<1>3. Alone'
  BY <1>1 DEF FInv, Alone
<1> QED
  BY <1>2, <1>3

LEMMA FlowInvInit == Init => FInv
<1> SUFFICES ASSUME Init
             PROVE  FInv
  OBVIOUS
<1>1. TypeOK /\ LockInv /\ RunInv
  BY TypeInit, LockInit, RunInit
<1>2. \A t \in Tasks : pc[t] = "idle" /\ frames[t] = <<>>
  BY DEF Init
<1>3. Alone
  BY <1>2 DEF Init, Alone
<1>4. Framed
  BY <1>2, EmptySeq DEF Framed, InNode
<1>5. Stacked
  BY <1>2 DEF Init, Stacked
<1> QED
  BY <1>1, <1>3, <1>4, <1>5 DEF FInv

LEMMA FlowInvStep ==
  ASSUME Orderly
  PROVE  FInv /\ [Next]_vars => FInv'
<1> SUFFICES ASSUME FInv, [Next]_vars
             PROVE  FInv'
  OBVIOUS
<1>1. TypeOK' /\ LockInv' /\ RunInv'
  BY TypeStep, LockStep, RunStep DEF FInv, Orderly
<1>2. ASSUME NEW r \in Runners, RunnerNext(r)
      PROVE  Alone' /\ Framed' /\ Stacked'
  BY <1>2, InvStart, InvProceed, InvPark, InvResume, InvStepPast, InvAbandon, InvClosed, InvHalts,
     InvResets, InvReturns, InvPanics DEF RunnerNext
<1>3. ASSUME NEW t \in Tasks, NodeNext(t)
      PROVE  Alone' /\ Framed' /\ Stacked'
  BY <1>1, <1>3, InvBegin, InvSubCall, InvSubEnds DEF NodeNext
<1>4. ASSUME NEW e \in Callers, CallerNext(e)
      PROVE  Alone' /\ Framed' /\ Stacked'
  BY <1>4, InvInject, InvInjectedEnds DEF CallerNext
<1>5. ASSUME NEW w \in Watchers, WatcherNext(w)
      PROVE  Alone' /\ Framed' /\ Stacked'
  <2>1. UNCHANGED <<regs, gate, sched>>
    BY <1>5 DEF WatcherNext, Terminate, AwaitRun, Wake, TimesOut
  <2> QED
    BY <2>1, InvStill
<1>6. ASSUME AskSuspend \/ ResumeGate \/ GiveUpSuspend
      PROVE  Alone' /\ Framed' /\ Stacked'
  BY <1>6, InvGate
<1>7. ASSUME UserReset
      PROVE  Alone' /\ Framed' /\ Stacked'
  BY <1>7, InvUserReset
<1>8. ASSUME UNCHANGED vars
      PROVE  Alone' /\ Framed' /\ Stacked'
  <2>1. UNCHANGED <<regs, gate, sched>>
    BY <1>8 DEF vars
  <2> QED
    BY <2>1, InvStill
<1>9. Alone' /\ Framed' /\ Stacked'
  BY <1>2, <1>3, <1>4, <1>5, <1>6, <1>7, <1>8 DEF Next
<1> QED
  BY <1>1, <1>9 DEF FInv

-----------------------------------------------------------------------------
(* The refinement.  Located reads the abstract state off the tasks: in a   *)
(* node of the loop, in a call of an external task, or between nodes.      *)

Between == Entered(IF hlt THEN AdvanceAddr(Entered(pointer)) ELSE pointer)

Located ==
  /\ \A r \in Runners : InNode(r) => MainRuns /\ Position = frames[r][1]
  /\ \A e \in Callers : pc[e] # "idle" => ~MainRuns /\ Position = Entered(stack[1])
  /\ (\A t \in Tasks : ~InNode(t)) /\ (\A e \in Callers : pc[e] = "idle")
       => ~MainRuns /\ Position = Between

LEMMA Locate == FInv => Located
<1> SUFFICES ASSUME FInv
             PROVE  Located
  OBVIOUS
<1>1. ASSUME NEW r \in Runners, InNode(r)
      PROVE  MainRuns /\ Position = frames[r][1]
  <2>1. MainRuns
    BY <1>1 DEF MainRuns, Running
  <2>2. \A q \in Runners : Running(q) => q = r
    BY <1>1, RunnerAlone DEF Running, InNode, Active
  <2>3. Running(r)
    BY <1>1 DEF Running
  <2>4. (CHOOSE q \in Runners : Running(q)) = r
    BY <2>2, <2>3
  <2> QED
    BY <2>1, <2>4 DEF Position
<1>2. ASSUME NEW e \in Callers, pc[e] # "idle"
      PROVE  ~MainRuns /\ Position = Entered(stack[1])
  <2>1. /\ \A t \in Tasks : t # e => pc[t] \in {"idle", "closing", "parked"}
        /\ ~hlt /\ pc[e] \in {"locked", "exec"}
    BY <1>2, CallerAlone
  <2>2. e \notin Runners
    BY InterpreterAssumption
  <2>3. ~MainRuns
    BY <2>1, <2>2 DEF MainRuns, Running, InNode
  <2>4. Calls(e) > 0
    <3>1. CASE pc[e] = "locked"
      BY <3>1 DEF Calls
    <3>2. CASE pc[e] = "exec"
      <4>1. Len(frames[e]) \in Nat \ {0}
        BY <3>2, AtAnyNode
      <4> QED
        BY <3>2, <4>1 DEF Calls
    <3> QED
      BY <2>1, <3>1, <3>2
  <2>5. MainPointer = stack[1]
    BY <2>4 DEF MainPointer
  <2> QED
    BY <2>1, <2>3, <2>5 DEF Position
<1>3. ASSUME \A t \in Tasks : ~InNode(t), \A e \in Callers : pc[e] = "idle"
      PROVE  ~MainRuns /\ Position = Between
  <2>1. ~MainRuns
    BY <1>3 DEF MainRuns, Running
  <2>2. \A e \in Callers : Calls(e) = 0
    BY <1>3, NoFrames DEF Calls
  <2>3. MainPointer = pointer
    BY <2>2 DEF MainPointer
  <2> QED
    BY <2>1, <2>3 DEF Position, Between
<1> QED
  BY <1>1, <1>2, <1>3 DEF Located

(* A step that leaves nodes, registers and callers alone changes nothing.  *)
LEMMA FlowStill ==
  ASSUME FInv, FInv', Located, Located', UNCHANGED <<pointer, hlt, stack, frames>>,
         \A t \in Tasks : pc'[t] = pc[t] \/ (t \in Runners /\ {pc[t], pc'[t]} \cap {"exec", "yielded"} = {})
  PROVE  UNCHANGED <<Position, MainRuns>>
<1>1. \A t \in Tasks : InNode(t)' <=> InNode(t)
  BY DEF InNode
<1>2. \A e \in Callers : pc'[e] = pc[e]
  BY InterpreterAssumption
<1>3. CASE \E r \in Runners : InNode(r)
  <2>1. PICK r \in Runners : InNode(r)
    BY <1>3
  <2>2. Position' = Position
    BY <1>1, <2>1 DEF Located
  <2>3. MainRuns /\ MainRuns'
    BY <1>1, <2>1 DEF Located
  <2> QED
    BY <2>2, <2>3 DEF MainRuns
<1>4. CASE \E e \in Callers : pc[e] # "idle"
  <2>1. PICK e \in Callers : pc[e] # "idle"
    BY <1>4
  <2>2. Position' = Position
    BY <1>2, <2>1 DEF Located
  <2>3. ~MainRuns /\ ~MainRuns'
    BY <1>2, <2>1 DEF Located
  <2> QED
    BY <2>2, <2>3 DEF MainRuns
<1>5. CASE (\A r \in Runners : ~InNode(r)) /\ (\A e \in Callers : pc[e] = "idle")
  <2>1. \A t \in Tasks : ~InNode(t)
    BY <1>5 DEF InNode
  <2>2. Between' = Between
    BY DEF Between
  <2>3. Position' = Position
    BY <1>1, <1>2, <1>5, <2>1, <2>2 DEF Located
  <2>4. ~MainRuns /\ ~MainRuns'
    BY <1>1, <1>2, <1>5, <2>1 DEF Located
  <2> QED
    BY <2>3, <2>4 DEF MainRuns
<1> QED
  BY <1>3, <1>4, <1>5

(* The loop leaves its node: what follows is next to the pointer.          *)
LEMMA FlowLeaves ==
  ASSUME FInv, FInv', Located, Located', NEW r \in Runners, NEW to \in {"idle", "top", "closing"},
         InNode(r), Release(r, to)
  PROVE  MainRuns /\ Position = frames[r][1] /\ ~MainRuns' /\ Position' = Between'
<1>1. MainRuns /\ Position = frames[r][1]
  BY DEF Located
<1>2. /\ \A e \in Callers : pc[e] = "idle"
      /\ \A t \in Tasks : t # r => pc[t] \in {"idle", "closing"}
  BY RunnerAlone DEF InNode, Active
<1>3. pc' = [pc EXCEPT ![r] = to]
  BY ReleaseFree
<1>4. \A t \in Tasks : pc'[t] = IF t = r THEN to ELSE pc[t]
  BY <1>3 DEF FInv, TypeOK
<1>5. (\A t \in Tasks : ~InNode(t)') /\ \A e \in Callers : pc'[e] = "idle"
  BY <1>2, <1>4, InterpreterAssumption DEF InNode
<1> QED
  BY <1>1, <1>5 DEF Located

-----------------------------------------------------------------------------
(* The steps of the workflow, as its author sees them.                     *)

(* The abstract module computes with the same addresses.                  *)
LEMMA SameHelpers ==
  /\ Flow!Nil = Nil /\ Flow!First = First
  /\ \A p : Flow!Entered(p) = Entered(p) /\ Flow!AdvanceAddr(p) = AdvanceAddr(p)
BY DEF Flow!Nil, Nil, Flow!First, First, Flow!Entered, Entered, Flow!AdvanceAddr, AdvanceAddr

(* Each step of it, read off the concrete state.                           *)
LEMMA FlowBegin ==
  ASSUME ~MainRuns, MainRuns', Position' = Position
  PROVE  Flow!Next
BY DEF Flow!Next, Flow!Begin, MainRuns

LEMMA FlowPass ==
  ASSUME MainRuns, ~MainRuns', Ends[Position] \cap {"return", "keep"} # {},
         Position' = Entered(AdvanceAddr(Position))
  PROVE  Flow!Next
BY SameHelpers DEF Flow!Next, Flow!Pass, MainRuns

LEMMA FlowJump ==
  ASSUME MainRuns, ~MainRuns', Position' \in Jumps[Position] \ {Nil}
  PROVE  Flow!Next
BY SameHelpers DEF Flow!Next, Flow!Jump, MainRuns

LEMMA FlowRetry ==
  ASSUME MainRuns, ~MainRuns', Position' = Position
  PROVE  Flow!Next
BY DEF Flow!Next, Flow!Retry, MainRuns

LEMMA FlowRestart ==
  ASSUME IF MainRuns THEN "notice" \in Ends[Position] ELSE UserResets,
         ~MainRuns', Position' = First
  PROVE  Flow!Next
BY SameHelpers DEF Flow!Next, Flow!Restart, MainRuns

LEMMA EnteredAddr == \A p \in Addr : p # Nil /\ Entered(p) = p
BY WorkflowAssumption DEF Addr, Nil, Entered

(* The steps that leave a node of the loop.                                *)
LEMMA RefStepPast ==
  ASSUME FInv, FInv', Located, Located', NEW r \in Runners, StepPast(r)
  PROVE  Flow!Next
<1> DEFINE a == frames[r][1]
<1>1. /\ pc[r] = "yielded" /\ pointer' = (IF jmp THEN pointer ELSE AdvanceAddr(pointer)) /\ hlt' = hlt
      /\ (Release(r, "closing") \/ Release(r, "top"))
  BY DEF StepPast
<1>2. MainRuns /\ Position = a /\ ~MainRuns' /\ Position' = Between'
  BY <1>1, FlowLeaves DEF InNode
<1>3. /\ ~hlt /\ "return" \in Ends[a]
      /\ IF jmp THEN pointer \in Jumps[a] \ {Nil} ELSE pointer = a
  BY <1>1 DEF FInv, Stacked
<1>4. Position' = Entered(pointer')
  BY <1>1, <1>2, <1>3 DEF Between
<1>5. CASE jmp
  <2>1. Position' = pointer
    BY <1>1, <1>3, <1>4, <1>5 DEF Entered
  <2> QED
    BY <1>2, <1>3, <1>5, <2>1, FlowJump
<1>6. CASE ~jmp
  <2>1. Position' = Entered(AdvanceAddr(a))
    BY <1>1, <1>3, <1>4, <1>6
  <2> QED
    BY <1>2, <1>3, <2>1, FlowPass
<1> QED
  BY <1>5, <1>6

LEMMA RefAbandon ==
  ASSUME Orderly, FInv, FInv', Located, Located', NEW r \in Runners, Abandon(r)
  PROVE  Flow!Next
<1>1. /\ pc[r] = "yielded" /\ ~jmp /\ pointer' = pointer /\ hlt' = hlt /\ Release(r, "idle")
  BY DEF Abandon, Orderly, regs
<1>2. MainRuns /\ Position = frames[r][1] /\ ~MainRuns' /\ Position' = Between'
  BY <1>1, FlowLeaves DEF InNode
<1>3. ~hlt /\ pointer = frames[r][1]
  BY <1>1 DEF FInv, Stacked
<1>4. frames[r][1] \in Addr
  <2>1. frames[r] \in Seq(Addr) /\ Len(frames[r]) = 1
    BY <1>1 DEF FInv, TypeOK, Framed
  <2> QED
    BY <2>1, ElementOfSeq
<1>5. Position' = Position
  BY <1>1, <1>2, <1>3, <1>4, EnteredAddr DEF Between
<1> QED
  BY <1>2, <1>5, FlowRetry

LEMMA RefPanics ==
  ASSUME Orderly, FInv, FInv', Located, Located', NEW r \in Runners,
         NEW tgt \in Addr \cup {Nil}, Panics(r, tgt)
  PROVE  Flow!Next
<1>1. pc[r] = "exec" /\ Release(r, "idle")
  BY DEF Panics
<1>2. MainRuns /\ Position = frames[r][1] /\ ~MainRuns' /\ Position' = Between'
  BY <1>1, FlowLeaves DEF InNode
<1>3. hlt' = FALSE /\ pointer' = frames[r][1] /\ frames[r][1] \in Addr
  BY <1>1, PanicStays, AtNode
<1>4. Position' = Position
  BY <1>2, <1>3, EnteredAddr DEF Between
<1> QED
  BY <1>2, <1>4, FlowRetry

LEMMA RefHalts ==
  ASSUME Orderly, FInv, FInv', Located, Located', NEW r \in Runners,
         NEW tgt \in Addr \cup {Nil}, Halts(r, tgt)
  PROVE  Flow!Next
<1>1. pc[r] = "exec" /\ "keep" \in Ends[Node(r)] /\ Release(r, "idle")
  BY DEF Halts
<1>2. MainRuns /\ Position = frames[r][1] /\ ~MainRuns' /\ Position' = Between'
  BY <1>1, FlowLeaves DEF InNode
<1>3. /\ hlt' = TRUE /\ pointer' = frames[r][1] /\ frames[r][1] \in Addr
      /\ Ends[Node(r)] \cap {"keep", "notice"} \subseteq Ends[frames[r][1]]
  BY <1>1, HaltStays, AtNode
<1>4. Position' = Entered(AdvanceAddr(Position))
  BY <1>2, <1>3, EnteredAddr DEF Between
<1>5. "keep" \in Ends[Position]
  BY <1>1, <1>2, <1>3
<1> QED
  BY <1>2, <1>4, <1>5, FlowPass

LEMMA RefResets ==
  ASSUME FInv, FInv', Located, Located', NEW r \in Runners, Resets(r)
  PROVE  Flow!Next
<1>1. /\ pc[r] = "exec" /\ "notice" \in Ends[Node(r)] /\ Release(r, "closing")
      /\ pointer' = Nil /\ hlt' = FALSE
  BY DEF Resets, Cleared
<1>2. MainRuns /\ Position = frames[r][1] /\ ~MainRuns' /\ Position' = Between'
  BY <1>1, FlowLeaves DEF InNode
<1>3. Ends[Node(r)] \cap {"keep", "notice"} \subseteq Ends[frames[r][1]]
  BY <1>1, AtNode
<1>4. Position' = First
  BY <1>1, <1>2 DEF Between, Entered
<1> QED
  BY <1>1, <1>2, <1>3, <1>4, FlowRestart

(* The steps of the loop and of nodes that the author does not see, and    *)
(* the one that begins a node.                                             *)
LEMMA RefResume ==
  ASSUME FInv, FInv', Located, Located', NEW r \in Runners, Resume(r)
  PROVE  UNCHANGED <<Position, MainRuns>>
<1>1. /\ pc[r] = "locked" /\ hlt /\ hlt' = FALSE /\ pointer' = AdvanceAddr(Entered(pointer))
      /\ (Release(r, "closing") \/ Release(r, "top"))
  BY DEF Resume
<1>2. /\ \A e \in Callers : pc[e] = "idle"
      /\ \A t \in Tasks : t # r => pc[t] \in {"idle", "closing"}
  BY <1>1, RunnerAlone DEF Active
<1>3. PICK to \in {"closing", "top"} : pc' = [pc EXCEPT ![r] = to]
  BY <1>1, ReleaseFree
<1>4. \A t \in Tasks : pc'[t] = IF t = r THEN to ELSE pc[t]
  BY <1>3 DEF FInv, TypeOK
<1>5. ~MainRuns /\ Position = Between
  BY <1>1, <1>2 DEF Located, InNode
<1>6. (\A t \in Tasks : ~InNode(t)') /\ \A e \in Callers : pc'[e] = "idle"
  BY <1>2, <1>4, InterpreterAssumption DEF InNode
<1>7. ~MainRuns' /\ Position' = Between'
  BY <1>6 DEF Located
<1>8. Between' = Between
  BY <1>1 DEF Between
<1> QED
  BY <1>5, <1>7, <1>8 DEF MainRuns

(* A node of the loop goes on being the one that runs.                     *)
LEMMA FlowGoesOn ==
  ASSUME Located, Located', NEW r \in Runners, InNode(r), InNode(r)', frames'[r][1] = frames[r][1]
  PROVE  UNCHANGED <<Position, MainRuns>>
<1>1. MainRuns /\ MainRuns' /\ Position' = Position
  BY DEF Located
<1> QED
  BY <1>1 DEF MainRuns

(* So does a call of an external task.                                     *)
LEMMA FlowCalls ==
  ASSUME Located, Located', NEW e \in Callers, pc[e] # "idle", pc'[e] # "idle",
         stack'[1] = stack[1]
  PROVE  UNCHANGED <<Position, MainRuns>>
<1>1. ~MainRuns /\ ~MainRuns' /\ Position' = Position
  BY DEF Located
<1> QED
  BY <1>1 DEF MainRuns

LEMMA RefReturns ==
  ASSUME FInv, FInv', Located, Located', NEW r \in Runners,
         NEW tgt \in Addr \cup {Nil}, Returns(r, tgt)
  PROVE  UNCHANGED <<Position, MainRuns>>
<1>1. pc[r] = "exec" /\ pc' = [pc EXCEPT ![r] = "yielded"] /\ frames' = frames
  BY DEF Returns
<1>2. pc'[r] = "yielded"
  BY <1>1 DEF FInv, TypeOK
<1> QED
  BY <1>1, <1>2, FlowGoesOn DEF InNode

LEMMA RefBegin ==
  ASSUME FInv, FInv', Located, Located', NEW t \in Tasks, Begin(t)
  PROVE  Flow!Next \/ UNCHANGED <<Position, MainRuns>>
<1>1. /\ pc[t] = "locked" /\ (t \in Runners => ~hlt) /\ pointer' = Entered(pointer)
      /\ frames' = [frames EXCEPT ![t] = <<Entered(pointer)>>]
      /\ pc' = [pc EXCEPT ![t] = "exec"] /\ stack' = stack
  BY DEF Begin
<1>2. pc'[t] = "exec" /\ frames'[t] = <<Entered(pointer)>>
  BY <1>1 DEF FInv, TypeOK
<1>3. CASE t \in Runners
  <2>1. /\ \A e \in Callers : pc[e] = "idle"
        /\ \A s \in Tasks : s # t => pc[s] \in {"idle", "closing"}
    BY <1>1, <1>3, RunnerAlone DEF Active
  <2>2. ~MainRuns /\ Position = Between
    BY <1>1, <2>1 DEF Located, InNode
  <2>3. MainRuns' /\ Position' = frames'[t][1]
    BY <1>2, <1>3 DEF Located, InNode
  <2>4. Position' = Position
    BY <1>1, <1>2, <1>3, <2>2, <2>3 DEF Between
  <2> QED
    BY <2>2, <2>3, <2>4, FlowBegin
<1>4. CASE t \in Callers
  BY <1>1, <1>2, <1>4, FlowCalls
<1> QED
  BY <1>3, <1>4

LEMMA RefSubCall ==
  ASSUME Orderly, FInv, FInv', Located, Located', NEW t \in Tasks, NEW h \in Addr, SubCall(t, h)
  PROVE  UNCHANGED <<Position, MainRuns>>
<1>1. pc[t] = "exec" /\ pc' = pc
  BY DEF SubCall
<1>2. frames'[t][1] = frames[t][1] /\ (stack # <<>> => stack'[1] = stack[1])
  BY InvSubCall
<1>3. CASE t \in Runners
  BY <1>1, <1>2, <1>3, FlowGoesOn DEF InNode
<1>4. CASE t \in Callers
  <2>1. Len(stack) = Len(frames[t]) /\ Len(frames[t]) \in Nat \ {0}
    BY <1>1, <1>4, AtAnyNode DEF FInv, Stacked
  <2>2. stack # <<>>
    BY <2>1, StackType
  <2> QED
    BY <1>1, <1>2, <1>4, <2>2, FlowCalls
<1> QED
  BY <1>3, <1>4

LEMMA RefSubEnds ==
  ASSUME Orderly, FInv, FInv', Located, Located', NEW t \in Tasks,
         NEW tgt \in Addr \cup {Nil}, SubEnds(t, tgt)
  PROVE  UNCHANGED <<Position, MainRuns>>
<1>1. pc[t] = "exec" /\ pc' = pc
  BY DEF SubEnds
<1>2. frames'[t][1] = frames[t][1] /\ (t \in Callers => stack'[1] = stack[1])
  BY InvSubEnds
<1>3. CASE t \in Runners
  BY <1>1, <1>2, <1>3, FlowGoesOn DEF InNode
<1>4. CASE t \in Callers
  BY <1>1, <1>2, <1>4, FlowCalls
<1> QED
  BY <1>3, <1>4

(* The steps of external tasks: none of them shows.                        *)
LEMMA RefInject ==
  ASSUME Orderly, FInv, FInv', Located, Located', NEW e \in Callers, NEW h \in Handlers, Inject(e, h)
  PROVE  UNCHANGED <<Position, MainRuns>>
<1>1. stack'[1] = pointer /\ ~hlt /\ (\A d \in Callers : pc[d] = "idle") /\ pc'[e] = "locked"
  BY InvInject
<1>2. gate = "held"
  BY DEF Inject, MayInject, Orderly
<1>3. PICK p \in Runners : pc[p] = "parked"
  BY <1>2 DEF FInv, Alone
<1>4. \A q \in Runners : pc[q] \in {"idle", "closing", "parked"}
  BY <1>3 DEF FInv, RunInv, AtMostOneRun, Active
<1>5. \A t \in Tasks : ~InNode(t)
  BY <1>1, <1>4 DEF InNode
<1>6. ~MainRuns /\ Position = Entered(pointer)
  BY <1>1, <1>5 DEF Located, Between
<1>7. ~MainRuns' /\ Position' = Entered(pointer)
  BY <1>1 DEF Located
<1> QED
  BY <1>6, <1>7 DEF MainRuns

LEMMA RefInjectedEnds ==
  ASSUME Orderly, FInv, FInv', Located, Located', NEW e \in Callers,
         NEW tgt \in Addr \cup {Nil}, InjectedEnds(e, tgt)
  PROVE  UNCHANGED <<Position, MainRuns>>
<1>1. pc[e] = "exec"
  BY DEF InjectedEnds
<1>2. /\ pointer' = stack[1] /\ ~hlt'
      /\ (\A t \in Tasks : ~InNode(t)') /\ (\A d \in Callers : pc'[d] = "idle")
  BY InvInjectedEnds
<1>3. ~MainRuns /\ Position = Entered(stack[1])
  BY <1>1 DEF Located
<1>4. ~MainRuns' /\ Position' = Entered(stack[1])
  BY <1>2 DEF Located, Between
<1> QED
  BY <1>3, <1>4 DEF MainRuns

LEMMA RefUserReset ==
  ASSUME FInv, FInv', Located, Located', UserReset
  PROVE  Flow!Next
<1>1. /\ UserResets /\ pointer' = Nil /\ hlt' = FALSE /\ pc' = pc
      /\ \A e \in Callers : pc[e] = "idle"
  BY DEF UserReset, Cleared, sched
<1>2. \A r \in Runners : pc[r] \in {"idle", "closing"}
  BY DEF UserReset, RunActive, Active
<1>3. \A t \in Tasks : ~InNode(t) /\ ~InNode(t)'
  BY <1>1, <1>2 DEF InNode
<1>4. ~MainRuns /\ ~MainRuns' /\ Position' = Between'
  BY <1>1, <1>3 DEF Located
<1>5. Position' = First
  BY <1>1, <1>4 DEF Between, Entered
<1> QED
  BY <1>1, <1>4, <1>5, FlowRestart

(* What moves no registers and no frames.                                  *)
LEMMA RefRest ==
  ASSUME FInv, FInv', Located, Located',
         \/ \E r \in Runners : Start(r) \/ Pass(r) \/ Unpark(r) \/ Park(r) \/ Closed(r)
         \/ AskSuspend \/ ResumeGate \/ GiveUpSuspend \/ UNCHANGED <<regs, sched>>
  PROVE  UNCHANGED <<Position, MainRuns>>
<1> DEFINE Q == \A t \in Tasks :
                  pc'[t] = pc[t] \/ (t \in Runners /\ {pc[t], pc'[t]} \cap {"exec", "yielded"} = {})
<1>1. ASSUME NEW r \in Runners, Start(r) \/ Park(r) \/ Closed(r)
      PROVE  UNCHANGED <<pointer, hlt, stack, frames>> /\ Q
  <2>1. UNCHANGED <<pointer, hlt, stack, frames>>
    BY <1>1 DEF Start, Park, Closed, regs
  <2>2. pc' = pc \/ (pc[r] \in {"idle", "top", "closing"}
                     /\ \E to \in {"idle", "top", "parked"} : pc' = [pc EXCEPT ![r] = to])
    BY <1>1 DEF Start, Park, Closed
  <2> QED
    BY <2>1, <2>2 DEF FInv, TypeOK
<1>2. ASSUME NEW r \in Runners, Pass(r) \/ Unpark(r)
      PROVE  UNCHANGED <<pointer, hlt, stack, frames>> /\ Q
  <2>1. UNCHANGED <<pointer, hlt, stack, frames>> /\ pc[r] \in {"top", "resumed"} /\ Proceed(r)
    BY <1>2 DEF Pass, Unpark, regs
  <2>2. \E to \in {"closing", "locked", "lockwait"} : pc' = [pc EXCEPT ![r] = to]
    BY <2>1 DEF Proceed, Take
  <2> QED
    BY <2>1, <2>2 DEF FInv, TypeOK
<1>3. ASSUME ResumeGate
      PROVE  UNCHANGED <<pointer, hlt, stack, frames>> /\ Q
  <2>1. /\ UNCHANGED <<pointer, hlt, stack, frames>>
        /\ pc' = [t \in Tasks |-> IF pc[t] = "parked" THEN "resumed" ELSE pc[t]]
    BY <1>3 DEF ResumeGate, regs
  <2>2. \A t \in Callers : pc[t] # "parked"
    BY DEF FInv, Alone
  <2> QED
    BY <2>1, <2>2
<1>4. ASSUME AskSuspend \/ GiveUpSuspend \/ UNCHANGED <<regs, sched>>
      PROVE  UNCHANGED <<pointer, hlt, stack, frames>> /\ Q
  BY <1>4 DEF AskSuspend, GiveUpSuspend, regs, sched
<1>5. UNCHANGED <<pointer, hlt, stack, frames>> /\ Q
  BY <1>1, <1>2, <1>3, <1>4
<1> QED
  BY <1>5, FlowStill

LEMMA FlowStep ==
  ASSUME Orderly
  PROVE  FInv /\ Located /\ FInv' /\ Located' /\ [Next]_vars => [Flow!Next]_(Flow!vars)
<1> SUFFICES ASSUME FInv, Located, FInv', Located', [Next]_vars
             PROVE  Flow!Next \/ UNCHANGED <<Position, MainRuns>>
  BY DEF Flow!vars
<1>1. ASSUME NEW r \in Runners, RunnerNext(r)
      PROVE  Flow!Next \/ UNCHANGED <<Position, MainRuns>>
  BY <1>1, RefRest, RefResume, RefStepPast, RefAbandon, RefHalts, RefResets, RefReturns, RefPanics
     DEF RunnerNext
<1>2. ASSUME NEW t \in Tasks, NodeNext(t)
      PROVE  Flow!Next \/ UNCHANGED <<Position, MainRuns>>
  BY <1>2, RefBegin, RefSubCall, RefSubEnds DEF NodeNext
<1>3. ASSUME NEW e \in Callers, CallerNext(e)
      PROVE  UNCHANGED <<Position, MainRuns>>
  BY <1>3, RefInject, RefInjectedEnds DEF CallerNext
<1>4. ASSUME NEW w \in Watchers, WatcherNext(w)
      PROVE  UNCHANGED <<Position, MainRuns>>
  <2>1. UNCHANGED <<regs, sched>>
    BY <1>4 DEF WatcherNext, Terminate, AwaitRun, Wake, TimesOut
  <2> QED
    BY <2>1, RefRest
<1>5. ASSUME AskSuspend \/ ResumeGate \/ GiveUpSuspend
      PROVE  UNCHANGED <<Position, MainRuns>>
  BY <1>5, RefRest
<1>6. ASSUME UNCHANGED vars
      PROVE  UNCHANGED <<Position, MainRuns>>
  <2>1. UNCHANGED <<regs, sched>>
    BY <1>6 DEF vars
  <2> QED
    BY <2>1, RefRest
<1> QED
  BY <1>1, <1>2, <1>3, <1>4, <1>5, <1>6, RefUserReset DEF Next

LEMMA FlowInit ==
  ASSUME Init, Located
  PROVE  Flow!Init
<1>1. (\A t \in Tasks : ~InNode(t)) /\ \A e \in Callers : pc[e] = "idle"
  BY DEF Init, InNode
<1>2. ~MainRuns /\ Position = Between
  BY <1>1 DEF Located
<1>3. First \in Addr
  BY AddrTypes
<1>4. Position = First
  BY <1>2, <1>3, EnteredAddr DEF Init, Between
<1> QED
  BY <1>2, <1>4, SameHelpers DEF Flow!Init, MainRuns

(* Nodes run in the order the workflow gives, each once, whatever is       *)
(* injected in the documented window, suspended, stopped, panicked,        *)
(* recovered or reset in between: the interpreter implements the workflow, *)
(* for every workflow, any number of runners, callers and watchers.        *)
THEOREM NodesInOrder ==
  ASSUME Orderly
  PROVE  Spec => RunsInOrder
<1>1. Init => FInv /\ Located
  BY FlowInvInit, Locate
<1>2. FInv /\ [Next]_vars => FInv'
  BY FlowInvStep
<1>3. FInv => Located
  BY Locate
<1>4. Init => Flow!Init
  BY <1>1, FlowInit
<1>5. FInv /\ Located /\ FInv' /\ Located' /\ [Next]_vars => [Flow!Next]_(Flow!vars)
  BY FlowStep
<1> QED
  BY <1>1, <1>2, <1>3, <1>4, <1>5, PTL DEF Spec, RunsInOrder, Flow!Spec

-----------------------------------------------------------------------------
(* The return-address stack.  Each finally pops one address, whoever       *)
(* pushed it, so it is enough to count: in every window, the stack is as   *)
(* high as calls are open.  Only a RESET node may spoil the count, by      *)
(* clearing the stack under the calls of others: either no node resets, or *)
(* nobody else has a call open while a loop is in a node.                  *)

Undisturbed ==
  \/ \A h \in Addr : "notice" \notin Ends[h]
  \/ Window # "any" /\ ~WaitTimeouts

(* Who is in a node has frames, and a caller is nowhere else than in one   *)
(* or on its way.                                                          *)
Shaped ==
  /\ \A t \in Tasks : frames[t] # <<>> <=> InNode(t)
  /\ \A r \in Runners : pc[r] = "yielded" => Len(frames[r]) = 1
  /\ \A e \in Callers : pc[e] \in {"idle", "lockwait", "locked", "exec"}

(* In the documented window, callers are under way only while a loop is    *)
(* parked.                                                                 *)
Gated ==
  Window # "any" =>
    /\ \A e \in Callers : pc[e] # "idle" => gate = "held"
    /\ gate = "held" => \E r \in Runners : pc[r] = "parked"

Counted == IsFiniteSet(CallsOpen) /\ StackMatchesCalls

CInv == TypeOK /\ LockInv /\ Shaped /\ Gated /\ Counted

(* The calls of one task among all.                                        *)
LEMMA CallsOf ==
  ASSUME NEW t \in Tasks
  PROVE  /\ {t} \X (1 .. Calls(t)) \subseteq CallsOpen
         /\ \A k : <<t, k>> \in CallsOpen <=> k \in 1 .. Calls(t)
BY DEF CallsOpen

LEMMA CallsFit ==
  ASSUME CInv, NEW t \in Tasks
  PROVE  /\ Calls(t) \in Nat /\ Calls(t) <= Len(stack) /\ Len(stack) \in Nat
         /\ IsFiniteSet({t} \X (1 .. Calls(t))) /\ Cardinality({t} \X (1 .. Calls(t))) = Calls(t)
<1> DEFINE n == Calls(t)
<1>1. n \in Nat /\ Len(stack) \in Nat
  BY CallsType, LenProperties DEF CInv, TypeOK
<1>2. IsFiniteSet({t}) /\ Cardinality({t}) = 1
  BY FS_Singleton
<1>3. IsFiniteSet(1 .. n) /\ Cardinality(1 .. n) = n
  BY <1>1, FS_Interval
<1>4. {t} \X (1 .. n) \subseteq CallsOpen
  BY CallsOf
<1> HIDE DEF n
<1>5. IsFiniteSet({t} \X (1 .. n)) /\ Cardinality({t} \X (1 .. n)) = 1 * n
  <2> DEFINE I == 1 .. n  A == {t}
  <2>1. IsFiniteSet(A) /\ Cardinality(A) = 1 /\ IsFiniteSet(I) /\ Cardinality(I) = n
    BY <1>2, <1>3
  <2> HIDE DEF I, A
  <2>2. IsFiniteSet(A \X I) /\ Cardinality(A \X I) = Cardinality(A) * Cardinality(I)
    BY <2>1, FS_Product
  <2>3. IsFiniteSet(A \X I) /\ Cardinality(A \X I) = 1 * n
    BY <2>1, <2>2
  <2> QED BY <2>3 DEF A, I
<1>6. IsFiniteSet(CallsOpen) /\ Len(stack) = Cardinality(CallsOpen)
  BY DEF CInv, Counted, StackMatchesCalls
<1>7. Cardinality({t} \X (1 .. n)) <= Cardinality(CallsOpen)
  BY <1>4, <1>6, FS_Subset
<1> QED
  BY <1>1, <1>5, <1>6, <1>7 DEF n

(* As many calls as before, one more, or k of the calls of t less.         *)
LEMMA CountSame ==
  ASSUME Counted, \A t \in Tasks : Calls(t)' = Calls(t), Len(stack') = Len(stack)
  PROVE  Counted'
<1>1. CallsOpen' = CallsOpen
  BY DEF CallsOpen
<1> QED
  BY <1>1 DEF Counted, StackMatchesCalls

LEMMA CountMore ==
  ASSUME CInv, NEW t \in Tasks, Calls(t)' = Calls(t) + 1,
         \A s \in Tasks : s # t => Calls(s)' = Calls(s), Len(stack') = Len(stack) + 1
  PROVE  Counted'
<1> DEFINE c == <<t, Calls(t) + 1>>
<1>1. Calls(t) \in Nat
  BY CallsFit
<1>2. 1 .. Calls(t) + 1 = (1 .. Calls(t)) \cup {Calls(t) + 1} /\ Calls(t) + 1 \notin 1 .. Calls(t)
  BY <1>1
<1>3. c \notin CallsOpen
  BY <1>2, CallsOf
<1>4. CallsOpen' = CallsOpen \cup {c}
  BY <1>2 DEF CallsOpen
<1> HIDE DEF c
<1>5. IsFiniteSet(CallsOpen') /\ Cardinality(CallsOpen') = Cardinality(CallsOpen) + 1
  BY <1>3, <1>4, FS_AddElement DEF CInv, Counted
<1> QED
  BY <1>5 DEF CInv, Counted, StackMatchesCalls

LEMMA CountLess ==
  ASSUME CInv, NEW t \in Tasks, NEW k \in Nat, k <= Calls(t), Calls(t)' = Calls(t) - k,
         \A s \in Tasks : s # t => Calls(s)' = Calls(s), Len(stack') = Len(stack) - k
  PROVE  Counted'
<1> DEFINE n == Calls(t)
           own == {t} \X ((n - k + 1) .. n)
<1>1. n \in Nat
  BY CallsFit
<1>2. \A i : i \in 1 .. n - k <=> i \in 1 .. n /\ i \notin (n - k + 1) .. n
  BY <1>1
<1>3. CallsOpen' = CallsOpen \ own
  <2>1. ASSUME NEW s \in Tasks
        PROVE  {s} \X (1 .. Calls(s)') = ({s} \X (1 .. Calls(s))) \ own
    BY <1>2
  <2> QED
    BY <2>1 DEF CallsOpen
<1>4. own \subseteq CallsOpen
  BY <1>1, CallsOf
<1>5. IsFiniteSet({t}) /\ Cardinality({t}) = 1
  BY FS_Singleton
<1>6. IsFiniteSet((n - k + 1) .. n) /\ Cardinality((n - k + 1) .. n) = k
  <2>1. n - k + 1 \in Int /\ n \in Int /\ n - (n - k + 1) + 1 = k
    BY <1>1
  <2>2. n - k + 1 > n <=> k = 0
    BY <1>1
  <2> HIDE DEF n
  <2> QED
    BY <2>1, <2>2, FS_Interval
<1>7. IsFiniteSet(own) /\ Cardinality(own) = k
  <2> DEFINE m == (n - k + 1) .. n
  <2>1. IsFiniteSet(m) /\ Cardinality(m) = k
    BY <1>6
  <2> HIDE DEF m
  <2>2. IsFiniteSet({t} \X m) /\ Cardinality({t} \X m) = 1 * k
    BY <1>5, <2>1, FS_Product
  <2>3. 1 * k = k
    OBVIOUS
  <2> QED
    BY <2>2, <2>3 DEF m
<1> HIDE DEF n
<1> HIDE DEF own
<1>8. /\ IsFiniteSet(CallsOpen')
      /\ Cardinality(CallsOpen') = Cardinality(CallsOpen) - Cardinality(CallsOpen \cap own)
  BY <1>3, FS_Difference DEF CInv, Counted
<1>9. CallsOpen \cap own = own
  BY <1>4
<1> QED
  BY <1>7, <1>8, <1>9 DEF CInv, Counted, StackMatchesCalls

(* One task moves: of the others, one may be handed the lock.              *)
Moved(t) ==
  \A s \in Tasks : s # t =>
    /\ frames'[s] = frames[s]
    /\ pc'[s] = pc[s] \/ (pc[s] = "lockwait" /\ pc'[s] = "locked")

LEMMA MovedBy ==
  ASSUME TypeOK, LockInv, NEW t \in Tasks,
         frames' = frames \/ (\E f : frames' = [frames EXCEPT ![t] = f]),
         \/ pc' = pc
         \/ \E to \in Locs : pc' = [pc EXCEPT ![t] = to]
         \/ \E to \in {"idle", "top", "closing"} : pc[t] \in Inside /\ Release(t, to)
         \/ Take(t)
  PROVE  Moved(t)
<1>1. \A s \in Tasks : s # t => frames'[s] = frames[s]
  BY DEF TypeOK
<1>2. ASSUME NEW to \in {"idle", "top", "closing"}, pc[t] \in Inside, Release(t, to)
      PROVE  \A s \in Tasks :
               s # t => pc'[s] = pc[s] \/ (pc[s] = "lockwait" /\ pc'[s] = "locked")
  <2>1. CASE queue = <<>>
    BY <1>2, <2>1 DEF Release, TypeOK
  <2>2. CASE queue # <<>>
    <3>1. Head(queue) = queue[1] /\ 1 \in 1 .. Len(queue)
      BY <2>2, HeadTailProperties, LenProperties, EmptySeq DEF TypeOK
    <3>2. Head(queue) \in Tasks /\ pc[Head(queue)] = "lockwait"
      BY <3>1, ElementOfSeq DEF TypeOK, LockInv
    <3>3. pc' = [pc EXCEPT ![t] = to, ![Head(queue)] = "locked"]
      BY <1>2, <2>2 DEF Release
    <3> QED
      BY <3>2, <3>3 DEF TypeOK
  <2> QED
    BY <2>1, <2>2
<1>3. ASSUME Take(t)
      PROVE  \A s \in Tasks : s # t => pc'[s] = pc[s]
  BY <1>3 DEF Take, TypeOK
<1>4. \A s \in Tasks : s # t => pc'[s] = pc[s] \/ (pc[s] = "lockwait" /\ pc'[s] = "locked")
  BY <1>2, <1>3 DEF TypeOK
<1> QED
  BY <1>1, <1>4 DEF Moved

(* The others keep the calls they have, and their shape.                   *)
LEMMA MovedCalls ==
  ASSUME NEW t \in Tasks, Moved(t)
  PROVE  \A s \in Tasks : s # t => Calls(s)' = Calls(s)
BY DEF Moved, Calls

LEMMA MovedShape ==
  ASSUME CInv, NEW t \in Tasks, Moved(t), frames'[t] # <<>> <=> pc'[t] \in {"exec", "yielded"},
         pc'[t] = "yielded" => Len(frames'[t]) = 1,
         t \in Callers => pc'[t] \in {"idle", "lockwait", "locked", "exec"}
  PROVE  Shaped'
<1>1. \A s \in Tasks : frames'[s] # <<>> <=> pc'[s] \in {"exec", "yielded"}
  BY DEF CInv, Shaped, Moved, InNode
<1>2. \A r \in Runners : pc'[r] = "yielded" => Len(frames'[r]) = 1
  BY DEF CInv, Shaped, Moved
<1>3. \A e \in Callers : pc'[e] \in {"idle", "lockwait", "locked", "exec"}
  BY DEF CInv, Shaped, Moved
<1> QED
  BY <1>1, <1>2, <1>3 DEF Shaped, InNode

LEMMA MovedGate ==
  ASSUME CInv, NEW t \in Tasks, Moved(t), gate' = gate, pc[t] # "parked",
         t \in Callers /\ pc[t] = "idle" => pc'[t] = "idle"
  PROVE  Gated'
BY DEF CInv, Gated, Moved

(* A runner that keeps no frames open across the step.                     *)
LEMMA RunnerCalls ==
  ASSUME CInv, NEW r \in Runners
  PROVE  /\ r \in Tasks /\ r \notin Callers
         /\ Calls(r) = IF frames[r] = <<>> THEN 0 ELSE Len(frames[r]) - 1
         /\ Calls(r)' = IF frames'[r] = <<>> THEN 0 ELSE Len(frames'[r]) - 1
BY InterpreterAssumption DEF Calls

(* The node of the main loop is no call.                                   *)
LEMMA LoneNode ==
  ASSUME CInv, NEW r \in Runners, Len(frames[r]) = 1
  PROVE  Calls(r) = 0 /\ Calls(r) \in Nat /\ 0 <= Calls(r)
<1>1. r \notin Callers
  BY InterpreterAssumption
<1>2. Calls(r) = 0
  BY <1>1 DEF Calls
<1> QED
  BY <1>2

(* Unwinding pops as many addresses as frames end.                         *)
LEMMA UnwindCount ==
  ASSUME CInv, NEW t \in Tasks, NEW k \in Nat, k <= Calls(t), NEW tgt, Unwind(k, tgt)
  PROVE  Len(stack') = Len(stack) - k
<1>1. Calls(t) \in Nat /\ Calls(t) <= Len(stack) /\ Len(stack) \in Nat
  BY CallsFit
<1>2. Popped(k) = k /\ Len(stack) - k \in 0 .. Len(stack)
  BY <1>1 DEF Popped
<1>3. stack' = SubSeq(stack, 1, Len(stack) - k)
  BY <1>2 DEF Unwind
<1>4. stack \in Seq(Addr \cup {Nil})
  BY DEF CInv, TypeOK
<1> QED
  BY <1>1, <1>2, <1>3, <1>4, SubSeqProperties

(* Steps of the loop.                                                      *)
Kept == Shaped /\ Gated /\ Counted

(* Around the nodes: no call opens or ends.                                *)
LEMMA KeptAround ==
  ASSUME CInv, NEW r \in Runners, Moved(r), gate' = gate, pc[r] # "parked",
         stack' = stack, Calls(r)' = Calls(r),
         frames'[r] # <<>> <=> pc'[r] \in {"exec", "yielded"},
         pc'[r] = "yielded" => Len(frames'[r]) = 1
  PROVE  Kept'
<1>1. r \in Tasks /\ r \notin Callers
  BY RunnerCalls
<1>2. Shaped' /\ Gated'
  BY <1>1, MovedShape, MovedGate
<1>3. \A s \in Tasks : Calls(s)' = Calls(s)
  BY <1>1, MovedCalls
<1>4. Counted'
  BY <1>3, CountSame DEF CInv
<1> QED
  BY <1>2, <1>4 DEF Kept

(* The loop leaves the node with k calls open, and the lock.               *)
LEMMA KeptLeaving ==
  ASSUME CInv, NEW r \in Runners, NEW to \in {"idle", "top", "closing"},
         pc[r] \in Inside, Release(r, to), frames' = [frames EXCEPT ![r] = <<>>], gate' = gate,
         Len(stack') = Len(stack) - Calls(r)
  PROVE  Kept'
<1>1. r \in Tasks /\ r \notin Callers
  BY RunnerCalls
<1>2. TypeOK /\ LockInv /\ pc[r] # "parked"
  BY DEF CInv, Inside
<1>3. Moved(r)
  BY <1>1, <1>2, MovedBy
<1>4. frames'[r] = <<>>
  BY <1>1, <1>2 DEF TypeOK
<1>5. pc'[r] = to
  BY <1>1, <1>2, ReleaseActive DEF Locs
<1>6. Shaped' /\ Gated'
  BY <1>1, <1>2, <1>3, <1>4, <1>5, MovedShape, MovedGate
<1>7. Calls(r)' = 0 /\ Calls(r) \in Nat
  BY <1>1, <1>4, RunnerCalls, CallsFit
<1>8. Counted'
  <2>1. Calls(r)' = Calls(r) - Calls(r) /\ Calls(r) <= Calls(r)
    BY <1>7
  <2> QED
    BY <1>1, <1>3, <1>7, <2>1, MovedCalls, CountLess
<1> QED
  BY <1>6, <1>8 DEF Kept

LEMMA KeptProceed ==
  ASSUME CInv, NEW r \in Runners, pc[r] \in {"top", "resumed"}, Proceed(r),
         UNCHANGED <<stack, gate, frames>>
  PROVE  Kept'
<1>1. r \in Tasks /\ r \notin Callers /\ TypeOK /\ LockInv /\ frames[r] = <<>>
  BY RunnerCalls DEF CInv, Shaped, InNode
<1>2. Take(r) \/ pc' = [pc EXCEPT ![r] = "closing"]
  BY DEF Proceed
<1>3. Moved(r)
  BY <1>1, <1>2, MovedBy DEF Locs
<1>4. pc'[r] \in {"locked", "lockwait", "closing"}
  BY <1>1, <1>2 DEF Take, TypeOK
<1>5. Calls(r)' = Calls(r)
  BY RunnerCalls
<1> QED
  BY <1>1, <1>3, <1>4, <1>5, KeptAround

LEMMA KeptStart == ASSUME CInv, NEW r \in Runners, Start(r) PROVE Kept'
<1>1. r \in Tasks /\ TypeOK /\ LockInv /\ frames[r] = <<>> /\ pc[r] = "idle"
  BY RunnerCalls DEF CInv, Shaped, InNode, Start
<1>2. UNCHANGED <<stack, gate, frames>>
  BY DEF Start, regs
<1>3. pc' = pc \/ pc' = [pc EXCEPT ![r] = "top"]
  BY DEF Start
<1>4. Moved(r)
  BY <1>1, <1>2, <1>3, MovedBy DEF Locs
<1>5. Calls(r)' = Calls(r)
  BY <1>2, RunnerCalls
<1>6. pc'[r] \in {"idle", "top"}
  BY <1>1, <1>3 DEF TypeOK
<1> QED
  BY <1>1, <1>2, <1>4, <1>5, <1>6, KeptAround

LEMMA KeptClosed == ASSUME CInv, NEW r \in Runners, Closed(r) PROVE Kept'
<1>1. r \in Tasks /\ TypeOK /\ LockInv /\ frames[r] = <<>> /\ pc[r] = "closing"
  BY RunnerCalls DEF CInv, Shaped, InNode, Closed
<1>2. UNCHANGED <<stack, gate, frames>> /\ pc' = [pc EXCEPT ![r] = "idle"]
  BY DEF Closed, regs
<1>3. Moved(r)
  BY <1>1, <1>2, MovedBy DEF Locs
<1>4. Calls(r)' = Calls(r) /\ pc'[r] = "idle"
  BY <1>1, <1>2, RunnerCalls DEF TypeOK
<1> QED
  BY <1>1, <1>2, <1>3, <1>4, KeptAround

(* The loop parks: it has the gate's hold on it.                           *)
LEMMA KeptPark == ASSUME CInv, NEW r \in Runners, Park(r) PROVE Kept'
<1>1. r \in Tasks /\ r \notin Callers /\ TypeOK /\ LockInv /\ frames[r] = <<>> /\ pc[r] = "top"
  BY RunnerCalls DEF CInv, Shaped, InNode, Park
<1>2. /\ UNCHANGED <<stack, frames>> /\ gate = "asked" /\ gate' = "held"
      /\ pc' = [pc EXCEPT ![r] = "parked"]
  BY DEF Park, regs
<1>3. Moved(r) /\ pc'[r] = "parked"
  BY <1>1, <1>2, MovedBy DEF Locs, TypeOK
<1>4. Shaped'
  BY <1>1, <1>2, <1>3, MovedShape
<1>5. Gated'
  BY <1>2, <1>3 DEF Gated
<1>6. \A s \in Tasks : Calls(s)' = Calls(s)
  BY <1>1, <1>2, <1>3, MovedCalls, RunnerCalls
<1>7. Counted'
  BY <1>2, <1>6, CountSame DEF CInv
<1> QED
  BY <1>4, <1>5, <1>7 DEF Kept

LEMMA KeptResume == ASSUME CInv, NEW r \in Runners, Resume(r) PROVE Kept'
<1>1. r \in Tasks /\ TypeOK /\ LockInv /\ pc[r] \in Inside /\ frames[r] = <<>>
  BY RunnerCalls DEF CInv, Shaped, InNode, Resume, Inside
<1>2. UNCHANGED <<stack, gate, frames>> /\ \E to \in {"closing", "top"} : Release(r, to)
  BY DEF Resume
<1>3. frames' = [frames EXCEPT ![r] = <<>>]
  BY <1>1, <1>2 DEF TypeOK
<1>4. Calls(r) = 0 /\ Len(stack) \in Nat
  BY <1>1, RunnerCalls, CallsFit
<1>5. Len(stack') = Len(stack) - Calls(r)
  BY <1>2, <1>4
<1> QED
  BY <1>1, <1>2, <1>3, <1>5, KeptLeaving

(* After a node, or in the middle of it when the consumer stops.           *)
LEMMA KeptYielded ==
  ASSUME CInv, NEW r \in Runners, StepPast(r) \/ Abandon(r)
  PROVE  Kept'
<1>1. r \in Tasks /\ pc[r] \in Inside /\ Calls(r) = 0
  <2>1. pc[r] = "yielded"
    BY DEF StepPast, Abandon
  <2>2. Len(frames[r]) = 1
    BY <2>1 DEF CInv, Shaped
  <2> QED
    BY <2>1, <2>2, LoneNode DEF Inside
<1>2. /\ UNCHANGED <<stack, gate>> /\ frames' = [frames EXCEPT ![r] = <<>>]
      /\ \E to \in {"closing", "top", "idle"} : Release(r, to)
  BY DEF StepPast, Abandon, regs
<1>3. Len(stack') = Len(stack) - Calls(r)
  BY <1>1, <1>2, CallsFit
<1> QED
  BY <1>1, <1>2, <1>3, KeptLeaving

LEMMA KeptReturns ==
  ASSUME CInv, NEW r \in Runners, NEW tgt \in Addr \cup {Nil}, Returns(r, tgt)
  PROVE  Kept'
<1>1. r \in Tasks /\ r \notin Callers /\ TypeOK /\ LockInv /\ pc[r] = "exec" /\ Len(frames[r]) = 1
  BY RunnerCalls DEF CInv, Returns
<1>2. UNCHANGED <<gate, frames>> /\ pc' = [pc EXCEPT ![r] = "yielded"] /\ Unwind(0, tgt)
  BY DEF Returns, LeaveCalls
<1>3. Len(stack') = Len(stack)
  <2>1. 0 <= Calls(r) /\ 0 \in Nat
    BY <1>1, LoneNode
  <2>2. Len(stack') = Len(stack) - 0 /\ Len(stack) \in Nat
    BY <1>1, <1>2, <2>1, UnwindCount, CallsFit
  <2> QED
    BY <2>2
<1>4. Moved(r) /\ pc'[r] = "yielded" /\ pc[r] # "parked"
  <2>1. "yielded" \in Locs
    BY DEF Locs
  <2>2. Moved(r)
    BY <1>1, <1>2, <2>1, MovedBy
  <2> QED
    BY <1>1, <1>2, <2>2 DEF TypeOK
<1>5. frames'[r] # <<>> /\ Len(frames'[r]) = 1
  <2>1. frames'[r] = frames[r]
    BY <1>2
  <2>2. frames[r] # <<>>
    BY <1>1 DEF CInv, Shaped, InNode
  <2> QED
    BY <1>1, <2>1, <2>2
<1>6. Shaped' /\ Gated'
  BY <1>1, <1>2, <1>4, <1>5, MovedShape, MovedGate
<1>7. \A s \in Tasks : Calls(s)' = Calls(s)
  BY <1>1, <1>2, <1>4, MovedCalls, RunnerCalls
<1>8. Counted'
  BY <1>3, <1>7, CountSame DEF CInv
<1> QED
  BY <1>6, <1>8 DEF Kept

(* A panic or a halt ends every call the loop has open.                    *)
LEMMA KeptPanics ==
  ASSUME CInv, NEW r \in Runners, NEW tgt \in Addr \cup {Nil}, Panics(r, tgt)
  PROVE  Kept'
<1>1. r \in Tasks /\ pc[r] \in Inside /\ Calls(r) = 0
  <2>1. Len(frames[r]) = 1
    BY DEF Panics
  <2> QED
    BY <2>1, LoneNode DEF Panics, Inside
<1>2. /\ gate' = gate /\ frames' = [frames EXCEPT ![r] = <<>>] /\ Unwind(0, tgt)
      /\ Release(r, "idle")
  BY DEF Panics, LeaveCalls
<1>3. Len(stack') = Len(stack) - Calls(r)
  <2>1. 0 <= Calls(r) /\ 0 \in Nat
    BY <1>1
  <2>2. Len(stack') = Len(stack) - 0
    BY <1>1, <1>2, <2>1, UnwindCount
  <2> QED
    BY <1>1, <2>2
<1> QED
  BY <1>1, <1>2, <1>3, KeptLeaving

LEMMA KeptHalts ==
  ASSUME CInv, NEW r \in Runners, NEW tgt \in Addr \cup {Nil}, Halts(r, tgt)
  PROVE  Kept'
<1>1. /\ r \in Tasks /\ pc[r] \in Inside /\ gate' = gate
      /\ frames' = [frames EXCEPT ![r] = <<>>] /\ Unwind(Calls(r), tgt) /\ Release(r, "idle")
  BY RunnerCalls DEF Halts, Inside
<1>2. Calls(r) \in Nat /\ Calls(r) <= Calls(r)
  <2>1. Calls(r) \in Nat
    BY <1>1, CallsFit
  <2> QED
    BY <2>1
<1>3. Len(stack') = Len(stack) - Calls(r)
  BY <1>1, <1>2, UnwindCount
<1> QED
  BY <1>1, <1>3, KeptLeaving

(* A RESET node clears the stack: then either no node may do so, or the    *)
(* loop is the only task with calls open.                                  *)
LEMMA KeptResets ==
  ASSUME CInv, (Window # "any" /\ RunInv) \/ \A h \in Addr : "notice" \notin Ends[h],
         NEW r \in Runners, Resets(r)
  PROVE  Kept'
<1>1. /\ r \in Tasks /\ pc[r] = "exec" /\ TypeOK /\ LockInv /\ frames[r] # <<>>
      /\ "notice" \in Ends[Node(r)]
  BY RunnerCalls DEF Resets, CInv, Shaped, InNode
<1>2. Node(r) \in Addr
  <2>1. frames[r] \in Seq(Addr)
    BY <1>1 DEF TypeOK
  <2>2. Len(frames[r]) \in 1 .. Len(frames[r])
    BY <1>1, <2>1, LenProperties, EmptySeq
  <2> QED
    BY <2>1, <2>2, ElementOfSeq DEF Node
<1>3. Window # "any" /\ RunInv
  BY <1>1, <1>2
<1>4. \A q \in Runners : q # r => pc[q] \in {"idle", "closing"}
  BY <1>1, <1>3 DEF RunInv, AtMostOneRun, Active
<1>5. \A e \in Callers : pc[e] = "idle"
  <2>1. gate = "held" => \E q \in Runners : pc[q] = "parked"
    BY <1>3 DEF CInv, Gated
  <2>2. gate # "held"
    BY <1>1, <1>4, <2>1
  <2> QED
    BY <1>3, <2>2 DEF CInv, Gated
<1>6. \A s \in Tasks : s # r => frames[s] = <<>> /\ pc[s] # "lockwait"
  BY <1>4, <1>5 DEF CInv, Shaped, InNode
<1>7. /\ stack' = <<>> /\ gate' = gate /\ frames' = [frames EXCEPT ![r] = <<>>]
      /\ Release(r, "closing") /\ pc[r] \in Inside
  BY <1>1 DEF Resets, Cleared, Inside
<1>8. Moved(r)
  BY <1>1, <1>7, MovedBy
<1>9. frames'[r] = <<>> /\ pc'[r] = "closing"
  BY <1>1, <1>7, ReleaseActive DEF TypeOK, Locs
<1>10. Shaped' /\ Gated'
  <2>1. r \notin Callers /\ pc[r] # "parked"
    BY <1>1, RunnerCalls
  <2> QED
    BY <1>1, <1>7, <1>8, <1>9, <2>1, MovedShape, MovedGate
<1>11. \A s \in Tasks : Calls(s)' = 0
  <2>1. \A s \in Tasks : frames'[s] = <<>>
    BY <1>6, <1>8, <1>9 DEF Moved
  <2>2. \A e \in Callers : pc'[e] \notin {"lockwait", "locked"}
    <3>1. \A e \in Callers : e # r
      BY InterpreterAssumption
    <3> QED
      BY <1>5, <1>8, <3>1 DEF Moved
  <2> QED
    BY <2>1, <2>2, EmptySeq DEF Calls
<1>12. CallsOpen' = {}
  BY <1>11 DEF CallsOpen
<1> QED
  BY <1>7, <1>10, <1>12, FS_EmptySet, EmptySeq DEF Kept, Counted, StackMatchesCalls

-----------------------------------------------------------------------------
(* Steps of node code and of external tasks.                               *)

(* An external call opens before its node begins, the main loop's node is  *)
(* none.                                                                   *)
LEMMA KeptBegin == ASSUME CInv, NEW t \in Tasks, Begin(t) PROVE Kept'
<1>1. TypeOK /\ LockInv /\ pc[t] = "locked" /\ frames[t] = <<>>
  BY DEF CInv, Shaped, InNode, Begin
<1>2. /\ UNCHANGED <<stack, gate>> /\ pc' = [pc EXCEPT ![t] = "exec"]
      /\ frames' = [frames EXCEPT ![t] = <<Entered(pointer)>>]
  BY DEF Begin
<1>3. pc'[t] = "exec" /\ frames'[t] = <<Entered(pointer)>>
  BY <1>1, <1>2 DEF TypeOK
<1>4. Len(frames'[t]) = 1 /\ frames'[t] # <<>>
  BY <1>3
<1>5. Moved(t)
  <2>1. "exec" \in Locs
    BY DEF Locs
  <2> QED
    BY <1>1, <1>2, <2>1, MovedBy
<1>6. Shaped' /\ Gated'
  BY <1>1, <1>2, <1>3, <1>4, <1>5, MovedShape, MovedGate
<1>7. Calls(t)' = Calls(t)
  <2>1. CASE t \in Callers
    BY <1>1, <1>3, <1>4, <2>1 DEF Calls
  <2>2. CASE t \notin Callers
    BY <1>1, <1>4, <2>2 DEF Calls
  <2> QED
    BY <2>1, <2>2
<1>8. Counted'
  BY <1>2, <1>5, <1>7, MovedCalls, CountSame DEF CInv
<1> QED
  BY <1>6, <1>8 DEF Kept

(* Calls grow with the frames of whoever is in a node.                     *)
LEMMA NodeCalls ==
  ASSUME CInv, NEW t \in Tasks, pc[t] = "exec"
  PROVE  /\ Len(frames[t]) \in Nat /\ Len(frames[t]) > 0 /\ frames[t] \in Seq(Addr)
         /\ Calls(t) = Len(frames[t]) - (IF t \in Callers THEN 0 ELSE 1)
<1>1. frames[t] \in Seq(Addr) /\ frames[t] # <<>>
  BY DEF CInv, TypeOK, Shaped, InNode
<1>2. Len(frames[t]) \in Nat /\ Len(frames[t]) > 0
  BY <1>1, LenProperties, EmptySeq
<1> QED
  BY <1>1, <1>2 DEF Calls

LEMMA KeptSubCall ==
  ASSUME CInv, NEW t \in Tasks, NEW h \in Addr, SubCall(t, h)
  PROVE  Kept'
<1>1. TypeOK /\ LockInv /\ pc[t] = "exec"
  BY DEF CInv, SubCall
<1>2. /\ stack' = Append(stack, pointer) /\ UNCHANGED <<gate, pc>>
      /\ frames' = [frames EXCEPT ![t] = Append(frames[t], h)]
  BY DEF SubCall
<1>3. /\ frames'[t] = Append(frames[t], h) /\ frames[t] \in Seq(Addr)
      /\ Len(frames[t]) \in Nat /\ Len(frames[t]) > 0
  BY <1>1, <1>2, NodeCalls DEF TypeOK
<1>4. Len(frames'[t]) = Len(frames[t]) + 1 /\ frames'[t] # <<>>
  BY <1>3, AppendProperties, EmptySeq
<1>5. Len(stack') = Len(stack) + 1
  BY <1>1, <1>2, AppendProperties DEF TypeOK
<1>6. Moved(t)
  BY <1>1, <1>2, MovedBy
<1>7. Shaped' /\ Gated'
  BY <1>1, <1>2, <1>4, <1>6, MovedShape, MovedGate
<1>8. Calls(t)' = Calls(t) + 1
  <2>1. CASE t \in Callers
    BY <1>1, <1>2, <1>3, <1>4, <2>1 DEF Calls
  <2>2. CASE t \notin Callers
    <3>1. Calls(t) = Len(frames[t]) - 1
      BY <1>1, <2>2, NodeCalls
    <3>2. Calls(t)' = Len(frames'[t]) - 1
      BY <1>4, <2>2 DEF Calls
    <3> QED
      BY <1>3, <1>4, <3>1, <3>2
  <2> QED
    BY <2>1, <2>2
<1>9. Counted'
  BY <1>5, <1>6, <1>8, MovedCalls, CountMore
<1> QED
  BY <1>7, <1>9 DEF Kept

LEMMA KeptSubEnds ==
  ASSUME CInv, NEW t \in Tasks, NEW tgt \in Addr \cup {Nil}, SubEnds(t, tgt)
  PROVE  Kept'
<1>1. TypeOK /\ LockInv /\ pc[t] = "exec" /\ Len(frames[t]) > 1
  BY DEF CInv, SubEnds
<1>2. /\ UNCHANGED <<gate, pc>> /\ Unwind(1, tgt)
      /\ frames' = [frames EXCEPT ![t] = SubSeq(frames[t], 1, Len(frames[t]) - 1)]
  BY DEF SubEnds, LeaveCalls
<1>3. frames[t] \in Seq(Addr) /\ Len(frames[t]) \in Nat
  BY <1>1, NodeCalls
<1>4. /\ frames'[t] = SubSeq(frames[t], 1, Len(frames[t]) - 1)
      /\ Len(SubSeq(frames[t], 1, Len(frames[t]) - 1)) = Len(frames[t]) - 1
  BY <1>1, <1>2, <1>3, Butlast DEF TypeOK
<1>5. Len(frames'[t]) = Len(frames[t]) - 1 /\ frames'[t] # <<>>
  <2>1. Len(frames'[t]) = Len(frames[t]) - 1
    BY <1>4
  <2> QED
    BY <1>1, <1>3, <2>1, EmptySeq
<1>6. Moved(t)
  BY <1>1, <1>2, MovedBy
<1>7. Shaped' /\ Gated'
  BY <1>1, <1>2, <1>5, <1>6, MovedShape, MovedGate
<1>8. Calls(t)' = Calls(t) - 1 /\ 1 <= Calls(t)
  <2>1. CASE t \in Callers
    <3>1. Calls(t) = Len(frames[t]) /\ Calls(t)' = Len(frames'[t])
      BY <1>1, <1>2, <2>1 DEF Calls
    <3> QED
      BY <1>1, <1>3, <1>5, <3>1
  <2>2. CASE t \notin Callers
    <3>1. Calls(t) = Len(frames[t]) - 1
      BY <1>1, <2>2, NodeCalls
    <3>2. Calls(t)' = Len(frames'[t]) - 1
      BY <1>5, <2>2 DEF Calls
    <3> QED
      BY <1>1, <1>3, <1>5, <3>1, <3>2
  <2> QED
    BY <2>1, <2>2
<1>9. Counted'
  <2>1. 1 \in Nat /\ Len(stack') = Len(stack) - 1
    BY <1>2, <1>8, UnwindCount
  <2> QED
    BY <1>6, <1>8, <2>1, MovedCalls, CountLess
<1> QED
  BY <1>7, <1>9 DEF Kept

LEMMA KeptInject ==
  ASSUME CInv, NEW e \in Callers, NEW h \in Handlers, Inject(e, h)
  PROVE  Kept'
<1>1. e \in Tasks /\ TypeOK /\ LockInv /\ pc[e] = "idle" /\ frames[e] = <<>>
  BY DEF CInv, Shaped, InNode, Inject
<1>2. UNCHANGED <<gate, frames>> /\ stack' = Append(stack, pointer) /\ Take(e) /\ MayInject
  BY DEF Inject
<1>3. Moved(e)
  BY <1>1, <1>2, MovedBy
<1>4. pc'[e] \in {"locked", "lockwait"}
  BY <1>1, <1>2 DEF Take, TypeOK
<1>5. Shaped'
  BY <1>1, <1>2, <1>3, <1>4, MovedShape
<1>6. Gated'
  <2>1. Window # "any" => gate = "held"
    BY <1>2 DEF MayInject
  <2>2. Window # "any" => \E r \in Runners : pc[r] = "parked"
    BY <2>1 DEF CInv, Gated
  <2>3. \A r \in Runners : pc[r] = "parked" => pc'[r] = "parked"
    BY <1>1, <1>3 DEF Moved
  <2> QED
    BY <1>2, <2>1, <2>2, <2>3 DEF Gated
<1>7. Calls(e)' = Calls(e) + 1
  <2>1. Calls(e) = 0
    BY <1>1, EmptySeq DEF Calls
  <2>2. Calls(e)' = 1
    BY <1>4 DEF Calls
  <2> QED
    BY <2>1, <2>2
<1>8. Len(stack') = Len(stack) + 1
  BY <1>1, <1>2, AppendProperties DEF TypeOK
<1>9. Counted'
  BY <1>1, <1>3, <1>7, <1>8, MovedCalls, CountMore
<1> QED
  BY <1>5, <1>6, <1>9 DEF Kept

LEMMA KeptInjectedEnds ==
  ASSUME CInv, NEW e \in Callers, NEW tgt \in Addr \cup {Nil}, InjectedEnds(e, tgt)
  PROVE  Kept'
<1>1. e \in Tasks /\ TypeOK /\ LockInv /\ pc[e] = "exec" /\ pc[e] \in Inside
  BY DEF CInv, Inside, InjectedEnds
<1>2. /\ gate' = gate /\ frames' = [frames EXCEPT ![e] = <<>>]
      /\ Unwind(Calls(e), tgt) /\ Release(e, "idle")
  BY DEF InjectedEnds, LeaveCalls
<1>3. Moved(e)
  BY <1>1, <1>2, MovedBy
<1>4. frames'[e] = <<>> /\ pc'[e] = "idle"
  BY <1>1, <1>2, ReleaseActive DEF TypeOK, Locs
<1>5. Shaped' /\ Gated'
  BY <1>1, <1>2, <1>3, <1>4, MovedShape, MovedGate
<1>6. Calls(e) \in Nat
  BY <1>1, CallsFit
<1>7. Calls(e)' = 0
  BY <1>4, EmptySeq DEF Calls
<1>8. Counted'
  <2>1. Calls(e) <= Calls(e) /\ Calls(e)' = Calls(e) - Calls(e)
    BY <1>6, <1>7
  <2>2. Len(stack') = Len(stack) - Calls(e)
    BY <1>1, <1>2, <1>6, <2>1, UnwindCount
  <2> QED
    BY <1>1, <1>3, <1>6, <2>1, <2>2, MovedCalls, CountLess
<1> QED
  BY <1>5, <1>8 DEF Kept

-----------------------------------------------------------------------------
(* The operator, the watchers and the user.                                *)

LEMMA KeptGate ==
  ASSUME CInv, AskSuspend \/ ResumeGate \/ GiveUpSuspend
  PROVE  Kept'
<1>1. TypeOK /\ Shaped /\ UNCHANGED <<stack, frames>>
  BY DEF CInv, AskSuspend, ResumeGate, GiveUpSuspend, regs, sched
<1>2. \A t \in Tasks : pc'[t] = pc[t] \/ (pc[t] = "parked" /\ pc'[t] = "resumed")
  BY <1>1 DEF AskSuspend, ResumeGate, GiveUpSuspend, sched, TypeOK
<1>3. Shaped'
  BY <1>1, <1>2 DEF Shaped, InNode
<1>4. Gated'
  <2>1. Window # "any" => gate' # "held" /\ \A e \in Callers : pc'[e] = "idle"
    <3>1. CASE AskSuspend \/ GiveUpSuspend
      <4>1. gate # "held" /\ gate' # "held" /\ pc' = pc
        BY <3>1 DEF AskSuspend, GiveUpSuspend, sched
      <4> QED
        BY <4>1 DEF CInv, Gated
    <3>2. CASE ResumeGate
      BY <1>2, <3>2 DEF ResumeGate
    <3> QED
      BY <3>1, <3>2
  <2> QED
    BY <2>1 DEF Gated
<1>5. \A t \in Tasks : Calls(t)' = Calls(t)
  BY <1>1, <1>2 DEF Calls
<1>6. Counted'
  BY <1>1, <1>5, CountSame DEF CInv
<1> QED
  BY <1>3, <1>4, <1>6 DEF Kept

LEMMA KeptUserReset == ASSUME CInv, UserReset PROVE Kept'
<1>1. UNCHANGED <<gate, pc, frames>> /\ stack' = <<>>
  BY DEF UserReset, Cleared, sched
<1>2. \A t \in Tasks : pc[t] \in {"idle", "closing"} /\ frames[t] = <<>>
  BY DEF UserReset, RunActive, Active, CInv, Shaped, InNode
<1>3. Shaped' /\ Gated'
  BY <1>1 DEF CInv, Shaped, Gated, InNode
<1>4. \A t \in Tasks : Calls(t)' = 0
  BY <1>1, <1>2, EmptySeq DEF Calls
<1>5. CallsOpen' = {}
  BY <1>4 DEF CallsOpen
<1> QED
  BY <1>1, <1>3, <1>5, FS_EmptySet, EmptySeq DEF Kept, Counted, StackMatchesCalls

LEMMA KeptStill == ASSUME CInv, UNCHANGED <<stack, gate, pc, frames>> PROVE Kept'
<1>1. \A t \in Tasks : Calls(t)' = Calls(t)
  BY DEF Calls
<1>2. Counted'
  BY <1>1, CountSame DEF CInv
<1> QED
  BY <1>2 DEF CInv, Kept, Shaped, Gated, InNode

LEMMA KeptInit == Init => Kept
<1> SUFFICES ASSUME Init
             PROVE  Kept
  OBVIOUS
<1>1. \A t \in Tasks : pc[t] = "idle" /\ frames[t] = <<>>
  BY DEF Init
<1>2. \A t \in Tasks : Calls(t) = 0
  BY <1>1, EmptySeq DEF Calls
<1>3. CallsOpen = {}
  BY <1>2 DEF CallsOpen
<1>4. Counted
  BY <1>3, FS_EmptySet, EmptySeq DEF Init, Counted, StackMatchesCalls
<1>5. Shaped
  BY <1>1 DEF Shaped, InNode
<1>6. Gated
  BY <1>1 DEF Init, Gated
<1> QED
  BY <1>4, <1>5, <1>6 DEF Kept

LEMMA KeptStep ==
  ASSUME CInv, (Window # "any" /\ RunInv) \/ \A h \in Addr : "notice" \notin Ends[h],
         [Next]_vars
  PROVE  Kept'
<1>1. ASSUME NEW r \in Runners, RunnerNext(r)
      PROVE  Kept'
  <2>1. CASE Start(r) \/ Closed(r) \/ Park(r)
    BY <2>1, KeptStart, KeptClosed, KeptPark
  <2>2. CASE Pass(r) \/ Unpark(r)
    BY <2>2, KeptProceed DEF Pass, Unpark, regs
  <2>3. CASE Resume(r) \/ StepPast(r) \/ Abandon(r)
    BY <2>3, KeptResume, KeptYielded
  <2>4. CASE Resets(r)
    BY <2>4, KeptResets
  <2>5. ASSUME NEW tgt \in Addr \cup {Nil},
               Returns(r, tgt) \/ Panics(r, tgt) \/ Halts(r, tgt)
        PROVE  Kept'
    BY <2>5, KeptReturns, KeptPanics, KeptHalts
  <2> QED
    BY <1>1, <2>1, <2>2, <2>3, <2>4, <2>5 DEF RunnerNext
<1>2. ASSUME NEW t \in Tasks, NodeNext(t)
      PROVE  Kept'
  BY <1>2, KeptBegin, KeptSubCall, KeptSubEnds DEF NodeNext
<1>3. ASSUME NEW e \in Callers, CallerNext(e)
      PROVE  Kept'
  BY <1>3, KeptInject, KeptInjectedEnds DEF CallerNext
<1>4. ASSUME NEW w \in Watchers, WatcherNext(w)
      PROVE  Kept'
  BY <1>4, KeptStill DEF WatcherNext, Terminate, AwaitRun, Wake, TimesOut, regs, sched
<1>5. CASE AskSuspend \/ ResumeGate \/ GiveUpSuspend
  BY <1>5, KeptGate
<1>6. CASE UserReset
  BY <1>6, KeptUserReset
<1>7. CASE UNCHANGED vars
  BY <1>7, KeptStill DEF vars, regs, sched
<1> QED
  BY <1>1, <1>2, <1>3, <1>4, <1>5, <1>6, <1>7 DEF Next

(* The return-address stack holds one address for each call under way, of  *)
(* nodes and of external tasks: a finally block always has an address to   *)
(* pop, and nothing stays on the stack when nobody is calling.  This is so *)
(* in every window, with nodes that jump, fail and halt, as long as no     *)
(* RESET node runs; with RESET nodes it is so in the documented window,    *)
(* where a second run cannot start under the first.                        *)
THEOREM StackIsCalls ==
  ASSUME Undisturbed
  PROVE  Spec => []StackMatchesCalls
<1> DEFINE Quiet == Window # "any" /\ ~WaitTimeouts => RunInv
           Inv == TypeOK /\ LockInv /\ Kept /\ Quiet
<1>1. Init => Inv
  BY TypeInit, LockInit, KeptInit, RunInit
<1>2. Inv /\ [Next]_vars => Inv'
  <2> SUFFICES ASSUME Inv, [Next]_vars
               PROVE  Inv'
    OBVIOUS
  <2>1. TypeOK' /\ LockInv'
    BY TypeStep, LockStep
  <2>2. Quiet'
    BY RunStep DEF RunInv, AtMostOneRun
  <2>3. CInv
    BY DEF CInv, Kept
  <2>4. Kept'
    BY <2>3, KeptStep DEF Undisturbed
  <2> QED
    BY <2>1, <2>2, <2>4
<1>3. Inv => StackMatchesCalls
  BY DEF Kept, Counted
<1> QED
  BY <1>1, <1>2, <1>3, PTL DEF Spec
=============================================================================
