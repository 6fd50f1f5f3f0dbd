# A verification project for AmritaSense

AmritaSense executes workflows: a composition of nodes is rendered into nested
containers, and a `WorkflowInterpreter` walks a pointer over it, one node at a
time, while external tasks suspend it, inject calls into it, wait for it and
terminate it. All of it is asynchronous Python: what is hard here is what happens
between two awaits, and what a later run finds of an earlier one.

This directory holds TLA+ models of that code, TLC runs that check them on small
instances, and TLAPS proofs. All paths below are under `src/amrita_sense/`.

## 1. Inventory

| Part | State | Operations | Talks to | Hard because | Correct means |
|---|---|---|---|---|---|
| **Interpreter** `runtime/workflow.py`, `types.py` | `_pointer`, `_flags` (JMP, HLT, IF), `_ret_addr_stack`, `_waiter_fut`, `_pending_stop`, `_panic_exc`, `_interpret_lock` | `run`, `run_step_by`, `call_sub` and its relatives, `jump_*`, `terminate`, `wait`, `reset` | stream (checkpoint), dependencies, nodes | external calls between any two steps; panics and suspensions that a later run resumes | nodes in the order of the workflow, one at a time, one run at a time; stop works; who waits is woken |
| **Suspend control** `streaming.py` | suspend and resume futures, tags, state lock | `_wait_for_continue`, `wait_to_suspend`, `resume` | every checkpoint and tagged node | shared futures, timeouts, several operators, several loops | no lost wake-up as long as each loop turns, one resume for all, a park confirms the request |
| **Response streams** `streaming.py` | two bounded queues, done flags, callbacks | `yield_response`, `push_object`, `set_queue_done`, the generators | nodes, consumers | a full queue and the end marker, a callback set in between | every item once and in order, the reader ends |
| **Generator dependencies** `di/`, `hook/matcher.py` | dependency store, scopes with exit stacks | `resolve`, `acquire`, `aclose`, `_close_workflow_scope` | interpreter | concurrent resolution, cancellation, closing under use | shared once, open while used, torn down once and in reverse |
| **Node argument cache** `runtime/deps.py`, `workflow.py` | LRU payload, `args_hash`, `hash_trustable` | `_rslv_node*`, `rehash_args` | interpreter | arguments change under the cache | a hit is what a miss would compute |
| **Addressing** `node/addressing.py` | rendered containers | `advance`, `find_addr`, aliases | interpreter | nested and empty containers, ends of several at once | a pre-order walk over the nodes |
| **Instructions** `instructions/` | cached return addresses, contexts, IF flag | CALL, RET, INT, IRET, TRY, clauses, loops | interpreter | instructions that move the pointer inside calls | the structured statement they stand for |
| **Native control flow** `instructions/native/` | linked jump targets | IF, WHILE, DO, BREAK | interpreter | stale return entries, fall-through | the same |
| **Interpreter tree** `workflow.py`, `batch.py`, `func_block.py` | parent and children tables | `fork_interpreter`, `terminate_all`, `wait_all`, BATCH_RUN | interpreters | snapshots of a tree that changes | all children are reached |
| **Event dispatch** `hook/` | registry, matcher lists, lock pool | `trigger_event` | nodes | lists that change during a dispatch, nested dispatch | priority order, blocking |
| **Weak LRU cache** `weakcache.py` | strong and weak tables | get, set, eviction | dispatch, caches | collection at any moment | the table and the order agree |
| **Composition, DLL** `node/` | slots, versions, aliases | `render`, `link`, `apply` | addressing | relinking in place | symbols resolve to what is in the slots |
| **Debugger** `debugger/` | breakpoints, step mode | middleware | interpreter | suspends inside the loop | stops exactly where asked |

How they interact: the main loop passes the stream's checkpoint `PC_CHECKPOINT`
before each node, looks at `_pending_stop`, takes the interpreter lock, and
executes the node, for which dependencies are resolved. Node code moves the
pointer (jumps) or opens frames on the return stack (`call_sub`). External tasks
enter by the same `call_sub` with `interrupt=True`. A run that is completed or
stopped closes the workflow scope of the dependencies; one that is suspended or
has panicked leaves it open for the run that resumes.

PROJECT.json lists the hazards with the line at which each bites.

## 2. What is modelled

| Module | Code | Role |
|---|---|---|
| `Workflow` | flat case of `AddressCalculator.advance`, endings of nodes | the program an interpreter executes, as constants |
| `WorkflowFlow` | (none: a promise) | abstract specification: the sequence of nodes as the author sees it |
| `Interpreter` | `run_step_by`, `call_sub`, `reset`, `terminate`, `wait`, jumps, halts | the detailed specification |
| `MCInterpreter` | | two small workflows for TLC |
| `InterpreterProofs` | | theorems about `Interpreter` |
| `SuspendStream` | suspend and resume of `SuspendObjectStream` | specification and properties |
| `SuspendStreamProofs` | | theorems about `SuspendStream` |
| `FifoChannel` | (none: a promise) | abstract specification of one direction of a stream |
| `ResponseStream` | the queues, end markers, generators and callbacks of `SuspendObjectStream` | specification and properties |
| `ResponseStreamProofs` | | theorems about `ResponseStream` |
| `Dependencies` | `DependencyStore`, `LifecycleScope`, `_close_workflow_scope`, concurrent resolution | specification and properties |
| `MCDependencies` | | two providers, one built from the other |
| `DependenciesProofs` | | theorems about `Dependencies` |
| `Addressing` | `AddressCalculator.advance`, `find_addr`, `PointerVector`, the jump methods, the descent of `_call` | the walk over nested compositions, against the order of addresses |
| `AddressingProofs` | | theorems about `Addressing` |
| `Layout` | `extract()` of every clause, `NodeComposeRendered._process_nodes`, the alias table | what a source program compiles to |
| `Structured` | (none: a promise) | what the same program means to its author |
| `Instructions` | the handlers of the built-in nodes, `call_sub`, the main loop, the jump methods, contexts | a compiled program, run against `Structured` |
| `MCInstructions` | | 22 source programs, and 4 that do not do what they say |
| `WeakCache` | `WeakValueLRUCache` | specification and properties |
| `Selection` | (an operator) | what removing elements leaves of a sequence |
| `WeakCacheProofs` | | theorems about `WeakCache` |
| `EventDispatch` | `trigger_event`, `_simple_run`, `EventRegistry`, `_repo_lock` | specification and properties |
| `MCEventDispatch` | | four handlers of two event types |
| `EventDispatchProofs` | | theorems about `EventDispatch` |
| `InterpreterTree` | `fork_interpreter`, `terminate`, `terminate_all_forks`, `terminate_all`, `FuncBlock`, `BatchRun` | specification and properties |
| `MCInterpreterTree` | | five small programs of blocks |
| `InterpreterTreeProofs` | | theorems about `InterpreterTree` |

One step of each specification is the code that a task executes between two
awaits. Python tasks of one event loop cannot be interrupted elsewhere; tasks of
other threads can, but every piece of state below is behind an `aiologic.Lock` or
is a single assignment.

**aiologic.Lock** is not part of this repository. It is modelled from how it is
used: a free lock is taken without awaiting, a held one is handed to the first
in line when it is released (`Take`, `Release`, `Queues`, `Granted`). The same
holds for `asyncio.Future`: resolving one makes its awaiters ready, and cancelling
an await cancels the future that is awaited.

### Interpreter

`pointer`, `jmp`, `hlt`, `stack`, `panic`, `stopping`, `waiter` are the attributes
of the class. `frames[t]` are the nodes that task `t` is executing, the outermost
first; a node of the main loop has no `call_sub` frame, each deeper one has. `pc`
says where a task is: at the `top` of the loop, `parked` at the checkpoint,
`lockwait`, `locked` (about to look at HLT and start a node), in node code (`exec`),
suspended at the `yield` with the lock held (`yielded`), or `closing` the scope.

What node code can do to the interpreter is a parameter: the jumps, the calls and
the endings of each node (`Jumps`, `Subs`, `Ends`). Each exit of the loop is an
action with everything its handlers do: `StepPast` (advance, or consume a jump),
`Panics` (the `except BaseException` branch with its `finally`), `Halts` (HLT is
set, frames unwound before), `Resets` (frames unwound, then `reset()`), `Abandon`
(GeneratorExit at the yield). `Unwind` is the `finally` of `call_sub`, for as many
frames as an exception crosses, and `LeaveCalls` adds what `rebase_ptr` and
`markup` do to HLT.

`Window` says when external tasks inject: at any time; in the window that the docs
describe (the loop parked at PC_CHECKPOINT, one injection at a time, then resume);
or in that window except when the run is about to step past a halted node.

The property `RunsInOrder` is refinement: `Interpreter` implements `WorkflowFlow`,
in which there are only a position and whether its node is running. The mapping
reads the position of the main loop: the node it is running, or the one it would
run next, looked up below the entries of external calls and past a halted node. It
supposes two things of the programs (`CallsStay`, `Propagates` in `Workflow`, which the
assumption of `MCInterpreter` checks): what is called does not jump, and the endings
of a node include the interrupts of the nodes it calls.

### SuspendStream

Three kinds of tasks: producers at checkpoints, operators who suspend and later
resume, and tasks that only call `resume()`. Requests are numbered, so that an
operator's `finally` can clear a request that is not its own. A producer's future
is identified with the producer; `leader[p]` is the producer whose future resolves
p's by callback. `resume()` acquires synchronously: if it has to wait, the whole
event loop of its thread stops (`LoopRuns`), which matters when `SameLoop` is TRUE.

When `SameLoop` is FALSE, the producers share one loop and each of the others has a thread of
its own (`Loop`). The code resolves futures by a plain `set_result()`, in `resume()`
(`streaming.py:206`) and when a producer confirms a suspension (`:154`). From another thread this
puts the awaiting task on the ready list of its loop and does not wake that loop, which may sit in
`select()`. The task is then in `unheard`: it goes on only when its loop turns, by a step of a task of that loop or for
a reason that the model leaves open (`Turn`), to which nothing is obliged. The hand-over of the state
lock does wake the other thread: that is what `aiologic` is for. So the wake-up of a producer is promised only
when no loop sleeps for ever over what another thread has resolved: `ParkEndsAwake` states that condition
(`Awake`), and `SuspendStreamAsleep.cfg` refutes `ParkEnds`, which does without.

### ResponseStream

The same class seen from its two channels: "response" (`yield_response` and `push_object` to
`get_response_generator`) and "input" (`send_to_producer` to `get_producer_input_generator`). Each has a
memory object stream of anyio, modelled from how it is used: what is in the `buffer`, what the calls that
wait for room have (`sending`), what has been handed to a waiting reader and not yet taken up (`hand`).
`Put`, `Filled` and `Shift` are `send()` and `receive()`; the version that the lock file names does not yield
before it sends, so that looking at the flag and putting the item are one step. `SetDone` sets the flag, looks at the
callback the code looks at (`Callback`) and puts the marker; `GivesUp` is the timeout of `_put_to_queue` or a cancellation. A generator
is `created`, `waiting`, in the `body` of its consumer; its `finally` (`Close`) comes as a step of its own, because a
generator that is broken off is finalised later, and does not come at all if it was never iterated (`Drop`).

The promise is `FifoChannel`: one line of items, of which the first `settled` ones are sent as far as their senders
know. The mapping reads the line as what is in the hand, the buffer and the calls in line, one after the other
(`Line`, `Settled`, `Open`), and `InOrderToTheEnd` says that both channels keep it.

### Dependencies

One computation is one number: the cache entry, the resource it opens and its place
on an exit stack. `Open` publishes the entry and enters the provider, `Opened` and
`Fails` are the ways in which it answers, `Join` and `Woken` are the resolver that
finds an entry. Scopes are numbered; `seen` is the scope that a node's resolution
captured when it copied the mapping of scopes. `Close`, `Teardown`, `Closed` and `Swap` are
`_close_workflow_scope` at the granularity of its awaits, shared by the end of a run
and by `terminate()`. A scope to which nothing refers is collected and its generators
finalised (`Referred`).

### Addressing

A graph is the number of children of each composition (`kids`); the nodes that
`find_addr_safe` finds follow from it. The walk is `Fetch` (the main loop's append to an
empty pointer, the descent of `_call` to a leaf, and its failure where there is none),
`Return` (`advance_pointer`), `Rerun` (another run on the pointer of one that is over) and
`Jump` (each jump method, with the arithmetic it does). The loops of `advance` are
`Levels`: the depths at which the node, or a composition around it, has a next sibling;
`advance` takes the deepest. The reference is the order of addresses: the walk must visit
the leaves in it, without a gap. Empty compositions are kept, as rendering accepts them:
`advance` stops at one, and `find_addr` then takes it for a missing node.

No jump method looks at the sign of an index (`jump_offset_far` and `jump_offset_top` end the
vector before the first negative sum), so pointers hold negative ones too, which Python counts from the end of the
container: `Means` relates such a pointer to the composition that it finds. `advance` adds one to
the index as it stands, so that it goes from -1 to 0, the first child, and the order of addresses says nothing
there (`AddressingNegative.cfg`). `InOrder`, `OverAtTheEnd` and `FailsOnEmpty`
are therefore about walks that have advanced from an address without negative indices (`Advanced`). The table of
aliases is left out.

### Layout, Structured and Instructions

`Layout` translates the compiler: a source program is a tree of records, one constructor
for each clause (`If`, `While`, `Try`, `NativeWhile`, `Fn` ...), `extract` gives the
sequence of nodes that the clause's `extract()` builds, with the distances it computes,
and `render` numbers them: the children of each composition, the node at each other
address, the aliases. `Admitted` is what the constructors refuse.

`Instructions` runs such an image. `pc` is the interpreter (pointer, return stack, JMP, IF,
contexts). `frames` are the node calls in progress, each with the step of its handler:
a step is what the handler does up to its next `call_sub` or its return. `CallKeeping` is
`call_sub` up to the node called, `Leave` is the return: the `finally` of `call_sub` (the
pointer is restored unless a jump was made), or the main loop's step. A node of the user
ends in any of the ways it declares; conditions are free, up to `MaxTrue`.

`Structured` knows nothing of addresses: what is left of a program is a sequence of its
parts, and running a node or testing a condition takes the next one off. `todo` is that
sequence, kept beside the machine, and becomes `Diverged` when the node that runs is not
the one that is due. So `FollowsSource` compares every run of the compiled program with the
text, `EndsAsWritten` its end, and `StacksBalanced` the stacks with the calls, loops and
handlers that the text is inside of. The two modules use recursive operators, so nothing is proved there.

### WeakCache

The ordered dictionary is a sequence of entries, the oldest first; an object may `Die`
between any two operations, after which its entry returns nothing. `Get`, `Put` and `Expire`
are atomic, as they hold the lock of the cache; an `items()` iteration is a step per element.
`uses` is the reference: what was put and is alive, in the order of its last use.

### EventDispatch

A dispatch is one call of `trigger_event`, by a task or by a handler (`caller`). `Trigger` takes
the lock from the pool (`_repo_lock`) and acquires it or queues; `Start` to `HandlerEnds` are
the two loops, with one action for each way a handler's turn passes (`PassOver` a dead one,
`Unresolved`, `CannotBuild`, `Call`) and the endings in `EndsWith`; `Close` is the release, with
the hand-over, the collection of the lock object when the last reference is gone (`Returns`) and the
exception that goes to the handler that made the call. `Register` and `Expire` happen at any time. That
the pool does not lose a lock in use is `HoldsLatest` of `WeakCache` in loose mode.

### InterpreterTree

A run is reduced to its checkpoints and nodes; what matters is which interpreters exist and who
stops them. `graph`, `parent`, `subs` and `all` are the tree as the code keeps it,
`pending` and `at` each interpreter's stop request and run. `Call` is a block node up to its
await: it forks unless it has forks already (`PreCheck`), and calls their runs. `Gathered`, `Cleanup`,
`BlockEnds` are its await, its `finally` and its return. A `terminate()` is a record in `calls`
with the phases between its awaits: `Request`, waiting, `Remove`. `TerminateAll` is the
user's, over a snapshot of the tree. A `terminate()` that finds a run waits for that run's
future, which nothing resolves: this is what `Interpreter` says of it (`WaitResolves`, below),
and why the phase "wait" has no way out.

## 3. The runs

| Run | Bounds | Shows |
|---|---|---|
| `interpreter` | 5 nodes, 2 runners, 1 caller, 2 watchers, 2 runs, nesting 2 | refinement, frames and stack agree, one run at a time, stop takes effect |
| `interpreter_busy` | 3 nodes, 2 runners, 1 caller, 1 watcher, 2 runs, every option on | node code excludes itself and the lock is granted, whatever happens |
| `suspend_stream` | 2 producers, 2 tags, 1 operator, 1 resumer, 3 requests | shared signal, confirmation, no lost wake-up while each loop turns, `resume()` returns |
| `dependencies` | 2 providers, 2 branches, 2 runners, 4 computations, 3 scopes, teardowns that raise | use while open, sharing, reverse teardown, no orphans, who waits is woken |
| `addressing` | all 506 graphs of compositions with at most 2 children, 3 deep; indices and offsets from -2 to 2; 1 jump | order, end, failure, top-level jumps, termination of the walk |
| `instructions` | 22 programs, each condition true (and each jump made) at most 2 times | compiled clauses do what the source says, stacks are balanced, programs end |
| `event_dispatch` | 3 calls, 2 event types, 4 handlers (one registered late), 3 locks | one dispatch per type, order, nobody skipped, every call returns |
| `weak_cache` | 3 keys, 2 objects (one false as a condition), capacities 0 to 2 | contents, recency, capacity after a put |
| `interpreter_tree` | 2 programs with 8 interpreters, 3 rounds or 1, one `terminate_all` | registries agree, nothing left, no stray stop, runs end |
| `response_stream` | queue sizes 0 to 2, 3 items in each direction, markers that do not time out, no callback beside a reader | both channels implement `FifoChannel`, the end is on its way, readers end, senders return |
| `batch_fail_fast` | a batch of 2 branches with `fail_fast` | its cleanup never returns |
| `native_if_else` | one `NATIVE_IF` with a body of two nodes, with ELSE | both branches run |

The last two end in a counterexample; each is a disagreement between the code and its
documentation, listed with the quotation under "findings" in PROJECT.json. `batch_fail_fast` was
also reproduced by running the code. The type invariant is in the run of `Interpreter` only; those of the other modules are theorems (section 4).

Why the bounds are enough. Two runs are what recovery needs: one that panics,
suspends, stops or resets, and one that finds what is left; a second runner
asks for a run while one is active. Nesting 2 gives frames that are crossed by an
exception and frames that are not. The workflow of `MCInterpreter` holds a node of
each kind: one that may raise, suspend, reset or call; a SUSPEND; a loop; an archived
handler, which may call; a trailing node. Three requests let one be answered, one be outstanding
and one be made meanwhile. Two providers, one built from the other, with two
branches are the smallest case in which sharing and order can go wrong; four
computations let a provider be opened again after a scope was closed. Depth 3 is the
least at which two containers are exhausted at once; one jump is enough, since it can set
any address of the bounds, and the walk goes on from there.
Twice true lets a loop go round with the traces of the first turn in place. The programs hold every clause,
each with the others that its distances or its use of the stacks can disturb: arms before ELSE,
loops in loops, Try in loops, calls in calls and from a handler, every exception from every part of Try.
Three dispatches let one hold a lock, one wait, and one come when the lock object has been collected.
Two of the three handlers of an event share a priority, so that the list changes while it is gone through,
and the last blocks. Three keys and a capacity of two force an eviction; the capacities 0 and 1 are the corners of the
loop. A queue of size 2 and three items let one be in the hand of the reader, one in the buffer and one in
line, or two in line of which the first is withdrawn; the sizes 0 and 1 are the corners of the memory object stream.
Two levels of blocks are what `terminate_all_forks` distinguishes; three rounds let a block be
built, used again, and used after a stop.

What the passing runs assume. `interpreter` assumes the safe window, that nobody's wait times out and that a
node that jumped neither fails nor suspends afterwards: without the first two it is refuted (see below), and when a node jumps and then raises, the mark survives the panic, so that the
recovering run starts at the target and, finding the mark, executes it a second time; when it suspends, the mark survives with HLT
(`Halts`), and the resuming run steps past the target and executes what follows it twice. It also assumes that called
nodes do not jump: an injected one that does leaves the loop at its target. `StackMatchesCalls` needs none
of it as long as no node resets, and `WaitersInLine` nothing at all: this is proved, and `MCInterpreterUnruly.cfg` checks both on an instance with two callers and every
option on. `dependencies` assumes that `terminate()`
and runs do not overlap with an active run or a closing scope. `suspend_stream` assumes one operator, who resumes after a timeout as well,
in a thread of its own. `response_stream` assumes one event loop, that the put of an end marker does not time out, and that a channel has a callback or a
reader, not both, as the docs demand; `ResponseStreamLostEnd.cfg` and `ResponseStreamReverse.cfg` refute `ReaderEnds` without, while
`InOrderToTheEnd` is a theorem without either. `interpreter_busy` makes none of these assumptions.
`addressing` lets jumps set any address of the bounds, and a walk sent out of the graph fails; three of its properties
are about walks that have advanced from an address without negative indices.
`instructions` leaves out the combinations listed below; it squashes every program but a DO in a
WHILE, and lets a squashed DO with a plain node for its body go round once. `event_dispatch` assumes that handlers trigger no cycle of events: a handler
that triggers its own event waits for the lock that its own dispatch holds (`EventDispatchAssumption`).
`interpreter_tree` assumes no `fail_fast`, a batch that is executed once, reusable blocks at the top level only, and
block nodes that stand in one place (`MCPrograms`).
`weak_cache` assumes one thread for the operations that do not take the lock.

Deadlock is not checked in `interpreter`, `interpreter_busy`, `suspend_stream`, `dependencies`,
`response_stream`, `addressing` and `interpreter_tree`: there the component may stop for good, when its bounded runs,
requests, items or scopes are used up, or when nobody starts another run. In the other runs it is checked.

### Further disagreements

These configurations are no regular runs. `MCInterpreterUnruly.cfg` passes; each of the others takes a precondition of a passing run away, or a combination out of
the programs, and TLC answers with the counterexample described:

| Configuration (module) | Refutes | What happens |
|---|---|---|
| `InterpreterAnyWindow` (`MCInterpreter`) | `RunsInOrder` | `call_sub` moves the pointer (`workflow.py:744`) before it asks for the lock (`:754`); injected while a node executes, it makes the loop advance from the injected address. `external_interrupt.md:133` allows it |
| `InterpreterParkedWindow` (`MCInterpreter`) | `RunsInOrder` | an injection before the resumption of a suspended node clears HLT (`:587`), and the node runs again; `exec_and_interrupt.md:165` |
| `InterpreterWait` (`MCInterpreter`) | `WaitResolves` | the future of a run is resolved only if `_asyncio_future_blocking` is set (`:957`), which asyncio has cleared by then: who awaits `wait` or `terminate()` is never woken; `runtime.md:89` |
| `InterpreterWaitTimeout` (`MCInterpreter`) | `AtMostOneRun` | a timeout of such an await cancels the future that guards against a second run (`:865`) |
| `SuspendStreamOneLoop` (`SuspendStream`) | `ResumeReturns` | `resume()` takes the state lock synchronously (`streaming.py:204`) and blocks the loop of the producer that holds it (`:163`); `suspend-object-stream.md:280` |
| `SuspendStreamAsleep` (`SuspendStream`) | `ParkEnds` | the operator calls `resume()` in another thread: `set_result()` (`streaming.py:206`) does not wake the loop of the parked producer, which sleeps on. `suspend-object-stream.md:113`: "Multiple coroutines and threads can safely share a single instance"; `clca-design-pattern.md:25` calls the pattern "inherently cross-event-loop" |
| `AddressingNegative` (`Addressing`) | `Forward` | a jump sets the last index to -1, which executes the last child (`jump_near`, `workflow.py:625`); `advance` adds one to it and finds index 0, the first child of the same container. Its docstring says that it moves "to the next position in the graph", and that exhausted containers "continue at the following sibling" (`addressing.py:49-56`) |
| `ResponseStreamLostEnd` (`ResponseStream`) | `ReaderEnds` | `set_queue_done` sets the flag before it puts the end marker (`streaming.py:302-309`); when the queue stays full for the timeout, or the call is cancelled, the marker is withdrawn, and a second call returns at the flag, so that the reader takes what is left and waits for ever. `suspend-object-stream.md:742`: "The producer **must** call `set_queue_done()` after finishing all data sends, otherwise the consumer will block forever" |
| `ResponseStreamReverse` (`ResponseStream`) | `ReaderEnds` | only `get_response_generator` looks at a callback (`streaming.py:279`), although `suspend-object-stream.md:754` says that mixing raises `StreamStateError` in both directions; with `receive_callback` set, which takes the items of `push_object`, `send_done_to_producer` puts no marker (`streaming.py:336`); `send_to_producer` goes on to use the queue, and `get_producer_input_generator` reads it and never ends |
| `DependenciesTerminateTwice` (`MCDependencies`) | `UsesOpen` | a second `terminate()` does not wait and closes the scope under a running node (`workflow.py:783`); `dependency_injection.md:341` |
| `DependenciesTeardownFails` (`MCDependencies`) | `UsesOpen` | a teardown that raises skips the new scope and the clearing of the store (`:1441`); the next run is injected with what was torn down |
| `InterpreterTreeNested` (`MCInterpreterTree`) | `StopsOnlyAsked` | the cleanup of a FUN_BLOCK (`func_block.py:79`) sets `_pending_stop` on the direct forks of its interpreter too (`workflow.py:809-812`), and resets its own only (`:83`): a reusable block inside it ends at its first checkpoint from the second execution on, without an error. `subgraph-isolation.md:60`: "If `False` (default), the interpreter is reused across invocations"; also reproduced by running the code |
| `InterpreterTreeAgain` (`MCInterpreterTree`) | `StopsOnlyAsked` | a batch keeps the interpreters it has terminated; executed again (in a loop), every branch stops at its first checkpoint |
| `InstructionsSquashedDo` (`MCInstructions`) | `FollowsSource` | the squashed DO calls its condition by a vector (`do_while.py`) that becomes the pointer and is rebased when the call returns: from the second turn on it addresses the DO itself, which runs within itself |
| `InstructionsCallInIf` (`MCInstructions`) | `FollowsSource` | CALL as the body of IF: the clause's call frame pops the return address that CALL has pushed, RET takes the frame's, and the condition and the CALL run once more as plain nodes |
| `InstructionsBreakInElse` (`MCInstructions`) | `EndsAsWritten` | IF as the body of WHILE: the IF jumps to its ELSE, which the main loop then runs outside of the WHILE node's call, so that a BreakLoop raised there is caught by nobody and ends the run |
| `WeakCacheItems` (`WeakCache`) | `ItemsAlive` | `items()` asserts that the copied reference is alive after it has looked at the key (`weakcache.py:244`) |

### Fairness

`WF` on the steps that a task takes by itself: asyncio runs every ready task. `SF`
on the end of node code, because the same node may call and return for ever before:
the assumption is that node code calls finitely often and then ends in one of its
ways. In `SuspendStream` a task is ready when its loop knows of it: there is no fairness on `Turn`, and what it would give is the
hypothesis `Awake` of `ParkEndsAwake`. The consumer of `run_step_by` goes on or closes the generator (`run()` always
goes on). The operator who parked the loop resumes it; with `SF`, as an injection
may keep him from it again and again. Providers answer. A consumer of `ResponseStream` that iterates asks for the next item or leaves; a handed item and a `finally` that is due
are the loop's business (`WF` on `Read`, `Woken`, `Close`), and nobody has to send, to declare a channel done or to fetch a generator. The walk of `Addressing` goes on
by itself (`WF` on `Fetch` and `Return`), and so does the single task of `Instructions`. Each dispatch of
`EventDispatch` goes on when it can: handlers return, and a lock that is handed over needs no
fairness, as the release itself wakes the next. `FairSpec` of `InterpreterTree` has the same for each run and each
`terminate()`. `WeakCache` has none: it promises nothing about time. Nothing forces anybody to start a
run, to inject, to ask for a suspension, to time out, to trigger, to register or to terminate.

## 4. What is proved

`AddressingProofs`, for every finite graph (any width and depth) and any offsets:

* **WalkInOrder**, **WalkOverAtTheEnd**, **WalkFailsOnEmpty**: `Spec => InOrder`,
  `Spec => []OverAtTheEnd`, `Spec => []FailsOnEmpty`, where the walk has advanced from an address without negative indices. The invariant `WalkInv` says that the
  pointer is where `advance` leads from the last leaf. `AdvanceIs` and `DescendedIs` say
  what that is, coordinate by coordinate: the leaf's up to the deepest level with a next
  sibling, one more there, zeros below. `LaterLevel` shows that a leaf which comes
  later parts from it at such a level, which leaves no room for one in between
  (`FollowsInOrder`) and none at all if there is no such level (`LastLeaf`). `LeavesDiffer`
  and `NodeIs` rest on the shape of a graph: what contains a composition is one. The
  extremes of sets of numbers come from the well-foundedness of `<`.
* **TopJumps**: `Spec => []TopSibling`, from a lemma about `offset_far`.

`Spec => []TypeOK` is a lemma there: pointers are sequences of integers, the negative ones included, and `MeansItself` and `PlainIs` say
that a pointer without negative indices means its own address only.

`InterpreterProofs`, for every workflow and every number of tasks. The first three hold in every window:

* **TypeCorrect**: `Spec => []TypeOK`. The types of the pointer and of the popped
  addresses rest on lemmas about `Take`, `Release`, `RunEnds` and `Unwind`.
* **NodesExclude**: `Spec => []MutualExclusion`. Mutual exclusion is not inductive:
  a task that is handed the lock must not be inside already. `LockInv` says that
  whoever is `locked`, `exec` or `yielded` holds the lock, that the tasks in the queue are
  in `lockwait` and differ from one another. Lemmas about `Take` and `Release` show that a hand-over
  keeps it; every action either hands over or moves a task on its side of the lock.
* **LockHandedOver**: `Spec => []WaitersInLine`, without hypotheses: the safety half of `LockIsGranted`. Whoever waits is in the queue, and
  who holds the lock is at a place from which each exit releases it.
* **OneRunAtATime**: `~WaitTimeouts => (Spec => []AtMostOneRun)`. `RunInv` adds that,
  while a run is active, `waiter` is pending. The assumption is exactly the one that
  `InterpreterWaitTimeout.cfg` refutes the property without.
* **NodesInOrder**: `Orderly => (Spec => RunsInOrder)`: `Interpreter` implements `WorkflowFlow`.
  `Orderly` is what the run `interpreter` assumes: the safe window (refuted without by
  `InterpreterAnyWindow.cfg` and `InterpreterParkedWindow.cfg`), no timeout of a wait, no failure after a
  jump, called nodes that do not jump, interrupts that cross the caller. It says nothing of the
  number of nodes, runners, callers, runs or nested calls. The invariant `FInv` adds three parts to the
  two above. `Alone`: nobody ever queues for the lock, and a caller that is not idle
  holds it while the loop is parked. `Framed`: who is in a node has frames, the inner ones called, and whatever interrupts an inner
  one is an ending of the outermost. `Stacked`: the height of the stack follows from the
  frames, and its bottom is the node of the main loop or the place where the parked loop goes on (`Outermost`).
  `Unwind` is treated in two lemmas, all frames at once (`UnwindAll`) and one (`UnwindOne`).
  `Locate` then reads the abstract state off a concrete one: the node of the loop, the bottom of the stack under an
  external call, or the pointer, past a halted node. With it each action maps to a step of
  `WorkflowFlow` or to none: `StepPast` to `Pass` or `Jump`, `Halts` to `Pass`, `Panics` and `Abandon` to
  `Retry`, `Resets` and `UserReset` to `Restart`, a `Begin` of the loop to `Begin`, and all others,
  `Resume` and every step of an external task among them, to none.
* **StackIsCalls**: `Undisturbed => (Spec => []StackMatchesCalls)`. Each `finally` of `call_sub` pops one address, whoever
  pushed it, so it is enough to count: the invariant `CInv` says that the stack is as high as the set of open calls is large, with whatever
  frames, jumps, failures and injections. Only a RESET node spoils the count, by clearing the stack under the calls of others. `Undisturbed`
  is that no node resets, as in `MCInterpreterUnruly.cfg`, or that injections keep to the documented window and nobody's wait times out, as in `interpreter`: then `Gated`
  says that callers are under way only while the loop is parked, and nobody else has a call open when a node resets.

`DependenciesProofs`, for any providers, branches, runners, and any number of requests:

* **TypeCorrect**: `Spec => []TypeOK`, with overlaps and failing teardowns. The invariant adds
  what the types of a step rest on: a branch under way has a provider to resolve, and an entry when it opens it.
* **SharedInstance**, **ReverseOrder**, **NothingOrphaned**: `~Overlap` implies `Spec => []OneInstance`, `[]TornDownInReverse` and
  `[]NoOrphans`: no run or `terminate()` overlaps another or a closing, which is what the run `dependencies` assumes. Teardowns may raise: what is
  left of the scope is then half closed, and stays the current one.
* **HeldStaysOpen**: `~Overlap => (Spec => []HeldOpen)`: what a node has been given stays open, or its scope was left half closed before.
* **InjectedStaysOpen**: `~Overlap /\ ~TeardownFails => (Spec => []UsesOpen)`;
  `DependenciesTerminateTwice.cfg` and `DependenciesTeardownFails.cfg` refute it when either is given up. The
  invariant `SInv` relates the four places in which a resource is known. `Stacked`: the exit stack of the current scope
  has exactly what is open, each once, above what it was built from. `Found`: outside of a closing, what the
  scope and the store hand out is open, unless the scope was left half closed (`InUse`), and what is open is handed out. `Branching`: a provider is being opened
  by one branch, whose entry is the one that others find. `Scoped`: other scopes hold nothing. The argument for sharing is that an entry is
  published before the first await of its computation.

`EventDispatchProofs`, for any number of dispatches, event types, handlers and locks (a lock for
each dispatch at least, which stands for an unbounded supply of objects):

* **OneAtATime**: `Spec => []OneDispatch`. The lock of an event type is not a fixed object: the
  pool forgets it when nobody refers to it. The invariant therefore says (`Refers`) that whoever
  waits or is inside refers to the lock that the pool has for his event, so that two of them
  refer to the same one; that who is inside is its holder (`Holds`); that the queue of a lock
  holds waiting dispatches, each once (`Waits`); and that a handler awaits one call at a time (`Awaits`),
  without which a return could wake a handler that still waits for another. `FreshLock`, by cardinality, shows
  that there is a lock object not in use; the actions that touch locks preserve the invariant by
  a lemma each, and for the others it is enough that they leave dispatches on the same side of the lock.
* **CalledInOrder**, **NoneLeftOut**, **TypeCorrect**: `Spec => []InOrder`, `[]NobodySkipped`, `[]TypeOK`. They rest on
  the exclusion above: `_simple_run` goes through a list by its index, and only a dispatch inside the lock of the event cleans the list.
  The invariant `OInv` says of the registry that each list is in the order of registration and has all the
  live handlers (`Registry`), and of each dispatch that what it has called is of an earlier priority or lies before its
  index, and what is due has been called, lies after it, or is of a priority still to come (`Looped`, `Unlooped`). What others do to
  a list in use is to add at its end (`Extends`).

`WeakCacheProofs`, for any keys, objects, lengths and capacities:

* **TypeCorrect**, **LatestHeld**, **RecentKept**: `Spec => []TypeOK`, `[]HoldsLatest`, `[]RecentOnes`. The invariant
  `WInv` compares the entries with `uses`: no key twice in either, every live entry among the uses; while the
  cache has always been strict the live entries are the end of the uses (`Ends`), while it has always been loose
  nothing in use is missing (`Full`). The lemmas at the head of the module say, for every sequence and every set of what is
  kept, that `Only` keeps the order and leaves out nothing and adds nothing (`OnlyLists`, and what follows from it for appended elements, concatenations and
  repeated removals); they replace what the prover does not know of `SelectSeq`. `Least`, `Climb` and `Grow` are induction over numbers and sequences, stated with a set
  for the property, because the library's theorems take an operator that no prover here can instantiate. `EventDispatchProofs` has its own copy of the four it needs. `Kept2` says that a step keeps both promises, and each of
  the operations is composed of such steps.
* **Fits**: `Spec => FitsAgain`, an action property: after a put of a new key the cache is within its capacity or
  holds nothing it may throw out, and it has thrown out no more than it had to. The loop of `put` is bounded by the length
  that it finds at its start (`Room`); `Looked`, climbed by `Climb`, says what is left after each turn.

`InterpreterTreeProofs`, for every program of blocks, any number of interpreters, and `terminate_all` at any moment:

* **TreeLinked**: `Spec => [](TypeOK /\ Linked)`: `_sub_interpreters_all`, `_sub_interpreters`
  and `_parent_interpreter` describe one tree, except for an interpreter that a `terminate()`
  has taken out of its parent's table and not yet out of the registry. Two terminations of one interpreter may
  overlap in any way. The invariant adds that whatever a block or a call refers to has been forked and
  that an identity not yet used has no parent (`Placed`), so that a fork starts unlinked, and that whatever is under
  removal is in nobody's table any more (`Unlisted`).
* **NothingStays**: `Spec => []TreeMatches`, for programs in which each block node stands in one place and shares no
  composition with another (`OnePlace`), no composition runs itself (`Founded`) and no batch has `fail_fast`. The
  invariant adds that what is registered belongs to a block (`Hosted`), to one only (`Sole`), and that a block
  which is not under way keeps nothing but what a reusable one may (`Cleared`). From `Founded` follows that a tree in
  which nobody runs has no interpreter left over. With `fail_fast` the cleanup itself never returns (`batch_fail_fast`).
* **OnlyWanted**: `Spec => []StopsOnlyAsked`, for the same programs, when the compositions that may run more than once
  (any set `R` that is closed under what blocks run, and contains the roots run more than once) hold no batch and, below a function block, no reusable one: `Tame(R)`.
  `InterpreterTreeAgain.cfg` and `InterpreterTreeNested.cfg` refute it for a batch and for a
  nested reusable block. The invariant says of each stop request how it came about (`Stopping`, `Asking`), and that what may be called again has none
  (`Untouched`).

`SuspendStreamProofs`, for any number of producers, operators, resumers and requests, on one event loop or with a thread for each operator and resumer:

* **TypeCorrect**: `Spec => []TypeOK`.
* **OneSignal**: `Spec => []SharedResume`. The signal is handled partly outside the lock, so the argument is not
  one of mutual exclusion. `Created` says who owns it: the creator of the signal in force is still at
  its checkpoint and has joined nobody, who waits waits with somebody, and who leaves has been woken. Hence only
  the creator replaces or forgets the signal, and nobody who is parked can be left with a signal that is no longer in force.
* **Confirms**: `OneOperator /\ CautiousTimeout => (Spec => []ParkConfirms)`: the two assumptions are those of
  the run `suspend_stream`. `Asks` says that the operator asks only while nothing is requested and
  nobody is parked; whoever parks therefore confirms the request in force, or joins one who has. With an
  operator who does not resume after a timeout the code makes no such promise.

`ResponseStreamProofs`, for every queue size and number of items:

* **TypeCorrect**: `Spec => []TypeOK`, without hypotheses.
* **InOrder**: `Spec => InOrderToTheEnd`, without hypotheses: the refinement of `FifoChannel` by both channels. The argument is
  about the whole of what a channel holds, `Whole`: `PutLine`, `ShiftLine`, `WokenLine` and `GivesUpLine` say of each operation of
  the memory object stream, whichever of the three places it changes, that it appends to the whole, takes its first or removes one of those in line. They rest on lemmas about concatenation
  (`AppendConcat`, `FirstOfConcat`, `MovesUp`, `RemovedConcat`). The invariant adds that nothing in a hand belongs to nobody (`Orderly`),
  that a line with an end is one of a channel that is done, and that nothing lies behind the end (`EndLast`), so that a reader
  that takes the end has had everything. `Keeps` is a step of `FifoChannel`, said of either channel; one lemma for each action shows it, and
  `ResponsesKept` and `InputsKept` give it to the two instances.
* **EndOnTheWay**: `~MarkerTimesOut /\ ~Mixes => (Spec => []EndOnItsWay)`, the two assumptions of the run. The property is
  inductive only when it also speaks of a channel whose reader is still to come, and of one that has a callback (`Due`).

Assumptions used: `WorkflowAssumption` and `InterpreterAssumption`, which TLC evaluates
in every run of `MCInterpreter`; `AddressingAssumption`, which it evaluates in the run of `Addressing`;
`EventDispatchAssumption`, `InterpreterTreeAssumption`, `ResponseStreamAssumption`, `SuspendStreamAssumption`, `DependenciesAssumption` and
`WeakCacheAssumption` likewise. The hypotheses of the theorems about programs (`CallsStay`, `Propagates`; `OnePlace`, `Founded`,
`Tame`) are evaluated on the programs of the runs by `MCWorkflow` and `MCPrograms`, so that the runs are instances of the theorems.

Only model-checked: what `Instructions` says of compiled programs (recursive operators, which the prover does not
admit), and all liveness properties, `StopTakesEffect`, `LockIsGranted`, `WaitersWake`, `ParkEndsAwake`, `ResumeReturns`, `ReaderEnds`, `SendersReturn`, `WalkEnds`, `Terminates`,
`DispatchEnds` and `RunEnds` (fairness and ENABLED are out of the prover's reach). Every other property of the passing runs is a theorem.

## 5. Not modelled

Logging, code display, tracebacks, typing helpers, the unsafe switches but SQUASHED_LOOP, deprecated
aliases, demos, benchmarks and scripts: no state whose order of change matters. Plain
(non-generator) providers are pure calls. Middleware is taken to do what `_call`
does. The fixed capacity of the return stack is left out. Limits of the
present models: flat workflows in `Interpreter` (nesting is in `Addressing` and `Instructions`), no tagged nodes
inside the interpreter model, `reset()` only
when nothing is under way, cancellation of a producer at its main await only.
In `Instructions`: INVOKE of a node that itself jumps, PUSH_CONTEXT without an operand, Try within Try, empty
compositions, jumps out of native loops, injected calls. In `EventDispatch`: the resolution of a handler's arguments (it succeeds or
fails), cyclic triggers, a cancellation at the very moment of a hand-over, several threads. In `WeakCache`:
operations without the lock from several threads. In `InterpreterTree`: `wait_all`, `wait_all_forks`, forks
made by the user's own code, suspensions within a block. In `ResponseStream`: what a callback does and the lock it runs under, several event loops, suspension on the way to
a queue (this is `SuspendStream`), and the items left in a queue that nobody reads. Not modelled at all: the slots of the linked list (DLL), the
argument cache, the debugger.

## 6. What is left

1. `ArgumentCache`, `Linking`, `Debugger`.
2. `TaggedInterpreter`: `Interpreter` with `SuspendStream`, for tagged nodes.

Proofs: the safety properties of the present modules are proved. Next are the hypotheses that could be weaker:
`NodesInOrder` for called nodes that jump, with a `WorkflowFlow` whose calls may jump too; `NothingStays` for
programs in which a block stands in several places; the `Dependencies` theorems for overlaps that touch different scopes. The compiled programs of
`Instructions` would need `Layout` and `Structured` rewritten without recursive operators.
