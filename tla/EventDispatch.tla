---------------------------- MODULE EventDispatch ----------------------------
(***************************************************************************)
(* MatcherFactory.trigger_event (hook/matcher.py): the calls of it that    *)
(* tasks and handlers make, the lock of each event type with the pool it   *)
(* comes from, the registry of handlers, and the loop over priorities and  *)
(* over the list of each, to which handlers may be registered meanwhile.   *)
(* The pool never loses the entry of an object in use: see HoldsLatest in  *)
(* WeakCache.                                                              *)
(***************************************************************************)
EXTENDS Naturals, Sequences, FiniteSets, Selection

CONSTANTS
  Dispatches, (* The calls of trigger_event.                               *)
  Ignoring,   (* Those whose exception_ignored covers what handlers raise. *)
  Events,     (* Event types.                                              *)
  Locks,      (* Lock objects.                                             *)
  Handlers,   (* The handlers that may be registered.                      *)
  HandlerOf,  (* Their event, priority, block, the events they trigger and *)
              (* how a call of them may end.                               *)
  Imported,   (* Those registered before anything is triggered, in order.  *)
  Nobody

(* A handler only triggers later events: nothing in the code prevents one  *)
(* that waits for the lock its own dispatch holds.                         *)
ASSUME EventDispatchAssumption ==
  /\ Nobody \notin Dispatches \cup Locks
  /\ Events \subseteq Nat /\ Events # {}
  /\ HandlerOf \in [Handlers -> [event : Events, priority : Nat \ {0}, block : BOOLEAN,
                                 triggers : SUBSET Events, may : SUBSET STRING]]
  /\ \A h \in Handlers : \A e \in HandlerOf[h].triggers : e > HandlerOf[h].event
  /\ Imported \in Seq(Handlers) /\ \A i, j \in DOMAIN Imported : Imported[i] = Imported[j] => i = j
  /\ IsFiniteSet(Dispatches) /\ IsFiniteSet(Locks) /\ Cardinality(Locks) >= Cardinality(Dispatches)

Priorities == {HandlerOf[h].priority : h \in Handlers}

VARIABLES
  born,     (* EventRegistry: the handlers registered so far, in order     *)
  handlers, (* what the lists of every event and priority hold             *)
  expired,  (* the handlers whose matcher is dead                          *)
  pool,     (* _lock_pool: the lock of each event type, or Nobody          *)
  holder,   (* of each lock: the dispatch inside, or Nobody                *)
  queue,    (* of each lock: the dispatches that wait                      *)
  step,     (* of each dispatch: where it is                               *)
  event,    (* its event type                                              *)
  lock,     (* the lock it refers to, or Nobody                            *)
  caller,   (* the dispatch whose handler made the call, or Nobody         *)
  round,    (* its loops: priorities left, the list, the index, the dead   *)
  result,   (* how it ends                                                 *)
  ran,      (* the handlers it has called, in order                        *)
  known     (* the handlers that were registered when it began             *)

registry  == <<born, handlers, expired>>
locking   == <<pool, holder, queue, lock, event>>
vars      == <<born, handlers, expired, pool, holder, queue, step, event, lock, caller, round, result, ran, known>>

NoRound == [left |-> {}, at |-> 0, next |-> 1, gone |-> {}]

Listed(e, p) == Only(Imported, {h \in Handlers : HandlerOf[h].event = e /\ HandlerOf[h].priority = p})

Init ==
  /\ born = Imported /\ expired = {}
  /\ handlers = [e \in Events |-> [p \in Priorities |-> Listed(e, p)]]
  /\ pool = [e \in Events |-> Nobody]
  /\ holder = [o \in Locks |-> Nobody] /\ queue = [o \in Locks |-> <<>>]
  /\ step = [d \in Dispatches |-> "idle"]
  /\ event = [d \in Dispatches |-> CHOOSE e \in Events : TRUE]
  /\ lock = [d \in Dispatches |-> Nobody]
  /\ caller = [d \in Dispatches |-> Nobody]
  /\ round = [d \in Dispatches |-> NoRound]
  /\ result = [d \in Dispatches |-> "none"]
  /\ ran = [d \in Dispatches |-> <<>>] /\ known = [d \in Dispatches |-> {}]

Elements(s) == {s[i] : i \in DOMAIN s}

-----------------------------------------------------------------------------
(* The registry.                                                           *)

(* append_handler, from anywhere and at any time. *)
Register(h) ==
  /\ h \notin Elements(born)
  /\ born' = Append(born, h)
  /\ handlers' = [handlers EXCEPT ![HandlerOf[h].event][HandlerOf[h].priority] = Append(@, h)]
  /\ UNCHANGED <<expired, locking, step, caller, round, result, ran, known>>

(* The deadline of a matcher passes. *)
Expire(h) ==
  /\ h \in Elements(born) \ expired /\ "expires" \in HandlerOf[h].may
  /\ expired' = expired \cup {h}
  /\ UNCHANGED <<born, handlers, locking, step, caller, round, result, ran, known>>

(* The priorities that the registry has a list for: a list is never        *)
(* deleted, whether anything is left in it or not.                         *)
Registered(e) == {HandlerOf[h].priority : h \in {g \in Elements(born) : HandlerOf[g].event = e}}

-----------------------------------------------------------------------------
(* trigger_event up to the lock.                                           *)
InUse == {lock[d] : d \in Dispatches} \ {Nobody}

_repo_lock_fresh(e) == CHOOSE o \in Locks : o \notin InUse   \* mutant: the pool is not looked up
_repo_lock(e) == IF pool[e] \in InUse THEN pool[e] ELSE CHOOSE o \in Locks : o \notin InUse

Handler(d) == handlers[event[d]][round[d].at][round[d].next]

(* A task, or a handler that awaits the call.                              *)
MayTrigger(by, e) ==
  by = Nobody \/ (by \in Dispatches /\ step[by] = "handler" /\ e \in HandlerOf[Handler(by)].triggers)

Trigger(d, e, by) ==
  /\ step[d] = "idle" /\ d = CHOOSE c \in Dispatches : step[c] = "idle"
  /\ MayTrigger(by, e)
  /\ event' = [event EXCEPT ![d] = e]
  /\ caller' = [caller EXCEPT ![d] = by]
  /\ LET o    == _repo_lock(e)
         free == holder[o] = Nobody
         now  == [step EXCEPT ![d] = IF free THEN "locked" ELSE "queued"]
     IN  /\ pool' = [pool EXCEPT ![e] = o]
         /\ lock' = [lock EXCEPT ![d] = o]
         /\ holder' = IF free THEN [holder EXCEPT ![o] = d] ELSE holder
         /\ queue' = IF free THEN queue ELSE [queue EXCEPT ![o] = Append(@, d)]
         /\ step' = IF by = Nobody THEN now ELSE [now EXCEPT ![by] = "awaits"]
  /\ UNCHANGED <<registry, round, result, ran, known>>

(* Inside: the priorities are fixed now, the lists are not.                *)
Start(d) ==
  /\ step[d] = "locked"
  /\ step' = [step EXCEPT ![d] = "rounds"]
  /\ round' = [round EXCEPT ![d] = [NoRound EXCEPT !.left = Registered(event[d])]]
  /\ known' = [known EXCEPT ![d] = Elements(born)]
  /\ UNCHANGED <<registry, locking, caller, result, ran>>

-----------------------------------------------------------------------------
(* The loop over priorities, and _simple_run over one list.                *)
HighestOf(ps) == CHOOSE p \in ps : \A q \in ps : p >= q   \* mutant: sorted the other way
LowestOf(ps)  == CHOOSE p \in ps : \A q \in ps : p <= q

NextRound(d) ==
  /\ step[d] = "rounds" /\ round[d].left # {}
  /\ LET p == LowestOf(round[d].left) IN
     round' = [round EXCEPT ![d] = [NoRound EXCEPT !.left = round[d].left \ {p}, !.at = p]]
  /\ step' = [step EXCEPT ![d] = "list"]
  /\ UNCHANGED <<registry, locking, caller, result, ran, known>>

(* The finally of _simple_run takes the dead handlers from the list.       *)
Without(s, gone) == Only(s, Handlers \ gone)
Cleaned(d) == [handlers EXCEPT ![event[d]][round[d].at] = Without(@, round[d].gone)]

(* _simple_run returns False or raises: no further round.                  *)
Stop(d, how) ==
  /\ handlers' = Cleaned(d)
  /\ step' = [step EXCEPT ![d] = "closing"]
  /\ result' = [result EXCEPT ![d] = how]
  /\ UNCHANGED <<born, expired, locking, caller, round, known>>

(* The next handler of the list.                                           *)
Continue(d) ==
  /\ round' = [round EXCEPT ![d].next = @ + 1]
  /\ step' = [step EXCEPT ![d] = "list"]
  /\ result' = [result EXCEPT ![d] = "none"]
  /\ UNCHANGED <<registry, locking, caller, known>>

More(d) == step[d] = "list" /\ round[d].next <= Len(handlers[event[d]][round[d].at])

RoundEnds(d) ==
  /\ step[d] = "list" /\ ~More(d)
  /\ handlers' = Cleaned(d)
  /\ step' = [step EXCEPT ![d] = "rounds"]
  /\ UNCHANGED <<born, expired, locking, caller, round, result, ran, known>>

AllRounds(d) ==
  /\ step[d] = "rounds" /\ round[d].left = {}
  /\ step' = [step EXCEPT ![d] = "closing"]
  /\ result' = [result EXCEPT ![d] = "ok"]
  /\ UNCHANGED <<registry, locking, caller, round, ran, known>>

PassOverNow(d) ==   \* mutant: removes from the list it is iterating over
  /\ More(d) /\ Handler(d) \in expired
  /\ handlers' = [handlers EXCEPT ![event[d]][round[d].at] = Without(@, {Handler(d)})]
  /\ round' = [round EXCEPT ![d].next = @ + 1]
  /\ UNCHANGED <<born, expired, locking, step, caller, result, ran, known>>
PassOver(d) ==
  /\ More(d) /\ Handler(d) \in expired
  /\ round' = [round EXCEPT ![d].next = @ + 1, ![d].gone = @ \cup {Handler(d)}]
  /\ UNCHANGED <<registry, locking, step, caller, result, ran, known>>

(* Dependencies of the handler: missing, or a provider fails, which is not *)
(* a failure of the handler and ends the dispatch.                         *)
Live(d) == More(d) /\ Handler(d) \notin expired
Unresolved(d)  == Live(d) /\ "unresolved" \in HandlerOf[Handler(d)].may /\ Continue(d) /\ UNCHANGED ran
CannotBuild(d) == Live(d) /\ "depends" \in HandlerOf[Handler(d)].may /\ Stop(d, "error") /\ UNCHANGED ran

Call(d) ==
  /\ Live(d)
  /\ step' = [step EXCEPT ![d] = "handler"]
  /\ ran' = [ran EXCEPT ![d] = Append(@, Handler(d))]
  /\ UNCHANGED <<registry, locking, caller, round, result, known>>

(* How a handler ends, by what it returns or raises.  Cancellation is no   *)
(* Exception, and a MatcherException is raised again like an ignored one.  *)
(* What a call that the handler made has raised may end it as well.        *)
Raises(d, o) == o \in {"matcher", "cancelled"} \/ (o = "error" /\ d \in Ignoring)

EndsWith(d, o) ==
  /\ \/ o = "cancel" /\ Stop(d, "stopped")
     \/ Raises(d, o) /\ Stop(d, o)
     \/ o = "ok" /\ HandlerOf[Handler(d)].block /\ Stop(d, "stopped")
     \/ o = "ok" /\ ~HandlerOf[Handler(d)].block /\ Continue(d)
     \/ o \in {"pass", "error"} /\ ~Raises(d, o) /\ Continue(d)
  /\ UNCHANGED ran

Outcomes(d) ==
  IF result[d] = "cancelled" THEN {"cancelled"}
  ELSE HandlerOf[Handler(d)].may \cup {result[d]}

HandlerEnds(d) == step[d] = "handler" /\ \E o \in Outcomes(d) : EndsWith(d, o)

-----------------------------------------------------------------------------
(* The end of the call: the lock goes to the first that waits, the lock    *)
(* object dies when nobody refers to it, and the handler that made the     *)
(* call goes on, with what the call has raised.                            *)
HandoverNot(o) == Nobody   \* mutant: releases without waking
Handover(o) == IF queue[o] = <<>> THEN Nobody ELSE Head(queue[o])

Returns(d, now, how) ==
  /\ step' = IF caller[d] = Nobody THEN [now EXCEPT ![d] = "over"]
             ELSE [now EXCEPT ![d] = "over", ![caller[d]] = "handler"]
  /\ result' = [c \in Dispatches |-> IF c = d THEN how
                                   ELSE IF c = caller[d] /\ how \notin {"ok", "stopped"} THEN how ELSE result[c]]
  /\ lock' = [lock EXCEPT ![d] = Nobody]
  /\ pool' = [e \in Events |-> IF pool[e] \in InUse' THEN pool[e] ELSE Nobody]
  /\ UNCHANGED <<registry, event, caller, round, ran, known>>

Close(d) ==
  LET o == lock[d]  first == Handover(o) IN
  /\ step[d] = "closing"
  /\ holder' = [holder EXCEPT ![o] = first]
  /\ queue' = IF first = Nobody THEN queue ELSE [queue EXCEPT ![o] = Tail(@)]
  /\ Returns(d, IF first = Nobody THEN step ELSE [step EXCEPT ![first] = "locked"], result[d])

(* The task is cancelled while it waits for the lock. *)
Dropping(s, i) == [k \in 1 .. Len(s) - 1 |-> IF k < i THEN s[k] ELSE s[k + 1]]

Withdraw(d) ==
  /\ step[d] = "queued"
  /\ \E i \in DOMAIN queue[lock[d]] :
       /\ queue[lock[d]][i] = d
       /\ queue' = [queue EXCEPT ![lock[d]] = Dropping(@, i)]
  /\ Returns(d, step, "cancelled")
  /\ UNCHANGED holder

-----------------------------------------------------------------------------
Finished == (\A d \in Dispatches : step[d] = "over") /\ UNCHANGED vars

Proceed(d) ==
  \/ Start(d) \/ NextRound(d) \/ RoundEnds(d) \/ AllRounds(d)
  \/ PassOver(d) \/ Unresolved(d) \/ CannotBuild(d) \/ Call(d) \/ HandlerEnds(d)
  \/ Close(d)

Next ==
  \/ \E h \in Handlers : Register(h) \/ Expire(h)
  \/ \E d \in Dispatches :
       \/ Proceed(d) \/ Withdraw(d)
       \/ \E e \in Events, by \in Dispatches \cup {Nobody} : Trigger(d, e, by)
  \/ Finished

(* Handlers, providers and teardowns come to an end, and the event loop    *)
(* runs every task that can go on.                                         *)
Spec == Init /\ [][Next]_vars /\ \A d \in Dispatches : WF_vars(Proceed(d))

-----------------------------------------------------------------------------
Inside == {"locked", "rounds", "list", "handler", "awaits", "closing"}
Steps  == {"idle", "queued", "over"} \cup Inside
Ends   == {"none", "ok", "stopped", "matcher", "error", "cancelled"}

(* Every variable keeps to its values, and the index of a loop never       *)
(* passes the end of its list by more than one.                            *)
TypeOK ==
  /\ pool \in [Events -> Locks \cup {Nobody}] /\ holder \in [Locks -> Dispatches \cup {Nobody}]
  /\ queue \in [Locks -> Seq(Dispatches)] /\ step \in [Dispatches -> Steps]
  /\ event \in [Dispatches -> Events] /\ lock \in [Dispatches -> Locks \cup {Nobody}]
  /\ caller \in [Dispatches -> Dispatches \cup {Nobody}] /\ result \in [Dispatches -> Ends]
  /\ \A d \in Dispatches :
       step[d] \in {"list", "handler", "awaits"} =>
         round[d].next <= Len(handlers[event[d]][round[d].at]) + (IF step[d] = "list" THEN 1 ELSE 0)

(* At most one dispatch of an event type is under way, whatever locks the  *)
(* pool has forgotten and made again in between.                           *)
OneDispatch ==
  \A c, d \in Dispatches : c # d /\ step[c] \in Inside /\ step[d] \in Inside => event[c] # event[d]

(* A dispatch calls handlers in ascending order of priority, those of one  *)
(* priority in the order of their registration, and none twice.            *)
RegisteredAs(h) == CHOOSE i \in DOMAIN born : born[i] = h
Before(g, h) ==
  \/ HandlerOf[g].priority < HandlerOf[h].priority
  \/ HandlerOf[g].priority = HandlerOf[h].priority /\ RegisteredAs(g) < RegisteredAs(h)
InOrder == \A d \in Dispatches : \A i, j \in DOMAIN ran[d] : i < j => Before(ran[d][i], ran[d][j])

(* No handler is skipped: one that was registered when the dispatch began, *)
(* is alive and can be built has been called before any that comes after   *)
(* it, and when the dispatch has come to its end.                          *)
Due(d, h) == HandlerOf[h].event = event[d] /\ h \notin expired /\ "unresolved" \notin HandlerOf[h].may
NobodySkipped ==
  \A d \in Dispatches : \A h \in known[d] :
    /\ Due(d, h)
    /\ result[d] = "ok" \/ \E g \in Elements(ran[d]) : Before(h, g)
    => h \in Elements(ran[d])

(* Every call of trigger_event returns. *)
DispatchEnds == \A d \in Dispatches : step[d] # "idle" ~> step[d] = "over"
=============================================================================
