-------------------------- MODULE MCEventDispatch --------------------------
(* Two event types: three handlers of the first, the second of which       *)
(* triggers the other one, and one of the second.                          *)
EXTENDS EventDispatch

H(event_type, priority, block, triggers, may) ==
  [event |-> event_type, priority |-> priority, block |-> block, triggers |-> triggers, may |-> may]

MCHandlerOf == [
  a |-> H(1, 2, FALSE, {}, {"ok", "expires", "pass"}),
  b |-> H(1, 2, FALSE, {2}, {"ok", "error"}),
  c |-> H(1, 1, TRUE, {}, {"ok", "unresolved", "cancelled"}),
  d |-> H(2, 1, FALSE, {}, {"ok", "matcher", "cancel", "depends"})]
MCHandlers == DOMAIN MCHandlerOf
MCImported == <<"a", "c", "d">>
=============================================================================
