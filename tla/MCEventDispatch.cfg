SPECIFICATION Spec
CONSTANTS
  Dispatches = {d1, d2, d3}
  Ignoring = {d2}
  Events = {1, 2}
  Locks = {l1, l2, l3}
  Handlers <- MCHandlers
  HandlerOf <- MCHandlerOf
  Imported <- MCImported
  Nobody = Nobody
INVARIANTS OneDispatch InOrder NobodySkipped
PROPERTY DispatchEnds
