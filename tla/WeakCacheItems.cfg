SPECIFICATION Spec
CONSTANTS
  Keys = {k1, k2, k3}
  Objects = {o1, o2}
  Falsy = {o2}
  Capacities = {0, 1, 2}
  Dead = Dead
INVARIANT ItemsAlive
