SPECIFICATION Program
CONSTANTS
  Tasks = {t1, t2}
  Nonblock = {t2}
  FAULTS = 2
  LOADS = 3
  IRQS = 1
INVARIANTS IInv ModuleInvariant
PROPERTIES LeavesNothing ImplementsGate OpensReturnHere
