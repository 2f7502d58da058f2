SPECIFICATION Spec
CONSTANT N = 3
INVARIANT IInv
PROPERTIES CleanupReturns SomebodyEats
