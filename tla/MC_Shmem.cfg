SPECIFICATION Spec
CONSTANTS
  BUFFER = 3
  LINES = 2
INVARIANTS IInv ReadInTurns
PROPERTY QuitEndsBoth
