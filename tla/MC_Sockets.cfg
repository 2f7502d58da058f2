SPECIFICATION Programs
CONSTANTS
  Systems = {"async", "single"}
  Clients = {a, b, c}
  MESSAGES = 4
  MAX_NUM_CLIENTS = 3
  SAYS = 1
  FAILURES = 1
  BUF_SIZE = 4
  LINE = 5
SYMMETRY Alike
INVARIANTS SlotsDistinct HeardOnce ReadInOrder
