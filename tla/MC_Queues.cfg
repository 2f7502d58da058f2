SPECIFICATION Programs
CONSTANTS
  Systems = {"chat", "example"}
  Clients = {a, b, c}
  MESSAGES = 1
  MAX_NUM_CLIENTS = 1
  SAYS = 0
  FAILURES = 0
  BUF_SIZE = 2
  LINE = 0
INVARIANT MessagesCounted
PROPERTY EverybodyEnds
