SPECIFICATION Programs
CONSTANTS
  Systems = {"tic_tac", "1_2_3", "mutex3"}
  N = 3
  COUNT_TIMES = 5
  COUNT_HALT1 = 2
  COUNT_HALT2 = 5
  COUNT_DONE = 10
  ARRAY_SIZE = 8
  Randoms = {0}
  MAX_LEN = 0
  SIZE = 2
  LIMIT = 3
  CHARS = 2
  Digits = {1}
  MAX_FILE = 0
  Garbage = {0}
INVARIANTS IInv NumbersCounted Schedule
PROPERTIES RefinesRoundRobin EverybodyEnds
