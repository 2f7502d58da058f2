SPECIFICATION Programs
CONSTANTS
  Systems = {"array_sum", "sort", "array"}
  N = 2
  COUNT_TIMES = 1
  COUNT_HALT1 = 1
  COUNT_HALT2 = 1
  COUNT_DONE = 2
  ARRAY_SIZE = 8
  Randoms = {0, 1, 2, 3}
  MAX_LEN = 5
  SIZE = 2
  LIMIT = 3
  CHARS = 2
  Digits = {1}
  MAX_FILE = 5
  Garbage = {0, 1, 3}
INVARIANTS SortInvariant ReadsNumbers SumOfParts
