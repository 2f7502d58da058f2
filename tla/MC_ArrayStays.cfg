SPECIFICATION Modules
CONSTANTS
  COUNT_TIMES = 10
  STEPS = 100
  Users = {u1, u2}
  Writers = {w1, w2}
  BUF_SIZE = 4
  CHUNK = 2
  WRITES = 2
  IRQS = 2
  MAX = 3
  SIZE = 2
  HIGH = 2
  Elements = {1, 3}
  SETS = 2
PROPERTIES ArrayStays
