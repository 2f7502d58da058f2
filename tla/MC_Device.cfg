SPECIFICATION Spec
CONSTANTS
  Writers = {w1, w2}
  Values <- SomeValues
  Width = 11
  Lengths <- SomeLengths
  READS = 2
INVARIANTS IInv CatShowsArray
PROPERTIES OutsideOnlyInWindow WritesTakeEffect
