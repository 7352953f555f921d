SPECIFICATION HvSpec
INVARIANT ConsistentSet
CONSTANTS
  HvCpus = {0}
  Versions = 3
  Reads = 2
