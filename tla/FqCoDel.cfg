SPECIFICATION FairSpec
CONSTANTS
  Flows = {f1, f2}
  Sizes = {1, 3}
  Quantum = 2
  QdMax = 4
  BatchSize = 2
INVARIANTS WellListed LimitKept FairShare
PROPERTIES NoStarvation
