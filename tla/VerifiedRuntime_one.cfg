SPECIFICATION FairSpec
CONSTANTS
  Files = {w, p}
  Overridden = {p}
  Workers = {k1}
  NoFile = NoFile
  Nothing = Nothing
  MaxEdits = 2
  MaxMerges = 2
  MaxFaults = 1
INVARIANTS
  ManifestFitsTree
  ActsOnOneMerge
PROPERTIES
  RefusalsEnd
  ImplementsOverlay
CHECK_DEADLOCK FALSE
