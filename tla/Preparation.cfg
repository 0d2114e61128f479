SPECIFICATION Spec
CONSTANTS
    Sources = {s1, s2}
    NoSource = NoSource
    Keys = {k1, k2}
    Handlers = {h1, h2}
    NoReplay = NoReplay
    MaxRevision = 6
    MaxContext = 2
    MaxSaved = 2
    MaxRestarts = 1
    MaxFaults = 1
SYMMETRY Symmetric
INVARIANTS
  
  PublishedIsReviewed
PROPERTIES
  RetryStartsNothing
CHECK_DEADLOCK FALSE
