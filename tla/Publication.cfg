SPECIFICATION Spec
CONSTANTS
  Lessons <- MCLessons
  Changes <- MCChanges
  Least = 2
  Shortest = 3
  Keys = {k1, k2}
  Handlers = {h1, h2}
  Purges = {p1, p2}
  Deletions = {p2}
  NoReplay = NoReplay
  NoPurge = NoPurge
  MaxFailures = 2
  MaxBundles = 3
  MaxFaults = 1
  MaxRestarts = 1
SYMMETRY Symmetry
CHECK_DEADLOCK FALSE
INVARIANTS
  PublicationConsistent
  FilesFollowRows
PROPERTIES
  OutcomeIsFinal
