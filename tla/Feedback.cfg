SPECIFICATION Spec
CONSTANTS
  Plans = {p1, p2}
  None = None
  Qualities <- MCQualities
  MaxTeachings = 2
  MaxObservations = 2
  MaxAnalyses = 1
  MaxCrashes = 1
  MaxTaught = 1
  MaxPending = 1
INVARIANTS
  FeedbackConsistent
PROPERTIES
  WritesAdvanceTheStream
  EvidenceIsKept
SYMMETRY PlanSymmetry
