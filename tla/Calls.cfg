SPECIFICATION FairSpec
CONSTANTS
  Calls = {c1, c2}
  Requests = {Lesson, Attribution}
  Lesson = Lesson
  Analysis = Analysis
  Attribution = Attribution
  Poem = Poem
  Sources = {Poem}
  SourceOf <- MCSourceOf
  NoSource = NoSource
  Caps = {0, 3}
  PerCall = 1
  Reported = {0, 1, 3}
  MaxRetries = 1
  MaxFaults = 1
  NoCall = NoCall
  NoRow = NoRow
INVARIANTS
  CallsConsistent
PROPERTIES
  SpendingFollowsTheCap
  CancelIsFinal
  EveryCallEnds
