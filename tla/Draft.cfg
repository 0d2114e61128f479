SPECIFICATION FairDraftSpec
CONSTANTS
    a = a
    blank = blank
    nothing = nothing
    Texts <- MCTexts
    Empty <- blank
    Nothing <- nothing
    MaxTyped = 2
    MaxSaves = 1
    MaxLoads = 1
    MaxCloses = 2
    MaxOthers = 1
    MaxFaults = 1
INVARIANTS DraftConsistent CloseKeepsText
PROPERTIES NoBlindOverwrite EveryCloseIsAnswered
CHECK_DEADLOCK FALSE
