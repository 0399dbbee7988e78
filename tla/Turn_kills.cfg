SPECIFICATION FairSpec
CONSTANTS MaxSteps = 2  MaxAttempts = 3  RetryCap = 2  MaxTurns = 2  MaxKills = 2
INVARIANTS SendsAreBounded
PROPERTIES AnswerIsCommitted KeepsContract TurnEnds
