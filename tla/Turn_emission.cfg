SPECIFICATION Spec
CONSTANTS MaxSteps = 1  MaxAttempts = 2  RetryCap = 2  MaxTurns = 1  MaxKills = 1
INVARIANTS NoRetryAfterEmission
