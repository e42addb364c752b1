CONSTANTS
  Calls = {c1, c2}
  MaxAttempts = 2
  Burst = 1
SPECIFICATION FairSpec
INVARIANTS TypeOK AnswersExact
PROPERTIES ContractSpec EveryCallReturns
\* The calls are finitely many: once all have returned nothing is left to do.
CHECK_DEADLOCK FALSE
