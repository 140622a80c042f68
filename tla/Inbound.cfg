SPECIFICATION FairSpec
CONSTANTS
  Agent = {a}
  Msg = {m}
  For <- MCForAll
  Quotes <- MCNoQuotes
  Kinds = {"omp", "omp_old", "opencode"}
  MaxFaults = 3
INVARIANTS TypeOK AnswersAreTrue CopiesAccounted
PROPERTIES EveryDeliveryAnswered
