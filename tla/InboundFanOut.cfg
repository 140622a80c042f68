SPECIFICATION Spec
CONSTANTS
  Agent = {a, b}
  Msg = {m}
  For <- MCForAll
  Quotes <- MCNoQuotes
  Kinds = {"opencode"}
  MaxFaults = 0
INVARIANTS AcksAreVisible

