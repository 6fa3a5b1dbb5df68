\* Two threads browse the same client: the unlocked clear/push_back on
\* ContinuationPoints merges two responses.
CONSTANTS
  Callers <- MCTwoCallers
  Points <- MCPoints
  c1 = c1
  c2 = c2
  p1 = p1
  p2 = p2
  p3 = p3
  p4 = p4
  NodesPerQuery = 2
  MaxCalls = 4

SPECIFICATION Spec
INVARIANT NoPartialRefill
CHECK_DEADLOCK FALSE
