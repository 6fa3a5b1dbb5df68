\* One thread browsing: continuation points are replaced, never merged,
\* across lost responses, failed writes and empty results.
CONSTANTS
  Callers <- MCOneCaller
  Points <- MCPoints
  c1 = c1
  c2 = c2
  p1 = p1
  p2 = p2
  p3 = p3
  p4 = p4
  NodesPerQuery = 2
  MaxCalls = 4

SPECIFICATION Spec
INVARIANT TypeOK
INVARIANT BrowseNextUsesLatest
CHECK_DEADLOCK FALSE
