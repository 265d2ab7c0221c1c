CONSTANTS
  Queries = {q, p}
  NoQuery = noquery
  Reports = {r, s}
  NoReport = noreport
  QueryTargets = {"samples", "any", "elapsed", "generated"}
  MaxTimestamp = 4
  FifoBound = 3
SPECIFICATION QueriesSpec
INVARIANTS ReportsOwned  ConditionIsOwn
PROPERTIES ResultIsOwn
SYMMETRY Symmetry
CHECK_DEADLOCK FALSE
