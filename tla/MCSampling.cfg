\* Two changes of the server and a failing query, over any number of polls.
SPECIFICATION Spec
CONSTANTS
  calm = calm  over = over  stopped = stopped  source = source  bare = bare
  Servers <- MCServers  MaxChanges = 2  MaxLosses = 1
INVARIANT SamplingTypeOK
INVARIANT StaleIsExplained
INVARIANT AlertsMatchMetrics
