\* All commands; a channel of one key and three keys typed.
SPECIFICATION FairSpec
CONSTANTS
  Fleets <- MCFleets  Flags <- MCFlags
  KeyBuffer = 1  MaxKeys = 3
INVARIANT CommandsTypeOK
INVARIANT ExitIsWorst
INVARIANT TopologyTellsTruth
INVARIANT DoctorTellsTruth
INVARIANT DiffTellsTruth
INVARIANT SectionsExact
INVARIANT DeadlockExact
INVARIANT ReplicaSeen
INVARIANT KeysInOrder
PROPERTY WatchEnds
PROPERTY CommandEnds
CHECK_DEADLOCK FALSE
