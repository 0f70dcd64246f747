\* Three targets, two of which share a label, the scrape collector and one other,
\* three retries as in engine.go.
SPECIFICATION FairSpec
CONSTANTS NumTargets = 3  NumCollectors = 2  MaxRetries = 3
          Instances = {"localhost:3306", "db2:3306"}  InstanceOf <- ThreeTargets
INVARIANT TypeOK
INVARIANT ErrorsMatchUp
INVARIANT UpIsLastAnswer
INVARIANT CancelContained
PROPERTY CancelStops
PROPERTY EveryTargetAgain
CHECK_DEADLOCK FALSE
