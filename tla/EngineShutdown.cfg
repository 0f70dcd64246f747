\* What mysql_up says while the process shuts down.
SPECIFICATION Spec
CONSTANTS NumTargets = 1  NumCollectors = 2  MaxRetries = 1
          Instances = {"localhost:3306"}  InstanceOf <- OneTarget
INVARIANT DownMeansUnreachable
CHECK_DEADLOCK FALSE
