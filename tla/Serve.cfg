\* Two targets of one label with the scrape collector and one other, one retry, one request.
SPECIFICATION ServeFairSpec
CONSTANTS NumTargets = 2  NumCollectors = 2  MaxRetries = 1
          Instances = {"localhost:3306"}  InstanceOf <- TwoNamesakes
          Drain = 2  MaxRequests = 1
INVARIANT ServeTypeOK
INVARIANT ExitZeroAnswersAll
INVARIANT NoHandleLeaks
INVARIANT OneCutShort
PROPERTY SignalExits
CHECK_DEADLOCK FALSE
