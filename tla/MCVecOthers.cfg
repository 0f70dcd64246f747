\* Does collecting one target leave the others alone?
SPECIFICATION Spec
CONSTANTS
  NumTargets = 2
  Labels = {l1, l2}
  Kinds = {"buffered", "streamed"}
PROPERTY OthersUntouched
