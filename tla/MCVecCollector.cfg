\* Three targets, two labels, every way of collecting.
SPECIFICATION Spec
CONSTANTS
  NumTargets = 3
  Labels = {l1, l2}
  Kinds = {"buffered", "streamed", "kept"}
SYMMETRY LabelSymmetry
INVARIANT TypeOK
INVARIANT NoStaleLabels
INVARIANT AllOrNothing
INVARIANT LatestComplete
