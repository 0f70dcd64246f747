\* Does a member that left go from the gauge?
SPECIFICATION Spec
CONSTANTS
  NumTargets = 2
  Labels = {l1, l2}
  Kinds = {"kept"}
INVARIANT MembersCurrent
