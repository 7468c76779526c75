SPECIFICATION Spec
CONSTANTS
  p1 = p1  p2 = p2  n1 = n1  n2 = n2
  Proposals = {p1, p2}
  Names = {n1, n2}
  NoName = NoName
  NoProposal = NoProposal
  Replies <- EdgeReplies
SYMMETRY Symmetry
INVARIANTS RetryPlansAreEarned
