\* Four management nodes started one after another by an operator; every
\* mDNS answer arrives within the search timeout.
CONSTANTS
  Node <- MCNode
  m1 = m1  m2 = m2  m3 = m3  m4 = m4
  NoNode = NoNode
  StaggeredStart = TRUE
  SearchCanMiss = FALSE
SPECIFICATION Spec
INVARIANT TypeOK
PROPERTY MembershipRefinement
PROPERTY AllNodesVoters
CHECK_DEADLOCK FALSE
