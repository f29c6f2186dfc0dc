SPECIFICATION MCSpec
CONSTANTS
  a = a
  b = b
  Blocks <- MCBlocks
  Sizes <- MCSizes
  NUM_CHALLENGES = 2
CHECK_DEADLOCK FALSE
INVARIANTS
  TypeOK
  SharedNodesAreRight
  HonestIsAccepted
  AcceptedShowsBlock
PROPERTY
  Judged
