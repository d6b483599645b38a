SPECIFICATION FairSpec
CONSTANTS
  NULL = NULL
  Word = 16
  Node <- MCNode
  Names <- MCNames
  Code <- MCCode
  Before <- MCBefore
  Scores <- MCScores
  List <- MCList
INVARIANTS
  TypeOK
  LinksAgree
  SearchOrder
  CountsExact
  IndexesAgree
PROPERTIES
  CallEnds
CHECK_DEADLOCK FALSE
