SPECIFICATION Spec
CONSTANTS
  b1 = b1
  b2 = b2
  b3 = b3
  b4 = b4
  n1 = n1
  n2 = n2
  n3 = n3
  n4 = n4
  null = null
  front = front
  Block <- Blocks
  Node <- Nodes
  Value <- Blocks
  Null <- null
  Front <- front
  String <- Strings
  Text <- TextOf
  Hash <- HashOf
  MapCapacity = 1
  SetCapacity = 2
  MaxPuts = 6
INVARIANTS TypeOK ListWellFormed Accounted SetNotCrowded
PROPERTIES ImplementsSequence ImplementsDictionary ImplementsSet
CHECK_DEADLOCK FALSE
