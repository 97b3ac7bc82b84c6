\* A request that partly failed is sent again.
SPECIFICATION Spec
CONSTANTS
  p1 = p1
  p2 = p2
  abc = abc
  abd = abd
  abe = abe
  Plans = {p1, p2}
  Names = {abc, abd, abe}
  Similar <- MCSimilar
  NoOne = NoOne
  Worlds <- Empty
  Mixes <- Again
INVARIANT TryingAgainHelps
CHECK_DEADLOCK FALSE
