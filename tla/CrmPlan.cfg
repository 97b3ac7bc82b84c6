\* One plan with any request, and two plans after the same records; histories of
\* their writes show that they keep the contract of PlanRun.
SPECIFICATION RunsSpec
CONSTANTS
  p1 = p1
  p2 = p2
  abc = abc
  abd = abd
  abe = abe
  Plans = {p1, p2}
  Names = {abc, abd, abe}
  Similar <- MCSimilar
  NoOne = NoOne
  Worlds <- MCWorlds
  Mixes <- AloneAndPairs
SYMMETRY EitherOrder
INVARIANTS
  TypeOK
  OkMeansDone
  WritesAreAsked
  RefusalWritesNothing
  NoSecondCopy
PROPERTIES
  PlansImplementRuns
CHECK_DEADLOCK FALSE
