CONSTANTS
  Gids = {1, 2}
  Tools = {"system", "local"}
  Pipe = 1
  MaxData = 4
SPECIFICATION Spec
INVARIANTS ReachesRequest IdleWhenSatisfied HonestReport OutputWhole
PROPERTY ReturnsWhenFits
CHECK_DEADLOCK FALSE
