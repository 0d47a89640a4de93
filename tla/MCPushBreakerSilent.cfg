SPECIFICATION BreakerFairSpec
CONSTANTS
  Pushes = {p1, p2, p3}
  Threshold = 2
  MaxRestarts = 1
PROPERTY OutageEnds
