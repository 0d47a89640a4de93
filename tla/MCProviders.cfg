SPECIFICATION ProvidersSpec
CONSTANTS
  r1 = r1
  r2 = r2
  Crews <- OneOrTwoRuns
  Plans = {"bar"}
  AddedPlans = {"derived"}
  MaxAttempts = 5
  Callers = {a1, a2}
  Parts = 3
  MinRate = 1
  Burst = 2
  RecoverAfter = 2
  Window = 2
  MaxReboots = 1
  Tabs = {t1}
  MaxActions = 2
  MaxProviderTurns = 1
  LastRequest = 2
  FeedSyncs = {s1}
  MaxResolves = 2
  LastReply = 1
  Deliverers = {w1, w2}
  MaxTries = 2
  MaxFaults = 2
  MaxPulls = 1
  Pushes = {p1, p2, p3}
  Threshold = 2
  MaxRestarts = 1
  Items = {i1}
  Runs = {x1, x2}
  MaxCollects = 3
  MaxStops = 2
  LastEvent = 2
  Couriers = {r1, r2}
  Rosters <- TwoEventsOrTwoRuns
  MaxDeliveries = 3
  BreaksAt = 2
  MaxHalts = 1
INVARIANTS ProvidersTypeOK OneProbePerCooldown OneChargePerInstalment NothingTwice CallsBounded SentIsHeld
PROPERTIES ClosesAgain ChargeLands LiveIsComplete SetUpEnds RateRecovers ShownIsServed DeliveryEnds DecisionStands OtaDecisionLands DeliveriesSettle
CHECK_DEADLOCK FALSE
