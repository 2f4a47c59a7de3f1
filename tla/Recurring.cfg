CONSTANTS
  Timers <- MCTimers
  RegOf <- MCRegOf
  KindOf <- MCKindOf
  TargetOf <- MCTargetOf
  Rank <- MCRank
  Default = {"brief"}
  Actors = {"loop", "cli"}
  Loops = {"loop"}
  Serial = TRUE
  Every = 2
  Day = 2
  At = 1
  NoTimer = NoTimer
  Limit = 0
  MaxTime = 2
  MaxCrashes = 1
SPECIFICATION Spec
INVARIANT DispatchedOnce
INVARIANT DeliveredOnce
PROPERTY DueIsServed
CHECK_DEADLOCK FALSE
