SPECIFICATION PlannerSpec
CONSTANTS
  p1 = p1
  p2 = p2
  d1 = d1
  d2 = d2
  s1 = s1
  s2 = s2
  NoHandler = NoHandler
  NoPlan = NoPlan
  Calls <- TwoPlanCalls
  PlanOwned <- TwoPlanCalls
  Decisions = {d1}
  Stops = {s1}
  Confirmed <- TwoConfirmed
  LookedUp = {}
  Reviewed = {}
  Sensitive = {}
  PrivacyChanges = {}
  PlanCancels = {}
  Spoken = {}
  StartModes = {FALSE}
  Ambient = {"DORMANT"}
  Plans = {p1, p2}
  Length <- TwoLength
  Retryable = {}
  External = {}
  WithGoal = {}
PROPERTY StopCancelsQueuedPlans
CHECK_DEADLOCK FALSE
