SPECIFICATION PlannerSpec
CONSTANTS
  p1 = p1
  p2 = p2
  d1 = d1
  d2 = d2
  s1 = s1
  s2 = s2
  NoHandler = NoHandler
  NoPlan = NoPlan
  Calls <- OnePlanCalls
  PlanOwned <- OnePlanCalls
  Decisions = {d1}
  Stops = {s1}
  Confirmed <- OneConfirmed
  LookedUp = {}
  Reviewed = {}
  Sensitive = {}
  PrivacyChanges = {}
  PlanCancels = {}
  Spoken = {}
  StartModes = {FALSE}
  Ambient = {"DORMANT"}
  Plans = {p1}
  Length <- OneLength
  Retryable <- OneRetryable
  External = {}
  WithGoal = {p1}
PROPERTY StopEndsRetries
CHECK_DEADLOCK FALSE
