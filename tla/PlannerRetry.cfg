SPECIFICATION FairPlannerSpec
CONSTANTS
  p1 = p1
  p2 = p2
  d1 = d1
  d2 = d2
  s1 = s1
  s2 = s2
  NoHandler = NoHandler
  NoPlan = NoPlan
  Calls <- MixCalls
  PlanOwned <- MixCalls
  Decisions = {d1}
  Stops = {s2}
  Confirmed <- OneConfirmed
  LookedUp = {}
  Reviewed = {}
  Sensitive = {}
  PrivacyChanges = {}
  PlanCancels = {s2}
  Spoken = {}
  StartModes = {FALSE}
  Ambient = {"DORMANT", "LISTENING"}
  Plans = {p1, p2}
  Length <- MixLength
  Retryable <- OneRetryable
  External = {}
  WithGoal = {p1}
INVARIANTS StepsInOrder ReplayOnlyRetryable SuccessIsComplete
PROPERTIES PlansSettle CancelledPlanStays EndIsFinal
CHECK_DEADLOCK FALSE
