SPECIFICATION PlannerSpec
CONSTANTS
  p1 = p1
  p2 = p2
  d1 = d1
  d2 = d2
  s1 = s1
  s2 = s2
  NoHandler = NoHandler
  NoPlan = NoPlan
  Calls <- TwoPlanCalls
  PlanOwned <- TwoPlanCalls
  Decisions = {d1, d2}
  Stops = {s1}
  Confirmed <- BothConfirmed
  LookedUp = {}
  Reviewed = {}
  Sensitive = {}
  PrivacyChanges = {}
  PlanCancels = {}
  Spoken = {}
  StartModes = {FALSE}
  Ambient = {"DORMANT"}
  Plans = {p1, p2}
  Length <- TwoLength
  Retryable <- TwoRetryable
  External = {p2}
  WithGoal = {p1}
INVARIANTS PlannerTypeOK OnePlanExecutes StepsInOrder SuccessIsComplete
PROPERTIES EndIsFinal KeepsContract
SYMMETRY DecisionSymmetry
CHECK_DEADLOCK FALSE
