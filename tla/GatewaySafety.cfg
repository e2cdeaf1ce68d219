SPECIFICATION Spec
CONSTANTS
  c1 = c1
  c2 = c2
  d1 = d1
  d2 = d2
  s1 = s1
  s2 = s2
  s3 = s3
  NoHandler = NoHandler
  Calls = {c1, c2}
  Decisions = {d1, d2}
  Stops = {s1, s2}
  Confirmed = {c2}
  PlanOwned = {c1}
  LookedUp = {c1}
  Reviewed = {c2}
  Sensitive = {c2}
  PrivacyChanges = {s2}
  PlanCancels = {}
  Spoken = {s1}
  StartModes = {TRUE, FALSE}
  Ambient <- AmbientStates
INVARIANTS TypeOK DecidedOnce ConsentBeforeDispatch DispatchedOnce NoStaleConfirmation CoreHasOwner
PROPERTIES NoDispatchAcrossStop PolicyAtDispatch KeepsContract
SYMMETRY DecisionSymmetry
CHECK_DEADLOCK FALSE
