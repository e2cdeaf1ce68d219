SPECIFICATION Spec
CONSTANTS
  c1 = c1
  c2 = c2
  d1 = d1
  d2 = d2
  s1 = s1
  s2 = s2
  s3 = s3
  NoHandler = NoHandler
  Calls = {c1, c2}
  Decisions = {d1}
  Stops = {s1}
  Confirmed = {c2}
  PlanOwned = {}
  LookedUp = {}
  Reviewed = {}
  Sensitive = {c1}
  PrivacyChanges = {s1}
  PlanCancels = {}
  Spoken = {}
  StartModes = {TRUE, FALSE}
  Ambient = {"DORMANT"}
PROPERTY NoMigratedApproval
CHECK_DEADLOCK FALSE
