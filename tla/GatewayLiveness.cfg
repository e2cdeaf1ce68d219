SPECIFICATION FairSpec
CONSTANTS
  c1 = c1
  c2 = c2
  d1 = d1
  d2 = d2
  s1 = s1
  s2 = s2
  s3 = s3
  NoHandler = NoHandler
  Calls = {c2}
  Decisions = {d1}
  Stops = {s1, s2, s3}
  Confirmed = {c2}
  PlanOwned = {c2}
  LookedUp = {c2}
  Reviewed = {c2}
  Sensitive = {}
  PrivacyChanges = {s2}
  PlanCancels = {s1}
  Spoken = {s3}
  StartModes = {FALSE}
  Ambient = {"DORMANT", "LISTENING", "TRANSCRIBING"}
PROPERTIES StopsEnd EveryHandlerAnswers
CHECK_DEADLOCK FALSE
