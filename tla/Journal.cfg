\* The task journal under crashes, a shutdown, stops, cancellations, changes
\* of the privacy mode and tools that raise.  The requests and incidents are bounded, so the system
\* comes to rest.
SPECIFICATION Spec
CONSTANTS
  plain = plain
  confirmed = confirmed
  Requests <- MCRequests
  Confirmed <- MCConfirmed
  MaxCrashes = 1
  MaxShutdowns = 1
  MaxStops = 1
  MaxChanges = 1
  MaxCancels = 1
  MaxErrors = 1
  MaxEvents = 2
INVARIANTS
  HonestReceipts
  NoZombies
  AnswerStands
CHECK_DEADLOCK FALSE
