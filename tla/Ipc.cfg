SPECIFICATION FairSpec
CONSTANTS
  c1 = c1
  c2 = c2
  core = core
  a1 = a1
  a2 = a2
  b1 = b1
  q1 = q1
  q2 = q2
  s1 = s1
  s2 = s2
  low = low
  mid = mid
  high = high
  wave = wave
  NoEvent = NoEvent
  NoRequest = NoRequest
  Events = {low, mid, high, wave}
  Rank <- MCRank
  Threaded = {low, mid, high}
  Transient = {wave}
  Subscribers = {c1, c2, core}
  QueueSize = 2
  Persister = core
  Activity = {low, high}
  Notable = {mid, high}
  NoticeLimit = 1
  Conns = {c1, c2}
  Actions = {a1, a2}
  Plain = {b1}
  Responsive = {q1, q2}
  Stops = {s1, s2}
  Of <- MCOf
  Stalls = {c2}
  QueueLimit = 2
  ResponsiveLimit = 1
  InterruptLimit = 1
  Workloads <- MCWorkloads
INVARIANTS AnsweredOnce InOrder OrderedDelivery DropsCounted HistoriesHonest
PROPERTIES AcceptedFinishes UrgentKept EveryRequestAnswered
CHECK_DEADLOCK FALSE
