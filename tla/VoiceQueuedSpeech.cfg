SPECIFICATION FairSpec
CONSTANTS
  l1 = l1
  l2 = l2
  w1 = w1
  w2 = w2
  c1 = c1
  f1 = f1
  f2 = f2
  f3 = f3
  f4 = f4
  s1 = s1
  s2 = s2
  r1 = r1
  e1 = e1
  e2 = e2
  x1 = x1
  x2 = x2
  y1 = y1
  y2 = y2
  p1 = p1
  p2 = p2
  supervisor = supervisor
  NoTask = NoTask
  Listens = {l1, l2}
  Wakes = {w1, w2}
  Closers = {c1}
  Finishers = {f1, f2, f3, f4}
  Speeches = {s1, s2, r1}
  Reminders = {r1}
  Stops = {e1, e2, x1, x2}
  Switches = {x1, x2}
  Typed = {y1, y2}
  Pauses = {p1, p2}
  Critical = {p2}
  Workloads <- QueueWorkloads
PROPERTY StopSilencesQueue
CHECK_DEADLOCK FALSE
