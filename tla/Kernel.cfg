SPECIFICATION Spec
CONSTANTS
  Threads = {root, a, b}
  Root = root
  Idle = idle
  NULL = null
  Endpoints = {e}
  Ntfns = {n}
  Slots = {s1, s2}
  Badges = {0, 1}
  NumPrios = 3
  WordBits = 2
  TimeSlice = 1
  Programs <- SevenPrograms
SYMMETRY Others
CHECK_DEADLOCK FALSE
INVARIANTS
  AssertsHold
  ReadyExact
  BlockedExact
  RepliesExact
  FastpathExact
  HighestRuns
