SPECIFICATION Spec
CONSTANTS
  s1 = s1
  Job = {j1}
  Call = {c1, c2}
  Content = {x, y}
  Session = {s1}
  SessionOf <- Sessions
  Worker = Worker
  Wiped = Wiped
  None = None
  MaxVersion = 3
  MaxConflict = 1
  ReviewsConflicts = TRUE
  MaxCandidates = 2
  MaxFaults = 1
SYMMETRY Symmetry
INVARIANTS
  TypeOK
  VersionsTrackContent
  JobsEnd
PROPERTIES
  AutomaticNeedsTwoSources
  GoneStaysGone
\* The calls and jobs of a behaviour are bounded.
CHECK_DEADLOCK FALSE
