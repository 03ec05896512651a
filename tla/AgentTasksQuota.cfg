SPECIFICATION Spec
CONSTANTS
  t1 = t1
  t2 = t2
  t3 = t3
  p1 = p1
  m1 = m1
  c1 = c1
  Task = {t1, t2, t3}
  Proc = {p1}
  Msg = {m1}
  Conv = {c1}
  MaxConcurrent = 2
  MaxDaily = 1
  MaxCancels = 0
  MaxPurges = 1
  Page = 3
  MaxRetries = 0
  None = None
SYMMETRY Symmetry
INVARIANTS
  WithinConcurrency
  KeysUnique
  OneSuccessor
\* The process may have exited or crashed.
CHECK_DEADLOCK FALSE
