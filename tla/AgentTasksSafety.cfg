SPECIFICATION Spec
CONSTANTS
  t1 = t1
  t2 = t2
  p1 = p1
  p2 = p2
  c1 = c1
  Task = {t1, t2}
  Proc = {p1, p2}
  Msg = {}
  Conv = {c1}
  MaxConcurrent = 1
  MaxDaily = 0
  MaxCancels = 1
  MaxPurges = 1
  Page = 1
  MaxRetries = 1
  None = None
SYMMETRY Symmetry
INVARIANTS
  TypeOK
  LeaseMatchesStatus
  RepliedCancelIsSettled
  LocalCancelStopsCall
PROPERTIES
  SettledIsFinal
  ImplementsLedger
\* Every process may have exited or crashed.
CHECK_DEADLOCK FALSE
