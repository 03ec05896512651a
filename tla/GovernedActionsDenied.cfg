SPECIFICATION Spec
CONSTANTS
  a1 = a1
  a2 = a2
  i1 = i1
  k1 = k1
  Action = {a1}
  Key = {k1}
  KeyOf <- OneKey
  Confirmed = {a1}
  Deferring = {}
  Intent = {i1}
  ActionOf <- SameAction
  Call = {c1, c2}
  Approval = {n1}
  Principal = {p1}
  None = None
SYMMETRY Symmetry
INVARIANTS
  BlockedMeansDenied
\* The requests of a behaviour are bounded.
CHECK_DEADLOCK FALSE
