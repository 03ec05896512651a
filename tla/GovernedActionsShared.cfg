SPECIFICATION Spec
CONSTANTS
  a1 = a1
  a2 = a2
  i1 = i1
  k1 = k1
  Action = {a1, a2}
  Key = {k1}
  KeyOf <- OneKey
  Confirmed = {a1, a2}
  Deferring = {a2}
  Intent = {i1, i2}
  ActionOf <- OwnActions
  Call = {c1, c2, c3}
  Approval = {n1}
  Principal = {p1, p2}
  None = None
SYMMETRY Symmetry
INVARIANT
  EffectUnderApproval
\* The requests of a behaviour are bounded.
CHECK_DEADLOCK FALSE
