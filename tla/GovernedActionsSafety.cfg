SPECIFICATION Spec
CONSTANTS
  a1 = a1
  a2 = a2
  i1 = i1
  k1 = k1
  Action = {a1, a2}
  Key = {k1}
  KeyOf <- OneKey
  Confirmed = {a1}
  Deferring = {a1}
  Intent = {i1}
  ActionOf <- SameAction
  Call = {c1, c2, c3}
  Approval = {n1, n2}
  Principal = {p1}
  None = None
SYMMETRY Symmetry
INVARIANTS
  TypeOK
  OneLiveApproval
  IntentHonest
  RejectedNotPerformed
  OneExecutor
  OncePerKey
PROPERTY
  ImplementsConsent
\* The requests of a behaviour are bounded.
CHECK_DEADLOCK FALSE
