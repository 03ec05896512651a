SPECIFICATION Spec
CONSTANTS
  N = 2
  Automatic <- MCAuto
  Call = {c1, c2}
  Direct = {c1, c2}
  Template = Template
  Retired = Retired
  MaxFaults = 1
  None = None
INVARIANTS
  TypeOK
  EndedOnce
  DraftMatchesResults
PROPERTIES
  ImplementsCoop
  AutoEnds
\* The calls of a behaviour are bounded.
CHECK_DEADLOCK FALSE
