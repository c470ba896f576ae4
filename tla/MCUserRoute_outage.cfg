SPECIFICATION Spec
CONSTANTS
  Models = {m1, m2}
  None = None
  Readers = {}
  Writers = {w1}
INVARIANT ChoiceSurvives
