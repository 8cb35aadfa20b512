SPECIFICATION Spec
CONSTANTS
  Targets <- MCTargets
  KeyOf <- PrimaryKey
  None = None
INVARIANTS
  ShownPassed
  AnswerOfOneMoment
