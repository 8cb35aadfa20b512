SPECIFICATION Spec
CONSTANTS
  Targets <- MCTargets
  KeyOf <- ToField
  None = None
INVARIANT
  KeyFindsNode
