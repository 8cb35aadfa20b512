SPECIFICATION Spec
CONSTANTS
  Models <- MCModels
  Fields <- MCFields
  FieldsOf <- MCFieldsOf
  Kind <- MCKind
  Target <- MCTarget
  Own = Own
  MaxTypes = 3
  MaxResets = 1
INVARIANTS
  OneRegistryBuilds
  RelationsStayInRegistry
  DeclarationsDecide
CHECK_DEADLOCK FALSE
