SPECIFICATION MCSpec
CONSTANTS
  Dicts <- MCDicts
  Defaults <- MCDefaults
  ImportStrings = {"SCHEMA"}
  BadImports = {"bad"}
  MaxOverrides = 1
  Parts <- MCParts
  Fields <- MCFields
  Options = {"none", "true", "false", "listed", "unlisted"}
INVARIANTS
  OneSource
  NewestAnswersByPresent
  OneNamingStyle
  DefinitionFailsOnlyIf
  LegalValueShows
  SendingBackSucceeds
PROPERTY
  SendingBackKeeps
CHECK_DEADLOCK FALSE
