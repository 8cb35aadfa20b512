SPECIFICATION FairDumpSpec
CONSTANT
  MaxSaves = 3
INVARIANTS
  SuccessMeansDumped
  RefusedLeavesFile
PROPERTY
  SavesAreDumped
CHECK_DEADLOCK FALSE
