SPECIFICATION Spec
CONSTANTS
  Filtersets <- MCFiltersets
  Rows <- MCRows
INVARIANTS
  MeaninglessIsRefused
  MeaningfulIsServed
PROPERTY
  AnswerIsDescribed
CHECK_DEADLOCK FALSE
