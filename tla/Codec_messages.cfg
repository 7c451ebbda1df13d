SPECIFICATION Spec
CONSTANTS
  Items <- MCItems
  Sizes <- MCSizes
  MaxItems = 2
INVARIANTS BufferKept ReadsWhatWasWritten IntegersInRange KindsAgree WritesWhatWasRead
CHECK_DEADLOCK FALSE
