CONSTANTS
  Threads <- Dialogue
  EndOf <- EndOfThread
  Roles <- RolesOfThread
  Lengths <- LengthTwo
  Sizes <- NoSizes
  Timeouts <- NoTimeouts
  Modes <- AllModes
  Capacity = 1
  RECEIVE_BUFFER_SIZE = 2
  High = {}
  Breaks = FALSE
  MaxCalls = 1
SPECIFICATION FairSpec
PROPERTIES CloseWakes TransfersEnd
CHECK_DEADLOCK FALSE
