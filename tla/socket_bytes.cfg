CONSTANTS
  Threads <- Beside
  EndOf <- EndOfThread
  Roles <- RolesOfThread
  Lengths <- LengthThree
  Sizes <- ManySizes
  Timeouts <- NoTimeouts
  Modes <- TimedOrNot
  Capacity = 2
  RECEIVE_BUFFER_SIZE = 2
  High = {"server"}
  Breaks = TRUE
  MaxCalls = 2
SPECIFICATION Spec
INVARIANTS TypeOK Contiguous ErrorsHaveCause IInv
CHECK_DEADLOCK FALSE
