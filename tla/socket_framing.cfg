CONSTANTS
  Threads <- Adjusted
  EndOf <- EndOfThread
  Roles <- RolesOfThread
  Lengths <- LengthTwo
  Sizes <- NoSizes
  Timeouts <- SomeTimeouts
  Modes <- Timed
  Capacity = 3
  RECEIVE_BUFFER_SIZE = 2
  High = {"client", "server"}
  Breaks = FALSE
  MaxCalls = 2
SPECIFICATION Spec
INVARIANTS Framed OnlySocketErrors
PROPERTY ImplementsMessageChannel
CHECK_DEADLOCK FALSE
