CONSTANTS
  c1 = c1
  c2 = c2
  here = here
  there = there
  everywhere = everywhere
  name = name
  no_timeout = no_timeout
  Callers = {c1, c2}
  Addresses = {here, there, everywhere}
  Names = {name}
  Overlap <- SomeOverlap
  Ports = {1}
  BadPort = 65536
  Timeouts <- SomeTimeouts
  TooLong = 9
  NoTimeout = no_timeout
  Calls <- SomeCalls
SPECIFICATION FairSpec
INVARIANTS TypeOK FailedIsClosed AsAsked OneServer
PROPERTY TimedEnds
