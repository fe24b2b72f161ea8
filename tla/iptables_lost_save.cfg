CONSTANTS
  p1 = p1
  p2 = p2
  port1 = port1
  port2 = port2
  chain1 = chain1
  chain2 = chain2
  Procs <- OneProc
  Chains <- OneChain
  Ports <- OnePort
  FaultCodes <- LoudFaults
  Interrupts <- NoFaults
  MaxFaults = 1
SPECIFICATION Spec
INVARIANT OkIsDurable
