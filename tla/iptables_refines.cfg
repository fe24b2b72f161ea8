CONSTANTS
  p1 = p1
  p2 = p2
  port1 = port1
  port2 = port2
  chain1 = chain1
  chain2 = chain2
  Procs <- TwoProcs
  Chains <- OneChain
  Ports <- TwoPorts
  FaultCodes <- OneFault
  Interrupts <- AllInterrupts
  MaxFaults = 1
SPECIFICATION Spec
SYMMETRY Symmetry
INVARIANTS ErrorsHaveCause OkIsApplied
PROPERTY ImplementsPortAccess
