CONSTANTS
  p1 = p1
  p2 = p2
  port1 = port1
  port2 = port2
  chain1 = chain1
  chain2 = chain2
  Procs <- OneProc
  Chains <- TwoChains
  Ports <- TwoPorts
  FaultCodes <- LoudFaults
  Interrupts <- AllInterrupts
  MaxFaults = 2
SPECIFICATION Spec
SYMMETRY Symmetry
INVARIANTS TypeOK ListedIsEffective OkIsApplied UnsavedIsOwed
