CONSTANTS
  p1 = p1
  p2 = p2
  Procs = {p1, p2}
  Functions <- RacingFunctions
  FaultCodes <- NoCodeOrOther
  MaxFaults = 1
  MaxEdits = 1
SPECIFICATION Spec
INVARIANTS TypeOK AnswersHaveCause OkWasDone OkIsWhole
SYMMETRY Symmetry
