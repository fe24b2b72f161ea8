CONSTANTS
  garbage = garbage
  malformed = malformed
  none = none
  raised = raised
  Garbage = garbage
  Malformed = malformed
  None = none
  Raised = raised
  Functions <- MCFunctions
  Names <- MethodNames
  NameOf <- MCNameOf
  Behaviour <- MCBehaviour
  Fits <- MCFits
  Binds <- MCBinds
  NamesIn <- MCNamesIn
  Threads = {"t1", "t2"}
  Texts <- TwoTexts
  Initial <- NotAll
  MaxShared = 1
SPECIFICATION Spec
INVARIANTS TypeOK Matched Honest Snapshots
