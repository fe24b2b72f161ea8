------------------------------ MODULE Command ------------------------------
(***************************************************************************)
(* What utils/process.py makes of an external command.  A command is known *)
(* to its caller by its exit code only: 0, 1 and 2, where 2 stands for     *)
(* every other code (2, 3, 4, ... and the negative codes of a command      *)
(* killed by a signal), and NoCode, for a command that could not be        *)
(* started, or whose output could not be decoded: subprocess.run raised,   *)
(* and the CommandError carries no code.                                   *)
(***************************************************************************)
EXTENDS Integers

NoCode == -1
ExitCodes == {NoCode, 0, 1, 2}

\* expected_ret_code=None: the caller looks at the code itself.
AnyCode == -2

\* run_internal_command: whether it raises a CommandError; otherwise it
\* returns the exit code.
Raises(exit, expected) ==
  exit = NoCode \/ (expected # AnyCode /\ exit # expected)
=============================================================================
