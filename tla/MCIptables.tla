----------------------------- MODULE MCIptables -----------------------------
(* Instances of Iptables for TLC.                                          *)
EXTENDS Iptables, TLC

CONSTANTS p1, p2, port1, port2, chain1, chain2

OneProc == {p1}
TwoProcs == {p1, p2}
OneChain == {chain1}
TwoChains == {chain1, chain2}
OnePort == {port1}
TwoPorts == {port1, port2}

\* Failures that are seen as such, and those that look like an answer.
LoudFaults == {2, NoCode}
OneFault == {2}
AllFaults == {1, 2, NoCode}
NoFaults == {}
AllInterrupts == {"crash", "reboot"}

Symmetry ==
  Permutations(Procs) \cup Permutations(Ports) \cup Permutations(Chains)
=============================================================================
