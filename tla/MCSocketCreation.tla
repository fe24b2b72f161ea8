-------------------------- MODULE MCSocketCreation --------------------------
(* Instances of SocketCreation for TLC. *)
EXTENDS SocketCreation

CONSTANTS c1, c2, here, there, everywhere, name, no_timeout

\* The wildcard overlaps with both.
SomeOverlap ==
  {<<a, b>> \in Addresses \X Addresses : a = b \/ everywhere \in {a, b}}

SomeTimeouts == {0, 5, 9, no_timeout}

Call(kind, address, port, timeout, reuse_address, tls) ==
  [kind |-> kind, address |-> address, port |-> port, timeout |-> timeout,
   reuse_address |-> reuse_address, tls |-> tls]

\* Servers that race for an address and a port, and creations of every other sort.
SomeCalls ==
  {Call("server", a, p, no_timeout, reuse, FALSE) :
     a \in {here, everywhere, name}, p \in {1, AnyPort}, reuse \in BOOLEAN} \cup
  {Call(kind, here, 1, timeout, TRUE, FALSE) :
     kind \in {"server", "client"}, timeout \in SomeTimeouts} \cup
  {Call(kind, here, p, 5, TRUE, TRUE) : kind \in {"server", "client"}, p \in {1, BadPort}} \cup
  {Call("client", a, 1, 5, TRUE, FALSE) : a \in {name, ""}}
=============================================================================
