--------------------------- MODULE SocketCreation ---------------------------
(***************************************************************************)
(* How network/socket.py makes a socket: create_server_sock and            *)
(* create_client_sock, from the address to a socket that listens or is     *)
(* connected.  Every step may raise.  Between two steps the kernel answers *)
(* others: two servers may both have bound a port before one listens.      *)
(*                                                                         *)
(* What is raised is a SocketError, or escapes: it is neither caught nor   *)
(* turned into one, and the descriptor stays open for as long as the       *)
(* caller keeps the exception, whose traceback holds the socket.           *)
(***************************************************************************)
EXTENDS Integers

CONSTANTS
  Callers,
  Addresses,    \* the IP addresses
  Names,        \* what the resolver is asked for
  Overlap,      \* the addresses on which one port is the same: an address and
                \*   itself, a wildcard and what it stands for
  Ports,        \* those a socket may have
  BadPort,      \* one out of range
  Timeouts,     \* arguments: NoTimeout or a number of seconds
  TooLong,      \* one that settimeout does not take
  NoTimeout,    \* None
  Calls         \* the arguments with which the callers call

\* The argument port with which the kernel takes a free one.
AnyPort == 0

Arguments ==
  [kind : {"server", "client"}, address : Addresses \cup Names \cup {""},
   port : Ports \cup {AnyPort, BadPort}, timeout : Timeouts,
   reuse_address : BOOLEAN, tls : BOOLEAN]

ASSUME CreationAssumption ==
  /\ Calls \subseteq Arguments
  /\ AnyPort \notin Ports /\ BadPort \notin Ports \cup {AnyPort}
  /\ Addresses \cap Names = {}
  /\ Overlap \subseteq Addresses \X Addresses
  /\ \A a \in Addresses : <<a, a>> \in Overlap
  /\ \A o \in Overlap : <<o[2], o[1]>> \in Overlap
  /\ TooLong \in Nat \ {0}
  /\ NoTimeout \notin Int
  /\ Timeouts \subseteq Int \cup {NoTimeout}

VARIABLES
  pc,      \* "idle", the next call of the kernel or the resolver, "done"
  args,    \* the arguments
  at,      \* what format_address returned; from bind on, with the port taken
  sock,    \* of the descriptor: open, or closed or not there yet; what
           \*   settimeout made of it; SO_REUSEADDR; "new", "bound",
           \*   "listening" or "connected" (external)
  result   \* "none", "sock", "SocketError", "escaped"

vars == <<pc, args, at, sock, result>>

Sockets ==
  [open : BOOLEAN, mode : {"blocking", "timed", "nonblocking"},
   reuse : BOOLEAN, stage : {"new", "bound", "listening", "connected"}]

Socket(isOpen) == [open |-> isOpen, mode |-> "blocking", reuse |-> FALSE, stage |-> "new"]
Closed == Socket(FALSE)

Init ==
  /\ pc = [c \in Callers |-> "idle"]
  /\ \E a \in Calls : args = [c \in Callers |-> a]
  /\ at = [c \in Callers |-> [ip |-> "", port |-> AnyPort]]
  /\ sock = [c \in Callers |-> Closed]
  /\ result = [c \in Callers |-> "none"]

Goto(c, label) == pc' = [pc EXCEPT ![c] = label]

\* Slip (TypeOK): the socket is not returned.
FinishSlip(c, outcome) ==
  /\ Goto(c, "done")
  /\ result' = [result EXCEPT ![c] = IF outcome = "sock" THEN "none" ELSE outcome]

Finish(c, outcome) ==
  /\ Goto(c, "done")
  /\ result' = [result EXCEPT ![c] = outcome]

\* What is raised outside the try.
Escape(c) == Finish(c, "escaped") /\ UNCHANGED <<args, at, sock>>

Begin(c) ==
  /\ pc[c] = "idle"
  /\ \E a \in Calls : args' = [args EXCEPT ![c] = a]
  /\ Goto(c, "resolve")
  /\ UNCHANGED <<at, sock, result>>

\* get_ip_address: a literal is its own address; a name has what the resolver
\* answers.  No answer, a malformed one and a gaierror are SocketErrors; an
\* OSError of another kind escapes.
GetIpAddress(address) ==
  IF address \in Addresses THEN {address} ELSE Addresses \cup {"SocketError", "escaped"}

\* format_address.
Resolve(c) ==
  /\ pc[c] = "resolve"
  /\ \/ args[c].address = "" /\ Finish(c, "SocketError") /\ UNCHANGED at
     \/ /\ args[c].address # ""
        /\ \E ip \in GetIpAddress(args[c].address) :
             \/ /\ ip \in Addresses
                /\ at' = [at EXCEPT ![c] = [ip |-> ip, port |-> args[c].port]]
                /\ Goto(c, "socket")
                /\ UNCHANGED result
             \/ ip \notin Addresses /\ Finish(c, ip) /\ UNCHANGED at
  /\ UNCHANGED <<args, sock>>

\* socket.socket(), which raises when no descriptor is left.
Open(c) ==
  /\ pc[c] = "socket"
  /\ \/ /\ sock' = [sock EXCEPT ![c] = Socket(TRUE)]
        /\ Goto(c, "setup")
        /\ UNCHANGED <<args, at, result>>
     \/ Escape(c)

\* Slip (AsAsked): a timeout of zero is not normalized.
NormalizeTimeoutSlip(s) == IF s # NoTimeout /\ s < 0 THEN NoTimeout ELSE s

NormalizeTimeout(s) == IF s # NoTimeout /\ s <= 0 THEN NoTimeout ELSE s

\* settimeout (external).
ModeOf(s) == IF s = NoTimeout THEN "blocking" ELSE IF s = 0 THEN "nonblocking" ELSE "timed"

\* ssl_context.wrap_socket, which may fail; set_socket_reuseaddr, whose failure is
\* ignored; settimeout.
\* Slip (TimedEnds): the timeout is not set.
SetupSlip(c) ==
  /\ pc[c] = "setup"
  /\ \E done \in {FALSE, args[c].reuse_address} :
       sock' = [sock EXCEPT ![c] = [Socket(TRUE) EXCEPT !.reuse = done]]
  /\ Goto(c, IF args[c].kind = "server" THEN "bind" ELSE "connect")
  /\ UNCHANGED <<args, at, result>>

Setup(c) ==
  /\ pc[c] = "setup"
  /\ \/ (args[c].tls \/ args[c].timeout = TooLong) /\ Escape(c)
     \/ /\ args[c].timeout # TooLong
        /\ \E done \in {FALSE, args[c].reuse_address} :
             sock' = [sock EXCEPT ![c] = [open |-> TRUE, stage |-> "new", reuse |-> done,
                                          mode |-> ModeOf(NormalizeTimeout(args[c].timeout))]]
        /\ Goto(c, IF args[c].kind = "server" THEN "bind" ELSE "connect")
        /\ UNCHANGED <<args, at, result>>

\* except OSError: close, and a SocketError.
\* Slip (FailedIsClosed): the socket is not closed.
FailSlip(c) == Finish(c, "SocketError") /\ UNCHANGED <<args, at, sock>>

Fail(c) ==
  /\ sock' = [sock EXCEPT ![c] = Closed]
  /\ Finish(c, "SocketError")
  /\ UNCHANGED <<args, at>>

Reach(c, s) == sock' = [sock EXCEPT ![c].stage = s]

\* c and d have one port on addresses that overlap.
Clash(c, d) == at[c].port = at[d].port /\ <<at[c].ip, at[d].ip>> \in Overlap

\* The other sockets at the address and port of c.
Rivals(c) == {d \in Callers \ {c} : Clash(c, d) /\ sock[d].stage \in {"bound", "listening"}}

\* sock.bind(): who listens excludes others; who is bound, unless both may reuse.
\* A port out of range is an OverflowError.
Bind(c) ==
  /\ pc[c] = "bind"
  /\ IF args[c].port = BadPort THEN Escape(c)
     ELSE \/ Fail(c)
          \/ \E p \in IF args[c].port = AnyPort THEN Ports ELSE {args[c].port} :
               /\ at' = [at EXCEPT ![c].port = p]
               /\ Reach(c, "bound")
               /\ \A d \in Rivals(c)' : sock[d].stage = "bound" /\ sock[d].reuse /\ sock[c].reuse
               /\ Goto(c, "listen")
               /\ UNCHANGED <<args, result>>

\* sock.listen(): the second of two bound sockets fails.
\* Slip (OneServer): the failure is ignored.
ListenSlip(c) ==
  /\ pc[c] = "listen"
  /\ Reach(c, "listening")
  /\ Finish(c, "sock")
  /\ UNCHANGED <<args, at>>

Listen(c) ==
  /\ pc[c] = "listen"
  /\ \/ Fail(c)
     \/ /\ \A d \in Rivals(c) : sock[d].stage # "listening"
        /\ Reach(c, "listening")
        /\ Finish(c, "sock")
        /\ UNCHANGED <<args, at>>

\* sock.connect() ends, with TLS after the handshake: connected, or with an OSError
\* (also EINPROGRESS).  A certificate for another host is no OSError before Python
\* 3.7, nor is a port out of range.
Connect(c) ==
  /\ pc[c] = "connect"
  /\ \/ args[c].port = BadPort /\ Escape(c)
     \/ args[c].port # BadPort /\ (Fail(c) \/ (args[c].tls /\ Escape(c)))
     \/ /\ args[c].port \in Ports /\ sock[c].mode # "nonblocking"
        /\ Reach(c, "connected")
        /\ Finish(c, "sock")
        /\ UNCHANGED <<args, at>>

\* The timeout of a connect to a peer that does not answer.
ConnectTimeout(c) ==
  /\ pc[c] = "connect"
  /\ args[c].port # BadPort
  /\ sock[c].mode = "timed"
  /\ Fail(c)

\* The caller closes the socket, or lets go of the exception, and with it of the
\* socket that its traceback holds.
Drop(c) ==
  /\ pc[c] = "done"
  /\ sock' = [sock EXCEPT ![c] = Closed]
  /\ result' = [result EXCEPT ![c] = "none"]
  /\ Goto(c, "idle")
  /\ UNCHANGED <<args, at>>

\* What goes on by itself: all but an answer of the peer.
Step(c) == Resolve(c) \/ Open(c) \/ Setup(c) \/ Bind(c) \/ Listen(c) \/ ConnectTimeout(c)

Next == \E c \in Callers : Begin(c) \/ Step(c) \/ Connect(c) \/ Drop(c)

Spec == Init /\ [][Next]_vars
FairSpec == Spec /\ \A c \in Callers : WF_vars(Step(c))

-----------------------------------------------------------------------------

\* The sorts of the variables.
TypeOK ==
  /\ pc \in [Callers -> {"idle", "resolve", "socket", "setup", "bind", "listen", "connect", "done"}]
  /\ args \in [Callers -> Arguments]
  /\ at \in [Callers -> [ip : Addresses \cup {""}, port : Ports \cup {AnyPort, BadPort}]]
  /\ sock \in [Callers -> Sockets]
  /\ result \in [Callers -> {"none", "sock", "SocketError", "escaped"}]
  /\ \A c \in Callers : pc[c] = "done" <=> result[c] # "none"

\* A creation that ends with a SocketError leaves no descriptor open, whichever step
\* failed and whatever other callers did; before socket() there is none.
FailedIsClosed ==
  \A c \in Callers :
    result[c] = "SocketError" \/ pc[c] \in {"idle", "resolve", "socket"} => ~sock[c].open

\* A socket that is returned is open, and waits as long as was asked and never not at
\* all: "This module only handles blocking sockets".
AsAsked ==
  \A c \in Callers : result[c] = "sock" =>
    /\ sock[c].open
    /\ sock[c].mode = IF args[c].timeout # NoTimeout /\ args[c].timeout > 0
                      THEN "timed" ELSE "blocking"

\* A server that create_server_sock returned.
Serves(c) == result[c] = "sock" /\ args[c].kind = "server"

\* Of several callers that ask at the same time for one port on one address, or on
\* addresses one of which stands for the other, and may all have bound it, at most
\* one gets a server socket; and a server has the port that was asked for, if one
\* was, though another caller took a free port meanwhile.
OneServer ==
  \A c, d \in Callers :
    /\ Serves(c) /\ Serves(d) /\ Clash(c, d) => c = d
    /\ Serves(c) /\ args[c].port # AnyPort => at[c].port = args[c].port

\* A client with a timeout ends its creation, though the peer never answers.
TimedEnds ==
  \A c \in Callers :
    /\ pc[c] = "resolve" /\ args[c].kind = "client" /\ args[c].port # BadPort
    /\ args[c].timeout # NoTimeout /\ args[c].timeout > 0
    ~> pc[c] = "done"
=============================================================================
