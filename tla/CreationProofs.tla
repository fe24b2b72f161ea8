--------------------------- MODULE CreationProofs ---------------------------
(***************************************************************************)
(* Proofs about SocketCreation, for any callers, addresses, ports and      *)
(* timeouts: what the invariants of its run say holds of the specification. *)
(***************************************************************************)
EXTENDS SocketCreation, TLAPS

Before == {"idle", "resolve", "socket"}
During == {"setup", "bind", "listen", "connect"}

\* The descriptor is there from socket() to the end, and a closed one is as new.
Descriptor(c) ==
  /\ pc[c] \in Before \/ result[c] = "SocketError" => ~sock[c].open
  /\ pc[c] \in During \/ result[c] = "sock" => sock[c].open
  /\ ~sock[c].open => sock[c] = Closed

\* The mode that the timeout asks for.
Asked(c) ==
  IF args[c].timeout # NoTimeout /\ args[c].timeout > 0 THEN "timed" ELSE "blocking"

\* Past the setup the mode is the one asked for; past the bind of a server, the
\* port; and a server listens.
Prepared(c) ==
  /\ pc[c] \in {"bind", "listen", "connect"} \/ result[c] = "sock" => sock[c].mode = Asked(c)
  /\ pc[c] = "connect" => args[c].kind = "client"
  /\ pc[c] = "listen" \/ Serves(c) => args[c].port \in {AnyPort, at[c].port}
  /\ Serves(c) => sock[c].stage = "listening"

Listening(c) == sock[c].stage = "listening"

\* At most one socket listens at an address and port, returned or not.
Exclusive == \A c, d \in Callers : Listening(c) /\ Listening(d) /\ Clash(c, d) => c = d

\* The inductive invariant behind FailedIsClosed, AsAsked and OneServer.
IInv ==
  /\ TypeOK
  /\ \A c \in Callers : Descriptor(c) /\ Prepared(c)
  /\ Exclusive

-----------------------------------------------------------------------------

\* A step of c that leaves the other callers alone and sets c as told.
Touches(c) ==
  \A d \in Callers \ {c} :
    /\ pc'[d] = pc[d] /\ args'[d] = args[d] /\ at'[d] = at[d]
    /\ sock'[d] = sock[d] /\ result'[d] = result[d]

LEMMA ClashBothWays ==
  ASSUME NEW c, NEW d, Clash(c, d)'
  PROVE  Clash(d, c)'
  BY CreationAssumption DEF Clash

\* What is to be shown of a step of c: the rest follows.
LEMMA LocalStep ==
  ASSUME IInv, NEW c \in Callers, TypeOK', Touches(c),
         Descriptor(c)', Prepared(c)',
         Listening(c)' => /\ at'[c] = at[c]
                          /\ Listening(c) \/ \A d \in Rivals(c) : ~Listening(d)
  PROVE  IInv'
  <1>1. \A d \in Callers \ {c} : Descriptor(d)' /\ Prepared(d)'
    BY DEF IInv, Touches, Descriptor, Prepared, Serves, Asked, Closed, Socket
  <1>2. Exclusive'
    <2> SUFFICES ASSUME NEW d \in Callers, NEW e \in Callers,
                        Listening(d)', Listening(e)', Clash(d, e)'
                 PROVE  d = e
      BY DEF Exclusive
    <2>1. CASE d # c /\ e # c
      BY <2>1 DEF IInv, Exclusive, Touches, Listening, Clash
    <2>2. CASE d = c /\ e # c
      BY <2>2 DEF IInv, Exclusive, Touches, Listening, Rivals, Clash
    <2>3. CASE d # c /\ e = c
      <3>1. Clash(e, d)'
        BY ClashBothWays
      <3>2. QED
        BY <2>3, <3>1 DEF IInv, Exclusive, Touches, Listening, Rivals, Clash
    <2>4. QED
      BY <2>1, <2>2, <2>3
  <1>3. QED
    BY <1>1, <1>2 DEF IInv

\* A caller that ends without a socket.
LEMMA FailStep ==
  ASSUME IInv, NEW c \in Callers, Fail(c)
  PROVE  IInv'
  <1>1. TypeOK'
    BY DEF IInv, TypeOK, Fail, Finish, Goto, Closed, Socket, Sockets
  <1>2. Touches(c)
    BY DEF IInv, TypeOK, Touches, Fail, Finish, Goto
  <1>3. pc'[c] = "done" /\ result'[c] = "SocketError" /\ sock'[c] = Closed
    BY DEF IInv, TypeOK, Fail, Finish, Goto
  <1>4. Descriptor(c)' /\ Prepared(c)' /\ ~Listening(c)'
    BY <1>3 DEF Descriptor, Prepared, Serves, Listening, Before, During, Closed, Socket
  <1>5. QED
    BY <1>1, <1>2, <1>4, LocalStep

LEMMA EscapeStep ==
  ASSUME IInv, NEW c \in Callers, pc[c] # "done", Escape(c)
  PROVE  IInv'
  <1>1. TypeOK'
    BY DEF IInv, TypeOK, Escape, Finish, Goto
  <1>2. Touches(c)
    BY DEF IInv, TypeOK, Touches, Escape, Finish, Goto
  <1>3. pc'[c] = "done" /\ result'[c] = "escaped" /\ UNCHANGED <<args, at, sock>>
    BY DEF IInv, TypeOK, Escape, Finish, Goto
  <1>4. Descriptor(c)' /\ Prepared(c)'
    BY <1>3 DEF IInv, Descriptor, Prepared, Serves, Before, During, Closed, Socket
  <1>5. QED
    BY <1>1, <1>2, <1>3, <1>4, LocalStep DEF Listening

\* Before socket() there is no descriptor, and no result yet.
LEMMA BeforeSocket ==
  ASSUME IInv, NEW c \in Callers, pc[c] \in Before
  PROVE  sock[c] = Closed /\ result[c] = "none"
  <1>1. sock[c] = Closed
    BY DEF IInv, Descriptor
  <1>2. pc[c] # "done"
    BY DEF Before
  <1>3. QED
    BY <1>1, <1>2 DEF IInv, TypeOK

LEMMA BeginStep ==
  ASSUME IInv, NEW c \in Callers, Begin(c)
  PROVE  IInv'
  <1>0. PICK a \in Arguments :
          /\ pc[c] = "idle" /\ args' = [args EXCEPT ![c] = a]
          /\ pc' = [pc EXCEPT ![c] = "resolve"] /\ UNCHANGED <<at, sock, result>>
    BY CreationAssumption DEF Begin, Goto
  <1>1. TypeOK'
    BY <1>0 DEF IInv, TypeOK
  <1>2. Touches(c)
    BY <1>0 DEF IInv, TypeOK, Touches
  <1>3. Descriptor(c)' /\ Prepared(c)' /\ ~Listening(c)'
    <2>1. sock'[c] = Closed /\ result'[c] = "none" /\ pc'[c] = "resolve"
      BY <1>0, BeforeSocket DEF IInv, TypeOK, Before
    <2>2. QED
      BY <2>1 DEF Descriptor, Prepared, Serves, Listening, Before, During, Closed, Socket
  <1>4. QED
    BY <1>1, <1>2, <1>3, LocalStep

LEMMA ResolveStep ==
  ASSUME IInv, NEW c \in Callers, Resolve(c)
  PROVE  IInv'
  <1>0. pc[c] = "resolve" /\ sock[c] = Closed /\ result[c] = "none" /\ UNCHANGED <<args, sock>>
    BY BeforeSocket DEF Resolve, Before
  <1>1. CASE \E outcome \in {"SocketError", "escaped"} : Finish(c, outcome) /\ UNCHANGED at
    <2>1. PICK outcome \in {"SocketError", "escaped"} :
            /\ pc' = [pc EXCEPT ![c] = "done"] /\ result' = [result EXCEPT ![c] = outcome]
            /\ UNCHANGED at
      BY <1>1 DEF Finish, Goto
    <2>2. TypeOK'
      BY <1>0, <2>1 DEF IInv, TypeOK
    <2>3. Touches(c)
      BY <1>0, <2>1 DEF IInv, TypeOK, Touches
    <2>4. pc'[c] = "done" /\ result'[c] = outcome /\ sock'[c] = Closed
      BY <1>0, <2>1 DEF IInv, TypeOK
    <2>5. Descriptor(c)' /\ Prepared(c)' /\ ~Listening(c)'
      BY <2>4 DEF Descriptor, Prepared, Serves, Listening, Before, During, Closed, Socket
    <2>6. QED
      BY <2>2, <2>3, <2>5, LocalStep
  <1>2. CASE \E ip \in Addresses :
               /\ at' = [at EXCEPT ![c] = [ip |-> ip, port |-> args[c].port]]
               /\ Goto(c, "socket") /\ UNCHANGED result
    <2>1. PICK ip \in Addresses :
            /\ at' = [at EXCEPT ![c] = [ip |-> ip, port |-> args[c].port]]
            /\ pc' = [pc EXCEPT ![c] = "socket"] /\ UNCHANGED result
      BY <1>2 DEF Goto
    <2>2. TypeOK'
      <3>1. args[c].port \in Ports \cup {AnyPort, BadPort}
        BY DEF IInv, TypeOK, Arguments
      <3>2. QED
        BY <1>0, <2>1, <3>1 DEF IInv, TypeOK
    <2>3. Touches(c)
      BY <1>0, <2>1 DEF IInv, TypeOK, Touches
    <2>4. pc'[c] = "socket" /\ result'[c] = "none" /\ sock'[c] = Closed
      BY <1>0, <2>1 DEF IInv, TypeOK
    <2>5. Descriptor(c)' /\ Prepared(c)' /\ ~Listening(c)'
      BY <2>4 DEF Descriptor, Prepared, Serves, Listening, Before, During, Closed, Socket
    <2>6. QED
      BY <2>2, <2>3, <2>5, LocalStep
  <1>3. QED
    <2>1. ASSUME NEW ip \in GetIpAddress(args[c].address), ip \notin Addresses
          PROVE  ip \in {"SocketError", "escaped"}
      BY <2>1 DEF GetIpAddress
    <2>2. QED
      BY <1>1, <1>2, <2>1 DEF Resolve

LEMMA OpenStep ==
  ASSUME IInv, NEW c \in Callers, Open(c)
  PROVE  IInv'
  <1>1. CASE Escape(c)
    BY <1>1, EscapeStep DEF Open
  <1>2. CASE ~Escape(c)
    <2>0. /\ pc[c] = "socket" /\ pc' = [pc EXCEPT ![c] = "setup"]
          /\ sock' = [sock EXCEPT ![c] = Socket(TRUE)]
          /\ UNCHANGED <<args, at, result>>
      BY <1>2 DEF Open, Goto
    <2>1. TypeOK'
      <3>1. Socket(TRUE) \in Sockets
        BY DEF Socket, Sockets
      <3>2. QED
        BY <2>0, <3>1 DEF IInv, TypeOK
    <2>2. Touches(c)
      BY <1>2 DEF IInv, TypeOK, Touches, Open, Goto
    <2>3. Descriptor(c)' /\ Prepared(c)' /\ ~Listening(c)'
      <3>1. sock'[c] = Socket(TRUE) /\ result'[c] = "none" /\ pc'[c] = "setup"
        BY <2>0, BeforeSocket DEF IInv, TypeOK, Before
      <3>2. QED
        BY <3>1 DEF Descriptor, Prepared, Serves, Listening, Before, During, Socket
    <2>4. QED
      BY <2>1, <2>2, <2>3, LocalStep
  <1>3. QED
    BY <1>1, <1>2

\* What settimeout makes of a normalized timeout.
LEMMA ModeIsAsked ==
  ASSUME NEW c \in Callers, args[c] \in Arguments
  PROVE  ModeOf(NormalizeTimeout(args[c].timeout)) = Asked(c)
  <1>1. args[c].timeout \in Int \cup {NoTimeout} /\ NoTimeout \notin Int
    BY CreationAssumption DEF Arguments
  <1>2. QED
    BY <1>1 DEF ModeOf, NormalizeTimeout, Asked

LEMMA SetupStep ==
  ASSUME IInv, NEW c \in Callers, Setup(c)
  PROVE  IInv'
  <1>1. CASE Escape(c)
    BY <1>1, EscapeStep DEF Setup
  <1>2. CASE ~Escape(c)
    <2>1. PICK done \in {FALSE, args[c].reuse_address} :
            sock' = [sock EXCEPT ![c] = [open |-> TRUE, stage |-> "new", reuse |-> done,
                                         mode |-> ModeOf(NormalizeTimeout(args[c].timeout))]]
      BY <1>2 DEF Setup
    <2>2. /\ Goto(c, IF args[c].kind = "server" THEN "bind" ELSE "connect")
          /\ UNCHANGED <<args, at, result>> /\ pc[c] = "setup"
      BY <1>2 DEF Setup
    <2>3. args[c] \in Arguments /\ sock[c] \in Sockets /\ sock[c].open /\ result[c] = "none"
      BY <2>2 DEF IInv, TypeOK, Descriptor, During
    <2>4. ModeOf(NormalizeTimeout(args[c].timeout)) = Asked(c)
      BY <2>3, ModeIsAsked
    <2>5. Asked(c) \in {"timed", "blocking"} /\ done \in BOOLEAN
      BY <2>3 DEF Asked, Arguments
    <2>6. /\ sock' = [sock EXCEPT ![c] = sock'[c]] /\ sock'[c] \in Sockets
          /\ sock'[c].open /\ sock'[c].mode = Asked(c) /\ sock'[c].stage = "new"
      BY <2>1, <2>3, <2>4, <2>5 DEF IInv, TypeOK, Sockets
    <2>7. TypeOK'
      BY <2>2, <2>3, <2>6 DEF IInv, TypeOK, Goto
    <2>8. Touches(c)
      BY <2>2, <2>6 DEF IInv, TypeOK, Touches, Goto
    <2>9. Descriptor(c)' /\ Prepared(c)'
      BY <2>2, <2>3, <2>6 DEF IInv, TypeOK, Descriptor, Prepared, Serves, Asked, Before, During, Goto, Arguments
    <2>10. QED
      BY <2>2, <2>6, <2>7, <2>8, <2>9, LocalStep DEF Listening
  <1>3. QED
    BY <1>1, <1>2

LEMMA BindStep ==
  ASSUME IInv, NEW c \in Callers, Bind(c)
  PROVE  IInv'
  <1>1. CASE Escape(c)
    BY <1>1, EscapeStep DEF Bind
  <1>2. CASE Fail(c)
    BY <1>2, FailStep
  <1>3. CASE ~Escape(c) /\ ~Fail(c)
    <2>0. PICK p \in IF args[c].port = AnyPort THEN Ports ELSE {args[c].port} :
            at' = [at EXCEPT ![c].port = p]
      BY <1>3 DEF Bind
    <2>1. /\ pc[c] = "bind" /\ pc' = [pc EXCEPT ![c] = "listen"]
          /\ sock' = [sock EXCEPT ![c].stage = "bound"]
          /\ UNCHANGED <<args, result>>
      BY <1>3 DEF Bind, Reach, Goto
    <2>2. sock[c] \in Sockets /\ sock[c].open /\ sock[c].mode = Asked(c) /\ result[c] = "none"
      BY <2>1 DEF IInv, TypeOK, Descriptor, Prepared, Serves, During
    <2>3. TypeOK'
      <3>1. p \in Ports \cup {AnyPort, BadPort}
        <4>1. args[c] \in Arguments
          BY DEF IInv, TypeOK
        <4>2. args[c].port \in Ports \cup {AnyPort, BadPort}
          BY <4>1 DEF Arguments
        <4>3. QED
          BY <4>2
      <3>2. at' \in [Callers -> [ip : Addresses \cup {""}, port : Ports \cup {AnyPort, BadPort}]]
        BY <2>0, <3>1 DEF IInv, TypeOK
      <3>3. sock' \in [Callers -> Sockets]
        BY <2>1, <2>2 DEF IInv, TypeOK, Sockets
      <3>4. QED
        BY <2>1, <2>2, <3>2, <3>3 DEF IInv, TypeOK
    <2>4. Touches(c)
      BY <2>0, <2>1 DEF IInv, TypeOK, Touches
    <2>5. Descriptor(c)' /\ Prepared(c)' /\ ~Listening(c)'
      <3>0. at'[c].port = p
        BY <2>0 DEF IInv, TypeOK
      <3>1. /\ pc'[c] = "listen" /\ result'[c] = "none" /\ sock'[c].stage = "bound"
            /\ sock'[c].open /\ sock'[c].mode = Asked(c)' /\ at'[c].port = p
        BY <3>0, <2>1, <2>2 DEF IInv, TypeOK, Sockets, Asked
      <3>2. args'[c].port \in {AnyPort, p}
        BY <2>0, <2>1
      <3>3. QED
        BY <3>1, <3>2 DEF Descriptor, Prepared, Serves, Listening, Before, During
    <2>6. QED
      BY <2>3, <2>4, <2>5, LocalStep
  <1>4. QED
    BY <1>1, <1>2, <1>3

LEMMA ListenStep ==
  ASSUME IInv, NEW c \in Callers, Listen(c)
  PROVE  IInv'
  <1>1. CASE Fail(c)
    BY <1>1, FailStep
  <1>2. CASE ~Fail(c)
    <2>1. /\ pc[c] = "listen" /\ pc' = [pc EXCEPT ![c] = "done"]
          /\ sock' = [sock EXCEPT ![c].stage = "listening"]
          /\ result' = [result EXCEPT ![c] = "sock"] /\ UNCHANGED <<args, at>>
          /\ \A d \in Rivals(c) : ~Listening(d)
      BY <1>2 DEF Listen, Reach, Goto, Finish, Listening
    <2>2. sock[c] \in Sockets /\ sock[c].open /\ sock[c].mode = Asked(c)
      BY <2>1 DEF IInv, TypeOK, Descriptor, Prepared, Serves, During
    <2>3. TypeOK'
      BY <2>1, <2>2 DEF IInv, TypeOK, Sockets
    <2>4. Touches(c)
      BY <2>1 DEF IInv, TypeOK, Touches
    <2>5. Descriptor(c)' /\ Prepared(c)'
      <3>1. /\ pc'[c] = "done" /\ result'[c] = "sock" /\ sock'[c].stage = "listening"
            /\ sock'[c].open /\ sock'[c].mode = Asked(c)'
            /\ args'[c].port \in {AnyPort, at'[c].port}
        BY <2>1, <2>2 DEF IInv, TypeOK, Sockets, Prepared, Asked
      <3>2. QED
        BY <3>1 DEF Descriptor, Prepared, Serves, Before, During
    <2>6. QED
      BY <2>1, <2>3, <2>4, <2>5, LocalStep
  <1>3. QED
    BY <1>1, <1>2

LEMMA ConnectStep ==
  ASSUME IInv, NEW c \in Callers, Connect(c) \/ ConnectTimeout(c)
  PROVE  IInv'
  <1>0. pc[c] = "connect"
    BY DEF Connect, ConnectTimeout
  <1>1. CASE Escape(c)
    BY <1>0, <1>1, EscapeStep
  <1>2. CASE Fail(c)
    BY <1>2, FailStep
  <1>3. CASE ~Escape(c) /\ ~Fail(c)
    <2>1. /\ pc' = [pc EXCEPT ![c] = "done"]
          /\ sock' = [sock EXCEPT ![c].stage = "connected"]
          /\ result' = [result EXCEPT ![c] = "sock"] /\ UNCHANGED <<args, at>>
      BY <1>3 DEF Connect, ConnectTimeout, Reach, Goto, Finish
    <2>2. /\ sock[c] \in Sockets /\ sock[c].open /\ sock[c].mode = Asked(c)
          /\ args[c].kind = "client"
      BY <1>0 DEF IInv, TypeOK, Descriptor, Prepared, Serves, During
    <2>3. TypeOK'
      BY <1>0, <2>1, <2>2 DEF IInv, TypeOK, Sockets
    <2>4. Touches(c)
      BY <2>1 DEF IInv, TypeOK, Touches
    <2>5. Descriptor(c)'
      BY <2>1, <2>2 DEF IInv, TypeOK, Sockets, Descriptor, Before, During
    <2>6. Prepared(c)'
      BY <2>1, <2>2 DEF IInv, TypeOK, Sockets, Prepared, Serves, Asked, Before, During
    <2>7. ~Listening(c)'
      BY <2>1, <2>2 DEF IInv, TypeOK, Sockets, Listening
    <2>8. QED
      BY <2>3, <2>4, <2>5, <2>6, <2>7, LocalStep
  <1>4. QED
    BY <1>1, <1>2, <1>3

LEMMA DropStep ==
  ASSUME IInv, NEW c \in Callers, Drop(c)
  PROVE  IInv'
  <1>1. /\ pc' = [pc EXCEPT ![c] = "idle"] /\ sock' = [sock EXCEPT ![c] = Closed]
        /\ result' = [result EXCEPT ![c] = "none"] /\ UNCHANGED <<args, at>>
    BY DEF Drop, Goto
  <1>2. TypeOK'
    BY <1>1 DEF IInv, TypeOK, Closed, Socket, Sockets
  <1>3. Touches(c)
    BY <1>1 DEF IInv, TypeOK, Touches
  <1>4. Descriptor(c)' /\ Prepared(c)' /\ ~Listening(c)'
    BY <1>1 DEF IInv, TypeOK, Descriptor, Prepared, Serves, Listening, Before, During, Closed, Socket
  <1>5. QED
    BY <1>2, <1>3, <1>4, LocalStep

-----------------------------------------------------------------------------

\* The invariant holds at first, and every step keeps it.
THEOREM Inductive == Spec => []IInv
  <1>1. Init => IInv
    <2> SUFFICES ASSUME Init
                 PROVE  IInv
      OBVIOUS
    <2>1. TypeOK
      BY CreationAssumption DEF Init, TypeOK, Closed, Socket, Sockets
    <2>2. ASSUME NEW c \in Callers
          PROVE  Descriptor(c) /\ Prepared(c) /\ ~Listening(c)
      BY DEF Init, Descriptor, Prepared, Serves, Listening, Before, During, Closed, Socket
    <2>3. QED
      BY <2>1, <2>2 DEF IInv, Exclusive
  <1>2. IInv /\ [Next]_vars => IInv'
    <2> SUFFICES ASSUME IInv, [Next]_vars
                 PROVE  IInv'
      OBVIOUS
    <2>1. CASE UNCHANGED vars
      BY <2>1 DEF vars, IInv, TypeOK, Descriptor, Prepared, Serves, Asked, Exclusive, Listening, Clash
    <2>2. ASSUME NEW c \in Callers, Begin(c) \/ Step(c) \/ Connect(c) \/ Drop(c)
          PROVE  IInv'
      BY <2>2, BeginStep, ResolveStep, OpenStep, SetupStep, BindStep, ListenStep, ConnectStep,
         DropStep DEF Step
    <2>3. QED
      BY <2>1, <2>2 DEF Next
  <1>3. QED
    BY <1>1, <1>2, PTL DEF Spec

\* The sorts of the variables, for any number of callers.
THEOREM TypeCorrect == Spec => []TypeOK
  <1>1. IInv => TypeOK
    BY DEF IInv
  <1>2. QED
    BY <1>1, Inductive, PTL

\* Whichever step of create_server_sock or create_client_sock fails, a SocketError
\* leaves no descriptor open.
THEOREM NoDescriptorLeft == Spec => []FailedIsClosed
  <1>1. IInv => FailedIsClosed
    BY DEF IInv, FailedIsClosed, Descriptor, Before
  <1>2. QED
    BY <1>1, Inductive, PTL

\* A socket that is returned waits as long as was asked, and is never non-blocking,
\* for every number of seconds, zero and negative ones included.
THEOREM ModeAsAsked == Spec => []AsAsked
  <1>1. IInv => AsAsked
    BY DEF IInv, AsAsked, Descriptor, Prepared, Serves, Asked
  <1>2. QED
    BY <1>1, Inductive, PTL

\* However many callers race for a port other than 0 on overlapping addresses,
\* with SO_REUSEADDR or without, at most one of them holds a server at any time.
THEOREM OneServerOnly == Spec => []OneServer
  <1>1. IInv => OneServer
    BY DEF IInv, OneServer, Prepared, Serves, Exclusive, Listening
  <1>2. QED
    BY <1>1, Inductive, PTL
=============================================================================
