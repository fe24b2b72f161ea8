---------------------------- MODULE SocketStream ----------------------------
(***************************************************************************)
(* network/socket.py: socket_send, socket_receive and the wrapper Socket,  *)
(* at the two ends of a connection.                                        *)
(*                                                                         *)
(* Every step of a thread is one call of the operating system and what the *)
(* loop does with its answer: a chunk sent or received, EAGAIN and the     *)
(* select after it, a timeout, an end of stream, an error.  Other threads  *)
(* of both ends act between two of them.                                   *)
(*                                                                         *)
(* The connection is external: in each direction the bytes in the order in *)
(* which they were accepted, at most Capacity of them not yet received.    *)
(***************************************************************************)
EXTENDS Integers, Sequences, FiniteSetsExt

CONSTANTS
  Threads,
  EndOf,      \* EndOf[t]: the end whose Socket the thread t uses
  Roles,      \* Roles[t]: the methods t calls
  Lengths,    \* the lengths of the buffers given to a call
  Sizes,      \* the values of the argument `size', beside None
  Timeouts,   \* the values assigned to Socket.timeout, beside None
  Modes,      \* the modes of a socket when it is given to Socket
  Capacity,   \* the bytes the connection holds in a direction
  RECEIVE_BUFFER_SIZE,
  High,       \* the ends whose descriptor is FD_SETSIZE or more
  Breaks,     \* whether the network may lose the connection
  MaxCalls    \* bound: how often an end sends, and how often it receives

Ends == {"client", "server"}
Peer(e) == IF e = "client" THEN "server" ELSE "client"

Transfers == {"send", "receive"}
Methods == Transfers \cup {"close", "timeout"}

ASSUME RolesAssumption ==
  /\ EndOf \in [Threads -> Ends]
  /\ Roles \in [Threads -> SUBSET Methods]

\* The code takes no lock: callers let one thread send at an end, and one
\* receive.
ASSUME SingleAssumption ==
  \A t, u \in Threads :
    EndOf[t] = EndOf[u] /\ Roles[t] \cap Roles[u] \cap Transfers # {} => t = u

ASSUME SizesAssumption ==
  /\ Lengths \subseteq Nat /\ Sizes \subseteq Int /\ Timeouts \subseteq Int
  /\ Modes \subseteq {"blocking", "timed", "nonblocking"}
  /\ Capacity \in Nat \ {0} /\ RECEIVE_BUFFER_SIZE \in Nat \ {0}
  /\ MaxCalls \in Nat /\ Breaks \in BOOLEAN /\ High \subseteq Ends

\* A byte: the send of its end that carries it, and its place in the buffer.
Bytes == [call : Nat, at : Nat]
Blank == [call |-> 0, at |-> 0]

Errors == {"range", "timeout", "disconnected", "escaped"}
PCs == {"idle", "loop", "wait", "again", "select", "closing"}

VARIABLES
  stream,    \* stream[e]: the bytes accepted from the end e, in order
  taken,     \* taken[e]: how many bytes the end e has received
  shut,      \* shut[e]: the end e has shut the connection down
  closed,    \* closed[e]: its descriptor is closed
  broken,    \* "reset", or "lost" by the network, or "no"
  mode,      \* mode[e]: what the last settimeout made of the socket
  keep_open, \* keep_open[e]: the attribute of the Socket of e
  pc,        \* pc[t]: what t does next, "loop" in a loop of send or receive
  op,        \* op[t]: the last transfer of t, "none" before the first
  size, pos, \* the local variables of that transfer
  buffer,    \* its buffer
  result,    \* how it ended, "none" while it runs
  origin,    \* history: the place in the stream where it began
  calls,     \* history: calls[e][m]: the transfers m that e has begun
  failed     \* history: failed[e]: a transfer of the direction from e raised

kernel == <<stream, taken, shut, closed, broken, mode>>
local == <<op, size, pos, buffer, origin, calls>>
vars == <<kernel, keep_open, local, pc, result, failed>>

-----------------------------------------------------------------------------
(* The connection (external).                                              *)

Unread(e) == Len(stream[Peer(e)]) - taken[e]
Room(e) == Capacity - Unread(Peer(e))

\* The end e reads the end of the stream: nothing is left, and one of the
\* ends was shut down.
AtEnd(e) == Unread(e) = 0 /\ (shut[e] \/ shut[Peer(e)])

\* An error answers e, or the end of the stream does.
Gone(e, m) ==
  \/ closed[e] \/ broken # "no"
  \/ m = "send" /\ shut[e]
  \/ m = "receive" /\ AtEnd(e)

\* What ends a wait in the kernel.  A descriptor that another thread closes
\* does not.
Awake(e, m) ==
  \/ broken # "no"
  \/ m = "send" /\ (shut[e] \/ Room(e) > 0)
  \/ m = "receive" /\ (Unread(e) > 0 \/ AtEnd(e))

\* A send or recv_into is answered at once.
Ready(e, m) == closed[e] \/ Awake(e, m)

\* settimeout: an optional value is a set with at most one element.
SetMode(timeout) ==
  IF timeout = {} THEN "blocking"
  ELSE IF timeout = {0} THEN "nonblocking" ELSE "timed"

Optional(S) == {{}} \cup {{x} : x \in S}

-----------------------------------------------------------------------------
(* The code.                                                               *)

\* Slip (OnlySocketErrors): 0 let through.
NormalizeTimeoutSlip(timeout) == {x \in timeout : x >= 0}
\* _normalize_timeout
NormalizeTimeout(timeout) == {x \in timeout : x > 0}

\* Slip (TypeOK): a size below 0 let through.
GetBufferSizeSlip(length, arg) ==
  IF arg = {} THEN {length} ELSE {n \in arg : n <= length}

\* _get_buffer_size: the accepted size, none when it raises.
GetBufferSize(length, arg) == IF arg = {} THEN {length} ELSE arg \cap 0..length

\* The source of a transfer: the end whose bytes it moves.
Source(t) == IF op[t] = "send" THEN EndOf[t] ELSE Peer(EndOf[t])

NewBuffer(e, m, length) ==
  [i \in 1..length |-> IF m = "send" THEN [call |-> calls[e]["send"] + 1, at |-> i]
                       ELSE Blank]

\* The transfer m of n bytes begins; one of no byte is over at once.
Enter(t, m, length, n) ==
  LET e == EndOf[t] IN
  /\ op' = [op EXCEPT ![t] = m]
  /\ size' = [size EXCEPT ![t] = n]
  /\ pos' = [pos EXCEPT ![t] = 0]
  /\ buffer' = [buffer EXCEPT ![t] = NewBuffer(e, m, length)]
  /\ origin' = [origin EXCEPT ![t] = IF m = "send" THEN Len(stream[e]) ELSE taken[e]]
  /\ calls' = [calls EXCEPT ![e][m] = @ + 1]
  /\ pc' = [pc EXCEPT ![t] = IF n = 0 THEN "idle" ELSE "loop"]
  /\ result' = [result EXCEPT ![t] = IF n = 0 THEN "ok" ELSE "none"]

\* A SocketError before anything is moved.
Refuse(t) ==
  /\ result' = [result EXCEPT ![t] = "range"]
  /\ UNCHANGED <<pc, local>>

\* socket_send, socket_receive up to the first turn of the loop.
Begin(t) ==
  /\ pc[t] = "idle"
  /\ \E m \in Roles[t] \cap Transfers, length \in Lengths, arg \in Optional(Sizes) :
       /\ calls[EndOf[t]][m] < MaxCalls
       /\ \/ GetBufferSize(length, arg) = {} /\ Refuse(t)
          \/ \E n \in GetBufferSize(length, arg) : Enter(t, m, length, n)
  /\ UNCHANGED <<kernel, keep_open, failed>>

\* Slip (ImplementsMessageChannel): a short answer taken for the whole message.
AdvanceSlip(t, n) ==
  /\ pos' = [pos EXCEPT ![t] = @ + n]
  /\ pc' = [pc EXCEPT ![t] = "idle"]
  /\ result' = [result EXCEPT ![t] = "ok"]
  /\ UNCHANGED <<op, size, origin, calls, failed, keep_open>>

\* pos += n, and the loop ends when all is done.
Advance(t, n) ==
  /\ pos' = [pos EXCEPT ![t] = @ + n]
  /\ pc' = [pc EXCEPT ![t] = IF pos[t] + n = size[t] THEN "idle" ELSE "loop"]
  /\ result' = [result EXCEPT ![t] = IF pos[t] + n = size[t] THEN "ok" ELSE "none"]
  /\ UNCHANGED <<op, size, origin, calls, failed, keep_open>>

\* The bytes s followed by n bytes of b, those after the place from.
Extend(s, b, from, n) == s \o SubSeq(b, from + 1, from + n)

\* sock.send(view[pos:size])
SendChunk(t) ==
  LET e == EndOf[t] IN
  /\ pc[t] = "loop" /\ op[t] = "send" /\ ~Gone(e, "send")
  /\ \E n \in 1..(size[t] - pos[t]) :
       /\ n <= Room(e)
       /\ stream' = [stream EXCEPT ![e] = Extend(@, buffer[t], pos[t], n)]
       /\ Advance(t, n)
  /\ UNCHANGED <<taken, shut, closed, broken, mode, buffer>>

\* Slip (Contiguous): view for view[pos:].
StoreSlip(b, at, n, s, from) ==
  [i \in DOMAIN b |-> IF i \in 1..n THEN s[from + i] ELSE b[i]]

\* The buffer b with n bytes of s, those after the place from, at its place at.
Store(b, at, n, s, from) ==
  [i \in DOMAIN b |-> IF i \in (at + 1)..(at + n) THEN s[from + i - at] ELSE b[i]]

\* Slip (IInv): as much as the buffer can hold.
WantedSlip(t) == Min({Len(buffer[t]) - pos[t], RECEIVE_BUFFER_SIZE})

\* How much a receive asks for: min(size - pos, _RECEIVE_BUFFER_SIZE).
Wanted(t) == Min({size[t] - pos[t], RECEIVE_BUFFER_SIZE})

\* sock.recv_into(view[pos:], ...)
ReceiveChunk(t) ==
  LET e == EndOf[t] IN
  /\ pc[t] = "loop" /\ op[t] = "receive" /\ ~closed[e] /\ broken = "no"
  /\ \E n \in 1..Wanted(t) :
       /\ n <= Unread(e)
       /\ buffer' = [buffer EXCEPT ![t] = Store(@, pos[t], n, stream[Peer(e)], taken[e])]
       /\ taken' = [taken EXCEPT ![e] = @ + n]
       /\ Advance(t, n)
  /\ UNCHANGED <<stream, shut, closed, broken, mode>>

\* An exception leaves the transfer.
Raise(t, error) ==
  /\ pc' = [pc EXCEPT ![t] = "idle"]
  /\ result' = [result EXCEPT ![t] = error]
  /\ failed' = [failed EXCEPT ![Source(t)] = TRUE]
  /\ UNCHANGED <<kernel, keep_open, local>>

Goto(t, label) ==
  /\ pc' = [pc EXCEPT ![t] = label]
  /\ UNCHANGED <<kernel, keep_open, local, result, failed>>

\* Another OSError, or no byte: SocketDisconnectedError.
Disconnect(t) ==
  /\ pc[t] = "loop" /\ Gone(EndOf[t], op[t])
  /\ Raise(t, "disconnected")

\* The thread waits in sock.send or sock.recv_into, ...
Wait(t) ==
  /\ pc[t] = "loop" /\ mode[EndOf[t]] # "nonblocking" /\ ~Ready(EndOf[t], op[t])
  /\ Goto(t, "wait")

\* Slip (TransfersEnd): the timeout taken for a reason to try again.
TimeoutSlip(t) ==
  /\ pc[t] = "wait" /\ mode[EndOf[t]] = "timed" /\ ~Awake(EndOf[t], op[t])
  /\ Goto(t, "loop")

\* ... until the timeout.  A lost connection may answer ETIMEDOUT, to Python a
\* TimeoutError as well, whatever the mode.
Timeout(t) ==
  /\ \/ pc[t] = "wait" /\ mode[EndOf[t]] = "timed" /\ ~Awake(EndOf[t], op[t])
     \/ pc[t] = "loop" /\ broken = "lost" /\ ~closed[EndOf[t]]
  /\ Raise(t, "timeout")

\* Slip (ErrorsHaveCause): EAGAIN not told from another OSError.
AgainSlip(t) ==
  /\ pc[t] = "loop" /\ mode[EndOf[t]] = "nonblocking" /\ ~Ready(EndOf[t], op[t])
  /\ Raise(t, "disconnected")

\* EAGAIN: the handler is about to call select.
Again(t) ==
  /\ pc[t] = "loop" /\ mode[EndOf[t]] = "nonblocking" /\ ~Ready(EndOf[t], op[t])
  /\ Goto(t, "again")

\* select.select: what it raises for a descriptor that another thread has
\* closed, or that is FD_SETSIZE or more, is no SocketError, and nothing in the
\* handler turns it into one.
Select(t) ==
  /\ pc[t] = "again"
  /\ IF closed[EndOf[t]] \/ EndOf[t] \in High THEN Raise(t, "escaped")
                                               ELSE Goto(t, "select")

\* Slip (Framed): the transfer begun anew after a wait.
WakeSlip(t) ==
  /\ pc[t] \in {"wait", "select"} /\ Awake(EndOf[t], op[t])
  /\ pc' = [pc EXCEPT ![t] = "loop"]
  /\ pos' = [pos EXCEPT ![t] = 0]
  /\ UNCHANGED <<kernel, keep_open, op, size, buffer, origin, calls, result, failed>>

\* The wait or the select is over.
Wake(t) ==
  /\ pc[t] \in {"wait", "select"} /\ Awake(EndOf[t], op[t])
  /\ Goto(t, "loop")

\* Slip (CloseWakes): the descriptor closed without a shutdown.
CloseSlip(t) ==
  /\ pc[t] = "idle" /\ "close" \in Roles[t] /\ ~keep_open[EndOf[t]]
  /\ pc' = [pc EXCEPT ![t] = "closing"]
  /\ UNCHANGED <<kernel, keep_open, local, result, failed>>

\* Socket.close, __exit__, __del__: the shutdown, ...
Close(t) ==
  /\ pc[t] = "idle" /\ "close" \in Roles[t] /\ ~keep_open[EndOf[t]]
  /\ shut' = [shut EXCEPT ![EndOf[t]] = TRUE]
  /\ pc' = [pc EXCEPT ![t] = "closing"]
  /\ UNCHANGED <<stream, taken, closed, broken, mode, keep_open, local, result, failed>>

\* ... then the descriptor.
CloseDescriptor(t) ==
  /\ pc[t] = "closing"
  /\ closed' = [closed EXCEPT ![EndOf[t]] = TRUE]
  /\ pc' = [pc EXCEPT ![t] = "idle"]
  /\ UNCHANGED <<stream, taken, shut, broken, mode, keep_open, local, result, failed>>

\* Socket.timeout = value, between two transfers of the end.
AssignTimeout(t) ==
  /\ pc[t] = "idle" /\ "timeout" \in Roles[t] /\ ~closed[EndOf[t]]
  /\ \A u \in Threads : EndOf[u] = EndOf[t] => pc[u] \in {"idle", "closing"}
  /\ \E value \in Optional(Timeouts) :
       mode' = [mode EXCEPT ![EndOf[t]] = SetMode(NormalizeTimeout(value))]
  /\ UNCHANGED <<stream, taken, shut, closed, broken, keep_open, local, pc, result, failed>>

\* An end closed before it received all that was sent to it, which resets
\* the connection (external).
Reset ==
  /\ broken = "no" /\ \E e \in Ends : closed[e] /\ Unread(e) > 0
  /\ broken' = "reset"
  /\ UNCHANGED <<stream, taken, shut, closed, mode, keep_open, local, pc, result, failed>>

\* The network loses the connection, which the kernel finds out by its timers
\* (external).
Lose ==
  /\ broken = "no" /\ Breaks
  /\ broken' = "lost"
  /\ UNCHANGED <<stream, taken, shut, closed, mode, keep_open, local, pc, result, failed>>

Init ==
  /\ stream = [e \in Ends |-> <<>>]
  /\ taken = [e \in Ends |-> 0]
  /\ shut = [e \in Ends |-> FALSE]
  /\ closed = [e \in Ends |-> FALSE]
  /\ broken = "no"
  /\ mode \in [Ends -> Modes]
  /\ keep_open \in [Ends -> BOOLEAN]
  /\ pc = [t \in Threads |-> "idle"]
  /\ op = [t \in Threads |-> "none"]
  /\ size = [t \in Threads |-> 0]
  /\ pos = [t \in Threads |-> 0]
  /\ buffer = [t \in Threads |-> <<>>]
  /\ result = [t \in Threads |-> "none"]
  /\ origin = [t \in Threads |-> 0]
  /\ calls = [e \in Ends |-> [m \in Transfers |-> 0]]
  /\ failed = [e \in Ends |-> FALSE]

\* What a call that has begun does next.
Step(t) ==
  \/ SendChunk(t) \/ ReceiveChunk(t) \/ Disconnect(t) \/ Wait(t) \/ Timeout(t)
  \/ Again(t) \/ Select(t) \/ Wake(t) \/ CloseDescriptor(t)

Next ==
  \/ \E t \in Threads : Begin(t) \/ Close(t) \/ AssignTimeout(t) \/ Step(t)
  \/ Reset \/ Lose

Spec == Init /\ [][Next]_vars

\* A thread goes on when the kernel answers it, and a reset arrives.
FairSpec == Spec /\ WF_vars(Reset) /\ \A t \in Threads : WF_vars(Step(t))

-----------------------------------------------------------------------------
(* Properties.                                                             *)

Transferring(t) == pc[t] \in {"loop", "wait", "again", "select"}

TypeOK ==
  /\ stream \in [Ends -> Seq(Bytes)]
  /\ taken \in [Ends -> Nat] /\ \A e \in Ends : Unread(e) \in 0..Capacity
  /\ shut \in [Ends -> BOOLEAN] /\ closed \in [Ends -> BOOLEAN]
  /\ broken \in {"no", "reset", "lost"}
  /\ mode \in [Ends -> {"blocking", "timed", "nonblocking"}]
  /\ keep_open \in [Ends -> BOOLEAN]
  /\ pc \in [Threads -> PCs]
  /\ op \in [Threads -> Transfers \cup {"none"}]
  /\ size \in [Threads -> Nat] /\ pos \in [Threads -> Nat]
  /\ buffer \in [Threads -> Seq(Bytes)]
  /\ result \in [Threads -> {"none", "ok"} \cup Errors]
  /\ origin \in [Threads -> Nat]
  /\ calls \in [Ends -> [Transfers -> Nat]]
  /\ failed \in [Ends -> BOOLEAN]

\* Whatever the chunks, waits, errors and other threads: the first pos bytes
\* of the buffer of a transfer are those of the connection from the place
\* where the transfer began, none left out, repeated or swapped, and a receive
\* has not touched the rest of its buffer.
Moved(t) ==
  /\ pos[t] <= size[t] /\ size[t] <= Len(buffer[t])
  /\ origin[t] + pos[t] <= Len(stream[Source(t)])
  /\ \A i \in 1..pos[t] : buffer[t][i] = stream[Source(t)][origin[t] + i]
  /\ op[t] = "receive" =>
       \A i \in DOMAIN buffer[t] : i > pos[t] => buffer[t][i] = Blank

\* A transfer that returns has moved all that was asked for, and one that
\* raises has not: a caller that sends the message again never repeats a whole
\* one, and one that is told of success need not look at the connection.
Told(t) ==
  /\ result[t] = "ok" => pos[t] = size[t]
  /\ result[t] \in Errors \ {"range"} => pos[t] < size[t]

Contiguous == \A t \in Threads : Moved(t) /\ Told(t)

\* In a transfer, the thread is where the connection is: nothing came between
\* its chunks.
InStep(t) ==
  Transferring(t) =>
    /\ op[t] \in Roles[t] \cap Transfers /\ pos[t] < size[t] /\ result[t] = "none"
    /\ origin[t] + pos[t] = IF op[t] = "send" THEN Len(stream[EndOf[t]])
                            ELSE taken[EndOf[t]]

\* The inductive invariant behind Contiguous.
IInv == TypeOK /\ Contiguous /\ \A t \in Threads : InStep(t)

\* Messages of one size: as long as no transfer of a direction raised, the
\* n-th receive returns the n-th message, though the connection has no
\* boundaries and the chunks ignore them.
Framed ==
  \A t \in Threads :
    op[t] = "receive" /\ result[t] = "ok" /\ ~failed[Source(t)] =>
      \A i \in 1..size[t] :
        buffer[t][i] = [call |-> calls[EndOf[t]]["receive"], at |-> i]

\* A thread of the end e assigns timeouts: the mode may have been another one.
Adjusts(e) == \E u \in Threads : EndOf[u] = e /\ "timeout" \in Roles[u]

\* A transfer raises for a reason: a disconnection only once an end was shut
\* down or the connection is broken; a timeout only where one is or was set, or
\* when the network lost the connection, and never for a reset; an error that is
\* no SocketError only where the socket is or was non-blocking, and was closed
\* under the transfer or has a descriptor select does not take.
ErrorsHaveCause ==
  \A t \in Threads :
    /\ result[t] = "disconnected" => broken # "no" \/ \E e \in Ends : shut[e]
    /\ result[t] = "timeout" =>
         broken = "lost" \/ mode[EndOf[t]] = "timed" \/ Adjusts(EndOf[t])
    /\ result[t] = "escaped" =>
         /\ mode[EndOf[t]] = "nonblocking" \/ Adjusts(EndOf[t])
         /\ closed[EndOf[t]] \/ EndOf[t] \in High

\* On sockets that were not handed over non-blocking, every exception of a
\* transfer is a SocketError, whatever is assigned to Socket.timeout and
\* whoever closes.
OnlySocketErrors == \A t \in Threads : result[t] # "escaped"

\* A close wakes whoever waits, at both ends.
CloseWakes ==
  \A t \in Threads :
    (\E e \in Ends : closed[e]) /\ pc[t] # "idle" ~> pc[t] = "idle"

\* With a timeout every transfer ends, whatever the peer does or does not do.
TransfersEnd ==
  \A t \in Threads : mode[EndOf[t]] = "timed" /\ pc[t] # "idle" ~> pc[t] = "idle"

-----------------------------------------------------------------------------
(* Refinement, for messages of one size: a transfer that runs is not seen. *)

\* How many of the transfers m that the end e has begun are over.
Completed(e, m) ==
  LET running == \E t \in Threads : EndOf[t] = e /\ op[t] = m /\ Transferring(t) IN
  IF running THEN calls[e][m] - 1 ELSE calls[e][m]

\* What the receive that returned last at the end e put into its buffer.
Held(e) ==
  {buffer[t] : t \in {u \in Threads : EndOf[u] = e /\ op[u] = "receive" /\ result[u] = "ok"}}

Channel ==
  INSTANCE MessageChannel WITH
    Length <- CHOOSE n \in Lengths : TRUE,
    sent <- [d \in Ends |-> IF failed[d] THEN 0 ELSE Completed(d, "send")],
    received <- [d \in Ends |-> IF failed[d] THEN 0 ELSE Completed(Peer(d), "receive")],
    inbox <- [d \in Ends |-> IF failed[d] THEN {} ELSE Held(Peer(d))],
    lost <- failed

\* The two ends implement MessageChannel: in each direction, until a transfer
\* of it raises, what a receive returns is the next message whose send returned,
\* whole, whatever chunks, waits, timeouts and closes there were.
ImplementsMessageChannel == Channel!MSpec
=============================================================================
