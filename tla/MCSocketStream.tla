--------------------------- MODULE MCSocketStream ---------------------------
(* Instances of SocketStream for TLC.  A thread is named by its end and by *)
(* what it does there.                                                     *)
EXTENDS SocketStream

Thread(end, roles) == [end |-> end, roles |-> roles]

EndOfThread == [t \in Threads |-> t.end]
RolesOfThread == [t \in Threads |-> t.roles]

\* A sender with a thread beside it that closes, and a receiver.
Beside == {Thread("client", {"send"}), Thread("client", {"close"}),
           Thread("server", {"receive", "close"})}

\* A thread at each end that sends and receives, and one that closes.
Dialogue == {Thread(e, Transfers) : e \in Ends} \cup {Thread("server", {"close"})}

\* The same, where the last one also assigns timeouts.
Adjusted == {Thread(e, Transfers) : e \in Ends} \cup {Thread("server", {"close", "timeout"})}

AllModes == {"blocking", "timed", "nonblocking"}
Timed == {"timed"}
\* A blocking socket does what a timed one does before its timeout.
TimedOrNot == {"timed", "nonblocking"}

NoTimeouts == {}
SomeTimeouts == {-1, 0, 5}

NoSizes == {}
\* Of a buffer of three bytes: below none, none, a part, more than there is.
ManySizes == {-1, 0, 2, 4}
LengthTwo == {2}
LengthThree == {3}
=============================================================================
