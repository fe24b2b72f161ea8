--------------------------- MODULE MessageChannel ---------------------------
(***************************************************************************)
(* What two peers that exchange messages of one size may rely on, without  *)
(* chunks, waits and timeouts: each direction is a queue of whole          *)
(* messages.  A message is there from the moment its send returned, is     *)
(* received once, in its turn, and a part of one is never seen.            *)
(*                                                                         *)
(* Once a transfer of a direction raised, the direction is lost: nothing   *)
(* is promised of it any more, for no receiver can tell where the next     *)
(* message begins.                                                         *)
(***************************************************************************)
EXTENDS Naturals

CONSTANTS Ends,    \* a direction is named by the end that sends in it
          Length   \* the bytes of a message

VARIABLES sent,      \* how many messages were sent in each direction
          received,  \* how many of them were received
          inbox,     \* the message that the receiver was handed last, if it has one
          lost       \* the directions that were lost

mvars == <<sent, received, inbox, lost>>

\* The k-th message of a direction, byte by byte.
Message(k) == [i \in 1..Length |-> [call |-> k, at |-> i]]

MInit ==
  /\ sent = [d \in Ends |-> 0]
  /\ received = [d \in Ends |-> 0]
  /\ inbox = [d \in Ends |-> {}]
  /\ lost = [d \in Ends |-> FALSE]

Send(d) ==
  /\ ~lost[d]
  /\ sent' = [sent EXCEPT ![d] = @ + 1]
  /\ UNCHANGED <<received, inbox, lost>>

Receive(d) ==
  /\ ~lost[d] /\ received[d] < sent[d]
  /\ received' = [received EXCEPT ![d] = @ + 1]
  /\ inbox' = [inbox EXCEPT ![d] = {Message(received[d] + 1)}]
  /\ UNCHANGED <<sent, lost>>

\* The receiver turns to another message, or to a send of its own.
Turn(d) ==
  /\ inbox' = [inbox EXCEPT ![d] = {}]
  /\ UNCHANGED <<sent, received, lost>>

Lose(d) ==
  /\ lost' = [lost EXCEPT ![d] = TRUE]
  /\ sent' = [sent EXCEPT ![d] = 0]
  /\ received' = [received EXCEPT ![d] = 0]
  /\ inbox' = [inbox EXCEPT ![d] = {}]

MNext == \E d \in Ends : Send(d) \/ Receive(d) \/ Turn(d) \/ Lose(d)

MSpec == MInit /\ [][MNext]_mvars
=============================================================================
