----------------------------- MODULE PortAccess -----------------------------
(***************************************************************************)
(* What the firewall component promises, without chains, commands or exit  *)
(* codes: how many copies of each access rule admit traffic now, how many  *)
(* will after the next boot, and callers that ask for one rule to be       *)
(* opened or closed.                                                       *)
(*                                                                         *)
(* A call changes what is in effect at most once, by one copy of the rule  *)
(* it was asked for.  It answers "ok" only when it made that change and    *)
(* has saved what was in effect afterwards, or when it found the rule to   *)
(* be already as asked; what is in the file was in effect during the call  *)
(* that saved it.  Whoever reads an "ok" may rely on no more: races leave  *)
(* several copies of a rule, of which a close removes one, and a call that *)
(* finds the rule as asked saves nothing.                                  *)
(***************************************************************************)
EXTENDS Naturals

CONSTANTS Procs,      \* the callers
          Accesses,   \* the access rules a caller may open or close
          Mistakes    \* a lookup may fail to find a rule that is there

VARIABLES effective,  \* the copies of each rule that admit traffic now
          durable,    \* the copies of each rule that admit traffic after a boot
          image,      \* image[p]: the copies that p is about to make durable
          asks,       \* asks[p]: the request of the last call of p
          stage,      \* stage[p]: how far the call is, "idle" when it ended
          answer      \* answer[p]: how it ended, "none" while it goes on

avars == <<asks, stage, answer, image, effective, durable>>

Requests == [open : BOOLEAN, access : Accesses]

Nothing == [a \in Accesses |-> 0]

AInit ==
  /\ effective = Nothing
  /\ durable = Nothing
  /\ image = [p \in Procs |-> Nothing]
  /\ asks \in [Procs -> Requests]
  /\ stage = [p \in Procs |-> "idle"]
  /\ answer = [p \in Procs |-> "none"]

Ask(p) ==
  /\ stage[p] = "idle"
  /\ stage' = [stage EXCEPT ![p] = "asked"]
  /\ \E r \in Requests : asks' = [asks EXCEPT ![p] = r]
  /\ answer' = [answer EXCEPT ![p] = "none"]
  /\ UNCHANGED <<effective, durable, image>>

\* The call goes on, ...
Advance(p, to) ==
  /\ stage' = [stage EXCEPT ![p] = to]
  /\ UNCHANGED <<image, asks, answer>>

\* ... or ends.
End(p, how) ==
  /\ stage' = [stage EXCEPT ![p] = "idle"]
  /\ answer' = [answer EXCEPT ![p] = how]
  /\ image' = [image EXCEPT ![p] = Nothing]
  /\ UNCHANGED asks

\* The request takes effect; a caller may be told of a failure all the same.
Grant(p) ==
  /\ stage[p] = "asked"
  /\ Advance(p, "granted") \/ End(p, "error")
  /\ LET a == asks[p].access IN
     IF asks[p].open
     THEN effective' = [effective EXCEPT ![a] = @ + 1]
     ELSE effective[a] > 0 /\ effective' = [effective EXCEPT ![a] = @ - 1]
  /\ UNCHANGED durable

\* The rule is found to be as asked.
Find(p) ==
  /\ stage[p] = "asked"
  /\ End(p, "ok")
  /\ \/ asks[p].open = (effective[asks[p].access] > 0)
     \/ Mistakes /\ ~asks[p].open
  /\ UNCHANGED <<effective, durable>>

\* What is in effect is dumped, ...
Photograph(p) ==
  /\ stage[p] = "granted"
  /\ stage' = [stage EXCEPT ![p] = "imaged"]
  /\ image' = [image EXCEPT ![p] = effective]
  /\ UNCHANGED <<effective, durable, asks, answer>>

\* ... then saved; a caller may be told of a failure all the same.
Persist(p) ==
  /\ stage[p] = "imaged"
  /\ End(p, "ok") \/ End(p, "error")
  /\ durable' = image[p]
  /\ UNCHANGED effective

\* The call fails, or its process dies, after nothing or one of its steps.
Abandon(p) ==
  /\ stage[p] # "idle"
  /\ End(p, "error") \/ End(p, "none")
  /\ UNCHANGED <<effective, durable>>

Boot ==
  /\ stage' = [p \in Procs |-> "idle"]
  /\ effective' = durable
  /\ image' = [p \in Procs |-> Nothing]
  /\ answer' = [p \in Procs |-> "none"]
  /\ UNCHANGED <<durable, asks>>

Call(p) == Ask(p) \/ Grant(p) \/ Find(p) \/ Photograph(p) \/ Persist(p) \/ Abandon(p)

ANext == Boot \/ \E p \in Procs : Call(p)

ASpec == AInit /\ [][ANext]_avars
=============================================================================
