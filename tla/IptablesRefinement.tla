------------------------ MODULE IptablesRefinement ------------------------
(***************************************************************************)
(* Iptables implements PortAccess: every command is a step of the abstract *)
(* specification, or none.  What a step does to the copies of the rules    *)
(* comes from the lemmas of IptablesCallProofs; this module adds what it   *)
(* does to the stages, the images and the answers of the callers.          *)
(***************************************************************************)
EXTENDS IptablesCallProofs

\* The mapped variables, as functions of the processes.
ImageAll == [p \in Procs |-> InEffect(snap[p])]
RequestAll == [p \in Procs |-> Request(p)]
StageAll == [p \in Procs |-> Stage(p)]

StageOf(label) ==
  CASE label = "idle" -> "idle"
    [] label = "save" -> "granted"
    [] label = "saving" -> "imaged"
    [] OTHER -> "asked"

LEMMA StageFacts ==
  ASSUME NEW p \in Procs
  PROVE  /\ StageAll[p] = StageOf(pc[p])
         /\ RequestAll[p].open = call[p].open /\ RequestAll[p].access = Access(p)
         /\ ImageAll[p] = InEffect(snap[p])
  BY DEF StageAll, Stage, StageOf, RequestAll, Request, ImageAll

LEMMA StageMoves ==
  ASSUME ControlOK, NEW p \in Procs, NEW label, pc' = [pc EXCEPT ![p] = label]
  PROVE  StageAll' = [StageAll EXCEPT ![p] = StageOf(label)]
  <1>1. \A q \in Procs : pc'[q] = IF q = p THEN label ELSE pc[q]
    BY DEF ControlOK
  <1>2. \A q \in Procs : Stage(q)' = IF q = p THEN StageOf(label) ELSE Stage(q)
    BY <1>1 DEF Stage, StageOf
  <1>3. QED
    BY <1>2 DEF StageAll

LEMMA SameRequests ==
  ASSUME call' = call
  PROVE  RequestAll' = RequestAll
  BY DEF RequestAll, Request, Access

LEMMA NoTableEffect == InEffect(NoTable) = Abstract!Nothing
  <1>1. InEffect(NoTable) = [a \in Accesses |-> InEffect(NoTable)[a]]
    BY DEF InEffect
  <1>2. [a \in Accesses |-> InEffect(NoTable)[a]] = [a \in Accesses |-> 0]
    BY NothingInEffect
  <1>3. QED
    BY <1>1, <1>2 DEF Abstract!Nothing

\* The call goes on, ...
LEMMA GotoAdvances ==
  ASSUME ControlOK, NEW p \in Procs, call' = call, NEW label, Goto(p, label)
  PROVE  Abstract!Advance(p, StageOf(label))
  <1>1. StageAll' = [StageAll EXCEPT ![p] = StageOf(label)]
    BY StageMoves DEF Goto
  <1>2. RequestAll' = RequestAll /\ ImageAll' = ImageAll /\ result' = result
    BY SameRequests DEF Goto, ImageAll
  <1>3. QED
    BY <1>1, <1>2 DEF Abstract!Advance, StageAll, RequestAll, ImageAll

\* ... or ends.
LEMMA LeaveEnds ==
  ASSUME ControlOK, NEW p \in Procs, call' = call, NEW a, Leave(p, a)
  PROVE  Abstract!End(p, a)
  <1>1. StageAll' = [StageAll EXCEPT ![p] = "idle"]
    BY StageMoves DEF Leave, StageOf
  <1>2. RequestAll' = RequestAll /\ result' = [result EXCEPT ![p] = a]
    BY SameRequests DEF Leave
  <1>3. ImageAll' = [ImageAll EXCEPT ![p] = Abstract!Nothing]
    <2>1. \A q \in Procs : snap'[q] = IF q = p THEN NoTable ELSE snap[q]
      BY DEF Leave, ControlOK
    <2>2. \A q \in Procs :
            InEffect(snap'[q]) = IF q = p THEN Abstract!Nothing ELSE InEffect(snap[q])
      BY <2>1, NoTableEffect
    <2>3. QED
      BY <2>2 DEF ImageAll
  <1>4. QED
    BY <1>1, <1>2, <1>3 DEF Abstract!End, StageAll, RequestAll, ImageAll

\* A call that ends before its save, or dies, and changes nothing by that.
LEMMA Abandons ==
  ASSUME IInv, NEW p \in Procs, pc[p] # "idle", UNCHANGED <<saved, call>>, Same,
         NEW a \in {"error", "none"}, Leave(p, a)
  PROVE  Abstract!Abandon(p)
  <1>1. Abstract!End(p, a)
    BY IInvParts, LeaveEnds
  <1>2. StageAll[p] # "idle"
    BY StageFacts DEF StageOf
  <1>3. InEffect(live)' = InEffect(live) /\ InEffect(saved)' = InEffect(saved)
    BY DEF Same
  <1>4. QED
    BY <1>1, <1>2, <1>3 DEF Abstract!Abandon, StageAll

-----------------------------------------------------------------------------
(* The actions of a process.                                               *)

LEMMA BeginRefines ==
  ASSUME IInv, NEW p \in Procs, Begin(p)
  PROVE  Abstract!Ask(p)
  <1>1. ControlOK
    BY IInvParts
  <1>2. PICK c \in Calls : call' = [call EXCEPT ![p] = c]
    BY DEF Begin
  <1> DEFINE r == [open |-> c.open,
                   access |-> [chain |-> c.chain, port |-> c.port]]
  <1>3. r \in Abstract!Requests
    BY <1>2 DEF Abstract!Requests, Calls, Accesses
  <1>4. /\ pc[p] = "idle" /\ pc' = [pc EXCEPT ![p] = "check"]
        /\ result' = [result EXCEPT ![p] = "none"]
        /\ UNCHANGED <<live, saved, snap>>
    BY DEF Begin
  <1>5. \A q \in Procs : Request(q)' = IF q = p THEN r ELSE Request(q)
    BY <1>1, <1>2 DEF Request, Access, ControlOK
  <1> HIDE DEF r
  <1>6. RequestAll' = [RequestAll EXCEPT ![p] = r]
    BY <1>5 DEF RequestAll
  <1>7. StageAll[p] = "idle" /\ StageAll' = [StageAll EXCEPT ![p] = "asked"]
    <2>1. StageOf("idle") = "idle" /\ StageOf("check") = "asked"
      BY DEF StageOf
    <2>2. StageAll' = [StageAll EXCEPT ![p] = StageOf("check")]
      BY <1>1, <1>4, StageMoves
    <2>3. QED
      BY <1>4, <2>1, <2>2, StageFacts
  <1>8. /\ InEffect(live)' = InEffect(live) /\ InEffect(saved)' = InEffect(saved)
        /\ ImageAll' = ImageAll
    BY <1>4 DEF ImageAll
  <1>9. QED
    BY <1>3, <1>4, <1>6, <1>7, <1>8 DEF Abstract!Ask, StageAll, RequestAll, ImageAll

\* A command that goes on to another of the same stage is no step of PortAccess.
LEMMA Stutters ==
  ASSUME IInv, NEW p \in Procs, UNCHANGED <<saved, call>>, Same,
         NEW label, Goto(p, label), StageOf(label) = StageOf(pc[p])
  PROVE  UNCHANGED Abstract!avars
  <1>1. Abstract!Advance(p, StageOf(pc[p]))
    BY IInvParts, GotoAdvances
  <1>2. StageAll' = [StageAll EXCEPT ![p] = StageAll[p]]
        /\ UNCHANGED <<ImageAll, RequestAll, result>>
    BY <1>1, StageFacts DEF Abstract!Advance, StageAll, RequestAll, ImageAll
  <1>3. StageAll' = StageAll
    BY <1>2 DEF StageAll
  <1>4. InEffect(live)' = InEffect(live) /\ InEffect(saved)' = InEffect(saved)
    BY DEF Same
  <1>5. QED
    BY <1>2, <1>3, <1>4 DEF Abstract!avars, StageAll, RequestAll, ImageAll

LEMMA CheckPortRefines ==
  ASSUME IInv, NEW p \in Procs, CheckPort(p)
  PROVE  Abstract!Find(p) \/ Abstract!Abandon(p) \/ UNCHANGED Abstract!avars
  <1>1. ControlOK /\ call[p].open \in BOOLEAN /\ Count(p) \in Nat
    BY IInvParts, CallFacts, CountFacts
  <1>2. /\ pc[p] = "check" /\ UNCHANGED <<live, saved, call>>
        /\ \/ Raise(p)
           \/ Finish(p) /\ ((call[p].open <=> Count(p) > 0)
                              \/ (1 \in FaultCodes /\ ~call[p].open))
           \/ \E label \in {"new_chain", "delete"} : Goto(p, label)
    BY CheckPortEffect
  <1>3. Same
    BY <1>2 DEF Same
  <1>4. ASSUME Raise(p) PROVE Abstract!Abandon(p)
    BY <1>2, <1>3, <1>4, Abandons DEF Raise
  <1>5. ASSUME Finish(p),
               (call[p].open <=> Count(p) > 0) \/ (1 \in FaultCodes /\ ~call[p].open)
        PROVE  Abstract!Find(p)
    <2>1. Abstract!End(p, "ok")
      BY <1>1, <1>2, <1>5, LeaveEnds DEF Finish
    <2>2. StageAll[p] = "asked"
      BY <1>2, StageFacts DEF StageOf
    <2>3. \/ RequestAll[p].open = (InEffect(live)[RequestAll[p].access] > 0)
          \/ 1 \in FaultCodes /\ ~RequestAll[p].open
      BY <1>1, <1>5, StageFacts DEF Count
    <2>4. InEffect(live)' = InEffect(live) /\ InEffect(saved)' = InEffect(saved)
      BY <1>2
    <2>5. QED
      BY <2>1, <2>2, <2>3, <2>4 DEF Abstract!Find, StageAll, RequestAll
  <1>6. ASSUME NEW label \in {"new_chain", "delete"}, Goto(p, label)
        PROVE  UNCHANGED Abstract!avars
    BY <1>2, <1>3, <1>6, Stutters DEF StageOf
  <1>7. QED
    BY <1>2, <1>4, <1>5, <1>6

LEMMA SetupRefines ==
  ASSUME IInv, NEW p \in Procs,
         CreateChain(p) \/ CheckReturn(p) \/ AddReturn(p) \/ CheckJump(p) \/ InsertJump(p)
  PROVE  Abstract!Abandon(p) \/ UNCHANGED Abstract!avars
  <1>1. /\ pc[p] \in Opening \ {"insert"} /\ UNCHANGED <<saved, call>> /\ Same
        /\ Raise(p) \/ \E label \in Opening : Goto(p, label)
    BY SetupEffect
  <1>2. pc[p] # "idle" /\ \A label \in Opening : StageOf(label) = StageOf(pc[p])
    BY <1>1 DEF Opening, StageOf
  <1>3. ASSUME Raise(p) PROVE Abstract!Abandon(p)
    BY <1>1, <1>2, <1>3, Abandons DEF Raise
  <1>4. QED
    BY <1>1, <1>2, <1>3, Stutters

\* The command that opens or closes the port grants the request.
LEMMA PortRefines ==
  ASSUME IInv, NEW p \in Procs, InsertPort(p) \/ DeletePort(p)
  PROVE  Abstract!Grant(p) \/ Abstract!Abandon(p)
  <1>1. ControlOK
    BY IInvParts
  <1>2. /\ pc[p] \in {"insert", "delete"} /\ UNCHANGED <<saved, call>>
        /\ \/ Raise(p) /\ Same
           \/ /\ IF call[p].open THEN Opened(p) ELSE Closed(p)
              /\ Raise(p) \/ Goto(p, "save")
    BY InsertPortEffect, DeletePortEffect
  <1>3. ASSUME Raise(p), Same PROVE Abstract!Abandon(p)
    BY <1>2, <1>3, Abandons DEF Raise
  <1>4. ASSUME IF call[p].open THEN Opened(p) ELSE Closed(p),
               Raise(p) \/ Goto(p, "save")
        PROVE  Abstract!Grant(p)
    <2>1. Abstract!Advance(p, "granted") \/ Abstract!End(p, "error")
      BY <1>1, <1>2, <1>4, GotoAdvances, LeaveEnds DEF Raise, StageOf
    <2>2. StageAll[p] = "asked"
      BY <1>2, StageFacts DEF StageOf
    <2>3. LET a == RequestAll[p].access IN
          IF RequestAll[p].open
          THEN InEffect(live)' = [InEffect(live) EXCEPT ![a] = InEffect(live)[a] + 1]
          ELSE /\ InEffect(live)[a] > 0
               /\ InEffect(live)' = [InEffect(live) EXCEPT ![a] = InEffect(live)[a] - 1]
      BY <1>4, StageFacts DEF Opened, Closed, Changed, Count
    <2>4. InEffect(saved)' = InEffect(saved)
      BY <1>2
    <2>5. QED
      BY <2>1, <2>2, <2>3, <2>4 DEF Abstract!Grant, StageAll, RequestAll
  <1>5. QED
    BY <1>2, <1>3, <1>4

LEMMA SaveStartRefines ==
  ASSUME IInv, NEW p \in Procs, SaveStart(p)
  PROVE  Abstract!Photograph(p) \/ Abstract!Abandon(p)
  <1>1. ControlOK /\ pc[p] = "save" /\ UNCHANGED <<live, saved, call>> /\ Same
    BY IInvParts DEF SaveStart, Same
  <1>2. ASSUME Raise(p) PROVE Abstract!Abandon(p)
    BY <1>1, <1>2, Abandons DEF Raise
  <1>3. ASSUME ~Raise(p) PROVE Abstract!Photograph(p)
    <2>1. /\ snap' = [snap EXCEPT ![p] = live] /\ pc' = [pc EXCEPT ![p] = "saving"]
          /\ result' = result
      BY <1>3 DEF SaveStart
    <2>2. StageAll[p] = "granted" /\ StageAll' = [StageAll EXCEPT ![p] = "imaged"]
      BY <1>1, <2>1, StageFacts, StageMoves DEF StageOf
    <2>3. ImageAll' = [ImageAll EXCEPT ![p] = InEffect(live)]
      BY <1>1, <2>1 DEF ImageAll, ControlOK
    <2>4. RequestAll' = RequestAll
      BY <1>1, SameRequests
    <2>5. InEffect(live)' = InEffect(live) /\ InEffect(saved)' = InEffect(saved)
      BY <1>1
    <2>6. QED
      BY <2>1, <2>2, <2>3, <2>4, <2>5
         DEF Abstract!Photograph, StageAll, RequestAll, ImageAll
  <1>4. QED
    BY <1>2, <1>3

LEMMA SaveEndRefines ==
  ASSUME IInv, NEW p \in Procs, SaveEnd(p)
  PROVE  Abstract!Persist(p) \/ Abstract!Abandon(p)
  <1>1. ControlOK /\ pc[p] = "saving" /\ UNCHANGED <<live, call>>
    BY IInvParts DEF SaveEnd
  <1>2. \/ saved' = snap[p] /\ Leave(p, "ok")
        \/ saved' \in {saved, snap[p]} /\ Leave(p, "error")
    BY DEF SaveEnd, Raise
  <1>3. ASSUME saved' = saved, Leave(p, "error") PROVE Abstract!Abandon(p)
    BY <1>1, <1>3, Abandons DEF Same
  <1>4. ASSUME saved' = snap[p], NEW a \in {"ok", "error"}, Leave(p, a)
        PROVE  Abstract!Persist(p)
    <2>1. Abstract!End(p, a)
      BY <1>1, <1>4, LeaveEnds
    <2>2. StageAll[p] = "imaged" /\ InEffect(saved)' = ImageAll[p]
          /\ InEffect(live)' = InEffect(live)
      BY <1>1, <1>4, StageFacts DEF StageOf
    <2>3. QED
      BY <2>1, <2>2 DEF Abstract!Persist, StageAll, ImageAll
  <1>5. QED
    BY <1>2, <1>3, <1>4

LEMMA CrashRefines ==
  ASSUME IInv, NEW p \in Procs, Crash(p)
  PROVE  Abstract!Abandon(p)
  BY Abandons DEF Crash, Same

LEMMA RebootRefines ==
  ASSUME Reboot
  PROVE  Abstract!Boot
  <1>1. InEffect(live)' = InEffect(saved) /\ InEffect(saved)' = InEffect(saved)
    BY DEF Reboot
  <1>2. StageAll' = [p \in Procs |-> "idle"]
    BY DEF Reboot, StageAll, Stage
  <1>3. ImageAll' = [p \in Procs |-> Abstract!Nothing]
    BY NoTableEffect DEF Reboot, ImageAll
  <1>4. RequestAll' = RequestAll /\ result' = [p \in Procs |-> "none"]
    BY SameRequests DEF Reboot
  <1>5. QED
    BY <1>1, <1>2, <1>3, <1>4 DEF Abstract!Boot, StageAll, RequestAll, ImageAll

-----------------------------------------------------------------------------

LEMMA InitRefines ==
  ASSUME Init
  PROVE  Abstract!AInit
  <1>1. IInv
    BY InitHolds
  <1>2. Sound(live) /\ \A c \in Chains, x \in Ports : ~Contains(live.rules[c], x)
    BY InitialTableFacts DEF Init
  <1>3. InEffect(live) = Abstract!Nothing
    <2>1. ASSUME NEW a \in Accesses PROVE InEffect(live)[a] = 0
      <3>1. Met(live, a) = {}
        BY <1>2 DEF Met, Contains, Accesses
      <3>2. QED
        BY <3>1, FS_EmptySet DEF InEffect
    <2>2. InEffect(live) = [a \in Accesses |-> InEffect(live)[a]]
      BY DEF InEffect
    <2>3. [a \in Accesses |-> InEffect(live)[a]] = [a \in Accesses |-> 0]
      BY <2>1
    <2>4. QED
      BY <2>2, <2>3 DEF Abstract!Nothing
  <1>4. InEffect(saved) = Abstract!Nothing
    BY <1>3 DEF Init
  <1>5. StageAll = [p \in Procs |-> "idle"] /\ result = [p \in Procs |-> "none"]
    BY DEF Init, StageAll, Stage
  <1>6. ImageAll = [p \in Procs |-> Abstract!Nothing]
    BY NoTableEffect DEF Init, ImageAll
  <1>7. RequestAll \in [Procs -> Abstract!Requests]
    <2>1. \A p \in Procs : Request(p) \in Abstract!Requests
      BY <1>1, IInvParts, CallFacts, CountFacts DEF Request, Abstract!Requests
    <2>2. QED
      BY <2>1 DEF RequestAll
  <1>8. QED
    BY <1>3, <1>4, <1>5, <1>6, <1>7
       DEF Abstract!AInit, StageAll, RequestAll, ImageAll

LEMMA StepRefines ==
  ASSUME IInv, [Next]_vars
  PROVE  [Abstract!ANext]_(Abstract!avars)
  <1>1. ASSUME NEW p \in Procs, Begin(p) \/ Crash(p) PROVE Abstract!Call(p)
    BY <1>1, BeginRefines, CrashRefines DEF Abstract!Call
  <1>2. ASSUME NEW p \in Procs, Step(p)
        PROVE  Abstract!Call(p) \/ UNCHANGED Abstract!avars
    BY <1>2, CheckPortRefines, SetupRefines, PortRefines, SaveStartRefines, SaveEndRefines
    DEF Step, Abstract!Call
  <1>3. ASSUME Reboot PROVE Abstract!ANext
    BY <1>3, RebootRefines DEF Abstract!ANext
  <1>4. ASSUME UNCHANGED vars PROVE UNCHANGED Abstract!avars
    BY <1>4 DEF vars, Abstract!avars, InEffect, Met, Request, Access, Stage
  <1>5. QED
    BY <1>1, <1>2, <1>3, <1>4 DEF Next, Abstract!ANext

\* For any processes, chains and ports, and wherever commands fail and
\* processes die: a call changes which port rules are in effect by one copy of
\* its own rule, or not at all; it answers "ok" only when it did and has saved
\* what was in effect then, or when it found the rule to be as asked.
THEOREM Refinement == Spec => ImplementsPortAccess
  <1>1. Init => Abstract!AInit
    BY InitRefines
  <1>2. IInv /\ [Next]_vars => [Abstract!ANext]_(Abstract!avars)
    BY StepRefines
  <1>3. QED
    BY <1>1, <1>2, Inductive, PTL DEF Spec, ImplementsPortAccess, Abstract!ASpec
=============================================================================
