------------------------ MODULE IptablesCallProofs ------------------------
(***************************************************************************)
(* What a call of Iptables tells its caller: for any processes, an error   *)
(* has a cause, and a call that returns was applied; for one process, what *)
(* was not saved is owed by a call that failed or goes on.  And what the   *)
(* calls of any processes leave behind: how many copies of a rule.         *)
(***************************************************************************)
EXTENDS IptablesProofs

-----------------------------------------------------------------------------
(* Commands that do not fail.                                              *)

\* No command removes a chain.
LEMMA ChainsStay ==
  ASSUME NEW t, NEW r, NEW c
  PROVE  /\ t.chains \subseteq NewChain(t, c).table.chains /\ c \in NewChain(t, c).table.chains
         /\ AppendRule(t, r).table.chains = t.chains
         /\ InsertRule(t, r).table.chains = t.chains
         /\ DeleteRule(t, r).table.chains = t.chains
         /\ CheckRule(t, r).table.chains = t.chains
  BY DEF NewChain, AppendRule, InsertRule, DeleteRule, CheckRule, Rewrite, Reply

\* What raises failed, or was answered by something else than 0.
LEMMA RaiseCauses ==
  \A exit \in {0, 1} :
    /\ HasIptablesRule(exit) = IF exit = 0 THEN "yes" ELSE "no"
    /\ ~Raises(exit, AnyCode) /\ ~IsFatalIptablesCode(exit)
    /\ Succeeds(exit) <=> exit = 0
  BY DEF HasIptablesRule, Raises, IsFatalIptablesCode, Succeeds, NoCode, AnyCode

\* A command that fails does so with one of FaultCodes.
LEMMA FaultCode ==
  ASSUME NEW r, NEW o \in Outcomes(r), o.fault
  PROVE  o.exit \in FaultCodes
  <1>1. CASE o = [exit |-> r.exit, table |-> r.table, fault |-> FALSE]
    BY <1>1
  <1>2. CASE o \in [exit : IF faults < MaxFaults THEN FaultCodes ELSE {},
                   table : {live, r.table}, fault : {TRUE}]
    BY <1>2
  <1>3. QED
    BY <1>1, <1>2 DEF Outcomes

\* The commands that add something succeed for a chain that exists; the one that
\* deletes succeeds for a rule that is there.
LEMMA Successes ==
  ASSUME NEW t, NEW c \in Chains, NEW x \in Ports
  PROVE  /\ NewChain(t, c).exit \in {0, 1}
         /\ AppendRule(t, Rule(c, Return)).exit \in {0, 1}
         /\ c \in t.chains => AppendRule(t, Rule(c, Return)).exit = 0
         /\ InsertRule(t, Rule(Input, c)).exit \in {0, 1}
         /\ c \in t.chains => InsertRule(t, Rule(Input, c)).exit = 0
         /\ InsertRule(t, Rule(c, x)).exit \in {0, 1}
         /\ c \in t.chains => InsertRule(t, Rule(c, x)).exit = 0
         /\ DeleteRule(t, Rule(c, x)).exit \in {0, 1}
         /\ HasRule(t, Rule(c, x)) => DeleteRule(t, Rule(c, x)).exit = 0
  BY NamesAssumption DEF NewChain, AppendRule, InsertRule, DeleteRule, CanHold, Rule, Reply

-----------------------------------------------------------------------------
(* Errors have a cause, for any processes.                                 *)

Later == {"check_return", "add_return", "check_jump", "insert_jump", "insert"}

\* What a call can count on unless a fault hit it, or unless another call for
\* its port rule overlapped it.
Standing(p) ==
  /\ result[p] = "error" => hit[p] \/ (~call[p].open /\ Raced(Access(p)))
  /\ pc[p] \in Later => hit[p] \/ call[p].chain \in live.chains
  /\ pc[p] = "delete" => \/ hit[p] \/ Raced(Access(p))
                         \/ HasRule(live, PortRule(p))
  /\ pc[p] # "idle" => p \in users[Access(p)]

EInv == IInv /\ \A p \in Procs : Standing(p)

\* The port rules are kept in the table t, but for the one that p deletes.
Keeps(p, t) ==
  \A c \in Chains, x \in Ports :
    Contains(live.rules[c], x) =>
      \/ Contains(t.rules[c], x)
      \/ pc[p] = "delete" /\ call[p].chain = c /\ call[p].port = x

\* A rule is deleted under a call only by another call for it, and then two
\* calls overlap.
LEMMA RuleStands ==
  ASSUME EInv, NEW p \in Procs, NEW q \in Procs \ {p},
         pc[q] = "delete", HasRule(live, PortRule(q)), Keeps(p, live')
  PROVE  Contains(live'.rules[call[q].chain], call[q].port) \/ Raced(Access(q))
  <1>1. call[q].chain \in Chains /\ call[q].port \in Ports
    BY IInvParts, CallFacts DEF EInv
  <1>2. Contains(live.rules[call[q].chain], call[q].port)
    BY DEF HasRule, PortRule, Rule
  <1>3. CASE pc[p] = "delete" /\ call[p].chain = call[q].chain /\ call[p].port = call[q].port
    <2>1. Access(p) = Access(q)
      BY <1>3 DEF Access
    <2>2. p \in users[Access(p)] /\ q \in users[Access(q)]
      BY <1>3 DEF EInv, Standing
    <2>3. QED
      BY <2>1, <2>2 DEF Raced
  <1>4. QED
    BY <1>1, <1>2, <1>3 DEF Keeps

\* A process that does nothing, while no chain goes.
LEMMA BystanderStands ==
  ASSUME EInv, NEW p \in Procs, NEW q \in Procs \ {p},
         pc'[q] = pc[q], call'[q] = call[q], result'[q] = result[q], hit'[q] = hit[q],
         live.chains \subseteq live'.chains, Keeps(p, live'),
         Raced(Access(q)) => \E x, y \in users'[Access(q)] : x # y,
         pc[q] # "idle" => q \in users'[Access(q)]
  PROVE  Standing(q)'
  <1>1. Access(q)' = Access(q)
    BY DEF Access
  <1>2. Raced(Access(q)) => Raced(Access(q))'
    BY <1>1 DEF Raced
  <1>3. Standing(q)
    BY DEF EInv
  <1>4. ASSUME pc'[q] = "delete"
        PROVE  hit'[q] \/ Raced(Access(q))' \/ HasRule(live, PortRule(q))'
    <2>1. HasRule(live, PortRule(q))' <=> Contains(live'.rules[call[q].chain], call[q].port)
      BY DEF HasRule, PortRule, Rule
    <2>2. QED
      BY <1>2, <1>3, <1>4, <2>1, RuleStands DEF Standing
  <1>5. pc'[q] # "idle" => q \in users'[Access(q)']
    BY <1>1
  <1>6. QED
    BY <1>2, <1>3, <1>4, <1>5 DEF Standing

LEMMA CommandStands ==
  ASSUME EInv, NEW p \in Procs, pc[p] # "idle",
         NEW r, r.exit \in {0, 1}, live.chains \subseteq r.table.chains, Keeps(p, r.table),
         NEW o \in Outcomes(r), Take(p, o),
         \/ Finish(p)
         \/ Raise(p) /\ (o.fault \/ hit[p] \/ (~call[p].open /\ Raced(Access(p))))
         \/ \E label \in PCs :
              /\ Goto(p, label)
              /\ label \in Later => o.fault \/ hit[p] \/ call[p].chain \in live'.chains
              /\ label = "delete" => o.fault \/ HasRule(live', PortRule(p))
  PROVE  \A q \in Procs : Standing(q)'
  <1>1. ControlOK
    BY IInvParts DEF EInv
  <1>2. /\ o.table \in {live, r.table} /\ o.fault \in BOOLEAN
        /\ live' = o.table /\ call' = call /\ users' = users
    BY <1>1, OutcomeFacts DEF ControlOK, Take, Finish, Raise, Leave, Goto
  <1>3. /\ hit' = [hit EXCEPT ![p] = hit[p] \/ o.fault] /\ hit[p] \in BOOLEAN
        /\ live.chains \subseteq live'.chains
    <2>1. (IF o.fault THEN 1 ELSE 0) > 0 <=> o.fault
      BY <1>2
    <2>2. QED
      BY <1>1, <1>2, <2>1 DEF Take, Suffer, ControlOK
  <1>4. hit'[p] = (hit[p] \/ o.fault)
    BY <1>1, <1>3 DEF ControlOK
  <1>5. \E label : pc' = [pc EXCEPT ![p] = label]
    BY DEF Finish, Raise, Leave, Goto
  <1>6. result' = result \/ \E a : result' = [result EXCEPT ![p] = a]
    BY DEF Finish, Raise, Leave, Goto
  <1>7. ASSUME NEW q \in Procs \ {p} PROVE Standing(q)'
    <2>1. Keeps(p, live')
      BY <1>2 DEF Keeps
    <2>2. q \in Procs /\ (pc[q] # "idle" => q \in users[Access(q)])
      BY DEF EInv, Standing
    <2>3. Raced(Access(q)) => \E x, y \in users'[Access(q)] : x # y
      BY <1>2 DEF Raced
    <2>4. QED
      BY <1>1, <1>2, <1>3, <1>5, <1>6, <2>1, <2>2, <2>3, BystanderStands DEF ControlOK
  <1>8. Standing(p)'
    <2>0. /\ Access(p)' = Access(p) /\ (Raced(Access(p)) => Raced(Access(p))')
          /\ p \in users'[Access(p)]
      BY <1>2 DEF Access, Raced, EInv, Standing
    <2>1. CASE Finish(p)
      BY <1>1, <2>0, <2>1 DEF Finish, Leave, ControlOK, Standing, Later
    <2>2. CASE Raise(p) /\ (o.fault \/ hit[p] \/ (~call[p].open /\ Raced(Access(p))))
      BY <1>1, <1>2, <1>4, <2>0, <2>2 DEF Raise, Leave, ControlOK, Standing, Later
    <2>3. ASSUME NEW label \in PCs, Goto(p, label),
                 label \in Later => o.fault \/ hit[p] \/ call[p].chain \in live'.chains,
                 label = "delete" => o.fault \/ HasRule(live', PortRule(p))
          PROVE  Standing(p)'
      <3>1. pc'[p] = label /\ result' = result
        BY <1>1, <2>3 DEF Goto, ControlOK
      <3>2. HasRule(live', PortRule(p)) => HasRule(live, PortRule(p))'
        BY <1>2 DEF HasRule, PortRule
      <3>3. result[p] = "error" => hit[p] \/ (~call[p].open /\ Raced(Access(p)))
        BY DEF EInv, Standing
      <3>4. QED
        BY <1>2, <1>4, <2>0, <2>3, <3>1, <3>2, <3>3 DEF Standing
    <2>4. QED
      BY <2>1, <2>2, <2>3
  <1>9. QED
    BY <1>7, <1>8

\* A lookup that is not hit tells how it is.
LEMMA LookupFacts ==
  ASSUME EInv, NEW r, NEW o \in Outcomes(CheckRule(live, r))
  PROVE  /\ CheckRule(live, r).exit \in {0, 1} /\ o.table = live
         /\ live.chains \subseteq CheckRule(live, r).table.chains
         /\ \A p \in Procs : Keeps(p, CheckRule(live, r).table)
         /\ HasIptablesRule(o.exit) = "raises" => o.fault
         /\ HasIptablesRule(o.exit) = "yes" => HasRule(live, r)
  <1> DEFINE c == CheckRule(live, r)
  <1>1. c.exit \in {0, 1} /\ c.table = live /\ (c.exit = 0 => HasRule(live, r))
    BY CheckFacts DEF HasRule
  <1>2. faults \in 0..MaxFaults
    BY DEF EInv, IInv, TypeOK
  <1> HIDE DEF c
  <1>3. /\ o.table \in {live, c.table} /\ o.exit \in ExitCodes /\ o.fault \in BOOLEAN
        /\ o.exit = 0 => ~o.fault
        /\ ~o.fault => o.exit = c.exit
    <2>1. o \in Outcomes(c)
      BY DEF c
    <2>2. QED
      BY <1>1, <1>2, <2>1, OutcomeFacts
  <1>4. HasIptablesRule(o.exit) = "raises" => o.fault
    BY <1>1, <1>3, RaiseCauses
  <1>5. HasIptablesRule(o.exit) = "yes" => HasRule(live, r)
    BY <1>1, <1>3, HasRuleFacts
  <1>6. \A p \in Procs : Keeps(p, live)
    BY DEF Keeps
  <1>7. QED
    BY <1>1, <1>3, <1>4, <1>5, <1>6 DEF c

LEMMA CheckPortStands ==
  ASSUME EInv, NEW p \in Procs, CheckPort(p)
  PROVE  \A q \in Procs : Standing(q)'
  <1> DEFINE r == CheckRule(live, PortRule(p))
  <1>1. PICK o \in Outcomes(r) :
          /\ Take(p, o)
          /\ \/ HasIptablesRule(o.exit) = "raises" /\ Raise(p)
             \/ Finish(p)
             \/ /\ HasIptablesRule(o.exit) # "raises"
                /\ call[p].open # (HasIptablesRule(o.exit) = "yes")
                /\ Goto(p, IF call[p].open THEN "new_chain" ELSE "delete")
    BY DEF CheckPort
  <1>2. /\ r.exit \in {0, 1} /\ o.table = live /\ live.chains \subseteq r.table.chains
        /\ Keeps(p, r.table) /\ pc[p] # "idle"
        /\ HasIptablesRule(o.exit) = "raises" => o.fault
        /\ HasIptablesRule(o.exit) = "yes" => HasRule(live, PortRule(p))
    BY LookupFacts DEF CheckPort
  <1>3. call[p].open \in BOOLEAN /\ live' = live
    BY <1>1, <1>2, IInvParts, CallFacts DEF EInv, Take
  <1> HIDE DEF r
  <1>4. CASE Finish(p) \/ (HasIptablesRule(o.exit) = "raises" /\ Raise(p))
    BY <1>1, <1>2, <1>4, CommandStands
  <1>5. CASE /\ call[p].open # (HasIptablesRule(o.exit) = "yes")
             /\ Goto(p, IF call[p].open THEN "new_chain" ELSE "delete")
    <2>1. CASE call[p].open
      <3>1. Goto(p, "new_chain") /\ "new_chain" \in PCs /\ "new_chain" \notin Later
        BY <1>5, <2>1 DEF PCs, Later
      <3>2. QED
        BY <1>1, <1>2, <3>1, CommandStands
    <2>2. CASE ~call[p].open
      <3>1. /\ Goto(p, "delete") /\ "delete" \in PCs /\ "delete" \notin Later
            /\ HasRule(live', PortRule(p))
        BY <1>2, <1>3, <1>5, <2>2 DEF PCs, Later
      <3>2. QED
        BY <1>1, <1>2, <3>1, CommandStands
    <2>3. QED
      BY <1>3, <2>1, <2>2
  <1>6. QED
    BY <1>1, <1>4, <1>5

LEMMA CreateChainStands ==
  ASSUME EInv, NEW p \in Procs, CreateChain(p)
  PROVE  \A q \in Procs : Standing(q)'
  <1> DEFINE r == NewChain(live, call[p].chain)
  <1>1. PICK o \in Outcomes(r) :
          /\ Take(p, o)
          /\ IF Raises(o.exit, AnyCode) \/ IsFatalIptablesCode(o.exit)
             THEN Raise(p) ELSE Goto(p, "check_return")
    BY DEF CreateChain
  <1>2. /\ r.exit \in {0, 1} /\ live.chains \subseteq r.table.chains
        /\ call[p].chain \in r.table.chains /\ faults \in 0..MaxFaults
        /\ Keeps(p, r.table) /\ pc[p] # "idle"
    <2>1. /\ call[p].chain \in Chains /\ call[p].port \in Ports /\ faults \in 0..MaxFaults
          /\ Sound(live) /\ pc[p] # "idle"
      BY IInvParts, CallFacts DEF EInv, ControlOK, CreateChain
    <2>2. r.table.rules = live.rules
      BY <2>1, NewChainSound
    <2>3. Keeps(p, r.table)
      BY <2>2 DEF Keeps
    <2>4. QED
      BY <2>1, <2>3, ChainsStay, Successes
  <1> HIDE DEF r
  <1>3. /\ o.fault \in BOOLEAN
        /\ ~o.fault => o.exit = r.exit /\ o.table = r.table
    BY <1>2, OutcomeFacts
  <1>4. CASE Raise(p)
    <2>1. CASE o.fault
      BY <1>1, <1>2, <1>4, <2>1, CommandStands
    <2>2. CASE ~o.fault
      <3>1. Goto(p, "check_return")
        BY <1>1, <1>2, <1>3, <2>2, RaiseCauses
      <3>2. "check_return" \in PCs /\ "check_return" # "delete"
            /\ call[p].chain \in live'.chains
        BY <1>1, <1>2, <1>3, <2>2 DEF PCs, Take
      <3>3. QED
        BY <1>1, <1>2, <3>1, <3>2, CommandStands
    <2>3. QED
      BY <1>3, <2>1, <2>2
  <1>5. CASE Goto(p, "check_return")
    <2>1. "check_return" \in PCs /\ "check_return" # "delete"
          /\ (o.fault \/ call[p].chain \in live'.chains)
      BY <1>1, <1>2, <1>3 DEF PCs, Take
    <2>2. QED
      BY <1>1, <1>2, <1>5, <2>1, CommandStands
  <1>6. QED
    BY <1>1, <1>4, <1>5

\* CheckReturn and CheckJump.
LEMMA CheckSetupStands ==
  ASSUME EInv, NEW p \in Procs, NEW r, NEW at \in Later, NEW missing \in Later,
         NEW present \in Later, CheckSetup(p, at, r, missing, present)
  PROVE  \A q \in Procs : Standing(q)'
  <1> DEFINE c == CheckRule(live, r)
  <1>1. PICK o \in Outcomes(c) :
          /\ Take(p, o)
          /\ \/ HasIptablesRule(o.exit) = "raises" /\ Raise(p)
             \/ \E label \in {missing, present} : Goto(p, label)
    BY DEF CheckSetup
  <1>2. /\ c.exit \in {0, 1} /\ o.table = live /\ live.chains \subseteq c.table.chains
        /\ Keeps(p, c.table) /\ pc[p] # "idle"
        /\ HasIptablesRule(o.exit) = "raises" => o.fault
    BY LookupFacts DEF CheckSetup, Later
  <1> HIDE DEF c
  <1>3. CASE HasIptablesRule(o.exit) = "raises" /\ Raise(p)
    BY <1>1, <1>2, <1>3, CommandStands
  <1>4. CASE \E label \in {missing, present} : Goto(p, label)
    <2>1. PICK label \in {missing, present} : Goto(p, label)
      BY <1>4
    <2>2. label \in PCs /\ label # "delete"
      BY DEF Later, PCs
    <2>3. hit[p] \/ call[p].chain \in live'.chains
      BY <1>1, <1>2 DEF EInv, Standing, CheckSetup, Take
    <2>4. QED
      BY <1>1, <1>2, <2>1, <2>2, <2>3, CommandStands
  <1>5. QED
    BY <1>1, <1>3, <1>4

\* A command that must succeed, and does unless it is hit.
LEMMA RunToStands ==
  ASSUME EInv, NEW p \in Procs, NEW at, NEW r, NEW next \in PCs \ {"delete"},
         RunTo(p, at, r, next), r.exit \in {0, 1}, live.chains \subseteq r.table.chains,
         Keeps(p, r.table), at # "idle",
         r.exit = 0 \/ hit[p] \/ (~call[p].open /\ Raced(Access(p))),
         next \in Later => at \in Later
  PROVE  \A q \in Procs : Standing(q)'
  <1>1. PICK o \in Outcomes(r) :
          Take(p, o) /\ IF Succeeds(o.exit) THEN Goto(p, next) ELSE Raise(p)
    BY DEF RunTo
  <1>2. faults \in 0..MaxFaults /\ pc[p] = at
    BY DEF EInv, IInv, TypeOK, RunTo
  <1>3. /\ o.fault \in BOOLEAN /\ o.exit \in ExitCodes /\ o.table \in {live, r.table}
        /\ ~o.fault => o.exit = r.exit
    BY <1>2, OutcomeFacts
  <1>4. CASE Succeeds(o.exit)
    <2>1. live.chains \subseteq live'.chains
      BY <1>1, <1>3 DEF Take
    <2>2. next \in Later => hit[p] \/ call[p].chain \in live'.chains
      BY <1>2, <2>1 DEF EInv, Standing
    <2>3. QED
      BY <1>1, <1>2, <1>4, <2>2, CommandStands
  <1>5. CASE ~Succeeds(o.exit)
    <2>1. o.fault \/ hit[p] \/ (~call[p].open /\ Raced(Access(p)))
      BY <1>3, <1>5, RaiseCauses
    <2>2. QED
      BY <1>1, <1>2, <1>5, <2>1, CommandStands
  <1>6. QED
    BY <1>4, <1>5

LEMMA StepStands ==
  ASSUME EInv, NEW p \in Procs, Step(p)
  PROVE  \A q \in Procs : Standing(q)'
  <1>1. /\ ControlOK /\ call[p].chain \in Chains /\ call[p].port \in Ports
        /\ Sound(live) /\ Established(p)
    BY IInvParts, CallFacts DEF EInv
  <1>2. Standing(p)
    BY DEF EInv
  <1>3. CASE CheckPort(p)
    BY <1>3, CheckPortStands
  <1>4. CASE CreateChain(p)
    BY <1>4, CreateChainStands
  <1>5. CASE CheckReturn(p)
    BY <1>5, CheckSetupStands DEF CheckReturn, Later
  <1>6. CASE CheckJump(p)
    BY <1>6, CheckSetupStands DEF CheckJump, Later
  <1>7. CASE AddReturn(p)
    <2> DEFINE r == AppendRule(live, ReturnRule(p))
    <2>1. /\ r.exit \in {0, 1} /\ live.chains \subseteq r.table.chains
          /\ r.exit = 0 \/ hit[p]
      BY <1>1, <1>2, <1>7, Successes, ChainsStay
      DEF AddReturn, RunTo, ReturnRule, Standing, Later
    <2>0. Keeps(p, r.table)
      BY <1>1, <1>7, AddReturnSound DEF AddReturn, RunTo, ReturnRule, Keeps
    <2> HIDE DEF r
    <2>2. RunTo(p, "add_return", r, "check_jump")
      BY <1>7 DEF AddReturn, r
    <2>3. QED
      BY <2>0, <2>1, <2>2, RunToStands DEF PCs, Later
  <1>8. CASE InsertJump(p)
    <2> DEFINE r == InsertRule(live, JumpRule(p))
    <2>1. /\ r.exit \in {0, 1} /\ live.chains \subseteq r.table.chains
          /\ r.exit = 0 \/ hit[p]
      BY <1>1, <1>2, <1>8, Successes, ChainsStay
      DEF InsertJump, RunTo, JumpRule, Standing, Later
    <2>0. Keeps(p, r.table)
      BY <1>1, <1>8, InsertJumpSound DEF InsertJump, RunTo, JumpRule, Keeps
    <2> HIDE DEF r
    <2>2. RunTo(p, "insert_jump", r, "insert")
      BY <1>8 DEF InsertJump, r
    <2>3. QED
      BY <2>0, <2>1, <2>2, RunToStands DEF PCs, Later
  <1>9. CASE InsertPort(p)
    <2> DEFINE r == InsertRule(live, PortRule(p))
    <2>1. /\ r.exit \in {0, 1} /\ live.chains \subseteq r.table.chains
          /\ r.exit = 0 \/ hit[p]
      BY <1>1, <1>2, <1>9, Successes, ChainsStay
      DEF InsertPort, RunTo, PortRule, Standing, Later
    <2>0. Keeps(p, r.table)
      BY <1>1, <1>9, InsertPortSound DEF InsertPort, RunTo, PortRule, Keeps, Established, Ready
    <2> HIDE DEF r
    <2>2. RunTo(p, "insert", r, "save")
      BY <1>9 DEF InsertPort, r
    <2>3. QED
      BY <2>0, <2>1, <2>2, RunToStands DEF PCs, Later
  <1>10. CASE DeletePort(p)
    <2> DEFINE r == DeleteRule(live, PortRule(p))
    <2>1. /\ r.exit \in {0, 1} /\ live.chains \subseteq r.table.chains
          /\ r.exit = 0 \/ hit[p] \/ Raced(Access(p))
      BY <1>1, <1>2, <1>10, Successes, ChainsStay
      DEF DeletePort, RunTo, PortRule, Standing
    <2>2. ~call[p].open
      BY <1>10, ReadyFacts DEF DeletePort, RunTo, EInv
    <2>0. Keeps(p, r.table)
      BY <1>1, <1>10, DeletePortSound DEF DeletePort, RunTo, PortRule, Keeps
    <2> HIDE DEF r
    <2>3. RunTo(p, "delete", r, "save")
      BY <1>10 DEF DeletePort, r
    <2>4. QED
      BY <2>0, <2>1, <2>2, <2>3, RunToStands DEF PCs, Later
  <1>11. CASE SaveStart(p) \/ SaveEnd(p)
    <2>1. /\ live' = live /\ call' = call /\ users' = users /\ pc[p] # "idle"
          /\ \E label \in {"idle", "saving"} : pc' = [pc EXCEPT ![p] = label]
      BY <1>11 DEF SaveStart, SaveEnd, Raise, Leave
    <2>2. \/ hit' = hit /\ (result' = result \/ result' = [result EXCEPT ![p] = "ok"])
          \/ Suffer(p, 1) /\ result' = [result EXCEPT ![p] = "error"]
      BY <1>11 DEF SaveStart, SaveEnd, Raise, Leave
    <2>3. Suffer(p, 1) => hit'[p] /\ \A q \in Procs \ {p} : hit'[q] = hit[q]
      <3>1. SUFFICES ASSUME Suffer(p, 1)
                     PROVE  hit'[p] /\ \A q \in Procs \ {p} : hit'[q] = hit[q]
        OBVIOUS
      <3>2. 1 > 0
        OBVIOUS
      <3>3. hit' = [hit EXCEPT ![p] = hit[p] \/ 1 > 0]
        BY <3>1 DEF Suffer
      <3>4. hit \in [Procs -> BOOLEAN]
        BY <1>1 DEF ControlOK
      <3>5. (hit[p] \/ 1 > 0) = TRUE
        BY <3>2, <3>4
      <3>6. hit' = [hit EXCEPT ![p] = TRUE]
        BY <3>3, <3>5
      <3>7. QED
        BY <3>4, <3>6
    <2>4. ASSUME NEW q \in Procs \ {p} PROVE Standing(q)'
      <3>1. Keeps(p, live')
        BY <2>1 DEF Keeps
      <3>2. /\ pc[q] # "idle" => q \in users'[Access(q)]
            /\ Raced(Access(q)) => \E x, y \in users'[Access(q)] : x # y
        BY <2>1 DEF EInv, Standing, Raced
      <3>3. QED
        BY <1>1, <2>1, <2>2, <2>3, <3>1, <3>2, BystanderStands DEF ControlOK
    <2>5. Standing(p)'
      <3>1. /\ Access(p)' = Access(p) /\ (Raced(Access(p)) => Raced(Access(p))')
            /\ p \in users'[Access(p)]
        BY <1>2, <2>1 DEF Access, Raced, Standing
      <3>2. QED
        BY <1>1, <1>2, <2>1, <2>2, <2>3, <3>1 DEF ControlOK, Standing, Later
    <2>6. QED
      BY <2>4, <2>5
  <1>12. QED
    BY <1>3, <1>4, <1>5, <1>6, <1>7, <1>8, <1>9, <1>10, <1>11 DEF Step

LEMMA OthersStand ==
  ASSUME EInv, (\E p \in Procs : Begin(p) \/ Crash(p)) \/ Reboot \/ UNCHANGED vars
  PROVE  \A q \in Procs : Standing(q)'
  <1>1. ControlOK
    BY IInvParts DEF EInv
  <1>2. ASSUME NEW p \in Procs, Begin(p) \/ Crash(p), NEW q \in Procs PROVE Standing(q)'
    <2>0. /\ p \in users'[Access(p)'] \/ pc'[p] = "idle"
          /\ pc[q] # "idle" /\ q # p => q \in users'[Access(q)]
          /\ Raced(Access(q)) => \E x, y \in users'[Access(q)] : x # y
      <3>1. users \in [Accesses -> SUBSET Procs] /\ Access(q) \in Accesses
        BY <1>1, CallFacts DEF EInv, IInv, TypeOK, Access, Accesses
      <3>2. pc[q] # "idle" => q \in users[Access(q)]
        BY DEF EInv, Standing
      <3>3. CASE Crash(p)
        BY <1>1, <3>2, <3>3 DEF Crash, Leave, Raced, ControlOK
      <3>4. CASE Begin(p)
        <4>1. PICK c \in Calls :
                LET a == [chain |-> c.chain, port |-> c.port] IN
                /\ call' = [call EXCEPT ![p] = c]
                /\ users' = [users EXCEPT ![a] =
                                {p} \cup (IF Raced(a) THEN users[a] ELSE Busy(a))]
          BY <3>4 DEF Begin
        <4> DEFINE a == [chain |-> c.chain, port |-> c.port]
        <4>2. a \in Accesses /\ Access(p)' = a
          BY <1>1, <4>1 DEF Accesses, Calls, Access, ControlOK
        <4>3. /\ users'[a] = {p} \cup (IF Raced(a) THEN users[a] ELSE Busy(a))
              /\ \A b \in Accesses \ {a} : users'[b] = users[b]
          BY <3>1, <4>1, <4>2
        <4> HIDE DEF a
        <4>4. p \in users'[Access(p)']
          BY <4>2, <4>3
        <4>5. pc[q] # "idle" => q \in users'[Access(q)]
          BY <3>1, <3>2, <4>3 DEF Busy
        <4>6. Raced(Access(q)) => \E x, y \in users'[Access(q)] : x # y
          BY <3>1, <4>3 DEF Raced
        <4>7. QED
          BY <4>4, <4>5, <4>6
      <3>5. QED
        BY <1>2, <3>3, <3>4
    <2>1. /\ live' = live /\ result' = [result EXCEPT ![p] = "none"]
          /\ \E label \in {"idle", "check"} : pc' = [pc EXCEPT ![p] = label]
          /\ \E c : call' = [call EXCEPT ![p] = c]
          /\ \E h : hit' = [hit EXCEPT ![p] = h]
      <3>1. CASE Begin(p)
        BY <3>1 DEF Begin
      <3>2. CASE Crash(p)
        BY <1>1, <3>2 DEF Crash, Leave, Suffer, ControlOK
      <3>3. QED
        BY <1>2, <3>1, <3>2
    <2>2. CASE q = p
      BY <1>1, <2>0, <2>1, <2>2 DEF ControlOK, Standing, Later, Access
    <2>3. CASE q # p
      <3>1. Keeps(p, live')
        BY <2>1 DEF Keeps
      <3>2. QED
        BY <1>1, <2>0, <2>1, <2>3, <3>1, BystanderStands DEF ControlOK
    <2>4. QED
      BY <2>2, <2>3
  <1>3. CASE Reboot
    BY <1>3 DEF Reboot, Standing, Later
  <1>4. CASE UNCHANGED vars
    BY <1>4 DEF vars, EInv, Standing, HasRule, PortRule, Access, Raced
  <1>5. QED
    BY <1>2, <1>3, <1>4

\* An IptablesError is raised only when a command failed under the call, or by a
\* close of a port rule for which two calls have overlapped.
THEOREM ErrorsCaused == Spec => []ErrorsHaveCause
  <1>1. Init => EInv
    BY InitHolds DEF Init, EInv, Standing, Later
  <1>2. EInv /\ [Next]_vars => EInv'
    BY StepHolds, StepStands, OthersStand DEF EInv, Next
  <1>3. EInv => ErrorsHaveCause
    BY DEF EInv, Standing, ErrorsHaveCause
  <1>4. QED
    BY <1>1, <1>2, <1>3, PTL DEF Spec

-----------------------------------------------------------------------------
(* What is not saved is owed, for one process.                             *)

OInv(p) ==
  /\ live # saved => owed \/ pc[p] \in MidUpdate
  /\ pc[p] = "saving" => snap[p] = live

LEMMA InitOwes ==
  ASSUME NEW p, Procs = {p}, Init
  PROVE  OInv(p)
  BY DEF Init, OInv

LEMMA CommandOwes ==
  ASSUME NEW p, ControlOK, Procs = {p}, OInv(p), saved' = saved,
         \/ Raise(p)
         \/ Finish(p) /\ live' = live /\ pc[p] \notin MidUpdate
         \/ \E label \in PCs :
              /\ Goto(p, label)
              /\ \/ label \in MidUpdate \ {"saving"}
                 \/ label \notin MidUpdate /\ live' = live /\ pc[p] \notin MidUpdate
  PROVE  OInv(p)'
  <1>1. pc \in [Procs -> PCs] /\ p \in Procs
    BY DEF ControlOK
  <1>2. CASE Raise(p)
    BY <1>1, <1>2 DEF Raise, Leave, OInv, MidUpdate
  <1>3. CASE Finish(p) /\ live' = live /\ pc[p] \notin MidUpdate
    BY <1>1, <1>3 DEF Finish, Leave, OInv, MidUpdate
  <1>4. ASSUME NEW label \in PCs, Goto(p, label),
               \/ label \in MidUpdate \ {"saving"}
               \/ label \notin MidUpdate /\ live' = live /\ pc[p] \notin MidUpdate
        PROVE  OInv(p)'
    <2>1. pc'[p] = label /\ owed' = owed /\ label # "saving"
      BY <1>1, <1>4 DEF Goto, MidUpdate, PCs
    <2>2. QED
      BY <1>4, <2>1 DEF OInv
  <1>5. QED
    BY <1>2, <1>3, <1>4

LEMMA StepOwes ==
  ASSUME NEW p, IInv, Procs = {p}, OInv(p), Step(p)
  PROVE  OInv(p)'
  <1>1. ControlOK /\ p \in Procs
    BY IInvParts
  <1>2. \A r : \A o \in Outcomes(CheckRule(live, r)) : o.table = live
    BY CheckOutcome
  <1>3. CASE CheckPort(p)
    <2>1. /\ pc[p] = "check" /\ saved' = saved /\ live' = live
          /\ Raise(p) \/ Finish(p)
               \/ Goto(p, IF call[p].open THEN "new_chain" ELSE "delete")
      BY <1>2, <1>3 DEF CheckPort, Take
    <2>2. QED
      BY <1>1, <2>1, CommandOwes DEF MidUpdate, PCs
  <1>4. CASE CreateChain(p)
    <2>1. saved' = saved /\ (Raise(p) \/ Goto(p, "check_return"))
      BY <1>4 DEF CreateChain, Take
    <2>2. QED
      BY <1>1, <2>1, CommandOwes DEF MidUpdate, PCs
  <1>5. CASE CheckReturn(p) \/ CheckJump(p)
    <2>1. /\ saved' = saved
          /\ \/ Raise(p)
             \/ \E label \in {"add_return", "check_jump", "insert_jump", "insert"} :
                  Goto(p, label)
      BY <1>5 DEF CheckReturn, CheckJump, CheckSetup, Take
    <2>2. QED
      BY <1>1, <2>1, CommandOwes DEF MidUpdate, PCs
  <1>6. CASE AddReturn(p) \/ InsertJump(p) \/ InsertPort(p) \/ DeletePort(p)
    <2>1. /\ saved' = saved
          /\ Raise(p) \/ \E label \in {"check_jump", "insert", "save"} : Goto(p, label)
      BY <1>6 DEF AddReturn, InsertJump, InsertPort, DeletePort, RunTo, Take
    <2>2. QED
      BY <1>1, <2>1, CommandOwes DEF MidUpdate, PCs
  <1>7. CASE SaveStart(p)
    BY <1>1, <1>7 DEF SaveStart, Raise, Leave, OInv, MidUpdate, PCs, ControlOK
  <1>8. CASE SaveEnd(p)
    BY <1>1, <1>8 DEF SaveEnd, Raise, Leave, OInv, MidUpdate, PCs, ControlOK
  <1>9. QED
    BY <1>3, <1>4, <1>5, <1>6, <1>7, <1>8 DEF Step

LEMMA OthersOwe ==
  ASSUME NEW p, IInv, Procs = {p}, OInv(p),
         Begin(p) \/ Crash(p) \/ Reboot \/ UNCHANGED vars
  PROVE  OInv(p)'
  <1>1. ControlOK /\ p \in Procs
    BY IInvParts
  <1>2. CASE Begin(p)
    BY <1>1, <1>2 DEF Begin, OInv, MidUpdate, PCs, ControlOK
  <1>3. CASE Crash(p)
    BY <1>1, <1>3 DEF Crash, Leave, OInv, ControlOK
  <1>4. CASE Reboot
    BY <1>1, <1>4 DEF Reboot, OInv
  <1>5. CASE UNCHANGED vars
    BY <1>5 DEF vars, OInv
  <1>6. QED
    BY <1>2, <1>3, <1>4, <1>5

\* One process: the rules differ from the file only during a call that will save
\* them, or since a call that failed or was killed before it could.
THEOREM UnsavedOwed ==
  ASSUME NEW CONSTANT p, Procs = {p}
  PROVE  Spec => []UnsavedIsOwed
  <1>1. Init => IInv /\ OInv(p)
    BY InitHolds, InitOwes
  <1>2. IInv /\ OInv(p) /\ [Next]_vars => IInv' /\ OInv(p)'
    BY StepHolds, StepOwes, OthersOwe DEF Next
  <1>3. OInv(p) => UnsavedIsOwed
    BY DEF OInv, UnsavedIsOwed
  <1>4. QED
    BY <1>1, <1>2, <1>3, PTL DEF Spec

-----------------------------------------------------------------------------
(* Copies of a rule, for any processes.                                    *)

Where(s, x) == {i \in 1..Len(s) : s[i] = x}

Number(s, x) == Cardinality(Where(s, x))

LEMMA NumberFacts ==
  ASSUME NEW S, NEW s \in Seq(S), NEW x
  PROVE  /\ IsFiniteSet(Where(s, x)) /\ Number(s, x) \in Nat
         /\ ~Contains(s, x) => Number(s, x) = 0
  <1>1. Len(s) \in Nat
    BY LenProperties
  <1>2. IsFiniteSet(Where(s, x))
    <2>1. IsFiniteSet(1..Len(s))
      BY <1>1, FS_Interval
    <2>2. QED
      BY <2>1, FS_Subset DEF Where
  <1>3. ~Contains(s, x) => Where(s, x) = {}
    BY DEF Contains, Where
  <1>4. QED
    BY <1>2, <1>3, FS_CardinalityType, FS_EmptySet DEF Number

\* A sequence that has the copies of x of another, moved, and whatever is at the
\* place k.
LEMMA NumberMoved ==
  ASSUME NEW S, NEW s \in Seq(S), NEW r \in Seq(S), NEW x, NEW k \in 1..Len(r),
         NEW f \in Bijection(Where(s, x), Where(r, x) \ {k})
  PROVE  Number(r, x) = Number(s, x) + (IF x = r[k] THEN 1 ELSE 0)
  <1> DEFINE I == Where(r, x)
             J == Where(s, x)
  <1>1. IsFiniteSet(I) /\ IsFiniteSet(J) /\ Cardinality(J) \in Nat /\ Cardinality(I) \in Nat
    BY NumberFacts, FS_CardinalityType
  <1>2. Cardinality(I \ {k}) = Cardinality(J)
    BY <1>1, FS_Bijection DEF ExistsBijection
  <1>3. Cardinality(I \ {k}) = IF k \in I THEN Cardinality(I) - 1 ELSE Cardinality(I)
    BY <1>1, FS_RemoveElement
  <1>4. k \in I <=> x = r[k]
    BY DEF Where
  <1> HIDE DEF I, J
  <1>5. Cardinality(I) = Cardinality(J) + (IF x = r[k] THEN 1 ELSE 0)
    BY <1>1, <1>2, <1>3, <1>4
  <1>6. QED
    BY <1>5 DEF Number, I, J

LEMMA NumberAppended ==
  ASSUME NEW S, NEW s \in Seq(S), NEW e \in S, NEW x
  PROVE  Number(Append(s, e), x) = Number(s, x) + (IF x = e THEN 1 ELSE 0)
  <1> DEFINE r == Append(s, e)
             k == Len(s) + 1
             f == [i \in Where(s, x) |-> i]
  <1>1. /\ r \in Seq(S) /\ Len(r) = Len(s) + 1 /\ r[k] = e /\ Len(s) \in Nat
        /\ \A i \in 1..Len(s) : r[i] = s[i]
    BY AppendFacts, LenProperties
  <1> HIDE DEF r
  <1>2. k \in 1..Len(r) /\ \A i \in 1..Len(r) : i # k => i \in 1..Len(s)
    BY <1>1
  <1>3. Where(r, x) \ {k} = Where(s, x)
    BY <1>1, <1>2 DEF Where
  <1>4. f \in Bijection(Where(s, x), Where(r, x) \ {k})
    BY <1>3 DEF Bijection, Injection, Surjection, IsInjective
  <1> HIDE DEF k, f
  <1>5. Number(r, x) = Number(s, x) + (IF x = r[k] THEN 1 ELSE 0)
    BY <1>1, <1>2, <1>4, NumberMoved
  <1>6. QED
    BY <1>1, <1>5 DEF r

LEMMA NumberPushed ==
  ASSUME NEW S, NEW s \in Seq(S), NEW e \in S, NEW x
  PROVE  Number(<<e>> \o s, x) = Number(s, x) + (IF x = e THEN 1 ELSE 0)
  <1> DEFINE r == <<e>> \o s
             f == [i \in Where(s, x) |-> i + 1]
  <1>1. /\ r \in Seq(S) /\ Len(r) = Len(s) + 1 /\ r[1] = e /\ Len(s) \in Nat
        /\ \A i \in 1..Len(s) : r[i + 1] = s[i]
    BY PushFacts, LenProperties
  <1> HIDE DEF r
  <1>2. 1 \in 1..Len(r)
    BY <1>1
  <1>3. ASSUME NEW i \in Where(r, x) \ {1} PROVE i - 1 \in Where(s, x) /\ f[i - 1] = i
    <2>1. i - 1 \in 1..Len(s) /\ (i - 1) + 1 = i /\ i \in Nat
      BY <1>1 DEF Where
    <2>2. r[i] = s[i - 1]
      BY <1>1, <2>1
    <2>3. QED
      BY <2>1, <2>2 DEF Where
  <1>4. \A i \in Where(s, x) : f[i] \in Where(r, x) \ {1} /\ f[i] = i + 1 /\ i \in Nat
    BY <1>1 DEF Where
  <1>5. f \in [Where(s, x) -> Where(r, x) \ {1}] /\ DOMAIN f = Where(s, x)
    BY <1>4
  <1> HIDE DEF f
  <1>6. \A i, j \in Where(s, x) : f[i] = f[j] => i = j
    BY <1>4
  <1>7. f \in Bijection(Where(s, x), Where(r, x) \ {1})
    BY <1>3, <1>5, <1>6 DEF Bijection, Injection, Surjection, IsInjective
  <1>8. Number(r, x) = Number(s, x) + (IF x = r[1] THEN 1 ELSE 0)
    BY <1>1, <1>2, <1>7, NumberMoved
  <1>9. QED
    BY <1>1, <1>8 DEF r

LEMMA NumberRemoved ==
  ASSUME NEW S, NEW s \in Seq(S), NEW e, Contains(s, e), NEW x
  PROVE  Number(s, x) = Number(RemoveFirst(s, e), x) + (IF x = e THEN 1 ELSE 0)
  <1> DEFINE r == RemoveFirst(s, e)
  <1>1. PICK k \in 1..Len(s) :
          /\ s[k] = e
          /\ \A i \in 1..(Len(s) - 1) : r[i] = IF i < k THEN s[i] ELSE s[i + 1]
    BY RemoveFirstFacts
  <1>2. r \in Seq(S) /\ Len(r) = Len(s) - 1 /\ Len(s) \in Nat
    BY RemoveFirstFacts, LenProperties
  <1> HIDE DEF r
  <1> DEFINE f == [i \in Where(r, x) |-> IF i < k THEN i ELSE i + 1]
  <1>3. \A i \in Where(r, x) : f[i] \in Where(s, x) \ {k} /\ i \in Nat
    BY <1>1, <1>2 DEF Where
  <1>4. \A i, j \in Where(r, x) : f[i] = f[j] => i = j
    BY <1>3
  <1>5. ASSUME NEW j \in Where(s, x) \ {k} PROVE \E i \in Where(r, x) : f[i] = j
    <2>1. j \in 1..Len(s) /\ s[j] = x /\ j # k /\ k \in Nat
      BY DEF Where
    <2>2. CASE j < k
      <3>1. j \in 1..(Len(s) - 1)
        BY <1>2, <2>1, <2>2
      <3>2. j \in Where(r, x) /\ f[j] = j
        BY <1>1, <1>2, <2>1, <2>2, <3>1 DEF Where
      <3>3. QED
        BY <3>2
    <2>3. CASE j > k
      <3>1. j - 1 \in 1..(Len(s) - 1) /\ (j - 1) + 1 = j /\ ~(j - 1 < k)
        BY <1>2, <2>1, <2>3
      <3>2. r[j - 1] = x
        BY <1>1, <2>1, <3>1
      <3>3. j - 1 \in Where(r, x) /\ f[j - 1] = j
        BY <1>2, <3>1, <3>2 DEF Where
      <3>4. QED
        BY <3>3
    <2>4. QED
      BY <2>1, <2>2, <2>3
  <1>6. f \in [Where(r, x) -> Where(s, x) \ {k}] /\ DOMAIN f = Where(r, x)
    BY <1>3
  <1> HIDE DEF f
  <1>7. f \in Bijection(Where(r, x), Where(s, x) \ {k})
    BY <1>4, <1>5, <1>6 DEF Bijection, Injection, Surjection, IsInjective
  <1>8. QED
    BY <1>1, <1>2, <1>7, NumberMoved DEF r

LEMMA CopiesFacts ==
  ASSUME NEW t, Sound(t), NEW c \in AllChains, NEW x
  PROVE  /\ t.rules[c] \in Seq(Targets)
         /\ Copies(t, c, x) = Number(t.rules[c], x) /\ Copies(t, c, x) \in Nat
         /\ ~Contains(t.rules[c], x) => Copies(t, c, x) = 0
  <1>1. t.rules[c] \in Seq(Targets)
    BY DEF Sound, TableOK, Tables
  <1>2. DOMAIN t.rules[c] = 1..Len(t.rules[c])
    BY <1>1, LenProperties
  <1>3. Copies(t, c, x) = Number(t.rules[c], x)
    BY <1>2 DEF Copies, Number, Where
  <1>4. QED
    BY <1>1, <1>3, NumberFacts

LEMMA RewriteCopies ==
  ASSUME NEW t, Sound(t), NEW d \in AllChains, NEW r \in Seq(Targets),
         NEW c \in AllChains, NEW x
  PROVE  Copies(Rewrite(t, d, r), c, x) = IF c = d THEN Number(r, x) ELSE Copies(t, c, x)
  <1>1. t.rules \in [AllChains -> Seq(Targets)]
    BY DEF Sound, TableOK, Tables
  <1>2. Rewrite(t, d, r).rules[c] = IF c = d THEN r ELSE t.rules[c]
    BY <1>1 DEF Rewrite
  <1>3. DOMAIN r = 1..Len(r)
    BY LenProperties
  <1>4. CASE c = d
    BY <1>2, <1>3, <1>4 DEF Copies, Number, Where
  <1>5. CASE c # d
    BY <1>2, <1>5 DEF Copies
  <1>6. QED
    BY <1>4, <1>5

\* What a command makes of the copies of a rule.
LEMMA CommandCopies ==
  ASSUME NEW t, Sound(t), NEW d \in AllChains, NEW e \in Targets,
         NEW c \in AllChains, NEW x \in Targets
  PROVE  LET n == IF c = d /\ x = e THEN 1 ELSE 0
             A == AppendRule(t, Rule(d, e))
             I == InsertRule(t, Rule(d, e))
             D == DeleteRule(t, Rule(d, e))
         IN  /\ A.exit = 0 => Copies(A.table, c, x) = Copies(t, c, x) + n
             /\ I.exit = 0 => Copies(I.table, c, x) = Copies(t, c, x) + n
             /\ D.exit = 0 => Copies(t, c, x) = Copies(D.table, c, x) + n
             /\ Copies(A.table, c, x) \in Copies(t, c, x)..(Copies(t, c, x) + n)
             /\ Copies(I.table, c, x) \in Copies(t, c, x)..(Copies(t, c, x) + n)
             /\ Copies(D.table, c, x) \in 0..Copies(t, c, x)
  <1> DEFINE s == t.rules[d]
             n == IF c = d /\ x = e THEN 1 ELSE 0
             A == AppendRule(t, Rule(d, e))
             I == InsertRule(t, Rule(d, e))
             D == DeleteRule(t, Rule(d, e))
             k == Copies(t, c, x)
  <1>1. s \in Seq(Targets) /\ k \in Nat /\ n \in Nat /\ Number(s, x) \in Nat
    BY CopiesFacts, NumberFacts
  <1>2. c = d => k = Number(s, x)
    BY CopiesFacts
  <1>3. ASSUME NEW r \in Seq(Targets)
        PROVE  /\ Copies(Rewrite(t, d, r), c, x) =
                    IF c = d THEN Number(r, x) ELSE k
               /\ Number(r, x) \in Nat
    BY RewriteCopies, NumberFacts
  <1>4. /\ A \in {Reply(0, Rewrite(t, d, Append(s, e))), Reply(1, t)}
        /\ I \in {Reply(0, Rewrite(t, d, <<e>> \o s)), Reply(1, t)}
        /\ \/ D = Reply(0, Rewrite(t, d, RemoveFirst(s, e))) /\ Contains(s, e)
           \/ D = Reply(1, t)
    BY DEF AppendRule, InsertRule, DeleteRule, HasRule, Rule
  <1>5. \A i, u : Reply(i, u).exit = i /\ Reply(i, u).table = u
    BY DEF Reply
  <1>6. Copies(Rewrite(t, d, Append(s, e)), c, x) = k + n
    <2>1. /\ Append(s, e) \in Seq(Targets)
          /\ Number(Append(s, e), x) = Number(s, x) + (IF x = e THEN 1 ELSE 0)
      BY <1>1, AppendFacts, NumberAppended
    <2>2. Copies(Rewrite(t, d, Append(s, e)), c, x) =
            IF c = d THEN Number(Append(s, e), x) ELSE k
      BY <1>3, <2>1
    <2>3. CASE c = d
      BY <1>1, <1>2, <2>1, <2>2, <2>3
    <2>4. CASE c # d
      BY <1>1, <2>2, <2>4
    <2>5. QED
      BY <2>3, <2>4
  <1>7. Copies(Rewrite(t, d, <<e>> \o s), c, x) = k + n
    <2>1. /\ <<e>> \o s \in Seq(Targets)
          /\ Number(<<e>> \o s, x) = Number(s, x) + (IF x = e THEN 1 ELSE 0)
      BY <1>1, PushFacts, NumberPushed
    <2>2. Copies(Rewrite(t, d, <<e>> \o s), c, x) =
            IF c = d THEN Number(<<e>> \o s, x) ELSE k
      BY <1>3, <2>1
    <2>3. CASE c = d
      BY <1>1, <1>2, <2>1, <2>2, <2>3
    <2>4. CASE c # d
      BY <1>1, <2>2, <2>4
    <2>5. QED
      BY <2>3, <2>4
  <1>8. Contains(s, e) =>
          /\ k = Copies(Rewrite(t, d, RemoveFirst(s, e)), c, x) + n
          /\ Copies(Rewrite(t, d, RemoveFirst(s, e)), c, x) \in Nat
    <2>1. SUFFICES ASSUME Contains(s, e)
                   PROVE  /\ k = Copies(Rewrite(t, d, RemoveFirst(s, e)), c, x) + n
                          /\ Copies(Rewrite(t, d, RemoveFirst(s, e)), c, x) \in Nat
      OBVIOUS
    <2>2. RemoveFirst(s, e) \in Seq(Targets)
      BY <1>1, <2>1, RemoveFirstFacts
    <2>3. Number(s, x) = Number(RemoveFirst(s, e), x) + (IF x = e THEN 1 ELSE 0)
      BY <1>1, <2>1, NumberRemoved
    <2>4. QED
      BY <1>1, <1>2, <1>3, <2>2, <2>3
  <1> HIDE DEF A, I, D, k, n
  <1>9. /\ \/ A.exit = 0 /\ Copies(A.table, c, x) = k + n
           \/ A.exit = 1 /\ A.table = t
        /\ \/ I.exit = 0 /\ Copies(I.table, c, x) = k + n
           \/ I.exit = 1 /\ I.table = t
        /\ \/ /\ D.exit = 0 /\ k = Copies(D.table, c, x) + n
              /\ Copies(D.table, c, x) \in Nat
           \/ D.exit = 1 /\ D.table = t
    BY <1>4, <1>5, <1>6, <1>7, <1>8
  <1>10. /\ A.exit = 0 => Copies(A.table, c, x) = k + n
         /\ I.exit = 0 => Copies(I.table, c, x) = k + n
         /\ D.exit = 0 => k = Copies(D.table, c, x) + n
         /\ Copies(A.table, c, x) \in k..(k + n)
         /\ Copies(I.table, c, x) \in k..(k + n)
         /\ Copies(D.table, c, x) \in 0..k
    BY <1>1, <1>9 DEF k
  <1>11. QED
    BY <1>10 DEF A, I, D, k, n

-----------------------------------------------------------------------------
(* What a step does to the port rules in effect, for any processes.        *)

LEMMA InEffectFacts ==
  ASSUME NEW t, Sound(t), NEW c \in Chains, NEW x \in Ports
  PROVE  LET a == [chain |-> c, port |-> x]
         IN  /\ a \in Accesses
             /\ InEffect(t)[a] = Copies(t, c, x) /\ InEffect(t)[a] \in Nat
             /\ InEffect(t)[a] > 0 <=> HasRule(t, Rule(c, x))
             /\ InEffect(t)[a] > 0 <=> a \in Effective(t)
  <1> DEFINE a == [chain |-> c, port |-> x]
  <1>1. /\ a \in Accesses /\ a.chain = c /\ a.port = x /\ c \in AllChains
        /\ DOMAIN t.rules[c] = 1..Len(t.rules[c])
    BY TableFacts DEF Accesses, AllChains
  <1>2. InEffect(t)[a] = Cardinality(Met(t, a))
    BY <1>1 DEF InEffect
  <1>3. Met(t, a) = {i \in DOMAIN t.rules[c] : t.rules[c][i] = x}
    BY <1>1, MetFacts
  <1>4. InEffect(t)[a] = Copies(t, c, x) /\ Copies(t, c, x) \in Nat
    <2>1. Copies(t, c, x) = Cardinality(Met(t, a))
      BY <1>3 DEF Copies
    <2>2. QED
      BY <1>1, <1>2, <2>1, CopiesFacts
  <1>5. HasRule(t, Rule(c, x)) <=> Met(t, a) # {}
    BY <1>1, <1>3 DEF HasRule, Rule, Contains
  <1>6. a \in Effective(t) <=> Met(t, a) # {}
    BY <1>1 DEF Effective
  <1>7. Met(t, a) = {} <=> Copies(t, c, x) = 0
    <2>1. IsFiniteSet(Met(t, a))
      <3>1. t.rules[c] \in Seq(Targets)
        BY <1>1, CopiesFacts
      <3>2. IsFiniteSet(Where(t.rules[c], x))
        BY <3>1, NumberFacts
      <3>3. QED
        BY <1>1, <1>3, <3>2 DEF Where
    <2>2. QED
      BY <1>2, <1>4, <2>1, FS_EmptySet
  <1> HIDE DEF a
  <1>8. /\ a \in Accesses
        /\ InEffect(t)[a] = Copies(t, c, x) /\ InEffect(t)[a] \in Nat
        /\ InEffect(t)[a] > 0 <=> HasRule(t, Rule(c, x))
        /\ InEffect(t)[a] > 0 <=> a \in Effective(t)
    BY <1>1, <1>4, <1>5, <1>6, <1>7
  <1>9. QED
    BY <1>8 DEF a

\* InEffect is a function of the accesses.
LEMMA InEffectSame ==
  ASSUME NEW t, Sound(t), NEW u, Sound(u),
         \A c \in Chains, x \in Ports : Copies(u, c, x) = Copies(t, c, x)
  PROVE  InEffect(u) = InEffect(t)
  <1>1. ASSUME NEW a \in Accesses PROVE InEffect(u)[a] = InEffect(t)[a]
    <2>1. PICK c \in Chains, x \in Ports : a = [chain |-> c, port |-> x]
      BY DEF Accesses
    <2>2. QED
      BY <2>1, InEffectFacts
  <1>2. InEffect(t) = [a \in Accesses |-> InEffect(t)[a]]
        /\ InEffect(u) = [a \in Accesses |-> InEffect(u)[a]]
    BY DEF InEffect
  <1>3. [a \in Accesses |-> InEffect(u)[a]] = [a \in Accesses |-> InEffect(t)[a]]
    BY <1>1
  <1>4. QED
    BY <1>2, <1>3

\* The numbers of copies f, but for those of a.
Changed(f, a, n) == [f EXCEPT ![a] = n]

\* One copy more, or one less, of one access.
LEMMA InEffectOther ==
  ASSUME NEW t, Sound(t), NEW u, Sound(u), NEW c \in Chains, NEW x \in Ports, NEW n \in Nat,
         Copies(u, c, x) = n,
         \A d \in Chains, y \in Ports :
           ~(d = c /\ y = x) => Copies(u, d, y) = Copies(t, d, y)
  PROVE  InEffect(u) = Changed(InEffect(t), [chain |-> c, port |-> x], n)
  <1> DEFINE b == [chain |-> c, port |-> x]
  <1>1. ASSUME NEW a \in Accesses
        PROVE  InEffect(u)[a] = IF a = b THEN n ELSE InEffect(t)[a]
    <2>1. PICK d \in Chains, y \in Ports : a = [chain |-> d, port |-> y]
      BY DEF Accesses
    <2>2. InEffect(u)[a] = Copies(u, d, y) /\ InEffect(t)[a] = Copies(t, d, y)
      BY <2>1, InEffectFacts
    <2>3. a = b <=> d = c /\ y = x
      BY <2>1
    <2>4. QED
      BY <2>2, <2>3
  <1> HIDE DEF b
  <1>2. InEffect(t) = [a \in Accesses |-> InEffect(t)[a]]
        /\ InEffect(u) = [a \in Accesses |-> InEffect(u)[a]]
    BY DEF InEffect
  <1>3. [a \in Accesses |-> InEffect(u)[a]]
          = [a \in Accesses |-> IF a = b THEN n ELSE InEffect(t)[a]]
    BY <1>1
  <1>4. Changed(InEffect(t), b, n)
          = [a \in Accesses |-> IF a = b THEN n ELSE InEffect(t)[a]]
    BY <1>2 DEF Changed
  <1>5. QED
    BY <1>2, <1>3, <1>4 DEF b

\* What the commands of a call do to the port rules in effect.
LEMMA PortCommands ==
  ASSUME NEW t, Sound(t), NEW c \in Chains, NEW x \in Ports
  PROVE  LET a == [chain |-> c, port |-> x]
             k == InEffect(t)[a]
             I == InsertRule(t, Rule(c, x))
             D == DeleteRule(t, Rule(c, x))
         IN  /\ InEffect(NewChain(t, c).table) = InEffect(t)
             /\ InEffect(AppendRule(t, Rule(c, Return)).table) = InEffect(t)
             /\ InEffect(InsertRule(t, Rule(Input, c)).table) = InEffect(t)
             /\ Contains(t.rules[Input], c) /\ I.exit = 0 =>
                  InEffect(I.table) = Changed(InEffect(t), a, k + 1)
             /\ D.exit = 0 =>
                  k > 0 /\ InEffect(D.table) = Changed(InEffect(t), a, k - 1)
             /\ I.exit # 0 => I.table = t
             /\ D.exit # 0 => D.table = t
  <1> DEFINE a == [chain |-> c, port |-> x]
             k == InEffect(t)[a]
             I == InsertRule(t, Rule(c, x))
             D == DeleteRule(t, Rule(c, x))
             N == NewChain(t, c)
             A == AppendRule(t, Rule(c, Return))
             J == InsertRule(t, Rule(Input, c))
  <1>1. /\ Chains \subseteq AllChains /\ Input \in AllChains /\ Input \notin Chains
        /\ Ports \subseteq Targets /\ Chains \subseteq Targets /\ Return \in Targets
        /\ Return \notin Ports
    BY NamesAssumption DEF AllChains, Targets
  <1>2. k = Copies(t, c, x) /\ k \in Nat /\ (k > 0 <=> HasRule(t, Rule(c, x)))
    BY InEffectFacts
  <1>3. \A d \in Chains, y \in Ports : Copies(t, d, y) \in Nat
    BY <1>1, CopiesFacts
  <1> HIDE DEF k
  <1>4. InEffect(N.table) = InEffect(t)
    <2>1. Sound(N.table) /\ N.table.rules = t.rules
      BY NewChainSound
    <2> HIDE DEF N
    <2>2. QED
      BY <2>1, InEffectSame DEF Copies
  <1>5. InEffect(A.table) = InEffect(t)
    <2>1. Sound(A.table)
      BY AddReturnSound
    <2>2. ASSUME NEW d \in Chains, NEW y \in Ports
          PROVE  Copies(A.table, d, y) = Copies(t, d, y)
      <3>1. d \in AllChains /\ y \in Targets /\ c \in AllChains /\ Return \in Targets
            /\ ~(d = c /\ y = Return)
        BY <1>1
      <3>2. Copies(A.table, d, y) \in Copies(t, d, y)..(Copies(t, d, y) + 0)
        BY <3>1, CommandCopies
      <3>3. QED
        BY <1>3, <3>2
    <2> HIDE DEF A
    <2>3. QED
      BY <2>1, <2>2, InEffectSame
  <1>6. InEffect(J.table) = InEffect(t)
    <2>1. Sound(J.table) /\ \A d \in Chains : J.table.rules[d] = t.rules[d]
      BY InsertJumpSound
    <2> HIDE DEF J
    <2>2. QED
      BY <2>1, InEffectSame DEF Copies
  <1>7. Contains(t.rules[Input], c) /\ I.exit = 0 =>
          InEffect(I.table) = Changed(InEffect(t), a, k + 1)
    <2>1. SUFFICES ASSUME Contains(t.rules[Input], c), I.exit = 0
                   PROVE  InEffect(I.table) = Changed(InEffect(t), a, k + 1)
      OBVIOUS
    <2>2. Sound(I.table)
      BY <2>1, InsertPortSound
    <2>3. ASSUME NEW d \in Chains, NEW y \in Ports
          PROVE  Copies(I.table, d, y) =
                   Copies(t, d, y) + (IF d = c /\ y = x THEN 1 ELSE 0)
      <3>1. d \in AllChains /\ y \in Targets /\ c \in AllChains /\ x \in Targets
        BY <1>1
      <3>2. QED
        BY <2>1, <3>1, CommandCopies
    <2> HIDE DEF I
    <2>4. /\ Copies(I.table, c, x) = k + 1
          /\ \A d \in Chains, y \in Ports :
               ~(d = c /\ y = x) => Copies(I.table, d, y) = Copies(t, d, y)
      BY <1>2, <1>3, <2>3
    <2>5. QED
      BY <1>2, <2>2, <2>4, InEffectOther
  <1>8. D.exit = 0 => k > 0 /\ InEffect(D.table) = Changed(InEffect(t), a, k - 1)
    <2>1. SUFFICES ASSUME D.exit = 0
                   PROVE  k > 0 /\ InEffect(D.table) = Changed(InEffect(t), a, k - 1)
      OBVIOUS
    <2>2. Sound(D.table) /\ k > 0
      BY <1>2, <2>1, DeletePortSound DEF DeleteRule, Reply
    <2>3. ASSUME NEW d \in Chains, NEW y \in Ports
          PROVE  /\ Copies(t, d, y) =
                      Copies(D.table, d, y) + (IF d = c /\ y = x THEN 1 ELSE 0)
                 /\ Copies(D.table, d, y) \in Nat
      <3>1. d \in AllChains /\ y \in Targets /\ c \in AllChains /\ x \in Targets
        BY <1>1
      <3>2. Copies(t, d, y) = Copies(D.table, d, y) + (IF d = c /\ y = x THEN 1 ELSE 0)
        BY <2>1, <3>1, CommandCopies
      <3>3. Copies(D.table, d, y) \in Nat
        BY <2>2, <3>1, CopiesFacts
      <3>4. QED
        BY <3>2, <3>3
    <2> HIDE DEF D
    <2>4. /\ Copies(D.table, c, x) = k - 1 /\ k - 1 \in Nat
          /\ \A d \in Chains, y \in Ports :
               ~(d = c /\ y = x) => Copies(D.table, d, y) = Copies(t, d, y)
      BY <1>2, <1>3, <2>3
    <2>5. QED
      BY <1>2, <2>2, <2>4, InEffectOther
  <1>9. (I.exit # 0 => I.table = t) /\ (D.exit # 0 => D.table = t)
    BY DEF InsertRule, DeleteRule, Reply
  <1>10. QED
    BY <1>4, <1>5, <1>6, <1>7, <1>8, <1>9 DEF k

\* The same, of the commands that open and close an access.
LEMMA AccessCommands ==
  ASSUME NEW t, Sound(t), NEW a \in Accesses
  PROVE  LET I == InsertRule(t, Rule(a.chain, a.port))
             D == DeleteRule(t, Rule(a.chain, a.port))
         IN  /\ I.exit \in {0, 1} /\ D.exit \in {0, 1}
             /\ Contains(t.rules[Input], a.chain) /\ I.exit = 0 =>
                  InEffect(I.table) = Changed(InEffect(t), a, InEffect(t)[a] + 1)
             /\ D.exit = 0 =>
                  /\ InEffect(t)[a] > 0
                  /\ InEffect(D.table) = Changed(InEffect(t), a, InEffect(t)[a] - 1)
             /\ I.exit # 0 => I.table = t
             /\ D.exit # 0 => D.table = t
  <1>1. PICK c \in Chains, x \in Ports : a = [chain |-> c, port |-> x]
    BY DEF Accesses
  <1>2. a.chain = c /\ a.port = x
    BY <1>1
  <1> DEFINE I == InsertRule(t, Rule(c, x))
             D == DeleteRule(t, Rule(c, x))
             b == [chain |-> c, port |-> x]
  <1>3. I.exit \in {0, 1} /\ D.exit \in {0, 1}
    BY Successes
  <1>4. /\ Contains(t.rules[Input], c) /\ I.exit = 0 =>
             InEffect(I.table) = Changed(InEffect(t), b, InEffect(t)[b] + 1)
        /\ D.exit = 0 =>
             /\ InEffect(t)[b] > 0
             /\ InEffect(D.table) = Changed(InEffect(t), b, InEffect(t)[b] - 1)
        /\ I.exit # 0 => I.table = t
        /\ D.exit # 0 => D.table = t
    BY PortCommands
  <1> HIDE DEF I, D
  <1>5. QED
    BY <1>1, <1>2, <1>3, <1>4 DEF I, D

\* The step leaves the port rules in effect alone, opens or closes the one of
\* the call.
Count(p) == InEffect(live)[Access(p)]
Same == InEffect(live') = InEffect(live)
Opened(p) == InEffect(live') = Changed(InEffect(live), Access(p), Count(p) + 1)
Closed(p) ==
  Count(p) > 0 /\ InEffect(live') = Changed(InEffect(live), Access(p), Count(p) - 1)

LEMMA CountFacts ==
  ASSUME IInv, NEW p \in Procs
  PROVE  /\ Access(p) \in Accesses /\ Count(p) \in Nat
         /\ Count(p) > 0 <=> HasRule(live, PortRule(p))
         /\ Count(p) > 0 <=> Access(p) \in Effective(live)
  <1>1. Sound(live) /\ call[p].chain \in Chains /\ call[p].port \in Ports
    BY IInvParts, CallFacts
  <1>2. QED
    BY <1>1, InEffectFacts DEF Count, Access, PortRule

\* The lookup of a call: what it answers is so, unless a -C that failed with 1
\* has hidden a rule that is there.
LEMMA CheckPortEffect ==
  ASSUME IInv, NEW p \in Procs, CheckPort(p)
  PROVE  /\ pc[p] = "check" /\ UNCHANGED <<live, saved, call>>
         /\ \/ Raise(p)
            \/ Finish(p) /\ ((call[p].open <=> Count(p) > 0)
                               \/ (1 \in FaultCodes /\ ~call[p].open))
            \/ /\ call[p].open /\ (Count(p) = 0 \/ 1 \in FaultCodes)
               /\ Goto(p, "new_chain")
            \/ ~call[p].open /\ Goto(p, "delete")
  <1> DEFINE r == CheckRule(live, PortRule(p))
  <1>1. PICK o \in Outcomes(r) :
          /\ Take(p, o) /\ pc[p] = "check"
          /\ \/ Raise(p)
             \/ /\ HasIptablesRule(o.exit) # "raises"
                /\ call[p].open = (HasIptablesRule(o.exit) = "yes") /\ Finish(p)
             \/ /\ HasIptablesRule(o.exit) # "raises"
                /\ call[p].open # (HasIptablesRule(o.exit) = "yes")
                /\ Goto(p, IF call[p].open THEN "new_chain" ELSE "delete")
    BY DEF CheckPort
  <1>2. call[p].open \in BOOLEAN /\ Count(p) \in Nat /\ faults \in 0..MaxFaults
        /\ (Count(p) > 0 <=> HasRule(live, PortRule(p)))
    BY IInvParts, CallFacts, CountFacts DEF ControlOK
  <1>3. /\ r.exit \in {0, 1} /\ r.table = live
        /\ r.exit = 0 <=> HasRule(live, PortRule(p))
    BY DEF CheckRule, Reply
  <1> HIDE DEF r
  <1>4. /\ o.table = live /\ o.exit \in ExitCodes /\ o.fault \in BOOLEAN
        /\ o.exit = 0 => ~o.fault
        /\ ~o.fault => o.exit = r.exit
    BY <1>2, <1>3, OutcomeFacts
  <1>5. o.fault => o.exit \in FaultCodes
    BY FaultCode
  <1>6. /\ HasIptablesRule(o.exit) = "yes" => Count(p) > 0
        /\ HasIptablesRule(o.exit) = "no" => Count(p) = 0 \/ 1 \in FaultCodes
        /\ HasIptablesRule(o.exit) \in {"yes", "no", "raises"}
    <2>1. HasIptablesRule(o.exit) = "no" => o.exit = 1
      BY <1>4 DEF HasIptablesRule, Raises, IsFatalIptablesCode, ExitCodes, NoCode, AnyCode
    <2>2. HasIptablesRule(o.exit) = "yes" => o.exit = 0
      BY <1>4, HasRuleFacts
    <2>3. QED
      BY <1>2, <1>3, <1>4, <1>5, <2>1, <2>2, HasRuleFacts
  <1>7. UNCHANGED <<live, saved, call>>
    BY <1>1, <1>4 DEF Take
  <1>8. QED
    BY <1>1, <1>2, <1>6, <1>7

\* Setting up the chain, RETURN and the jump.
LEMMA SetupEffect ==
  ASSUME IInv, NEW p \in Procs,
         CreateChain(p) \/ CheckReturn(p) \/ AddReturn(p) \/ CheckJump(p) \/ InsertJump(p)
  PROVE  /\ pc[p] \in Opening \ {"insert"} /\ UNCHANGED <<saved, call>> /\ Same
         /\ Raise(p) \/ \E label \in Opening : Goto(p, label)
  <1> DEFINE c == call[p].chain
  <1>1. Sound(live) /\ c \in Chains /\ call[p].port \in Ports /\ faults \in 0..MaxFaults
    BY IInvParts, CallFacts DEF ControlOK
  <1>2. ASSUME NEW r, r.exit \in {0, 1}, InEffect(r.table) = InEffect(live),
               NEW o \in Outcomes(r), Take(p, o)
        PROVE  Same /\ UNCHANGED <<saved, call>>
    <2>1. o.table \in {live, r.table}
      BY <1>1, <1>2, OutcomeFacts
    <2>2. QED
      BY <1>2, <2>1 DEF Take, Same
  <1>3. CASE CreateChain(p)
    <2> DEFINE r == NewChain(live, c)
    <2>1. \E o \in Outcomes(r) : Take(p, o) /\ (Raise(p) \/ Goto(p, "check_return"))
      BY <1>3 DEF CreateChain
    <2>2. r.exit \in {0, 1} /\ InEffect(r.table) = InEffect(live)
      BY <1>1, Successes, PortCommands
    <2> HIDE DEF r
    <2>3. QED
      BY <1>2, <1>3, <2>1, <2>2 DEF Opening, CreateChain
  <1>4. CASE CheckReturn(p) \/ CheckJump(p)
    <2>1. PICK rule : \E o \in Outcomes(CheckRule(live, rule)) :
            /\ Take(p, o)
            /\ Raise(p) \/ \E label \in Opening : Goto(p, label)
      BY <1>4 DEF CheckReturn, CheckJump, CheckSetup, Opening
    <2> DEFINE r == CheckRule(live, rule)
    <2>2. r.exit \in {0, 1} /\ r.table = live
      BY CheckFacts
    <2> HIDE DEF r
    <2>3. \E o \in Outcomes(r) :
            /\ Take(p, o)
            /\ Raise(p) \/ \E label \in Opening : Goto(p, label)
      BY <2>1 DEF r
    <2>4. pc[p] \in Opening \ {"insert"}
      BY <1>4 DEF CheckReturn, CheckJump, CheckSetup, Opening
    <2>5. QED
      BY <1>2, <2>2, <2>3, <2>4
  <1>5. CASE AddReturn(p)
    <2> DEFINE r == AppendRule(live, Rule(c, Return))
    <2>1. r.exit \in {0, 1} /\ InEffect(r.table) = InEffect(live)
      BY <1>1, Successes, PortCommands
    <2>2. \E o \in Outcomes(r) : Take(p, o) /\ (Raise(p) \/ Goto(p, "check_jump"))
      BY <1>5 DEF AddReturn, RunTo, ReturnRule
    <2> HIDE DEF r
    <2>3. pc[p] = "add_return"
      BY <1>5 DEF AddReturn, RunTo
    <2>4. QED
      BY <1>2, <2>1, <2>2, <2>3 DEF Opening
  <1>6. CASE InsertJump(p)
    <2> DEFINE r == InsertRule(live, Rule(Input, c))
    <2>1. r.exit \in {0, 1} /\ InEffect(r.table) = InEffect(live)
      BY <1>1, Successes, PortCommands
    <2>2. \E o \in Outcomes(r) : Take(p, o) /\ (Raise(p) \/ Goto(p, "insert"))
      BY <1>6 DEF InsertJump, RunTo, JumpRule
    <2> HIDE DEF r
    <2>3. pc[p] = "insert_jump"
      BY <1>6 DEF InsertJump, RunTo
    <2>4. QED
      BY <1>2, <2>1, <2>2, <2>3 DEF Opening
  <1>7. QED
    BY <1>3, <1>4, <1>5, <1>6

\* The command that must succeed: when it does, it had its effect.
LEMMA RunToEffect ==
  ASSUME IInv, NEW p \in Procs, NEW at, NEW r, r.exit \in {0, 1}, NEW next,
         RunTo(p, at, r, next), r.exit # 0 => r.table = live
  PROVE  /\ pc[p] = at /\ UNCHANGED <<saved, call>>
         /\ \/ Goto(p, next) /\ r.exit = 0 /\ live' = r.table
            \/ Raise(p) /\ (live' = live \/ (r.exit = 0 /\ live' = r.table))
  <1>1. PICK o \in Outcomes(r) :
          /\ Take(p, o) /\ pc[p] = at
          /\ Raise(p) \/ (Goto(p, next) /\ r.exit = 0 /\ live' = r.table)
    BY RunToFacts
  <1>2. o.table \in {live, r.table}
    BY OutcomeFacts DEF IInv, TypeOK
  <1>3. QED
    BY <1>1, <1>2 DEF Take

LEMMA InsertPortEffect ==
  ASSUME IInv, NEW p \in Procs, InsertPort(p)
  PROVE  /\ pc[p] = "insert" /\ call[p].open /\ UNCHANGED <<saved, call>>
         /\ (Raise(p) /\ Same) \/ (Opened(p) /\ (Raise(p) \/ Goto(p, "save")))
  <1> DEFINE r == InsertRule(live, PortRule(p))
  <1>1. /\ Sound(live) /\ Access(p) \in Accesses /\ call[p].open
        /\ Contains(live.rules[Input], call[p].chain)
    BY IInvParts, CallFacts, CountFacts, ReadyFacts DEF InsertPort, RunTo, Opening
  <1>2. /\ Access(p).chain = call[p].chain
        /\ PortRule(p) = Rule(Access(p).chain, Access(p).port)
    BY DEF Access, PortRule
  <1>3. RunTo(p, "insert", r, "save")
    BY DEF InsertPort
  <1>4. /\ r.exit = 0 => InEffect(r.table) =
             Changed(InEffect(live), Access(p), InEffect(live)[Access(p)] + 1)
        /\ r.exit # 0 => r.table = live
        /\ r.exit \in {0, 1}
    BY <1>1, <1>2, AccessCommands
  <1> HIDE DEF r
  <1>5. /\ pc[p] = "insert" /\ UNCHANGED <<saved, call>>
        /\ \/ Goto(p, "save") /\ r.exit = 0 /\ live' = r.table
           \/ Raise(p) /\ (live' = live \/ (r.exit = 0 /\ live' = r.table))
    BY <1>3, <1>4, RunToEffect
  <1>6. QED
    BY <1>1, <1>4, <1>5 DEF Same, Opened, Count

LEMMA DeletePortEffect ==
  ASSUME IInv, NEW p \in Procs, DeletePort(p)
  PROVE  /\ pc[p] = "delete" /\ ~call[p].open /\ UNCHANGED <<saved, call>>
         /\ (Raise(p) /\ Same) \/ (Closed(p) /\ (Raise(p) \/ Goto(p, "save")))
  <1> DEFINE r == DeleteRule(live, PortRule(p))
  <1>1. Sound(live) /\ Access(p) \in Accesses /\ ~call[p].open
    BY IInvParts, CountFacts, ReadyFacts DEF DeletePort, RunTo
  <1>2. PortRule(p) = Rule(Access(p).chain, Access(p).port)
    BY DEF Access, PortRule
  <1>3. RunTo(p, "delete", r, "save")
    BY DEF DeletePort
  <1>4. /\ r.exit = 0 =>
             /\ InEffect(live)[Access(p)] > 0
             /\ InEffect(r.table) =
                  Changed(InEffect(live), Access(p), InEffect(live)[Access(p)] - 1)
        /\ r.exit # 0 => r.table = live
        /\ r.exit \in {0, 1}
    BY <1>1, <1>2, AccessCommands
  <1> HIDE DEF r
  <1>5. /\ pc[p] = "delete" /\ UNCHANGED <<saved, call>>
        /\ \/ Goto(p, "save") /\ r.exit = 0 /\ live' = r.table
           \/ Raise(p) /\ (live' = live \/ (r.exit = 0 /\ live' = r.table))
    BY <1>3, <1>4, RunToEffect
  <1>6. QED
    BY <1>1, <1>4, <1>5 DEF Same, Closed, Count

\* What a step of p leaves alone, and where dumps and files come from.
Elsewhere(p) ==
  /\ \A q \in Procs \ {p} : pc'[q] = pc[q] /\ call'[q] = call[q] /\ result'[q] = result[q]
  /\ saved' \in {saved, snap[p]}
  /\ \A q \in Procs : snap'[q] \in {snap[q], live, NoTable}
  /\ faults <= faults'
  /\ Begin(p) \/ users' = users

LEMMA StepElsewhere ==
  ASSUME IInv, NEW p \in Procs, Begin(p) \/ Step(p) \/ Crash(p)
  PROVE  Elsewhere(p)
  <1>1. /\ pc \in [Procs -> PCs] /\ call \in [Procs -> Calls] /\ snap \in [Procs -> Tables]
        /\ result \in [Procs -> {"none", "ok", "error"}] /\ faults \in Nat
    BY FaultsAssumption DEF IInv, TypeOK
  <1>2. ASSUME NEW o, Take(p, o),
               Finish(p) \/ Raise(p) \/ \E label : Goto(p, label)
        PROVE  Elsewhere(p)
    <2>1. saved' = saved /\ call' = call /\ faults <= faults'
      BY <1>1, <1>2 DEF Take, Suffer
    <2>2. /\ \A q \in Procs \ {p} : pc'[q] = pc[q] /\ result'[q] = result[q]
          /\ \A q \in Procs : snap'[q] \in {snap[q], live, NoTable}
          /\ users' = users
      BY <1>1, <1>2 DEF Finish, Raise, Leave, Goto
    <2>3. QED
      BY <2>1, <2>2 DEF Elsewhere
  <1>3. CASE Begin(p)
    <2>1. /\ \E c : call' = [call EXCEPT ![p] = c]
          /\ pc' = [pc EXCEPT ![p] = "check"] /\ result' = [result EXCEPT ![p] = "none"]
          /\ UNCHANGED <<saved, snap, faults>>
      BY <1>3 DEF Begin
    <2>2. \A q \in Procs \ {p} :
            pc'[q] = pc[q] /\ call'[q] = call[q] /\ result'[q] = result[q]
      BY <1>1, <2>1
    <2>3. QED
      BY <1>1, <1>3, <2>1, <2>2 DEF Elsewhere
  <1>4. CASE CheckPort(p)
    BY <1>2, <1>4 DEF CheckPort
  <1>5. CASE CreateChain(p)
    BY <1>2, <1>5 DEF CreateChain
  <1>6. CASE CheckReturn(p) \/ CheckJump(p)
    BY <1>2, <1>6 DEF CheckReturn, CheckJump, CheckSetup
  <1>7. CASE AddReturn(p) \/ InsertJump(p) \/ InsertPort(p) \/ DeletePort(p)
    BY <1>2, <1>7 DEF AddReturn, InsertJump, InsertPort, DeletePort, RunTo
  <1>8. CASE SaveStart(p)
    BY <1>1, <1>8 DEF SaveStart, Suffer, Raise, Leave, Elsewhere
  <1>9. CASE SaveEnd(p)
    BY <1>1, <1>9 DEF SaveEnd, Suffer, Raise, Leave, Elsewhere
  <1>10. CASE Crash(p)
    BY <1>1, <1>10 DEF Crash, Suffer, Leave, Elsewhere
  <1>11. QED
    BY <1>3, <1>4, <1>5, <1>6, <1>7, <1>8, <1>9, <1>10 DEF Step

-----------------------------------------------------------------------------
(* A call that returns was applied, for any processes.                     *)

\* The port rules of which no two calls overlapped have one copy at most.
Unraced == {a \in Accesses : ~Raced(a)}

Few(t, A) == \A a \in A : InEffect(t)[a] <= 1

\* What the lookup of a call has found stays so until the call changes it.
Applied(p) ==
  /\ pc[p] # "idle" => p \in users[Access(p)] /\ result[p] = "none"
  /\ users[Access(p)] = {p} =>
       /\ pc[p] \in Opening => Count(p) = 0
       /\ pc[p] \in {"save", "saving"} \/ result[p] = "ok" =>
            (Count(p) > 0 <=> call[p].open)

AInv ==
  /\ Few(live, Unraced) /\ Few(saved, Unraced)
  /\ \A p \in Procs : Few(snap[p], Unraced)
  /\ \A p \in Procs : Applied(p)

LEMMA NothingInEffect ==
  \A a \in Accesses : InEffect(NoTable)[a] = 0
  <1>1. ASSUME NEW a \in Accesses PROVE InEffect(NoTable)[a] = 0
    <2>1. NoTable.rules[a.chain] = <<>>
      BY DEF NoTable, AllChains, Accesses
    <2>2. Met(NoTable, a) = {}
      BY <2>1 DEF Met
    <2>3. QED
      BY <1>1, <2>2, FS_EmptySet DEF InEffect
  <1>2. QED
    BY <1>1

LEMMA ChangedFacts ==
  ASSUME NEW t, NEW a \in Accesses, NEW n
  PROVE  \A b \in Accesses :
           Changed(InEffect(t), a, n)[b] = IF b = a THEN n ELSE InEffect(t)[b]
  <1>1. DOMAIN InEffect(t) = Accesses
    BY DEF InEffect
  <1>2. QED
    BY <1>1 DEF Changed

\* A process in a call for an unraced access is the only one to have called for it.
LEMMA AloneInCall ==
  ASSUME AInv, NEW p \in Procs, pc[p] # "idle", ~Raced(Access(p)),
         users[Access(p)] \in SUBSET Procs
  PROVE  users[Access(p)] = {p}
  BY DEF AInv, Applied, Raced

\* The step of a call changes the copies of its own access only, and so concerns
\* no process that is alone with another one.
LEMMA CallApplies ==
  ASSUME IInv, IInv', AInv, NEW p \in Procs, Step(p) \/ Crash(p), call' = call, pc[p] # "idle",
         Same \/ (Opened(p) /\ pc[p] = "insert") \/ Closed(p),
         Applied(p)'
  PROVE  AInv'
  <1>1. ControlOK /\ \A q \in Procs : Access(q) \in Accesses /\ Count(q) \in Nat
    BY IInvParts, CountFacts
  <1>2. /\ \A q \in Procs \ {p} :
             pc'[q] = pc[q] /\ call'[q] = call[q] /\ result'[q] = result[q]
        /\ saved' \in {saved, snap[p]}
        /\ \A q \in Procs : snap'[q] \in {snap[q], live, NoTable}
        /\ users' = users
    <2>1. Elsewhere(p)
      BY StepElsewhere
    <2>2. ~Begin(p)
      BY DEF Begin
    <2>3. QED
      BY <2>1, <2>2 DEF Elsewhere
  <1>3. Unraced' = Unraced
    BY <1>2 DEF Unraced, Raced
  <1>4. \A a \in Accesses : a # Access(p) => InEffect(live')[a] = InEffect(live)[a]
    <2>1. CASE Same
      BY <2>1 DEF Same
    <2>2. CASE Opened(p) \/ Closed(p)
      BY <1>1, <2>2, ChangedFacts DEF Opened, Closed
    <2>3. QED
      BY <2>1, <2>2
  <1>5. Few(live', Unraced)
    <2>1. SUFFICES ASSUME NEW a \in Unraced PROVE InEffect(live')[a] <= 1
      BY DEF Few
    <2>2. a \in Accesses /\ ~Raced(a) /\ InEffect(live)[a] <= 1
      BY DEF Unraced, AInv, Few
    <2>3. CASE Same
      BY <2>2, <2>3 DEF Same
    <2>4. CASE a # Access(p)
      BY <1>4, <2>2, <2>4
    <2>5. CASE a = Access(p) /\ Opened(p) /\ pc[p] = "insert"
      <3>1. users[Access(p)] = {p}
        BY <1>1, <2>2, <2>5, AloneInCall DEF ControlOK
      <3>2. Count(p) = 0
        BY <2>5, <3>1 DEF AInv, Applied, Opening
      <3>3. InEffect(live')[a] = Count(p) + 1
        BY <1>1, <2>5, ChangedFacts DEF Opened
      <3>4. QED
        BY <3>2, <3>3
    <2>6. CASE a = Access(p) /\ Closed(p)
      <3>1. InEffect(live')[a] = Count(p) - 1 /\ Count(p) = InEffect(live)[a]
        BY <1>1, <2>6, ChangedFacts DEF Closed, Count
      <3>2. QED
        BY <1>1, <2>2, <3>1
    <2>7. QED
      BY <2>3, <2>4, <2>5, <2>6
  <1>6. Few(saved', Unraced) /\ \A q \in Procs : Few(snap'[q], Unraced)
    <2>1. Few(NoTable, Unraced)
      BY NothingInEffect DEF Few, Unraced
    <2>2. QED
      BY <1>2, <2>1 DEF AInv
  <1>7. ASSUME NEW q \in Procs \ {p} PROVE Applied(q)'
    <2>1. Access(q)' = Access(q) /\ Applied(q)
      BY <1>2 DEF Access, AInv
    <2>2. users[Access(q)] = {q} => Access(q) # Access(p)
      BY <1>1 DEF AInv, Applied
    <2>3. users[Access(q)] = {q} => Count(q)' = Count(q)
      BY <1>1, <1>4, <2>1, <2>2 DEF Count
    <2>4. QED
      BY <1>2, <2>1, <2>3 DEF Applied
  <1>8. QED
    BY <1>3, <1>5, <1>6, <1>7 DEF AInv

\* The end of a call with an error, or by a crash, promises nothing.
LEMMA EndApplies ==
  ASSUME ControlOK, NEW p \in Procs, NEW a \in {"error", "none"}, Leave(p, a)
  PROVE  Applied(p)'
  BY DEF ControlOK, Leave, Applied, Opening

\* What the call goes on with.
LEMMA GotoApplies ==
  ASSUME ControlOK, AInv, NEW p \in Procs, pc[p] # "idle", call' = call,
         NEW label, Goto(p, label),
         users[Access(p)] = {p} =>
           /\ label \in Opening => Count(p)' = 0
           /\ label \in {"save", "saving"} => (Count(p)' > 0 <=> call[p].open)
  PROVE  Applied(p)'
  <1>1. pc'[p] = label /\ result' = result /\ users' = users /\ Access(p)' = Access(p)
    BY DEF ControlOK, Goto, Access
  <1>2. p \in users[Access(p)] /\ result[p] = "none"
    BY DEF AInv, Applied
  <1>3. QED
    BY <1>1, <1>2 DEF Applied

LEMMA CheckPortApplies ==
  ASSUME IInv, IInv', AInv, 1 \notin FaultCodes, NEW p \in Procs, CheckPort(p)
  PROVE  AInv'
  <1>1. ControlOK /\ Count(p) \in Nat
    BY IInvParts, CountFacts
  <1>2. /\ pc[p] = "check" /\ UNCHANGED <<live, saved, call>>
        /\ \/ Raise(p)
           \/ Finish(p) /\ (call[p].open <=> Count(p) > 0)
           \/ Count(p) = 0 /\ Goto(p, "new_chain")
           \/ Goto(p, "delete")
    BY CheckPortEffect
  <1>3. Same /\ Access(p)' = Access(p) /\ Count(p)' = Count(p)
    BY <1>2 DEF Same, Access, Count
  <1>4. ASSUME Raise(p) PROVE Applied(p)'
    BY <1>1, <1>4, EndApplies DEF Raise
  <1>5. ASSUME Finish(p) /\ (call[p].open <=> Count(p) > 0) PROVE Applied(p)'
    <2>1. pc'[p] = "idle"
      BY <1>1, <1>5 DEF Finish, Leave, ControlOK
    <2>2. QED
      BY <1>2, <1>3, <1>5, <2>1 DEF Applied, Opening
  <1>6. ASSUME Count(p) = 0 /\ Goto(p, "new_chain") PROVE Applied(p)'
    BY <1>1, <1>2, <1>3, <1>6, GotoApplies
  <1>7. ASSUME Goto(p, "delete") PROVE Applied(p)'
    BY <1>1, <1>2, <1>7, GotoApplies DEF Opening
  <1>8. Applied(p)'
    BY <1>2, <1>4, <1>5, <1>6, <1>7
  <1>9. QED
    BY <1>2, <1>3, <1>8, CallApplies DEF Step

LEMMA SetupApplies ==
  ASSUME IInv, IInv', AInv, NEW p \in Procs,
         CreateChain(p) \/ CheckReturn(p) \/ AddReturn(p) \/ CheckJump(p) \/ InsertJump(p)
  PROVE  AInv'
  <1>1. ControlOK
    BY IInvParts
  <1>2. /\ pc[p] \in Opening \ {"insert"} /\ UNCHANGED <<saved, call>> /\ Same
        /\ Raise(p) \/ \E label \in Opening : Goto(p, label)
    BY SetupEffect
  <1>3. pc[p] # "idle" /\ Count(p)' = Count(p)
    BY <1>2 DEF Opening, Same, Count, Access
  <1>4. ASSUME Raise(p) PROVE Applied(p)'
    BY <1>1, <1>4, EndApplies DEF Raise
  <1>5. ASSUME NEW label \in Opening, Goto(p, label) PROVE Applied(p)'
    <2>1. users[Access(p)] = {p} => Count(p)' = 0
      BY <1>2, <1>3 DEF AInv, Applied
    <2>2. label \notin {"save", "saving"}
      BY DEF Opening
    <2>3. QED
      BY <1>1, <1>2, <1>3, <1>5, <2>1, <2>2, GotoApplies
  <1>6. Applied(p)'
    BY <1>2, <1>4, <1>5
  <1>7. QED
    BY <1>2, <1>3, <1>6, CallApplies DEF Step

LEMMA InsertPortApplies ==
  ASSUME IInv, IInv', AInv, NEW p \in Procs, InsertPort(p)
  PROVE  AInv'
  <1>1. ControlOK /\ Access(p) \in Accesses /\ Count(p) \in Nat
    BY IInvParts, CountFacts
  <1>2. /\ pc[p] = "insert" /\ call[p].open /\ UNCHANGED <<saved, call>>
        /\ (Raise(p) /\ Same) \/ (Opened(p) /\ (Raise(p) \/ Goto(p, "save")))
    BY InsertPortEffect
  <1>3. ASSUME Raise(p) PROVE Applied(p)'
    BY <1>1, <1>3, EndApplies DEF Raise
  <1>4. ASSUME Opened(p) /\ Goto(p, "save") PROVE Applied(p)'
    <2>1. Count(p)' = Count(p) + 1
      BY <1>1, <1>2, <1>4, ChangedFacts DEF Opened, Access, Count
    <2>2. QED
      BY <1>1, <1>2, <1>4, <2>1, GotoApplies DEF Opening
  <1>5. Applied(p)'
    BY <1>2, <1>3, <1>4
  <1>6. QED
    BY <1>2, <1>5, CallApplies DEF Step

LEMMA DeletePortApplies ==
  ASSUME IInv, IInv', AInv, NEW p \in Procs, DeletePort(p)
  PROVE  AInv'
  <1>1. ControlOK /\ Access(p) \in Accesses /\ Count(p) \in Nat
    BY IInvParts, CountFacts
  <1>2. /\ pc[p] = "delete" /\ ~call[p].open /\ UNCHANGED <<saved, call>>
        /\ (Raise(p) /\ Same) \/ (Closed(p) /\ (Raise(p) \/ Goto(p, "save")))
    BY DeletePortEffect
  <1>3. ASSUME Raise(p) PROVE Applied(p)'
    BY <1>1, <1>3, EndApplies DEF Raise
  <1>4. ASSUME Closed(p) /\ Goto(p, "save") PROVE Applied(p)'
    <2>1. Count(p) > 0 /\ Count(p)' = Count(p) - 1
      BY <1>1, <1>2, <1>4, ChangedFacts DEF Closed, Access, Count
    <2>2. users[Access(p)] = {p} => Count(p) <= 1
      <3>1. users[Access(p)] = {p} => ~Raced(Access(p))
        BY DEF Raced
      <3>2. QED
        BY <1>1, <3>1 DEF AInv, Few, Unraced, Count
    <2>3. QED
      BY <1>1, <1>2, <1>4, <2>1, <2>2, GotoApplies DEF Opening
  <1>5. Applied(p)'
    BY <1>2, <1>3, <1>4
  <1>6. QED
    BY <1>2, <1>5, CallApplies DEF Step

LEMMA SaveApplies ==
  ASSUME IInv, IInv', AInv, NEW p \in Procs, SaveStart(p) \/ SaveEnd(p) \/ Crash(p)
  PROVE  AInv'
  <1>1. ControlOK
    BY IInvParts
  <1>2. /\ pc[p] # "idle" /\ UNCHANGED <<live, call>>
    BY DEF SaveStart, SaveEnd, Crash
  <1>3. Same /\ Count(p)' = Count(p) /\ Access(p)' = Access(p)
    BY <1>2 DEF Same, Count, Access
  <1>4. ASSUME Raise(p) \/ Crash(p) PROVE Applied(p)'
    BY <1>1, <1>4, EndApplies DEF Raise, Crash
  <1>5. ASSUME SaveStart(p) /\ ~Raise(p) PROVE Applied(p)'
    <2>1. /\ pc[p] = "save" /\ pc'[p] = "saving" /\ UNCHANGED <<result, users>>
      BY <1>1, <1>5 DEF SaveStart, ControlOK
    <2>2. Applied(p)
      BY DEF AInv
    <2>3. QED
      BY <1>2, <1>3, <2>1, <2>2 DEF Applied, Opening
  <1>6. ASSUME SaveEnd(p) /\ ~Raise(p) PROVE Applied(p)'
    <2>1. /\ pc[p] = "saving" /\ pc'[p] = "idle" /\ UNCHANGED users
      BY <1>1, <1>6 DEF SaveEnd, Leave, ControlOK
    <2>2. Applied(p)
      BY DEF AInv
    <2>3. QED
      BY <1>2, <1>3, <2>1, <2>2 DEF Applied, Opening
  <1>7. Applied(p)'
    BY <1>4, <1>5, <1>6
  <1>8. QED
    BY <1>2, <1>3, <1>7, CallApplies DEF Step

\* A new call joins those that go on; it is alone when there is none.
LEMMA BeginApplies ==
  ASSUME IInv, IInv', AInv, NEW p \in Procs, Begin(p)
  PROVE  AInv'
  <1>1. ControlOK
    BY IInvParts
  <1>2. PICK c \in Calls :
          LET a == [chain |-> c.chain, port |-> c.port]
          IN  /\ call' = [call EXCEPT ![p] = c]
              /\ users' = [users EXCEPT ![a] =
                             {p} \cup (IF Raced(a) THEN users[a] ELSE Busy(a))]
    BY DEF Begin
  <1> DEFINE a == [chain |-> c.chain, port |-> c.port]
             joined == {p} \cup (IF Raced(a) THEN users[a] ELSE Busy(a))
  <1>3. a \in Accesses /\ users' = [users EXCEPT ![a] = joined]
        /\ users \in [Accesses -> SUBSET Procs]
    BY <1>1, <1>2 DEF Calls, Accesses, ControlOK
  <1>4. Access(p)' = a
    BY <1>1, <1>2 DEF Access, ControlOK
  <1>5. /\ pc[p] = "idle" /\ pc' = [pc EXCEPT ![p] = "check"]
        /\ result' = [result EXCEPT ![p] = "none"]
        /\ UNCHANGED <<live, saved, snap>>
    BY DEF Begin
  <1>6. \A q \in Procs \ {p} : /\ pc'[q] = pc[q] /\ result'[q] = result[q]
                               /\ call'[q] = call[q] /\ Access(q)' = Access(q)
    BY <1>1, <1>2, <1>5 DEF Access, ControlOK
  <1> HIDE DEF a
  <1>7. Unraced' \subseteq Unraced
    BY <1>3 DEF Unraced, Raced
  <1>8. Applied(p)'
    <2>1. p \in users'[a]
      BY <1>3
    <2>2. pc'[p] = "check" /\ result'[p] = "none"
      BY <1>1, <1>5 DEF ControlOK
    <2>3. QED
      BY <1>4, <2>1, <2>2 DEF Applied, Opening
  <1>9. ASSUME NEW q \in Procs \ {p} PROVE Applied(q)'
    <2>1. Applied(q)
      BY DEF AInv
    <2>2. CASE Access(q) = a
      <3>1. pc[q] # "idle" => q \in joined
        BY <2>1, <2>2 DEF Applied, Busy
      <3>2. users'[Access(q)'] = joined /\ joined # {q}
        BY <1>3, <1>6, <2>2
      <3>3. QED
        BY <1>6, <2>1, <3>1, <3>2 DEF Applied
    <2>3. CASE Access(q) # a
      <3>1. Access(q) \in Accesses
        BY CountFacts
      <3>2. users'[Access(q)'] = users[Access(q)] /\ Count(q)' = Count(q)
        BY <1>3, <1>5, <1>6, <2>3, <3>1 DEF Count
      <3>3. QED
        BY <1>6, <2>1, <3>2 DEF Applied
    <2>4. QED
      BY <2>2, <2>3
  <1>10. /\ Few(live', Unraced') /\ Few(saved', Unraced')
         /\ \A q \in Procs : Few(snap'[q], Unraced')
    BY <1>5, <1>7 DEF AInv, Few
  <1>11. QED
    BY <1>8, <1>9, <1>10 DEF AInv

LEMMA RebootApplies ==
  ASSUME AInv, Reboot
  PROVE  AInv'
  <1>1. /\ live' = saved /\ UNCHANGED <<saved, users>>
        /\ \A p \in Procs : snap'[p] = NoTable /\ pc'[p] = "idle" /\ result'[p] = "none"
    BY DEF Reboot
  <1>2. Unraced' = Unraced /\ Few(NoTable, Unraced)
    BY <1>1, NothingInEffect DEF Unraced, Raced, Few
  <1>3. \A p \in Procs : Applied(p)'
    BY <1>1 DEF Applied, Opening
  <1>4. QED
    BY <1>1, <1>2, <1>3 DEF AInv

LEMMA AppliedInit ==
  ASSUME Init
  PROVE  AInv
  <1>1. PICK existing, ended, jumps : live = InitialTable(existing, ended, jumps)
    BY DEF Init
  <1>2. \A a \in Accesses : InEffect(live)[a] = 0
    <2>1. SUFFICES ASSUME NEW a \in Accesses PROVE Met(live, a) = {}
      BY FS_EmptySet DEF InEffect
    <2>2. a.chain \in AllChains /\ a.chain # Input /\ a.port # Return
      BY NamesAssumption DEF Accesses, AllChains
    <2>3. live.rules[a.chain] \in {<<Return>>, <<>>}
      BY <1>1, <2>2 DEF InitialTable
    <2>4. QED
      BY <2>2, <2>3 DEF Met
  <1>3. saved = live /\ \A p \in Procs : snap[p] = NoTable
    BY DEF Init
  <1>4. Few(live, Unraced) /\ Few(NoTable, Unraced)
    BY <1>2, NothingInEffect DEF Few, Unraced
  <1>5. \A p \in Procs : Applied(p)
    BY DEF Init, Applied, Opening
  <1>6. QED
    BY <1>3, <1>4, <1>5 DEF AInv

LEMMA AppliedStep ==
  ASSUME IInv, IInv', AInv, 1 \notin FaultCodes, [Next]_vars
  PROVE  AInv'
  <1>1. ASSUME NEW p \in Procs, Step(p) PROVE AInv'
    BY <1>1, CheckPortApplies, SetupApplies, InsertPortApplies, DeletePortApplies,
       SaveApplies DEF Step
  <1>2. ASSUME NEW p \in Procs, Begin(p) \/ Crash(p) PROVE AInv'
    BY <1>2, BeginApplies, SaveApplies
  <1>3. CASE UNCHANGED vars
    <2>1. \A p \in Procs : Applied(p)' <=> Applied(p)
      BY <1>3 DEF vars, Applied, Count, Access
    <2>2. Unraced' = Unraced
      BY <1>3 DEF vars, Unraced, Raced
    <2>3. QED
      BY <1>3, <2>1, <2>2 DEF vars, AInv
  <1>4. QED
    BY <1>1, <1>2, <1>3, RebootApplies DEF Next

\* A call that returns has done what it was asked, whatever failed or was killed
\* before and whatever the other processes do: the port is open, or closed, until
\* another process calls for the same port rule.  No command fails with 1, the
\* code by which -C says that there is no such rule.
THEOREM OkApplied ==
  ASSUME 1 \notin FaultCodes
  PROVE  Spec => []OkIsApplied
  <1>1. Init => IInv /\ AInv
    BY InitHolds, AppliedInit
  <1>2. IInv /\ AInv /\ [Next]_vars => (IInv /\ AInv)'
    BY StepHolds, AppliedStep
  <1>3. IInv /\ AInv => OkIsApplied
    BY CountFacts, CallFacts, IInvParts DEF AInv, Applied, OkIsApplied
  <1>4. QED
    BY <1>1, <1>2, <1>3, PTL DEF Spec

-----------------------------------------------------------------------------

\* p is about to add the target x to the chain c without looking again.
Pending(p, c, x) ==
  \/ pc[p] = "add_return" /\ c = call[p].chain /\ x = Return
  \/ pc[p] = "insert_jump" /\ c = Input /\ x = call[p].chain
  \/ pc[p] \in Opening /\ c = call[p].chain /\ x = call[p].port

Hasty(c, x) == {p \in Procs : Pending(p, c, x)}

Most == Cardinality(Procs) + (IF 1 \in FaultCodes THEN faults ELSE 0)

AtMost(t, n) == \A c \in AllChains, x \in Targets : Copies(t, c, x) <= n

\* Copies and those who are about to add one.
KInv ==
  /\ \A c \in AllChains, x \in Targets : Copies(live, c, x) + Cardinality(Hasty(c, x)) <= Most
  /\ AtMost(saved, Most)
  /\ \A p \in Procs : AtMost(snap[p], Most)

LEMMA GroupFacts ==
  /\ Cardinality(Procs) \in Nat
  /\ \A H \in SUBSET Procs : /\ IsFiniteSet(H) /\ Cardinality(H) \in Nat
                             /\ Cardinality(H) <= Cardinality(Procs)
  BY FiniteAssumption, FS_Subset, FS_CardinalityType

\* What a step of p may do to the copies of x in c.
Kindly(p, c, x) ==
  \/ Copies(live, c, x)' <= Copies(live, c, x) /\ (Pending(p, c, x)' => Pending(p, c, x))
  \/ /\ Copies(live, c, x)' <= Copies(live, c, x) + 1
     /\ Pending(p, c, x) /\ ~Pending(p, c, x)'
  \/ Copies(live, c, x)' = 0
  \/ Copies(live, c, x)' <= Copies(live, c, x) /\ Most' = Most + 1

LEMMA KindStep ==
  ASSUME IInv, IInv', KInv, NEW p \in Procs,
         \A q \in Procs \ {p} : pc'[q] = pc[q] /\ call'[q] = call[q],
         Most <= Most',
         NEW c \in AllChains, NEW x \in Targets, Kindly(p, c, x)
  PROVE  Copies(live, c, x)' + Cardinality(Hasty(c, x))' <= Most'
  <1> DEFINE H == Hasty(c, x)
             n == Cardinality(H \ {p})
  <1>1. /\ IsFiniteSet(H) /\ IsFiniteSet(H') /\ Cardinality(H) \in Nat /\ Cardinality(H') \in Nat
        /\ Cardinality(H') <= Cardinality(Procs) /\ Cardinality(Procs) <= Most
        /\ Cardinality(Procs) \in Nat /\ Most \in Nat /\ Most' \in Nat
        /\ Sound(live) /\ Sound(live')
    <2>1. faults \in Nat /\ faults' \in Nat /\ Sound(live) /\ Sound(live')
      BY FaultsAssumption DEF IInv, TypeOK, Sound
    <2>2. H \in SUBSET Procs /\ H' \in SUBSET Procs
      BY DEF Hasty
    <2> HIDE DEF H
    <2>3. QED
      BY <2>1, <2>2, GroupFacts DEF Most
  <1>2. H' \ {p} = H \ {p}
    BY DEF Hasty, Pending
  <1>3. /\ p \in H <=> Pending(p, c, x)
        /\ p \in H' <=> Pending(p, c, x)'
    BY DEF Hasty
  <1> HIDE DEF H
  <1>4. /\ n = IF p \in H THEN Cardinality(H) - 1 ELSE Cardinality(H)
        /\ n = IF p \in H' THEN Cardinality(H') - 1 ELSE Cardinality(H')
    BY <1>1, <1>2, FS_RemoveElement
  <1>5. Copies(live, c, x) \in Nat /\ Copies(live', c, x) \in Nat
    BY <1>1, CopiesFacts
  <1>6. Copies(live, c, x) + Cardinality(H) <= Most
    BY DEF KInv, H
  <1>7. Copies(live', c, x) + Cardinality(H') <= Most'
    BY <1>1, <1>3, <1>4, <1>5, <1>6 DEF Kindly
  <1>8. QED
    BY <1>7 DEF H

\* A command that adds a rule at most where its process was about to.
LEMMA CommandKind ==
  ASSUME IInv, NEW p \in Procs, NEW r, r.exit \in {0, 1}, Sound(r.table),
         NEW o \in Outcomes(r), Take(p, o), NEW c \in AllChains, NEW x \in Targets,
         \/ Copies(r.table, c, x) <= Copies(live, c, x) /\ (Pending(p, c, x)' => Pending(p, c, x))
         \/ /\ Copies(r.table, c, x) <= Copies(live, c, x) + 1
            /\ Pending(p, c, x) /\ ~Pending(p, c, x)'
  PROVE  Kindly(p, c, x)
  <1>1. faults \in 0..MaxFaults /\ Sound(live)
    BY DEF IInv, TypeOK, Sound
  <1>2. live' = live \/ live' = r.table
    BY <1>1, OutcomeFacts DEF Take
  <1>3. Copies(live, c, x) \in Nat /\ Copies(r.table, c, x) \in Nat
    BY <1>1, CopiesFacts
  <1>4. Copies(live, c, x)' = Copies(live', c, x)
    OBVIOUS
  <1>5. \/ Copies(live, c, x)' = Copies(live, c, x)
        \/ Copies(live, c, x)' = Copies(r.table, c, x)
    BY <1>2, <1>4
  <1>6. QED
    BY <1>3, <1>5 DEF Kindly

\* A lookup, after which a process is about to add a rule that was not found.
LEMMA LookupKind ==
  ASSUME IInv, NEW p \in Procs, NEW r, r.chain \in AllChains,
         NEW o \in Outcomes(CheckRule(live, r)), Take(p, o),
         NEW c \in AllChains, NEW x \in Targets,
         Pending(p, c, x)' => \/ Pending(p, c, x)
                              \/ HasIptablesRule(o.exit) = "no" /\ c = r.chain /\ x = r.target
  PROVE  Kindly(p, c, x)
  <1> DEFINE k == CheckRule(live, r)
  <1>1. faults \in 0..MaxFaults /\ Sound(live)
    BY DEF IInv, TypeOK, Sound
  <1>2. k.exit \in {0, 1} /\ k.table = live /\ (k.exit = 1 => ~HasRule(live, r))
    BY DEF CheckRule, Reply
  <1>3. /\ o.table = live /\ o.exit \in ExitCodes /\ o.fault \in BOOLEAN
        /\ ~o.fault => o.exit = k.exit
    BY <1>1, <1>2, OutcomeFacts
  <1>4. o.fault => o.exit \in FaultCodes
    BY FaultCode
  <1> HIDE DEF k
  <1>5. live' = live /\ Copies(live, c, x) \in Nat
    BY <1>1, <1>3, CopiesFacts DEF Take
  <1>6. Copies(live, c, x)' = Copies(live, c, x)
    BY <1>5
  <1>7. CASE Pending(p, c, x)' => Pending(p, c, x)
    BY <1>5, <1>6, <1>7 DEF Kindly
  <1>8. CASE HasIptablesRule(o.exit) = "no" /\ c = r.chain /\ x = r.target
    <2>1. o.exit = 1
      BY <1>3, <1>8 DEF HasIptablesRule, Raises, IsFatalIptablesCode, ExitCodes, NoCode, AnyCode
    <2>2. CASE o.fault
      <3>1. 1 \in FaultCodes /\ faults' = faults + 1
        BY <1>4, <2>1, <2>2 DEF Take, Suffer
      <3>2. Most' = Most + 1
        BY <1>1, <3>1, GroupFacts, FaultsAssumption DEF Most
      <3>3. QED
        BY <1>5, <1>6, <3>2 DEF Kindly
    <2>3. CASE ~o.fault
      <3>1. ~Contains(live.rules[c], x)
        BY <1>2, <1>3, <1>8, <2>1, <2>3 DEF HasRule
      <3>2. QED
        BY <1>1, <1>6, <3>1, CopiesFacts DEF Kindly
    <2>4. QED
      BY <1>3, <2>2, <2>3
  <1>9. QED
    BY <1>7, <1>8

\* Where a process may be that is about to add nothing.
LEMMA PendingFacts ==
  ASSUME NEW p \in Procs, NEW c \in AllChains, NEW x \in Targets
  PROVE  /\ pc'[p] \in {"idle", "check", "delete", "save", "saving"} => ~Pending(p, c, x)'
         /\ Pending(p, c, x) <=>
              \/ pc[p] = "add_return" /\ c = call[p].chain /\ x = Return
              \/ pc[p] = "insert_jump" /\ c = Input /\ x = call[p].chain
              \/ pc[p] \in Opening /\ c = call[p].chain /\ x = call[p].port
         /\ Pending(p, c, x)' <=>
              \/ pc'[p] = "add_return" /\ c = call'[p].chain /\ x = Return
              \/ pc'[p] = "insert_jump" /\ c = Input /\ x = call'[p].chain
              \/ pc'[p] \in Opening /\ c = call'[p].chain /\ x = call'[p].port
  BY DEF Pending, Opening

LEMMA EndFacts ==
  ASSUME IInv, NEW p \in Procs
  PROVE  /\ Finish(p) \/ Raise(p) => pc'[p] = "idle"
         /\ \A label : Goto(p, label) => pc'[p] = label
  BY DEF IInv, TypeOK, Finish, Raise, Leave, Goto

LEMMA CheckPortKind ==
  ASSUME IInv, NEW p \in Procs, CheckPort(p), NEW c \in AllChains, NEW x \in Targets
  PROVE  Kindly(p, c, x)
  <1>1. PICK o \in Outcomes(CheckRule(live, PortRule(p))) :
          /\ Take(p, o)
          /\ \/ HasIptablesRule(o.exit) = "raises" /\ Raise(p)
             \/ Finish(p)
             \/ /\ HasIptablesRule(o.exit) # "raises"
                /\ call[p].open # (HasIptablesRule(o.exit) = "yes")
                /\ Goto(p, IF call[p].open THEN "new_chain" ELSE "delete")
    BY DEF CheckPort
  <1>2. /\ PortRule(p).chain = call[p].chain /\ PortRule(p).target = call[p].port
        /\ PortRule(p).chain \in AllChains /\ call[p].open \in BOOLEAN
    BY IInvParts, CallFacts DEF PortRule, Rule, AllChains
  <1>3. call' = call
    BY <1>1 DEF Take
  <1>4. o.exit \in ExitCodes
    BY CheckOutcome
  <1>5. HasIptablesRule(o.exit) \in {"yes", "no", "raises"}
    BY <1>4, HasRuleFacts
  <1>6. Pending(p, c, x)' =>
          \/ Pending(p, c, x)
          \/ /\ HasIptablesRule(o.exit) = "no"
             /\ c = PortRule(p).chain /\ x = PortRule(p).target
    <2>1. CASE Raise(p) \/ Finish(p)
      BY <2>1, EndFacts, PendingFacts
    <2>2. CASE /\ HasIptablesRule(o.exit) # "raises"
               /\ call[p].open # (HasIptablesRule(o.exit) = "yes")
               /\ Goto(p, IF call[p].open THEN "new_chain" ELSE "delete")
      <3>1. CASE call[p].open
        <4>1. HasIptablesRule(o.exit) = "no" /\ pc'[p] = "new_chain"
          BY <1>5, <2>2, <3>1, EndFacts
        <4>2. QED
          BY <1>2, <1>3, <4>1, PendingFacts
      <3>2. CASE ~call[p].open
        <4>1. pc'[p] = "delete"
          BY <2>2, <3>2, EndFacts
        <4>2. QED
          BY <4>1, PendingFacts
      <3>3. QED
        BY <1>2, <3>1, <3>2
    <2>3. QED
      BY <1>1, <2>1, <2>2
  <1>7. QED
    BY <1>1, <1>2, <1>6, LookupKind

LEMMA CheckSetupKind ==
  ASSUME IInv, NEW p \in Procs, NEW at \in Opening \ {"add_return", "insert_jump"}, NEW r,
         r.chain \in AllChains, NEW missing \in Opening, NEW present \in Opening,
         CheckSetup(p, at, r, missing, present), NEW c \in AllChains, NEW x \in Targets,
         missing = "add_return" => r.chain = call[p].chain /\ r.target = Return,
         missing = "insert_jump" => r.chain = Input /\ r.target = call[p].chain,
         present \notin {"add_return", "insert_jump"}
  PROVE  Kindly(p, c, x)
  <1>1. PICK o \in Outcomes(CheckRule(live, r)) :
          /\ Take(p, o)
          /\ \/ HasIptablesRule(o.exit) = "raises" /\ Raise(p)
             \/ HasIptablesRule(o.exit) = "no" /\ Goto(p, missing)
             \/ HasIptablesRule(o.exit) = "yes" /\ Goto(p, present)
    BY DEF CheckSetup
  <1>2. pc[p] = at /\ call' = call
    BY <1>1 DEF CheckSetup, Take
  <1>3. Pending(p, c, x)' =>
          \/ Pending(p, c, x)
          \/ HasIptablesRule(o.exit) = "no" /\ c = r.chain /\ x = r.target
    <2>1. CASE Raise(p)
      BY <2>1, EndFacts, PendingFacts
    <2>2. CASE HasIptablesRule(o.exit) = "no" /\ Goto(p, missing)
      <3>1. pc'[p] = missing
        BY <2>2, EndFacts
      <3>2. QED
        BY <1>2, <2>2, <3>1, PendingFacts
    <2>3. CASE Goto(p, present)
      <3>1. pc'[p] = present
        BY <2>3, EndFacts
      <3>2. QED
        BY <1>2, <3>1, PendingFacts
    <2>4. QED
      BY <1>1, <2>1, <2>2, <2>3
  <1>4. QED
    BY <1>1, <1>3, LookupKind

LEMMA CreateChainKind ==
  ASSUME IInv, NEW p \in Procs, CreateChain(p), NEW c \in AllChains, NEW x \in Targets
  PROVE  Kindly(p, c, x)
  <1> DEFINE r == NewChain(live, call[p].chain)
  <1>1. PICK o \in Outcomes(r) : Take(p, o) /\ (Raise(p) \/ Goto(p, "check_return"))
    BY DEF CreateChain
  <1>2. Sound(live) /\ call[p].chain \in Chains
    BY IInvParts, CallFacts
  <1>3. Sound(r.table) /\ r.table.rules = live.rules
    BY <1>2, NewChainSound
  <1>4. r.exit \in {0, 1}
    BY DEF NewChain, Reply
  <1> HIDE DEF r
  <1>5. Copies(r.table, c, x) = Copies(live, c, x) /\ Copies(live, c, x) \in Nat
    <2>1. Copies(r.table, c, x) = Copies(live, c, x)
      BY <1>3 DEF Copies
    <2>2. QED
      BY <1>2, <2>1, CopiesFacts
  <1>6. Pending(p, c, x)' => Pending(p, c, x)
    <2>1. pc[p] = "new_chain" /\ call' = call
      BY <1>1 DEF CreateChain, Take
    <2>2. pc'[p] \in {"idle", "check_return"}
      BY <1>1, EndFacts
    <2>3. QED
      BY <2>1, <2>2, PendingFacts DEF Opening
  <1>7. QED
    BY <1>1, <1>3, <1>4, <1>5, <1>6, CommandKind

\* A command that adds the rule its process was about to add, which is then no
\* longer about to.
LEMMA AddKind ==
  ASSUME IInv, NEW p \in Procs, NEW at \in {"add_return", "insert_jump", "insert"},
         NEW next \in {"check_jump", "insert", "save"},
         NEW d \in AllChains, NEW e \in Targets,
         NEW r, r.exit \in {0, 1}, Sound(r.table), RunTo(p, at, r, next),
         NEW c \in AllChains, NEW x \in Targets,
         Copies(r.table, c, x) <= Copies(live, c, x) + (IF c = d /\ x = e THEN 1 ELSE 0),
         \/ at = "add_return" /\ d = call[p].chain /\ e = Return
         \/ at = "insert_jump" /\ d = Input /\ e = call[p].chain
         \/ at = "insert" /\ d = call[p].chain /\ e = call[p].port /\ next = "save"
  PROVE  Kindly(p, c, x)
  <1>1. PICK o \in Outcomes(r) : Take(p, o) /\ (Raise(p) \/ Goto(p, next))
    BY RunToFacts
  <1>2. /\ pc[p] = at /\ call' = call /\ pc'[p] \in {"idle", next}
        /\ call[p].chain \in Chains /\ call[p].port \in Ports
    BY <1>1, EndFacts, IInvParts, CallFacts DEF RunTo, Take
  <1>3. Copies(live, c, x) \in Nat /\ Copies(r.table, c, x) \in Nat
    BY IInvParts, CopiesFacts
  <1>4. CASE c = d /\ x = e
    <2>1. Pending(p, c, x)
      BY <1>2, <1>4, PendingFacts DEF Opening
    <2>2. ~Pending(p, c, x)'
      BY <1>2, <1>4, PendingFacts, NamesAssumption
    <2>3. QED
      BY <1>1, <1>4, <2>1, <2>2, CommandKind
  <1>5. CASE ~(c = d /\ x = e)
    <2>1. Pending(p, c, x)' => Pending(p, c, x)
      BY <1>2, <1>5, PendingFacts DEF Opening
    <2>2. Copies(r.table, c, x) <= Copies(live, c, x)
      BY <1>3, <1>5
    <2>3. QED
      BY <1>1, <2>1, <2>2, CommandKind
  <1>6. QED
    BY <1>4, <1>5

LEMMA AddReturnKind ==
  ASSUME IInv, NEW p \in Procs, AddReturn(p), NEW c \in AllChains, NEW x \in Targets
  PROVE  Kindly(p, c, x)
  <1> DEFINE d == call[p].chain
             r == AppendRule(live, Rule(d, Return))
  <1>1. Sound(live) /\ d \in Chains /\ d \in AllChains /\ Return \in Targets
    BY IInvParts, CallFacts DEF AllChains, Targets
  <1>2. Sound(r.table) /\ r.exit \in {0, 1}
    BY <1>1, AddReturnSound
  <1>3. Copies(r.table, c, x) <= Copies(live, c, x) + (IF c = d /\ x = Return THEN 1 ELSE 0)
    BY <1>1, CommandCopies
  <1>4. RunTo(p, "add_return", r, "check_jump")
    BY DEF AddReturn, ReturnRule
  <1> HIDE DEF r
  <1>5. QED
    BY <1>1, <1>2, <1>3, <1>4, AddKind

LEMMA InsertJumpKind ==
  ASSUME IInv, NEW p \in Procs, InsertJump(p), NEW c \in AllChains, NEW x \in Targets
  PROVE  Kindly(p, c, x)
  <1> DEFINE d == call[p].chain
             r == InsertRule(live, Rule(Input, d))
  <1>1. Sound(live) /\ d \in Chains /\ Input \in AllChains /\ d \in Targets
    BY IInvParts, CallFacts DEF AllChains, Targets
  <1>2. Sound(r.table) /\ r.exit \in {0, 1}
    BY <1>1, InsertJumpSound
  <1>3. Copies(r.table, c, x) <= Copies(live, c, x) + (IF c = Input /\ x = d THEN 1 ELSE 0)
    BY <1>1, CommandCopies
  <1>4. RunTo(p, "insert_jump", r, "insert")
    BY DEF InsertJump, JumpRule
  <1> HIDE DEF r
  <1>5. QED
    BY <1>1, <1>2, <1>3, <1>4, AddKind

LEMMA InsertPortKind ==
  ASSUME IInv, NEW p \in Procs, InsertPort(p), NEW c \in AllChains, NEW x \in Targets
  PROVE  Kindly(p, c, x)
  <1> DEFINE d == call[p].chain
             e == call[p].port
             r == InsertRule(live, Rule(d, e))
  <1>1. /\ Sound(live) /\ d \in Chains /\ e \in Ports /\ d \in AllChains /\ e \in Targets
        /\ Contains(live.rules[Input], d)
    BY IInvParts, CallFacts, ReadyFacts DEF AllChains, Targets, InsertPort, RunTo
  <1>2. Sound(r.table)
    BY <1>1, InsertPortSound
  <1>3. r.exit \in {0, 1}
    BY DEF InsertRule, Reply
  <1>4. Copies(r.table, c, x) <= Copies(live, c, x) + (IF c = d /\ x = e THEN 1 ELSE 0)
    BY <1>1, CommandCopies
  <1>5. RunTo(p, "insert", r, "save")
    BY DEF InsertPort, PortRule
  <1> HIDE DEF r
  <1>6. QED
    BY <1>1, <1>2, <1>3, <1>4, <1>5, AddKind

LEMMA DeletePortKind ==
  ASSUME IInv, NEW p \in Procs, DeletePort(p), NEW c \in AllChains, NEW x \in Targets
  PROVE  Kindly(p, c, x)
  <1> DEFINE d == call[p].chain
             e == call[p].port
             r == DeleteRule(live, Rule(d, e))
  <1>1. Sound(live) /\ d \in Chains /\ e \in Ports /\ d \in AllChains /\ e \in Targets
    BY IInvParts, CallFacts DEF AllChains, Targets
  <1>2. Sound(r.table)
    BY <1>1, DeletePortSound
  <1>3. r.exit \in {0, 1}
    BY DEF DeleteRule, Reply
  <1>4. Copies(r.table, c, x) <= Copies(live, c, x)
    BY <1>1, CommandCopies
  <1>5. RunTo(p, "delete", r, "save")
    BY DEF DeletePort, PortRule
  <1> HIDE DEF r
  <1>6. PICK o \in Outcomes(r) : Take(p, o) /\ (Raise(p) \/ Goto(p, "save"))
    BY <1>3, <1>5, RunToFacts
  <1>7. ~Pending(p, c, x)'
    BY <1>6, EndFacts, PendingFacts
  <1>8. QED
    BY <1>2, <1>3, <1>4, <1>6, <1>7, CommandKind

LEMMA StepKind ==
  ASSUME IInv, NEW p \in Procs, Begin(p) \/ Step(p) \/ Crash(p),
         NEW c \in AllChains, NEW x \in Targets
  PROVE  Kindly(p, c, x)
  <1>1. ASSUME live' = live, pc'[p] \in {"idle", "check", "delete", "save", "saving"}
        PROVE  Kindly(p, c, x)
    <2>1. Copies(live, c, x) \in Nat
      BY IInvParts, CopiesFacts
    <2>2. Copies(live, c, x)' = Copies(live, c, x)
      BY <1>1
    <2>3. QED
      BY <1>1, <2>1, <2>2, PendingFacts DEF Kindly
  <1>2. pc \in [Procs -> PCs]
    BY DEF IInv, TypeOK
  <1>3. CASE Begin(p)
    BY <1>1, <1>2, <1>3 DEF Begin
  <1>4. CASE SaveStart(p)
    BY <1>1, <1>2, <1>4 DEF SaveStart, Raise, Leave
  <1>5. CASE SaveEnd(p)
    BY <1>1, <1>2, <1>5 DEF SaveEnd, Raise, Leave
  <1>6. CASE Crash(p)
    BY <1>1, <1>2, <1>6 DEF Crash, Leave
  <1>7. CASE CheckReturn(p)
    <2>1. CheckSetup(p, "check_return", ReturnRule(p), "add_return", "check_jump")
      BY <1>7 DEF CheckReturn
    <2>2. /\ ReturnRule(p).chain = call[p].chain /\ ReturnRule(p).target = Return
          /\ ReturnRule(p).chain \in AllChains
      BY IInvParts, CallFacts DEF ReturnRule, Rule, AllChains
    <2>3. QED
      BY <2>1, <2>2, CheckSetupKind DEF Opening
  <1>8. CASE CheckJump(p)
    <2>1. CheckSetup(p, "check_jump", JumpRule(p), "insert_jump", "insert")
      BY <1>8 DEF CheckJump
    <2>2. /\ JumpRule(p).chain = Input /\ JumpRule(p).target = call[p].chain
          /\ JumpRule(p).chain \in AllChains
      BY DEF JumpRule, Rule, AllChains
    <2>3. QED
      BY <2>1, <2>2, CheckSetupKind DEF Opening
  <1>9. QED
    BY <1>3, <1>4, <1>5, <1>6, <1>7, <1>8, CheckPortKind, CreateChainKind, AddReturnKind,
       InsertJumpKind, InsertPortKind, DeletePortKind DEF Step

LEMMA MostGrows ==
  ASSUME faults \in Nat, faults' \in Nat, faults <= faults'
  PROVE  Most \in Nat /\ Most' \in Nat /\ Cardinality(Procs) \in Nat /\ Most <= Most'
  BY GroupFacts DEF Most

LEMMA AtMostGrows ==
  ASSUME NEW t, Sound(t), NEW m \in Nat, NEW n \in Nat, m <= n, AtMost(t, m)
  PROVE  AtMost(t, n)
  <1>1. ASSUME NEW c \in AllChains, NEW x \in Targets PROVE Copies(t, c, x) <= n
    <2>1. Copies(t, c, x) \in Nat /\ Copies(t, c, x) <= m
      BY CopiesFacts DEF AtMost
    <2>2. QED
      BY <2>1
  <1>2. QED
    BY <1>1 DEF AtMost

LEMMA NoCopies ==
  ASSUME NEW n \in Nat
  PROVE  AtMost(NoTable, n)
  <1>1. ASSUME NEW c \in AllChains, NEW x \in Targets PROVE Copies(NoTable, c, x) <= n
    <2>1. NoTable.rules[c] = <<>>
      BY DEF NoTable
    <2>2. {i \in DOMAIN NoTable.rules[c] : NoTable.rules[c][i] = x} = {}
      BY <2>1
    <2>3. QED
      BY <2>2, FS_EmptySet DEF Copies
  <1>2. QED
    BY <1>1 DEF AtMost

LEMMA KInvParts ==
  ASSUME IInv, KInv
  PROVE  /\ Most \in Nat /\ AtMost(live, Most) /\ Sound(live) /\ Sound(saved)
         /\ \A p \in Procs : Sound(snap[p])
  <1>1. faults \in Nat /\ Sound(live) /\ Sound(saved) /\ \A p \in Procs : Sound(snap[p])
    BY IInvParts, FaultsAssumption DEF ControlOK
  <1>2. Most \in Nat
    BY <1>1, GroupFacts DEF Most
  <1>3. ASSUME NEW c \in AllChains, NEW x \in Targets PROVE Copies(live, c, x) <= Most
    <2>1. Hasty(c, x) \in SUBSET Procs
      BY DEF Hasty
    <2>2. Cardinality(Hasty(c, x)) \in Nat /\ Copies(live, c, x) \in Nat
      BY <1>1, <2>1, GroupFacts, CopiesFacts
    <2>3. Copies(live, c, x) + Cardinality(Hasty(c, x)) <= Most
      BY DEF KInv
    <2>4. QED
      BY <1>2, <2>2, <2>3
  <1>4. QED
    BY <1>1, <1>2, <1>3 DEF AtMost

LEMMA CopiesStep ==
  ASSUME IInv, IInv', KInv, [Next]_vars
  PROVE  KInv'
  <1>1. /\ Most \in Nat /\ AtMost(live, Most) /\ Sound(live) /\ Sound(saved)
        /\ \A p \in Procs : Sound(snap[p])
        /\ AtMost(saved, Most) /\ \A p \in Procs : AtMost(snap[p], Most)
    BY KInvParts DEF KInv
  <1>2. faults \in Nat /\ faults' \in Nat
    BY FaultsAssumption DEF IInv, TypeOK
  <1>3. ASSUME NEW p \in Procs, Begin(p) \/ Step(p) \/ Crash(p) PROVE KInv'
    <2>1. /\ \A q \in Procs \ {p} : pc'[q] = pc[q] /\ call'[q] = call[q]
          /\ saved' \in {saved, snap[p]}
          /\ \A q \in Procs : snap'[q] \in {snap[q], live, NoTable}
          /\ faults <= faults'
      BY <1>3, StepElsewhere DEF Elsewhere
    <2>2. Most' \in Nat /\ Most <= Most'
      BY <1>2, <2>1, MostGrows
    <2>3. \A t : Sound(t) /\ AtMost(t, Most) => AtMost(t, Most')
      BY <1>1, <2>2, AtMostGrows
    <2>4. AtMost(saved', Most')
      BY <1>1, <2>1, <2>3
    <2>5. ASSUME NEW q \in Procs PROVE AtMost(snap'[q], Most')
      BY <1>1, <2>1, <2>2, <2>3, NoCopies
    <2>6. ASSUME NEW c \in AllChains, NEW x \in Targets
          PROVE  Copies(live, c, x)' + Cardinality(Hasty(c, x))' <= Most'
      <3>1. Kindly(p, c, x)
        BY <1>3, StepKind
      <3>2. QED
        BY <2>1, <2>2, <3>1, KindStep
    <2>7. QED
      BY <2>4, <2>5, <2>6 DEF KInv, AtMost
  <1>4. CASE Reboot
    <2>1. live' = saved /\ saved' = saved /\ faults <= faults'
      BY <1>2, <1>4 DEF Reboot
    <2>2. Most' \in Nat /\ Most <= Most'
      BY <1>2, <2>1, MostGrows
    <2>3. AtMost(saved, Most')
      BY <1>1, <2>2, AtMostGrows
    <2>4. ASSUME NEW q \in Procs PROVE AtMost(snap'[q], Most')
      <3>1. snap'[q] = NoTable
        BY <1>4 DEF Reboot
      <3>2. QED
        BY <2>2, <3>1, NoCopies
    <2>5. ASSUME NEW c \in AllChains, NEW x \in Targets
          PROVE  Copies(live, c, x)' + Cardinality(Hasty(c, x))' <= Most'
      <3>1. Hasty(c, x)' = {}
        BY <1>4 DEF Reboot, Hasty, Pending, Opening
      <3>2. Cardinality(Hasty(c, x))' = 0
        BY <3>1, FS_EmptySet
      <3>3. Copies(live, c, x)' = Copies(saved, c, x)
        BY <2>1
      <3>4. Copies(saved, c, x) \in Nat /\ Copies(saved, c, x) <= Most'
        BY <1>1, <2>3, CopiesFacts DEF AtMost
      <3>5. QED
        BY <2>2, <3>2, <3>3, <3>4
    <2>6. QED
      BY <2>1, <2>3, <2>4, <2>5 DEF KInv, AtMost
  <1>5. CASE UNCHANGED vars
    BY <1>5 DEF vars, KInv, AtMost, Copies, Hasty, Pending, Most
  <1>6. QED
    BY <1>3, <1>4, <1>5 DEF Next

LEMMA CopiesInit ==
  ASSUME Init, Procs # {}
  PROVE  KInv
  <1>1. IInv
    BY InitHolds
  <1>2. Sound(live) /\ saved = live /\ \A p \in Procs : snap[p] = NoTable
    BY <1>1, IInvParts DEF Init
  <1>3. faults \in Nat /\ Most \in Nat /\ 1 <= Most
    <2>1. faults = 0
      BY DEF Init
    <2>2. Cardinality(Procs) \in Nat /\ Cardinality(Procs) # 0
      BY FiniteAssumption, FS_CardinalityType, FS_EmptySet
    <2>3. QED
      BY <2>1, <2>2 DEF Most
  <1>4. ASSUME NEW c \in AllChains, NEW x \in Targets
        PROVE  Copies(live, c, x) \in Nat /\ Copies(live, c, x) <= 1
    <2> DEFINE s == live.rules[c]
    <2>1. s \in Seq(Targets) /\ Copies(live, c, x) = Number(s, x) /\ DOMAIN s = 1..Len(s)
      BY <1>2, CopiesFacts, LenProperties
    <2>2. \A i, j \in 1..Len(s) : s[i] = s[j] => i = j
      <3>1. \E existing \in SUBSET Chains : \E ended, hooked \in SUBSET existing :
              \E jumps \in SetToSeqs(hooked) : live = InitialTable(existing, ended, jumps)
        BY DEF Init
      <3>7. PICK existing, ended, hooked :
              \E jumps \in SetToSeqs(hooked) : live = InitialTable(existing, ended, jumps)
        BY <3>1
      <3>8. PICK jumps \in SetToSeqs(hooked) : live = InitialTable(existing, ended, jumps)
        BY <3>7
      <3>2. s = IF c = Input THEN jumps ELSE IF c \in ended THEN <<Return>> ELSE <<>>
        BY <3>8 DEF InitialTable
      <3>3. \A i, j \in DOMAIN jumps : jumps[i] = jumps[j] => i = j
        BY DEF SetToSeqs, IsInjective
      <3>4. CASE c = Input
        BY <2>1, <3>2, <3>3, <3>4
      <3>5. CASE c # Input
        BY <3>2, <3>5
      <3>6. QED
        BY <3>4, <3>5
    <2>3. CASE Where(s, x) = {}
      <3>1. Number(s, x) = 0
        BY <2>3, FS_EmptySet DEF Number
      <3>2. QED
        BY <2>1, <3>1
    <2>4. CASE Where(s, x) # {}
      <3>1. PICK i \in 1..Len(s) : Where(s, x) = {i}
        BY <2>2, <2>4 DEF Where
      <3>2. Number(s, x) = 1
        BY <3>1, FS_Singleton DEF Number
      <3>3. QED
        BY <2>1, <3>2
    <2>5. QED
      BY <2>3, <2>4
  <1>5. AtMost(saved, Most)
    BY <1>2, <1>3, <1>4 DEF AtMost
  <1>6. \A p \in Procs : AtMost(snap[p], Most)
    BY <1>2, <1>3, NoCopies
  <1>7. ASSUME NEW c \in AllChains, NEW x \in Targets
        PROVE  Copies(live, c, x) + Cardinality(Hasty(c, x)) <= Most
    <2>1. Hasty(c, x) = {}
      BY DEF Init, Hasty, Pending, Opening
    <2>2. Cardinality(Hasty(c, x)) = 0
      BY <2>1, FS_EmptySet
    <2>3. QED
      BY <1>3, <1>4, <2>2
  <1>8. QED
    BY <1>5, <1>6, <1>7 DEF KInv

\* Races leave at most one copy of a rule for each process; where commands may
\* fail with the code of a rule that is missing, one more for every fault.
THEOREM CopiesAtMost ==
  ASSUME Procs # {}
  PROVE  Spec => []CopiesBounded
  <1>1. IInv /\ KInv => CopiesBounded
    BY KInvParts DEF CopiesBounded, AtMost, Most
  <1>2. Init => IInv /\ KInv
    BY InitHolds, CopiesInit
  <1>3. IInv /\ KInv /\ [Next]_vars => (IInv /\ KInv)'
    BY StepHolds, CopiesStep
  <1>4. QED
    BY <1>1, <1>2, <1>3, PTL DEF Spec
=============================================================================
