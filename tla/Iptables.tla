------------------------------ MODULE Iptables ------------------------------
(***************************************************************************)
(* network/iptables.py: processes that open and close ports by running     *)
(* `iptables' and `service iptables save'.                                 *)
(*                                                                         *)
(* Every step of a process is one external command and what the code does  *)
(* with its exit code.  Nothing in the code excludes other processes       *)
(* between two commands, and a command may fail, have its effect and fail, *)
(* or never return because the process or the host went down.              *)
(*                                                                         *)
(* The firewall (chains and their rules), the saved file and the boot are  *)
(* external: they are modelled as the code uses them.                      *)
(***************************************************************************)
EXTENDS Command, FiniteSets, SequencesExt

CONSTANTS
  Procs,       \* the calling processes
  Chains,      \* the values of the argument `chain'
  Ports,       \* what follows the chain in a port rule: protocol, stateful
               \* or stateless match, port or range, ACCEPT
  FaultCodes,  \* the codes with which a command may fail for no visible cause
  Interrupts,  \* which of "crash" and "reboot" may happen
  MaxFaults    \* bound: how many faults and interrupts a behaviour has

Input == "INPUT"     \* _MAIN_FIREWALL_INPUT_CHAIN
Return == "RETURN"

ASSUME NamesAssumption ==
  /\ Input \notin Chains
  /\ Return \notin Ports \cup Chains
  /\ Ports \cap Chains = {}

ASSUME FaultsAssumption ==
  /\ FaultCodes \subseteq ExitCodes \ {0}
  /\ Interrupts \subseteq {"crash", "reboot"}
  /\ MaxFaults \in Nat

ASSUME FiniteAssumption == IsFiniteSet(Procs) /\ IsFiniteSet(Chains)

AllChains == Chains \cup {Input}
Targets == Ports \cup Chains \cup {Return}
Tables == [chains : SUBSET Chains, rules : [AllChains -> Seq(Targets)]]
Calls == [open : BOOLEAN, chain : Chains, port : Ports]
PCs == {"idle", "check", "new_chain", "check_return", "add_return",
        "check_jump", "insert_jump", "insert", "delete", "save", "saving"}

VARIABLES
  live,    \* the rules of the kernel
  saved,   \* the rules in the file that the boot restores
  pc,      \* pc[p]: the command p runs next, "idle" outside a call
  call,    \* call[p]: the arguments of the last call of p
  result,  \* result[p]: how it ended, "none" while it runs or after a crash
  snap,    \* snap[p]: the rules `service iptables save' of p has dumped
  faults,  \* how many faults there were
  hit,     \* history: hit[p] says that a fault hit the last call of p
  owed,    \* history: a call ended before its save, and none was made since
  users    \* history: users[a]: who called last for the port rule a, all of
           \* them if two such calls ever overlapped

vars == <<live, saved, pc, call, result, snap, faults, hit, owed, users>>

-----------------------------------------------------------------------------
(* The rules of the code: a chain and what the rule does.                  *)

Rule(chain, target) == [chain |-> chain, target |-> target]
ReturnRule(p) == Rule(call[p].chain, Return)
\* Slip (TypeOK): the jump names the port instead of the chain.
JumpRuleSlip(p) == Rule(Input, call[p].port)
JumpRule(p) == Rule(Input, call[p].chain)
PortRule(p) == Rule(call[p].chain, call[p].port)

\* The port rules, and the one a call is about.
Accesses == [chain : Chains, port : Ports]
Access(p) == [chain |-> call[p].chain, port |-> call[p].port]

(* The commands: the exit code and the rules they leave (external).        *)

Reply(exit, table) == [exit |-> exit, table |-> table]

HasRule(t, r) == Contains(t.rules[r.chain], r.target)

\* The table t with other rules in a chain.
Rewrite(t, chain, rules) ==
  [chains |-> t.chains, rules |-> [t.rules EXCEPT ![chain] = rules]]

\* A rule needs its own chain, and the chain it jumps to.
CanHold(t, r) ==
  /\ r.chain \in t.chains \cup {Input}
  /\ r.target \in Chains => r.target \in t.chains

\* iptables -C
CheckRule(t, r) == Reply(IF HasRule(t, r) THEN 0 ELSE 1, t)

\* iptables -N
NewChain(t, c) ==
  IF c \in t.chains THEN Reply(1, t)
  ELSE Reply(0, [chains |-> t.chains \cup {c}, rules |-> t.rules])

\* iptables -A
AppendRule(t, r) ==
  IF CanHold(t, r)
  THEN Reply(0, Rewrite(t, r.chain, Append(t.rules[r.chain], r.target)))
  ELSE Reply(1, t)

\* iptables -I
InsertRule(t, r) ==
  IF CanHold(t, r)
  THEN Reply(0, Rewrite(t, r.chain, <<r.target>> \o t.rules[r.chain]))
  ELSE Reply(1, t)

\* iptables -D: the first rule that matches.
DeleteRule(t, r) ==
  IF HasRule(t, r)
  THEN Reply(0, Rewrite(t, r.chain, RemoveFirst(t.rules[r.chain], r.target)))
  ELSE Reply(1, t)

\* A command does what it replies, or fails with a code of FaultCodes,
\* before or after its effect.
Outcomes(reply) ==
  {[exit |-> reply.exit, table |-> reply.table, fault |-> FALSE]}
  \cup [exit : IF faults < MaxFaults THEN FaultCodes ELSE {},
        table : {live, reply.table}, fault : {TRUE}]

-----------------------------------------------------------------------------
(* What the code makes of an exit code.                                    *)

IsFatalIptablesCode(code) == code \notin {0, 1}

\* Slip (OkIsApplied): every code but 0 taken for "no such rule".
HasIptablesRuleSlip(exit) == IF exit = 0 THEN "yes" ELSE "no"

\* has_iptables_rule: its answer, or "raises".
HasIptablesRule(exit) ==
  CASE Raises(exit, AnyCode) \/ IsFatalIptablesCode(exit) -> "raises"
    [] exit = 0 -> "yes"
    [] exit = 1 -> "no"

\* run_command([...], expected_ret_code=0)
Succeeds(exit) == ~Raises(exit, 0)

-----------------------------------------------------------------------------
(* Steps of a process.                                                     *)

NoTable == [chains |-> {}, rules |-> [c \in AllChains |-> <<>>]]

Suffer(p, n) ==
  /\ faults' = faults + n
  /\ hit' = [hit EXCEPT ![p] = @ \/ n > 0]

\* The outcome o of the command of p is there.
Take(p, o) ==
  /\ live' = o.table
  /\ Suffer(p, IF o.fault THEN 1 ELSE 0)
  /\ UNCHANGED <<saved, call>>

Goto(p, label) ==
  /\ pc' = [pc EXCEPT ![p] = label]
  /\ UNCHANGED <<result, snap, owed, users>>

Leave(p, answer) ==
  /\ pc' = [pc EXCEPT ![p] = "idle"]
  /\ result' = [result EXCEPT ![p] = answer]
  /\ snap' = [snap EXCEPT ![p] = NoTable]
  /\ UNCHANGED users

\* The function returns.
Finish(p) == Leave(p, "ok") /\ UNCHANGED owed

\* An IptablesError leaves the function.
Raise(p) == Leave(p, "error") /\ owed' = (owed \/ live' # saved')

\* The processes in a call for a port rule.
Busy(a) == {p \in Procs : pc[p] # "idle" /\ Access(p) = a}

\* Two calls for a port rule overlapped: it may have copies ever since.
Raced(a) == \E p, q \in users[a] : p # q

\* update_iptables_tcp_port, update_iptables_tcp_port_range
Begin(p) ==
  /\ pc[p] = "idle"
  /\ \E c \in Calls :
       LET a == [chain |-> c.chain, port |-> c.port] IN
       /\ call' = [call EXCEPT ![p] = c]
       /\ users' = [users EXCEPT ![a] =
                       {p} \cup (IF Raced(a) THEN @ ELSE Busy(a))]
  /\ pc' = [pc EXCEPT ![p] = "check"]
  /\ result' = [result EXCEPT ![p] = "none"]
  /\ hit' = [hit EXCEPT ![p] = FALSE]
  /\ UNCHANGED <<live, saved, snap, faults, owed>>

\* Slip (OkIsApplied): an open that does not look whether the rule is there.
CheckPortBlind(p) ==
  /\ pc[p] = "check"
  /\ \E o \in Outcomes(CheckRule(live, PortRule(p))) :
       LET found == HasIptablesRule(o.exit) IN
       /\ Take(p, o)
       /\ \/ found = "raises" /\ Raise(p)
          \/ found = "no" /\ ~call[p].open /\ Finish(p)
          \/ found # "raises" /\ (call[p].open \/ found = "yes")
             /\ Goto(p, IF call[p].open THEN "new_chain" ELSE "delete")

\* 1. Check if the rule is present.
CheckPort(p) ==
  /\ pc[p] = "check"
  /\ \E o \in Outcomes(CheckRule(live, PortRule(p))) :
       LET found == HasIptablesRule(o.exit) IN
       /\ Take(p, o)
       /\ \/ found = "raises" /\ Raise(p)
          \/ found # "raises" /\ call[p].open = (found = "yes") /\ Finish(p)
          \/ found # "raises" /\ call[p].open # (found = "yes")
             /\ Goto(p, IF call[p].open THEN "new_chain" ELSE "delete")

\* Slip (ErrorsHaveCause): a chain that exists already taken for a failure.
CreateChainSlip(p) ==
  /\ pc[p] = "new_chain"
  /\ \E o \in Outcomes(NewChain(live, call[p].chain)) :
       /\ Take(p, o)
       /\ IF Succeeds(o.exit) THEN Goto(p, "check_return") ELSE Raise(p)

\* _ensure_iptables_chain_exists: -N answers 1 for a chain that exists.
CreateChain(p) ==
  /\ pc[p] = "new_chain"
  /\ \E o \in Outcomes(NewChain(live, call[p].chain)) :
       /\ Take(p, o)
       /\ IF Raises(o.exit, AnyCode) \/ IsFatalIptablesCode(o.exit)
          THEN Raise(p)
          ELSE Goto(p, "check_return")

\* `if not has_iptables_rule(rule)': the command that adds it, or the next one.
CheckSetup(p, at, rule, missing, present) ==
  /\ pc[p] = at
  /\ \E o \in Outcomes(CheckRule(live, rule)) :
       LET found == HasIptablesRule(o.exit) IN
       /\ Take(p, o)
       /\ \/ found = "raises" /\ Raise(p)
          \/ found = "no" /\ Goto(p, missing)
          \/ found = "yes" /\ Goto(p, present)

\* Slip (ListedIsEffective): a chain with its RETURN taken for one that is
\* set up.
CheckReturnSlip(p) ==
  CheckSetup(p, "check_return", ReturnRule(p), "add_return", "insert")

CheckReturn(p) ==
  CheckSetup(p, "check_return", ReturnRule(p), "add_return", "check_jump")

\* Slip (CopiesBounded): the jump inserted without looking.
CheckJumpSlip(p) ==
  CheckSetup(p, "check_jump", JumpRule(p), "insert_jump", "insert_jump")

CheckJump(p) ==
  CheckSetup(p, "check_jump", JumpRule(p), "insert_jump", "insert")

\* A command run with expected_ret_code=0, its CommandError made an
\* IptablesError.
RunTo(p, at, reply, next) ==
  /\ pc[p] = at
  /\ \E o \in Outcomes(reply) :
       /\ Take(p, o)
       /\ IF Succeeds(o.exit) THEN Goto(p, next) ELSE Raise(p)

\* Slip (IInv): the jump forgotten when RETURN was missing.
AddReturnSlip(p) ==
  RunTo(p, "add_return", AppendRule(live, ReturnRule(p)), "insert")

\* Slip (ImplementsPortAccess): RETURN inserted with -I, above the ports.
AddReturnFirst(p) ==
  RunTo(p, "add_return", InsertRule(live, ReturnRule(p)), "check_jump")

AddReturn(p) ==
  RunTo(p, "add_return", AppendRule(live, ReturnRule(p)), "check_jump")

InsertJump(p) ==
  RunTo(p, "insert_jump", InsertRule(live, JumpRule(p)), "insert")

\* 2. Open or close.
InsertPort(p) ==
  RunTo(p, "insert", InsertRule(live, PortRule(p)), "save")

\* Slip (UnsavedIsOwed): a close that returns without a save.
DeletePortUnsaved(p) ==
  /\ pc[p] = "delete"
  /\ \E o \in Outcomes(DeleteRule(live, PortRule(p))) :
       /\ Take(p, o)
       /\ IF Succeeds(o.exit) THEN Finish(p) ELSE Raise(p)

\* Slip (CallsEnd): a -D that fails tried again.
DeletePortAgain(p) ==
  /\ pc[p] = "delete"
  /\ \E o \in Outcomes(DeleteRule(live, PortRule(p))) :
       /\ Take(p, o)
       /\ Goto(p, IF Succeeds(o.exit) THEN "save" ELSE "delete")

DeletePort(p) ==
  RunTo(p, "delete", DeleteRule(live, PortRule(p)), "save")

\* 3. Save: the service dumps the rules, ...
SaveStart(p) ==
  /\ pc[p] = "save"
  /\ \/ /\ snap' = [snap EXCEPT ![p] = live]
        /\ pc' = [pc EXCEPT ![p] = "saving"]
        /\ UNCHANGED <<live, saved, call, result, faults, hit, owed, users>>
     \/ /\ faults < MaxFaults /\ FaultCodes # {}
        /\ Suffer(p, 1)
        /\ UNCHANGED <<live, saved, call>>
        /\ Raise(p)

\* ... then replaces the file.
SaveEnd(p) ==
  /\ pc[p] = "saving"
  /\ \/ /\ saved' = snap[p]
        /\ Leave(p, "ok")
        /\ owed' = (owed /\ saved' # live)
        /\ UNCHANGED <<live, call, faults, hit>>
     \/ /\ faults < MaxFaults /\ FaultCodes # {}
        /\ saved' \in {saved, snap[p]}
        /\ Suffer(p, 1)
        /\ UNCHANGED <<live, call>>
        /\ Raise(p)

\* The process is killed, before, after or, of a save, in the middle of a command,
\* which ends with it: one that would survive it and act later is left out.
Crash(p) ==
  /\ pc[p] # "idle"
  /\ "crash" \in Interrupts /\ faults < MaxFaults
  /\ Suffer(p, 1)
  /\ Leave(p, "none")
  /\ owed' = (owed \/ live # saved)
  /\ UNCHANGED <<live, saved, call>>

\* The host restarts: the rules are those of the file (external).
Reboot ==
  /\ "reboot" \in Interrupts /\ faults < MaxFaults
  /\ faults' = faults + 1
  /\ live' = saved
  /\ pc' = [p \in Procs |-> "idle"]
  /\ result' = [p \in Procs |-> "none"]
  /\ snap' = [p \in Procs |-> NoTable]
  /\ hit' = [p \in Procs |-> TRUE]
  /\ owed' = FALSE
  /\ UNCHANGED <<saved, call, users>>

-----------------------------------------------------------------------------
(* A host on which no port was opened yet: the chain may be missing, empty *)
(* or ended by RETURN, and INPUT may already jump to it.                   *)
InitialTable(existing, ended, jumps) ==
  [chains |-> existing,
   rules |-> [c \in AllChains |-> IF c = Input THEN jumps
                                  ELSE IF c \in ended THEN <<Return>> ELSE <<>>]]

Init ==
  /\ \E existing \in SUBSET Chains :
       \E ended, hooked \in SUBSET existing :
         \E jumps \in SetToSeqs(hooked) :
           live = InitialTable(existing, ended, jumps)
  /\ saved = live
  /\ pc = [p \in Procs |-> "idle"]
  /\ \E c \in Calls : call = [p \in Procs |-> c]
  /\ result = [p \in Procs |-> "none"]
  /\ snap = [p \in Procs |-> NoTable]
  /\ faults = 0
  /\ hit = [p \in Procs |-> FALSE]
  /\ owed = FALSE
  /\ users = [a \in Accesses |-> {}]

\* The steps of a call, each of which is taken as soon as the command ends.
Step(p) ==
  \/ CheckPort(p) \/ CreateChain(p)
  \/ CheckReturn(p) \/ AddReturn(p) \/ CheckJump(p) \/ InsertJump(p)
  \/ InsertPort(p) \/ DeletePort(p) \/ SaveStart(p) \/ SaveEnd(p)

Next == (\E p \in Procs : Begin(p) \/ Step(p) \/ Crash(p)) \/ Reboot

Spec == Init /\ [][Next]_vars

FairSpec == Spec /\ \A p \in Procs : WF_vars(Step(p))

-----------------------------------------------------------------------------
(* Properties.                                                             *)

\* Type correctness; a chain that does not exist has no rules, and INPUT
\* jumps to existing chains only.
TableOK(t) ==
  /\ t \in Tables
  /\ t.rules[Input] \in Seq(t.chains)
  /\ \A c \in Chains : /\ t.rules[c] \in Seq(Ports \cup {Return})
                       /\ c \notin t.chains => t.rules[c] = <<>>

TypeOK ==
  /\ TableOK(live) /\ TableOK(saved)
  /\ pc \in [Procs -> PCs]
  /\ call \in [Procs -> Calls]
  /\ result \in [Procs -> {"none", "ok", "error"}]
  /\ snap \in [Procs -> Tables] /\ \A p \in Procs : TableOK(snap[p])
  /\ faults \in 0..MaxFaults
  /\ hit \in [Procs -> BOOLEAN]
  /\ owed \in BOOLEAN
  /\ users \in [Accesses -> SUBSET Procs]

\* The port rules that has_iptables_rule finds.
Listed(t) == {a \in Accesses : Contains(t.rules[a.chain], a.port)}

\* Where in its chain a packet meets a port rule: INPUT jumps to the chain,
\* and no RETURN comes before the rule.
Met(t, a) ==
  {i \in DOMAIN t.rules[a.chain] :
     /\ t.rules[a.chain][i] = a.port
     /\ Contains(t.rules[Input], a.chain)
     /\ \A j \in 1..i : t.rules[a.chain][j] # Return}

Effective(t) == {a \in Accesses : Met(t, a) # {}}

\* A port rule that is found is a port rule that admits traffic, now and
\* after a boot: an open that returns early because the rule is there need
\* not look at the chain, its RETURN or the jump to it, whatever the other
\* processes did and wherever they failed.
ListedIsEffective == \A t \in {live, saved} : Effective(t) = Listed(t)

Hooked(t) ==
  \A c \in Chains, x \in Ports :
    Contains(t.rules[c], x) => Contains(t.rules[Input], c)

Ordered(t) ==
  \A c \in Chains : \A i, j \in DOMAIN t.rules[c] :
    t.rules[c][i] \in Ports /\ t.rules[c][j] = Return => i < j

\* What holds of the call and of the table when a process is at a label.
Opening == {"new_chain", "check_return", "add_return", "check_jump",
            "insert_jump", "insert"}

Ready(p, label, t) ==
  /\ label \in Opening => call[p].open
  /\ label = "delete" => ~call[p].open
  /\ label \in {"check_jump", "insert_jump", "insert"} =>
       Contains(t.rules[call[p].chain], Return)
  /\ label = "insert" => Contains(t.rules[Input], call[p].chain)

Established(p) == Ready(p, pc[p], live)

\* The inductive invariant behind ListedIsEffective.
IInv ==
  /\ TypeOK
  /\ Hooked(live) /\ Ordered(live)
  /\ Hooked(saved) /\ Ordered(saved)
  /\ \A p \in Procs : Hooked(snap[p]) /\ Ordered(snap[p])
  /\ \A p \in Procs : Established(p)

Copies(t, c, x) == Cardinality({i \in DOMAIN t.rules[c] : t.rules[c][i] = x})

\* The checks before -A and -I keep the rules from piling up: processes that
\* race leave at most one copy each, and a single process leaves no duplicate
\* that would survive a close.  Only a -C that fails with 1 hides a rule that is
\* there; where faults may have that code, the bound allows one more copy for
\* every fault, of any command and any code.
CopiesBounded ==
  \A c \in AllChains, x \in Targets :
    Copies(live, c, x) <=
      Cardinality(Procs) + (IF 1 \in FaultCodes THEN faults ELSE 0)

\* A call that returns has done what it was asked: the port is open, or
\* closed, whatever failed or was killed in earlier calls, and whatever the
\* other processes do to other ports; until another process calls for the
\* same port rule, and never if two calls for it have overlapped.
OkIsApplied ==
  \A p \in Procs :
    result[p] = "ok" /\ users[Access(p)] = {p} =>
      (Access(p) \in Effective(live)) = call[p].open

\* The rules differ from the file only during a call that will save them, or
\* since a call that failed or was killed before it could.
MidUpdate == PCs \ {"idle", "check", "new_chain", "delete"}
UnsavedIsOwed ==
  live # saved => owed \/ \E p \in Procs : pc[p] \in MidUpdate

\* A call raises only when a command failed under it; the one exception is a
\* close of a port rule for which two calls have overlapped: the other one may
\* delete the rule first.  An open never fails because of the chain, RETURN or
\* jump that another call, or an interrupted call before it, has left behind,
\* and no call fails because of calls for other port rules.
ErrorsHaveCause ==
  \A p \in Procs :
    result[p] = "error" => hit[p] \/ (~call[p].open /\ Raced(Access(p)))

\* A call that returns without an error leaves its result in the file too.
OkIsDurable ==
  \A p \in Procs :
    result[p] = "ok" => (Access(p) \in Effective(saved)) = call[p].open

\* Every call ends, with or without an error.
CallsEnd == \A p \in Procs : pc[p] # "idle" ~> pc[p] = "idle"

-----------------------------------------------------------------------------
(* Every step of the commands is a step of PortAccess, or none: setting up *)
(* the chain, RETURN and the jump never changes what is in effect.         *)

InEffect(t) == [a \in Accesses |-> Cardinality(Met(t, a))]

Request(p) == [open |-> call[p].open, access |-> Access(p)]

Stage(p) ==
  CASE pc[p] = "idle" -> "idle"
    [] pc[p] = "save" -> "granted"
    [] pc[p] = "saving" -> "imaged"
    [] OTHER -> "asked"

Abstract ==
  INSTANCE PortAccess WITH
    Mistakes <- 1 \in FaultCodes,
    effective <- InEffect(live),
    durable <- InEffect(saved),
    image <- [p \in Procs |-> InEffect(snap[p])],
    asks <- [p \in Procs |-> Request(p)],
    stage <- [p \in Procs |-> Stage(p)],
    answer <- result

\* The processes implement PortAccess: a call changes what is in effect by
\* one copy of its rule or not at all, and answers "ok" only when it did and
\* saved it, or found the rule to be as asked.
ImplementsPortAccess == Abstract!ASpec
=============================================================================
