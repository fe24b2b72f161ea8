------------------------------ MODULE Service ------------------------------
(***************************************************************************)
(* utils/service.py: processes of a host that start, stop, enable, disable *)
(* and query one systemd unit.  Every function is one systemctl command,   *)
(* and some commands have two effects, one after the other.  Between the   *)
(* effects of one command other commands have theirs, and the unit may     *)
(* stop by itself.                                                         *)
(***************************************************************************)
EXTENDS Command, Sequences, FiniteSets

CONSTANTS
  Procs,
  Functions,   \* those of the module that are called
  FaultCodes,  \* exit codes of a systemctl that fails
  MaxFaults,   \* bound on faults
  MaxEdits     \* bound on changes of the unit's file

\* By function, the effects of its command (external).
EffectsOf ==
  [is_service_active |-> <<"query">>,
   start_service |-> <<"start">>,
   stop_service |-> <<"stop">>,
   restart_service |-> <<"stop", "start">>,
   try_restart_service |-> <<"try_restart">>,
   enable_and_start_service |-> <<"enable", "start">>,
   disable_and_stop_service |-> <<"disable", "stop">>,
   reload_service_conf |-> <<"load">>]

ASSUME ServiceAssumption ==
  /\ Functions \subseteq DOMAIN EffectsOf /\ Functions # {}
  /\ FaultCodes \subseteq ExitCodes \ {0}
  /\ MaxFaults \in Nat /\ MaxEdits \in Nat

VARIABLES
  unit,    \* the unit (external): enabled, active, the versions of its file on
           \*   disk, as systemd loaded it, and as the unit was last started with
  call,    \* by process, the function it called
  todo,    \* the effects its command still has to have
  pc,      \* "idle", "command"
  result,  \* "ok", "raises"; of is_service_active: "active", "inactive"
  faults,  \* bound
  (* History, read by properties only. *)
  hit,     \* whether its command failed
  met,     \* what was so of the unit at some moment of its call
  alone    \* whether no other call went on during it

vars == <<unit, call, todo, pc, result, faults, hit, met, alone>>

Units == [enabled : BOOLEAN, active : BOOLEAN,
          disk : 0..MaxEdits, loaded : 0..MaxEdits, started : 0..MaxEdits]

Facts(u) ==
  {<<"enabled", u.enabled>>, <<"active", u.active>>, <<"both", u.enabled, u.active>>,
   <<"current", u.loaded = u.disk>>, <<"fresh", u.active /\ u.started = u.loaded>>}

Init ==
  /\ unit \in {u \in Units : u.disk = 0 /\ u.loaded = 0 /\ u.started = 0}
  /\ call \in [Procs -> Functions]
  /\ todo = [p \in Procs |-> <<>>]
  /\ pc = [p \in Procs |-> "idle"]
  /\ result = [p \in Procs |-> "none"]
  /\ faults = 0
  /\ hit = [p \in Procs |-> FALSE]
  /\ met = [p \in Procs |-> {}]
  /\ alone = [p \in Procs |-> TRUE]

\* Every call in progress meets the unit.
Become(u) ==
  /\ unit' = u
  /\ met' = [p \in Procs |-> IF pc[p] = "idle" THEN met[p] ELSE met[p] \cup Facts(u)]

\* A call of a function: run_command starts systemctl.
Begin(p) ==
  /\ pc[p] = "idle"
  /\ \E f \in Functions :
       /\ call' = [call EXCEPT ![p] = f]
       /\ todo' = [todo EXCEPT ![p] = EffectsOf[f]]
  /\ pc' = [pc EXCEPT ![p] = "command"]
  /\ result' = [result EXCEPT ![p] = "none"]
  /\ hit' = [hit EXCEPT ![p] = FALSE]
  /\ met' = [met EXCEPT ![p] = Facts(unit)]
  /\ alone' = [q \in Procs |-> IF q = p THEN \A r \in Procs \ {p} : pc[r] = "idle"
                              ELSE alone[q] /\ pc[q] = "idle"]
  /\ UNCHANGED <<unit, faults>>

\* What an effect makes of the unit (external).
Effect(does) ==
  [enabled |-> does = "enable" \/ (unit.enabled /\ does # "disable"),
   active |-> does = "start" \/ (unit.active /\ does \notin {"stop", "try_restart"}),
   disk |-> unit.disk,
   loaded |-> IF does = "load" THEN unit.disk ELSE unit.loaded,
   started |-> IF does = "start" /\ ~unit.active THEN unit.loaded ELSE unit.started]

\* systemctl has its next effect.
Apply(p) ==
  /\ pc[p] = "command"
  /\ todo[p] \notin {<<>>, <<"query">>}
  /\ Become(Effect(Head(todo[p])))
  /\ todo' = [todo EXCEPT ![p] =
       IF Head(@) = "try_restart" /\ unit.active THEN <<"start">> ELSE Tail(@)]
  /\ UNCHANGED <<call, pc, result, faults, hit, alone>>

\* What a function makes of the exit code of run_command(..., expected_ret_code=0):
\* a ServiceError, which is_service_active catches.
\* Slip (TypeOK): is_service_active does not catch it.
AnswerSlip(f, exit) ==
  IF Raises(exit, 0) THEN "raises"
  ELSE IF f = "is_service_active" THEN "active" ELSE "ok"

\* Slip (AnswersHaveCause, OkWasDone, OkIsWhole): the exit code is not compared.
AnswerUncheckedSlip(f, exit) ==
  IF f = "is_service_active" THEN (IF Raises(exit, AnyCode) THEN "inactive" ELSE "active")
  ELSE IF Raises(exit, AnyCode) THEN "raises" ELSE "ok"

Answer(f, exit) ==
  IF f = "is_service_active" THEN (IF Raises(exit, 0) THEN "inactive" ELSE "active")
  ELSE IF Raises(exit, 0) THEN "raises" ELSE "ok"

Return(p, exit) ==
  /\ result' = [result EXCEPT ![p] = Answer(call[p], exit)]
  /\ pc' = [pc EXCEPT ![p] = "idle"]
  /\ todo' = [todo EXCEPT ![p] = <<>>]
  /\ UNCHANGED <<unit, call, met, alone>>

\* The command ends as it should; is-active has a code for a unit that is not.
End(p) ==
  /\ pc[p] = "command"
  /\ \/ todo[p] = <<>> /\ Return(p, 0)
     \/ todo[p] = <<"query">> /\ Return(p, IF unit.active THEN 0 ELSE 2)
  /\ UNCHANGED <<faults, hit>>

\* The command fails before, between or after its effects: systemctl cannot be
\* started or is killed, or the unit does not start.
Fail(p) ==
  /\ pc[p] = "command"
  /\ faults < MaxFaults
  /\ faults' = faults + 1
  /\ hit' = [hit EXCEPT ![p] = TRUE]
  /\ \E exit \in FaultCodes : Return(p, exit)

\* The unit stops by itself.
Die ==
  /\ unit.active
  /\ Become([unit EXCEPT !.active = FALSE])
  /\ UNCHANGED <<call, todo, pc, result, faults, hit, alone>>

\* Somebody writes the unit's file.
Edit ==
  /\ unit.disk < MaxEdits
  /\ Become([unit EXCEPT !.disk = @ + 1])
  /\ UNCHANGED <<call, todo, pc, result, faults, hit, alone>>

Next ==
  \/ \E p \in Procs : Begin(p) \/ Apply(p) \/ End(p) \/ Fail(p)
  \/ Die
  \/ Edit

Spec == Init /\ [][Next]_vars

-----------------------------------------------------------------------------

\* The sorts of the variables.  is_service_active answers and never raises, and
\* only it answers.
TypeOK ==
  /\ unit \in Units
  /\ faults \in 0..MaxFaults
  /\ hit \in [Procs -> BOOLEAN]
  /\ alone \in [Procs -> BOOLEAN]
  /\ call \in [Procs -> Functions]
  /\ pc \in [Procs -> {"idle", "command"}]
  /\ result \in [Procs -> {"none", "ok", "raises", "active", "inactive"}]
  /\ \A p \in Procs :
       result[p] # "none" =>
         (result[p] \in {"active", "inactive"}) = (call[p] = "is_service_active")

Met(p, fact) == fact \in met[p]

\* A caller told that the unit is active can rely on one moment of its call when it
\* was.  One told the opposite cannot: the unit was inactive, or systemctl failed.
\* A ServiceError has a command that failed.
AnswersHaveCause ==
  \A p \in Procs :
    /\ result[p] = "active" => Met(p, <<"active", TRUE>>)
    /\ result[p] = "inactive" => Met(p, <<"active", FALSE>>) \/ hit[p]
    /\ result[p] = "raises" => hit[p]

\* What a call that returned was asked for was so at some moment of the call, each
\* part at its own, whatever other callers, an administrator and the unit itself did.
OkWasDone ==
  \A p \in Procs : result[p] = "ok" =>
    /\ call[p] \in {"start_service", "restart_service", "enable_and_start_service"} =>
         Met(p, <<"active", TRUE>>)
    /\ call[p] \in {"stop_service", "restart_service", "try_restart_service",
                    "disable_and_stop_service"} => Met(p, <<"active", FALSE>>)
    /\ call[p] = "enable_and_start_service" => Met(p, <<"enabled", TRUE>>)
    /\ call[p] = "disable_and_stop_service" => Met(p, <<"enabled", FALSE>>)
    /\ call[p] = "reload_service_conf" => Met(p, <<"current", TRUE>>)

\* Of a call beside which no other one went on: both parts of what it was asked were
\* so at once, and after a restart the unit ran with what systemd had loaded, though
\* earlier calls had failed half way and the unit may stop at any time.
OkIsWhole ==
  \A p \in Procs : result[p] = "ok" /\ alone[p] =>
    /\ call[p] = "enable_and_start_service" => Met(p, <<"both", TRUE, TRUE>>)
    /\ call[p] = "disable_and_stop_service" => Met(p, <<"both", FALSE, FALSE>>)
    /\ call[p] = "restart_service" => Met(p, <<"fresh", TRUE>>)
=============================================================================
