--------------------------- MODULE ServiceProofs ---------------------------
(***************************************************************************)
(* Proofs about Service: for any number of processes, faults and edits, in *)
(* any interleaving, what a call that returned says is so.                 *)
(***************************************************************************)
EXTENDS Service, TLAPS

Running(p) == pc[p] = "command"

\* What the effects that a call has had so far leave behind: what was so of the
\* unit at some moment, and, as long as no other call goes on, what still is.
Progress(p) ==
  \/ call[p] = "is_service_active" /\ todo[p] = <<"query">>
  \/ /\ call[p] = "start_service"
     /\ todo[p] = <<"start">> \/ (todo[p] = <<>> /\ Met(p, <<"active", TRUE>>))
  \/ /\ call[p] = "stop_service"
     /\ todo[p] = <<"stop">> \/ (todo[p] = <<>> /\ Met(p, <<"active", FALSE>>))
  \/ /\ call[p] = "restart_service"
     /\ \/ todo[p] = <<"stop", "start">>
        \/ /\ todo[p] = <<"start">> /\ Met(p, <<"active", FALSE>>)
           /\ alone[p] => ~unit.active
        \/ /\ todo[p] = <<>> /\ Met(p, <<"active", FALSE>>) /\ Met(p, <<"active", TRUE>>)
           /\ alone[p] => Met(p, <<"fresh", TRUE>>)
  \/ /\ call[p] = "try_restart_service"
     /\ \/ todo[p] = <<"try_restart">>
        \/ todo[p] \in {<<"start">>, <<>>} /\ Met(p, <<"active", FALSE>>)
  \/ /\ call[p] = "enable_and_start_service"
     /\ \/ todo[p] = <<"enable", "start">>
        \/ /\ todo[p] = <<"start">> /\ Met(p, <<"enabled", TRUE>>)
           /\ alone[p] => unit.enabled
        \/ /\ todo[p] = <<>> /\ Met(p, <<"enabled", TRUE>>) /\ Met(p, <<"active", TRUE>>)
           /\ alone[p] => Met(p, <<"both", TRUE, TRUE>>)
  \/ /\ call[p] = "disable_and_stop_service"
     /\ \/ todo[p] = <<"disable", "stop">>
        \/ /\ todo[p] = <<"stop">> /\ Met(p, <<"enabled", FALSE>>)
           /\ alone[p] => ~unit.enabled
        \/ /\ todo[p] = <<>> /\ Met(p, <<"enabled", FALSE>>) /\ Met(p, <<"active", FALSE>>)
           /\ alone[p] => Met(p, <<"both", FALSE, FALSE>>)
  \/ /\ call[p] = "reload_service_conf"
     /\ todo[p] = <<"load">> \/ (todo[p] = <<>> /\ Met(p, <<"current", TRUE>>))

\* A call that goes on has met the unit as it is, and knows whether it is alone.
Witnessed(p) ==
  Running(p) => /\ Facts(unit) \subseteq met[p]
                /\ result[p] = "none"
                /\ alone[p] => \A q \in Procs \ {p} : ~Running(q)
                /\ Progress(p)

Functional ==
  /\ todo = [p \in Procs |-> todo[p]]
  /\ met = [p \in Procs |-> met[p]]

\* The inductive invariant.
IInv ==
  /\ TypeOK /\ Functional
  /\ \A p \in Procs : Witnessed(p)
  /\ AnswersHaveCause /\ OkWasDone /\ OkIsWhole

\* What the properties say of one process.
Returned(p) ==
  /\ result[p] = "active" => Met(p, <<"active", TRUE>>)
  /\ result[p] = "inactive" => Met(p, <<"active", FALSE>>) \/ hit[p]
  /\ result[p] = "raises" => hit[p]
  /\ result[p] = "ok" =>
       /\ call[p] \in {"start_service", "restart_service", "enable_and_start_service"} =>
            Met(p, <<"active", TRUE>>)
       /\ call[p] \in {"stop_service", "restart_service", "try_restart_service",
                       "disable_and_stop_service"} => Met(p, <<"active", FALSE>>)
       /\ call[p] = "enable_and_start_service" => Met(p, <<"enabled", TRUE>>)
       /\ call[p] = "disable_and_stop_service" => Met(p, <<"enabled", FALSE>>)
       /\ call[p] = "reload_service_conf" => Met(p, <<"current", TRUE>>)
  /\ result[p] = "ok" /\ alone[p] =>
       /\ call[p] = "enable_and_start_service" => Met(p, <<"both", TRUE, TRUE>>)
       /\ call[p] = "disable_and_stop_service" => Met(p, <<"both", FALSE, FALSE>>)
       /\ call[p] = "restart_service" => Met(p, <<"fresh", TRUE>>)

LEMMA ReturnedIsAll ==
  (\A p \in Procs : Returned(p)) <=> (AnswersHaveCause /\ OkWasDone /\ OkIsWhole)
  BY DEF Returned, AnswersHaveCause, OkWasDone, OkIsWhole

LEMMA Combine ==
  ASSUME TypeOK', Functional', \A p \in Procs : Witnessed(p)' /\ Returned(p)'
  PROVE  IInv'
  <1>1. (AnswersHaveCause /\ OkWasDone /\ OkIsWhole)'
    BY DEF Returned, AnswersHaveCause, OkWasDone, OkIsWhole
  <1>2. QED
    BY <1>1 DEF IInv

-----------------------------------------------------------------------------

\* Tuples of one and of two effects.
LEMMA Tuples ==
  ASSUME NEW x, NEW y
  PROVE  /\ Head(<<x>>) = x /\ Tail(<<x>>) = <<>> /\ <<x>> # <<>>
         /\ Head(<<x, y>>) = x /\ Tail(<<x, y>>) = <<y>> /\ <<x, y>> # <<>>
  OBVIOUS

LEMMA OneEffect ==
  ASSUME NEW x, NEW y, x # y
  PROVE  <<x>> # <<y>>
  <1>1. <<x>>[1] = x /\ <<y>>[1] = y
    OBVIOUS
  <1>2. QED
    BY <1>1

LEMMA TwoEffects ==
  ASSUME NEW x, NEW y, NEW z
  PROVE  <<x, y>> # <<z>>
  <1>1. Len(<<x, y>>) = 2 /\ Len(<<z>>) = 1
    OBVIOUS
  <1>2. QED
    BY <1>1

\* What an effect makes of a unit.
LEMMA EffectFacts ==
  ASSUME unit \in Units, NEW does
  PROVE  /\ Effect(does) \in Units
         /\ Effect(does).enabled = (does = "enable" \/ (unit.enabled /\ does # "disable"))
         /\ Effect(does).active =
              (does = "start" \/ (unit.active /\ does \notin {"stop", "try_restart"}))
         /\ does = "load" => Effect(does).loaded = Effect(does).disk
         /\ does = "start" /\ ~unit.active => Effect(does).started = Effect(does).loaded
  BY DEF Effect, Units

\* A process that does nothing, while the unit may become another one.
LEMMA BystanderStep ==
  ASSUME IInv, NEW q \in Procs,
         unit' \in Units,
         call'[q] = call[q], todo'[q] = todo[q], pc'[q] = pc[q],
         result'[q] = result[q], hit'[q] = hit[q],
         met'[q] = IF pc[q] = "idle" THEN met[q] ELSE met[q] \cup Facts(unit'),
         alone'[q] \in BOOLEAN,
         alone'[q] => alone[q],
         ~Running(q) => alone'[q] = alone[q],
         Running(q) /\ alone'[q] => /\ unit'.enabled = unit.enabled
                                    /\ unit'.active => unit.active
                                    /\ \A r \in Procs \ {q} : ~Running(r)'
  PROVE  Witnessed(q)' /\ Returned(q)'
  <1>1. met[q] \subseteq met'[q]
    OBVIOUS
  <1>2. Returned(q)'
    BY <1>1, ReturnedIsAll DEF IInv, Returned, Met, Running
  <1>3. ASSUME Running(q)'
        PROVE  Progress(q)'
    <2>1. Running(q) /\ Progress(q)
      BY <1>3 DEF IInv, Witnessed, Running
    <2>2. \A fact : Met(q, fact) => Met(q, fact)'
      BY <1>1 DEF Met
    <2>3. unit.enabled \in BOOLEAN /\ unit.active \in BOOLEAN
          /\ unit'.enabled \in BOOLEAN /\ unit'.active \in BOOLEAN
      BY DEF IInv, TypeOK, Units
    <2>4. QED
      BY <2>1, <2>2, <2>3 DEF Progress
  <1>4. Running(q)' => Facts(unit') \subseteq met'[q] /\ result'[q] = "none"
    BY DEF IInv, Witnessed, Running, TypeOK
  <1>5. QED
    BY <1>2, <1>3, <1>4 DEF Witnessed, Running

LEMMA BeginStep ==
  ASSUME IInv, NEW p \in Procs, Begin(p)
  PROVE  IInv'
  <1>1. PICK f \in Functions : /\ call' = [call EXCEPT ![p] = f]
                               /\ todo' = [todo EXCEPT ![p] = EffectsOf[f]]
    BY DEF Begin
  <1>2. /\ pc' = [pc EXCEPT ![p] = "command"] /\ result' = [result EXCEPT ![p] = "none"]
        /\ hit' = [hit EXCEPT ![p] = FALSE] /\ met' = [met EXCEPT ![p] = Facts(unit)]
        /\ alone' = [q \in Procs |-> IF q = p THEN \A r \in Procs \ {p} : pc[r] = "idle"
                                     ELSE alone[q] /\ pc[q] = "idle"]
        /\ unit' = unit /\ faults' = faults /\ pc[p] = "idle"
    BY DEF Begin
  <1>3. TypeOK' /\ Functional'
    BY <1>1, <1>2 DEF IInv, TypeOK, Functional
  <1>4. ASSUME NEW q \in Procs \ {p}
        PROVE  Witnessed(q)' /\ Returned(q)'
    <2>1. /\ call'[q] = call[q] /\ todo'[q] = todo[q] /\ pc'[q] = pc[q]
          /\ result'[q] = result[q] /\ hit'[q] = hit[q] /\ met'[q] = met[q]
      BY <1>1, <1>2 DEF IInv, TypeOK, Functional
    <2>2. met'[q] = IF pc[q] = "idle" THEN met[q] ELSE met[q] \cup Facts(unit')
      BY <1>2, <2>1 DEF IInv, Witnessed, Running, TypeOK
    <2>3. /\ alone'[q] = (alone[q] /\ pc[q] = "idle") /\ alone[q] \in BOOLEAN
      BY <1>2 DEF IInv, TypeOK
    <2>4. unit' \in Units
      BY <1>2 DEF IInv, TypeOK
    <2>5. Running(q) <=> pc[q] # "idle"
      BY DEF Running, IInv, TypeOK
    <2>6. QED
      BY <2>1, <2>2, <2>3, <2>4, <2>5, BystanderStep
  <1>5. Witnessed(p)'
    <2>1. /\ result'[p] = "none" /\ met'[p] = Facts(unit') /\ call'[p] = f /\ todo'[p] = EffectsOf[f]
          /\ alone'[p] => \A q \in Procs \ {p} : ~Running(q)'
      BY <1>1, <1>2 DEF IInv, TypeOK, Functional, Running
    <2>2. f \in DOMAIN EffectsOf
      BY ServiceAssumption
    <2>3. Progress(p)'
      BY <2>1, <2>2 DEF Progress, EffectsOf
    <2>4. QED
      BY <2>1, <2>3 DEF Witnessed
  <1>6. Returned(p)'
    BY <1>2 DEF Returned, IInv, TypeOK
  <1>7. QED
    BY <1>3, <1>4, <1>5, <1>6, Combine

\* A step of a running call: the others stand by.
LEMMA OthersStandBy ==
  ASSUME IInv, NEW p \in Procs, Running(p), unit' \in Units,
         NEW q \in Procs \ {p},
         call'[q] = call[q], todo'[q] = todo[q], pc'[q] = pc[q],
         result'[q] = result[q], hit'[q] = hit[q], alone'[q] = alone[q],
         met'[q] = IF pc[q] = "idle" THEN met[q] ELSE met[q] \cup Facts(unit')
  PROVE  Witnessed(q)' /\ Returned(q)'
  <1>1. Running(q) => ~alone[q]
    BY DEF IInv, Witnessed
  <1>2. alone[q] \in BOOLEAN
    BY DEF IInv, TypeOK
  <1>3. QED
    BY <1>1, <1>2, BystanderStep

LEMMA ApplyStep ==
  ASSUME IInv, NEW p \in Procs, Apply(p)
  PROVE  IInv'
  <1> DEFINE does == Head(todo[p])
  <1>1. /\ unit' = Effect(does)
        /\ met' = [q \in Procs |-> IF pc[q] = "idle" THEN met[q] ELSE met[q] \cup Facts(unit')]
        /\ todo' = [todo EXCEPT ![p] = IF does = "try_restart" /\ unit.active THEN <<"start">>
                                       ELSE Tail(todo[p])]
        /\ UNCHANGED <<call, pc, result, faults, hit, alone>>
        /\ pc[p] = "command" /\ todo[p] \notin {<<>>, <<"query">>}
    BY DEF Apply, Become
  <1>2. /\ unit' \in Units
        /\ unit'.enabled = (does = "enable" \/ (unit.enabled /\ does # "disable"))
        /\ unit'.active = (does = "start" \/ (unit.active /\ does \notin {"stop", "try_restart"}))
        /\ does = "load" => unit'.loaded = unit'.disk
        /\ does = "start" /\ ~unit.active => unit'.started = unit'.loaded
    BY <1>1, EffectFacts DEF IInv, TypeOK
  <1>3. TypeOK' /\ Functional'
    BY <1>1, <1>2 DEF IInv, TypeOK, Functional
  <1>4. ASSUME NEW q \in Procs \ {p}
        PROVE  Witnessed(q)' /\ Returned(q)'
    <2>1. todo'[q] = todo[q] /\ met'[q] = IF pc[q] = "idle" THEN met[q] ELSE met[q] \cup Facts(unit')
      BY <1>1 DEF IInv, Functional
    <2>2. QED
      BY <1>1, <1>2, <2>1, OthersStandBy DEF Running
  <1>5. /\ met'[p] = met[p] \cup Facts(unit')
        /\ todo'[p] = IF does = "try_restart" /\ unit.active THEN <<"start">> ELSE Tail(todo[p])
        /\ Progress(p) /\ result[p] = "none"
        /\ alone[p] => \A q \in Procs \ {p} : ~Running(q)
    BY <1>1 DEF IInv, Functional, Witnessed, Running
  <1>6. /\ \A fact : Met(p, fact) => Met(p, fact)'
        /\ <<"enabled", unit'.enabled>> \in met'[p] /\ <<"active", unit'.active>> \in met'[p]
        /\ <<"both", unit'.enabled, unit'.active>> \in met'[p]
        /\ <<"current", unit'.loaded = unit'.disk>> \in met'[p]
        /\ <<"fresh", unit'.active /\ unit'.started = unit'.loaded>> \in met'[p]
    <2>1. \A fact : (fact \in met[p] \/ fact \in Facts(unit')) => fact \in met'[p]
      BY <1>5
    <2>2. QED
      BY <2>1 DEF Met, Facts
  <1>7. Progress(p)'
    <2>1. /\ todo[p] = <<"start">> => does = "start" /\ todo'[p] = <<>>
          /\ todo[p] = <<"stop">> => does = "stop" /\ todo'[p] = <<>>
          /\ todo[p] = <<"load">> => does = "load" /\ todo'[p] = <<>>
      BY <1>5, Tuples
    <2>2. /\ todo[p] = <<"stop", "start">> => does = "stop" /\ todo'[p] = <<"start">>
          /\ todo[p] = <<"enable", "start">> => does = "enable" /\ todo'[p] = <<"start">>
          /\ todo[p] = <<"disable", "stop">> => does = "disable" /\ todo'[p] = <<"stop">>
      <3>1. \A x, y : todo[p] = <<x, y>> /\ x # "try_restart" => does = x /\ todo'[p] = <<y>>
        <4>1. ASSUME NEW x, NEW y, todo[p] = <<x, y>>, x # "try_restart"
              PROVE  does = x /\ todo'[p] = <<y>>
          <5>1. does = x /\ Tail(todo[p]) = <<y>>
            BY <4>1, Tuples
          <5>2. QED
            BY <1>5, <4>1, <5>1
        <4>2. QED
          BY <4>1
      <3>2. QED
        BY <3>1
    <2>3. todo[p] = <<"try_restart">> =>
            /\ does = "try_restart"
            /\ todo'[p] = IF unit.active THEN <<"start">> ELSE <<>>
      BY <1>5, Tuples
    <2>4. call'[p] = call[p] /\ alone'[p] = alone[p] /\ todo[p] # <<>>
      BY <1>1
    <2>5. unit.enabled \in BOOLEAN /\ unit.active \in BOOLEAN
          /\ unit'.enabled \in BOOLEAN /\ unit'.active \in BOOLEAN
      BY <1>2 DEF IInv, TypeOK, Units
    <2>6. CASE call[p] = "start_service"
      BY <1>2, <1>5, <1>6, <2>1, <2>4, <2>6 DEF Progress, Met
    <2>7. CASE call[p] = "stop_service"
      BY <1>2, <1>5, <1>6, <2>1, <2>4, <2>7 DEF Progress, Met
    <2>8. CASE call[p] = "restart_service"
      BY <1>2, <1>5, <1>6, <2>1, <2>2, <2>4, <2>5, <2>8 DEF Progress, Met
    <2>9. CASE call[p] = "try_restart_service"
      BY <1>2, <1>5, <1>6, <2>1, <2>3, <2>4, <2>9 DEF Progress, Met
    <2>10. CASE call[p] = "enable_and_start_service"
      BY <1>2, <1>5, <1>6, <2>1, <2>2, <2>4, <2>5, <2>10 DEF Progress, Met
    <2>11. CASE call[p] = "disable_and_stop_service"
      BY <1>2, <1>5, <1>6, <2>1, <2>2, <2>4, <2>5, <2>11 DEF Progress, Met
    <2>12. CASE call[p] = "reload_service_conf"
      BY <1>2, <1>5, <1>6, <2>1, <2>4, <2>12 DEF Progress, Met
    <2>13. call[p] # "is_service_active"
      BY <1>1, <1>5 DEF Progress
    <2>14. QED
      BY <1>5, <2>6, <2>7, <2>8, <2>9, <2>10, <2>11, <2>12, <2>13 DEF Progress
  <1>8. Witnessed(p)' /\ Returned(p)'
    <2>1. Facts(unit') \subseteq met'[p]
      BY <1>5
    <2>2. /\ pc' = pc /\ result' = result /\ alone' = alone /\ result'[p] = "none"
      BY <1>1, <1>5
    <2>3. QED
      BY <1>5, <1>7, <2>1, <2>2 DEF Witnessed, Running, Returned
  <1>9. QED
    BY <1>3, <1>4, <1>8, Combine

\* A call that returns, with the answer it was given.
LEMMA ReturnStep ==
  ASSUME IInv, NEW p \in Procs, pc[p] = "command",
         NEW exit, Return(p, exit),
         faults' \in 0..MaxFaults, NEW fails \in BOOLEAN, hit' = [hit EXCEPT ![p] = fails],
         Returned(p)'
  PROVE  IInv'
  <1>1. /\ result' = [result EXCEPT ![p] = Answer(call[p], exit)]
        /\ pc' = [pc EXCEPT ![p] = "idle"] /\ todo' = [todo EXCEPT ![p] = <<>>]
        /\ unit' = unit /\ call' = call /\ met' = met /\ alone' = alone
    BY DEF Return
  <1>2. /\ Answer(call[p], exit) \in {"ok", "raises", "active", "inactive"}
        /\ (Answer(call[p], exit) \in {"active", "inactive"}) = (call[p] = "is_service_active")
    BY DEF Answer
  <1>3. TypeOK' /\ Functional'
    BY <1>1, <1>2 DEF IInv, TypeOK, Functional
  <1>4. ASSUME NEW q \in Procs \ {p}
        PROVE  Witnessed(q)' /\ Returned(q)'
    <2>1. /\ call'[q] = call[q] /\ pc'[q] = pc[q] /\ result'[q] = result[q]
          /\ hit'[q] = hit[q] /\ alone'[q] = alone[q] /\ todo'[q] = todo[q]
      BY <1>1 DEF IInv, TypeOK, Functional
    <2>2. met'[q] = IF pc[q] = "idle" THEN met[q] ELSE met[q] \cup Facts(unit')
      BY <1>1 DEF IInv, Witnessed, Running, TypeOK
    <2>3. QED
      BY <1>1, <2>1, <2>2, OthersStandBy DEF Running, IInv, TypeOK
  <1>5. Witnessed(p)'
    BY <1>1 DEF Witnessed, Running, IInv, TypeOK
  <1>6. QED
    BY <1>3, <1>4, <1>5, Combine

LEMMA EndStep ==
  ASSUME IInv, NEW p \in Procs, End(p)
  PROVE  IInv'
  <1>1. /\ pc[p] = "command" /\ faults' = faults /\ hit' = hit
        /\ \/ todo[p] = <<>> /\ Return(p, 0)
           \/ todo[p] = <<"query">> /\ Return(p, IF unit.active THEN 0 ELSE 2)
    BY DEF End
  <1>2. /\ faults' \in 0..MaxFaults /\ hit[p] \in BOOLEAN /\ hit' = [hit EXCEPT ![p] = hit[p]]
    BY <1>1 DEF IInv, TypeOK
  <1>3. /\ Progress(p) /\ Facts(unit) \subseteq met[p]
        /\ unit.active \in BOOLEAN
    BY <1>1 DEF IInv, Witnessed, Running, TypeOK, Units
  <1>4. CASE todo[p] = <<>> /\ Return(p, 0)
    <2>1. /\ result'[p] = Answer(call[p], 0) /\ call' = call /\ met' = met /\ alone' = alone
      BY <1>4 DEF Return, IInv, TypeOK
    <2>2. call[p] # "is_service_active"
      BY <1>3, <1>4 DEF Progress
    <2>3. result'[p] = "ok"
      BY <2>1, <2>2 DEF Answer, Raises, NoCode, AnyCode
    <2>4. \A x, y : todo[p] # <<x>> /\ todo[p] # <<x, y>>
      BY <1>4, Tuples
    <2>5. Returned(p)'
      BY <1>3, <2>1, <2>3, <2>4 DEF Progress, Returned, Met
    <2>6. QED
      BY <1>1, <1>2, <1>4, <2>5, ReturnStep
  <1>5. CASE todo[p] = <<"query">> /\ Return(p, IF unit.active THEN 0 ELSE 2)
    <2>1. call[p] = "is_service_active"
      BY <1>3, <1>5, Tuples, OneEffect, TwoEffects DEF Progress
    <2>2. result'[p] = IF unit.active THEN "active" ELSE "inactive"
      BY <1>5, <2>1 DEF Return, IInv, TypeOK, Answer, Raises, NoCode, AnyCode
    <2>3. <<"active", unit.active>> \in met'[p]
      BY <1>3, <1>5 DEF Return, Facts
    <2>4. Returned(p)'
      BY <1>3, <2>2, <2>3 DEF Returned, Met
    <2>5. QED
      BY <1>1, <1>2, <1>5, <2>4, ReturnStep
  <1>6. QED
    BY <1>1, <1>4, <1>5

LEMMA FailStep ==
  ASSUME IInv, NEW p \in Procs, Fail(p)
  PROVE  IInv'
  <1>1. PICK exit \in FaultCodes : Return(p, exit)
    BY DEF Fail
  <1>2. /\ pc[p] = "command" /\ faults' \in 0..MaxFaults /\ hit' = [hit EXCEPT ![p] = TRUE]
    BY ServiceAssumption DEF Fail, IInv, TypeOK
  <1>3. Raises(exit, 0)
    BY ServiceAssumption DEF Raises, ExitCodes, AnyCode, NoCode
  <1>4. result'[p] \in {"raises", "inactive"}
    BY <1>1, <1>3 DEF Return, IInv, TypeOK, Answer
  <1>5. hit'[p] = TRUE
    BY <1>2 DEF IInv, TypeOK
  <1>6. Returned(p)'
    BY <1>4, <1>5 DEF Returned
  <1>7. QED
    BY <1>1, <1>2, <1>6, ReturnStep

\* The unit changes by itself, or somebody edits its file.
LEMMA WorldStep ==
  ASSUME IInv, Die \/ Edit
  PROVE  IInv'
  <1>1. /\ unit' \in Units
        /\ unit'.enabled = unit.enabled /\ (unit'.active => unit.active)
        /\ Become(unit')
        /\ UNCHANGED <<call, todo, pc, result, faults, hit, alone>>
    <2>1. CASE Die
      BY <2>1 DEF Die, Become, IInv, TypeOK, Units
    <2>2. CASE Edit
      BY <2>2, ServiceAssumption DEF Edit, Become, IInv, TypeOK, Units
    <2>3. QED
      BY <2>1, <2>2
  <1>2. met' = [q \in Procs |-> IF pc[q] = "idle" THEN met[q] ELSE met[q] \cup Facts(unit')]
    BY <1>1 DEF Become
  <1>3. TypeOK' /\ Functional'
    BY <1>1, <1>2 DEF IInv, TypeOK, Functional
  <1>4. ASSUME NEW q \in Procs
        PROVE  Witnessed(q)' /\ Returned(q)'
    <2>1. Running(q) /\ alone[q] => \A r \in Procs \ {q} : ~Running(r)'
      BY <1>1 DEF IInv, Witnessed, Running
    <2>2. alone[q] \in BOOLEAN /\ alone'[q] = alone[q]
      BY <1>1 DEF IInv, TypeOK
    <2>3. QED
      BY <1>1, <1>2, <2>1, <2>2, BystanderStep
  <1>5. QED
    BY <1>3, <1>4, Combine

LEMMA StutterStep ==
  ASSUME IInv, UNCHANGED vars
  PROVE  IInv'
  BY DEF IInv, vars, TypeOK, Functional, Witnessed, Running, Progress, Met,
         AnswersHaveCause, OkWasDone, OkIsWhole

-----------------------------------------------------------------------------

\* The invariant holds initially and is kept by every step.
THEOREM Inductive == Spec => []IInv
  <1>1. Init => IInv
    BY ServiceAssumption
    DEF Init, IInv, TypeOK, Functional, Units, Witnessed, Running,
        AnswersHaveCause, OkWasDone, OkIsWhole
  <1>2. IInv /\ [Next]_vars => IInv'
    <2>1. ASSUME IInv, NEW p \in Procs, Begin(p) \/ Apply(p) \/ End(p) \/ Fail(p)
          PROVE  IInv'
      BY <2>1, BeginStep, ApplyStep, EndStep, FailStep
    <2>2. QED
      BY <2>1, WorldStep, StutterStep DEF Next
  <1>3. QED
    BY <1>1, <1>2, PTL DEF Spec

\* The variables keep their sorts, is_service_active never raises (utils/service.py,
\* lines 54-62) and only it answers.
THEOREM TypeCorrect == Spec => []TypeOK
  <1>1. IInv => TypeOK
    BY DEF IInv
  <1>2. QED
    BY <1>1, Inductive, PTL

\* Every answer and every ServiceError has its cause.
THEOREM CauseOfAnswers == Spec => []AnswersHaveCause
  <1>1. IInv => AnswersHaveCause
    BY DEF IInv
  <1>2. QED
    BY <1>1, Inductive, PTL

\* A call that returned did what it was asked.
THEOREM DoneWhenOk == Spec => []OkWasDone
  <1>1. IInv => OkWasDone
    BY DEF IInv
  <1>2. QED
    BY <1>1, Inductive, PTL

\* Without company, it did both parts at once.
THEOREM WholeWhenAlone == Spec => []OkIsWhole
  <1>1. IInv => OkIsWhole
    BY DEF IInv
  <1>2. QED
    BY <1>1, Inductive, PTL

=============================================================================
