----------------------------- MODULE RpcProofs -----------------------------
(***************************************************************************)
(* Proofs about RpcProcessor: for any number of threads, texts of any      *)
(* length, and functions that behave as they like and are registered at    *)
(* any time, what is answered, to which request, and how truly.            *)
(***************************************************************************)
EXTENDS RpcProcessor, TLAPS

Sorted(t) ==
  /\ pc[t] \in {"idle", "call", "convert", "reply"}
  /\ batch[t] \in BOOLEAN
  /\ requests[t] \in Seq(RequestItems)
  /\ next[t] \in 1..Len(requests[t]) + 1
  /\ result[t] \in Functions \cup {None}
  /\ answers[t] \in Seq(Responses)
  /\ ran[t] \in Seq(Nat)
  /\ reply[t] \notin {None, Raised} => reply[t] # <<>>

\* Matched, of one thread.
MatchedFor(t) ==
  /\ \A k \in 1..Len(answers[t]) :
       /\ answers[t][k].of \in 1..next[t] - 1
       /\ answers[t][k].id = requests[t][answers[t][k].of].id
       /\ answers[t][k].id = None => answers[t][k].code # "result"
       /\ k > 1 => answers[t][k - 1].of < answers[t][k].of
  /\ \A i \in 1..next[t] - 1 : requests[t][i].id # None => i \in Answered(t)

\* The signature refuses the parameters with which a function runs, and raises.
Misjudged(q) == \E f \in Refusing(q) : Behaviour[f] = "type_error"

\* What an answer tells of a request: whether its function is run.
Tells(code, q, isRun) ==
  /\ code = "result" => isRun
  /\ code = "server" => isRun \/ Promising(q) # {}
  /\ code = "not_found" => ~isRun
  /\ code = "invalid_params" => ~isRun \/ Misjudged(q)

\* Honest, of one thread, in three parts.
Told(t) ==
  \A k \in 1..Len(answers[t]) :
    Tells(answers[t][k].code, requests[t][answers[t][k].of], answers[t][k].of \in Places(ran[t]))

Covered(t) == \A i \in 1..next[t] - 1 : i \in Places(ran[t]) \cup Answered(t)

InOrder(t) ==
  \A k \in 1..Len(ran[t]) : ran[t][k] <= next[t] /\ (k > 1 => ran[t][k - 1] < ran[t][k])

\* The request at hand is not run yet, or is run and waits for its conversion.
AtHand(t) ==
  /\ pc[t] = "call" => \A k \in 1..Len(ran[t]) : ran[t][k] < next[t]
  /\ pc[t] = "convert" => /\ next[t] <= Len(requests[t])
                          /\ requests[t][next[t]].id # None
                          /\ result[t] \in Functions
                          /\ next[t] \in Places(ran[t])

\* The values that have been cached are those of the past.
Past(t) ==
  /\ \A k \in 1..Len(answers[t]) :
       /\ answers[t][k].value <= shared
       /\ answers[t][k].code = "result" => answers[t][k].value # NotCached
       /\ pc[t] = "convert" /\ Behaviour[result[t]] = "shared" => answers[t][k].value < shared
  /\ \A j, k \in 1..Len(answers[t]) :
       j < k /\ answers[t][j].value > 0 /\ answers[t][k].value > 0 =>
         answers[t][j].value < answers[t][k].value
  /\ pc[t] = "reply" => \/ reply[t] \in {None, answers[t]}
                        \/ \E code : reply[t] = <<Response(0, None, code, NotCached)>>

Increasing(s) == \A j, k \in 1..Len(s) : j < k /\ s[j] > 0 /\ s[k] > 0 => s[j] < s[k]

Good(t) ==
  /\ Sorted(t) /\ MatchedFor(t) /\ Told(t) /\ Covered(t) /\ InOrder(t) /\ AtHand(t)
  /\ Past(t) /\ Increasing(sent[t])

Functional ==
  /\ table \in [Names -> Functions \cup {None}]
  /\ \A n \in Names : table[n] # None => NameOf[table[n]] = n
  /\ shared \in Nat
  /\ pc = [t \in Threads |-> pc[t]] /\ batch = [t \in Threads |-> batch[t]]
  /\ requests = [t \in Threads |-> requests[t]] /\ next = [t \in Threads |-> next[t]]
  /\ result = [t \in Threads |-> result[t]] /\ answers = [t \in Threads |-> answers[t]]
  /\ reply = [t \in Threads |-> reply[t]] /\ sent = [t \in Threads |-> sent[t]]
  /\ ran = [t \in Threads |-> ran[t]]

\* The inductive invariant.
IInv == Functional /\ \A t \in Threads : Good(t)

-----------------------------------------------------------------------------

LEMMA Appended ==
  ASSUME NEW S, NEW s \in Seq(S), NEW e \in S
  PROVE  /\ Append(s, e) \in Seq(S) /\ Len(s) \in Nat
         /\ Len(Append(s, e)) = Len(s) + 1
         /\ \A k \in 1..Len(s) : Append(s, e)[k] = s[k]
         /\ Append(s, e)[Len(s) + 1] = e
  OBVIOUS

LEMMA PlacesAppended ==
  ASSUME NEW s \in Seq(Nat), NEW e \in Nat
  PROVE  Places(Append(s, e)) = Places(s) \cup {e}
  <1>1. \A x : x \in Places(Append(s, e)) <=> \E k \in 1..Len(s) + 1 : x = Append(s, e)[k]
    BY Appended DEF Places
  <1>2. \A x : x \in Places(s) <=> \E k \in 1..Len(s) : x = s[k]
    BY DEF Places
  <1>3. \A x : x \in Places(Append(s, e)) <=> x \in Places(s) \/ x = e
    BY <1>1, <1>2, Appended
  <1>4. QED
    BY <1>3

LEMMA AnsweredMember ==
  ASSUME NEW t, NEW i
  PROVE  i \in Answered(t) <=> \E k \in 1..Len(answers[t]) : answers[t][k].of = i
  BY DEF Answered

\* A response has its sorts.
LEMMA ResponseSorts ==
  ASSUME NEW of \in Nat, NEW id \in Nat \cup {None}, NEW code \in Codes,
         NEW value \in Nat \cup {NotCached}
  PROVE  /\ Response(of, id, code, value) \in Responses
         /\ Response(of, id, code, value).of = of
         /\ Response(of, id, code, value).id = id
         /\ Response(of, id, code, value).code = code
         /\ Response(of, id, code, value).value = value
  BY DEF Response, Responses

LEMMA AnswersSorts ==
  ASSUME NEW t, Sorted(t), NEW k \in 1..Len(answers[t])
  PROVE  answers[t][k] \in Responses /\ answers[t][k].of \in Nat /\ answers[t][k].value \in Int
  <1>1. answers[t][k] \in Responses
    BY DEF Sorted
  <1>2. QED
    BY <1>1 DEF Responses, NotCached

LEMMA InvariantImplies == IInv => TypeOK /\ Matched /\ Honest /\ Snapshots
  <1> SUFFICES ASSUME IInv PROVE TypeOK /\ Matched /\ Honest /\ Snapshots
    OBVIOUS
  <1>1. TypeOK
    <2>1. pc \in [Threads -> {"idle", "call", "convert", "reply"}]
      BY DEF IInv, Functional, Good, Sorted
    <2>2. QED
      BY <2>1 DEF IInv, Functional, Good, Sorted, TypeOK
  <1>2. Matched
    BY DEF IInv, Good, MatchedFor, Matched
  <1>3. Honest
    BY DEF IInv, Good, Told, Tells, Misjudged, Covered, InOrder, Honest
  <1>4. Snapshots
    BY DEF IInv, Good, Increasing, Snapshots
  <1>5. QED
    BY <1>1, <1>2, <1>3, <1>4

-----------------------------------------------------------------------------

\* A thread that does nothing, while the shared object may be changed.
Still(u) ==
  /\ pc'[u] = pc[u] /\ batch'[u] = batch[u] /\ requests'[u] = requests[u]
  /\ next'[u] = next[u] /\ result'[u] = result[u] /\ answers'[u] = answers[u]
  /\ reply'[u] = reply[u] /\ sent'[u] = sent[u] /\ ran'[u] = ran[u]

LEMMA StillStep ==
  ASSUME NEW u, Good(u), Still(u), shared \in Nat, shared' \in Nat, shared <= shared'
  PROVE  Good(u)'
  <1>1. Sorted(u)' /\ MatchedFor(u)' /\ Told(u)' /\ Covered(u)' /\ InOrder(u)' /\ AtHand(u)'
    <2>1. Sorted(u)'
      BY DEF Good, Still, Sorted
    <2>2. MatchedFor(u)'
      BY DEF Good, Still, MatchedFor, Answered
    <2>3. Told(u)'
      BY DEF Good, Still, Told
    <2>4. Covered(u)'
      BY DEF Good, Still, Covered, Answered
    <2>5. InOrder(u)'
      BY DEF Good, Still, InOrder
    <2>6. AtHand(u)'
      BY DEF Good, Still, AtHand
    <2>7. QED
      BY <2>1, <2>2, <2>3, <2>4, <2>5, <2>6
  <1>2. ASSUME NEW k \in 1..Len(answers[u]) PROVE answers[u][k].value \in Int
    BY AnswersSorts DEF Good
  <1>3. Past(u)'
    <2>1. ASSUME NEW k \in 1..Len(answers[u])
          PROVE  /\ answers[u][k].value <= shared'
                 /\ answers[u][k].code = "result" => answers[u][k].value # NotCached
                 /\ pc[u] = "convert" /\ Behaviour[result[u]] = "shared" =>
                      answers[u][k].value < shared'
      <3>1. /\ answers[u][k].value <= shared
            /\ answers[u][k].code = "result" => answers[u][k].value # NotCached
            /\ pc[u] = "convert" /\ Behaviour[result[u]] = "shared" =>
                 answers[u][k].value < shared
        BY DEF Good, Past
      <3>2. QED
        BY <1>2, <3>1
    <2>2. \A j, k \in 1..Len(answers[u]) :
            j < k /\ answers[u][j].value > 0 /\ answers[u][k].value > 0 =>
              answers[u][j].value < answers[u][k].value
      BY DEF Good, Past
    <2>3. pc[u] = "reply" => \/ reply[u] \in {None, answers[u]}
                             \/ \E code : reply[u] = <<Response(0, None, code, NotCached)>>
      BY DEF Good, Past
    <2>4. QED
      BY <2>1, <2>2, <2>3 DEF Still, Past
  <1>4. Increasing(sent[u])'
    BY DEF Good, Still, Increasing
  <1>5. QED
    BY <1>1, <1>3, <1>4 DEF Good

\* The functions stay functions, and the other threads still.
OnlyBy(t) ==
  /\ table' = table
  /\ \E v : pc' = [pc EXCEPT ![t] = v]
  /\ \E v : batch' = [batch EXCEPT ![t] = v]
  /\ \E v : requests' = [requests EXCEPT ![t] = v]
  /\ \E v : next' = [next EXCEPT ![t] = v]
  /\ \E v : result' = [result EXCEPT ![t] = v]
  /\ \E v : answers' = [answers EXCEPT ![t] = v]
  /\ \E v : reply' = [reply EXCEPT ![t] = v]
  /\ \E v : sent' = [sent EXCEPT ![t] = v]
  /\ \E v : ran' = [ran EXCEPT ![t] = v]

LEMMA OnlyByStep ==
  ASSUME IInv, NEW t \in Threads, OnlyBy(t), shared' \in Nat, shared <= shared', Good(t)'
  PROVE  IInv'
  <1>1. Functional'
    BY DEF IInv, Functional, OnlyBy
  <1>2. ASSUME NEW u \in Threads \ {t} PROVE Good(u)'
    <2>1. Still(u)
      BY DEF IInv, Functional, OnlyBy, Still
    <2>2. QED
      BY <2>1, StillStep DEF IInv, Functional
  <1>3. QED
    BY <1>1, <1>2 DEF IInv

\* The places of the requests that are run keep their order.
LEMMA RanInOrder ==
  ASSUME NEW t, Sorted(t), InOrder(t), AtHand(t),
         \/ ran'[t] = ran[t]
         \/ pc[t] = "call" /\ ran'[t] = Append(ran[t], next[t]),
         NEW k \in 1..Len(ran'[t])
  PROVE  ran'[t][k] <= next[t] /\ (k > 1 => ran'[t][k - 1] < ran'[t][k])
  <1>1. CASE ran'[t] = ran[t]
    BY <1>1 DEF InOrder
  <1>2. CASE pc[t] = "call" /\ ran'[t] = Append(ran[t], next[t])
    <2>1. next[t] \in Nat /\ ran[t] \in Seq(Nat) /\ Len(requests[t]) \in Nat
      BY DEF Sorted
    <2>2. /\ Len(ran[t]) \in Nat /\ Len(ran'[t]) = Len(ran[t]) + 1
          /\ \A i \in 1..Len(ran[t]) : ran'[t][i] = ran[t][i]
          /\ ran'[t][Len(ran[t]) + 1] = next[t]
      BY <1>2, <2>1, Appended
    <2>3. CASE k \in 1..Len(ran[t])
      <3>1. k > 1 => k - 1 \in 1..Len(ran[t])
        BY <2>2, <2>3
      <3>2. QED
        BY <2>2, <2>3, <3>1 DEF InOrder
    <2>4. CASE k = Len(ran[t]) + 1
      <3>1. k > 1 => k - 1 \in 1..Len(ran[t])
        BY <2>2, <2>4
      <3>2. k > 1 => ran[t][k - 1] < next[t]
        BY <1>2, <3>1 DEF AtHand
      <3>3. QED
        BY <2>1, <2>2, <2>4, <3>1, <3>2, SMTT(20)
    <2>5. QED
      BY <2>2, <2>3, <2>4
  <1>3. QED
    BY <1>1, <1>2

\* The request at hand is answered, after its function was run or not.
LEMMA AnswerStep ==
  ASSUME IInv, NEW t \in Threads, NEW code \in Codes, NEW value \in Nat \cup {NotCached},
         next[t] <= Len(requests[t]), Answer(t, code, value),
         batch' = batch, requests' = requests, reply' = reply, sent' = sent,
         pc'[t] = "call", result'[t] \in Functions \cup {None},
         shared' \in Nat, shared <= shared',
         \/ ran'[t] = ran[t]
         \/ pc[t] = "call" /\ ran'[t] = Append(ran[t], next[t]),
         code = "result" => requests[t][next[t]].id # None /\ value # NotCached,
         \/ /\ ran'[t] = ran[t] /\ pc[t] = "call"
            /\ Tells(code, requests[t][next[t]], FALSE)
         \/ /\ next[t] \in Places(ran'[t])
            /\ Tells(code, requests[t][next[t]], TRUE),
         value <= shared,
         value > 0 => \A k \in 1..Len(answers[t]) : answers[t][k].value < value
  PROVE  Good(t)'
  <1> DEFINE id == requests[t][next[t]].id
             r == Response(next[t], id, code, value)
             n == Len(answers[t])
  <1>1. /\ Good(t) /\ Sorted(t) /\ MatchedFor(t) /\ Told(t) /\ Covered(t) /\ InOrder(t)
        /\ AtHand(t) /\ Past(t) /\ Increasing(sent[t]) /\ shared \in Nat
    BY DEF IInv, Good, Functional
  <1>2. /\ next[t] \in 1..Len(requests[t]) /\ next[t] \in Nat /\ Len(requests[t]) \in Nat
        /\ requests[t][next[t]] \in RequestItems
    BY <1>1 DEF Sorted
  <1>3. id \in Nat \cup {None}
    BY <1>2 DEF RequestItems
  <1>4. r \in Responses /\ r.of = next[t] /\ r.id = id /\ r.code = code /\ r.value = value
    BY <1>2, <1>3 DEF Response, Responses
  <1>5. answers'[t] = Append(answers[t], r) /\ next'[t] = next[t] + 1
    BY DEF Answer, Advance, Request, IInv, Functional
  <1> HIDE DEF r
  <1>6. /\ answers'[t] \in Seq(Responses) /\ n \in Nat /\ Len(answers'[t]) = n + 1
        /\ \A k \in 1..n : answers'[t][k] = answers[t][k]
        /\ answers'[t][n + 1] = r
    BY <1>1, <1>4, <1>5, Appended DEF Sorted
  <1>7. \A i : (i \in Answered(t)') <=> i \in Answered(t) \/ i = next[t]
    <2>1. \A i : (i \in Answered(t)') <=> \E k \in 1..n + 1 : answers'[t][k].of = i
      BY <1>6 DEF Answered
    <2>2. \A i : i \in Answered(t) <=> \E k \in 1..n : answers[t][k].of = i
      BY DEF Answered
    <2>3. \A k \in 1..n + 1 : k \in 1..n \/ k = n + 1
      BY <1>6
    <2>4. 1..n \subseteq 1..n + 1 /\ n + 1 \in 1..n + 1
      BY <1>6
    <2>5. answers'[t][n + 1].of = next[t]
      BY <1>4, <1>6
    <2>6. \A k \in 1..n : answers'[t][k].of = answers[t][k].of
      BY <1>6
    <2>7. QED
      BY <2>1, <2>2, <2>3, <2>4, <2>5, <2>6
  <1>8. /\ ran'[t] \in Seq(Nat)
        /\ Places(ran'[t]) \subseteq Places(ran[t]) \cup {next[t]}
        /\ Places(ran[t]) \subseteq Places(ran'[t])
    <2>1. ran[t] \in Seq(Nat)
      BY <1>1 DEF Sorted
    <2>2. Append(ran[t], next[t]) \in Seq(Nat)
          /\ Places(Append(ran[t], next[t])) = Places(ran[t]) \cup {next[t]}
      BY <1>2, <2>1, Appended, PlacesAppended
    <2>3. QED
      BY <2>1, <2>2
  <1>9. \A k \in 1..n : answers[t][k] \in Responses /\ answers[t][k].of \in Nat
                        /\ answers[t][k].value \in Int
    BY <1>1, AnswersSorts
  <1>10. Sorted(t)'
    <2>1. next'[t] \in 1..Len(requests'[t]) + 1
      BY <1>2, <1>5
    <2>2. QED
      BY <1>1, <1>6, <1>8, <2>1 DEF Sorted
  <1>11. MatchedFor(t)'
    <2>1. ASSUME NEW k \in 1..n + 1
          PROVE  /\ answers'[t][k].of \in 1..next'[t] - 1
                 /\ answers'[t][k].id = requests'[t][answers'[t][k].of].id
                 /\ answers'[t][k].id = None => answers'[t][k].code # "result"
                 /\ k > 1 => answers'[t][k - 1].of < answers'[t][k].of
      <3>1. CASE k \in 1..n
        <4>1. k > 1 => k - 1 \in 1..n
          BY <1>6, <3>1
        <4>2. answers'[t][k] = answers[t][k] /\ (k > 1 => answers'[t][k - 1] = answers[t][k - 1])
          BY <1>6, <3>1, <4>1
        <4>3. /\ answers[t][k].of \in 1..next[t] - 1
              /\ answers[t][k].id = requests[t][answers[t][k].of].id
              /\ answers[t][k].id = None => answers[t][k].code # "result"
              /\ k > 1 => answers[t][k - 1].of < answers[t][k].of
          BY <1>1, <3>1 DEF MatchedFor
        <4>4. answers[t][k].of \in 1..next'[t] - 1
          BY <1>2, <1>5, <4>3
        <4>5. QED
          BY <4>2, <4>3, <4>4
      <3>2. CASE k = n + 1
        <4>1. k > 1 => k - 1 = n /\ n \in 1..n
          BY <1>6, <3>2
        <4>2. answers'[t][k] = r /\ (k > 1 => answers'[t][k - 1] = answers[t][n])
          BY <1>6, <3>2, <4>1
        <4>3. k > 1 => answers[t][n].of < next[t]
          <5>1. ASSUME NEW j \in 1..n PROVE answers[t][j].of \in 1..next[t] - 1
            BY <1>1, <5>1 DEF MatchedFor
          <5>2. ASSUME NEW i \in 1..next[t] - 1 PROVE i < next[t]
            BY <1>2
          <5>3. QED
            BY <4>1, <5>1, <5>2
        <4>4. next[t] \in 1..next'[t] - 1
          BY <1>2, <1>5
        <4>5. QED
          BY <1>4, <4>2, <4>3, <4>4
      <3>3. QED
        BY <1>6, <3>1, <3>2
    <2>2. ASSUME NEW i \in 1..next'[t] - 1, requests'[t][i].id # None
          PROVE  i \in Answered(t)'
      <3>1. i = next[t] \/ i \in 1..next[t] - 1
        BY <1>2, <1>5
      <3>2. QED
        BY <1>1, <1>7, <2>2, <3>1 DEF MatchedFor
    <2>3. QED
      BY <1>6, <2>1, <2>2 DEF MatchedFor
  <1>12. Told(t)'
    <2>1. ASSUME NEW k \in 1..n + 1
          PROVE  Tells(answers'[t][k].code, requests[t][answers'[t][k].of],
                       answers'[t][k].of \in Places(ran'[t]))
      <3>1. CASE k \in 1..n
        <4>1. answers[t][k].of # next[t]
          BY <1>1, <1>2, <3>1 DEF MatchedFor
        <4>2. answers[t][k].of \in Places(ran'[t]) <=> answers[t][k].of \in Places(ran[t])
          BY <1>8, <4>1
        <4>3. Tells(answers[t][k].code, requests[t][answers[t][k].of],
                    answers[t][k].of \in Places(ran[t]))
          BY <1>1, <3>1 DEF Told
        <4>4. QED
          BY <1>6, <3>1, <4>2, <4>3 DEF Tells
      <3>2. CASE k = n + 1
        <4>1. pc[t] = "call" => next[t] \notin Places(ran[t])
          <5>1. pc[t] = "call" => \A i \in 1..Len(ran[t]) : ran[t][i] < next[t]
            BY <1>1 DEF AtHand
          <5>2. ~(next[t] < next[t])
            BY <1>2
          <5>3. QED
            BY <5>1, <5>2 DEF Places
        <4>2. Tells(code, requests[t][next[t]], next[t] \in Places(ran'[t]))
          BY <4>1 DEF Tells
        <4>3. QED
          BY <1>4, <1>6, <3>2, <4>2
      <3>3. QED
        BY <1>6, <3>1, <3>2
    <2>2. \A k \in 1..Len(answers'[t]) :
            Tells(answers'[t][k].code, requests'[t][answers'[t][k].of],
                  answers'[t][k].of \in Places(ran'[t]))
      <3>1. \A k \in 1..n + 1 :
              Tells(answers'[t][k].code, requests[t][answers'[t][k].of],
                    answers'[t][k].of \in Places(ran'[t]))
        BY <2>1
      <3>2. Len(answers'[t]) = n + 1 /\ requests' = requests
        BY <1>6
      <3> HIDE DEF n
      <3>3. QED
        BY <3>1, <3>2
    <2>3. QED
      BY <2>2 DEF Told
  <1>13. Covered(t)'
    <2>1. ASSUME NEW i \in 1..next'[t] - 1
          PROVE  i \in Places(ran'[t]) \/ i \in Answered(t)'
      <3>1. i = next[t] \/ i \in 1..next[t] - 1
        BY <1>2, <1>5
      <3>2. QED
        BY <1>1, <1>7, <1>8, <3>1 DEF Covered
    <2>2. QED
      BY <2>1 DEF Covered
  <1>14. InOrder(t)' /\ AtHand(t)'
    <2>1. ASSUME NEW k \in 1..Len(ran'[t])
          PROVE  ran'[t][k] <= next[t] /\ (k > 1 => ran'[t][k - 1] < ran'[t][k])
      BY <1>1, <1>2, RanInOrder
    <2>2. \A k \in 1..Len(ran'[t]) : ran'[t][k] \in Nat
      BY <1>8
    <2>3. ASSUME NEW k \in 1..Len(ran'[t]) PROVE ran'[t][k] <= next'[t] /\ ran'[t][k] < next'[t]
      BY <1>2, <1>5, <2>1, <2>2
    <2>4. pc'[t] = "call"
      OBVIOUS
    <2>5. QED
      BY <2>1, <2>3, <2>4 DEF InOrder, AtHand
  <1>15. Past(t)'
    <2>1. ASSUME NEW k \in 1..n + 1
          PROVE  /\ answers'[t][k].value <= shared'
                 /\ answers'[t][k].code = "result" => answers'[t][k].value # NotCached
      <3>1. CASE k \in 1..n
        <4>1. answers'[t][k] = answers[t][k] /\ answers[t][k].value \in Int
          BY <1>6, <1>9, <3>1
        <4>2. /\ answers[t][k].value <= shared
              /\ answers[t][k].code = "result" => answers[t][k].value # NotCached
          BY <1>1, <3>1 DEF Past
        <4>3. QED
          BY <1>1, <4>1, <4>2
      <3>2. CASE k = n + 1
        BY <1>1, <1>4, <1>6, <3>2 DEF NotCached
      <3>3. QED
        BY <1>6, <3>1, <3>2
    <2>2. ASSUME NEW j \in 1..n + 1, NEW k \in 1..n + 1, j < k,
                 answers'[t][j].value > 0, answers'[t][k].value > 0
          PROVE  answers'[t][j].value < answers'[t][k].value
      <3>1. j \in 1..n
        BY <1>6, <2>2
      <3>2. CASE k \in 1..n
        BY <1>1, <1>6, <2>2, <3>1, <3>2 DEF Past
      <3>3. CASE k = n + 1
        BY <1>4, <1>6, <2>2, <3>1, <3>3
      <3>4. QED
        BY <1>6, <3>2, <3>3
    <2>3. QED
      BY <1>6, <2>1, <2>2 DEF Past
  <1>16. Increasing(sent[t])'
    BY <1>1
  <1>17. QED
    BY <1>10, <1>11, <1>12, <1>13, <1>14, <1>15, <1>16 DEF Good

-----------------------------------------------------------------------------

LEMMA ProcessStep ==
  ASSUME IInv, NEW t \in Threads, Process(t)
  PROVE  IInv'
  <1>1. PICK x \in Texts[t] : Refuse(t, x) \/ Accept(t, x)
    BY DEF Process
  <1>2. /\ next' = [next EXCEPT ![t] = 1] /\ answers' = [answers EXCEPT ![t] = <<>>]
        /\ sent' = [sent EXCEPT ![t] = <<>>] /\ ran' = [ran EXCEPT ![t] = <<>>]
        /\ table' = table /\ shared' = shared /\ result' = result
    BY DEF Process
  <1>3. OnlyBy(t)
    <2>1. /\ result' = [result EXCEPT ![t] = result[t]]
          /\ batch' = batch => batch' = [batch EXCEPT ![t] = batch[t]]
      BY <1>2 DEF IInv, Functional
    <2>2. CASE Refuse(t, x)
      BY <1>2, <2>1, <2>2 DEF OnlyBy, Refuse, Go
    <2>3. CASE Accept(t, x)
      BY <1>2, <2>1, <2>3 DEF OnlyBy, Accept, Go
    <2>4. QED
      BY <1>1, <2>2, <2>3
  <1>4. /\ next'[t] = 1 /\ answers'[t] = <<>> /\ sent'[t] = <<>> /\ ran'[t] = <<>>
        /\ result'[t] = result[t] /\ result[t] \in Functions \cup {None}
    BY <1>2 DEF IInv, Functional, Good, Sorted
  <1>5. /\ batch'[t] \in BOOLEAN /\ requests'[t] \in Seq(RequestItems)
        /\ pc'[t] \in {"call", "reply"} /\ (reply'[t] = None \/ reply'[t] # <<>>)
        /\ pc'[t] = "reply" => \E code : reply'[t] = <<Response(0, None, code, NotCached)>>
    <2>1. CASE Refuse(t, x)
      <3>1. PICK code : reply' = [reply EXCEPT ![t] = <<Response(0, None, code, NotCached)>>]
        BY <2>1 DEF Refuse
      <3>2. <<Response(0, None, code, NotCached)>> # <<>>
        OBVIOUS
      <3>3. /\ reply'[t] = <<Response(0, None, code, NotCached)>> /\ requests'[t] = <<>>
            /\ pc'[t] = "reply" /\ batch'[t] = batch[t] /\ batch[t] \in BOOLEAN
        BY <2>1, <3>1 DEF Refuse, Go, IInv, Functional, Good, Sorted
      <3>4. QED
        BY <3>2, <3>3
    <2>2. CASE Accept(t, x)
      <3>1. /\ x # Garbage /\ x.batch \in BOOLEAN /\ x.items \in Seq(RequestItems \cup {Malformed})
            /\ \A i \in 1..Len(x.items) : x.items[i] # Malformed
        BY <2>2, TextsAssumption DEF Accept, WellFormed
      <3>2. x.items \in Seq(RequestItems)
        BY <3>1
      <3>3. /\ reply'[t] = None /\ requests'[t] = x.items /\ pc'[t] = "call" /\ batch'[t] = x.batch
        BY <2>2 DEF Accept, Go, IInv, Functional
      <3>4. QED
        BY <3>1, <3>2, <3>3
    <2>3. QED
      BY <1>1, <2>1, <2>2
  <1>6. Len(answers'[t]) = 0 /\ Len(sent'[t]) = 0 /\ Len(ran'[t]) = 0
    BY <1>4
  <1>7. Sorted(t)'
    BY <1>4, <1>5 DEF Sorted
  <1>8. MatchedFor(t)' /\ Told(t)' /\ Covered(t)' /\ InOrder(t)' /\ AtHand(t)'
    BY <1>4, <1>5, <1>6 DEF MatchedFor, Told, Covered, InOrder, AtHand
  <1>9. Past(t)' /\ Increasing(sent[t])'
    BY <1>5, <1>6 DEF Past, Increasing
  <1>10. Good(t)'
    BY <1>7, <1>8, <1>9 DEF Good
  <1>11. QED
    <2>1. shared' \in Nat /\ shared <= shared'
      BY <1>2 DEF IInv, Functional
    <2>2. QED
      BY <2>1, <1>3, <1>10, OnlyByStep

\* The function of the request at hand.
LEMMA TargetSort ==
  ASSUME IInv, NEW t \in Threads, next[t] <= Len(requests[t])
  PROVE  /\ Target(t) \in Functions \cup {None}
         /\ Request(t).id \in Nat \cup {None}
         /\ Request(t) = requests[t][next[t]]
         /\ Target(t) # None => NameOf[Target(t)] = Request(t).method
  <1>1. requests[t] \in Seq(RequestItems) /\ next[t] \in 1..Len(requests[t])
    BY DEF IInv, Good, Sorted
  <1>2. requests[t][next[t]] \in RequestItems
    BY <1>1
  <1>3. QED
    BY <1>2 DEF RequestItems, Target, Request, IInv, Functional

LEMMA CallFailsStep ==
  ASSUME IInv, NEW t \in Threads, CallFails(t)
  PROVE  IInv'
  <1>1. /\ pc[t] = "call" /\ next[t] <= Len(requests[t])
        /\ UNCHANGED <<table, shared, pc, batch, requests, result, reply, sent, ran>>
    BY DEF CallFails, AtCall
  <1>2. PICK code \in {"internal", "not_found", "invalid_params", "server"} :
          Answer(t, code, NotCached) /\ Tells(code, Request(t), FALSE)
    <2>1. ASSUME ~Clashes(t), Target(t) # None, ~IsRun(t)
          PROVE  /\ TypeErrorCode(t) \in {"internal", "invalid_params", "server"}
                 /\ Tells(TypeErrorCode(t), Request(t), FALSE)
      <3>1. /\ <<Target(t), Request(t).params>> \notin Fits /\ Target(t) \in Functions
            /\ NameOf[Target(t)] = Request(t).method
        BY <1>1, <2>1, TargetSort DEF IsRun, AtCall
      <3>2. IsCallableWith(t) => Promising(Request(t)) # {}
        BY <3>1 DEF IsCallableWith, Promising
      <3>3. QED
        BY <3>2 DEF TypeErrorCode, Tells
    <2>2. Tells("internal", Request(t), FALSE) /\ Tells("not_found", Request(t), FALSE)
      BY DEF Tells
    <2>3. QED
      BY <2>1, <2>2 DEF CallFails
  <1>3. OnlyBy(t)
    <2>1. /\ pc' = [pc EXCEPT ![t] = pc[t]] /\ batch' = [batch EXCEPT ![t] = batch[t]]
          /\ requests' = [requests EXCEPT ![t] = requests[t]]
          /\ result' = [result EXCEPT ![t] = result[t]] /\ reply' = [reply EXCEPT ![t] = reply[t]]
          /\ sent' = [sent EXCEPT ![t] = sent[t]] /\ ran' = [ran EXCEPT ![t] = ran[t]]
      BY <1>1 DEF IInv, Functional
    <2>2. QED
      BY <1>1, <1>2, <2>1 DEF OnlyBy, Answer, Advance
  <1>4. shared \in Nat /\ result[t] \in Functions \cup {None}
    BY DEF IInv, Functional, Good, Sorted
  <1>5. Good(t)'
    <2>1. /\ code \in Codes /\ code # "result"
          /\ Tells(code, requests[t][next[t]], FALSE)
      BY <1>1, <1>2, TargetSort DEF Codes
    <2>2. /\ NotCached <= shared /\ shared <= shared' /\ shared' \in Nat
          /\ NotCached > 0 => \A k \in 1..Len(answers[t]) : answers[t][k].value < NotCached
      BY <1>1, <1>4 DEF NotCached
    <2>3. /\ NotCached \in Nat \cup {NotCached} /\ pc'[t] = "call" /\ ran'[t] = ran[t]
          /\ result'[t] \in Functions \cup {None}
      BY <1>1, <1>4
    <2>4. QED
      BY <1>1, <1>2, <2>1, <2>2, <2>3, AnswerStep
  <1>6. QED
    BY <1>1, <1>3, <1>4, <1>5, OnlyByStep

\* The function of the request at hand is run, and the request is not answered yet.
LEMMA RunStep ==
  ASSUME IInv, NEW t \in Threads, pc[t] = "call", next[t] <= Len(requests[t]),
         ran'[t] = Append(ran[t], next[t]), answers'[t] = answers[t], requests'[t] = requests[t],
         \/ next'[t] = next[t]
         \/ next'[t] = next[t] + 1 /\ requests[t][next[t]].id = None
  PROVE  /\ MatchedFor(t)' /\ Told(t)' /\ Covered(t)' /\ InOrder(t)'
         /\ ran'[t] \in Seq(Nat) /\ next'[t] \in 1..Len(requests'[t]) + 1
         /\ \A k \in 1..Len(ran'[t]) : ran'[t][k] <= next[t]
         /\ next[t] \in Places(ran'[t])
  <1>1. /\ Sorted(t) /\ MatchedFor(t) /\ Told(t) /\ Covered(t) /\ InOrder(t) /\ AtHand(t)
        /\ next[t] \in Nat /\ next[t] >= 1 /\ Len(requests[t]) \in Nat /\ ran[t] \in Seq(Nat)
    BY DEF IInv, Good, Sorted
  <1>2. ran'[t] \in Seq(Nat) /\ Places(ran'[t]) = Places(ran[t]) \cup {next[t]}
    BY <1>1, Appended, PlacesAppended
  <1>3. \A k \in 1..Len(ran'[t]) : ran'[t][k] <= next[t] /\ (k > 1 => ran'[t][k - 1] < ran'[t][k])
    BY <1>1, RanInOrder
  <1>4. next'[t] \in 1..Len(requests'[t]) + 1 /\ next[t] <= next'[t]
    BY <1>1
  <1>5. Answered(t)' = Answered(t)
    BY DEF Answered
  <1>6. MatchedFor(t)'
    <2>1. ASSUME NEW k \in 1..Len(answers[t])
          PROVE  /\ answers[t][k].of \in 1..next'[t] - 1
                 /\ answers[t][k].id = requests[t][answers[t][k].of].id
                 /\ answers[t][k].id = None => answers[t][k].code # "result"
                 /\ k > 1 => answers[t][k - 1].of < answers[t][k].of
      <3>1. /\ answers[t][k].of \in 1..next[t] - 1
            /\ answers[t][k].id = requests[t][answers[t][k].of].id
            /\ answers[t][k].id = None => answers[t][k].code # "result"
            /\ k > 1 => answers[t][k - 1].of < answers[t][k].of
        BY <1>1 DEF MatchedFor
      <3>2. answers[t][k].of \in 1..next'[t] - 1
        BY <1>1, <1>4, <3>1
      <3>3. QED
        BY <3>1, <3>2
    <2>2. ASSUME NEW i \in 1..next'[t] - 1, requests[t][i].id # None
          PROVE  i \in Answered(t)
      <3>1. i \in 1..next[t] - 1
        BY <1>1, <2>2
      <3>2. \A j \in 1..next[t] - 1 : requests[t][j].id # None => j \in Answered(t)
        BY <1>1, SMTT(20) DEF MatchedFor
      <3>3. QED
        BY <2>2, <3>1, <3>2
    <2>3. QED
      BY <1>5, <2>1, <2>2 DEF MatchedFor
  <1>7. Told(t)'
    <2>1. ASSUME NEW k \in 1..Len(answers[t])
          PROVE  answers[t][k].of # next[t]
      BY <1>1 DEF MatchedFor
    <2>2. ASSUME NEW k \in 1..Len(answers[t])
          PROVE  Tells(answers[t][k].code, requests[t][answers[t][k].of],
                       answers[t][k].of \in Places(ran'[t]))
      <3>1. answers[t][k].of \in Places(ran'[t]) <=> answers[t][k].of \in Places(ran[t])
        BY <1>2, <2>1
      <3>2. Tells(answers[t][k].code, requests[t][answers[t][k].of],
                  answers[t][k].of \in Places(ran[t]))
        BY <1>1 DEF Told
      <3>3. QED
        BY <3>1, <3>2 DEF Tells
    <2>3. QED
      BY <2>2 DEF Told, Tells, Misjudged, Refusing, Promising
  <1>8. Covered(t)'
    <2>1. ASSUME NEW i \in 1..next'[t] - 1
          PROVE  i \in Places(ran'[t]) \cup Answered(t)
      <3>1. i = next[t] \/ i \in 1..next[t] - 1
        BY <1>1
      <3>2. QED
        BY <1>1, <1>2, <3>1 DEF Covered
    <2>2. QED
      BY <1>5, <2>1 DEF Covered
  <1>9. InOrder(t)'
    <2>1. ASSUME NEW k \in 1..Len(ran'[t])
          PROVE  ran'[t][k] <= next'[t] /\ (k > 1 => ran'[t][k - 1] < ran'[t][k])
      <3>1. ran'[t][k] \in Nat /\ next'[t] \in Nat
        BY <1>1, <1>2
      <3>2. ran'[t][k] <= next[t] /\ (k > 1 => ran'[t][k - 1] < ran'[t][k])
        BY <1>3
      <3>3. QED
        BY <1>1, <1>4, <3>1, <3>2, SMTT(20)
    <2>2. QED
      BY <2>1 DEF InOrder
  <1>10. QED
    BY <1>2, <1>3, <1>4, <1>6, <1>7, <1>8, <1>9

LEMMA CallRunsStep ==
  ASSUME IInv, NEW t \in Threads, CallRuns(t)
  PROVE  IInv'
  <1> DEFINE does == Behaviour[Target(t)]
  <1>1. /\ pc[t] = "call" /\ next[t] <= Len(requests[t])
        /\ <<Target(t), Request(t).params>> \in Fits
        /\ ran' = [ran EXCEPT ![t] = Append(ran[t], next[t])]
        /\ shared' = IF does = "shared" THEN shared + 1 ELSE shared
        /\ UNCHANGED <<table, batch, requests, sent>>
    BY DEF CallRuns, IsRun, AtCall
  <1>2. \/ Return(t)
        \/ /\ does \in {"raises", "type_error"}
           /\ Answer(t, IF does = "raises" THEN "server" ELSE TypeErrorCode(t), NotCached)
           /\ UNCHANGED <<pc, result, reply>>
        \/ Exit(t)
    BY DEF CallRuns
  <1>3. /\ shared \in Nat /\ shared' \in Nat /\ shared <= shared' /\ NotCached <= shared
        /\ does = "shared" => shared < shared'
    BY <1>1 DEF IInv, Functional, NotCached
  <1>4. /\ ran'[t] = Append(ran[t], next[t]) /\ batch'[t] = batch[t]
        /\ requests'[t] = requests[t] /\ sent'[t] = sent[t]
    BY <1>1 DEF IInv, Functional
  <1>5. /\ Target(t) \in Functions /\ Request(t) = requests[t][next[t]]
        /\ NameOf[Target(t)] = Request(t).method
    BY <1>1, TargetSort DEF CallRuns, IsRun
  <1>6. Good(t) /\ Sorted(t) /\ Past(t) /\ Increasing(sent[t])
    BY DEF IInv, Good
  <1>7. \A k \in 1..Len(answers[t]) : answers[t][k].value \in Int
    BY <1>6, AnswersSorts
  <1>8. /\ pc = [pc EXCEPT ![t] = pc[t]] /\ batch = [batch EXCEPT ![t] = batch[t]]
        /\ requests = [requests EXCEPT ![t] = requests[t]] /\ next = [next EXCEPT ![t] = next[t]]
        /\ result = [result EXCEPT ![t] = result[t]] /\ answers = [answers EXCEPT ![t] = answers[t]]
        /\ reply = [reply EXCEPT ![t] = reply[t]] /\ sent = [sent EXCEPT ![t] = sent[t]]
    BY DEF IInv, Functional
  <1>9. CASE Return(t) /\ Request(t).id = None
    <2>1. /\ next' = [next EXCEPT ![t] = next[t] + 1]
          /\ pc' = pc /\ result' = result /\ answers' = answers /\ reply' = reply
      BY <1>9 DEF Return, Advance
    <2>2. next'[t] = next[t] + 1
      BY <2>1 DEF IInv, Functional
    <2>3. /\ MatchedFor(t)' /\ Told(t)' /\ Covered(t)' /\ InOrder(t)'
          /\ ran'[t] \in Seq(Nat) /\ next'[t] \in 1..Len(requests'[t]) + 1
          /\ \A k \in 1..Len(ran'[t]) : ran'[t][k] <= next[t]
      BY <1>1, <1>4, <1>5, <1>9, <2>1, <2>2, RunStep
    <2>4. Sorted(t)'
      BY <1>4, <1>6, <2>1, <2>3 DEF Sorted
    <2>5. AtHand(t)'
      <3>1. next[t] \in Nat /\ \A k \in 1..Len(ran'[t]) : ran'[t][k] \in Nat
        BY <1>6, <2>3, SMTT(20) DEF Sorted
      <3>2. ASSUME NEW k \in 1..Len(ran'[t]) PROVE ran'[t][k] < next'[t]
        BY <2>2, <2>3, <3>1
      <3>3. pc'[t] = "call"
        BY <1>1, <2>1
      <3>4. QED
        BY <3>2, <3>3 DEF AtHand
    <2>6. Past(t)'
      <3>1. pc'[t] = "call" /\ answers'[t] = answers[t]
        BY <1>1, <2>1
      <3>2. \A k \in 1..Len(answers[t]) : answers[t][k].value <= shared'
        BY <1>3, <1>6, <1>7 DEF Past
      <3>3. QED
        BY <1>6, <3>1, <3>2 DEF Past
    <2>7. Good(t)'
      BY <1>4, <1>6, <2>3, <2>4, <2>5, <2>6 DEF Good
    <2>8. OnlyBy(t)
      BY <1>1, <1>8, <2>1 DEF OnlyBy
    <2>9. QED
      BY <1>3, <2>7, <2>8, OnlyByStep
  <1>10. CASE Return(t) /\ Request(t).id # None
    <2>1. /\ result' = [result EXCEPT ![t] = Target(t)] /\ pc' = [pc EXCEPT ![t] = "convert"]
          /\ next' = next /\ answers' = answers /\ reply' = reply
      BY <1>10 DEF Return, Go
    <2>2. result'[t] = Target(t) /\ pc'[t] = "convert"
      BY <2>1 DEF IInv, Functional
    <2>3. /\ MatchedFor(t)' /\ Told(t)' /\ Covered(t)' /\ InOrder(t)'
          /\ ran'[t] \in Seq(Nat) /\ next'[t] \in 1..Len(requests'[t]) + 1
          /\ next[t] \in Places(ran'[t])
      BY <1>1, <1>4, <2>1, RunStep
    <2>4. Sorted(t)'
      BY <1>4, <1>5, <1>6, <2>1, <2>2, <2>3 DEF Sorted
    <2>5. AtHand(t)'
      BY <1>1, <1>4, <1>5, <1>10, <2>1, <2>2, <2>3 DEF AtHand
    <2>6. Past(t)'
      BY <1>1, <1>3, <1>6, <1>7, <2>1, <2>2 DEF Past
    <2>7. Good(t)'
      BY <1>4, <1>6, <2>3, <2>4, <2>5, <2>6 DEF Good
    <2>8. OnlyBy(t)
      BY <1>1, <1>8, <2>1 DEF OnlyBy
    <2>9. QED
      BY <1>3, <2>7, <2>8, OnlyByStep
  <1>11. CASE /\ does \in {"raises", "type_error"}
              /\ Answer(t, IF does = "raises" THEN "server" ELSE TypeErrorCode(t), NotCached)
              /\ UNCHANGED <<pc, result, reply>>
    <2>1. PICK code \in {"internal", "server", "invalid_params"} :
            Answer(t, code, NotCached) /\ Tells(code, Request(t), TRUE)
      <3>1. Tells("internal", Request(t), TRUE) /\ Tells("server", Request(t), TRUE)
        BY DEF Tells
      <3>2. CASE does = "raises"
        BY <1>11, <3>1, <3>2
      <3>3. CASE does = "type_error" /\ TypeErrorCode(t) # "invalid_params"
        <4>1. TypeErrorCode(t) \in {"internal", "server"}
          BY <3>3 DEF TypeErrorCode
        <4>2. QED
          BY <1>11, <3>1, <3>3, <4>1
      <3>4. CASE does = "type_error" /\ TypeErrorCode(t) = "invalid_params"
        <4>1. ~IsCallableWith(t)
          BY <3>4 DEF TypeErrorCode
        <4>2. Target(t) \in Refusing(Request(t))
          BY <1>1, <1>5, <4>1 DEF IsCallableWith, Refusing
        <4>3. Tells("invalid_params", Request(t), TRUE)
          BY <3>4, <4>2 DEF Tells, Misjudged
        <4>4. QED
          BY <1>11, <3>4, <4>3
      <3>5. QED
        BY <1>11, <3>2, <3>3, <3>4
    <2>2. /\ code \in Codes /\ code # "result"
          /\ Tells(code, requests[t][next[t]], TRUE)
      BY <1>5, <2>1 DEF Codes
    <2>3. next[t] \in Places(ran'[t])
      <3>1. ran[t] \in Seq(Nat) /\ next[t] \in Nat
        BY <1>6 DEF Sorted
      <3>2. QED
        BY <1>4, <3>1, PlacesAppended
    <2>4. /\ NotCached > 0 => \A k \in 1..Len(answers[t]) : answers[t][k].value < NotCached
          /\ NotCached \in Nat \cup {NotCached}
      BY DEF NotCached
    <2>5. pc'[t] = "call" /\ result'[t] \in Functions \cup {None}
      BY <1>1, <1>6, <1>11 DEF Sorted
    <2>6. Good(t)'
      BY <1>1, <1>3, <1>4, <1>11, <2>1, <2>2, <2>3, <2>4, <2>5, AnswerStep
    <2>7. OnlyBy(t)
      BY <1>1, <1>8, <1>11, <2>1 DEF OnlyBy, Answer, Advance
    <2>8. QED
      BY <1>3, <2>6, <2>7, OnlyByStep
  <1>12. CASE Exit(t)
    <2>1. /\ reply' = [reply EXCEPT ![t] = Raised] /\ pc' = [pc EXCEPT ![t] = "idle"]
          /\ next' = next /\ result' = result /\ answers' = answers
      BY <1>12 DEF Exit, Go
    <2>2. reply'[t] = Raised /\ pc'[t] = "idle"
      BY <2>1 DEF IInv, Functional
    <2>3. /\ MatchedFor(t)' /\ Told(t)' /\ Covered(t)' /\ InOrder(t)'
          /\ ran'[t] \in Seq(Nat) /\ next'[t] \in 1..Len(requests'[t]) + 1
      BY <1>1, <1>4, <2>1, RunStep
    <2>4. Sorted(t)'
      BY <1>4, <1>6, <2>1, <2>2, <2>3 DEF Sorted
    <2>5. AtHand(t)' /\ Past(t)'
      BY <1>3, <1>6, <1>7, <2>1, <2>2 DEF AtHand, Past
    <2>6. Good(t)'
      BY <1>4, <1>6, <2>3, <2>4, <2>5 DEF Good
    <2>7. OnlyBy(t)
      BY <1>1, <1>8, <2>1 DEF OnlyBy
    <2>8. QED
      BY <1>3, <2>6, <2>7, OnlyByStep
  <1>13. QED
    BY <1>2, <1>9, <1>10, <1>11, <1>12

LEMMA ConvertStep ==
  ASSUME IInv, NEW t \in Threads, Convert(t)
  PROVE  IInv'
  <1> DEFINE value == IF Behaviour[result[t]] = "shared" THEN shared ELSE 0
  <1>1. /\ pc[t] = "convert" /\ pc' = [pc EXCEPT ![t] = "call"]
        /\ result' = [result EXCEPT ![t] = None]
        /\ UNCHANGED <<table, shared, batch, requests, reply, sent, ran>>
        /\ Answer(t, "server", NotCached) \/ Answer(t, "result", value)
    BY DEF Convert, Go
  <1>2. /\ Good(t) /\ Sorted(t) /\ AtHand(t) /\ Past(t) /\ shared \in Nat
    BY DEF IInv, Good, Functional
  <1>3. /\ next[t] <= Len(requests[t]) /\ requests[t][next[t]].id # None
        /\ next[t] \in Places(ran'[t]) /\ ran'[t] = ran[t]
    BY <1>1, <1>2 DEF AtHand
  <1>4. pc'[t] = "call" /\ result'[t] = None
    BY <1>1 DEF IInv, Functional
  <1>5. /\ shared' \in Nat /\ shared <= shared' /\ NotCached <= shared
        /\ NotCached > 0 => \A k \in 1..Len(answers[t]) : answers[t][k].value < NotCached
    BY <1>1, <1>2 DEF NotCached
  <1>6. /\ value \in Nat /\ value <= shared /\ value # NotCached
        /\ value > 0 => \A k \in 1..Len(answers[t]) : answers[t][k].value < value
    BY <1>1, <1>2 DEF NotCached, Past
  <1>7. Good(t)'
    <2>1. /\ "server" \in Codes /\ "result" \in Codes
          /\ Tells("server", requests[t][next[t]], TRUE)
          /\ Tells("result", requests[t][next[t]], TRUE)
          /\ NotCached \in Nat \cup {NotCached} /\ value \in Nat \cup {NotCached}
          /\ result'[t] \in Functions \cup {None}
      BY <1>4, <1>6 DEF Codes, Tells
    <2> HIDE DEF value
    <2>2. CASE Answer(t, "server", NotCached)
      BY <1>1, <1>3, <1>4, <1>5, <2>1, <2>2, AnswerStep
    <2>3. CASE Answer(t, "result", value)
      BY <1>1, <1>3, <1>4, <1>5, <1>6, <2>1, <2>3, AnswerStep
    <2>4. QED
      BY <1>1, <2>2, <2>3
  <1>8. OnlyBy(t)
    <2>1. /\ batch' = [batch EXCEPT ![t] = batch[t]]
          /\ requests' = [requests EXCEPT ![t] = requests[t]] /\ reply' = [reply EXCEPT ![t] = reply[t]]
          /\ sent' = [sent EXCEPT ![t] = sent[t]] /\ ran' = [ran EXCEPT ![t] = ran[t]]
      BY <1>1 DEF IInv, Functional
    <2>2. QED
      BY <1>1, <2>1 DEF OnlyBy, Answer, Advance
  <1>9. QED
    BY <1>5, <1>7, <1>8, OnlyByStep

LEMMA FinishStep ==
  ASSUME IInv, NEW t \in Threads, Finish(t)
  PROVE  IInv'
  <1>1. /\ pc' = [pc EXCEPT ![t] = "reply"] /\ reply' = [reply EXCEPT ![t] = ReplyTo(t)]
        /\ UNCHANGED <<table, shared, batch, requests, next, result, answers, sent, ran>>
    BY DEF Finish, Go
  <1>2. pc'[t] = "reply" /\ reply'[t] = ReplyTo(t)
    BY <1>1 DEF IInv, Functional
  <1>3. /\ Sorted(t) /\ MatchedFor(t) /\ Told(t) /\ Covered(t) /\ InOrder(t)
        /\ Past(t) /\ Increasing(sent[t]) /\ shared \in Nat
    BY DEF IInv, Good, Functional
  <1>4. Sorted(t)'
    BY <1>1, <1>2, <1>3 DEF Sorted, ReplyTo
  <1>5. MatchedFor(t)' /\ Told(t)' /\ Covered(t)' /\ InOrder(t)' /\ AtHand(t)'
    BY <1>1, <1>2, <1>3 DEF MatchedFor, Told, Covered, InOrder, AtHand, Answered
  <1>6. Past(t)' /\ Increasing(sent[t])'
    BY <1>1, <1>2, <1>3 DEF Past, ReplyTo
  <1>7. Good(t)'
    BY <1>4, <1>5, <1>6 DEF Good
  <1>8. OnlyBy(t)
    <2>1. /\ batch' = [batch EXCEPT ![t] = batch[t]] /\ next' = [next EXCEPT ![t] = next[t]]
          /\ requests' = [requests EXCEPT ![t] = requests[t]] /\ sent' = [sent EXCEPT ![t] = sent[t]]
          /\ result' = [result EXCEPT ![t] = result[t]] /\ ran' = [ran EXCEPT ![t] = ran[t]]
          /\ answers' = [answers EXCEPT ![t] = answers[t]]
      BY <1>1 DEF IInv, Functional
    <2>2. QED
      BY <1>1, <2>1 DEF OnlyBy
  <1>9. QED
    BY <1>1, <1>3, <1>7, <1>8, OnlyByStep

LEMMA SendStep ==
  ASSUME IInv, NEW t \in Threads, Send(t)
  PROVE  IInv'
  <1> DEFINE texts == IF reply[t] = None THEN <<>>
                      ELSE [k \in 1..Len(reply[t]) |-> ValueIn(reply[t][k])]
  <1>1. /\ pc[t] = "reply" /\ pc' = [pc EXCEPT ![t] = "idle"] /\ sent' = [sent EXCEPT ![t] = texts]
        /\ UNCHANGED <<table, shared, batch, requests, next, result, answers, reply, ran>>
    BY DEF Send, Go
  <1>2. pc'[t] = "idle" /\ sent'[t] = texts
    BY <1>1 DEF IInv, Functional
  <1>3. /\ Sorted(t) /\ MatchedFor(t) /\ Told(t) /\ Covered(t) /\ InOrder(t)
        /\ Past(t) /\ shared \in Nat
    BY DEF IInv, Good, Functional
  <1>4. Increasing(texts)
    <2>1. CASE reply[t] = None
      BY <2>1 DEF Increasing
    <2>2. CASE reply[t] # None /\ reply[t] = answers[t]
      <3>1. answers[t] \in Seq(Responses) /\ Len(answers[t]) \in Nat
        BY <1>3 DEF Sorted
      <3>2. /\ Len(texts) = Len(answers[t])
            /\ \A k \in 1..Len(answers[t]) : texts[k] = ValueIn(answers[t][k])
        BY <2>2, <3>1
      <3>3. \A k \in 1..Len(answers[t]) : ValueIn(answers[t][k]) = answers[t][k].value
        BY <1>3 DEF ValueIn, Past
      <3>4. \A j, k \in 1..Len(answers[t]) :
              j < k /\ answers[t][j].value > 0 /\ answers[t][k].value > 0 =>
                answers[t][j].value < answers[t][k].value
        BY <1>3 DEF Past
      <3>5. \A k \in 1..Len(answers[t]) : texts[k] = answers[t][k].value
        BY <3>2, <3>3
      <3> HIDE DEF texts
      <3>6. QED
        BY <3>2, <3>4, <3>5 DEF Increasing
    <2>3. ASSUME reply[t] # None, NEW code, reply[t] = <<Response(0, None, code, NotCached)>>
          PROVE  Increasing(texts)
      <3>1. Len(reply[t]) = 1
        BY <2>3
      <3>2. Len(texts) = 1
        BY <2>3, <3>1
      <3>3. QED
        BY <3>2 DEF Increasing
    <2>4. QED
      BY <1>1, <1>3, <2>1, <2>2, <2>3 DEF Past
  <1> HIDE DEF texts
  <1>5. Sorted(t)' /\ Increasing(sent[t])'
    BY <1>1, <1>2, <1>3, <1>4 DEF Sorted
  <1>6. MatchedFor(t)' /\ Told(t)' /\ Covered(t)' /\ InOrder(t)' /\ AtHand(t)' /\ Past(t)'
    BY <1>1, <1>2, <1>3 DEF MatchedFor, Told, Covered, InOrder, AtHand, Past, Answered
  <1>7. Good(t)'
    BY <1>5, <1>6 DEF Good
  <1>8. OnlyBy(t)
    <2>1. /\ batch' = [batch EXCEPT ![t] = batch[t]] /\ next' = [next EXCEPT ![t] = next[t]]
          /\ requests' = [requests EXCEPT ![t] = requests[t]] /\ reply' = [reply EXCEPT ![t] = reply[t]]
          /\ result' = [result EXCEPT ![t] = result[t]] /\ ran' = [ran EXCEPT ![t] = ran[t]]
          /\ answers' = [answers EXCEPT ![t] = answers[t]]
      BY <1>1 DEF IInv, Functional
    <2>2. QED
      BY <1>1, <2>1 DEF OnlyBy
  <1>9. QED
    BY <1>1, <1>3, <1>7, <1>8, OnlyByStep

\* A step that leaves every thread still.
LEMMA StillAllStep ==
  ASSUME IInv, UNCHANGED <<shared, threadVars>>,
         table' \in [Names -> Functions \cup {None}],
         \A n \in Names : table'[n] # None => NameOf[table'[n]] = n
  PROVE  IInv'
  <1>1. UNCHANGED <<pc, batch, requests, next, result, answers, reply, sent, ran>>
    BY DEF threadVars
  <1>2. shared \in Nat /\ shared' = shared
    BY DEF IInv, Functional
  <1>3. Functional'
    BY <1>1, <1>2 DEF IInv, Functional
  <1>4. ASSUME NEW t \in Threads PROVE Good(t)'
    BY <1>1, <1>2, StillStep DEF IInv, Still
  <1>5. QED
    BY <1>3, <1>4 DEF IInv

-----------------------------------------------------------------------------

LEMMA Initially == Init => IInv
  <1> SUFFICES ASSUME Init PROVE IInv
    OBVIOUS
  <1>1. /\ table \in [Names -> Functions \cup {None}]
        /\ \A n \in Names : table[n] # None => NameOf[table[n]] = n
    <2>1. ASSUME NEW fs, NEW n, fs \subseteq {f \in Functions : NameOf[f] = n}
          PROVE  LET f == IF fs = {} THEN None ELSE CHOOSE g \in fs : TRUE IN
                 f \in Functions \cup {None} /\ (f # None => NameOf[f] = n)
      BY <2>1
    <2>2. \A n \in Names :
            {f \in Initial : NameOf[f] = n} \subseteq {f \in Functions : NameOf[f] = n}
      BY FunctionsAssumption
    <2>3. QED
      BY <2>1, <2>2 DEF Init
  <1>2. Functional
    BY <1>1 DEF Init, Functional
  <1>3. ASSUME NEW t \in Threads PROVE Good(t)
    <2>1. /\ requests[t] = <<>> /\ answers[t] = <<>> /\ ran[t] = <<>> /\ sent[t] = <<>>
          /\ next[t] = 1 /\ pc[t] = "idle" /\ result[t] = None /\ reply[t] = None /\ batch[t] = FALSE
      BY DEF Init
    <2>2. /\ Len(requests[t]) = 0 /\ Len(answers[t]) = 0 /\ Len(ran[t]) = 0 /\ Len(sent[t]) = 0
          /\ requests[t] \in Seq(RequestItems) /\ answers[t] \in Seq(Responses) /\ ran[t] \in Seq(Nat)
      BY <2>1
    <2>3. Sorted(t)
      <3>1. next[t] \in 1..Len(requests[t]) + 1
        BY <2>1, <2>2
      <3>2. /\ pc[t] \in {"idle", "call", "convert", "reply"} /\ batch[t] \in BOOLEAN
            /\ result[t] \in Functions \cup {None} /\ reply[t] = None
        BY <2>1
      <3>3. QED
        BY <2>2, <3>1, <3>2 DEF Sorted
    <2>4. MatchedFor(t) /\ Told(t) /\ Covered(t) /\ InOrder(t) /\ AtHand(t)
      BY <2>1, <2>2 DEF MatchedFor, Told, Covered, InOrder, AtHand
    <2>5. Past(t) /\ Increasing(sent[t])
      BY <2>1, <2>2 DEF Past, Increasing
    <2>6. QED
      BY <2>3, <2>4, <2>5 DEF Good
  <1>4. QED
    BY <1>2, <1>3 DEF IInv

\* The invariant holds initially and is kept by every step.
THEOREM Inductive == Spec => []IInv
  <1>1. IInv /\ [Next]_vars => IInv'
    <2>1. ASSUME IInv, NEW t \in Threads, Process(t) \/ Step(t) \/ Send(t)
          PROVE  IInv'
      BY <2>1, ProcessStep, CallFailsStep, CallRunsStep, ConvertStep, FinishStep, SendStep DEF Step
    <2>2. ASSUME IInv, NEW f \in Functions, Register(f)
          PROVE  IInv'
      <3>1. /\ table' \in [Names -> Functions \cup {None}]
            /\ \A n \in Names : table'[n] # None => NameOf[table'[n]] = n
        BY <2>2, FunctionsAssumption DEF Register, IInv, Functional
      <3>2. QED
        BY <2>2, <3>1, StillAllStep DEF Register
    <2>3. ASSUME IInv, UNCHANGED vars
          PROVE  IInv'
      <3>1. /\ table' \in [Names -> Functions \cup {None}] /\ UNCHANGED <<shared, threadVars>>
            /\ \A n \in Names : table'[n] # None => NameOf[table'[n]] = n
        BY <2>3 DEF vars, threadVars, IInv, Functional
      <3>2. QED
        BY <2>3, <3>1, StillAllStep
    <2>4. QED
      BY <2>1, <2>2, <2>3 DEF Next
  <1>2. QED
    BY <1>1, Initially, PTL DEF Spec

\* The variables keep their sorts, and no reply is an empty list of responses
\* (JsonRpcRequestProcessor.process, lines 557-560).
THEOREM TypeCorrect == Spec => []TypeOK
  BY Inductive, InvariantImplies, PTL

\* Every request with an identifier is answered once, in order, under that identifier.
THEOREM AnswersMatch == Spec => []Matched
  BY Inductive, InvariantImplies, PTL

\* What an answer says of the function's run is so, wherever the signature that
\* is_callable_with asks (reflection.py:21-26) agrees with the call that Python makes;
\* where it does not, the two answers that Honest names may be wrong.
THEOREM AnswersAreHonest == Spec => []Honest
  BY Inductive, InvariantImplies, PTL

\* In the text of a batch, a result shows nothing of what a later one that is the
\* same object was made into.
THEOREM TextsAreSnapshots == Spec => []Snapshots
  BY Inductive, InvariantImplies, PTL
=============================================================================
