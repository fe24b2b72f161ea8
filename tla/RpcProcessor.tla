---------------------------- MODULE RpcProcessor ----------------------------
(***************************************************************************)
(* JsonRpcRequestProcessor and JsonRpcDispatcher of                        *)
(* utils/json/rpc/__init__.py: texts are read, the functions they name are *)
(* run, and what they return or raise is answered.                         *)
(*                                                                         *)
(* A thread processes one text at a time.  It stops being alone between a  *)
(* function that returns and the conversion of what it returned, which is  *)
(* held by reference: another call may have changed it by then.            *)
(***************************************************************************)
EXTENDS Integers, Sequences

CONSTANTS
  Threads,
  Texts,       \* by thread, the texts it may be given: Garbage, or
               \*   [batch |-> whether it is a list, items |-> what is in it]
  Garbage,     \* a text that is no JSON
  Malformed,   \* an item that is no request
  Functions,
  Names,       \* of methods
  NameOf,      \* by function, the name it is registered under
  Behaviour,   \* by function, what its body does: see Behaviours
  Fits,        \* pairs of a function and parameters with which Python calls it
  Binds,       \* those of which inspect.signature says so: it has none of some
               \*   functions, and of a decorated one that of another function
  NamesIn,     \* by parameters, the names in them that matter: see Clashing
  None, Raised,
  Initial,     \* the functions registered at first
  MaxShared    \* bound: no text is taken once the shared object is there

\* Of a body that ends: it returns a value of its own; an object that every such
\* call changes and returns; a value that JSON has not; it raises an Exception, a
\* TypeError, or what is no Exception (SystemExit, KeyboardInterrupt).
Behaviours == {"value", "shared", "object", "raises", "type_error", "exits"}

\* The names of the parameters of call_method and of is_callable_with.
Clashing == {"self", "method", "func"}

\* A JsonRpcRequest: its identifier, of which strings are left out; its method; and
\* its parameters.
RequestItems == [id : Nat \cup {None}, method : Names, params : DOMAIN NamesIn]

ASSUME TextsAssumption ==
  \A t \in Threads : \A x \in Texts[t] \ {Garbage} :
    /\ x.batch \in BOOLEAN
    /\ x.items \in Seq(RequestItems \cup {Malformed})
    /\ ~x.batch => Len(x.items) = 1

ASSUME FunctionsAssumption ==
  /\ NameOf \in [Functions -> Names]
  /\ Behaviour \in [Functions -> Behaviours]
  /\ \A v \in DOMAIN NamesIn : NamesIn[v] \subseteq Clashing
  /\ None \notin Functions /\ Initial \subseteq Functions
  /\ MaxShared \in Nat

VARIABLES
  table,    \* _name_to_method
  shared,   \* the shared object: how often it was changed
  pc,       \* "idle", "call", "convert", "reply"
  batch,    \* whether the request is a batch
  requests, \* the requests of the text
  next,     \* the place of the one at hand
  result,   \* JsonRpcCallResult.result: the function it comes from
  answers,  \* the responses made so far, with the text each has cached
  reply,    \* what process returned; Raised if it raised
  sent,     \* the values in the text of the reply
  ran       \* history: the places of the requests whose function was run

vars == <<table, shared, pc, batch, requests, next, result, answers, reply, sent, ran>>

threadVars == <<pc, batch, requests, next, result, answers, reply, sent, ran>>

Codes == {"result", "parse", "invalid", "not_found", "invalid_params", "server", "internal"}

\* A response: the place of its request (history), its identifier, whether it is a
\* result or which error it is, and the value in its cached text, if it has one.
Response(of, id, code, value) == [of |-> of, id |-> id, code |-> code, value |-> value]

NotCached == -1

Init ==
  /\ table = [n \in Names |-> LET fs == {f \in Initial : NameOf[f] = n}
                              IN IF fs = {} THEN None ELSE CHOOSE f \in fs : TRUE]
  /\ shared = 0
  /\ pc = [t \in Threads |-> "idle"]
  /\ batch = [t \in Threads |-> FALSE]
  /\ requests = [t \in Threads |-> <<>>]
  /\ next = [t \in Threads |-> 1]
  /\ result = [t \in Threads |-> None]
  /\ answers = [t \in Threads |-> <<>>]
  /\ reply = [t \in Threads |-> None]
  /\ sent = [t \in Threads |-> <<>>]
  /\ ran = [t \in Threads |-> <<>>]

\* JsonRpcDispatcher.method: the last function of a name is the one called.
Register(f) ==
  /\ table' = [table EXCEPT ![NameOf[f]] = f]
  /\ UNCHANGED <<shared, threadVars>>

-----------------------------------------------------------------------------
(* process: from a text to requests. *)

Go(t, where) == pc' = [pc EXCEPT ![t] = where]

\* One item that is no request, or an empty list, and nothing of the text is run.
WellFormed(x) ==
  /\ x # Garbage
  /\ x.items # <<>>
  /\ \A i \in 1..Len(x.items) : x.items[i] # Malformed

Refuse(t, x) ==
  /\ ~WellFormed(x)
  /\ LET code == IF x = Garbage THEN "parse" ELSE "invalid"
     IN reply' = [reply EXCEPT ![t] = <<Response(0, None, code, NotCached)>>]
  /\ requests' = [requests EXCEPT ![t] = <<>>]
  /\ Go(t, "reply")
  /\ UNCHANGED batch

Accept(t, x) ==
  /\ WellFormed(x)
  /\ requests' = [requests EXCEPT ![t] = x.items]
  /\ batch' = [batch EXCEPT ![t] = x.batch]
  /\ reply' = [reply EXCEPT ![t] = None]
  /\ Go(t, "call")

Process(t) ==
  /\ pc[t] = "idle"
  /\ shared <= MaxShared
  /\ \E x \in Texts[t] : Refuse(t, x) \/ Accept(t, x)
  /\ next' = [next EXCEPT ![t] = 1]
  /\ answers' = [answers EXCEPT ![t] = <<>>]
  /\ sent' = [sent EXCEPT ![t] = <<>>]
  /\ ran' = [ran EXCEPT ![t] = <<>>]
  /\ UNCHANGED <<table, shared, result>>

-----------------------------------------------------------------------------
(* _process_request and call_method, for the request at hand. *)

Request(t) == requests[t][next[t]]

AtCall(t) == pc[t] = "call" /\ next[t] <= Len(requests[t])

\* call_method is given the parameters by name beside its own.
Clashes(t) == NamesIn[Request(t).params] \cap {"self", "method"} # {}

Target(t) == table[Request(t).method]

\* What the signature says, if there is one; the call itself does not ask it.
IsCallableWith(t) == <<Target(t), Request(t).params>> \in Binds

\* The body of the function is entered: call_method is reached, and Python makes
\* the call.
IsRun(t) ==
  /\ AtCall(t)
  /\ ~Clashes(t)
  /\ Target(t) # None
  /\ <<Target(t), Request(t).params>> \in Fits

\* A TypeError is of the call and not of the body when is_callable_with says that
\* the parameters do not fit; it raises one itself for a parameter of the name func.
\* Slip (Honest): is_callable_with is not asked.
TypeErrorCodeSlip(t) ==
  IF "func" \in NamesIn[Request(t).params] THEN "internal" ELSE "invalid_params"

TypeErrorCode(t) ==
  IF "func" \in NamesIn[Request(t).params] THEN "internal"
  ELSE IF IsCallableWith(t) THEN "server"
  ELSE "invalid_params"

Advance(t) == next' = [next EXCEPT ![t] = @ + 1]

\* Slip (Matched): an error response is made without the identifier.
AnswerSlip(t, code, value) ==
  /\ answers' = [answers EXCEPT ![t] =
       Append(@, Response(next[t], IF code = "result" THEN Request(t).id ELSE None, code, value))]
  /\ Advance(t)

Answer(t, code, value) ==
  /\ answers' = [answers EXCEPT ![t] =
       Append(@, Response(next[t], Request(t).id, code, value))]
  /\ Advance(t)

\* An error is answered whether or not the request has an identifier.
CallFails(t) ==
  /\ AtCall(t)
  /\ \/ Clashes(t) /\ Answer(t, "internal", NotCached)
     \/ ~Clashes(t) /\ Target(t) = None /\ Answer(t, "not_found", NotCached)
     \/ /\ ~Clashes(t) /\ Target(t) # None /\ ~IsRun(t)
        /\ Answer(t, TypeErrorCode(t), NotCached)
  /\ UNCHANGED <<table, shared, pc, batch, requests, result, reply, sent, ran>>

\* The body of the function, and what becomes of its outcome at once.
Return(t) ==
  IF Request(t).id = None
  THEN Advance(t) /\ UNCHANGED <<pc, result, answers, reply>>
  ELSE /\ result' = [result EXCEPT ![t] = Target(t)]
       /\ Go(t, "convert")
       /\ UNCHANGED <<next, answers, reply>>

\* Neither call_method nor _process_request catches it, and the answers are lost.
Exit(t) ==
  /\ reply' = [reply EXCEPT ![t] = Raised]
  /\ Go(t, "idle")
  /\ UNCHANGED <<next, result, answers>>

CallRuns(t) ==
  /\ IsRun(t)
  /\ ran' = [ran EXCEPT ![t] = Append(@, next[t])]
  /\ LET does == Behaviour[Target(t)] IN
     /\ shared' = IF does = "shared" THEN shared + 1 ELSE shared
     /\ \/ does \in {"value", "shared", "object"} /\ Return(t)
        \/ /\ does \in {"raises", "type_error"}
           /\ Answer(t, IF does = "raises" THEN "server" ELSE TypeErrorCode(t), NotCached)
           /\ UNCHANGED <<pc, result, reply>>
        \/ does = "exits" /\ Exit(t)
  /\ UNCHANGED <<table, batch, requests, sent>>

\* response.to_json(): the text is cached now.  What JSON has not is a server error.
\* Slip (Snapshots): the text is made when the caller asks for it.
ConvertSlip(t) ==
  /\ pc[t] = "convert"
  /\ Answer(t, IF Behaviour[result[t]] = "object" THEN "server" ELSE "result", NotCached)
  /\ Go(t, "call")
  /\ result' = [result EXCEPT ![t] = None]
  /\ UNCHANGED <<table, shared, batch, requests, reply, sent, ran>>

Convert(t) ==
  /\ pc[t] = "convert"
  /\ IF Behaviour[result[t]] = "object" THEN Answer(t, "server", NotCached)
     ELSE Answer(t, "result", IF Behaviour[result[t]] = "shared" THEN shared ELSE 0)
  /\ Go(t, "call")
  /\ result' = [result EXCEPT ![t] = None]
  /\ UNCHANGED <<table, shared, batch, requests, reply, sent, ran>>

-----------------------------------------------------------------------------

\* What process returns: nothing when there is no response.  A JsonRpcBatchResponse
\* is never empty.
\* Slip (TypeOK): every batch is answered by a batch.
ReplyToSlip(t) == IF batch[t] \/ answers[t] # <<>> THEN answers[t] ELSE None

ReplyTo(t) == IF answers[t] # <<>> THEN answers[t] ELSE None

Finish(t) ==
  /\ pc[t] = "call"
  /\ next[t] > Len(requests[t])
  /\ reply' = [reply EXCEPT ![t] = ReplyTo(t)]
  /\ Go(t, "reply")
  /\ UNCHANGED <<table, shared, batch, requests, next, result, answers, sent, ran>>

\* The caller asks the reply for its text: what is cached is not made again.
ValueIn(r) == IF r.value = NotCached /\ r.code = "result" THEN shared ELSE r.value

Send(t) ==
  /\ pc[t] = "reply"
  /\ sent' = [sent EXCEPT ![t] = IF reply[t] = None THEN <<>>
                                 ELSE [k \in 1..Len(reply[t]) |-> ValueIn(reply[t][k])]]
  /\ Go(t, "idle")
  /\ UNCHANGED <<table, shared, batch, requests, next, result, answers, reply, ran>>

Step(t) == CallFails(t) \/ CallRuns(t) \/ Convert(t) \/ Finish(t)

Next ==
  \/ \E t \in Threads : Process(t) \/ Step(t) \/ Send(t)
  \/ \E f \in Functions : Register(f)

Spec == Init /\ [][Next]_vars

-----------------------------------------------------------------------------

Responses ==
  [of : Nat, id : Nat \cup {None}, code : Codes, value : Nat \cup {NotCached}]

\* The sorts of the variables.  A reply is never an empty list of responses.
TypeOK ==
  /\ table \in [Names -> Functions \cup {None}]
  /\ shared \in Nat
  /\ pc \in [Threads -> {"idle", "call", "convert", "reply"}]
  /\ \A t \in Threads :
       /\ batch[t] \in BOOLEAN
       /\ next[t] \in 1..Len(requests[t]) + 1
       /\ result[t] \in Functions \cup {None}
       /\ \A k \in 1..Len(answers[t]) : answers[t][k] \in Responses
       /\ reply[t] \notin {None, Raised} => reply[t] # <<>>

Places(s) == {s[k] : k \in 1..Len(s)}
Answered(t) == {answers[t][k].of : k \in 1..Len(answers[t])}

\* Every request served so far that has an identifier is answered exactly once,
\* in the order of the requests, and every answer carries the identifier of its
\* request; a request without identifier is answered by an error or not at all.
Matched ==
  \A t \in Threads :
    /\ \A k \in 1..Len(answers[t]) : LET a == answers[t][k] IN
         /\ a.of \in 1..next[t] - 1
         /\ a.id = requests[t][a.of].id
         /\ a.id = None => a.code # "result"
         /\ k > 1 => answers[t][k - 1].of < a.of
    /\ \A i \in 1..next[t] - 1 : requests[t][i].id # None => i \in Answered(t)

\* The functions for which the signature is wrong about a request: it refuses what
\* the function is run with, or takes what the function is not run with.
Refusing(q) == {f \in Functions : NameOf[f] = q.method /\ <<f, q.params>> \in Fits \ Binds}
Promising(q) == {f \in Functions : NameOf[f] = q.method /\ <<f, q.params>> \in Binds \ Fits}

\* What an answer says of the function is so: a result or a server error stands for
\* one run of it, any other error for none (an internal error says nothing), and
\* what was not run is answered by an error, whatever its identifier.  Two answers
\* are wrong where the signature is: that the parameters are invalid, of a function
\* that ran and raised a TypeError though its signature refuses them; and a server
\* error, of one that was not run though its signature takes them.  No function is
\* run twice, or for a request that comes after one still to be answered.
Honest ==
  \A t \in Threads :
    /\ \A k \in 1..Len(answers[t]) : LET a == answers[t][k]
                                         q == requests[t][a.of]
                                         isRun == a.of \in Places(ran[t]) IN
         /\ a.code = "result" => isRun
         /\ a.code = "server" => isRun \/ Promising(q) # {}
         /\ a.code = "not_found" => ~isRun
         /\ a.code = "invalid_params" /\ isRun =>
              \E f \in Refusing(q) : Behaviour[f] = "type_error"
    /\ \A i \in 1..next[t] - 1 : i \in Places(ran[t]) \cup Answered(t)
    /\ \A k \in 1..Len(ran[t]) : /\ ran[t][k] <= next[t]
                                 /\ k > 1 => ran[t][k - 1] < ran[t][k]

\* Of two results in the text of a batch that are the same object, the earlier shows
\* an earlier state of it: what the later request made of the object is not in it.
Snapshots ==
  \A t \in Threads : pc[t] = "idle" =>
    \A j, k \in 1..Len(sent[t]) :
      j < k /\ sent[t][j] > 0 /\ sent[t][k] > 0 => sent[t][j] < sent[t][k]

\* "return None # Notification.": a request without identifier is not answered, and
\* the test of a notification compares what process returns with None.
NotificationsUnanswered ==
  \A t \in Threads : \A k \in 1..Len(answers[t]) : answers[t][k].id # None
=============================================================================
