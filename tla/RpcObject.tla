----------------------------- MODULE RpcObject -----------------------------
(***************************************************************************)
(* The JSON-RPC objects of utils/json/rpc/__init__.py: JsonRpcRequest,     *)
(* JsonRpcResponse and JsonRpcResponseError.  An object keeps the fields   *)
(* it was given and caches what it makes of them: its payload, and for the *)
(* first two the text of the payload.  A setter of a request or of a       *)
(* response drops both caches; a setter of an error drops nothing.         *)
(*                                                                         *)
(* The body of an object (params, result, data) is a list or a dict, and   *)
(* the error of a response a dict, held by reference: a cell, which the    *)
(* caller may change in place, as it may the dict of a payload.  The other *)
(* members are values.  The member jsonrpc is left out: it is always       *)
(* written, and the reader only looks whether it is there.                 *)
(***************************************************************************)
EXTENDS Integers

CONSTANTS
  Objects,
  Cells,        \* lists and dicts
  Contents,     \* what a cell may hold
  Empty,        \* of which: nothing
  Undumpable,   \*   what json.dumps refuses
  Complete,     \*   an error: a code and a message, at least
  Values,       \* by member that is no list or dict, its values
  Refused,      \* of which: the method names in "rpc.", refused by the setter
  Falsy,        \*   what Python takes for false: 0, "", None
  None,
  Nothing       \* no text

Kinds == {"request", "response", "error"}

Body(k) == CASE k = "request" -> "params"
             [] k = "response" -> "result"
             [] k = "error" -> "data"

Scalars(k) == CASE k = "request" -> {"id", "method"}
                [] k = "response" -> {"id", "error"}
                [] k = "error" -> {"code", "message"}

MembersOf(k) == Scalars(k) \cup {Body(k)}

\* The members that are held by reference.
References == {"params", "result", "data", "error"}

ASSUME ValuesAssumption ==
  /\ DOMAIN Values = {"id", "method", "code", "message"}
  /\ None \in Values["id"]
  /\ None \notin Refused /\ None \in Falsy /\ Falsy \cap Cells = {}
  /\ \A m \in DOMAIN Values : Values[m] \cap (Cells \cup Contents) = {}

ASSUME ContentsAssumption ==
  /\ Empty \in Contents \ (Undumpable \cup Complete) /\ Complete \subseteq Contents
  /\ None \notin Cells \cup Contents
  /\ Nothing \notin [{} -> {None}]

VARIABLES
  kind,      \* the class of each object
  heap,      \* what each cell holds
  fields,    \* the fields of each object
  modified,  \* _modified; for an error: _payload is None
  payload,   \* _payload, a function on the members that are told
  text,      \* _json_payload
  (* History, read by properties only. *)
  held,      \* what each list or dict of an object held since it was assigned
  late,      \* errors of which a field was assigned after the payload was made
  altered    \* objects whose payload was changed in place after it was made

vars == <<kind, heap, fields, modified, payload, text, held, late, altered>>

\* What a member may be.
Sort(m) == IF m \in References THEN Cells \cup {None} ELSE Values[m] \ Refused

\* What a setter takes: an error is looked into when it is assigned.
\* Slip (TypeOK): the setter of method does not look at the value.
AssignableSlip(m) == IF m \in References THEN Cells \cup {None} ELSE Values[m]

Assignable(m) ==
  IF m = "error" THEN {c \in Cells : heap[c] \in Complete} \cup {None} ELSE Sort(m)

\* A constructor takes any fields, but a response not both error and result.
Constructible(k) ==
  {f \in [MembersOf(k) -> UNION {Assignable(m) : m \in MembersOf(k)}] :
     /\ \A m \in MembersOf(k) : f[m] \in Assignable(m)
     /\ k = "response" => f["error"] = None \/ f["result"] = None}

\* A value as JSON has it: of a list or dict, what it holds.
Dumped(v) == IF v \in Cells THEN heap[v] ELSE v

Truthy(v) == v \notin Falsy /\ Dumped(v) # Empty

\* The members a payload has when it is made from the fields.
\* Slip (WrittenIsRead): the result is told beside the error.
ToldSlip(o) ==
  {m \in MembersOf(kind[o]) :
     \/ m \in {"method", "code", "message", "result"}
     \/ m = "id" /\ kind[o] = "response"
     \/ Truthy(fields[o][m])}

Told(o) ==
  {m \in MembersOf(kind[o]) :
     \/ m \in {"method", "code", "message"}
     \/ m = "id" /\ kind[o] = "response"
     \/ m \in {"id", "params", "error", "data"} /\ Truthy(fields[o][m])
     \/ m = "result" /\ ~Truthy(fields[o]["error"])}

Build(o) == [m \in Told(o) |-> fields[o][m]]

\* The property payload: a request needs a method.
CanBuild(o) == modified[o] /\ kind[o] = "request" => Truthy(fields[o]["method"])

\* Slip (PayloadTrue): a payload that was made is kept.
CurrentSlip(o) == IF DOMAIN payload[o] = {} THEN Build(o) ELSE payload[o]

Current(o) == IF modified[o] THEN Build(o) ELSE payload[o]

Dump(p) == [m \in DOMAIN p |-> Dumped(p[m])]

Dumpable(p) == \A m \in DOMAIN p : Dumped(p[m]) \notin Undumpable

Get(p, m) == IF m \in DOMAIN p THEN p[m] ELSE None

-----------------------------------------------------------------------------
(* What _from_request_payload, _from_response_payload and                  *)
(* JsonRpcResponseError.from_payload take.  A wire is a payload as JSON    *)
(* has it: contents in the place of cells.                                 *)

Required(k) == CASE k = "request" -> {"method"}
                 [] k = "response" -> {"id"}
                 [] k = "error" -> {"code", "message"}

InJson(m) == IF m \in References THEN Contents \cup {None} ELSE Values[m] \ Refused

\* The members are those of the class.  Only a request may have no others; those of
\* a response or an error are not looked at.
Formed(k, w) ==
  /\ Required(k) \subseteq DOMAIN w
  /\ k = "request" => DOMAIN w \subseteq MembersOf(k)
  /\ k = "response" => ("error" \in DOMAIN w) # ("result" \in DOMAIN w)

Accepts(k, w) ==
  /\ Formed(k, w)
  /\ \A m \in DOMAIN w \cap MembersOf(k) : w[m] \in InJson(m)
  /\ k = "response" /\ "error" \in DOMAIN w => w["error"] \in Complete

\* What a payload may be, by class.
Payloads == [k \in Kinds |->
  {p \in UNION {[S -> UNION {Sort(m) : m \in S}] : S \in SUBSET MembersOf(k)} :
     \A m \in DOMAIN p : p[m] \in Sort(m)}]

FormedPayloads == [k \in Kinds |-> {p \in Payloads[k] : Formed(k, p)}]

-----------------------------------------------------------------------------

ReferencesOf(o) == MembersOf(kind[o]) \cap References

\* What the lists and dicts of o hold.
Contained(o) == [m \in ReferencesOf(o) |-> {Dumped(fields[o][m])}]

Init ==
  /\ heap \in [Cells -> Contents]
  /\ kind \in [Objects -> Kinds]
  /\ fields \in {f \in [Objects -> UNION {Constructible(k) : k \in Kinds}] :
                   \A o \in Objects : f[o] \in Constructible(kind[o])}
  /\ modified = [o \in Objects |-> TRUE]
  /\ payload = [o \in Objects |-> [m \in {} |-> None]]
  /\ text = [o \in Objects |-> Nothing]
  /\ held = [o \in Objects |-> Contained(o)]
  /\ late = {} /\ altered = {}

\* Slip (TextTrue): a setter marks the payload and leaves the text.
InvalidateSlip(o) ==
  /\ modified' = [modified EXCEPT ![o] = TRUE]
  /\ text' = text

Invalidate(o) ==
  /\ modified' = [modified EXCEPT ![o] = TRUE]
  /\ text' = [text EXCEPT ![o] = Nothing]

\* A setter: identifier, method, params, args, kwargs, error, result.  The
\* fields of an error are plain attributes.
Assign(o, m) ==
  \E v \in Assignable(m) :
    /\ fields' = [fields EXCEPT ![o][m] = v]
    /\ held' = IF m \in References THEN [held EXCEPT ![o][m] = {Dumped(v)}] ELSE held
    /\ IF kind[o] = "error"
       THEN /\ UNCHANGED <<modified, text>>
            /\ late' = IF modified[o] THEN late ELSE late \cup {o}
       ELSE Invalidate(o) /\ UNCHANGED late
    /\ UNCHANGED <<kind, heap, payload, altered>>

\* The caller changes a list or a dict in place.
Mutate(c) ==
  \E x \in Contents :
    /\ heap' = [heap EXCEPT ![c] = x]
    /\ held' = [o \in Objects |-> [m \in ReferencesOf(o) |->
                  IF fields[o][m] = c THEN held[o][m] \cup {x} ELSE held[o][m]]]
    /\ UNCHANGED <<kind, fields, modified, payload, text, late, altered>>

\* The caller changes in place the dict that the property payload returned, or
\* that it gave to from_payload.  It removes a member: the properties tell no other
\* change from this one.
Alter(o) ==
  /\ ~modified[o]
  /\ \E m \in DOMAIN payload[o] :
       payload' = [payload EXCEPT ![o] = [n \in DOMAIN @ \ {m} |-> @[n]]]
  /\ altered' = altered \cup {o}
  /\ UNCHANGED <<kind, heap, fields, modified, text, held, late>>

\* The property payload; it raises when a method is missing.
AskPayload(o) ==
  /\ modified[o]
  /\ CanBuild(o)
  /\ payload' = [payload EXCEPT ![o] = Current(o)]
  /\ modified' = [modified EXCEPT ![o] = FALSE]
  /\ altered' = altered \ {o}
  /\ UNCHANGED <<kind, heap, fields, text, held, late>>

\* to_json: when json.dumps raises, the payload is made all the same.
Tell(o) ==
  /\ kind[o] # "error"
  /\ text[o] = Nothing
  /\ CanBuild(o)
  /\ payload' = [payload EXCEPT ![o] = Current(o)]
  /\ modified' = [modified EXCEPT ![o] = FALSE]
  /\ text' = [text EXCEPT ![o] = IF Dumpable(Current(o)) THEN Dump(Current(o)) ELSE Nothing]
  /\ altered' = IF modified[o] THEN altered \ {o} ELSE altered
  /\ UNCHANGED <<kind, heap, fields, held, late>>

\* o becomes the object read from p.  A request and a response keep p itself for
\* their payload.
Become(o, p) ==
  LET kept == kind[o] # "error" IN
  /\ UNCHANGED kind
  /\ Accepts(kind[o], Dump(p))'
  /\ fields' = [fields EXCEPT ![o] = [m \in MembersOf(kind[o]) |-> Get(p, m)]]
  /\ modified' = [modified EXCEPT ![o] = ~kept]
  /\ payload' = [payload EXCEPT ![o] = IF kept THEN p ELSE [m \in {} |-> None]]
  /\ text' = [text EXCEPT ![o] = Nothing]
  /\ held' = [held EXCEPT ![o] = Contained(o)']
  /\ late' = late \ {o} /\ altered' = altered \ {o}

\* from_payload, with the lists and dicts of the caller.
FromPayload(o) == UNCHANGED heap /\ \E p \in FormedPayloads[kind[o]] : Become(o, p)

\* No other object has c.
Unshared(o, c) == \A p \in Objects \ {o} : \A m \in ReferencesOf(p) : fields[p][m] # c

\* from_json: json.loads makes the lists and dicts, so that no other object has them.
FromJson(o) ==
  \E p \in FormedPayloads[kind[o]] :
    LET new == {c \in Cells : \E m \in DOMAIN p : p[m] = c} IN
    /\ \A c \in new : Unshared(o, c)
    /\ \E h \in [new -> Contents \ Undumpable] :
         heap' = [c \in Cells |-> IF c \in new THEN h[c] ELSE heap[c]]
    /\ Become(o, p)

Next ==
  \/ \E o \in Objects : \/ \E m \in MembersOf(kind[o]) : Assign(o, m)
                        \/ AskPayload(o)
                        \/ Tell(o)
                        \/ Alter(o)
                        \/ FromPayload(o)
                        \/ FromJson(o)
  \/ \E c \in Cells : Mutate(c)

Spec == Init /\ [][Next]_vars

-----------------------------------------------------------------------------

Texts(k) == UNION {[S -> UNION {InJson(m) : m \in MembersOf(k)}] : S \in SUBSET MembersOf(k)}

\* The sorts of the variables: a field never holds what its setter refuses.
TypeOK ==
  /\ kind \in [Objects -> Kinds]
  /\ heap \in [Cells -> Contents]
  /\ DOMAIN fields = Objects /\ DOMAIN payload = Objects /\ DOMAIN text = Objects
  /\ \A o \in Objects : /\ DOMAIN fields[o] = MembersOf(kind[o])
                        /\ \A m \in MembersOf(kind[o]) : fields[o][m] \in Sort(m)
                        /\ payload[o] \in Payloads[kind[o]]
                        /\ text[o] \in Texts(kind[o]) \cup {Nothing}
  /\ modified \in [Objects -> BOOLEAN]
  /\ DOMAIN held = Objects /\ altered \subseteq Objects
  /\ \A o \in Objects : held[o] \in [ReferencesOf(o) -> SUBSET (Contents \cup {None})]
  /\ late \subseteq {o \in Objects : kind[o] = "error"}

\* What p, a payload or a text of o, says of a member is what o has in it, or
\* what that list or dict held since it was assigned.  What is not told: a
\* request's identifier that counts as false, a body without content, the result
\* of a response that has an error, and an error that was emptied in place.
Says(o, p, m) ==
  LET said == Get(p, m) IN
  \/ said = fields[o][m]
  \/ m \in References /\ said \in held[o][m]
  \/ said = None /\ \/ m = "id" /\ kind[o] = "request" /\ fields[o][m] \in Falsy
                    \/ m \in References /\ Empty \in held[o][m]
                    \/ m = "result" /\ fields[o]["error"] # None

\* A payload that is not marked as modified, and whose dict nobody changed in
\* place, agrees with the fields, whatever was assigned, read, asked for or changed
\* in place before; for an error, as long as no field was assigned after the
\* payload was made.
PayloadTrue ==
  \A o \in Objects : ~modified[o] /\ o \notin late \cup altered =>
    \A m \in MembersOf(kind[o]) : Says(o, payload[o], m)

\* A cached text agrees with the fields, unless the payload's dict was changed in
\* place; a change in place of a list or dict makes it older than what that holds,
\* and nothing else does.
TextTrue ==
  \A o \in Objects : text[o] # Nothing /\ o \notin altered =>
    \A m \in MembersOf(kind[o]) : Says(o, text[o], m)

\* The error of o, looked into when it was assigned only, has always had a code and
\* a message since.
Intact(o) == kind[o] = "response" => held[o]["error"] \subseteq Complete \cup {None}

\* What to_json writes, or what is told of an error, is taken by the reader of the
\* other side, with no exception, whichever setters, readers and changes in place
\* came before: but for an error that was changed in place into what the setter
\* refuses, and for a payload whose dict was changed in place.
WrittenIsRead ==
  \A o \in Objects \ altered :
    /\ text[o] # Nothing /\ Intact(o) => Accepts(kind[o], text[o])
    /\ kind[o] = "error" /\ ~modified[o] => Accepts("error", Dump(payload[o]))
=============================================================================
