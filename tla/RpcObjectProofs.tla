-------------------------- MODULE RpcObjectProofs --------------------------
(***************************************************************************)
(* The properties of RpcObject, for any objects, lists, dicts and values:  *)
(* a cached payload that nobody altered agrees with the fields member by   *)
(* member, and a text is such a payload, dumped.                           *)
(***************************************************************************)
EXTENDS RpcObject, TLAPS

-----------------------------------------------------------------------------
(* Payloads.                                                               *)

\* A payload that has what its class needs.
Shaped(k, p) ==
  /\ p = [m \in DOMAIN p |-> p[m]]
  /\ Required(k) \subseteq DOMAIN p /\ DOMAIN p \subseteq MembersOf(k)
  /\ \A m \in DOMAIN p : p[m] \in Sort(m)
  /\ k = "response" => /\ ("error" \in DOMAIN p) # ("result" \in DOMAIN p)
                       /\ "error" \in DOMAIN p => p["error"] # None

\* Why a payload of o may not tell the member m.
Excused(o, m) ==
  \/ m = "id" /\ kind[o] = "request" /\ fields[o][m] \in Falsy
  \/ m \in References /\ Empty \in held[o][m]
  \/ m = "result" /\ fields[o]["error"] # None

\* A payload that agrees with the fields of o.
Telling(o, p) ==
  \A m \in MembersOf(kind[o]) :
    Get(p, m) = fields[o][m] \/ (Get(p, m) = None /\ Excused(o, m))

Agrees(o) ==
  /\ \A m \in ReferencesOf(o) : Dumped(fields[o][m]) \in held[o][m]
  /\ ~modified[o] /\ o \notin altered => Shaped(kind[o], payload[o])
  /\ ~modified[o] /\ o \notin late \cup altered => Telling(o, payload[o])
  /\ modified[o] \/ kind[o] = "error" => text[o] = Nothing
  /\ text[o] # Nothing /\ o \notin altered =>
       /\ Intact(o) => Accepts(kind[o], text[o])
       /\ \A m \in MembersOf(kind[o]) : Says(o, text[o], m)

IInv == TypeOK /\ \A o \in Objects : Agrees(o)

LEMMA MemberFacts ==
  ASSUME NEW k \in Kinds
  PROVE  /\ Required(k) \subseteq MembersOf(k)
         /\ MembersOf(k) \ References \subseteq DOMAIN Values
         /\ \A m \in MembersOf(k) \ (References \cup Required(k)) : m = "id"
         /\ MembersOf(k) = CASE k = "request" -> {"id", "method", "params"}
                             [] k = "response" -> {"id", "error", "result"}
                             [] k = "error" -> {"code", "message", "data"}
  <1>1. CASE k = "request"
    BY <1>1, ValuesAssumption DEF MembersOf, Scalars, Body, References, Required
  <1>2. CASE k = "response"
    BY <1>2, ValuesAssumption DEF MembersOf, Scalars, Body, References, Required
  <1>3. CASE k = "error"
    BY <1>3, ValuesAssumption DEF MembersOf, Scalars, Body, References, Required
  <1>4. QED
    BY <1>1, <1>2, <1>3 DEF Kinds

\* What is no list and no dict, JSON has as it is.
LEMMA ValueFacts ==
  ASSUME NEW k \in Kinds, NEW m \in MembersOf(k), heap \in [Cells -> Contents],
         NEW v \in Sort(m)
  PROVE  /\ Dumped(v) \in InJson(m)
         /\ m \notin References => v \notin Cells /\ Dumped(v) = v /\ v # Empty
         /\ m \in References => v \in Cells \cup {None} /\ Dumped(v) \in Contents \cup {None}
         /\ Dumped(v) = None => v = None
  <1>1. CASE m \in References
    <2>1. v \in Cells \cup {None} /\ InJson(m) = Contents \cup {None}
      BY <1>1 DEF Sort, InJson
    <2>2. QED
      BY <1>1, <2>1, ContentsAssumption DEF Dumped
  <1>2. CASE m \notin References
    <2>1. v \in Values[m] /\ InJson(m) = Sort(m)
      BY <1>2 DEF Sort, InJson
    <2>2. m \in DOMAIN Values
      BY <1>2, MemberFacts
    <2>3. v \notin Cells \cup Contents
      BY <2>1, <2>2, ValuesAssumption
    <2>4. QED
      BY <1>2, <2>1, <2>3, ContentsAssumption DEF Dumped
  <1>3. QED
    BY <1>1, <1>2

LEMMA ObjectFacts ==
  ASSUME TypeOK, NEW o \in Objects
  PROVE  /\ kind[o] \in Kinds /\ heap \in [Cells -> Contents]
         /\ DOMAIN fields[o] = MembersOf(kind[o])
         /\ \A m \in MembersOf(kind[o]) : fields[o][m] \in Sort(m)
         /\ payload[o] \in Payloads[kind[o]]
         /\ held[o] \in [ReferencesOf(o) -> SUBSET (Contents \cup {None})]
  BY DEF TypeOK

LEMMA PayloadFacts ==
  ASSUME NEW k \in Kinds, NEW p
  PROVE  p \in Payloads[k] <=> /\ p = [m \in DOMAIN p |-> p[m]]
                               /\ DOMAIN p \subseteq MembersOf(k)
                               /\ \A m \in DOMAIN p : p[m] \in Sort(m)
  <1>1. ASSUME p \in Payloads[k]
        PROVE  /\ p = [m \in DOMAIN p |-> p[m]]
               /\ DOMAIN p \subseteq MembersOf(k)
               /\ \A m \in DOMAIN p : p[m] \in Sort(m)
    <2>1. PICK S \in SUBSET MembersOf(k) : p \in [S -> UNION {Sort(m) : m \in S}]
      BY <1>1 DEF Payloads
    <2>2. QED
      BY <1>1, <2>1 DEF Payloads
  <1>2. ASSUME p = [m \in DOMAIN p |-> p[m]], DOMAIN p \subseteq MembersOf(k),
               \A m \in DOMAIN p : p[m] \in Sort(m)
        PROVE  p \in Payloads[k]
    <2>1. p \in [DOMAIN p -> UNION {Sort(m) : m \in DOMAIN p}]
      BY <1>2
    <2>2. QED
      BY <1>2, <2>1 DEF Payloads
  <1>3. QED
    BY <1>1, <1>2

\* A payload of which a member is removed is a payload, of the class perhaps no more.
LEMMA PayloadWithout ==
  ASSUME NEW k \in Kinds, NEW p \in Payloads[k], NEW m
  PROVE  [n \in DOMAIN p \ {m} |-> p[n]] \in Payloads[k]
  BY PayloadFacts

LEMMA EmptyPayload ==
  ASSUME NEW k \in Kinds
  PROVE  [m \in {} |-> None] \in Payloads[k]
  BY PayloadFacts

LEMMA DumpTyped ==
  ASSUME NEW k \in Kinds, NEW p \in Payloads[k], heap \in [Cells -> Contents]
  PROVE  Dump(p) \in Texts(k)
  <1>1. DOMAIN p \in SUBSET MembersOf(k) /\ \A m \in DOMAIN p : p[m] \in Sort(m)
    BY PayloadFacts
  <1>2. \A m \in DOMAIN p : Dumped(p[m]) \in UNION {InJson(n) : n \in MembersOf(k)}
    BY <1>1, ValueFacts
  <1>3. Dump(p) \in [DOMAIN p -> UNION {InJson(m) : m \in MembersOf(k)}]
    BY <1>2 DEF Dump
  <1>4. QED
    BY <1>1, <1>3 DEF Texts

\* What is written of a payload is read, when its error has a code and a message.
LEMMA DumpAccepted ==
  ASSUME NEW k \in Kinds, NEW p, Shaped(k, p), heap \in [Cells -> Contents],
         k = "response" /\ "error" \in DOMAIN p => Dumped(p["error"]) \in Complete
  PROVE  Accepts(k, Dump(p))
  <1>1. DOMAIN Dump(p) = DOMAIN p /\ \A m \in DOMAIN p : Dump(p)[m] = Dumped(p[m])
    BY DEF Dump
  <1>2. \A m \in DOMAIN p : Dumped(p[m]) \in InJson(m)
    BY ValueFacts DEF Shaped
  <1>3. Formed(k, Dump(p))
    BY <1>1 DEF Shaped, Formed
  <1>4. \A m \in DOMAIN Dump(p) \cap MembersOf(k) : Dump(p)[m] \in InJson(m)
    BY <1>1, <1>2
  <1>5. k = "response" /\ "error" \in DOMAIN Dump(p) => Dump(p)["error"] \in Complete
    BY <1>1
  <1>6. QED
    BY <1>3, <1>4, <1>5 DEF Accepts

\* The error a payload tells is that of the object.
LEMMA ErrorIntact ==
  ASSUME TypeOK, NEW o \in Objects, Agrees(o), Intact(o), NEW p,
         Shaped(kind[o], p), Telling(o, p), kind[o] = "response", "error" \in DOMAIN p
  PROVE  Dumped(p["error"]) \in Complete
  <1>1. /\ "error" \in MembersOf(kind[o]) /\ "error" \in ReferencesOf(o)
        /\ kind[o] \in Kinds /\ heap \in [Cells -> Contents]
    <2>1. kind[o] \in Kinds /\ heap \in [Cells -> Contents]
      BY ObjectFacts
    <2>2. "error" \in MembersOf(kind[o])
      BY DEF MembersOf, Scalars
    <2>3. QED
      BY <2>1, <2>2 DEF ReferencesOf, References
  <1>2. p["error"] # None /\ p["error"] \in Sort("error") /\ Get(p, "error") = p["error"]
    BY DEF Shaped, Get
  <1>3. p["error"] = fields[o]["error"]
    BY <1>1, <1>2 DEF Telling
  <1>4. Dumped(p["error"]) \in Complete \cup {None}
    BY <1>1, <1>3 DEF Agrees, Intact
  <1>5. QED
    BY <1>1, <1>2, <1>4, ValueFacts

\* A payload that is dumped tells of the fields what the payload tells.
LEMMA DumpSays ==
  ASSUME TypeOK, NEW o \in Objects, Agrees(o), NEW p, Shaped(kind[o], p), Telling(o, p),
         NEW m \in MembersOf(kind[o])
  PROVE  Says(o, Dump(p), m)
  <1>1. /\ kind[o] \in Kinds /\ heap \in [Cells -> Contents] /\ fields[o][m] \in Sort(m)
        /\ m \in References => Dumped(fields[o][m]) \in held[o][m]
    BY ObjectFacts DEF Agrees, ReferencesOf
  <1>2. Get(Dump(p), m) = Dumped(Get(p, m))
    BY ContentsAssumption DEF Get, Dump, Dumped
  <1>3. CASE Get(p, m) = fields[o][m]
    <2>1. m \notin References => Dumped(fields[o][m]) = fields[o][m]
      BY <1>1, ValueFacts
    <2>2. QED
      BY <1>1, <1>2, <1>3, <2>1 DEF Says
  <1>4. CASE Get(p, m) = None /\ Excused(o, m)
    <2>1. Dumped(None) = None
      BY ContentsAssumption DEF Dumped
    <2>2. QED
      BY <1>2, <1>4, <2>1 DEF Says, Excused
  <1>5. QED
    BY <1>3, <1>4 DEF Telling

\* What the property payload makes of the fields.
LEMMA BuildFacts ==
  ASSUME TypeOK, NEW o \in Objects, Agrees(o)
  PROVE  Shaped(kind[o], Build(o)) /\ Telling(o, Build(o))
  <1> DEFINE k == kind[o]
             p == Build(o)
  <1>1. /\ k \in Kinds /\ heap \in [Cells -> Contents]
        /\ \A m \in MembersOf(k) : fields[o][m] \in Sort(m)
        /\ \A m \in MembersOf(k) \cap References : Dumped(fields[o][m]) \in held[o][m]
    BY ObjectFacts DEF Agrees, ReferencesOf
  <1>2. /\ DOMAIN p = Told(o) /\ Told(o) \subseteq MembersOf(k)
        /\ \A m \in Told(o) : p[m] = fields[o][m]
        /\ p = [m \in DOMAIN p |-> p[m]]
    BY DEF Build, Told
  <1>3. Required(k) \subseteq Told(o)
    BY <1>1 DEF Required, Told, MembersOf, Scalars, Kinds
  <1>4. k = "response" =>
          /\ "error" \in Told(o) <=> Truthy(fields[o]["error"])
          /\ "result" \in Told(o) <=> ~Truthy(fields[o]["error"])
    BY DEF Told, MembersOf, Scalars, Body
  <1>5. ~Truthy(None)
    BY ValuesAssumption DEF Truthy
  <1>6. Shaped(k, p)
    BY <1>1, <1>2, <1>3, <1>4, <1>5 DEF Shaped
  <1>7. ASSUME NEW m \in MembersOf(k)
        PROVE  Get(p, m) = fields[o][m] \/ (Get(p, m) = None /\ Excused(o, m))
    <2>1. CASE m \in Told(o)
      BY <1>2, <2>1 DEF Get
    <2>2. CASE m \notin Told(o)
      <3>1. Get(p, m) = None
        BY <1>2, <2>2 DEF Get
      <3>2. fields[o][m] = None \/ Excused(o, m)
        <4>1. CASE m \in References /\ ~Truthy(fields[o][m])
          <5>1. fields[o][m] \in Cells \cup {None}
            BY <1>1, <4>1, ValueFacts
          <5>2. CASE fields[o][m] \in Cells
            <6>1. fields[o][m] \notin Falsy
              BY <5>2, ValuesAssumption
            <6>2. Empty \in held[o][m]
              BY <1>1, <4>1, <6>1 DEF Truthy
            <6>3. QED
              BY <4>1, <6>2 DEF Excused
          <5>3. QED
            BY <5>1, <5>2
        <4>2. CASE m = "id" /\ k = "request" /\ ~Truthy(fields[o][m])
          <5>1. m \notin References
            BY <4>2 DEF References
          <5>2. Dumped(fields[o][m]) # Empty
            BY <1>1, <5>1, ValueFacts
          <5>3. QED
            BY <4>2, <5>2 DEF Truthy, Excused
        <4>3. CASE m = "result" /\ k = "response" /\ Truthy(fields[o]["error"])
          BY <1>5, <4>3 DEF Excused
        <4>4. \/ m \in References /\ ~Truthy(fields[o][m])
              \/ m = "id" /\ k = "request" /\ ~Truthy(fields[o][m])
              \/ m = "result" /\ k = "response" /\ Truthy(fields[o]["error"])
          BY <1>1, <2>2 DEF Told, MembersOf, Scalars, Body, Kinds, References
        <4>5. QED
          BY <4>1, <4>2, <4>3, <4>4
      <3>3. QED
        BY <3>1, <3>2
    <2>3. QED
      BY <2>1, <2>2
  <1>8. QED
    BY <1>6, <1>7 DEF Telling

-----------------------------------------------------------------------------
(* The steps.                                                              *)

\* An object of which nothing changes but that a list or a dict of it may hold one
\* more thing.
LEMMA AgreesStays ==
  ASSUME NEW o, Agrees(o),
         kind'[o] = kind[o], fields'[o] = fields[o], modified'[o] = modified[o],
         payload'[o] = payload[o], text'[o] = text[o],
         o \in late' <=> o \in late, o \in altered' <=> o \in altered,
         \A m \in ReferencesOf(o) : held[o][m] \subseteq held'[o][m],
         \A m \in ReferencesOf(o) : Dumped(fields[o][m])' \in held'[o][m]
  PROVE  Agrees(o)'
  <1>1. Shaped(kind[o], payload[o])' <=> Shaped(kind[o], payload[o])
    OBVIOUS
  <1>2. ASSUME NEW m \in MembersOf(kind[o]), Excused(o, m) PROVE Excused(o, m)'
    BY <1>2 DEF Excused, ReferencesOf
  <1>3. Telling(o, payload[o]) => Telling(o, payload[o])'
    BY <1>2 DEF Telling
  <1>4. \A m \in MembersOf(kind[o]) : Says(o, text[o], m) => Says(o, text[o], m)'
    BY DEF Says, ReferencesOf
  <1>5. Accepts(kind[o], text[o])' <=> Accepts(kind[o], text[o])
    OBVIOUS
  <1>6. Intact(o)' => Intact(o)
    BY DEF Intact, ReferencesOf, References, MembersOf, Scalars
  <1>7. (\A m \in ReferencesOf(o) : Dumped(fields[o][m]) \in held[o][m])'
    BY DEF ReferencesOf
  <1>8. QED
    BY <1>1, <1>3, <1>4, <1>5, <1>6, <1>7 DEF Agrees

\* The objects other than o, when o alone is assigned, read, asked or told.
LEMMA BystandersAgree ==
  ASSUME IInv, NEW o, NEW p \in Objects, p # o, kind' = kind,
         \A m \in ReferencesOf(p) : Dumped(fields[p][m])' = Dumped(fields[p][m]),
         fields'[p] = fields[p], modified'[p] = modified[p], payload'[p] = payload[p],
         text'[p] = text[p], held'[p] = held[p], p \in late' <=> p \in late,
         p \in altered' <=> p \in altered
  PROVE  Agrees(p)'
  <1>1. Agrees(p)
    BY DEF IInv
  <1>2. \A m \in ReferencesOf(p) : Dumped(fields[p][m])' \in held'[p][m]
    BY <1>1 DEF Agrees
  <1>3. QED
    BY <1>1, <1>2, AgreesStays

\* What a setter takes is of the sort of the member.
LEMMA AssignableSort ==
  \A m : Assignable(m) \subseteq Sort(m)
  BY DEF Assignable, Sort, References

\* A setter; of an error, an attribute.
LEMMA AssignStep ==
  ASSUME IInv, NEW o \in Objects, NEW m \in MembersOf(kind[o]), Assign(o, m)
  PROVE  IInv'
  <1> DEFINE k == kind[o]
  <1>1. PICK v \in Assignable(m) :
          /\ fields' = [fields EXCEPT ![o][m] = v]
          /\ held' = IF m \in References THEN [held EXCEPT ![o][m] = {Dumped(v)}] ELSE held
          /\ IF k = "error"
             THEN /\ UNCHANGED <<modified, text>>
                  /\ late' = IF modified[o] THEN late ELSE late \cup {o}
             ELSE Invalidate(o) /\ UNCHANGED late
          /\ UNCHANGED <<kind, heap, payload, altered>>
    BY DEF Assign
  <1>2. /\ TypeOK /\ k \in Kinds /\ heap \in [Cells -> Contents] /\ Agrees(o)
        /\ DOMAIN fields = Objects /\ DOMAIN fields[o] = MembersOf(k) /\ DOMAIN text = Objects
        /\ modified \in [Objects -> BOOLEAN] /\ DOMAIN held = Objects
        /\ held[o] \in [ReferencesOf(o) -> SUBSET (Contents \cup {None})]
        /\ v \in Sort(m)
    BY AssignableSort DEF IInv, TypeOK
  <1>3. /\ DOMAIN fields' = Objects /\ DOMAIN fields'[o] = MembersOf(k) /\ fields'[o][m] = v
        /\ \A n \in MembersOf(k) : n # m => fields'[o][n] = fields[o][n]
        /\ \A p \in Objects : p # o => fields'[p] = fields[p]
    BY <1>1, <1>2
  <1>4. m \in References => Dumped(v) \in Contents \cup {None}
    BY <1>2, ValueFacts
  <1>5. /\ DOMAIN held' = Objects
        /\ held'[o] \in [ReferencesOf(o) -> SUBSET (Contents \cup {None})]
        /\ \A p \in Objects : p # o => held'[p] = held[p]
        /\ \A n \in ReferencesOf(o) : held'[o][n] = IF n = m THEN {Dumped(v)} ELSE held[o][n]
    BY <1>1, <1>2, <1>4 DEF ReferencesOf
  <1>6. /\ modified' \in [Objects -> BOOLEAN] /\ DOMAIN text' = Objects
        /\ k # "error" => modified'[o] /\ text'[o] = Nothing
        /\ k = "error" => UNCHANGED <<modified, text>>
        /\ \A p \in Objects : p # o => modified'[p] = modified[p] /\ text'[p] = text[p]
    BY <1>1, <1>2 DEF Invalidate
  <1>7. /\ late' \subseteq {p \in Objects : kind[p] = "error"}
        /\ \A p \in Objects : p # o => (p \in late' <=> p \in late)
    BY <1>1, <1>2 DEF TypeOK
  <1>8. TypeOK'
    <2>1. \A p \in Objects : text'[p] \in {text[p], Nothing}
      BY <1>2, <1>6 DEF Kinds
    <2>2. ASSUME NEW p \in Objects
          PROVE  /\ DOMAIN fields'[p] = MembersOf(kind[p])
                 /\ \A n \in MembersOf(kind[p]) : fields'[p][n] \in Sort(n)
                 /\ held'[p] \in [ReferencesOf(p) -> SUBSET (Contents \cup {None})]
      <3>1. CASE p = o
        BY <1>2, <1>3, <1>5, <3>1, ObjectFacts
      <3>2. CASE p # o
        BY <1>2, <1>3, <1>5, <3>2, ObjectFacts
      <3>3. QED
        BY <3>1, <3>2
    <2>3. \A p \in Objects : ReferencesOf(p)' = ReferencesOf(p)
      BY <1>1 DEF ReferencesOf
    <2>4. QED
      BY <1>1, <1>2, <1>3, <1>5, <1>6, <1>7, <2>1, <2>2, <2>3
      DEF TypeOK
  <1>9. \A x : Dumped(x)' = Dumped(x)
    BY <1>1 DEF Dumped
  <1>10. Agrees(o)'
    <2>1. (\A n \in ReferencesOf(o) : Dumped(fields[o][n]) \in held[o][n])'
      <3>1. ReferencesOf(o)' = ReferencesOf(o) /\ ReferencesOf(o) \subseteq MembersOf(k)
        BY <1>1 DEF ReferencesOf
      <3>2. ASSUME NEW n \in ReferencesOf(o)
            PROVE  Dumped(fields'[o][n]) \in held'[o][n]
        BY <1>2, <1>3, <1>5, <3>1 DEF Agrees
      <3>3. QED
        BY <1>9, <3>1, <3>2
    <2>2. CASE k # "error"
      BY <1>1, <1>6, <2>1, <2>2 DEF Agrees
    <2>3. CASE k = "error"
      <3>1. ~modified'[o] => o \in late'
        BY <1>1, <1>2, <1>6, <2>3
      <3>2. text'[o] = Nothing
        BY <1>2, <1>6, <2>3 DEF Agrees
      <3>3. Shaped(kind[o], payload[o])' <=> Shaped(kind[o], payload[o])
        BY <1>1
      <3>4. QED
        BY <1>1, <1>2, <1>6, <2>1, <2>3, <3>1, <3>2, <3>3 DEF Agrees
    <2>4. QED
      BY <2>2, <2>3
  <1>11. ASSUME NEW p \in Objects, p # o PROVE Agrees(p)'
    <2>1. \A n \in ReferencesOf(p) : Dumped(fields[p][n])' = Dumped(fields[p][n])
      BY <1>3, <1>9, <1>11
    <2>2. QED
      BY <1>1, <1>3, <1>5, <1>6, <1>7, <1>11, <2>1, BystandersAgree
  <1>12. QED
    BY <1>8, <1>10, <1>11 DEF IInv

LEMMA MutateStep ==
  ASSUME IInv, NEW c \in Cells, Mutate(c)
  PROVE  IInv'
  <1>1. PICK x \in Contents :
          /\ heap' = [heap EXCEPT ![c] = x]
          /\ held' = [o \in Objects |-> [m \in ReferencesOf(o) |->
               IF fields[o][m] = c THEN held[o][m] \cup {x} ELSE held[o][m]]]
          /\ UNCHANGED <<kind, fields, modified, payload, text, late, altered>>
    BY DEF Mutate
  <1>2. TypeOK'
    <2>1. heap' \in [Cells -> Contents] /\ DOMAIN held' = Objects
      BY <1>1 DEF IInv, TypeOK
    <2>2. ASSUME NEW o \in Objects
          PROVE  held'[o] \in [ReferencesOf(o) -> SUBSET (Contents \cup {None})]
      BY <1>1 DEF IInv, TypeOK
    <2>3. \A o \in Objects : ReferencesOf(o)' = ReferencesOf(o)
      BY <1>1 DEF ReferencesOf
    <2>4. QED
      BY <1>1, <2>1, <2>2, <2>3 DEF IInv, TypeOK
  <1>3. ASSUME NEW o \in Objects PROVE Agrees(o)'
    <2>1. Agrees(o) /\ heap \in [Cells -> Contents] /\ DOMAIN held[o] = ReferencesOf(o)
      BY DEF IInv, TypeOK
    <2>2. \A m \in ReferencesOf(o) : held[o][m] \subseteq held'[o][m]
      BY <1>1
    <2>3. ASSUME NEW m \in ReferencesOf(o)
          PROVE  Dumped(fields[o][m])' \in held'[o][m]
      <3>1. CASE fields[o][m] = c
        BY <1>1, <2>1, <3>1 DEF Dumped
      <3>2. CASE fields[o][m] # c
        BY <1>1, <2>1, <3>2 DEF Dumped, Agrees
      <3>3. QED
        BY <3>1, <3>2
    <2>4. QED
      BY <1>1, <2>1, <2>2, <2>3, AgreesStays
  <1>4. QED
    BY <1>2, <1>3 DEF IInv

\* A payload that is altered promises nothing but its sorts.
LEMMA AlterStep ==
  ASSUME IInv, NEW o \in Objects, Alter(o)
  PROVE  IInv'
  <1>1. PICK m \in DOMAIN payload[o] :
          payload' = [payload EXCEPT ![o] = [n \in DOMAIN @ \ {m} |-> @[n]]]
    BY DEF Alter
  <1>2. /\ ~modified[o] /\ altered' = altered \cup {o}
        /\ UNCHANGED <<kind, heap, fields, modified, text, held, late>>
    BY DEF Alter
  <1>3. /\ kind[o] \in Kinds /\ DOMAIN payload = Objects /\ payload[o] \in Payloads[kind[o]]
        /\ Agrees(o) /\ altered \subseteq Objects
    BY DEF IInv, TypeOK
  <1>4. /\ payload'[o] \in Payloads[kind[o]] /\ DOMAIN payload' = Objects
        /\ \A p \in Objects : p # o => payload'[p] = payload[p]
    BY <1>1, <1>3, PayloadWithout
  <1>5. \A p \in Objects : ReferencesOf(p)' = ReferencesOf(p)
    BY <1>2 DEF ReferencesOf
  <1>6. TypeOK'
    BY <1>2, <1>3, <1>4, <1>5 DEF IInv, TypeOK
  <1>7. \A x : Dumped(x)' = Dumped(x)
    BY <1>2 DEF Dumped
  <1>8. Agrees(o)'
    BY <1>2, <1>3, <1>5, <1>7 DEF Agrees
  <1>9. ASSUME NEW p \in Objects, p # o PROVE Agrees(p)'
    BY <1>2, <1>4, <1>7, <1>9, BystandersAgree
  <1>10. QED
    BY <1>6, <1>8, <1>9 DEF IInv

\* The property payload and to_json.
LEMMA TellStep ==
  ASSUME IInv, NEW o \in Objects, AskPayload(o) \/ Tell(o)
  PROVE  IInv'
  <1> DEFINE k == kind[o]
             p == Current(o)
  <1>1. /\ payload' = [payload EXCEPT ![o] = p]
        /\ modified' = [modified EXCEPT ![o] = FALSE]
        /\ UNCHANGED <<kind, heap, fields, held, late>>
        /\ altered' = IF modified[o] THEN altered \ {o} ELSE altered
        /\ \/ text' = text /\ modified[o]
           \/ /\ k # "error"
              /\ text' = [text EXCEPT ![o] = IF Dumpable(p) THEN Dump(p) ELSE Nothing]
    BY DEF AskPayload, Tell
  <1>2. /\ TypeOK /\ k \in Kinds /\ heap \in [Cells -> Contents] /\ Agrees(o)
        /\ DOMAIN payload = Objects /\ DOMAIN text = Objects
        /\ modified \in [Objects -> BOOLEAN] /\ altered \subseteq Objects
        /\ late \subseteq {q \in Objects : kind[q] = "error"}
        /\ payload[o] \in Payloads[k]
    BY DEF IInv, TypeOK
  <1>3. o \notin altered' => Shaped(k, p)
    BY <1>1, <1>2, BuildFacts DEF Current, Agrees
  <1>4. o \notin late \cup altered' => Telling(o, p)
    BY <1>1, <1>2, BuildFacts DEF Current, Agrees
  <1>5. p \in Payloads[k] /\ Dump(p) \in Texts(k)
    <2>1. Shaped(k, Build(o))
      BY <1>2, BuildFacts
    <2>2. p \in Payloads[k]
      BY <1>2, <2>1, PayloadFacts DEF Current, Shaped
    <2>3. QED
      BY <1>2, <2>2, DumpTyped
  <1>6. k # "error" /\ o \notin altered' =>
          /\ Intact(o) => Accepts(k, Dump(p))
          /\ \A m \in MembersOf(k) : Says(o, Dump(p), m)
    <2>1. SUFFICES ASSUME k # "error", o \notin altered'
                   PROVE  /\ Intact(o) => Accepts(k, Dump(p))
                          /\ \A m \in MembersOf(k) : Says(o, Dump(p), m)
      OBVIOUS
    <2>2. Shaped(k, p) /\ Telling(o, p)
      BY <1>2, <1>3, <1>4, <2>1
    <2>3. ASSUME Intact(o) PROVE Accepts(k, Dump(p))
      BY <1>2, <2>2, <2>3, ErrorIntact, DumpAccepted
    <2>4. QED
      BY <1>2, <2>2, <2>3, DumpSays
  <1> HIDE DEF p
  <1>7. /\ DOMAIN payload' = Objects /\ DOMAIN text' = Objects
        /\ payload'[o] = p /\ ~modified'[o] /\ modified' \in [Objects -> BOOLEAN]
        /\ text'[o] = Nothing \/ (k # "error" /\ text'[o] = Dump(p))
        /\ \A q \in Objects : q # o =>
             /\ payload'[q] = payload[q] /\ text'[q] = text[q] /\ modified'[q] = modified[q]
             /\ q \in altered' <=> q \in altered
    BY <1>1, <1>2 DEF Agrees
  <1>8. \A q \in Objects : ReferencesOf(q)' = ReferencesOf(q)
    BY <1>1 DEF ReferencesOf
  <1>9. \A x : Dumped(x)' = Dumped(x)
    BY <1>1 DEF Dumped
  <1>10. TypeOK'
    <2>1. ASSUME NEW q \in Objects
          PROVE  payload'[q] \in Payloads[kind[q]] /\ text'[q] \in Texts(kind[q]) \cup {Nothing}
      BY <1>2, <1>5, <1>7 DEF TypeOK
    <2>2. altered' \subseteq Objects
      BY <1>1, <1>2
    <2>3. QED
      BY <1>1, <1>2, <1>7, <1>8, <2>1, <2>2 DEF TypeOK
  <1>11. Agrees(o)'
    <2>1. (\A m \in ReferencesOf(o) : Dumped(fields[o][m]) \in held[o][m])'
      BY <1>1, <1>2, <1>8, <1>9 DEF Agrees
    <2>2. o \notin altered' => Shaped(kind[o], payload[o])'
      BY <1>1, <1>3, <1>7
    <2>3. o \notin late' \cup altered' => Telling(o, payload[o])'
      BY <1>1, <1>4, <1>7 DEF Telling, Excused
    <2>4. text'[o] # Nothing /\ o \notin altered' =>
            /\ Intact(o)' => Accepts(kind[o], text[o])'
            /\ (\A m \in MembersOf(kind[o]) : Says(o, text[o], m))'
      BY <1>1, <1>6, <1>7 DEF Intact, Says
    <2>5. (modified[o] \/ kind[o] = "error" => text[o] = Nothing)'
      BY <1>1, <1>7
    <2>6. QED
      BY <2>1, <2>2, <2>3, <2>4, <2>5 DEF Agrees
  <1>12. ASSUME NEW q \in Objects, q # o PROVE Agrees(q)'
    BY <1>1, <1>7, <1>9, <1>12, BystandersAgree
  <1>13. QED
    BY <1>10, <1>11, <1>12 DEF IInv

\* What is read of a payload that its class has.
LEMMA ReadFacts ==
  ASSUME NEW k \in Kinds, NEW p \in FormedPayloads[k]
  PROVE  /\ p \in Payloads[k] /\ Formed(k, p)
         /\ \A m \in MembersOf(k) : Get(p, m) \in Sort(m)
  <1>1. p \in Payloads[k] /\ Formed(k, p)
    BY DEF FormedPayloads
  <1>2. ASSUME NEW m \in MembersOf(k) PROVE Get(p, m) \in Sort(m)
    <2>1. CASE m \in DOMAIN p
      BY <1>1, <2>1, PayloadFacts DEF Get
    <2>2. CASE m \notin DOMAIN p
      <3>1. Get(p, m) = None /\ m \notin Required(k)
        BY <1>1, <2>2 DEF Get, Formed
      <3>2. m \in References \/ m = "id"
        BY <3>1, MemberFacts
      <3>3. QED
        BY <3>1, <3>2, ValuesAssumption DEF Sort, References
    <2>3. QED
      BY <2>1, <2>2
  <1>3. QED
    BY <1>1, <1>2

\* from_payload and from_json: no other object sees what is read.
LEMMA BecomeStep ==
  ASSUME IInv, NEW o \in Objects, NEW p \in FormedPayloads[kind[o]], Become(o, p),
         heap' \in [Cells -> Contents],
         \A q \in Objects \ {o} : \A m \in ReferencesOf(q) :
           fields[q][m] \in Cells => heap'[fields[q][m]] = heap[fields[q][m]]
  PROVE  IInv'
  <1> DEFINE k == kind[o]
             kept == k # "error"
  <1>1. /\ UNCHANGED kind
        /\ Accepts(k, Dump(p))'
        /\ fields' = [fields EXCEPT ![o] = [m \in MembersOf(k) |-> Get(p, m)]]
        /\ modified' = [modified EXCEPT ![o] = ~kept]
        /\ payload' = [payload EXCEPT ![o] = IF kept THEN p ELSE [m \in {} |-> None]]
        /\ text' = [text EXCEPT ![o] = Nothing]
        /\ held' = [held EXCEPT ![o] = Contained(o)']
        /\ late' = late \ {o} /\ altered' = altered \ {o}
    BY DEF Become
  <1>2. /\ TypeOK /\ k \in Kinds /\ DOMAIN fields = Objects /\ DOMAIN payload = Objects
        /\ DOMAIN text = Objects /\ DOMAIN held = Objects
        /\ modified \in [Objects -> BOOLEAN] /\ altered \subseteq Objects
        /\ late \subseteq {q \in Objects : kind[q] = "error"}
    BY DEF IInv, TypeOK
  <1>3. /\ p \in Payloads[k] /\ Formed(k, p)
        /\ \A m \in MembersOf(k) : Get(p, m) \in Sort(m)
    BY <1>2, ReadFacts
  <1>4. /\ DOMAIN fields' = Objects /\ DOMAIN payload' = Objects /\ DOMAIN text' = Objects
        /\ DOMAIN held' = Objects
        /\ fields'[o] = [m \in MembersOf(k) |-> Get(p, m)]
        /\ payload'[o] = IF kept THEN p ELSE [m \in {} |-> None]
        /\ text'[o] = Nothing /\ held'[o] = Contained(o)'
        /\ modified'[o] <=> k = "error"
        /\ modified' \in [Objects -> BOOLEAN]
        /\ late' \subseteq {q \in Objects : kind[q] = "error"}
        /\ o \notin late' /\ o \notin altered' /\ altered' \subseteq Objects
    BY <1>1, <1>2
  <1>5. \A q \in Objects : q # o =>
          /\ fields'[q] = fields[q] /\ payload'[q] = payload[q] /\ text'[q] = text[q]
          /\ held'[q] = held[q] /\ modified'[q] = modified[q]
          /\ (q \in late' <=> q \in late) /\ (q \in altered' <=> q \in altered)
    BY <1>1, <1>2
  <1>6. \A q \in Objects : ReferencesOf(q)' = ReferencesOf(q)
    BY <1>1 DEF ReferencesOf
  <1>7. held'[o] = [m \in ReferencesOf(o) |-> {Dumped(fields[o][m])'}]
    BY <1>4, <1>6 DEF Contained
  <1>8. /\ DOMAIN fields'[o] = MembersOf(k)
        /\ \A m \in MembersOf(k) : fields'[o][m] \in Sort(m)
    BY <1>3, <1>4
  <1>9. held'[o] \in [ReferencesOf(o) -> SUBSET (Contents \cup {None})]
    <2>1. ASSUME NEW m \in ReferencesOf(o)
          PROVE  Dumped(fields[o][m])' \in Contents \cup {None}
      <3>1. fields'[o][m] \in Cells \cup {None}
        BY <1>8, <2>1 DEF ReferencesOf, Sort
      <3>2. QED
        BY <3>1 DEF Dumped
    <2>2. QED
      BY <1>7, <2>1
  <1>10. TypeOK'
    <2>1. payload'[o] \in Payloads[k]
      BY <1>2, <1>3, <1>4, EmptyPayload
    <2>2. ASSUME NEW q \in Objects
          PROVE  /\ DOMAIN fields'[q] = MembersOf(kind[q])
                 /\ \A m \in MembersOf(kind[q]) : fields'[q][m] \in Sort(m)
                 /\ payload'[q] \in Payloads[kind[q]]
                 /\ text'[q] \in Texts(kind[q]) \cup {Nothing}
                 /\ held'[q] \in [ReferencesOf(q) -> SUBSET (Contents \cup {None})]
      <3>1. CASE q = o
        BY <1>4, <1>8, <1>9, <2>1, <3>1
      <3>2. CASE q # o
        BY <1>2, <1>5, <3>2 DEF TypeOK
      <3>3. QED
        BY <3>1, <3>2
    <2>3. QED
      BY <1>1, <1>2, <1>4, <1>6, <2>2 DEF TypeOK
  <1>11. Agrees(o)'
    <2>1. (\A m \in ReferencesOf(o) : Dumped(fields[o][m]) \in held[o][m])'
      BY <1>6, <1>7
    <2>2. kept => Shaped(k, p)
      <3>1. k = "response" /\ "error" \in DOMAIN p => p["error"] # None
        <4>1. SUFFICES ASSUME k = "response", "error" \in DOMAIN p, p["error"] = None
                       PROVE  FALSE
          OBVIOUS
        <4>2. Dump(p)'["error"] = None /\ "error" \in DOMAIN Dump(p)'
          BY <4>1, ContentsAssumption DEF Dump, Dumped
        <4>3. None \in Complete
          BY <1>1, <4>1, <4>2 DEF Accepts
        <4>4. QED
          BY <4>3, ContentsAssumption
      <3>2. QED
        BY <1>2, <1>3, <3>1, PayloadFacts DEF Shaped, Formed
    <2>3. kept => Shaped(kind[o], payload[o])' /\ Telling(o, payload[o])'
      BY <1>1, <1>4, <2>2 DEF Telling
    <2>4. QED
      BY <1>1, <1>4, <2>1, <2>3 DEF Agrees
  <1>12. ASSUME NEW q \in Objects, q # o PROVE Agrees(q)'
    <2>1. \A m \in ReferencesOf(q) : Dumped(fields[q][m])' = Dumped(fields[q][m])
      BY <1>5, <1>12 DEF Dumped
    <2>2. QED
      BY <1>1, <1>5, <1>12, <2>1, BystandersAgree
  <1>13. QED
    BY <1>10, <1>11, <1>12 DEF IInv

\* from_payload leaves the lists and dicts as they are.
LEMMA FromPayloadStep ==
  ASSUME IInv, NEW o \in Objects, FromPayload(o)
  PROVE  IInv'
  <1>1. heap \in [Cells -> Contents]
    BY DEF IInv, TypeOK
  <1>2. UNCHANGED heap /\ \E p \in FormedPayloads[kind[o]] : Become(o, p)
    BY DEF FromPayload
  <1>3. QED
    BY <1>1, <1>2, BecomeStep

\* from_json makes them, so that no other object has them.
LEMMA FromJsonStep ==
  ASSUME IInv, NEW o \in Objects, FromJson(o)
  PROVE  IInv'
  <1>1. heap \in [Cells -> Contents]
    BY DEF IInv, TypeOK
  <1>2. PICK p \in FormedPayloads[kind[o]] :
          LET new == {c \in Cells : \E m \in DOMAIN p : p[m] = c} IN
          /\ \A c \in new : Unshared(o, c)
          /\ \E h \in [new -> Contents \ Undumpable] :
               heap' = [c \in Cells |-> IF c \in new THEN h[c] ELSE heap[c]]
          /\ Become(o, p)
    BY DEF FromJson
  <1> DEFINE new == {c \in Cells : \E m \in DOMAIN p : p[m] = c}
  <1>3. /\ Become(o, p) /\ \A c \in new : Unshared(o, c)
        /\ heap' \in [Cells -> Contents]
        /\ \A c \in Cells : c \notin new => heap'[c] = heap[c]
    BY <1>1, <1>2
  <1>4. \A q \in Objects \ {o} : \A m \in ReferencesOf(q) : fields[q][m] \notin new
    BY <1>3 DEF Unshared
  <1> HIDE DEF new
  <1>5. QED
    BY <1>3, <1>4, BecomeStep

LEMMA StepPreserves ==
  ASSUME IInv, [Next]_vars
  PROVE  IInv'
  <1>1. CASE Next
    BY <1>1, AssignStep, MutateStep, AlterStep, TellStep, FromPayloadStep, FromJsonStep
    DEF Next
  <1>2. CASE UNCHANGED vars
    <2>1. \A o \in Objects : ReferencesOf(o)' = ReferencesOf(o)
      BY <1>2 DEF vars, ReferencesOf
    <2>2. TypeOK'
      BY <1>2, <2>1 DEF vars, IInv, TypeOK
    <2>3. ASSUME NEW o \in Objects PROVE Agrees(o)'
      <3>1. /\ Agrees(o)
            /\ \A m \in ReferencesOf(o) : Dumped(fields[o][m])' \in held'[o][m]
        BY <1>2 DEF vars, IInv, Agrees, Dumped
      <3>2. QED
        BY <1>2, <3>1, AgreesStays DEF vars
    <2>4. QED
      BY <2>2, <2>3 DEF IInv
  <1>3. QED
    BY <1>1, <1>2

LEMMA InitHolds ==
  ASSUME Init
  PROVE  IInv
  <1>1. /\ kind \in [Objects -> Kinds] /\ heap \in [Cells -> Contents]
        /\ DOMAIN fields = Objects
        /\ \A o \in Objects : fields[o] \in Constructible(kind[o])
        /\ modified = [o \in Objects |-> TRUE]
        /\ payload = [o \in Objects |-> [m \in {} |-> None]]
        /\ text = [o \in Objects |-> Nothing]
        /\ held = [o \in Objects |-> Contained(o)]
        /\ late = {} /\ altered = {}
    BY DEF Init
  <1>2. \A o \in Objects : /\ DOMAIN fields[o] = MembersOf(kind[o])
                           /\ \A m \in MembersOf(kind[o]) : fields[o][m] \in Sort(m)
    BY <1>1, AssignableSort DEF Constructible
  <1>3. ASSUME NEW o \in Objects
        PROVE  held[o] \in [ReferencesOf(o) -> SUBSET (Contents \cup {None})]
    <2>1. \A m \in ReferencesOf(o) : Dumped(fields[o][m]) \in Contents \cup {None}
      BY <1>1, <1>2, ValueFacts DEF ReferencesOf
    <2>2. QED
      BY <1>1, <2>1 DEF Contained
  <1>4. TypeOK
    BY <1>1, <1>2, <1>3, EmptyPayload DEF TypeOK
  <1>5. \A o \in Objects : Agrees(o)
    BY <1>1 DEF Agrees, Contained
  <1>6. QED
    BY <1>4, <1>5 DEF IInv

-----------------------------------------------------------------------------
(* The theorems.                                                           *)

\* The invariant on which the rest stands: a payload that is not marked as
\* modified, and that nobody altered, has the members its class needs (lines
\* 255-279, 384-406) and agrees with the fields, and a text is a payload, dumped
\* while it agreed.
THEOREM Inductive == Spec => []IInv
  <1>1. Init => IInv
    BY InitHolds
  <1>2. IInv /\ [Next]_vars => IInv'
    BY StepPreserves
  <1>3. QED
    BY <1>1, <1>2, PTL DEF Spec

\* The sorts of the fields, the payloads and the texts.
THEOREM TypeCorrect == Spec => []TypeOK
  <1>1. IInv => TypeOK
    BY DEF IInv
  <1>2. QED
    BY <1>1, Inductive, PTL

\* A cached payload whose dict nobody changed in place never tells something else
\* than the fields, whichever setters, readers and changes of a list or a dict came
\* before.
THEOREM PayloadsTrue == Spec => []PayloadTrue
  <1>1. IInv => PayloadTrue
    <2>1. SUFFICES ASSUME IInv, NEW o \in Objects, ~modified[o], o \notin late \cup altered,
                          NEW m \in MembersOf(kind[o])
                   PROVE  Says(o, payload[o], m)
      BY DEF PayloadTrue
    <2>2. Telling(o, payload[o])
      BY <2>1 DEF IInv, Agrees
    <2>3. QED
      BY <2>2 DEF Telling, Excused, Says
  <1>2. QED
    BY <1>1, Inductive, PTL

\* A cached text of such a payload never tells something else than the fields, but
\* for a list or a dict that was changed in place.
THEOREM TextsTrue == Spec => []TextTrue
  <1>1. IInv => TextTrue
    BY DEF IInv, Agrees, TextTrue
  <1>2. QED
    BY <1>1, Inductive, PTL

\* What to_json writes of a payload that nobody altered is taken by from_json, unless
\* the error dict of the response lost its code or its message after it was
\* assigned (lines 366-376 look when it is assigned only); and what is told of an
\* error is taken by JsonRpcResponseError.from_payload.
THEOREM WrittenRead == Spec => []WrittenIsRead
  <1>1. IInv => WrittenIsRead
    <2>1. SUFFICES ASSUME IInv, NEW o \in Objects, o \notin altered
                   PROVE  /\ text[o] # Nothing /\ Intact(o) => Accepts(kind[o], text[o])
                          /\ kind[o] = "error" /\ ~modified[o] =>
                               Accepts("error", Dump(payload[o]))
      BY DEF WrittenIsRead
    <2>2. Agrees(o) /\ kind[o] \in Kinds /\ heap \in [Cells -> Contents]
      BY <2>1 DEF IInv, TypeOK
    <2>3. QED
      BY <2>1, <2>2, DumpAccepted DEF Agrees
  <1>2. QED
    BY <1>1, Inductive, PTL
=============================================================================
