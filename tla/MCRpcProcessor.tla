--------------------------- MODULE MCRpcProcessor ---------------------------
(* Instances of RpcProcessor for TLC. *)
EXTENDS RpcProcessor

CONSTANTS garbage, malformed, none, raised

\* Functions are named for what they do.  "override" has the name of another one.
\* Three have a signature that is wrong of them, or none: a decorator that takes any
\* parameters and raises a TypeError, one that takes none of those that are sent,
\* and a function that inspect knows nothing of.
Bodies == {"value", "shared", "object", "raises", "type_error", "exits"}
Unlike == {"open", "narrow", "unsigned"}
MCFunctions == Bodies \cup Unlike \cup {"override"}
MCNameOf == [f \in MCFunctions |-> IF f = "override" THEN "value" ELSE f]
MCBehaviour ==
  [f \in MCFunctions |-> CASE f = "override" -> "raises"
                           [] f = "narrow" -> "value"
                           [] f \in {"open", "unsigned"} -> "type_error"
                           [] OTHER -> f]

\* No function has the name "get".
MethodNames == Bodies \cup Unlike \cup {"get"}
NotAll == (Bodies \ {"raises"}) \cup Unlike

\* "misfit" and "funcMisfit" fit no signature; the last three have a parameter of
\* that name.
MCNamesIn == [plain |-> {}, misfit |-> {}, method |-> {"method"}, func |-> {"func"},
              funcMisfit |-> {"func"}]
MCBinds == (MCFunctions \ {"unsigned"}) \X {"plain", "method", "func"}
MCFits == ((MCFunctions \ Unlike) \X {"plain", "method", "func"})
            \cup ({"open"} \X DOMAIN MCNamesIn) \cup {<<"unsigned", "plain">>}

Call(id, method, params) == [id |-> id, method |-> method, params |-> params]
Single(r) == [batch |-> FALSE, items |-> <<r>>]
Batch(s) == [batch |-> TRUE, items |-> s]

\* Every request there is, alone.
AllSingle ==
  {Single(Call(id, m, p)) : id \in {1, none}, m \in MethodNames, p \in DOMAIN MCNamesIn}

\* Batches of two requests.
Requests1 == {Call(id, m, "plain") : id \in {1, none}, m \in MethodNames \ Unlike}
               \cup {Call(id, "value", p) : id \in {1, none}, p \in DOMAIN MCNamesIn}
Requests2 == {[r EXCEPT !.id = IF @ = 1 THEN 2 ELSE @] : r \in Requests1}
Pairs == {Batch(<<a, b>>) : a \in Requests1, b \in Requests2}
Broken == {garbage, Batch(<<>>), Single(malformed), Batch(<<malformed>>),
           Batch(<<Call(1, "value", "plain"), malformed>>)}

\* Batches of three, of which two return the shared object.
Triples ==
  {Batch(<<Call(1, "shared", "plain"), x, Call(3, "shared", "plain")>>) :
     x \in {Call(2, "shared", "plain"), Call(none, "shared", "plain"),
            Call(2, "raises", "plain"), Call(2, "get", "plain")}}

\* One thread is given everything, the other changes the shared object.
TwoTexts ==
  [t \in Threads |-> IF t = "t1" THEN AllSingle \cup Pairs \cup Triples \cup Broken
                     ELSE {Single(Call(1, "shared", "plain"))}]
=============================================================================
