---------------------------- MODULE MCRpcObject ----------------------------
(* Instances of RpcObject for TLC. *)
EXTENDS RpcObject, TLC

CONSTANTS
  o1,                            \* an object
  c1, c2,                        \* lists or dicts
  empty, partial, complete, object,   \* their contents: none, one that is no
                                      \* error, an error, and none JSON has
  five, none,                    \* identifiers
  blank, sum, reserved,          \* method names: "", one, one in "rpc."
  code, message, nothing

\* A method name that is refused, and one that is none.
MemberValues ==
  [id |-> {five, none}, method |-> {blank, sum, reserved},
   code |-> {code}, message |-> {message}]

CellSymmetry == Permutations(Cells)
=============================================================================
