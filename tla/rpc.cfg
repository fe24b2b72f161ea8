CONSTANTS
  o1 = o1
  c1 = c1  c2 = c2
  empty = empty  partial = partial  complete = complete  object = object
  five = five  none = none
  blank = blank  sum = sum  reserved = reserved
  code = code  message = message  nothing = nothing
  Contents = {empty, partial, complete, object}
  Empty = empty
  Undumpable = {object}
  Complete = {complete}
  Falsy = {blank, none}
  None = none
  Nothing = nothing
  Values <- MemberValues
  Refused = {reserved}
  Objects = {o1}
  Cells = {c1, c2}
SPECIFICATION Spec
INVARIANTS TypeOK TextTrue PayloadTrue WrittenIsRead
SYMMETRY CellSymmetry
