SPECIFICATION Spec
CONSTANTS
  Ops = {o1}
  Readers = {r1}
  Isolates = {i1}
  Kinds = {"enable", "disable"}
  First = First
  None = None
INVARIANT HotIsolateIsCurrent
\* The operation is the only one.
CHECK_DEADLOCK FALSE
