SPECIFICATION Spec
CONSTANTS
  c1 = c1
  c2 = c2
  c3 = c3
  restart = restart
  reload = reload
  pipeline = pipeline
  word = word
  Calls = {c1, c2}
  Cancellable = {c1, c2}
  Droppable = {c1, c2}
  Commands = {restart, reload, pipeline}
  GrantOf <- MCGrantOf
  NoWord = NoWord
  NoCall = NoCall
  NoRequest = NoRequest
SYMMETRY CallSymmetry
INVARIANTS TypeOK Authorised
PROPERTY ImplementsOneShot
\* Calls end and sessions close: the system may stop.
CHECK_DEADLOCK FALSE
