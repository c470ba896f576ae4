SPECIFICATION Spec
CONSTANTS
  c1 = c1
  c2 = c2
  c3 = c3
  restart = restart
  reload = reload
  pipeline = pipeline
  word = word
  Calls = {c1, c2, c3}
  Cancellable = {}
  Droppable = {}
  Commands = {restart}
  GrantOf <- MCGrantOf
  NoWord = NoWord
  NoCall = NoCall
  NoRequest = NoRequest
SYMMETRY CallSymmetry
INVARIANTS OneRunPerYes ExclusiveLock BusyHasOwner QuestionHasWaiter
\* Calls end and sessions close: the system may stop.
CHECK_DEADLOCK FALSE
