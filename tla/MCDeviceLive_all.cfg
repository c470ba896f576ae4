SPECIFICATION MCSpec
CONSTANTS
  c1 = c1
  c2 = c2
  c3 = c3
  restart = restart
  reload = reload
  pipeline = pipeline
  word = word
  Calls = {c1, c2}
  Cancellable = {c1}
  Droppable = {}
  Commands = {restart}
  GrantOf <- MCGrantOf
  NoWord = NoWord
  NoCall = NoCall
  NoRequest = NoRequest
  e1 = e1
  e2 = e2
  e3 = e3
  e4 = e4
  Runs = {e1, e2, e3, e4}
  Background = {e3, e4}
  Lines <- MCLines
  Cap = 15
  TrayEvery = 7
  Misses = 5
  MinGap = 10
  Swap = 3
  MaxChains = 2
  MaxFalls = 2
INVARIANTS RowIsCurrent DoneIsItsOwn WaitPageIsAlive
PROPERTIES EveryCallAnswered LockIsReturned JobsClose SwapIsLeftAlone WindowRecovers
\* Calls end and sessions close: the system may stop.
CHECK_DEADLOCK FALSE
