SPECIFICATION Spec
CONSTANTS
  e1 = e1
  Calls = {e1}
  Background = {e1}
  Lines <- MCLines
  NoCall = NoCall
INVARIANT NoJobOutlivesItsSession
\* Calls end and sessions close: the system may stop.
CHECK_DEADLOCK FALSE
