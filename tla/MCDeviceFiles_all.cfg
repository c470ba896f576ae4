SPECIFICATION MCSpec
CONSTANTS
  cli = cli
  agent = agent
  rb = rb
  None = None
  Clis = {cli}
  Agents = {agent}
  Rollback = rb
  Releases = {2, 3}
  LineOf <- MCLineOf
  Site = 2
  Npm = 3
  Installed = 2
  Failing = TRUE
  MaxFaults = 1
  Files <- MCFiles
  ReplacedWithin = 1
  HostTellsBoot = TRUE
  SavesMayFail = TRUE
  MaxRecords = 2
  MaxBoots = 6
INVARIANTS PartsTypeOK OneUpdateAtATime KeepsTheNewest
PROPERTIES ReleaseIsEarned PinIsEarned NoInventedExit FirstRunIsFirst HostRestartIsSeen
CONSTRAINT Apart
\* Updates end, and the starts of the history are bounded.
CHECK_DEADLOCK FALSE
