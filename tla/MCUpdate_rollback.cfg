SPECIFICATION FairSpec
CONSTANTS
  rb = rb
  None = None
  Clis = {}
  Agents = {}
  Rollback = rb
  Releases = {1, 2, 3}
  LineOf <- MCLineOf
  Site = 3
  Npm = 3
  Installed = 3
  Failing = FALSE
  MaxFaults = 0
PROPERTY RollbackSwaps
\* Updates end: the system may stop.
CHECK_DEADLOCK FALSE
