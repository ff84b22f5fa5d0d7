SPECIFICATION Spec
CONSTANTS
  Procs = {"one", "two"}
  Commands <- MCUpdates
  Chunks = 2
  LockTries = 2
  MaxCounter = 1
  MaxFaults = 1
INVARIANT OwnRecord
