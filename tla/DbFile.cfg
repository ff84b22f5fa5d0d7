SPECIFICATION Spec
CONSTANTS
  Procs = {"writer", "reader"}
  Commands <- MCCommands
  Chunks = 2
  LockTries = 2
  MaxCounter = 2
  MaxFaults = 2
INVARIANTS TypeOK OneFault ReadGood
PROPERTY IsStore
