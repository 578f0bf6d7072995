\* The network service and the time worker: three changes of the interfaces and
\* of the settings, two attempts, one refused call of the TCP/IP thread.
SPECIFICATION FairSpec
CONSTANTS
  Clients = {time, app}
  Time = time
  time = time
  app = app
  SYNC_ATTEMPTS = 2
  MaxChanges = 3
  MaxFaults = 1
INVARIANTS
  QuietMeansCurrent
  NoMissedChange
PROPERTY
  TimeSettles
CHECK_DEADLOCK FALSE
