SPECIFICATION PartsSpec
CONSTANTS
  f1 = f1
  f2 = f2
  Files = {f1, f2}
  MaxWrites = 3
  MaxSerial = 4
  c1 = c1
  c2 = c2
  Cities = {c1, c2}
  None = None
  MaxKey = 1
  MaxTicket = 2
  MaxEvents = 2
  MaxFaults = 1
  MailboxSize = 2
  ReconnectMax = 2
  MaxStackEvents = 3
  MaxSwitches = 2
  Capacity = 2
  MaxRepeat = 2
  Controls = 3
  MaxWaiting = 4
INVARIANTS
  NothingLost
  SeesItsData
  ReferencesAreHolders
  NeverMixed
  NothingForgotten
  KeysInOrder
  KeysMeetTheirSurface
PROPERTIES
  FocusAsPressed
  EveryRequestIsAnswered
  SyncFollows
CHECK_DEADLOCK FALSE
