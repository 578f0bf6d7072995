SPECIFICATION FairSpec
CONSTANTS
  reader = reader
  panel = panel
  shell1 = shell1
  text1 = text1
  NoText = NoText
  NoService = NoService
  Services = {reader}
  HasRun = {reader}
  HasUi = {reader}
  HasCommand = {reader}
  Network = {reader}
  Modules = {reader}
  OnCard = {reader}
  Shells = {shell1}
  Texts = {text1}
  MaxRevision = 5
INVARIANTS
  NoUseAfterFree
  CodeStaysLoaded
  UiCleanupAlone
  SummaryIsCurrent
PROPERTIES
  StopCompletes
CHECK_DEADLOCK FALSE
