SPECIFICATION Spec
CONSTANTS
  a1 = a1
  a2 = a2
  NoApp = NoApp
  Apps = {a1, a2}
  MaxVersion = 2
  Release <- TwoReleases
  MaxJobs = 2
  MaxFaults = 1
  MaxOutages = 0
INVARIANT
  NoLiveModule
SYMMETRY Symmetry
CHECK_DEADLOCK FALSE
