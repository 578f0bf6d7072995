SPECIFICATION Spec
CONSTANTS
  flash = flash
  card = card
  NoApp = NoApp
  Apps = {flash, card}
  OnCard = {card}
  Background = {flash, card}
  MaxId = 2
  MaxCards = 1
  MaxJobs = 1
INVARIANT
  GateHolds
