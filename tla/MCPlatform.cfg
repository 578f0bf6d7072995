SPECIFICATION FairSpec
CONSTANTS
  flash = flash
  card = card
  NoApp = NoApp
  Apps = {flash, card}
  OnCard = {card}
  Background = {flash}
  MaxId = 2
  MaxCards = 1
  MaxJobs = 1
INVARIANTS
  AnswerMeansEmpty
PROPERTIES
  NobodyWaitsForEver
  ServicesReturn
