SPECIFICATION MCSpec
CONSTANTS
  Problems <- MCProblems
  MaxCost = 60
  Layouts <- MCLayouts
  Wirings <- MCWirings
INVARIANTS
  SearchIsCheapest
  CompleteIsRouted
  SolvedIsLegal
  LegalStaysPut
  TunedAsAsked
  NoneLeftOut
PROPERTIES
  RegionsTile
  EveryStepShortens
  NoWorse
