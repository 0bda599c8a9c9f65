SPECIFICATION MCSpec
CONSTANTS
  Cases <- AllCases
  FwScreens <- AllFw
  RefScreens <- AllRef
  MaxCases = 3
  Records <- MCRecords
  MaxRecords = 2
  NFiles = 2
INVARIANTS SuccessMeansConformance DisagreementShows FiguresSound LoadsAllOrTells
