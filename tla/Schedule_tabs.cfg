SPECIFICATION Spec
CONSTANTS
  Tabs = {t1, t2}
  Plans <- MCPlans
  Redates <- MCRedates
  Recasts <- MCRecasts
  Amounts = {5, 7}
  MaxCalls = 4
SYMMETRY Symmetry
CHECK_DEADLOCK FALSE
INVARIANT TypeOK
INVARIANT PostedOnce
PROPERTY SkippedStays
PROPERTY StepsOnCadence
PROPERTY EditKeepsCadence
