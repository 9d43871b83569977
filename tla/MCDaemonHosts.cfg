SPECIFICATION Spec
CONSTANTS
  Ports <- SamePortTwoHosts
  Interval = 1
  Second = 100
  Width = 17
INVARIANT ActionsOfTheTarget
