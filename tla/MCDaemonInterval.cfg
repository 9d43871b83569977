\* The default interval of config.Load, 10 * Second, scaled so that its
\* product with Second falls in the same half of the integer range as in Go.
SPECIFICATION Spec
CONSTANTS
  Ports <- ThreeEntries
  Interval = 1000
  Second = 100
  Width = 17
INVARIANT NeverPanics
