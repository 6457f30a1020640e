SPECIFICATION RestSpec
CONSTANTS
  Versions = {1, 2}
  NoState = 0
  Builds = {b1, b2}
PROPERTY UpdatedStateIsApplied
