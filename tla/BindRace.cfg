SPECIFICATION BindSpec
CONSTANTS
  Daemons = {d1, d2}
  Nobody = Nobody
  Stale = Stale
  MaxStarts = 3
PROPERTY ReclaimedOnlyWhenSilent
CHECK_DEADLOCK FALSE
