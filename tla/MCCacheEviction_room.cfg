SPECIFICATION EvictionSpec
CONSTANTS
  big = big
  small = small
  other = other
  Models = {big, small, other}
  Size <- ModelSize
  Disk = 4
  Margin = 1
  MaxShifts = 0
INVARIANT DownloadFindsRoom
CHECK_DEADLOCK FALSE
