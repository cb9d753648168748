\* A connection may end, and its polls are bounded.
CONSTANTS
  MaxUp = 1
  MaxDown = 1
  MaxPolls = 1
SPECIFICATION Spec
INVARIANT DownloadArrives
CHECK_DEADLOCK FALSE
