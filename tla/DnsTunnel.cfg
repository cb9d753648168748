\* A connection may end, and its polls are bounded.
CONSTANTS
  MaxUp = 2
  MaxDown = 2
  MaxPolls = 3
  Domains <- MCDomains
  Targets <- MCTargets
SPECIFICATION MCSpec
INVARIANTS UploadIsFaithful DownloadIsFaithful NamesFit
PROPERTIES ImplementsStream StopEndsConnection
CHECK_DEADLOCK FALSE
