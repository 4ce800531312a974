\* One job of each kind, with one update by its monitor and one request to
\* cancel it.
SPECIFICATION FairSpec
CONSTANTS
  Links = {TRUE, FALSE}
  MaxProgress = 1
  MaxRequests = 1
INVARIANTS
  TypeOK
  OneTrueEnding
  CancelHeeded
PROPERTY
  JobSettles
CHECK_DEADLOCK FALSE
