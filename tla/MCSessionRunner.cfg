\* A session run anew or resumed, two calls of cancel_job one after the other,
\* one exception and one end of the server.
SPECIFICATION FairSpec
CONSTANTS
  Modes = {"parallel", "sequential", "resume"}
  MaxCalls = 2
  MaxFaults = 1
  MaxRestarts = 1
INVARIANTS
  TypeOK
  FreshRunsCleanUp
  EndingsAgree
PROPERTY
  SessionSettles
CHECK_DEADLOCK FALSE
