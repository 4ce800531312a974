\* The docstring of _unregister_session, for a session that is resumed.
SPECIFICATION Spec
CONSTANTS
  Modes = {"resume"}
  MaxCalls = 1
  MaxFaults = 0
  MaxRestarts = 0
INVARIANT
  RunsCleanUp
CHECK_DEADLOCK FALSE
