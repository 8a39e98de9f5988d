SPECIFICATION Spec
CONSTANTS
  Events = {e, f}
  Registered = Registered
  MaxConns = 2
  MaxWrites = 2
  MaxRestarts = 1
  None = None
INVARIANTS
  LiveSessionIsConnected
CHECK_DEADLOCK FALSE
