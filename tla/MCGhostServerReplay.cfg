SPECIFICATION Spec
CONSTANTS
  GhostIDs = {g, h}
  CommandIDs = {c, d}
  MessageIDs = {0, 1, 2}
  Seeds = {s, t}
  Callers = {p, q}
  MaxRestarts = 1
  None = None
INVARIANTS
  AtMostOneRun
CHECK_DEADLOCK FALSE
