CONSTANTS
  MaxLogins = 1
  MaxPageRequests = 1
  MaxLogouts = 1
SPECIFICATION Spec
INVARIANT ProtectedAreaHasSession
CHECK_DEADLOCK FALSE
