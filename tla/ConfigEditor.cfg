\* Two objects, one instance of the page with up to four requests, two calls.
CONSTANTS
  Configs = {a, b}
  None = None
  MaxFetches = 4
  MaxCalls = 2
SPECIFICATION Spec
INVARIANTS
  TypeOK
  NewestAnswerShown
  WaitingLeaveIsAsked
  PatchTypedForTarget
PROPERTIES
  LeavingIsConfirmed
CHECK_DEADLOCK FALSE
