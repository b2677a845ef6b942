CONSTANTS
  MaxLogins = 2
  MaxPageRequests = 1
  MaxLogouts = 1
SPECIFICATION Spec
INVARIANTS SpinnerCountsRequests LoggedInNotAskedAgain
PROPERTY LoginSettles
CHECK_DEADLOCK FALSE
