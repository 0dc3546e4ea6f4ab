SPECIFICATION FairSpec
CONSTANTS
  c1 = c1
  c2 = c2
  Clients = {c1, c2}
  NoMsg = NoMsg
INVARIANTS TypeOK CrashIsEarly LoggedInByLogin
PROPERTIES NoEarlyDispatch Answered
CHECK_DEADLOCK FALSE
