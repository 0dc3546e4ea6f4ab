SPECIFICATION FairSpec
CONSTANTS
  main = main
  login = login
  c1 = c1
  c2 = c2
  Vms = {main, login}
  Servers = {login}
  Calls = {c1, c2}
  MaxSid = 2
  MaxMail = 1
  NoCall = NoCall
  NoMsg = NoMsg
INVARIANTS TypeOK RightCallback HeldWhileOut
PROPERTY CallsAnswered

CHECK_DEADLOCK FALSE
