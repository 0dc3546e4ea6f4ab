SPECIFICATION Spec
CONSTANTS
  f1 = f1
  f2 = f2
  Uids = {2, 4}
  Fids = {f1, f2}
  MaxVm = 3
  Texts <- JoinTexts
  MaxMail = 2
  NoUid = NoUid
  NoFid = NoFid
  NoRoom = NoRoom
  NoData = NoData
SYMMETRY FidSym
INVARIANTS TypeOK ToldIsSeated OneHost LastLoginWins
CONSTRAINT OneRoom
