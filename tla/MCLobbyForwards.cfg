SPECIFICATION Spec
CONSTANTS
  f1 = f1
  f2 = f2
  Uids = {1, 3}
  Fids = {f1}
  MaxVm = 2
  Texts <- PlainTexts
  MaxMail = 2
  NoUid = NoUid
  NoFid = NoFid
  NoRoom = NoRoom
  NoData = NoData
INVARIANT ForwardsToRoom
