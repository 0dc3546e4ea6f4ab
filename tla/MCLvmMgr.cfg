SPECIFICATION FairSpec
CONSTANTS
  MaxVm = 2
  Toks = {t1, t2, t3}
  t1 = t1
  t2 = t2
  t3 = t3
  w1 = w1
  w2 = w2
  Workers = {w1, w2}
  NoMsg = NoMsg
  NoVm = NoVm
INVARIANTS TypeOK OneOwner NoLostWakeup ExclusiveVm DestroyedIsDrained
PROPERTIES ActorSpec QuietDrains EachServed
