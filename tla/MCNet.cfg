SPECIFICATION FairSpec
CONSTANTS
  Socks = {s1, s2, s3}
  s1 = s1
  s2 = s2
  s3 = s3
  IdTop = 2
  NoSock = NoSock
INVARIANTS TypeOK RightSocket Reachable ToldRight
PROPERTY LockReleased
