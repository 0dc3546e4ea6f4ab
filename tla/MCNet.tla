---- MODULE MCNet ----
EXTENDS Net, TLC
CONSTANTS s1, s2, s3
Sym == Permutations(Socks)
====
