---- MODULE MCLvmTimer ----
EXTENDS LvmTimer, TLC
CONSTANTS a, b
Sym == Permutations(TimerIds)
====
