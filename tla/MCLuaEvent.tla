---------------------------- MODULE MCLuaEvent ----------------------------
EXTENDS LuaEvent, TLC
CONSTANTS e1, e2, l1, l2, l3
Sym == Permutations(Events) \cup Permutations(Listeners)
=============================================================================
