---- MODULE MCLvmMgr ----
EXTENDS LvmMgr
CONSTANTS t1, t2, t3, w1, w2
====
