---- MODULE MCLuaStack ----
EXTENDS LuaStack
====
