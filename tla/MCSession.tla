----------------------------- MODULE MCSession -----------------------------
(* Two machines; a call identity of each is told apart from the others. *)
EXTENDS Session, TLC
CONSTANTS main, login, c1, c2
CallSym == Permutations(Calls)
=============================================================================
