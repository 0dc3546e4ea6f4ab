------------------------------ MODULE MCLobby ------------------------------
EXTENDS Lobby, TLC
CONSTANTS f1, f2
FidSym == Permutations(Fids)

\* Bound: one room at a time.  A second one is created only where the first is
\* gone or never had a machine.
OneRoom == Cardinality(Listed) <= 1 /\ Cardinality(live) <= 1

\* No client's text means anything to a room.
PlainTexts == [cmd : {"FORWARD"}]

\* Texts that name a user who also enters through main and ask to be host, and
\* one without a user.  None has a client that is known, so that a seat shows
\* who took it.
JoinTexts ==
    PlainTexts
    \cup [cmd : {"JOIN"}, fid : {NoFid}, uid : Uids, zhu : {TRUE}]
    \cup [cmd : {"JOIN"}, fid : {NoFid}, uid : {NoUid}, zhu : {FALSE}]
=============================================================================
