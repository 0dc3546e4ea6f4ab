------------------------------- MODULE Lobby -------------------------------
(***************************************************************************)
(* The game server's scripts: connmgr.lua and roommgr.lua in the main      *)
(* machine, m_login.lua in machine 1, room.lua in one machine per room.    *)
(* The machines are the actors of VmActors: each takes the messages of its *)
(* mailbox in order, and a handler's effects on its own tables are seen by *)
(* no other machine, so that a handler is one step here.  Connecting and   *)
(* disconnecting change nothing: OnConnect and OnDisConnect only log.      *)
(***************************************************************************)
EXTENDS Naturals, Sequences, FiniteSets, Functions

CONSTANTS Uids,      \* users of m_login.lua's T_USER: 1 .. 4
          Fids,      \* client ids
          MaxVm,     \* bound on _gen_id, and so on the rooms created
          Texts,     \* messages of clients without a listener, as a room reads them
          MaxMail,   \* bound on the messages on their way, for new ones of clients
          NoUid, NoFid, NoRoom, NoData

MainVm  == 0
LoginVm == 1
RoomVms == 2 .. MaxVm
Vms     == 0 .. MaxVm

\* What Room:OnEnterTable reads, which has no means to know who wrote it: the
\* machine's sender, main, or a client whose text main handed on.  NoUid and
\* NoFid: any value that is no user, or no client, and none at all.  FORWARD: a
\* command that room.lua has no handler for.
RoomMsgs ==
    [cmd : {"JOIN"}, fid : Fids \cup {NoFid}, uid : Uids \cup {NoUid}, zhu : BOOLEAN]
    \cup [cmd : {"FORWARD"}]

ASSUME LobbyAssumption ==
    /\ Uids \subseteq 1 .. 4
    /\ MaxVm \in Nat \ {0, 1} /\ MaxMail \in Nat
    /\ NoUid \notin Uids /\ NoData \notin Uids \cup {NoUid}
    /\ Texts \subseteq RoomMsgs

\* RoomMgr:AllocNewId counts up from here.
RoomBeg == 6261234
RoomIds == RoomBeg + 1 .. RoomBeg + MaxVm

\* CreateRoom(1001, 4), the only call of it
Vid   == 1001
Count == 4

VARIABLES
    genId,              \* LvmMgr::_gen_id
    live,               \* room machines that exist
    mailbox,            \* per machine, messages on their way to it
    mapLoginFidToUid,   \* ConnMgr
    listRoom,           \* RoomMgr._list_room: room id |-> [lvm, user], or NoRoom
    lstUser,            \* per room machine: Room.lst_user
    told,               \* history: per machine and user, the client last told that it
                        \* entered, if no client's text has named the user there since
    claimed,            \* history: machine and user of the texts that ask to be host
    asked               \* history: per client, the last known user it asked to be

vars == <<genId, live, mailbox, mapLoginFidToUid, listRoom, lstUser, told, claimed, asked>>

Names == Uids \cup {NoUid, NoData}   \* NoUid: an unknown name; NoData: no msg.data
ClientMsgs ==
    [cmd : {"REQ_LOGIN"}, fid : Fids, uid : Names]
    \cup [cmd : {"REQ_CREATE_TABLE"}, fid : Fids]
    \cup [cmd : {"REQ_OTHER"}, fid : Fids, text : Texts]
    \cup [cmd : {"REQ_ENTERTABLE"}, fid : Fids, roomid : RoomIds]
Msgs ==
    ClientMsgs
    \cup [cmd : {"LOGIN", "RES_LOGIN"}, fid : Fids, uid : Names]
    \cup RoomMsgs

Init ==
    /\ genId = LoginVm
    /\ live = {}
    /\ mailbox = [v \in Vms |-> <<>>]
    /\ mapLoginFidToUid = [f \in Fids |-> NoUid]
    /\ listRoom = [r \in RoomIds |-> NoRoom]
    /\ lstUser = [v \in RoomVms |-> <<>>]
    /\ told = [v \in {MainVm} \cup RoomVms |-> [u \in Uids |-> NoFid]]
    /\ claimed = {}
    /\ asked = [f \in Fids |-> NoUid]

\* The head of v's mailbox is taken, and m is posted to dest.
TakeAndPost(v, dest, m) ==
    mailbox' = [[mailbox EXCEPT ![v] = Tail(@)] EXCEPT ![dest] = Append(@, m)]
Take(v) == mailbox' = [mailbox EXCEPT ![v] = Tail(@)]

Next_(v, cmd) == mailbox[v] # <<>> /\ Head(mailbox[v]).cmd = cmd

\* Machine ids that requests on their way will not use up (for the bound).
Creates == {i \in DOMAIN mailbox[MainVm] : mailbox[MainVm][i].cmd = "REQ_CREATE_TABLE"}
IdsLeft == MaxVm - genId - Cardinality(Creates)

Listed == {r \in RoomIds : listRoom[r] # NoRoom}
Seated(r) == Range(listRoom[r].user)

-----------------------------------------------------------------------------
(* roommgr.lua *)

\* RoomMgr:FindUser compares the user id with the fields of each room record,
\* and the table of users is one of these fields, not searched itself.  pairs
\* is in no particular order: any of the rooms found may be the first.
FindUser(uid) ==
    {r \in Listed : uid \in {listRoom[r].lvm, r, Vid, Count}}

\* RoomMgr:AddUser: for each way it can end, the error code and the room.
AddUser(roomid, uid) ==
    IF FindUser(uid) # {} THEN {[error |-> "CODE_SUCCESS", room |-> r, add |-> FALSE] : r \in FindUser(uid)}
    ELSE IF listRoom[roomid] = NoRoom
         THEN {[error |-> "ERR_NOT_EXIST", room |-> roomid, add |-> FALSE]}
    ELSE IF Len(listRoom[roomid].user) >= Count
         THEN {[error |-> "ERR_ROOM_FULL", room |-> roomid, add |-> FALSE]}
    ELSE {[error |-> "CODE_SUCCESS", room |-> roomid, add |-> TRUE]}

\* RoomMgr:AllocNewId
AllocNewId == CHOOSE r \in RoomIds \ Listed : \A s \in RoomIds \ Listed : r <= s

\* Mutant: the id of the new machine is the counter before the increment.
CreateLvmStale(ok) ==
    /\ genId < MaxVm
    /\ genId' = genId + 1
    /\ live' = IF ok THEN live \cup {genId} ELSE live

\* LvmMgr::_CreateLvm: an id is used up even if the script fails to load or
\* to run; the result is then 0, which is MAIN_LVM_ID.
CreateLvm(ok) ==
    /\ genId < MaxVm
    /\ genId' = genId + 1
    /\ live' = IF ok THEN live \cup {genId'} ELSE live

\* RoomMgr:CreateRoom
CreateRoom(ok) ==
    /\ CreateLvm(ok)
    /\ listRoom' = [listRoom EXCEPT ![AllocNewId] =
                      [lvm |-> IF ok THEN genId' ELSE MainVm, user |-> <<>>]]

\* RoomMgr:RemoveRoom, which no script calls yet.  BASE.DelLvm asks for
\* LVM_CMD_CREATLVM with the machine's id as the file to run: there is no
\* such file, an id is used up and the machine stays.
RemoveRoom(r) ==
    /\ r \in Listed /\ IdsLeft > 0
    /\ CreateLvm(FALSE)
    /\ listRoom' = [listRoom EXCEPT ![r] = NoRoom]
    /\ UNCHANGED <<mailbox, mapLoginFidToUid, lstUser, told, claimed, asked>>

-----------------------------------------------------------------------------
(* connmgr.lua, in the main machine *)

\* ConnMgr:OnLogin asks the login machine; the callback keeps the client's id.
OnLogin ==
    LET m == Head(mailbox[MainVm]) IN
    /\ Next_(MainVm, "REQ_LOGIN")
    /\ TakeAndPost(MainVm, LoginVm, [cmd |-> "LOGIN", fid |-> m.fid, uid |-> m.uid])
    /\ UNCHANGED <<genId, live, mapLoginFidToUid, listRoom, lstUser, told, claimed, asked>>

\* Mutant: a client that has logged in stays who it is.
OnLoginRetOnce ==
    LET m == Head(mailbox[MainVm]) IN
    /\ Next_(MainVm, "RES_LOGIN")
    /\ mapLoginFidToUid' =
         IF m.uid = NoUid \/ mapLoginFidToUid[m.fid] # NoUid THEN mapLoginFidToUid
         ELSE [mapLoginFidToUid EXCEPT ![m.fid] = m.uid]
    /\ Take(MainVm)
    /\ UNCHANGED <<genId, live, listRoom, lstUser, told, claimed, asked>>

\* The callback of OnLogin, with ConnMgr:SetLogin.
OnLoginRet ==
    LET m == Head(mailbox[MainVm]) IN
    /\ Next_(MainVm, "RES_LOGIN")
    /\ mapLoginFidToUid' =
         IF m.uid = NoUid THEN mapLoginFidToUid
         ELSE [mapLoginFidToUid EXCEPT ![m.fid] = m.uid]
    /\ Take(MainVm)
    /\ UNCHANGED <<genId, live, listRoom, lstUser, told, claimed, asked>>

\* ConnMgr:OnCreateTable: a client that has not logged in is refused.
OnCreateTable ==
    LET m == Head(mailbox[MainVm]) IN
    /\ Next_(MainVm, "REQ_CREATE_TABLE")
    /\ IF mapLoginFidToUid[m.fid] = NoUid THEN UNCHANGED <<genId, live, listRoom>>
       ELSE \E ok \in BOOLEAN : CreateRoom(ok)
    /\ Take(MainVm)
    /\ UNCHANGED <<mapLoginFidToUid, lstUser, told, claimed, asked>>

\* A client's request to enter that AddUser grants, with RoomMgr:JoinRoom and
\* the answer that names the room.
Enter(m, uid, a) ==
    LET lvm == listRoom[a.room].lvm IN
    /\ listRoom' = IF a.add THEN [listRoom EXCEPT ![a.room].user = Append(@, uid)] ELSE listRoom
    /\ TakeAndPost(MainVm, lvm, [cmd |-> "JOIN", fid |-> m.fid, uid |-> uid, zhu |-> FALSE])
    /\ told' = [told EXCEPT ![lvm][uid] = m.fid]

\* ConnMgr:OnEnterTable
OnEnterTable ==
    LET m == Head(mailbox[MainVm])
        uid == mapLoginFidToUid[m.fid]
    IN
    /\ Next_(MainVm, "REQ_ENTERTABLE")
    /\ \/ /\ uid = NoUid
          /\ Take(MainVm) /\ UNCHANGED <<listRoom, told>>
       \/ /\ uid # NoUid
          /\ \E a \in AddUser(m.roomid, uid) :
               IF a.error = "CODE_SUCCESS" THEN Enter(m, uid, a)
               ELSE Take(MainVm) /\ UNCHANGED <<listRoom, told>>
    /\ UNCHANGED <<genId, live, mapLoginFidToUid, lstUser, claimed, asked>>

\* A room's machine gets a client's text; main has no handler for it.
HandOn(lvm, text) ==
    /\ TakeAndPost(MainVm, lvm, text)
    /\ told' = IF text.cmd = "JOIN" /\ lvm # MainVm /\ text.uid \in Uids
               THEN [told EXCEPT ![lvm][text.uid] = NoFid] ELSE told
    /\ claimed' = IF text.cmd = "JOIN" /\ lvm # MainVm /\ text.zhu
                  THEN claimed \cup {<<lvm, text.uid>>} ELSE claimed

\* ConnMgr:OnMessage hands a command that has no listener, with the client's
\* text as it is, to the room of the user, if it finds one.  PostMessage makes
\* the command a number: one that is "1010", or 1010.5, has no listener here
\* and reaches the room as REQ_ENTERTABLE.
OnOther ==
    LET m == Head(mailbox[MainVm])
        uid == mapLoginFidToUid[m.fid]
        found == IF uid = NoUid THEN {} ELSE FindUser(uid)
    IN
    /\ Next_(MainVm, "REQ_OTHER")
    /\ \/ found = {} /\ Take(MainVm) /\ UNCHANGED <<told, claimed>>
       \/ \E r \in found : HandOn(listRoom[r].lvm, m.text)
    /\ UNCHANGED <<genId, live, mapLoginFidToUid, listRoom, lstUser, asked>>

\* base.lua drops what a room that was never created (machine 0) should have
\* got: the main machine has no handler for it.
OnStray ==
    /\ Next_(MainVm, "JOIN") \/ Next_(MainVm, "FORWARD")
    /\ Take(MainVm)
    /\ UNCHANGED <<genId, live, mapLoginFidToUid, listRoom, lstUser, told, claimed, asked>>

MainStep == OnLogin \/ OnLoginRet \/ OnCreateTable \/ OnEnterTable \/ OnOther \/ OnStray

-----------------------------------------------------------------------------
(* m_login.lua and room.lua *)

\* Login:OnLogin; without msg.data it raises an error and answers nothing.
LoginStep ==
    LET m == Head(mailbox[LoginVm]) IN
    /\ Next_(LoginVm, "LOGIN")
    /\ IF m.uid = NoData THEN Take(LoginVm)
       ELSE TakeAndPost(LoginVm, MainVm, [cmd |-> "RES_LOGIN", fid |-> m.fid, uid |-> m.uid])
    /\ UNCHANGED <<genId, live, mapLoginFidToUid, listRoom, lstUser, told, claimed, asked>>

\* Mutant: the user is looked for by its client.
GetUserByFid(v, m) == {i \in DOMAIN lstUser[v] : lstUser[v][i].fid = m.fid}

\* Room:GetUser, as the set of its positions.
GetUser(v, m) == {i \in DOMAIN lstUser[v] : lstUser[v][i].uid = m.uid}

\* Mutant: a user who comes back keeps the old client.
EntryOld(v, m) ==
    IF GetUser(v, m) # {} THEN lstUser[v]
    ELSE Append(lstUser[v], [uid |-> m.uid, fid |-> m.fid, zhu |-> m.zhu \/ lstUser[v] = <<>>])

\* Room:OnEnterTable on lst_user: a user who comes back gets the new client's
\* id; a new one sits down with what its message says, and the first in the
\* room is its host (zhu, zhuang) whatever it says.
Entry(v, m) ==
    IF GetUser(v, m) # {}
    THEN [lstUser[v] EXCEPT ![CHOOSE i \in GetUser(v, m) : TRUE].fid = m.fid]
    ELSE Append(lstUser[v], [uid |-> m.uid, fid |-> m.fid, zhu |-> m.zhu \/ lstUser[v] = <<>>])

\* Room:OnEnterTable; StartGame then makes a deck nothing reads.  A command
\* handed on by OnOther has no handler in room.lua.
RoomStep(v) ==
    /\ v \in live
    /\ mailbox[v] # <<>>
    /\ lstUser' = IF Head(mailbox[v]).cmd = "JOIN"
                  THEN [lstUser EXCEPT ![v] = Entry(v, Head(mailbox[v]))]
                  ELSE lstUser
    /\ Take(v)
    /\ UNCHANGED <<genId, live, mapLoginFidToUid, listRoom, told, claimed, asked>>

-----------------------------------------------------------------------------
\* A client's message reaches the main machine.
ClientSend(m) ==
    /\ Cardinality(UNION {{v} \X DOMAIN mailbox[v] : v \in Vms}) < MaxMail
    /\ m.cmd = "REQ_CREATE_TABLE" => IdsLeft > 0
    /\ mailbox' = [mailbox EXCEPT ![MainVm] = Append(@, m)]
    /\ asked' = IF m.cmd = "REQ_LOGIN" /\ m.uid \in Uids
                THEN [asked EXCEPT ![m.fid] = m.uid] ELSE asked
    /\ UNCHANGED <<genId, live, mapLoginFidToUid, listRoom, lstUser, told, claimed>>

Next ==
    \/ MainStep
    \/ LoginStep
    \/ \E v \in RoomVms : RoomStep(v)
    \/ \E m \in ClientMsgs : ClientSend(m)
    \/ \E r \in RoomIds : RemoveRoom(r)

Spec == Init /\ [][Next]_vars
-----------------------------------------------------------------------------
(* Properties *)

Seats == [uid : Uids \cup {NoUid}, fid : Fids \cup {NoFid}, zhu : BOOLEAN]

\* Type invariant.
TypeOK ==
    /\ genId \in LoginVm .. MaxVm
    /\ live \in SUBSET (LoginVm + 1 .. genId)
    /\ mailbox \in [Vms -> Seq(Msgs)]
    /\ mapLoginFidToUid \in [Fids -> Uids \cup {NoUid}]
    /\ listRoom \in [RoomIds -> [lvm : {MainVm} \cup RoomVms, user : Seq(Uids)] \cup {NoRoom}]
    /\ lstUser \in [RoomVms -> Seq(Seats)]
    /\ told \in [{MainVm} \cup RoomVms -> [Uids -> Fids \cup {NoFid}]]
    /\ claimed \in SUBSET (RoomVms \X (Uids \cup {NoUid}))
    /\ asked \in [Fids -> Uids \cup {NoUid}]

Joins(v, u) == {i \in DOMAIN mailbox[v] : mailbox[v][i].cmd = "JOIN" /\ mailbox[v][i].uid = u}
LastJoin(v, u) == CHOOSE i \in Joins(v, u) : \A j \in Joins(v, u) : j <= i

\* A client told that its user entered a room is the client that room knows
\* for this user, or will know once it has read its mailbox: however often
\* and from however many clients the user enters, the last one wins, until a
\* client's text names the user to the room.  In a room whose machine failed
\* to start, and whose lvm is therefore main, users are told and sit nowhere.
ToldIsSeated ==
    \A v \in {MainVm} \cup RoomVms, u \in Uids :
        \/ told[v][u] = NoFid
        \/ v = MainVm
        \/ IF Joins(v, u) # {} THEN mailbox[v][LastJoin(v, u)].fid = told[v][u]
           ELSE \E i \in DOMAIN lstUser[v] :
                    lstUser[v][i].uid = u /\ lstUser[v][i].fid = told[v][u]

\* A room seats a user once; who came first is a host, and nobody else unless
\* a client's own text has asked for it.
OneHost ==
    \A v \in RoomVms : \A i, j \in DOMAIN lstUser[v] :
        /\ lstUser[v][i].uid = lstUser[v][j].uid => i = j
        /\ i = 1 => lstUser[v][i].zhu
        /\ lstUser[v][i].zhu => i = 1 \/ <<v, lstUser[v][i].uid>> \in claimed

\* Two rooms never share a machine, and no room has the login machine's.
RoomsApart ==
    \A r, s \in Listed :
        /\ listRoom[r].lvm \in live \cup {MainVm}
        /\ r # s /\ listRoom[r].lvm = listRoom[s].lvm => listRoom[r].lvm = MainVm

\* f's logins as a known user that no machine has done with yet.
LoginsOnWay(f) ==
    {p \in UNION {{v} \X DOMAIN mailbox[v] : v \in {MainVm, LoginVm}} :
        LET m == mailbox[p[1]][p[2]] IN
        m.cmd \in {"REQ_LOGIN", "LOGIN", "RES_LOGIN"} /\ m.fid = f /\ m.uid \in Uids}

\* A client that asks to be one user, then another, before the first answer
\* has come, ends up as the one it asked for last; its failed logins, before
\* or after, change nothing.
LastLoginWins ==
    \A f \in Fids : LoginsOnWay(f) = {} => mapLoginFidToUid[f] = asked[f]

-----------------------------------------------------------------------------
(* What the comments and messages of the code say, and the code does not do *)

\* connmgr.lua:183 "translate to room which not process": the command of a
\* user who sits in a room finds that room.
ForwardsToRoom ==
    \A r \in Listed : \A u \in Seated(r) : r \in FindUser(u)

\* base.lua:127 logs "LVM_CMD_DELLVM" for DelLvm: a machine whose room was
\* removed is gone.
RemovedIsGone ==
    live \subseteq {listRoom[r].lvm : r \in Listed}
=============================================================================
