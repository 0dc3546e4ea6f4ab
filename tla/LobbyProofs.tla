---------------------------- MODULE LobbyProofs ----------------------------
(***************************************************************************)
(* Theorems about Lobby, for every set of users and of clients and for any *)
(* number of rooms and of messages on their way.                           *)
(***************************************************************************)
EXTENDS Lobby, WellFoundedInduction, TLAPS

-----------------------------------------------------------------------------
(* The last message of a kind in a mailbox *)

None(s, W) == \A i \in DOMAIN s : s[i] \notin W

\* The last message of W in s, if there is one, is in X.
LastIn(s, W, X) ==
    \A i \in DOMAIN s : s[i] \in W /\ (\A j \in DOMAIN s : j > i => s[j] \notin W) => s[i] \in X

\* A message posted is the last of its kind, and changes no other kind.
LEMMA AppendLast ==
    ASSUME NEW S, NEW s \in Seq(S), NEW m \in S, NEW W, NEW X
    PROVE  /\ None(Append(s, m), W) <=> None(s, W) /\ m \notin W
           /\ m \in W /\ m \in X => LastIn(Append(s, m), W, X)
           /\ m \notin W /\ LastIn(s, W, X) => LastIn(Append(s, m), W, X)
<1> DEFINE t == Append(s, m)
<1>1. /\ Len(s) \in Nat
      /\ DOMAIN s = 1 .. Len(s) /\ DOMAIN t = 1 .. Len(s) + 1
      /\ t[Len(s) + 1] = m
      /\ \A i \in 1 .. Len(s) : t[i] = s[i]
  OBVIOUS
<1> HIDE DEF t
<1>2. None(t, W) <=> None(s, W) /\ m \notin W
  BY <1>1 DEF None
<1>3. ASSUME m \in W, m \in X PROVE LastIn(t, W, X)
  BY <1>1, <1>3 DEF LastIn
<1>4. ASSUME m \notin W, LastIn(s, W, X) PROVE LastIn(t, W, X)
  BY <1>1, <1>4 DEF LastIn
<1>5. QED
  BY <1>2, <1>3, <1>4 DEF t

\* A message taken was the last of its kind only if it was the only one.
LEMMA TailLast ==
    ASSUME NEW S, NEW s \in Seq(S), s # <<>>, NEW W, NEW X
    PROVE  /\ None(s, W) <=> None(Tail(s), W) /\ Head(s) \notin W
           /\ LastIn(s, W, X) => LastIn(Tail(s), W, X)
           /\ LastIn(s, W, X) /\ None(Tail(s), W) /\ Head(s) \in W => Head(s) \in X
<1> DEFINE t == Tail(s)
<1>1. /\ Len(s) \in Nat /\ Len(s) >= 1
      /\ DOMAIN s = 1 .. Len(s) /\ DOMAIN t = 1 .. Len(s) - 1
      /\ Head(s) = s[1]
      /\ \A i \in 1 .. Len(s) - 1 : t[i] = s[i + 1]
  OBVIOUS
<1> HIDE DEF t
<1>2. \A i \in 2 .. Len(s) : i - 1 \in DOMAIN t /\ t[i - 1] = s[i]
  BY <1>1
<1>3. None(s, W) <=> None(t, W) /\ Head(s) \notin W
  BY <1>1, <1>2 DEF None
<1>4. ASSUME LastIn(s, W, X) PROVE LastIn(t, W, X)
  <2>1. SUFFICES ASSUME NEW i \in DOMAIN t, t[i] \in W, \A j \in DOMAIN t : j > i => t[j] \notin W
                 PROVE  t[i] \in X
    BY DEF LastIn
  <2>2. ASSUME NEW j \in DOMAIN s, j > i + 1 PROVE s[j] \notin W
    BY <1>1, <1>2, <2>1, <2>2
  <2>3. i + 1 \in DOMAIN s /\ s[i + 1] = t[i]
    BY <1>1
  <2>4. QED
    BY <1>4, <2>1, <2>2, <2>3 DEF LastIn
<1>5. ASSUME LastIn(s, W, X), None(t, W), Head(s) \in W PROVE Head(s) \in X
  <2>1. \A j \in DOMAIN s : j > 1 => s[j] \notin W
    BY <1>1, <1>2, <1>5 DEF None
  <2>2. QED
    BY <1>1, <1>5, <2>1 DEF LastIn
<1>6. QED
  BY <1>3, <1>4, <1>5 DEF t

-----------------------------------------------------------------------------
(* Messages and mailboxes *)

LEMMA Element ==
    ASSUME NEW S, NEW s \in Seq(S), NEW i \in DOMAIN s
    PROVE  s[i] \in S
OBVIOUS

LEMMA AppendElement ==
    ASSUME NEW S, NEW s \in Seq(S), NEW m, NEW i \in DOMAIN Append(s, m)
    PROVE  (i \in DOMAIN s /\ Append(s, m)[i] = s[i]) \/ Append(s, m)[i] = m
OBVIOUS

LEMMA Kinds ==
    ASSUME NEW m \in Msgs
    PROVE  /\ m.cmd \notin {"JOIN", "FORWARD"} => m.fid \in Fids
           /\ m.cmd \in {"REQ_LOGIN", "LOGIN", "RES_LOGIN"} => m.uid \in Names
           /\ m.cmd = "JOIN" =>
                m.fid \in Fids \cup {NoFid} /\ m.uid \in Uids \cup {NoUid} /\ m.zhu \in BOOLEAN
           /\ m.cmd = "REQ_ENTERTABLE" => m.roomid \in RoomIds
           /\ m.cmd = "REQ_OTHER" => m.text \in RoomMsgs
BY LobbyAssumption DEF Msgs, ClientMsgs, RoomMsgs

LEMMA Made ==
    ASSUME NEW f \in Fids
    PROVE  /\ \A n \in Names : [cmd |-> "LOGIN", fid |-> f, uid |-> n] \in Msgs
           /\ \A n \in Names : [cmd |-> "RES_LOGIN", fid |-> f, uid |-> n] \in Msgs
           /\ \A u \in Uids : [cmd |-> "JOIN", fid |-> f, uid |-> u, zhu |-> FALSE] \in Msgs
BY DEF Msgs, RoomMsgs

\* What a room may be sent is a message, and no login's.
LEMMA RoomMsg ==
    ASSUME NEW m \in RoomMsgs
    PROVE  m \in Msgs /\ m.cmd \in {"JOIN", "FORWARD"}
BY DEF Msgs, RoomMsgs

Mail == [Vms -> Seq(Msgs)]

LEMMA Taken ==
    ASSUME mailbox \in Mail, NEW v \in Vms, mailbox[v] # <<>>, Take(v)
    PROVE  /\ mailbox' \in Mail
           /\ mailbox'[v] = Tail(mailbox[v])
           /\ \A w \in Vms : w # v => mailbox'[w] = mailbox[w]
           /\ Head(mailbox[v]) \in Msgs
<1>1. mailbox[v] \in Seq(Msgs)
  BY DEF Mail
<1>2. Head(mailbox[v]) \in Msgs /\ Tail(mailbox[v]) \in Seq(Msgs)
  BY <1>1
<1>3. QED
  BY <1>2 DEF Mail, Take

LEMMA TakenAndPosted ==
    ASSUME mailbox \in Mail, NEW v \in Vms, mailbox[v] # <<>>, NEW dest \in Vms, NEW m \in Msgs,
           TakeAndPost(v, dest, m)
    PROVE  /\ mailbox' \in Mail
           /\ v # dest => mailbox'[v] = Tail(mailbox[v]) /\ mailbox'[dest] = Append(mailbox[dest], m)
           /\ v = dest => mailbox'[v] = Append(Tail(mailbox[v]), m)
           /\ \A w \in Vms : w # v /\ w # dest => mailbox'[w] = mailbox[w]
           /\ Head(mailbox[v]) \in Msgs
<1>1. mailbox[v] \in Seq(Msgs) /\ mailbox[dest] \in Seq(Msgs)
  BY DEF Mail
<1>2. Head(mailbox[v]) \in Msgs /\ Tail(mailbox[v]) \in Seq(Msgs)
  BY <1>1
<1>3. \A s \in Seq(Msgs) : Append(s, m) \in Seq(Msgs)
  OBVIOUS
<1> DEFINE mid == [mailbox EXCEPT ![v] = Tail(@)]
<1>4. mid \in Mail /\ mid[v] = Tail(mailbox[v]) /\ \A w \in Vms : w # v => mid[w] = mailbox[w]
  BY <1>2 DEF Mail
<1>5. mailbox' = [mid EXCEPT ![dest] = Append(@, m)]
  BY DEF TakeAndPost
<1> HIDE DEF mid
<1>6. /\ mailbox' \in Mail /\ mailbox'[dest] = Append(mid[dest], m)
      /\ \A w \in Vms : w # dest => mailbox'[w] = mid[w]
  BY <1>3, <1>4, <1>5 DEF Mail
<1>7. QED
  BY <1>2, <1>4, <1>6

-----------------------------------------------------------------------------
(* The inductive invariant *)

\* Answers to a login without data, which there are none of.
NoDataRes == {m \in Msgs : m.cmd = "RES_LOGIN" /\ m.uid = NoData}

Named == None(mailbox[MainVm], NoDataRes)

JoinsOf(u) == {m \in Msgs : m.cmd = "JOIN" /\ m.uid = u}

FromFid(f) == {m \in Msgs : m.fid = f}

\* f is the client last told that u entered the room with this mailbox and
\* these users: u's last JOIN on its way comes from f; with none on its way, u
\* sits there with f.
ToldOf(mail, users, u, f) ==
    f # NoFid =>
        /\ LastIn(mail, JoinsOf(u), FromFid(f))
        /\ None(mail, JoinsOf(u)) => \E i \in DOMAIN users : users[i].uid = u /\ users[i].fid = f

Told == \A v \in RoomVms, u \in Uids : ToldOf(mailbox[v], lstUser[v], u, told[v][u])

Logins(c, f) == {m \in Msgs : m.cmd = c /\ m.fid = f /\ m.uid \in Uids}

AsUser(u) == {m \in Msgs : m.uid = u}

\* f, which is user cur, last asked to be user u.  Its logins pass REQ_LOGIN
\* (in main), LOGIN (in login) and RES_LOGIN (in main) in order, so that the
\* last one made is the last of the first kind there is.
LastOf(f, main, login, u, cur) ==
    LET noReq   == None(main, Logins("REQ_LOGIN", f))
        noLogin == None(login, Logins("LOGIN", f))
        noRes   == None(main, Logins("RES_LOGIN", f))
    IN
    /\ LastIn(main, Logins("REQ_LOGIN", f), AsUser(u))
    /\ noReq => LastIn(login, Logins("LOGIN", f), AsUser(u))
    /\ noReq /\ noLogin => LastIn(main, Logins("RES_LOGIN", f), AsUser(u))
    /\ noReq /\ noLogin /\ noRes => cur = u

LastAsked ==
    \A f \in Fids : LastOf(f, mailbox[MainVm], mailbox[LoginVm], asked[f], mapLoginFidToUid[f])

\* A JOIN that asks to be host is known to have come from a client's text.
Claims(v, m, c) == m.cmd = "JOIN" /\ m.zhu => <<v, m.uid>> \in c

Claimed == \A v \in RoomVms : \A i \in DOMAIN mailbox[v] : Claims(v, mailbox[v][i], claimed)

IInv == TypeOK /\ Named /\ RoomsApart /\ OneHost /\ Claimed /\ Told /\ LastAsked

LEMMA VmIds ==
    /\ MainVm \in Vms /\ LoginVm \in Vms /\ RoomVms \subseteq Vms
    /\ MainVm \notin RoomVms /\ LoginVm \notin RoomVms /\ MainVm # LoginVm
BY LobbyAssumption DEF MainVm, LoginVm, RoomVms, Vms

\* The message a step of machine v takes.
LEMMA HeadMsg ==
    ASSUME TypeOK, NEW v \in Vms, mailbox[v] # <<>>
    PROVE  Head(mailbox[v]) \in Msgs /\ mailbox \in Mail /\ mailbox[v] \in Seq(Msgs)
<1>1. mailbox \in Mail
  BY DEF TypeOK, Mail
<1>2. mailbox[v] \in Seq(Msgs)
  BY <1>1 DEF Mail
<1>3. QED
  BY <1>1, <1>2

\* The room a user may enter, or is found in, is listed.
LEMMA FoundListed ==
    ASSUME TypeOK, NEW uid, NEW r \in FindUser(uid)
    PROVE  r \in Listed /\ listRoom[r].lvm \in {MainVm} \cup RoomVms /\ r \in RoomIds
<1>1. r \in Listed
  BY DEF FindUser
<1>2. QED
  BY <1>1 DEF Listed, TypeOK

LEMMA GrantedListed ==
    ASSUME TypeOK, NEW roomid \in RoomIds, NEW uid, NEW a \in AddUser(roomid, uid),
           a.error = "CODE_SUCCESS"
    PROVE  /\ a.room \in Listed /\ a.room \in RoomIds
           /\ listRoom[a.room] \in [lvm : {MainVm} \cup RoomVms, user : Seq(Uids)]
<1>1. CASE FindUser(uid) # {}
  <2>1. a.room \in FindUser(uid)
    BY <1>1 DEF AddUser
  <2>2. QED
    BY <2>1 DEF FindUser, Listed, TypeOK
<1>2. CASE FindUser(uid) = {}
  <2>1. listRoom[roomid] # NoRoom /\ a.room = roomid
    BY <1>2 DEF AddUser
  <2>2. QED
    BY <2>1 DEF Listed, TypeOK
<1>3. QED
  BY <1>1, <1>2

-----------------------------------------------------------------------------
(* Types *)

RoomRecs == [lvm : {MainVm} \cup RoomVms, user : Seq(Uids)]

\* A user seated changes one room, and not its machine.
LEMMA Seat ==
    ASSUME listRoom \in [RoomIds -> RoomRecs \cup {NoRoom}], NEW r \in RoomIds, listRoom[r] \in RoomRecs,
           NEW uid \in Uids,
           listRoom' = [listRoom EXCEPT ![r].user = Append(@, uid)]
    PROVE  /\ listRoom' \in [RoomIds -> RoomRecs \cup {NoRoom}]
           /\ listRoom'[r] \in RoomRecs
           /\ listRoom'[r].lvm = listRoom[r].lvm
           /\ \A s \in RoomIds : s # r => listRoom'[s] = listRoom[s]
<1>1. PICK s : s = Append(listRoom[r].user, uid)
  OBVIOUS
<1>2. s \in Seq(Uids)
  BY <1>1 DEF RoomRecs
<1>3. PICK rec : rec = [listRoom[r] EXCEPT !.user = s]
  OBVIOUS
<1>4. rec \in RoomRecs /\ rec.lvm = listRoom[r].lvm
  BY <1>2, <1>3 DEF RoomRecs
<1>5. listRoom' = [listRoom EXCEPT ![r] = rec]
  BY <1>1, <1>3, Zenon
<1>6. QED
  BY <1>4, <1>5

\* What Enter posts and where.
LEMMA EnterPosts ==
    ASSUME TypeOK, Next_(MainVm, "REQ_ENTERTABLE"),
           mapLoginFidToUid[Head(mailbox[MainVm]).fid] # NoUid
    PROVE  /\ Head(mailbox[MainVm]).roomid \in RoomIds
           /\ mapLoginFidToUid[Head(mailbox[MainVm]).fid] \in Uids
           /\ Head(mailbox[MainVm]).fid \in Fids
<1>1. Head(mailbox[MainVm]) \in Msgs
  BY HeadMsg, VmIds DEF Next_
<1>2. QED
  BY <1>1, Kinds DEF Next_, TypeOK

\* What a JOIN makes of the users of a room.
LEMMA EntryType ==
    ASSUME NEW v \in RoomVms, lstUser[v] \in Seq(Seats), NEW m,
           m.uid \in Uids \cup {NoUid}, m.fid \in Fids \cup {NoFid}, m.zhu \in BOOLEAN
    PROVE  /\ Entry(v, m) \in Seq(Seats)
           /\ GetUser(v, m) # {} =>
                /\ Len(Entry(v, m)) = Len(lstUser[v])
                /\ \E i \in GetUser(v, m) : Entry(v, m)[i].fid = m.fid
                /\ \A i \in DOMAIN lstUser[v] :
                     /\ Entry(v, m)[i].uid = lstUser[v][i].uid
                     /\ Entry(v, m)[i].zhu = lstUser[v][i].zhu
                     /\ i \notin GetUser(v, m) => Entry(v, m)[i] = lstUser[v][i]
           /\ GetUser(v, m) = {} =>
                Entry(v, m) = Append(lstUser[v], [uid |-> m.uid, fid |-> m.fid, zhu |-> m.zhu \/ lstUser[v] = <<>>])
<1>1. PICK s : s = lstUser[v]
  OBVIOUS
<1>2. CASE GetUser(v, m) # {}
  <2>1. PICK k : k = CHOOSE i \in GetUser(v, m) : TRUE
    OBVIOUS
  <2>2. k \in GetUser(v, m) /\ k \in DOMAIN s
    BY <1>1, <1>2, <2>1 DEF GetUser
  <2>3. PICK seat : seat = [s[k] EXCEPT !.fid = m.fid]
    OBVIOUS
  <2>4. s[k] \in Seats
    BY <1>1, <2>2
  <2>5. seat \in Seats /\ seat.fid = m.fid /\ seat.uid = s[k].uid /\ seat.zhu = s[k].zhu
    BY <2>3, <2>4 DEF Seats
  <2>6. Entry(v, m) = [s EXCEPT ![k] = seat]
    BY <1>1, <1>2, <2>1, <2>3 DEF Entry
  <2>7. QED
    BY <1>1, <1>2, <2>2, <2>5, <2>6
<1>3. CASE GetUser(v, m) = {}
  <2>1. [uid |-> m.uid, fid |-> m.fid, zhu |-> m.zhu \/ lstUser[v] = <<>>] \in Seats
    BY DEF Seats
  <2>2. Entry(v, m) = Append(lstUser[v], [uid |-> m.uid, fid |-> m.fid, zhu |-> m.zhu \/ lstUser[v] = <<>>])
    BY <1>3 DEF Entry
  <2>3. QED
    BY <1>3, <2>1, <2>2
<1>4. QED
  BY <1>2, <1>3

LEMMA CreateLvmType ==
    ASSUME TypeOK, NEW ok \in BOOLEAN, CreateLvm(ok)
    PROVE  /\ genId' \in RoomVms /\ genId' = genId + 1 /\ genId \in Nat
           /\ genId' \in LoginVm .. MaxVm
           /\ live' \in SUBSET (LoginVm + 1 .. genId')
           /\ genId' \notin live
BY LobbyAssumption DEF TypeOK, CreateLvm, RoomVms, LoginVm

LEMMA TypeStep ==
    ASSUME IInv, [Next]_vars
    PROVE  TypeOK'
<1>0. TypeOK
  BY DEF IInv
<1>1. CASE UNCHANGED vars
  BY <1>0, <1>1 DEF TypeOK, vars
<1>2. CASE OnLogin
  <2>1. Head(mailbox[MainVm]) \in Msgs /\ mailbox \in Mail /\ mailbox[MainVm] # <<>>
    BY <1>0, <1>2, HeadMsg, VmIds DEF OnLogin, Next_
  <2>2. PICK f, n : f = Head(mailbox[MainVm]).fid /\ n = Head(mailbox[MainVm]).uid
    OBVIOUS
  <2>3. [cmd |-> "LOGIN", fid |-> f, uid |-> n] \in Msgs
    BY <1>2, <2>1, <2>2, Kinds, Made DEF OnLogin, Next_
  <2>4. mailbox' \in Mail
    BY <1>2, <2>1, <2>2, <2>3, VmIds, TakenAndPosted DEF OnLogin
  <2>5. QED
    BY <1>0, <1>2, <2>4 DEF TypeOK, OnLogin, Mail
<1>3. CASE OnLoginRet
  <2>1. /\ Head(mailbox[MainVm]) \in Msgs /\ mailbox \in Mail /\ mailbox[MainVm] # <<>>
        /\ mailbox[MainVm] \in Seq(Msgs)
    BY <1>0, <1>3, HeadMsg, VmIds DEF OnLoginRet, Next_
  <2>2. mailbox' \in Mail
    BY <1>3, <2>1, VmIds, Taken DEF OnLoginRet
  <2>3. Head(mailbox[MainVm]) = mailbox[MainVm][1] /\ 1 \in DOMAIN mailbox[MainVm]
    BY <2>1
  <2>4. Head(mailbox[MainVm]).uid \in Names \ {NoData} /\ Head(mailbox[MainVm]).fid \in Fids
    BY <1>3, <2>1, <2>3, Kinds DEF OnLoginRet, Next_, IInv, Named, None, NoDataRes
  <2>5. mapLoginFidToUid' \in [Fids -> Uids \cup {NoUid}]
    BY <1>0, <1>3, <2>4 DEF TypeOK, OnLoginRet, Names
  <2>6. QED
    BY <1>0, <1>3, <2>2, <2>5 DEF TypeOK, OnLoginRet, Mail
<1>4. CASE OnCreateTable
  <2>1. mailbox' \in Mail
    BY <1>0, <1>4, HeadMsg, VmIds, Taken DEF OnCreateTable, Next_
  <2>2. CASE UNCHANGED <<genId, live, listRoom>>
    BY <1>0, <1>4, <2>1, <2>2 DEF TypeOK, OnCreateTable, Mail
  <2>3. ASSUME NEW ok \in BOOLEAN, CreateRoom(ok) PROVE TypeOK'
    <3>1. genId' \in RoomVms /\ genId' \in LoginVm .. MaxVm /\ live' \in SUBSET (LoginVm + 1 .. genId')
      BY <1>0, <2>3, CreateLvmType DEF CreateRoom
    <3>2. [lvm |-> IF ok THEN genId' ELSE MainVm, user |-> <<>>] \in [lvm : {MainVm} \cup RoomVms, user : Seq(Uids)]
      BY <3>1
    <3>3. listRoom' \in [RoomIds -> [lvm : {MainVm} \cup RoomVms, user : Seq(Uids)] \cup {NoRoom}]
      BY <1>0, <2>3, <3>2 DEF TypeOK, CreateRoom
    <3>4. QED
      BY <1>0, <1>4, <2>1, <3>1, <3>3 DEF TypeOK, OnCreateTable, Mail
  <2>4. QED
    BY <1>4, <2>2, <2>3 DEF OnCreateTable
<1>5. CASE OnEnterTable
  <2>1. PICK m, uid : m = Head(mailbox[MainVm]) /\ uid = mapLoginFidToUid[m.fid]
    OBVIOUS
  <2>2. mailbox \in Mail /\ mailbox[MainVm] # <<>>
    BY <1>0, <1>5, HeadMsg, VmIds DEF OnEnterTable, Next_
  <2>3. CASE Take(MainVm) /\ UNCHANGED <<listRoom, told>>
    <3>1. mailbox' \in Mail
      BY <2>2, <2>3, VmIds, Taken
    <3>2. QED
      BY <1>0, <1>5, <2>3, <3>1 DEF TypeOK, OnEnterTable, Mail
  <2>4. ASSUME uid # NoUid, NEW a \in AddUser(m.roomid, uid), a.error = "CODE_SUCCESS", Enter(m, uid, a)
        PROVE  TypeOK'
    <3>1. m.roomid \in RoomIds /\ uid \in Uids /\ m.fid \in Fids
      BY <1>0, <1>5, <2>1, <2>4, EnterPosts DEF OnEnterTable
    <3>2. a.room \in RoomIds /\ listRoom[a.room] \in [lvm : {MainVm} \cup RoomVms, user : Seq(Uids)]
      BY <1>0, <2>4, <3>1, GrantedListed
    <3>3. PICK d : d = listRoom[a.room].lvm
      OBVIOUS
    <3>4. d \in {MainVm} \cup RoomVms /\ d \in Vms /\ [cmd |-> "JOIN", fid |-> m.fid, uid |-> uid, zhu |-> FALSE] \in Msgs
      BY <3>1, <3>2, <3>3, VmIds, Made
    <3>5. mailbox' \in Mail
      BY <2>2, <2>4, <3>3, <3>4, VmIds, TakenAndPosted DEF Enter
    <3>6. told' \in [{MainVm} \cup RoomVms -> [Uids -> Fids \cup {NoFid}]]
      <4>1. told' = [told EXCEPT ![d] = [told[d] EXCEPT ![uid] = m.fid]]
        BY <2>4, <3>3 DEF Enter
      <4>2. told[d] \in [Uids -> Fids \cup {NoFid}]
        BY <1>0, <3>4 DEF TypeOK
      <4>3. [told[d] EXCEPT ![uid] = m.fid] \in [Uids -> Fids \cup {NoFid}]
        BY <3>1, <4>2
      <4>4. QED
        BY <1>0, <4>1, <4>3 DEF TypeOK
    <3>7. listRoom' \in [RoomIds -> [lvm : {MainVm} \cup RoomVms, user : Seq(Uids)] \cup {NoRoom}]
      <4>1. CASE ~a.add
        BY <1>0, <2>4, <4>1 DEF Enter, TypeOK
      <4>2. CASE a.add
        <5>1. PICK r : r = a.room
          OBVIOUS
        <5>2. listRoom' = [listRoom EXCEPT ![r].user = Append(@, uid)]
          BY <2>4, <4>2, <5>1, Zenon DEF Enter
        <5>3. r \in RoomIds /\ listRoom[r] \in RoomRecs /\ listRoom \in [RoomIds -> RoomRecs \cup {NoRoom}]
          BY <1>0, <3>2, <5>1 DEF TypeOK, RoomRecs
        <5>4. listRoom' \in [RoomIds -> RoomRecs \cup {NoRoom}]
          BY <3>1, <5>2, <5>3, Seat
        <5>5. QED
          BY <5>4 DEF RoomRecs
      <4>3. QED
        BY <4>1, <4>2
    <3>8. QED
      BY <1>0, <1>5, <3>5, <3>6, <3>7 DEF TypeOK, OnEnterTable, Mail
  <2>5. QED
    BY <1>5, <2>1, <2>3, <2>4 DEF OnEnterTable
<1>6. CASE OnOther
  <2>1. mailbox \in Mail /\ mailbox[MainVm] # <<>> /\ Head(mailbox[MainVm]) \in Msgs
    BY <1>0, <1>6, HeadMsg, VmIds DEF OnOther, Next_
  <2>2. CASE Take(MainVm) /\ UNCHANGED <<told, claimed>>
    <3>1. mailbox' \in Mail
      BY <2>1, <2>2, VmIds, Taken
    <3>2. QED
      BY <1>0, <1>6, <2>2, <3>1 DEF TypeOK, OnOther, Mail
  <2>3. ASSUME NEW u, NEW r \in FindUser(u), HandOn(listRoom[r].lvm, Head(mailbox[MainVm]).text)
        PROVE  TypeOK'
    <3>1. PICK d, m : d = listRoom[r].lvm /\ m = Head(mailbox[MainVm]).text
      OBVIOUS
    <3>2. d \in Vms /\ d \in {MainVm} \cup RoomVms
      BY <1>0, <3>1, FoundListed, VmIds
    <3>3. m \in RoomMsgs /\ m \in Msgs
      BY <1>6, <2>1, <3>1, Kinds, RoomMsg DEF OnOther, Next_
    <3>4. m.cmd = "JOIN" => m.uid \in Uids \cup {NoUid}
      BY <3>3, Kinds
    <3>5. mailbox' \in Mail
      BY <2>1, <2>3, <3>1, <3>2, <3>3, VmIds, TakenAndPosted DEF HandOn
    <3>6. told' \in [{MainVm} \cup RoomVms -> [Uids -> Fids \cup {NoFid}]]
      <4>1. CASE UNCHANGED told
        BY <1>0, <4>1 DEF TypeOK
      <4>2. CASE m.uid \in Uids /\ told' = [told EXCEPT ![d][m.uid] = NoFid]
        <5>1. told' = [told EXCEPT ![d] = [told[d] EXCEPT ![m.uid] = NoFid]]
          BY <4>2
        <5>2. [told[d] EXCEPT ![m.uid] = NoFid] \in [Uids -> Fids \cup {NoFid}]
          BY <1>0, <3>2 DEF TypeOK
        <5>3. QED
          BY <1>0, <5>1, <5>2 DEF TypeOK
      <4>3. QED
        BY <2>3, <3>1, <4>1, <4>2 DEF HandOn
    <3>7. claimed' \in SUBSET (RoomVms \X (Uids \cup {NoUid}))
      <4>1. CASE UNCHANGED claimed
        BY <1>0, <4>1 DEF TypeOK
      <4>2. CASE m.cmd = "JOIN" /\ d # MainVm /\ claimed' = claimed \cup {<<d, m.uid>>}
        BY <1>0, <3>2, <3>4, <4>2 DEF TypeOK
      <4>3. QED
        BY <2>3, <3>1, <4>1, <4>2 DEF HandOn
    <3>8. QED
      BY <1>0, <1>6, <3>5, <3>6, <3>7 DEF TypeOK, OnOther, Mail
  <2>4. QED
    BY <1>6, <2>2, <2>3 DEF OnOther
<1>7. CASE OnStray
  <2>1. mailbox' \in Mail
    BY <1>0, <1>7, HeadMsg, VmIds, Taken DEF OnStray, Next_
  <2>2. QED
    BY <1>0, <1>7, <2>1 DEF TypeOK, OnStray, Mail
<1>8. CASE LoginStep
  <2>1. mailbox \in Mail /\ mailbox[LoginVm] # <<>> /\ Head(mailbox[LoginVm]) \in Msgs
    BY <1>0, <1>8, HeadMsg, VmIds DEF LoginStep, Next_
  <2>2. CASE Take(LoginVm)
    <3>1. mailbox' \in Mail
      BY <2>1, <2>2, VmIds, Taken
    <3>2. QED
      BY <1>0, <1>8, <3>1 DEF TypeOK, LoginStep, Mail
  <2>3. CASE ~Take(LoginVm)
    <3>1. PICK f, n : f = Head(mailbox[LoginVm]).fid /\ n = Head(mailbox[LoginVm]).uid
      OBVIOUS
    <3>2. [cmd |-> "RES_LOGIN", fid |-> f, uid |-> n] \in Msgs
      BY <1>8, <2>1, <3>1, Kinds, Made DEF LoginStep, Next_
    <3>3. mailbox' \in Mail
      BY <1>8, <2>1, <2>3, <3>1, <3>2, VmIds, TakenAndPosted DEF LoginStep
    <3>4. QED
      BY <1>0, <1>8, <3>3 DEF TypeOK, LoginStep, Mail
  <2>4. QED
    BY <2>2, <2>3
<1>9. ASSUME NEW v \in RoomVms, RoomStep(v) PROVE TypeOK'
  <2>1. mailbox' \in Mail /\ Head(mailbox[v]) \in Msgs
    BY <1>0, <1>9, HeadMsg, VmIds, Taken DEF RoomStep
  <2>2. ASSUME Head(mailbox[v]).cmd = "JOIN" PROVE Entry(v, Head(mailbox[v])) \in Seq(Seats)
    <3>1. /\ Head(mailbox[v]).uid \in Uids \cup {NoUid} /\ Head(mailbox[v]).fid \in Fids \cup {NoFid}
          /\ Head(mailbox[v]).zhu \in BOOLEAN /\ lstUser[v] \in Seq(Seats)
      BY <1>0, <2>1, <2>2, Kinds DEF TypeOK
    <3>2. QED
      BY <3>1, EntryType
  <2>3. lstUser' \in [RoomVms -> Seq(Seats)]
    BY <1>0, <1>9, <2>2 DEF RoomStep, TypeOK
  <2>4. QED
    BY <1>0, <1>9, <2>1, <2>3 DEF TypeOK, RoomStep, Mail
<1>10. ASSUME NEW m \in ClientMsgs, ClientSend(m) PROVE TypeOK'
  <2>1. m \in Msgs /\ mailbox \in Mail
    BY <1>0 DEF Msgs, TypeOK, Mail
  <2>2. mailbox' \in Mail
    BY <1>10, <2>1, VmIds DEF ClientSend, Mail
  <2>3. asked' \in [Fids -> Uids \cup {NoUid}]
    BY <1>0, <1>10, <2>1, Kinds DEF TypeOK, ClientSend
  <2>4. QED
    BY <1>0, <1>10, <2>2, <2>3 DEF TypeOK, ClientSend, Mail
<1>11. ASSUME NEW r \in RoomIds, RemoveRoom(r) PROVE TypeOK'
  <2>1. genId' \in LoginVm .. MaxVm /\ live' \in SUBSET (LoginVm + 1 .. genId')
    BY <1>0, <1>11, CreateLvmType DEF RemoveRoom
  <2>2. QED
    BY <1>0, <1>11, <2>1 DEF TypeOK, RemoveRoom
<1>12. QED
  BY <1>1, <1>2, <1>3, <1>4, <1>5, <1>6, <1>7, <1>8, <1>9, <1>10, <1>11 DEF Next, MainStep

-----------------------------------------------------------------------------
(* Rooms *)

\* RoomsApart survives what every step does to the list of rooms.
LEMMA ApartStep ==
    ASSUME IInv, [Next]_vars
    PROVE  RoomsApart'
<1>0. TypeOK /\ RoomsApart
  BY DEF IInv
<1>1. CASE UNCHANGED <<live, listRoom>>
  BY <1>0, <1>1 DEF RoomsApart, Listed
<1>2. ASSUME NEW ok \in BOOLEAN, CreateRoom(ok) PROVE RoomsApart'
  <2>1. PICK x : x = AllocNewId
    OBVIOUS
  <2>2. /\ listRoom' = [listRoom EXCEPT ![x] = [lvm |-> IF ok THEN genId' ELSE MainVm, user |-> <<>>]]
        /\ live' = IF ok THEN live \cup {genId'} ELSE live
        /\ genId' \notin live /\ genId' # MainVm
    BY <1>0, <1>2, <2>1, CreateLvmType, VmIds DEF CreateRoom, CreateLvm
  <2>3. ASSUME NEW r \in RoomIds
        PROVE  \/ r = x /\ listRoom'[r].lvm = IF ok THEN genId' ELSE MainVm
               \/ r # x /\ listRoom'[r] = listRoom[r]
    BY <1>0, <2>2 DEF TypeOK
  <2>4. \A r \in Listed : listRoom[r].lvm # genId'
    BY <1>0, <2>2 DEF RoomsApart
  <2>5. QED
    BY <1>0, <2>2, <2>3, <2>4 DEF RoomsApart, Listed
<1>3. CASE OnEnterTable
  <2>1. PICK m, uid : m = Head(mailbox[MainVm]) /\ uid = mapLoginFidToUid[m.fid]
    OBVIOUS
  <2>2. ASSUME uid # NoUid, NEW a \in AddUser(m.roomid, uid), a.error = "CODE_SUCCESS", Enter(m, uid, a),
               a.add
        PROVE  RoomsApart'
    <3>1. m.roomid \in RoomIds /\ uid \in Uids
      BY <1>0, <1>3, <2>1, <2>2, EnterPosts DEF OnEnterTable
    <3>2. PICK r : r = a.room
      OBVIOUS
    <3>3. listRoom' = [listRoom EXCEPT ![r].user = Append(@, uid)]
      BY <2>2, <3>2, Zenon DEF Enter
    <3>4. r \in Listed /\ r \in RoomIds /\ listRoom[r] \in RoomRecs /\ listRoom \in [RoomIds -> RoomRecs \cup {NoRoom}]
      BY <1>0, <2>2, <3>1, <3>2, GrantedListed DEF TypeOK, RoomRecs
    <3>5. listRoom'[r].lvm = listRoom[r].lvm /\ \A s \in RoomIds : s # r => listRoom'[s] = listRoom[s]
      BY <3>1, <3>3, <3>4, Seat
    <3>6. \A s \in RoomIds : (listRoom'[s] # NoRoom => listRoom[s] # NoRoom) /\ listRoom'[s].lvm = listRoom[s].lvm
      BY <3>4, <3>5 DEF Listed
    <3>7. QED
      BY <1>0, <1>3, <3>6 DEF RoomsApart, Listed, OnEnterTable
  <2>3. CASE UNCHANGED listRoom
    BY <1>1, <1>3, <2>3 DEF OnEnterTable
  <2>4. QED
    BY <1>3, <2>1, <2>2, <2>3 DEF OnEnterTable, Enter
<1>4. ASSUME NEW r \in RoomIds, RemoveRoom(r) PROVE RoomsApart'
  <2>1. live' = live /\ \A s \in RoomIds : listRoom'[s] = IF s = r THEN NoRoom ELSE listRoom[s]
    BY <1>0, <1>4 DEF RemoveRoom, CreateLvm, TypeOK
  <2>2. QED
    BY <1>0, <2>1 DEF RoomsApart, Listed
<1>5. QED
  BY <1>1, <1>2, <1>3, <1>4
     DEF Next, MainStep, OnLogin, OnLoginRet, OnCreateTable, OnOther, OnStray, LoginStep, RoomStep,
         ClientSend, vars

LEMMA HostStep ==
    ASSUME IInv, [Next]_vars
    PROVE  OneHost'
<1>0. claimed \subseteq claimed'
  BY DEF Next, MainStep, OnLogin, OnLoginRet, OnCreateTable, OnEnterTable, OnOther, HandOn, OnStray,
         LoginStep, RoomStep, ClientSend, RemoveRoom, vars
<1>1. CASE UNCHANGED lstUser
  BY <1>0, <1>1 DEF IInv, OneHost
<1>2. ASSUME NEW v \in RoomVms, RoomStep(v) PROVE OneHost'
  <2>1. PICK m : m = Head(mailbox[v])
    OBVIOUS
  <2>2. m \in Msgs
    BY <1>2, <2>1, HeadMsg, VmIds DEF IInv, RoomStep
  <2>3. CASE m.cmd # "JOIN"
    BY <1>1, <1>2, <2>1, <2>3 DEF RoomStep
  <2>4. CASE m.cmd = "JOIN"
    <3>1. /\ m.uid \in Uids \cup {NoUid} /\ m.fid \in Fids \cup {NoFid} /\ m.zhu \in BOOLEAN
          /\ lstUser[v] \in Seq(Seats)
      BY <2>2, <2>4, Kinds DEF IInv, TypeOK
    <3>a. m.zhu => <<v, m.uid>> \in claimed
      <4>1. mailbox[v] \in Seq(Msgs) /\ mailbox[v] # <<>>
        BY <1>2, VmIds DEF IInv, TypeOK, RoomStep
      <4>2. 1 \in DOMAIN mailbox[v] /\ m = mailbox[v][1]
        BY <2>1, <4>1
      <4>3. QED
        BY <2>4, <4>2 DEF IInv, Claimed, Claims
    <3>2. PICK old, new : old = lstUser[v] /\ new = Entry(v, m)
      OBVIOUS
    <3>3. old \in Seq(Seats) /\ new \in Seq(Seats)
      BY <3>1, <3>2, EntryType
    <3>4. /\ \A i, j \in DOMAIN old : old[i].uid = old[j].uid => i = j
          /\ \A i \in DOMAIN old : i = 1 => old[i].zhu
          /\ \A i \in DOMAIN old : old[i].zhu => i = 1 \/ <<v, old[i].uid>> \in claimed
      BY <3>2 DEF IInv, OneHost
    <3>5. /\ \A i, j \in DOMAIN new : new[i].uid = new[j].uid => i = j
          /\ \A i \in DOMAIN new : i = 1 => new[i].zhu
          /\ \A i \in DOMAIN new : new[i].zhu => i = 1 \/ <<v, new[i].uid>> \in claimed
      <4>1. CASE GetUser(v, m) # {}
        <5>1. /\ Len(new) = Len(old)
              /\ \A i \in DOMAIN old : new[i].uid = old[i].uid /\ new[i].zhu = old[i].zhu
          BY <3>1, <3>2, <4>1, EntryType
        <5>2. DOMAIN new = DOMAIN old
          BY <3>3, <5>1
        <5>3. QED
          BY <3>4, <5>1, <5>2
      <4>2. CASE GetUser(v, m) = {}
        <5>1. PICK seat : seat = [uid |-> m.uid, fid |-> m.fid, zhu |-> m.zhu \/ old = <<>>]
          OBVIOUS
        <5>2. new = Append(old, seat) /\ seat.uid = m.uid /\ (seat.zhu <=> m.zhu \/ old = <<>>)
          BY <3>1, <3>2, <4>2, <5>1, EntryType
        <5>3. \A i \in DOMAIN old : old[i].uid # m.uid
          BY <3>2, <4>2 DEF GetUser
        <5>4. /\ Len(old) \in Nat /\ DOMAIN old = 1 .. Len(old) /\ DOMAIN new = 1 .. Len(old) + 1
              /\ new[Len(old) + 1] = seat /\ \A i \in 1 .. Len(old) : new[i] = old[i]
              /\ old = <<>> <=> Len(old) + 1 = 1
          BY <3>3, <5>2
        <5>5. QED
          BY <3>a, <3>4, <5>2, <5>3, <5>4
      <4>3. QED
        BY <4>1, <4>2
    <3>6. lstUser'[v] = new /\ \A w \in RoomVms : w # v => lstUser'[w] = lstUser[w]
      BY <1>2, <2>1, <2>4, <3>2 DEF RoomStep, IInv, TypeOK
    <3>7. QED
      BY <1>0, <3>5, <3>6 DEF OneHost, IInv
  <2>5. QED
    BY <2>3, <2>4
<1>3. QED
  BY <1>1, <1>2
     DEF Next, MainStep, OnLogin, OnLoginRet, OnCreateTable, OnEnterTable, OnOther, OnStray, LoginStep,
         ClientSend, RemoveRoom, vars

\* Only a client's text asks to be host, and what has asked stays known.
LEMMA ClaimedStep ==
    ASSUME IInv, [Next]_vars
    PROVE  Claimed'
<1>0. TypeOK /\ Claimed /\ mailbox \in Mail
  BY DEF IInv, TypeOK, Mail
<1>1. ASSUME claimed \subseteq claimed',
             \A v \in RoomVms : \A i \in DOMAIN mailbox'[v] :
                 Claims(v, mailbox'[v][i], claimed') \/ \E j \in DOMAIN mailbox[v] : mailbox'[v][i] = mailbox[v][j]
      PROVE  Claimed'
  BY <1>0, <1>1 DEF Claimed, Claims
<1>2. ASSUME UNCHANGED claimed, \A v \in RoomVms : mailbox'[v] = mailbox[v]
      PROVE  Claimed'
  BY <1>1, <1>2
\* What main posts to d is the one message a room may get.
<1>3. ASSUME claimed \subseteq claimed', NEW d \in {MainVm} \cup RoomVms, NEW m \in Msgs,
             mailbox[MainVm] # <<>>, TakeAndPost(MainVm, d, m), d # MainVm => Claims(d, m, claimed')
      PROVE  Claimed'
  <2>1. d \in Vms /\ MainVm \in Vms /\ MainVm \notin RoomVms /\ RoomVms \subseteq Vms
    BY VmIds
  <2>2. \A v \in RoomVms : mailbox'[v] = IF v = d THEN Append(mailbox[v], m) ELSE mailbox[v]
    BY <1>0, <1>3, <2>1, TakenAndPosted
  <2>3. \A v \in RoomVms : mailbox[v] \in Seq(Msgs)
    BY <1>0, <2>1 DEF Mail
  <2>4. \A v \in RoomVms : \A i \in DOMAIN mailbox'[v] :
            Claims(v, mailbox'[v][i], claimed') \/ \E j \in DOMAIN mailbox[v] : mailbox'[v][i] = mailbox[v][j]
    <3>1. SUFFICES ASSUME NEW v \in RoomVms, NEW i \in DOMAIN mailbox'[v]
                   PROVE  \/ Claims(v, mailbox'[v][i], claimed')
                          \/ \E j \in DOMAIN mailbox[v] : mailbox'[v][i] = mailbox[v][j]
      OBVIOUS
    <3>2. CASE v # d
      BY <2>2, <3>2
    <3>3. CASE v = d
      <4>1. \/ i \in DOMAIN mailbox[v] /\ mailbox'[v][i] = mailbox[v][i]
            \/ mailbox'[v][i] = m
        <5>1. mailbox[v] \in Seq(Msgs) /\ mailbox'[v] = Append(mailbox[v], m)
          BY <2>2, <2>3, <3>3
        <5>2. QED
          BY <5>1, AppendElement
      <4>2. QED
        BY <1>3, <2>1, <3>3, <4>1
    <3>4. QED
      BY <3>2, <3>3
  <2>5. QED
    BY <1>1, <1>3, <2>4
<1>4. CASE OnLogin
  <2>1. mailbox[MainVm] # <<>> /\ Head(mailbox[MainVm]) \in Msgs
    BY <1>0, <1>4, HeadMsg, VmIds DEF OnLogin, Next_
  <2>2. PICK m : m = [cmd |-> "LOGIN", fid |-> Head(mailbox[MainVm]).fid, uid |-> Head(mailbox[MainVm]).uid]
    OBVIOUS
  <2>3. m \in Msgs
    BY <1>4, <2>1, <2>2, Kinds, Made DEF OnLogin, Next_
  <2>4. \A v \in RoomVms : mailbox'[v] = mailbox[v]
    BY <1>0, <1>4, <2>1, <2>2, <2>3, VmIds, TakenAndPosted DEF OnLogin
  <2>5. QED
    BY <1>2, <1>4, <2>4 DEF OnLogin
<1>5. CASE LoginStep
  <2>1. mailbox[LoginVm] # <<>> /\ Head(mailbox[LoginVm]) \in Msgs
    BY <1>0, <1>5, HeadMsg, VmIds DEF LoginStep, Next_
  <2>2. PICK m : m = [cmd |-> "RES_LOGIN", fid |-> Head(mailbox[LoginVm]).fid, uid |-> Head(mailbox[LoginVm]).uid]
    OBVIOUS
  <2>3. m \in Msgs
    BY <1>5, <2>1, <2>2, Kinds, Made DEF LoginStep, Next_
  <2>4. \A v \in RoomVms : mailbox'[v] = mailbox[v]
    BY <1>0, <1>5, <2>1, <2>2, <2>3, VmIds, Taken, TakenAndPosted DEF LoginStep
  <2>5. QED
    BY <1>2, <1>5, <2>4 DEF LoginStep
<1>6. ASSUME UNCHANGED claimed, Take(MainVm), mailbox[MainVm] # <<>>
      PROVE  Claimed'
  BY <1>0, <1>2, <1>6, VmIds, Taken
<1>7. CASE OnOther
  <2>1. mailbox[MainVm] # <<>> /\ Head(mailbox[MainVm]) \in Msgs
    BY <1>0, <1>7, HeadMsg, VmIds DEF OnOther, Next_
  <2>2. PICK m : m = Head(mailbox[MainVm]).text
    OBVIOUS
  <2>3. m \in Msgs
    BY <1>7, <2>1, <2>2, Kinds, RoomMsg DEF OnOther, Next_
  <2>4. ASSUME NEW u, NEW r \in FindUser(u), HandOn(listRoom[r].lvm, m) PROVE Claimed'
    <3>1. PICK d : d = listRoom[r].lvm
      OBVIOUS
    <3>2. d \in {MainVm} \cup RoomVms
      BY <1>0, <3>1, FoundListed
    <3>3. TakeAndPost(MainVm, d, m) /\ claimed \subseteq claimed' /\ (d # MainVm => Claims(d, m, claimed'))
      BY <2>4, <3>1 DEF HandOn, Claims
    <3>4. QED
      BY <1>3, <2>1, <2>3, <3>2, <3>3
  <2>5. QED
    BY <1>6, <1>7, <2>1, <2>2, <2>4 DEF OnOther
<1>8. CASE OnEnterTable
  <2>1. PICK m, uid : m = Head(mailbox[MainVm]) /\ uid = mapLoginFidToUid[m.fid]
    OBVIOUS
  <2>2. ASSUME uid # NoUid, NEW a \in AddUser(m.roomid, uid), a.error = "CODE_SUCCESS", Enter(m, uid, a)
        PROVE  Claimed'
    <3>1. m.roomid \in RoomIds /\ uid \in Uids /\ m.fid \in Fids /\ mailbox[MainVm] # <<>>
      BY <1>0, <1>8, <2>1, <2>2, EnterPosts DEF OnEnterTable, Next_
    <3>2. PICK d, j : d = listRoom[a.room].lvm /\ j = [cmd |-> "JOIN", fid |-> m.fid, uid |-> uid, zhu |-> FALSE]
      OBVIOUS
    <3>3. d \in {MainVm} \cup RoomVms /\ j \in Msgs /\ ~j.zhu
      BY <1>0, <2>2, <3>1, <3>2, GrantedListed, Made
    <3>4. TakeAndPost(MainVm, d, j) /\ claimed' = claimed
      BY <1>8, <2>2, <3>2 DEF Enter, OnEnterTable
    <3>5. QED
      BY <1>3, <3>1, <3>3, <3>4 DEF Claims
  <2>3. CASE Take(MainVm)
    BY <1>6, <1>8, <2>3 DEF OnEnterTable, Next_
  <2>4. QED
    BY <1>8, <2>1, <2>2, <2>3 DEF OnEnterTable
<1>9. ASSUME NEW v \in RoomVms, RoomStep(v) PROVE Claimed'
  <2>1. /\ mailbox[v] \in Seq(Msgs) /\ mailbox[v] # <<>> /\ mailbox'[v] = Tail(mailbox[v])
        /\ \A w \in RoomVms : w # v => mailbox'[w] = mailbox[w]
        /\ claimed' = claimed
    BY <1>0, <1>9, HeadMsg, VmIds, Taken DEF RoomStep
  <2>2. \A i \in DOMAIN mailbox'[v] : i + 1 \in DOMAIN mailbox[v] /\ mailbox'[v][i] = mailbox[v][i + 1]
    BY <2>1
  <2>3. \A w \in RoomVms : \A i \in DOMAIN mailbox'[w] :
            \E j \in DOMAIN mailbox[w] : mailbox'[w][i] = mailbox[w][j]
    BY <2>1, <2>2
  <2>4. QED
    BY <1>1, <2>1, <2>3
<1>10. ASSUME NEW m \in ClientMsgs, ClientSend(m) PROVE Claimed'
  <2>1. \A v \in RoomVms : mailbox'[v] = mailbox[v]
    BY <1>0, <1>10, VmIds DEF ClientSend, Mail
  <2>2. QED
    BY <1>2, <1>10, <2>1 DEF ClientSend
<1>11. QED
  BY <1>2, <1>4, <1>5, <1>6, <1>7, <1>8, <1>9, <1>10
     DEF Next, MainStep, OnLoginRet, OnCreateTable, OnStray, RemoveRoom, Next_, vars

-----------------------------------------------------------------------------
(* Who is told, and who sits *)

\* Another message to the room changes nothing for u.
LEMMA ToldOther ==
    ASSUME NEW mail \in Seq(Msgs), NEW users, NEW u, NEW f, ToldOf(mail, users, u, f),
           NEW m \in Msgs, m \notin JoinsOf(u)
    PROVE  ToldOf(Append(mail, m), users, u, f)
BY AppendLast DEF ToldOf

\* The client told now is the one that joins last.
LEMMA ToldJoin ==
    ASSUME NEW mail \in Seq(Msgs), NEW users, NEW m \in Msgs, m.cmd = "JOIN"
    PROVE  ToldOf(Append(mail, m), users, m.uid, m.fid)
<1>1. m \in JoinsOf(m.uid) /\ m \in FromFid(m.fid)
  BY DEF JoinsOf, FromFid
<1>2. LastIn(Append(mail, m), JoinsOf(m.uid), FromFid(m.fid)) /\ ~None(Append(mail, m), JoinsOf(m.uid))
  BY <1>1, AppendLast
<1>3. QED
  BY <1>2 DEF ToldOf

\* The room takes a message that is no JOIN of u.
LEMMA ToldTake ==
    ASSUME NEW mail \in Seq(Msgs), mail # <<>>, NEW users, NEW users2, NEW u, NEW f,
           ToldOf(mail, users, u, f), Head(mail) \notin JoinsOf(u),
           \A i \in DOMAIN users : users[i].uid = u => i \in DOMAIN users2 /\ users2[i] = users[i]
    PROVE  ToldOf(Tail(mail), users2, u, f)
<1>1. LastIn(mail, JoinsOf(u), FromFid(f)) => LastIn(Tail(mail), JoinsOf(u), FromFid(f))
  BY TailLast
<1>2. None(Tail(mail), JoinsOf(u)) => None(mail, JoinsOf(u))
  BY TailLast
<1>3. QED
  BY <1>1, <1>2 DEF ToldOf

\* The room takes a JOIN of u.
LEMMA ToldSeat ==
    ASSUME NEW mail \in Seq(Msgs), mail # <<>>, NEW users, NEW users2, NEW u, NEW f,
           ToldOf(mail, users, u, f), Head(mail) \in JoinsOf(u),
           \E i \in DOMAIN users2 : users2[i].uid = u /\ users2[i].fid = Head(mail).fid
    PROVE  ToldOf(Tail(mail), users2, u, f)
<1>1. LastIn(mail, JoinsOf(u), FromFid(f)) => LastIn(Tail(mail), JoinsOf(u), FromFid(f))
  BY TailLast
<1>2. LastIn(mail, JoinsOf(u), FromFid(f)) /\ None(Tail(mail), JoinsOf(u)) => Head(mail).fid = f
  BY TailLast DEF FromFid
<1>3. QED
  BY <1>1, <1>2 DEF ToldOf

LEMMA ToldStep ==
    ASSUME IInv, [Next]_vars
    PROVE  Told'
<1>0. TypeOK /\ Told /\ mailbox \in Mail
  BY DEF IInv, TypeOK, Mail
<1>1. ASSUME UNCHANGED <<told, lstUser>>, \A v \in RoomVms : mailbox'[v] = mailbox[v]
      PROVE  Told'
  BY <1>0, <1>1 DEF Told
<1>2. ASSUME UNCHANGED <<told, lstUser>>, Take(MainVm) \/ Take(LoginVm)
      PROVE  Told'
  <2>1. \A v \in RoomVms : mailbox'[v] = mailbox[v]
    BY <1>0, <1>2, VmIds DEF Take, Mail
  <2>2. QED
    BY <1>1, <1>2, <2>1
<1>3. ASSUME UNCHANGED <<told, lstUser>>, NEW v \in {MainVm, LoginVm}, NEW dest \in {MainVm, LoginVm},
             NEW m \in Msgs, mailbox[v] # <<>>, TakeAndPost(v, dest, m)
      PROVE  Told'
  <2>1. v \in Vms /\ dest \in Vms /\ \A w \in RoomVms : w \in Vms /\ w # v /\ w # dest
    BY VmIds
  <2>2. \A w \in RoomVms : mailbox'[w] = mailbox[w]
    BY <1>0, <1>3, <2>1, TakenAndPosted
  <2>3. QED
    BY <1>1, <1>3, <2>2
<1>4. ASSUME UNCHANGED <<told, lstUser>>, NEW d \in RoomVms, NEW m \in Msgs,
             \A u \in Uids : m \notin JoinsOf(u), mailbox[MainVm] # <<>>, TakeAndPost(MainVm, d, m)
      PROVE  Told'
  <2>1. mailbox'[d] = Append(mailbox[d], m) /\ \A w \in RoomVms : w # d => mailbox'[w] = mailbox[w]
    BY <1>0, <1>4, VmIds, TakenAndPosted
  <2>2. mailbox[d] \in Seq(Msgs) /\ \A u \in Uids : m \notin JoinsOf(u)
    BY <1>0, <1>4, VmIds DEF Mail
  <2>3. \A u \in Uids : ToldOf(mailbox'[d], lstUser[d], u, told[d][u])
    BY <1>0, <2>1, <2>2, ToldOther DEF Told
  <2>4. QED
    BY <1>0, <1>4, <2>1, <2>3 DEF Told
<1>5. CASE OnLogin
  <2>1. mailbox[MainVm] # <<>> /\ Head(mailbox[MainVm]) \in Msgs
    BY <1>0, <1>5, HeadMsg, VmIds DEF OnLogin, Next_
  <2>2. PICK m : m = [cmd |-> "LOGIN", fid |-> Head(mailbox[MainVm]).fid, uid |-> Head(mailbox[MainVm]).uid]
    OBVIOUS
  <2>3. m \in Msgs
    BY <1>5, <2>1, <2>2, Kinds, Made DEF OnLogin, Next_
  <2>4. QED
    BY <1>3, <1>5, <2>1, <2>2, <2>3 DEF OnLogin
<1>6. CASE LoginStep
  <2>1. mailbox[LoginVm] # <<>> /\ Head(mailbox[LoginVm]) \in Msgs
    BY <1>0, <1>6, HeadMsg, VmIds DEF LoginStep, Next_
  <2>2. PICK m : m = [cmd |-> "RES_LOGIN", fid |-> Head(mailbox[LoginVm]).fid, uid |-> Head(mailbox[LoginVm]).uid]
    OBVIOUS
  <2>3. m \in Msgs
    BY <1>6, <2>1, <2>2, Kinds, Made DEF LoginStep, Next_
  <2>4. QED
    BY <1>2, <1>3, <1>6, <2>1, <2>2, <2>3 DEF LoginStep
<1>7. CASE OnOther
  <2>1. mailbox[MainVm] # <<>> /\ Head(mailbox[MainVm]) \in Msgs
    BY <1>0, <1>7, HeadMsg, VmIds DEF OnOther, Next_
  <2>2. PICK m : m = Head(mailbox[MainVm]).text
    OBVIOUS
  <2>3. m \in Msgs /\ m.cmd \in {"JOIN", "FORWARD"} /\ lstUser' = lstUser
    BY <1>7, <2>1, <2>2, Kinds, RoomMsg DEF OnOther, Next_
  <2>4. ASSUME NEW x, NEW r \in FindUser(x), HandOn(listRoom[r].lvm, m) PROVE Told'
    <3>1. PICK d : d = listRoom[r].lvm
      OBVIOUS
    <3>2. d = MainVm \/ d \in RoomVms
      BY <1>0, <3>1, FoundListed
    <3>3. TakeAndPost(MainVm, d, m)
      BY <2>4, <3>1 DEF HandOn
    <3>4. CASE UNCHANGED told /\ (d = MainVm \/ \A u \in Uids : m \notin JoinsOf(u))
      BY <1>3, <1>4, <2>1, <2>3, <3>2, <3>3, <3>4
    <3>5. CASE d \in RoomVms /\ m.uid \in Uids /\ told' = [told EXCEPT ![d][m.uid] = NoFid]
      <4>1. /\ told'[d][m.uid] = NoFid
            /\ \A u \in Uids : u # m.uid => told'[d][u] = told[d][u]
            /\ \A w \in RoomVms : w # d => told'[w] = told[w]
        BY <1>0, <3>5 DEF TypeOK
      <4>2. mailbox'[d] = Append(mailbox[d], m) /\ \A w \in RoomVms : w # d => mailbox'[w] = mailbox[w]
        BY <1>0, <2>1, <2>3, <3>3, <3>5, VmIds, TakenAndPosted
      <4>3. mailbox[d] \in Seq(Msgs)
        BY <1>0, <3>5, VmIds DEF Mail
      <4>4. ASSUME NEW u \in Uids, u # m.uid PROVE ToldOf(mailbox'[d], lstUser[d], u, told[d][u])
        <5>1. m \notin JoinsOf(u)
          BY <4>4 DEF JoinsOf
        <5>2. QED
          BY <1>0, <2>3, <3>5, <4>2, <4>3, <5>1, ToldOther DEF Told
      <4>5. ToldOf(mailbox'[d], lstUser[d], m.uid, NoFid)
        BY DEF ToldOf
      <4>6. QED
        BY <1>0, <2>3, <4>1, <4>2, <4>4, <4>5 DEF Told
    <3>6. QED
      BY <2>3, <2>4, <3>1, <3>2, <3>4, <3>5, VmIds DEF HandOn, JoinsOf
  <2>5. QED
    BY <1>2, <1>7, <2>2, <2>4 DEF OnOther
<1>8. CASE OnEnterTable
  <2>1. PICK m, uid : m = Head(mailbox[MainVm]) /\ uid = mapLoginFidToUid[m.fid]
    OBVIOUS
  <2>2. ASSUME uid # NoUid, NEW a \in AddUser(m.roomid, uid), a.error = "CODE_SUCCESS", Enter(m, uid, a)
        PROVE  Told'
    <3>1. m.roomid \in RoomIds /\ uid \in Uids /\ m.fid \in Fids /\ mailbox[MainVm] # <<>>
      BY <1>0, <1>8, <2>1, <2>2, EnterPosts DEF OnEnterTable, Next_
    <3>2. PICK d, j : d = listRoom[a.room].lvm /\ j = [cmd |-> "JOIN", fid |-> m.fid, uid |-> uid, zhu |-> FALSE]
      OBVIOUS
    <3>3. d \in {MainVm} \cup RoomVms /\ j \in Msgs /\ j.cmd = "JOIN" /\ j.uid = uid /\ j.fid = m.fid
      BY <1>0, <2>2, <3>1, <3>2, GrantedListed, Made
    <3>4. TakeAndPost(MainVm, d, j) /\ lstUser' = lstUser
      BY <1>8, <2>2, <3>2 DEF Enter, OnEnterTable
    <3>5. CASE d = MainVm
      <4>1. told' = [told EXCEPT ![d][uid] = m.fid]
        BY <2>2, <3>2 DEF Enter
      <4>2. \A w \in RoomVms : told'[w] = told[w]
        BY <1>0, <3>5, <4>1, VmIds DEF TypeOK
      <4>3. \A w \in RoomVms : mailbox'[w] = mailbox[w]
        BY <1>0, <3>1, <3>3, <3>4, <3>5, VmIds, TakenAndPosted
      <4>4. QED
        BY <1>0, <3>4, <4>2, <4>3 DEF Told
    <3>6. CASE d \in RoomVms
      <4>1. told' = [told EXCEPT ![d][uid] = m.fid]
        BY <2>2, <3>2 DEF Enter
      <4>2. /\ told'[d][uid] = m.fid
            /\ \A u \in Uids : u # uid => told'[d][u] = told[d][u]
            /\ \A w \in RoomVms : w # d => told'[w] = told[w]
        BY <1>0, <3>1, <3>6, <4>1 DEF TypeOK
      <4>3. mailbox'[d] = Append(mailbox[d], j) /\ \A w \in RoomVms : w # d => mailbox'[w] = mailbox[w]
        BY <1>0, <3>1, <3>3, <3>4, <3>6, VmIds, TakenAndPosted
      <4>4. mailbox[d] \in Seq(Msgs)
        BY <1>0, <3>6, VmIds DEF Mail
      <4>5. ToldOf(mailbox'[d], lstUser[d], uid, m.fid)
        BY <3>3, <4>3, <4>4, ToldJoin
      <4>6. ASSUME NEW u \in Uids, u # uid PROVE ToldOf(mailbox'[d], lstUser[d], u, told[d][u])
        <5>1. j \notin JoinsOf(u)
          BY <3>3, <4>6 DEF JoinsOf
        <5>2. QED
          BY <1>0, <3>3, <3>6, <4>3, <4>4, <5>1, ToldOther DEF Told
      <4>7. QED
        BY <1>0, <3>4, <4>2, <4>3, <4>5, <4>6 DEF Told
    <3>7. QED
      BY <3>3, <3>5, <3>6
  <2>3. CASE Take(MainVm) /\ UNCHANGED told
    BY <1>2, <1>8, <2>3 DEF OnEnterTable
  <2>4. QED
    BY <1>8, <2>1, <2>2, <2>3 DEF OnEnterTable
<1>9. ASSUME NEW v \in RoomVms, RoomStep(v) PROVE Told'
  <2>1. PICK m, mail : m = Head(mailbox[v]) /\ mail = mailbox[v]
    OBVIOUS
  <2>2. /\ m \in Msgs /\ mail # <<>> /\ mail \in Seq(Msgs) /\ mailbox'[v] = Tail(mail)
        /\ \A w \in RoomVms : w # v => mailbox'[w] = mailbox[w]
    BY <1>0, <1>9, <2>1, HeadMsg, VmIds, Taken DEF RoomStep
  <2>3. told' = told /\ \A w \in RoomVms : w # v => lstUser'[w] = lstUser[w]
    BY <1>0, <1>9 DEF RoomStep, TypeOK
  <2>4. PICK old, new : old = lstUser[v] /\ new = lstUser'[v]
    OBVIOUS
  <2>5. CASE m.cmd # "JOIN"
    <3>1. new = old
      BY <1>9, <2>1, <2>4, <2>5 DEF RoomStep
    <3>2. \A u \in Uids : m \notin JoinsOf(u)
      BY <2>5 DEF JoinsOf
    <3>3. \A u \in Uids : ToldOf(Tail(mail), new, u, told[v][u])
      BY <1>0, <2>1, <2>2, <2>4, <3>1, <3>2, ToldTake DEF Told
    <3>4. QED
      BY <1>0, <2>2, <2>3, <2>4, <3>3 DEF Told
  <2>6. CASE m.cmd = "JOIN"
    <3>1. /\ m.uid \in Uids \cup {NoUid} /\ m.fid \in Fids \cup {NoFid} /\ m.zhu \in BOOLEAN
          /\ old \in Seq(Seats)
      BY <1>0, <2>2, <2>4, <2>6, Kinds DEF TypeOK
    <3>2. new = Entry(v, m)
      BY <1>0, <1>9, <2>1, <2>4, <2>6 DEF RoomStep, TypeOK
    <3>3. new \in Seq(Seats)
      BY <2>4, <3>1, <3>2, EntryType
    <3>4. /\ \E i \in DOMAIN new : new[i].uid = m.uid /\ new[i].fid = m.fid
          /\ \A i \in DOMAIN old : old[i].uid # m.uid => i \in DOMAIN new /\ new[i] = old[i]
      <4>1. CASE GetUser(v, m) # {}
        <5>1. /\ Len(new) = Len(old)
              /\ \E i \in GetUser(v, m) : new[i].fid = m.fid
              /\ \A i \in DOMAIN old :
                   /\ new[i].uid = old[i].uid
                   /\ i \notin GetUser(v, m) => new[i] = old[i]
          <6>1. lstUser[v] \in Seq(Seats)
            BY <2>4, <3>1
          <6>2. /\ Len(Entry(v, m)) = Len(lstUser[v])
                /\ \E i \in GetUser(v, m) : Entry(v, m)[i].fid = m.fid
                /\ \A i \in DOMAIN lstUser[v] :
                     /\ Entry(v, m)[i].uid = lstUser[v][i].uid
                     /\ i \notin GetUser(v, m) => Entry(v, m)[i] = lstUser[v][i]
            BY <3>1, <4>1, <6>1, EntryType, ZenonT(60)
          <6>3. QED
            BY <2>4, <3>2, <6>2
        <5>2. DOMAIN new = DOMAIN old
          BY <3>1, <3>3, <5>1
        <5>3. \A i \in DOMAIN old : i \in GetUser(v, m) <=> old[i].uid = m.uid
          BY <2>4 DEF GetUser
        <5>4. GetUser(v, m) \subseteq DOMAIN old
          BY <2>4 DEF GetUser
        <5>5. QED
          BY <5>1, <5>2, <5>3, <5>4
      <4>2. CASE GetUser(v, m) = {}
        <5>1. PICK seat : seat = [uid |-> m.uid, fid |-> m.fid, zhu |-> m.zhu \/ old = <<>>]
          OBVIOUS
        <5>2. new = Append(old, seat) /\ seat.uid = m.uid /\ seat.fid = m.fid
          BY <2>4, <3>1, <3>2, <4>2, <5>1, EntryType
        <5>3. /\ Len(old) \in Nat /\ DOMAIN old = 1 .. Len(old) /\ DOMAIN new = 1 .. Len(old) + 1
              /\ new[Len(old) + 1] = seat /\ \A i \in 1 .. Len(old) : new[i] = old[i]
          BY <3>1, <3>3, <5>2
        <5>4. QED
          BY <5>2, <5>3
      <4>3. QED
        BY <4>1, <4>2
    <3>5. ASSUME NEW u \in Uids PROVE ToldOf(Tail(mail), new, u, told[v][u])
      <4>1. PICK f : f = told[v][u]
        OBVIOUS
      <4>2. ToldOf(mail, old, u, f)
        BY <1>0, <2>1, <2>4, <4>1 DEF Told
      <4>3. CASE u = m.uid
        BY <2>1, <2>2, <2>6, <3>4, <4>1, <4>2, <4>3, ToldSeat DEF JoinsOf
      <4>4. CASE u # m.uid
        BY <2>1, <2>2, <3>4, <4>1, <4>2, <4>4, ToldTake DEF JoinsOf
      <4>5. QED
        BY <4>3, <4>4
    <3>6. QED
      BY <1>0, <2>2, <2>3, <2>4, <3>5 DEF Told
  <2>7. QED
    BY <2>5, <2>6
<1>10. ASSUME NEW m \in ClientMsgs, ClientSend(m) PROVE Told'
  <2>1. \A v \in RoomVms : mailbox'[v] = mailbox[v]
    BY <1>0, <1>10, VmIds DEF ClientSend, Mail
  <2>2. QED
    BY <1>1, <1>10, <2>1 DEF ClientSend
<1>11. QED
  BY <1>1, <1>2, <1>5, <1>6, <1>7, <1>8, <1>9, <1>10
     DEF Next, MainStep, OnLoginRet, OnCreateTable, OnStray, RemoveRoom, vars

-----------------------------------------------------------------------------
(* Who a client asked to be, and who it is *)

\* The main machine takes a message that is no login of f.
LEMMA LastTake ==
    ASSUME NEW main \in Seq(Msgs), main # <<>>, NEW login, NEW f, NEW u, NEW cur,
           LastOf(f, main, login, u, cur),
           Head(main) \notin Logins("REQ_LOGIN", f), Head(main) \notin Logins("RES_LOGIN", f)
    PROVE  LastOf(f, Tail(main), login, u, cur)
BY TailLast DEF LastOf

\* The main machine is sent a message that is no login of f.
LEMMA LastPost ==
    ASSUME NEW main \in Seq(Msgs), NEW login, NEW f, NEW u, NEW cur,
           LastOf(f, main, login, u, cur),
           NEW m \in Msgs, m \notin Logins("REQ_LOGIN", f), m \notin Logins("RES_LOGIN", f)
    PROVE  LastOf(f, Append(main, m), login, u, cur)
BY AppendLast DEF LastOf

\* The client asks to be another user: nothing it asked before counts.
LEMMA LastRequest ==
    ASSUME NEW main \in Seq(Msgs), NEW login, NEW f, NEW cur,
           NEW m \in Logins("REQ_LOGIN", f)
    PROVE  LastOf(f, Append(main, m), login, m.uid, cur)
<1>1. m \in Msgs /\ m \in AsUser(m.uid)
  BY DEF Logins, AsUser
<1>2. /\ LastIn(Append(main, m), Logins("REQ_LOGIN", f), AsUser(m.uid))
      /\ ~None(Append(main, m), Logins("REQ_LOGIN", f))
  BY <1>1, AppendLast
<1>3. QED
  BY <1>2 DEF LastOf

\* Request h becomes m, the question to the login machine.
LEMMA LastAsk ==
    ASSUME NEW main \in Seq(Msgs), main # <<>>, NEW login \in Seq(Msgs), NEW f, NEW u, NEW cur,
           LastOf(f, main, login, u, cur), Head(main) \in Msgs,
           NEW m \in Msgs, Head(main).cmd = "REQ_LOGIN", m.cmd = "LOGIN",
           m.fid = Head(main).fid, m.uid = Head(main).uid
    PROVE  LastOf(f, Tail(main), Append(login, m), u, cur)
<1>1. PICK h, q, l, r, A :
        /\ h = Head(main)
        /\ q = Logins("REQ_LOGIN", f) /\ l = Logins("LOGIN", f) /\ r = Logins("RES_LOGIN", f)
        /\ A = AsUser(u)
  OBVIOUS
<1>2. /\ h \in q <=> m \in l
      /\ h \notin r
      /\ h \in A <=> m \in A
  BY <1>1 DEF Logins, AsUser
<1>3. /\ None(main, q) <=> None(Tail(main), q) /\ h \notin q
      /\ LastIn(main, q, A) => LastIn(Tail(main), q, A)
      /\ LastIn(main, q, A) /\ None(Tail(main), q) /\ h \in q => h \in A
      /\ None(main, r) <=> None(Tail(main), r) /\ h \notin r
      /\ LastIn(main, r, A) => LastIn(Tail(main), r, A)
  BY <1>1, TailLast
<1>4. /\ None(Append(login, m), l) <=> None(login, l) /\ m \notin l
      /\ m \in l /\ m \in A => LastIn(Append(login, m), l, A)
      /\ m \notin l /\ LastIn(login, l, A) => LastIn(Append(login, m), l, A)
  BY AppendLast
<1>5. QED
  BY <1>1, <1>2, <1>3, <1>4 DEF LastOf

\* Question h becomes m, the answer.
LEMMA LastAnswer ==
    ASSUME NEW main \in Seq(Msgs), NEW login \in Seq(Msgs), login # <<>>, NEW f, NEW u, NEW cur,
           LastOf(f, main, login, u, cur), Head(login) \in Msgs,
           NEW m \in Msgs, Head(login).cmd = "LOGIN", m.cmd = "RES_LOGIN",
           m.fid = Head(login).fid, m.uid = Head(login).uid
    PROVE  LastOf(f, Append(main, m), Tail(login), u, cur)
<1>1. PICK h, q, l, r, A :
        /\ h = Head(login)
        /\ q = Logins("REQ_LOGIN", f) /\ l = Logins("LOGIN", f) /\ r = Logins("RES_LOGIN", f)
        /\ A = AsUser(u)
  OBVIOUS
<1>2. /\ h \in l <=> m \in r
      /\ m \notin q
      /\ h \in A <=> m \in A
  BY <1>1 DEF Logins, AsUser
<1>3. /\ None(login, l) <=> None(Tail(login), l) /\ h \notin l
      /\ LastIn(login, l, A) => LastIn(Tail(login), l, A)
      /\ LastIn(login, l, A) /\ None(Tail(login), l) /\ h \in l => h \in A
  BY <1>1, TailLast
<1>4. /\ None(Append(main, m), q) <=> None(main, q) /\ m \notin q
      /\ m \notin q /\ LastIn(main, q, A) => LastIn(Append(main, m), q, A)
      /\ None(Append(main, m), r) <=> None(main, r) /\ m \notin r
      /\ m \in r /\ m \in A => LastIn(Append(main, m), r, A)
      /\ m \notin r /\ LastIn(main, r, A) => LastIn(Append(main, m), r, A)
  BY AppendLast
<1>5. QED
  BY <1>1, <1>2, <1>3, <1>4 DEF LastOf

\* A question without data is not answered, and asks to be nobody.
LEMMA LastDropped ==
    ASSUME NEW main, NEW login \in Seq(Msgs), login # <<>>, NEW f, NEW u, NEW cur,
           LastOf(f, main, login, u, cur), Head(login).uid = NoData
    PROVE  LastOf(f, main, Tail(login), u, cur)
<1>1. Head(login) \notin Logins("LOGIN", f)
  BY LobbyAssumption DEF Logins
<1>2. QED
  BY <1>1, TailLast DEF LastOf

\* The answer comes: the client is the user it names, if it names one.
LEMMA LastLogin ==
    ASSUME NEW main \in Seq(Msgs), main # <<>>, NEW login, NEW f, NEW u, NEW cur,
           LastOf(f, main, login, u, cur), Head(main) \in Msgs,
           Head(main).cmd = "RES_LOGIN", Head(main).uid \in Uids \cup {NoUid}
    PROVE  LastOf(f, Tail(main), login, u,
                  IF Head(main).fid = f /\ Head(main).uid # NoUid THEN Head(main).uid ELSE cur)
<1>1. PICK h, q, l, r, A :
        /\ h = Head(main)
        /\ q = Logins("REQ_LOGIN", f) /\ l = Logins("LOGIN", f) /\ r = Logins("RES_LOGIN", f)
        /\ A = AsUser(u)
  OBVIOUS
<1>2. /\ h \in r <=> h.fid = f /\ h.uid # NoUid
      /\ h \notin q
      /\ h \in A => h.uid = u
  BY <1>1, LobbyAssumption DEF Logins, AsUser
<1>3. /\ None(main, q) <=> None(Tail(main), q) /\ h \notin q
      /\ LastIn(main, q, A) => LastIn(Tail(main), q, A)
      /\ None(main, r) <=> None(Tail(main), r) /\ h \notin r
      /\ LastIn(main, r, A) => LastIn(Tail(main), r, A)
      /\ LastIn(main, r, A) /\ None(Tail(main), r) /\ h \in r => h \in A
  BY <1>1, TailLast
<1>4. QED
  BY <1>1, <1>2, <1>3 DEF LastOf

\* A message that is no login's, nor an answer.
Other(m) == m.cmd \notin {"REQ_LOGIN", "LOGIN", "RES_LOGIN"}

LEMMA OtherNot ==
    ASSUME NEW m, Other(m), NEW f
    PROVE  /\ m \notin Logins("REQ_LOGIN", f) /\ m \notin Logins("LOGIN", f)
           /\ m \notin Logins("RES_LOGIN", f) /\ m \notin NoDataRes
BY DEF Other, Logins, NoDataRes

LastAndNamed(main, login) ==
    /\ None(main, NoDataRes)
    /\ \A f \in Fids : LastOf(f, main, login, asked[f], mapLoginFidToUid[f])

LEMMA LastAskedStep ==
    ASSUME IInv, [Next]_vars
    PROVE  LastAsked' /\ Named'
<1>0. TypeOK /\ mailbox \in Mail
  BY DEF IInv, TypeOK, Mail
<1> DEFINE main == mailbox[MainVm]
           login == mailbox[LoginVm]
           logged == <<asked, mapLoginFidToUid>>
<1>a. main \in Seq(Msgs) /\ login \in Seq(Msgs)
  BY <1>0, VmIds DEF Mail
<1>b. LastAndNamed(main, login)
  BY DEF IInv, LastAsked, Named, LastAndNamed
<1>c. ASSUME UNCHANGED logged, LastAndNamed(mailbox'[MainVm], mailbox'[LoginVm])
      PROVE  LastAsked' /\ Named'
  BY <1>c DEF LastAsked, Named, LastAndNamed
<1>1. ASSUME UNCHANGED logged, mailbox'[MainVm] = mailbox[MainVm], mailbox'[LoginVm] = mailbox[LoginVm]
      PROVE  LastAsked' /\ Named'
  BY <1>1, <1>b, <1>c
\* A message of another kind is taken ...
<1>2. ASSUME main # <<>>, Other(Head(main))
      PROVE  Tail(main) \in Seq(Msgs) /\ LastAndNamed(Tail(main), login)
  <2>1. \A f : /\ Head(main) \notin Logins("REQ_LOGIN", f) /\ Head(main) \notin Logins("RES_LOGIN", f)
               /\ Head(main) \notin NoDataRes
    BY <1>2, OtherNot
  <2>2. None(Tail(main), NoDataRes)
    BY <1>2, <1>a, <1>b, TailLast DEF LastAndNamed
  <2>3. \A f \in Fids : LastOf(f, Tail(main), login, asked[f], mapLoginFidToUid[f])
    BY <1>2, <1>a, <1>b, <2>1, LastTake DEF LastAndNamed
  <2>4. Tail(main) \in Seq(Msgs)
    BY <1>2, <1>a
  <2>5. QED
    BY <2>2, <2>3, <2>4 DEF LastAndNamed
\* ... or posted.
<1>3. ASSUME NEW s \in Seq(Msgs), LastAndNamed(s, login), NEW m \in Msgs, Other(m)
      PROVE  LastAndNamed(Append(s, m), login)
  <2>1. \A f : /\ m \notin Logins("REQ_LOGIN", f) /\ m \notin Logins("RES_LOGIN", f)
               /\ m \notin NoDataRes
    BY <1>3, OtherNot
  <2>2. None(Append(s, m), NoDataRes)
    BY <1>3, <2>1, AppendLast DEF LastAndNamed
  <2>3. \A f \in Fids : LastOf(f, Append(s, m), login, asked[f], mapLoginFidToUid[f])
    BY <1>3, <2>1, LastPost DEF LastAndNamed
  <2>4. QED
    BY <2>2, <2>3 DEF LastAndNamed
<1>4. ASSUME main # <<>>, Other(Head(main)), UNCHANGED logged, Take(MainVm)
      PROVE  LastAsked' /\ Named'
  <2>1. mailbox'[MainVm] = Tail(main) /\ mailbox'[LoginVm] = login
    BY <1>0, <1>4, VmIds, Taken
  <2>2. QED
    BY <1>2, <1>4, <1>c, <2>1
<1>5. ASSUME main # <<>>, Other(Head(main)), UNCHANGED logged,
             NEW d \in {MainVm} \cup RoomVms, NEW m \in Msgs, Other(m), TakeAndPost(MainVm, d, m)
      PROVE  LastAsked' /\ Named'
  <2>1. d \in Vms /\ d # LoginVm
    BY VmIds
  <2>2. /\ mailbox'[LoginVm] = login
        /\ mailbox'[MainVm] = IF d = MainVm THEN Append(Tail(main), m) ELSE Tail(main)
    BY <1>0, <1>5, <2>1, VmIds, TakenAndPosted
  <2>3. LastAndNamed(Tail(main), login) /\ LastAndNamed(Append(Tail(main), m), login)
    BY <1>2, <1>3, <1>5
  <2>4. QED
    BY <1>5, <1>c, <2>2, <2>3
<1> HIDE DEF main, login
<1>6. CASE OnLogin
  <2>1. PICK h, m : h = Head(mailbox[MainVm]) /\ m = [cmd |-> "LOGIN", fid |-> h.fid, uid |-> h.uid]
    OBVIOUS
  <2>2. h \in Msgs /\ h.cmd = "REQ_LOGIN" /\ mailbox[MainVm] # <<>>
    BY <1>0, <1>6, <2>1, HeadMsg, VmIds DEF OnLogin, Next_
  <2>3. m \in Msgs /\ m.cmd = "LOGIN" /\ m.fid = h.fid /\ m.uid = h.uid
    BY <2>1, <2>2, Kinds, Made
  <2>4. TakeAndPost(MainVm, LoginVm, m) /\ UNCHANGED logged
    BY <1>6, <2>1 DEF OnLogin
  <2>5. mailbox'[MainVm] = Tail(main) /\ mailbox'[LoginVm] = Append(login, m)
    BY <1>0, <2>2, <2>3, <2>4, VmIds, TakenAndPosted DEF main, login
  <2>6. None(Tail(main), NoDataRes)
    BY <1>a, <1>b, <2>2, TailLast DEF main, LastAndNamed
  <2>7. main # <<>> /\ Head(main) = h
    BY <2>1, <2>2 DEF main
  <2>8. \A f \in Fids : LastOf(f, Tail(main), Append(login, m), asked[f], mapLoginFidToUid[f])
    BY <1>a, <1>b, <2>2, <2>3, <2>7, LastAsk DEF LastAndNamed
  <2>9. QED
    BY <1>c, <2>4, <2>5, <2>6, <2>8 DEF LastAndNamed
<1>7. CASE OnLoginRet
  <2>1. PICK h : h = Head(main)
    OBVIOUS
  <2>2. h \in Msgs /\ h.cmd = "RES_LOGIN" /\ main # <<>>
    BY <1>0, <1>7, <2>1, HeadMsg, VmIds DEF OnLoginRet, Next_, main
  <2>3. h.uid \in Uids \cup {NoUid} /\ h.fid \in Fids
    <3>1. h \notin NoDataRes
      BY <1>a, <1>b, <2>1, <2>2, TailLast DEF LastAndNamed
    <3>2. QED
      BY <2>2, <3>1, Kinds DEF NoDataRes, Names
  <2>4. mailbox'[MainVm] = Tail(main) /\ mailbox'[LoginVm] = login /\ asked' = asked
    BY <1>0, <1>7, <2>2, VmIds, Taken DEF OnLoginRet, main, login
  <2>5. \A f \in Fids : mapLoginFidToUid'[f] =
          IF h.fid = f /\ h.uid # NoUid THEN h.uid ELSE mapLoginFidToUid[f]
    BY <1>0, <1>7, <2>1, <2>3 DEF OnLoginRet, TypeOK, main
  <2>6. \A f \in Fids : LastOf(f, Tail(main), login, asked[f],
          IF h.fid = f /\ h.uid # NoUid THEN h.uid ELSE mapLoginFidToUid[f])
    BY <1>a, <1>b, <2>1, <2>2, <2>3, LastLogin DEF LastAndNamed
  <2>7. None(Tail(main), NoDataRes)
    BY <1>a, <1>b, <2>2, TailLast DEF LastAndNamed
  <2>8. QED
    BY <2>4, <2>5, <2>6, <2>7 DEF LastAsked, Named
<1>8. CASE LoginStep
  <2>1. PICK h, m : h = Head(login) /\ m = [cmd |-> "RES_LOGIN", fid |-> h.fid, uid |-> h.uid]
    OBVIOUS
  <2>2. h \in Msgs /\ h.cmd = "LOGIN" /\ login # <<>>
    BY <1>0, <1>8, <2>1, HeadMsg, VmIds DEF LoginStep, Next_, login
  <2>3. m \in Msgs /\ m.cmd = "RES_LOGIN" /\ m.fid = h.fid /\ m.uid = h.uid
    BY <2>1, <2>2, Kinds, Made
  <2>4. CASE h.uid = NoData
    <3>1. mailbox'[MainVm] = main /\ mailbox'[LoginVm] = Tail(login) /\ UNCHANGED logged
      BY <1>0, <1>8, <2>1, <2>2, <2>4, VmIds, Taken DEF LoginStep, main, login
    <3>2. \A f \in Fids : LastOf(f, main, Tail(login), asked[f], mapLoginFidToUid[f])
      BY <1>a, <1>b, <2>1, <2>2, <2>4, LastDropped DEF LastAndNamed
    <3>3. QED
      BY <1>b, <1>c, <3>1, <3>2 DEF LastAndNamed
  <2>5. CASE h.uid # NoData
    <3>1. TakeAndPost(LoginVm, MainVm, m) /\ UNCHANGED logged
      BY <1>8, <2>1, <2>5 DEF LoginStep, login
    <3>2. mailbox'[MainVm] = Append(main, m) /\ mailbox'[LoginVm] = Tail(login)
      BY <1>0, <2>2, <2>3, <3>1, VmIds, TakenAndPosted DEF main, login
    <3>3. m \notin NoDataRes
      BY <2>3, <2>5 DEF NoDataRes
    <3>4. None(Append(main, m), NoDataRes)
      BY <1>a, <1>b, <2>3, <3>3, AppendLast DEF LastAndNamed
    <3>5. \A f \in Fids : LastOf(f, Append(main, m), Tail(login), asked[f], mapLoginFidToUid[f])
      BY <1>a, <1>b, <2>1, <2>2, <2>3, LastAnswer DEF LastAndNamed
    <3>6. QED
      BY <1>c, <3>1, <3>2, <3>4, <3>5 DEF LastAndNamed
  <2>6. QED
    BY <2>4, <2>5
<1>9. CASE OnCreateTable
  <2>1. main # <<>> /\ Other(Head(main)) /\ UNCHANGED logged /\ Take(MainVm)
    BY <1>9 DEF OnCreateTable, Next_, Other, main
  <2>2. QED
    BY <1>4, <2>1
<1>10. CASE OnStray
  <2>1. main # <<>> /\ Other(Head(main)) /\ UNCHANGED logged /\ Take(MainVm)
    BY <1>10 DEF OnStray, Next_, Other, main
  <2>2. QED
    BY <1>4, <2>1
<1>11. CASE OnEnterTable
  <2>1. PICK m, uid : m = Head(mailbox[MainVm]) /\ uid = mapLoginFidToUid[m.fid]
    OBVIOUS
  <2>2. main # <<>> /\ Other(Head(main)) /\ UNCHANGED logged
    BY <1>11 DEF OnEnterTable, Next_, Other, main
  <2>3. ASSUME uid # NoUid, NEW a \in AddUser(m.roomid, uid), a.error = "CODE_SUCCESS", Enter(m, uid, a)
        PROVE  LastAsked' /\ Named'
    <3>1. m.roomid \in RoomIds /\ uid \in Uids /\ m.fid \in Fids
      BY <1>0, <1>11, <2>1, <2>3, EnterPosts DEF OnEnterTable
    <3>2. PICK d, j : d = listRoom[a.room].lvm /\ j = [cmd |-> "JOIN", fid |-> m.fid, uid |-> uid, zhu |-> FALSE]
      OBVIOUS
    <3>3. d \in {MainVm} \cup RoomVms /\ j \in Msgs /\ Other(j)
      BY <1>0, <2>3, <3>1, <3>2, GrantedListed, Made DEF Other
    <3>4. TakeAndPost(MainVm, d, j)
      BY <2>3, <3>2 DEF Enter
    <3>5. QED
      BY <1>5, <2>2, <3>3, <3>4
  <2>4. CASE Take(MainVm)
    BY <1>4, <2>2, <2>4
  <2>5. QED
    BY <1>11, <2>1, <2>3, <2>4 DEF OnEnterTable
<1>12. CASE OnOther
  <2>1. PICK m : m = Head(mailbox[MainVm]).text
    OBVIOUS
  <2>2. main # <<>> /\ Other(Head(main)) /\ UNCHANGED logged
    BY <1>12 DEF OnOther, Next_, Other, main
  <2>3. m \in Msgs /\ Other(m)
    BY <1>0, <1>12, <2>1, <2>2, HeadMsg, VmIds, Kinds, RoomMsg DEF OnOther, Next_, Other, main
  <2>4. ASSUME NEW u, NEW r \in FindUser(u), HandOn(listRoom[r].lvm, m)
        PROVE  LastAsked' /\ Named'
    <3>1. PICK d : d = listRoom[r].lvm
      OBVIOUS
    <3>2. d \in {MainVm} \cup RoomVms
      BY <1>0, <3>1, FoundListed
    <3>3. TakeAndPost(MainVm, d, m)
      BY <2>4, <3>1 DEF HandOn
    <3>4. QED
      BY <1>5, <2>2, <2>3, <3>2, <3>3
  <2>5. QED
    BY <1>4, <1>12, <2>1, <2>2, <2>4 DEF OnOther
<1>13. ASSUME NEW v \in RoomVms, RoomStep(v) PROVE LastAsked' /\ Named'
  <2>1. /\ mailbox'[MainVm] = mailbox[MainVm] /\ mailbox'[LoginVm] = mailbox[LoginVm]
        /\ UNCHANGED logged
    BY <1>0, <1>13, VmIds, Taken DEF RoomStep
  <2>2. QED
    BY <1>1, <2>1
<1>14. ASSUME NEW m \in ClientMsgs, ClientSend(m) PROVE LastAsked' /\ Named'
  <2>1. /\ mailbox'[MainVm] = Append(main, m) /\ mailbox'[LoginVm] = login
        /\ mapLoginFidToUid' = mapLoginFidToUid /\ m \in Msgs
    BY <1>0, <1>14, VmIds DEF ClientSend, Mail, Msgs, main, login
  <2>2. m \notin NoDataRes /\ m.cmd \notin {"LOGIN", "RES_LOGIN"} /\ m.fid \in Fids
    BY DEF ClientMsgs, NoDataRes
  <2>3. None(Append(main, m), NoDataRes)
    BY <1>a, <1>b, <2>1, <2>2, AppendLast DEF LastAndNamed
  <2>4. ASSUME NEW f \in Fids
        PROVE  LastOf(f, Append(main, m), login, asked'[f], mapLoginFidToUid[f])
    <3>1. CASE m \in Logins("REQ_LOGIN", f)
      <4>1. asked'[f] = m.uid
        BY <1>0, <1>14, <3>1 DEF ClientSend, Logins, TypeOK
      <4>2. QED
        BY <1>a, <3>1, <4>1, LastRequest
    <3>2. CASE m \notin Logins("REQ_LOGIN", f)
      <4>1. asked'[f] = asked[f]
        BY <1>0, <1>14, <2>1, <2>2, <3>2 DEF ClientSend, Logins, TypeOK
      <4>2. m \notin Logins("RES_LOGIN", f)
        BY <2>2 DEF Logins
      <4>3. QED
        BY <1>a, <1>b, <2>1, <3>2, <4>1, <4>2, LastPost DEF LastAndNamed
    <3>3. QED
      BY <3>1, <3>2
  <2>5. QED
    BY <2>1, <2>3, <2>4 DEF LastAsked, Named
<1>15. CASE UNCHANGED vars
  BY <1>1, <1>15 DEF vars
<1>16. ASSUME NEW r \in RoomIds, RemoveRoom(r) PROVE LastAsked' /\ Named'
  BY <1>1, <1>16 DEF RemoveRoom
<1>17. QED
  BY <1>6, <1>7, <1>8, <1>9, <1>10, <1>11, <1>12, <1>13, <1>14, <1>15, <1>16 DEF Next, MainStep

-----------------------------------------------------------------------------
(* What the invariant implies *)

\* A set of positions that is not empty has a last one.
LEMMA LastPosition ==
    ASSUME NEW n \in Nat, NEW S, S \subseteq 1 .. n, S # {}
    PROVE  \E k \in S : \A j \in S : j <= k
<1> DEFINE D == {n - k : k \in S}
<1>1. D \subseteq Nat /\ D # {}
  <2>1. \A k \in S : n - k \in Nat
    OBVIOUS
  <2>2. D \subseteq Nat
    BY <2>1
  <2>3. PICK k \in S : TRUE
    OBVIOUS
  <2>4. n - k \in D
    OBVIOUS
  <2>5. QED
    BY <2>2, <2>4
<1>2. \E d \in D : \A e \in D : ~(<<e, d>> \in OpToRel(<, Nat))
  BY <1>1, NatLessThanWellFounded, WFMin
<1>3. PICK d \in D : \A e \in D : ~(<<e, d>> \in OpToRel(<, Nat))
  BY <1>2
<1>4. \A e \in D : ~(e < d)
  <2>1. ASSUME NEW e \in D, e < d PROVE <<e, d>> \in OpToRel(<, Nat)
    BY <1>1, <2>1 DEF OpToRel
  <2>2. QED
    BY <1>3, <2>1, Zenon
<1>5. PICK k \in S : d = n - k
  OBVIOUS
<1>6. ASSUME NEW j \in S PROVE j <= k
  <2>1. n - j \in D /\ ~(n - j < d)
    BY <1>4
  <2>2. QED
    BY <1>5, <2>1
<1>7. QED
  BY <1>6

LEMMA SeatedOfInv ==
    ASSUME IInv
    PROVE  ToldIsSeated
<1>1. SUFFICES ASSUME NEW v \in RoomVms, NEW u \in Uids, told[v][u] # NoFid
               PROVE  IF Joins(v, u) # {} THEN mailbox[v][LastJoin(v, u)].fid = told[v][u]
                      ELSE \E i \in DOMAIN lstUser[v] :
                               lstUser[v][i].uid = u /\ lstUser[v][i].fid = told[v][u]
  BY DEF ToldIsSeated
<1>2. PICK mail, S : mail = mailbox[v] /\ S = Joins(v, u)
  OBVIOUS
<1>3. mail \in Seq(Msgs)
  BY <1>2, VmIds DEF IInv, TypeOK
<1>4. ToldOf(mail, lstUser[v], u, told[v][u])
  BY <1>2 DEF IInv, Told
<1>5. \A i \in DOMAIN mail : i \in S <=> mail[i] \in JoinsOf(u)
  BY <1>2, <1>3, Element DEF Joins, JoinsOf
<1>6. CASE S # {}
  <2>1. S \subseteq 1 .. Len(mail) /\ Len(mail) \in Nat
    BY <1>2, <1>3 DEF Joins
  <2>2. \E k \in S : \A j \in S : j <= k
    BY <1>6, <2>1, LastPosition
  <2>3. PICK k : k = LastJoin(v, u)
    OBVIOUS
  <2>4. k \in S /\ \A j \in S : j <= k
    BY <1>2, <2>2, <2>3 DEF LastJoin
  <2>5. k \in DOMAIN mail /\ mail[k] \in JoinsOf(u)
    BY <1>3, <1>5, <2>1, <2>4
  <2>6. \A j \in DOMAIN mail : j > k => mail[j] \notin JoinsOf(u)
    BY <1>3, <1>5, <2>1, <2>4
  <2>7. mail[k] \in FromFid(told[v][u])
    BY <1>1, <1>4, <2>5, <2>6 DEF ToldOf, LastIn
  <2>8. QED
    BY <1>2, <1>6, <2>3, <2>7 DEF FromFid
<1>7. CASE S = {}
  BY <1>1, <1>2, <1>4, <1>5, <1>7 DEF ToldOf, None
<1>8. QED
  BY <1>6, <1>7

LEMMA LastOfInv ==
    ASSUME IInv
    PROVE  LastLoginWins
<1>1. SUFFICES ASSUME NEW f \in Fids, LoginsOnWay(f) = {}
               PROVE  mapLoginFidToUid[f] = asked[f]
  BY DEF LastLoginWins
<1>2. ASSUME NEW v \in {MainVm, LoginVm}, NEW i \in DOMAIN mailbox[v],
             NEW c \in {"REQ_LOGIN", "LOGIN", "RES_LOGIN"}
      PROVE  mailbox[v][i] \notin Logins(c, f)
  <2>1. SUFFICES ASSUME mailbox[v][i] \in Logins(c, f) PROVE <<v, i>> \in LoginsOnWay(f)
    BY <1>1
  <2>2. <<v, i>> \in UNION {{w} \X DOMAIN mailbox[w] : w \in {MainVm, LoginVm}}
    BY <1>2
  <2>3. QED
    BY <2>1, <2>2 DEF LoginsOnWay, Logins
<1>3. /\ None(mailbox[MainVm], Logins("REQ_LOGIN", f))
      /\ None(mailbox[LoginVm], Logins("LOGIN", f))
      /\ None(mailbox[MainVm], Logins("RES_LOGIN", f))
  BY <1>2 DEF None
<1>4. QED
  BY <1>3 DEF IInv, LastAsked, LastOf

-----------------------------------------------------------------------------
(* The theorems *)

\* IInv holds at the start and every step of connmgr.lua, roommgr.lua,
\* m_login.lua and room.lua keeps it.
THEOREM Inductive == Spec => []IInv
<1>1. Init => IInv
  <2> SUFFICES ASSUME Init PROVE IInv
    OBVIOUS
  <2>1. TypeOK
    BY LobbyAssumption DEF Init, TypeOK, LoginVm
  <2>2. \A W, X : None(<<>>, W) /\ LastIn(<<>>, W, X)
    BY DEF None, LastIn
  <2>3. Named /\ Told /\ LastAsked
    BY <2>2, VmIds DEF Init, Named, Told, ToldOf, LastAsked, LastOf
  <2>4. RoomsApart /\ OneHost /\ Claimed
    BY VmIds DEF Init, RoomsApart, OneHost, Listed, Claimed
  <2>5. QED
    BY <2>1, <2>3, <2>4 DEF IInv
<1>2. IInv /\ [Next]_vars => IInv'
  <2> SUFFICES ASSUME IInv, [Next]_vars PROVE IInv'
    OBVIOUS
  <2>1. QED
    BY TypeStep, ApartStep, HostStep, ClaimedStep, ToldStep, LastAskedStep DEF IInv
<1>3. QED
  BY <1>1, <1>2, PTL DEF Spec

\* The tables of the main machine and of the rooms, and every mailbox, hold
\* what they should.
THEOREM LobbyTypeCorrect == Spec => []TypeOK
BY Inductive, PTL DEF IInv

\* The client told that its user entered a room is the one the room has, or
\* will have once it has read its mailbox, whatever texts of clients reach the
\* room, until one of them names the user.
THEOREM ToldIsSeatedAlways == Spec => []ToldIsSeated
BY Inductive, SeatedOfInv, PTL

\* A room seats a user once and has one host, but for those who asked to be
\* one in a text of their own.
THEOREM OneHostAlways == Spec => []OneHost
BY Inductive, PTL DEF IInv

\* No two rooms share a machine.
THEOREM RoomsApartAlways == Spec => []RoomsApart
BY Inductive, PTL DEF IInv

\* A client whose logins are all answered is the user it asked for last.
THEOREM LastLoginWinsAlways == Spec => []LastLoginWins
BY Inductive, LastOfInv, PTL

=============================================================================
