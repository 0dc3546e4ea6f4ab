--------------------------- MODULE StartupProofs ---------------------------
(***************************************************************************)
(* Theorems about Startup, for any number of clients.                      *)
(***************************************************************************)
EXTENDS Startup, TLAPS

\* Before the main machine there is nothing: no login machine, no messages for
\* it, and, unless a client came early, none for the main machine before Create.
NothingBefore ==
    vm[MainVm] = "null" =>
        /\ vm[LoginVm] = "null" /\ mapLvm = {}
        /\ ~early /\ pc \in {"main", "net", "service", "io"} => ioQueue = <<>>
        /\ ~early /\ pc \in {"posted", "up"} => ioQueue # <<>> /\ Head(ioQueue) = Create

\* The io thread is in _CreateLvm exactly while main.lua runs.
IoInScript == vm[MainVm] = "running" <=> io = Create

\* Messages wait only for a login machine that is registered, and so serves.
LoginRegistered ==
    /\ LoginVm \in mapLvm => vm[LoginVm] = "serving"
    /\ localMsgQueue # <<>> => LoginVm \in mapLvm

\* Within _CreateLvm of the main machine it is settled what loginServerId is.
LoginSettled ==
    /\ vm[MainVm] = "serving" => vm[LoginVm] \in {"serving", "failed"}
    /\ vm[LoginVm] = "serving" => loginServerId = LoginVm

\* The main machine sends a login to itself only when there is no login machine.
OwnRequests ==
    \A i \in DOMAIN ioQueue :
        ioQueue[i].cmd = "REQ_LOGIN" /\ ioQueue[i].dest = MainVm => vm[LoginVm] = "failed"

\* A request on its way to the main machine is of a form its client chose.
OwnForms ==
    \A i \in DOMAIN ioQueue :
        ioQueue[i].cmd \in {"CLIENT_MSG", "REQ_LOGIN"} /\ {"error", "uid"} \subseteq ioQueue[i].form
            => ioQueue[i].fid \in claimed

\* Only the login machine says that a user is known.
KnownOnWay ==
    \A i \in DOMAIN ioQueue : ioQueue[i].cmd = "MSG_RET_OK" => ioQueue[i].fid \in accepted

IInv ==
    /\ TypeOK /\ NothingBefore /\ IoInScript /\ LoginRegistered /\ KnownOnWay
    /\ LoginSettled /\ OwnRequests /\ OwnForms /\ CrashIsEarly /\ LoggedInByLogin

USE DEF MainVm, LoginVm

-----------------------------------------------------------------------------
(* The io queue *)

\* A handler is posted.
LEMMA Posted ==
    ASSUME NEW S, NEW q \in Seq(S), NEW m \in S
    PROVE  /\ Append(q, m) \in Seq(S) /\ Append(q, m) # <<>>
           /\ q # <<>> => Head(Append(q, m)) = Head(q)
           /\ q = <<>> => Head(Append(q, m)) = m
           /\ \A i \in DOMAIN Append(q, m) : Append(q, m)[i] = m \/ (i \in DOMAIN q /\ Append(q, m)[i] = q[i])
OBVIOUS

\* The first handler is taken.
LEMMA TakenFirst ==
    ASSUME NEW S, NEW q \in Seq(S), q # <<>>
    PROVE  /\ Head(q) \in S /\ Head(q) = q[1] /\ 1 \in DOMAIN q /\ Tail(q) \in Seq(S)
           /\ \A i \in DOMAIN Tail(q) : i + 1 \in DOMAIN q /\ Tail(q)[i] = q[i + 1]
OBVIOUS

\* Without the first handler the queue is its tail.
LEMMA WithoutFirst ==
    ASSUME NEW S, ioQueue \in Seq(S), ioQueue # <<>>
    PROVE  Without(1) = Tail(ioQueue)
<1>1. SubSeq(ioQueue, 1, 0) = <<>> /\ SubSeq(ioQueue, 2, Len(ioQueue)) = Tail(ioQueue)
  OBVIOUS
<1>2. 1 - 1 = 0 /\ 1 + 1 = 2
  OBVIOUS
<1>3. Tail(ioQueue) \in Seq(S)
  OBVIOUS
<1> HIDE DEF Without
<1>4. <<>> \o Tail(ioQueue) = Tail(ioQueue)
  BY <1>3
<1> QED BY <1>1, <1>2, <1>4 DEF Without

\* What the dispatch of a message leaves of the queue.
LEMMA DispatchTakes ==
    ASSUME NEW S, ioQueue \in Seq(S), NEW cmd, NEW i \in MsgAt(cmd)
    PROVE  /\ i = 1 /\ ioQueue # <<>> /\ ioQueue[1].cmd = cmd /\ ioQueue[1] \in S
           /\ Without(i) \in Seq(S)
           /\ \A k \in DOMAIN Without(i) : k + 1 \in DOMAIN ioQueue /\ Without(i)[k] = ioQueue[k + 1]
<1>1. i = 1 /\ i \in DOMAIN ioQueue /\ ioQueue[1].cmd = cmd
  BY DEF MsgAt
<1>2. ioQueue # <<>>
  BY <1>1
<1> QED BY <1>1, <1>2, WithoutFirst, TakenFirst

-----------------------------------------------------------------------------
(* The invariant *)

LEMMA InitStep == Init => IInv
<1> SUFFICES ASSUME Init PROVE IInv
  OBVIOUS
<1>1. NoMsg # Create
  BY StartupAssumption
<1>2. TypeOK
  <2>1. {} \in Forms
    BY DEF Forms
  <2>2. asked \in [Clients -> Forms] /\ client \in [Clients -> {"away", "open", "asking", "answered", "echoed"}]
    BY <2>1 DEF Init
  <2>3. ioQueue \in Seq(Msgs \cup {Create}) /\ localMsgQueue \in Seq({m \in Msgs : m.dest = LoginVm})
    BY DEF Init
  <2> QED BY <2>2, <2>3 DEF Init, TypeOK
<1>3. /\ NothingBefore /\ IoInScript /\ LoginRegistered /\ KnownOnWay /\ LoginSettled /\ OwnRequests /\ OwnForms
      /\ CrashIsEarly /\ LoggedInByLogin
  BY <1>1 DEF Init, NothingBefore, IoInScript, LoginRegistered, KnownOnWay, LoginSettled, OwnRequests, OwnForms,
              CrashIsEarly, LoggedInByLogin
<1> QED BY <1>2, <1>3 DEF IInv

\* The steps of App::Run.
LEMMA AppKeeps == IInv /\ AppStep => IInv'
<1> USE DEF IInv, TypeOK, NothingBefore, IoInScript, LoginRegistered, KnownOnWay,
            LoginSettled, OwnRequests, OwnForms, CrashIsEarly, LoggedInByLogin,
            appVars, luaVars, useVars, Step
<1>1. IInv /\ NetStart => IInv'
  BY DEF NetStart
<1>2. IInv /\ NewService => IInv'
  BY DEF NewService
<1>3. IInv /\ StartIo => IInv'
  BY DEF StartIo
<1>4. IInv /\ PostCreate => IInv'
  <2> SUFFICES ASSUME IInv, PostCreate PROVE IInv'
    OBVIOUS
  <2>1. /\ ioQueue' \in Seq(Msgs \cup {Create}) /\ ioQueue' # <<>>
        /\ ioQueue # <<>> => Head(ioQueue') = Head(ioQueue)
        /\ ioQueue = <<>> => Head(ioQueue') = Create
        /\ \A i \in DOMAIN ioQueue' : ioQueue'[i] = Create \/ (i \in DOMAIN ioQueue /\ ioQueue'[i] = ioQueue[i])
    BY Posted DEF PostCreate
  <2>2. Create.cmd \notin {"MSG_RET_OK", "REQ_LOGIN", "CLIENT_MSG"}
    BY DEF Create
  <2>3. KnownOnWay' /\ OwnRequests' /\ OwnForms'
    BY <2>1, <2>2 DEF PostCreate
  <2>4. NothingBefore'
    BY <2>1 DEF PostCreate
  <2> QED BY <2>1, <2>3, <2>4 DEF PostCreate
<1>5. IInv /\ StartWorker => IInv'
  BY DEF StartWorker
<1> QED BY <1>1, <1>2, <1>3, <1>4, <1>5 DEF AppStep

\* A client's callback posts a message for the main machine.
LEMMA PostMsgKeeps ==
    ASSUME IInv, NEW m \in Msgs, m.cmd \in {"CLIENT_CONN", "CLIENT_MSG"}, PostMsg(m),
           client' \in [Clients -> {"away", "open", "asking", "answered", "echoed"}], asked' \in [Clients -> Forms],
           claimed \subseteq claimed', claimed' \in SUBSET Clients,
           m.cmd = "CLIENT_MSG" /\ {"error", "uid"} \subseteq m.form => m.fid \in claimed'
    PROVE  IInv'
<1> USE DEF IInv, TypeOK, NothingBefore, IoInScript, LoginRegistered, KnownOnWay,
            LoginSettled, OwnRequests, OwnForms, CrashIsEarly, LoggedInByLogin,
            luaVars
<1>1. m \in Msgs \cup {Create} /\ m.cmd # "MSG_RET_OK" /\ m.cmd # "REQ_LOGIN"
  OBVIOUS
<1>2. /\ pc' = pc /\ io' = io /\ vm' = vm /\ mapLvm' = mapLvm /\ loginServerId' = loginServerId
      /\ localMsgQueue' = localMsgQueue /\ sessions' = sessions /\ mapLogin' = mapLogin /\ accepted' = accepted
      /\ early' = (early \/ pc \in {"net", "service", "io"}) /\ pc # "main"
  BY DEF PostMsg
<1>3. CASE pc = "net"
  <2>1. crashed' = TRUE /\ ioQueue' = ioQueue /\ early' = TRUE
    BY <1>2, <1>3 DEF PostMsg
  <2> QED BY <1>2, <2>1
<1>4. CASE pc # "net"
  <2>1. ioQueue' = Append(ioQueue, m) /\ crashed' = crashed
    BY <1>4 DEF PostMsg
  <2>2. /\ ioQueue' \in Seq(Msgs \cup {Create}) /\ ioQueue' # <<>>
        /\ ioQueue # <<>> => Head(ioQueue') = Head(ioQueue)
        /\ \A i \in DOMAIN ioQueue' : ioQueue'[i] = m \/ (i \in DOMAIN ioQueue /\ ioQueue'[i] = ioQueue[i])
    BY <1>1, <2>1, Posted
  <2>3. KnownOnWay' /\ OwnRequests'
    BY <1>1, <1>2, <2>2
  <2>6. OwnForms'
    BY <1>1, <2>2 DEF OwnForms
  <2>4. NothingBefore'
    BY <1>2, <1>4, <2>2
  <2>5. early' \in BOOLEAN /\ CrashIsEarly'
    BY <1>2, <2>1
  <2> QED BY <1>2, <2>1, <2>2, <2>3, <2>4, <2>5, <2>6
<1> QED BY <1>3, <1>4

\* The scripts start, end and fail.
LEMMA ScriptKeeps ==
    ASSUME IInv, CreateMain \/ CreateLogin \/ \E ok \in BOOLEAN : LoginEnds(ok) \/ MainEnds(ok)
    PROVE  IInv'
<1> USE DEF IInv, TypeOK, NothingBefore, IoInScript, LoginRegistered, KnownOnWay,
            LoginSettled, OwnRequests, OwnForms, CrashIsEarly, LoggedInByLogin,
            appVars, useVars
<1>1. CASE CreateMain
  <2>1. ioQueue # <<>> /\ ioQueue' = Tail(ioQueue)
    BY <1>1 DEF CreateMain, IoReady
  <2>2. /\ ioQueue' \in Seq(Msgs \cup {Create})
        /\ \A i \in DOMAIN ioQueue' : i + 1 \in DOMAIN ioQueue /\ ioQueue'[i] = ioQueue[i + 1]
    BY <2>1, TakenFirst
  <2>3. vm'[MainVm] = "running" /\ vm'[LoginVm] = vm[LoginVm]
    BY <1>1 DEF CreateMain
  <2>4. KnownOnWay' /\ OwnRequests' /\ OwnForms'
    BY <1>1, <2>2, <2>3 DEF CreateMain
  <2> QED BY <1>1, <2>2, <2>3, <2>4 DEF CreateMain
<1>2. CASE CreateLogin
  BY <1>2 DEF CreateLogin
<1>3. ASSUME NEW ok \in BOOLEAN, LoginEnds(ok) PROVE IInv'
  <2>1. vm[MainVm] # "null" /\ vm'[MainVm] = vm[MainVm] /\ vm'[LoginVm] = IF ok THEN "serving" ELSE "failed"
    BY <1>3 DEF LoginEnds
  <2>2. LoginVm \notin mapLvm /\ localMsgQueue = <<>>
    BY <1>3 DEF LoginEnds
  <2> QED BY <1>3, <2>1, <2>2 DEF LoginEnds
<1>4. ASSUME NEW ok \in BOOLEAN, MainEnds(ok) PROVE IInv'
  <2>1. vm'[MainVm] = (IF ok THEN "serving" ELSE "failed") /\ vm'[LoginVm] = vm[LoginVm] /\ io' = NoMsg
    BY <1>4 DEF MainEnds
  <2>2. NoMsg # Create
    BY StartupAssumption
  <2> QED BY <1>4, <2>1, <2>2 DEF MainEnds
<1> QED BY <1>1, <1>2, <1>3, <1>4

\* The main machine dispatches.
LEMMA DispatchKeeps == IInv /\ IoDispatch => IInv'
<1> USE DEF IInv, TypeOK, NothingBefore, IoInScript, LoginRegistered, KnownOnWay,
            LoginSettled, OwnRequests, OwnForms, CrashIsEarly, LoggedInByLogin,
            appVars, luaVars, useVars
<1> SUFFICES ASSUME IInv, IoDispatch PROVE IInv'
  OBVIOUS
<1>q. ioQueue \in Seq(Msgs \cup {Create})
  OBVIOUS
<1>1. CASE DispatchNull
  <2>1. PICK m \in Msgs : MsgAt(m.cmd) # {}
    BY <1>1 DEF DispatchNull
  <2>2. PICK i : i \in MsgAt(m.cmd)
    BY <2>1
  <2>3. ioQueue # <<>> /\ Head(ioQueue).cmd = m.cmd
    BY <1>q, <2>2, DispatchTakes, TakenFirst
  <2>4. m.cmd # "create" /\ Create.cmd = "create"
    BY DEF Msgs, Create
  <2>5. pc \in {"io", "posted", "up"} /\ vm[MainVm] = "null"
    BY <1>1 DEF DispatchNull, IoReady
  <2>6. early
    BY <2>3, <2>4, <2>5
  <2> QED BY <1>1, <2>6 DEF DispatchNull
<1>2. CASE DispatchFailed
  <2>m. PICK m \in Msgs : \E i \in MsgAt(m.cmd) : ioQueue' = Without(i)
    BY <1>2 DEF DispatchFailed
  <2>1. PICK i \in MsgAt(m.cmd) : ioQueue' = Without(i)
    BY <2>m
  <2>2. /\ ioQueue' \in Seq(Msgs \cup {Create})
        /\ \A k \in DOMAIN ioQueue' : k + 1 \in DOMAIN ioQueue /\ ioQueue'[k] = ioQueue[k + 1]
    BY <1>q, <2>1, DispatchTakes
  <2>3. KnownOnWay' /\ OwnRequests' /\ OwnForms'
    BY <1>2, <2>2 DEF DispatchFailed
  <2> QED BY <1>2, <2>2, <2>3 DEF DispatchFailed
<1>3. CASE OnConnect
  <2>1. PICK i \in MsgAt("CLIENT_CONN") : Dispatching(i)
    BY <1>3 DEF OnConnect
  <2>2. /\ ioQueue' \in Seq(Msgs \cup {Create})
        /\ \A k \in DOMAIN ioQueue' : k + 1 \in DOMAIN ioQueue /\ ioQueue'[k] = ioQueue[k + 1]
    BY <1>q, <2>1, DispatchTakes DEF Dispatching
  <2>3. vm[MainVm] # "null"
    BY <2>1 DEF Dispatching
  <2>4. KnownOnWay' /\ OwnRequests' /\ OwnForms'
    BY <1>3, <2>2 DEF OnConnect
  <2> QED BY <1>3, <2>2, <2>3, <2>4 DEF OnConnect
<1>4. CASE OnLogin
  <2> DEFINE q(i) == Without(i)
             m(i) == [dest |-> loginServerId, cmd |-> "REQ_LOGIN", fid |-> ioQueue[i].fid, form |-> ioQueue[i].form]
  <2>1. PICK i \in MsgAt("CLIENT_MSG") : /\ ioQueue' = Append(q(i), m(i))
                                         /\ sessions' = sessions \cup {ioQueue[i].fid}
    BY <1>4 DEF OnLogin
  <2>2. /\ i = 1 /\ ioQueue[1].cmd = "CLIENT_MSG" /\ ioQueue[1] \in Msgs \cup {Create}
        /\ q(i) \in Seq(Msgs \cup {Create})
        /\ \A k \in DOMAIN q(i) : k + 1 \in DOMAIN ioQueue /\ q(i)[k] = ioQueue[k + 1]
    BY <1>q, <2>1, DispatchTakes
  <2>3. ioQueue[i].fid \in Clients /\ ioQueue[i].form \in Forms
    BY <2>2 DEF Msgs, Create
  <2>4. m(i) \in Msgs \cup {Create} /\ m(i).cmd # "MSG_RET_OK" /\ m(i).dest = loginServerId
    BY <2>3 DEF Msgs
  <2> HIDE DEF q, m
  <2>5. /\ ioQueue' \in Seq(Msgs \cup {Create})
        /\ \A k \in DOMAIN ioQueue' : ioQueue'[k] = m(i) \/ (k \in DOMAIN q(i) /\ ioQueue'[k] = q(i)[k])
    BY <2>1, <2>2, <2>4, Posted
  <2>6. vm[MainVm] = "serving" /\ vm' = vm
    <3>1. io = NoMsg /\ vm[MainVm] \in {"running", "serving"} /\ vm' = vm
      BY <1>4 DEF OnLogin, IoReady
    <3>2. NoMsg # Create
      BY StartupAssumption
    <3> QED BY <3>1, <3>2
  <2>7. loginServerId = MainVm => vm[LoginVm] = "failed"
    BY <2>6
  <2>8. KnownOnWay'
    BY <1>4, <2>2, <2>4, <2>5 DEF OnLogin
  <2>9. OwnRequests'
    BY <2>2, <2>4, <2>5, <2>6, <2>7
  <2>10. m(i).form = ioQueue[1].form /\ m(i).fid = ioQueue[1].fid /\ 1 \in DOMAIN ioQueue
    BY <2>2, <2>1, DispatchTakes, TakenFirst DEF m
  <2>11. OwnForms'
    <3>1. claimed' = claimed
      BY <1>4 DEF OnLogin
    <3>2. SUFFICES ASSUME NEW k \in DOMAIN ioQueue', ioQueue'[k].cmd \in {"CLIENT_MSG", "REQ_LOGIN"},
                          {"error", "uid"} \subseteq ioQueue'[k].form
                   PROVE  ioQueue'[k].fid \in claimed
      BY <3>1 DEF OwnForms
    <3>3. CASE ioQueue'[k] = m(i)
      BY <2>2, <2>10, <3>2, <3>3
    <3>4. CASE k \in DOMAIN q(i) /\ ioQueue'[k] = q(i)[k]
      BY <2>2, <3>2, <3>4
    <3> QED BY <2>5, <3>3, <3>4
  <2> QED BY <1>4, <2>1, <2>3, <2>5, <2>6, <2>8, <2>9, <2>11 DEF OnLogin
<1>5. CASE \E cmd \in {"REQ_LOGIN", "MSG_RET_OK", "MSG_RET_ERROR"} : OnLoginRet(cmd)
  <2>0. PICK cmd \in {"REQ_LOGIN", "MSG_RET_OK", "MSG_RET_ERROR"} : OnLoginRet(cmd)
    BY <1>5
  <2>1. PICK i \in MsgAt(cmd) :
           /\ ioQueue[i].fid \in sessions /\ ~LacksUid(ioQueue[i]) /\ Dispatching(i)
           /\ sessions' = sessions \ {ioQueue[i].fid}
           /\ mapLogin' = IF LogsIn(ioQueue[i]) THEN mapLogin \cup {ioQueue[i].fid} ELSE mapLogin
           /\ client' = [client EXCEPT ![ioQueue[i].fid] = IF cmd = "REQ_LOGIN" THEN "echoed" ELSE "answered"]
    BY <2>0 DEF OnLoginRet
  <2>2. /\ i = 1 /\ 1 \in DOMAIN ioQueue /\ ioQueue[1].cmd = cmd /\ ioQueue[1].dest = MainVm
        /\ ioQueue' \in Seq(Msgs \cup {Create})
        /\ \A k \in DOMAIN ioQueue' : k + 1 \in DOMAIN ioQueue /\ ioQueue'[k] = ioQueue[k + 1]
    BY <1>q, <2>1, DispatchTakes, TakenFirst DEF Dispatching, MsgAt
  <2>3. vm[MainVm] # "null" /\ vm' = vm /\ accepted' = accepted
    BY <2>0, <2>1 DEF Dispatching, OnLoginRet
  <2>4. LoggedInByLogin'
    <3>1. CASE cmd = "REQ_LOGIN"
      <4>1. vm[LoginVm] = "failed" /\ claimed' = claimed
        BY <2>0, <2>2, <3>1 DEF OnLoginRet
      <4>2. LogsIn(ioQueue[1]) => ioQueue[1].fid \in claimed
        BY <2>0, <2>1, <2>2, <3>1 DEF LogsIn, LacksUid, OnLoginRet
      <4> QED BY <2>1, <2>2, <2>3, <4>1, <4>2
    <3>2. CASE cmd # "REQ_LOGIN"
      <4>1. LogsIn(ioQueue[1]) => ioQueue[1].fid \in accepted
        BY <2>2, <3>2 DEF LogsIn
      <4>2. claimed' = claimed
        BY <2>0 DEF OnLoginRet
      <4> QED BY <2>1, <2>2, <2>3, <4>1, <4>2
    <3> QED BY <3>1, <3>2
  <2>5. KnownOnWay' /\ OwnRequests' /\ OwnForms'
    BY <2>0, <2>2, <2>3 DEF OnLoginRet
  <2>6. client' \in [Clients -> {"away", "open", "asking", "answered", "echoed"}] /\ sessions' \in SUBSET Clients
        /\ mapLogin' \in SUBSET Clients
    BY <2>1
  <2> QED BY <2>0, <2>2, <2>3, <2>4, <2>5, <2>6 DEF OnLoginRet
<1>6. CASE OnLoginRetRaises
  <2>1. PICK i \in MsgAt("REQ_LOGIN") : Dispatching(i)
    BY <1>6 DEF OnLoginRetRaises
  <2>2. /\ ioQueue' \in Seq(Msgs \cup {Create})
        /\ \A k \in DOMAIN ioQueue' : k + 1 \in DOMAIN ioQueue /\ ioQueue'[k] = ioQueue[k + 1]
    BY <1>q, <2>1, DispatchTakes DEF Dispatching
  <2>3. vm[MainVm] # "null"
    BY <2>1 DEF Dispatching
  <2>4. KnownOnWay' /\ OwnRequests' /\ OwnForms'
    BY <1>6, <2>2 DEF OnLoginRetRaises
  <2> QED BY <1>6, <2>2, <2>3, <2>4 DEF OnLoginRetRaises
<1> QED BY <1>1, <1>2, <1>3, <1>4, <1>5, <1>6 DEF IoDispatch

\* A message for the login machine waits for the worker.
LEMMA IoAddMsgKeeps == IInv /\ IoAddMsg => IInv'
<1> USE DEF IInv, TypeOK, NothingBefore, IoInScript, LoginRegistered, KnownOnWay,
            LoginSettled, OwnRequests, OwnForms, CrashIsEarly, LoggedInByLogin,
            appVars, luaVars, useVars
<1> SUFFICES ASSUME IInv, IoAddMsg PROVE IInv'
  OBVIOUS
<1>1. ioQueue # <<>> /\ Head(ioQueue).dest = LoginVm /\ LoginVm \in mapLvm
  BY DEF IoAddMsg, IoReady
<1>2. /\ Head(ioQueue) \in Msgs \cup {Create} /\ ioQueue' \in Seq(Msgs \cup {Create})
      /\ \A k \in DOMAIN ioQueue' : k + 1 \in DOMAIN ioQueue /\ ioQueue'[k] = ioQueue[k + 1]
  BY <1>1, TakenFirst DEF IoAddMsg
<1>3. Head(ioQueue) \in {m \in Msgs : m.dest = LoginVm}
  BY <1>1, <1>2 DEF Create
<1>4. localMsgQueue' \in Seq({m \in Msgs : m.dest = LoginVm})
  BY <1>3, Posted DEF IoAddMsg
<1>5. KnownOnWay' /\ OwnRequests' /\ OwnForms'
  BY <1>2 DEF IoAddMsg
<1>6. vm[MainVm] # "null"
  BY <1>1
<1> QED BY <1>1, <1>2, <1>4, <1>5, <1>6 DEF IoAddMsg

\* The worker's dispatch of a login.
LEMMA LoginAnswers == ASSUME IInv, NEW known \in BOOLEAN, WorkerDispatch(known) PROVE IInv'
<1> USE DEF IInv, TypeOK, NothingBefore, IoInScript, LoginRegistered, KnownOnWay,
            LoginSettled, OwnRequests, OwnForms, CrashIsEarly, LoggedInByLogin,
            appVars, luaVars, WorkerTakes
<1> DEFINE f == Head(localMsgQueue).fid
           m == [dest |-> MainVm, cmd |-> IF known THEN "MSG_RET_OK" ELSE "MSG_RET_ERROR", fid |-> f]
<1>1. localMsgQueue # <<>> /\ localMsgQueue' = Tail(localMsgQueue) /\ ioQueue' = Append(ioQueue, m)
      /\ accepted' = IF known THEN accepted \cup {f} ELSE accepted
  BY DEF WorkerDispatch
<1>2. Head(localMsgQueue) \in {x \in Msgs : x.dest = LoginVm} /\ localMsgQueue' \in Seq({x \in Msgs : x.dest = LoginVm})
  BY <1>1, TakenFirst
<1>3. f \in Clients
  BY <1>2 DEF Msgs
<1>4. m \in Msgs \cup {Create} /\ m.cmd # "REQ_LOGIN" /\ (m.cmd = "MSG_RET_OK" => m.fid \in accepted')
  BY <1>1, <1>3 DEF Msgs
<1> HIDE DEF m, f
<1>5. /\ ioQueue' \in Seq(Msgs \cup {Create})
      /\ \A i \in DOMAIN ioQueue' : ioQueue'[i] = m \/ (i \in DOMAIN ioQueue /\ ioQueue'[i] = ioQueue[i])
  BY <1>1, <1>4, Posted
<1>6. accepted \subseteq accepted' /\ accepted' \in SUBSET Clients
  BY <1>1, <1>3
<1>7. KnownOnWay' /\ OwnRequests' /\ OwnForms'
  BY <1>4, <1>5, <1>6 DEF WorkerDispatch
<1>8. vm[MainVm] # "null"
  BY <1>1
<1> QED BY <1>1, <1>2, <1>5, <1>6, <1>7, <1>8 DEF WorkerDispatch

\* The worker's dispatch of a login without data.
LEMMA LoginRaises == ASSUME IInv, WorkerRaises PROVE IInv'
<1> USE DEF IInv, TypeOK, NothingBefore, IoInScript, LoginRegistered, KnownOnWay,
            LoginSettled, OwnRequests, OwnForms, CrashIsEarly, LoggedInByLogin,
            appVars, luaVars, WorkerTakes, WorkerRaises
<1>1. localMsgQueue' \in Seq({m \in Msgs : m.dest = LoginVm})
  BY TakenFirst
<1> QED BY <1>1

\* Every step keeps the invariant.
LEMMA NextStep == IInv /\ [Next]_vars => IInv'
<1> SUFFICES ASSUME IInv, [Next]_vars PROVE IInv'
  OBVIOUS
<1>1. ASSUME NEW c \in Clients, Connect(c) \/ \E form \in Forms : Ask(c, form) PROVE IInv'
  <2>1. CASE Connect(c)
    <3>1. /\ client' \in [Clients -> {"away", "open", "asking", "answered", "echoed"}] /\ asked' \in [Clients -> Forms]
          /\ claimed' = claimed /\ claimed \in SUBSET Clients
      BY <2>1 DEF Connect, IInv, TypeOK
    <3>2. [dest |-> MainVm, cmd |-> "CLIENT_CONN", fid |-> c] \in Msgs
      BY DEF Msgs
    <3> QED BY <2>1, <3>1, <3>2, PostMsgKeeps DEF Connect
  <2>2. ASSUME NEW form \in Forms, Ask(c, form) PROVE IInv'
    <3>1. /\ client' \in [Clients -> {"away", "open", "asking", "answered", "echoed"}] /\ asked' \in [Clients -> Forms]
          /\ claimed \subseteq claimed' /\ claimed' \in SUBSET Clients
          /\ {"error", "uid"} \subseteq form => c \in claimed'
      BY <2>2 DEF Ask, IInv, TypeOK
    <3>2. [dest |-> MainVm, cmd |-> "CLIENT_MSG", fid |-> c, form |-> form] \in Msgs
      BY DEF Msgs
    <3> QED BY <2>2, <3>1, <3>2, PostMsgKeeps DEF Ask
  <2> QED BY <1>1, <2>1, <2>2
<1>2. CASE UNCHANGED vars
  BY <1>2 DEF vars, appVars, luaVars, useVars, IInv, TypeOK, NothingBefore, IoInScript, LoginRegistered, KnownOnWay,
              LoginSettled, OwnRequests, OwnForms, CrashIsEarly, LoggedInByLogin
<1>3. CASE IoStep
  BY <1>3, ScriptKeeps, DispatchKeeps, IoAddMsgKeeps DEF IoStep
<1>4. CASE WorkerStep
  BY <1>4, LoginAnswers, LoginRaises DEF WorkerStep
<1> QED BY <1>1, <1>2, <1>3, <1>4, AppKeeps DEF Next

-----------------------------------------------------------------------------
(* Theorems *)

\* The invariant: what exists before the main machine does, when the io thread
\* is within a script, and whose word it is that a user is known.
THEOREM Inductive == Spec => []IInv
BY InitStep, NextStep, PTL DEF Spec

\* Start-up, clients and failing scripts keep every variable in its type.
THEOREM StartupTypeCorrect == Spec => []TypeOK
<1>1. IInv => TypeOK
  BY DEF IInv
<1> QED BY <1>1, Inductive, PTL

\* For any number of clients, only one that comes before the main machine's
\* creation is posted makes the process die.
THEOREM CrashIsEarlyAlways == Spec => []CrashIsEarly
<1>1. IInv => CrashIsEarly
  BY DEF IInv
<1> QED BY <1>1, Inductive, PTL

\* Nobody is logged in but by the login machine or, where m_login.lua failed to
\* start, by a request with an error of 0 and a uid of the client's own.
THEOREM LoggedInByLoginAlways == Spec => []LoggedInByLogin
<1>1. IInv => LoggedInByLogin
  BY DEF IInv
<1> QED BY <1>1, Inductive, PTL

\* No message is dispatched to a machine whose script still runs.
THEOREM NoEarlyDispatchAlways == Spec => NoEarlyDispatch
<1> DEFINE A == /\ IoDispatch => vm[MainVm] # "running"
                /\ WorkerStep => vm[LoginVm] = "serving"
<1>1. IInv /\ [Next]_vars => [A]_vars
  <2> SUFFICES ASSUME IInv PROVE A
    OBVIOUS
  <2>1. ASSUME IoDispatch PROVE vm[MainVm] # "running"
    <3>1. io = NoMsg
      BY <2>1 DEF IoDispatch, DispatchNull, DispatchFailed, OnConnect, OnLogin,
                      OnLoginRet, OnLoginRetRaises, Dispatching, IoReady
    <3>2. NoMsg # Create
      BY StartupAssumption
    <3> QED BY <3>1, <3>2 DEF IInv, IoInScript
  <2>2. ASSUME WorkerStep PROVE vm[LoginVm] = "serving"
    BY <2>2 DEF WorkerStep, WorkerDispatch, WorkerRaises, WorkerTakes, IInv, LoginRegistered
  <2> QED BY <2>1, <2>2
<1> QED BY <1>1, Inductive, PTL DEF Spec, NoEarlyDispatch
=============================================================================
