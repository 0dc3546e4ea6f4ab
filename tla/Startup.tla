------------------------------ MODULE Startup ------------------------------
(***************************************************************************)
(* How the server comes up.  App::Run, on the thread of main(), calls      *)
(* NET::Start, after which clients can connect, and only then              *)
(* LvmMgr::Init, which makes the io_service and its thread, posts the      *)
(* creation of the main machine and starts the worker.  main.lua creates   *)
(* the login machine while it runs.  Each script may fail to load or run.  *)
(* What a client asks is whether it may log in, the request that takes the *)
(* two machines and all the threads; its form is what the client chose to  *)
(* write into it.                                                          *)
(***************************************************************************)
EXTENDS Naturals, Sequences

CONSTANTS Clients, NoMsg

MainVm  == 0        \* MAIN_LVM_ID, and what _CreateLvm returns on failure
LoginVm == 1        \* the first id _gen_id gives

\* What a client's request to log in may have: a data that can be indexed, in
\* it a uid that is a number or a string, and an error that is 0.
Forms == {f \in SUBSET {"data", "uid", "error"} : "uid" \in f => "data" \in f}

\* Handlers posted to io_service: _CreateLvm("main"), or _PostMsg of a message.
Create == [dest |-> MainVm, cmd |-> "create"]
Msgs ==
    [dest : {MainVm}, cmd : {"CLIENT_CONN", "MSG_RET_OK", "MSG_RET_ERROR"}, fid : Clients]
    \cup [dest : {MainVm}, cmd : {"CLIENT_MSG"}, fid : Clients, form : Forms]
    \cup [dest : {MainVm, LoginVm}, cmd : {"REQ_LOGIN"}, fid : Clients, form : Forms]

ASSUME StartupAssumption == NoMsg \notin Msgs \cup {Create}

VARIABLES
    pc,              \* how far App::Run has come
    crashed,         \* the process died of a null pointer
    ioQueue,         \* handlers posted to io_service
    io,              \* Create while the io thread runs it, or NoMsg
    vm,              \* per machine: what became of its script
    mapLvm,          \* ids registered in mapLvm
    loginServerId,   \* main.lua: self.loginServerId
    localMsgQueue,   \* of the login machine
    sessions,        \* clients for which OnLogin's callback waits in SessionCB
    mapLogin,        \* the keys of mapLoginFidToUid
    client,          \* per client, what it has done and seen
    asked,           \* per client, the form of its last request
    claimed,         \* history: clients that gave a request an error of 0 and a uid
    early,           \* history: a client came before Create was posted
    accepted         \* history: clients whose user the login machine knew

appVars == <<pc, early>>
luaVars == <<vm, mapLvm, loginServerId>>
useVars == <<sessions, mapLogin, client, asked, claimed, accepted>>
vars == <<appVars, crashed, ioQueue, io, luaVars, localMsgQueue, useVars>>

Init ==
    /\ pc = "main" /\ crashed = FALSE /\ early = FALSE
    /\ ioQueue = <<>> /\ io = NoMsg
    /\ vm = [v \in {MainVm, LoginVm} |-> "null"]
    /\ mapLvm = {} /\ loginServerId = MainVm
    /\ localMsgQueue = <<>>
    /\ sessions = {} /\ mapLogin = {} /\ accepted = {} /\ claimed = {}
    /\ client = [c \in Clients |-> "away"]
    /\ asked = [c \in Clients |-> {}]

-----------------------------------------------------------------------------
(* App::Run *)

Step(from, to) == pc = from /\ ~crashed /\ pc' = to /\ UNCHANGED early

\* NET::Start: the ws thread listens (the HTTP thread waits for requests).
NetStart ==
    /\ Step("main", "net")
    /\ UNCHANGED <<crashed, ioQueue, io, luaVars, localMsgQueue, useVars>>

\* LvmMgr::Init: io_service is made, then the thread that runs it.
NewService ==
    /\ Step("net", "service")
    /\ UNCHANGED <<crashed, ioQueue, io, luaVars, localMsgQueue, useVars>>

StartIo ==
    /\ Step("service", "io")
    /\ UNCHANGED <<crashed, ioQueue, io, luaVars, localMsgQueue, useVars>>

\* Mutant: the main machine is created by a call instead of a post.
PostCreateCalls ==
    /\ Step("io", "posted")
    /\ vm' = [vm EXCEPT ![MainVm] = "running"]
    /\ UNCHANGED <<crashed, ioQueue, io, mapLvm, loginServerId, localMsgQueue, useVars>>

PostCreate ==
    /\ Step("io", "posted")
    /\ ioQueue' = Append(ioQueue, Create)
    /\ UNCHANGED <<crashed, io, luaVars, localMsgQueue, useVars>>

StartWorker ==
    /\ Step("posted", "up")
    /\ UNCHANGED <<crashed, ioQueue, io, luaVars, localMsgQueue, useVars>>

AppStep == NetStart \/ NewService \/ StartIo \/ PostCreate \/ StartWorker

-----------------------------------------------------------------------------
(* The ws thread *)

\* onConnection, onMessage and LvmMgr::PostMsg: without an io_service there is
\* a null pointer to post to.
PostMsg(m) ==
    /\ pc # "main" /\ ~crashed
    /\ early' = (early \/ pc \in {"net", "service", "io"})
    /\ IF pc = "net" THEN crashed' = TRUE /\ UNCHANGED ioQueue
       ELSE /\ ioQueue' = Append(ioQueue, m)
            /\ UNCHANGED crashed
    /\ UNCHANGED <<pc, io, luaVars, localMsgQueue, sessions, mapLogin, accepted>>

Connect(c) ==
    /\ client[c] = "away"
    /\ client' = [client EXCEPT ![c] = "open"]
    /\ PostMsg([dest |-> MainVm, cmd |-> "CLIENT_CONN", fid |-> c])
    /\ UNCHANGED <<asked, claimed>>

\* A client asks to log in, and again only when it has its answer.
Ask(c, form) ==
    /\ client[c] \in {"open", "answered", "echoed"}
    /\ client' = [client EXCEPT ![c] = "asking"]
    /\ asked' = [asked EXCEPT ![c] = form]
    /\ claimed' = IF {"error", "uid"} \subseteq form THEN claimed \cup {c} ELSE claimed
    /\ PostMsg([dest |-> MainVm, cmd |-> "CLIENT_MSG", fid |-> c, form |-> form])

-----------------------------------------------------------------------------
(* The io thread: the scripts start *)

IoReady == pc \in {"io", "posted", "up"} /\ ~crashed /\ io = NoMsg /\ ioQueue # <<>>

\* _CreateLvm("main"): _lvmMain points to the machine before its Init.
CreateMain ==
    /\ IoReady /\ Head(ioQueue) = Create
    /\ io' = Create
    /\ ioQueue' = Tail(ioQueue)
    /\ vm' = [vm EXCEPT ![MainVm] = "running"]
    /\ UNCHANGED <<appVars, crashed, mapLvm, loginServerId, localMsgQueue, useVars>>

\* Main:init reaches CreateLvm, a call within LVM::Init of the main machine.
CreateLogin ==
    /\ ~crashed /\ vm[MainVm] = "running" /\ vm[LoginVm] = "null"
    /\ vm' = [vm EXCEPT ![LoginVm] = "running"]
    /\ UNCHANGED <<appVars, crashed, ioQueue, io, mapLvm, loginServerId, localMsgQueue, useVars>>

\* Mutant: the id is returned whether or not the machine was registered.
LoginEndsWithId(ok) ==
    /\ ~crashed /\ vm[LoginVm] = "running"
    /\ vm' = [vm EXCEPT ![LoginVm] = IF ok THEN "serving" ELSE "failed"]
    /\ loginServerId' = LoginVm
    /\ mapLvm' = IF ok THEN mapLvm \cup {LoginVm} ELSE mapLvm
    /\ UNCHANGED <<appVars, crashed, ioQueue, io, localMsgQueue, useVars>>

\* LVM::Init of the login machine, then the end of _CreateLvm and of CreateLvm.
LoginEnds(ok) ==
    /\ ~crashed /\ vm[LoginVm] = "running"
    /\ vm' = [vm EXCEPT ![LoginVm] = IF ok THEN "serving" ELSE "failed"]
    /\ loginServerId' = IF ok THEN LoginVm ELSE MainVm
    /\ mapLvm' = IF ok THEN mapLvm \cup {LoginVm} ELSE mapLvm
    /\ UNCHANGED <<appVars, crashed, ioQueue, io, localMsgQueue, useVars>>

\* LVM::Init of the main machine: with an error it ends anywhere but inside
\* CreateLvm, and _lvmMain stays without its callbacks and out of mapLvm.
MainEnds(ok) ==
    /\ ~crashed /\ vm[MainVm] = "running" /\ vm[LoginVm] # "running"
    /\ ok => vm[LoginVm] # "null"
    /\ vm' = [vm EXCEPT ![MainVm] = IF ok THEN "serving" ELSE "failed"]
    /\ mapLvm' = IF ok THEN mapLvm \cup {MainVm} ELSE mapLvm
    /\ io' = NoMsg
    /\ UNCHANGED <<appVars, crashed, ioQueue, loginServerId, localMsgQueue, useVars>>

-----------------------------------------------------------------------------
(* The io thread: messages *)

\* Mutant: several threads run io_service, and one handler overtakes another.
MsgAtAny(cmd) ==
    {i \in DOMAIN ioQueue : ioQueue[i].cmd = cmd /\ ioQueue[i].dest = MainVm}

\* The message _PostMsg hands to the main machine, as the set of its positions.
MsgAt(cmd) ==
    {i \in DOMAIN ioQueue : i = 1 /\ ioQueue[i].cmd = cmd /\ ioQueue[i].dest = MainVm}

Without(i) == SubSeq(ioQueue, 1, i - 1) \o SubSeq(ioQueue, i + 1, Len(ioQueue))

\* _PostMsg, before _lvmMain was assigned.
DispatchNull ==
    /\ IoReady /\ vm[MainVm] = "null"
    /\ \E m \in Msgs : MsgAt(m.cmd) # {}
    /\ crashed' = TRUE
    /\ UNCHANGED <<appVars, ioQueue, io, luaVars, localMsgQueue, useVars>>

\* LVM::Dispatch of a machine whose script failed logs an error.
DispatchFailed ==
    /\ IoReady /\ vm[MainVm] = "failed"
    /\ \E m \in Msgs : \E i \in MsgAt(m.cmd) : ioQueue' = Without(i)
    /\ UNCHANGED <<appVars, crashed, io, luaVars, localMsgQueue, useVars>>

Dispatching(i) == IoReady /\ vm[MainVm] \in {"running", "serving"} /\ ioQueue' = Without(i)

\* ConnMgr:OnConnect only logs.
OnConnect ==
    /\ \E i \in MsgAt("CLIENT_CONN") : Dispatching(i)
    /\ UNCHANGED <<appVars, crashed, io, luaVars, localMsgQueue, useVars>>

\* ConnMgr:OnLogin: BASE.PostMessage of the client's own JSON, with a session
\* for the callback.
OnLogin ==
    /\ IoReady /\ vm[MainVm] \in {"running", "serving"}
    /\ \E i \in MsgAt("CLIENT_MSG") :
         /\ ioQueue' = Append(Without(i),
                [dest |-> loginServerId, cmd |-> "REQ_LOGIN", fid |-> ioQueue[i].fid,
                 form |-> ioQueue[i].form])
         /\ sessions' = sessions \cup {ioQueue[i].fid}
    /\ UNCHANGED <<appVars, crashed, io, luaVars, localMsgQueue, mapLogin, client, asked, claimed, accepted>>

\* Mutant: whatever comes back logs the client in.
LogsInAny(m) == TRUE

\* The callback of OnLogin looks for error 0 in the message it gets: the login
\* machine's answer or, when loginServerId is that of the main machine itself,
\* the client's request, with every field the client gave it.
LogsIn(m) == m.cmd = "MSG_RET_OK" \/ (m.cmd = "REQ_LOGIN" /\ "error" \in m.form)

\* SetLogin, of a message without a uid to log or without a data to look in.
LacksUid(m) == m.cmd = "REQ_LOGIN" /\ "error" \in m.form /\ "uid" \notin m.form

\* TS.Dispatch calls the callback that waits for the session, whatever the
\* message is, and the client gets that message.
OnLoginRet(cmd) ==
    /\ \E i \in MsgAt(cmd) :
         LET m == ioQueue[i] IN
         /\ m.fid \in sessions /\ ~LacksUid(m)
         /\ Dispatching(i)
         /\ sessions' = sessions \ {m.fid}
         /\ mapLogin' = IF LogsIn(m) THEN mapLogin \cup {m.fid} ELSE mapLogin
         /\ client' = [client EXCEPT ![m.fid] = IF cmd = "REQ_LOGIN" THEN "echoed" ELSE "answered"]
    /\ UNCHANGED <<appVars, crashed, io, luaVars, localMsgQueue, asked, claimed, accepted>>

\* The callback raises in SetLogin: no SendToClient, and the session is kept.
OnLoginRetRaises ==
    /\ \E i \in MsgAt("REQ_LOGIN") :
         /\ ioQueue[i].fid \in sessions /\ LacksUid(ioQueue[i])
         /\ Dispatching(i)
    /\ UNCHANGED <<appVars, crashed, io, luaVars, localMsgQueue, useVars>>

IoDispatch ==
    \/ DispatchNull
    \/ DispatchFailed
    \/ OnConnect
    \/ OnLogin
    \/ \E cmd \in {"REQ_LOGIN", "MSG_RET_OK", "MSG_RET_ERROR"} : OnLoginRet(cmd)
    \/ OnLoginRetRaises

\* Mutant: every registered machine has its messages queued for the worker.
IoAddMsgMain ==
    /\ IoReady /\ Head(ioQueue) # Create /\ Head(ioQueue).dest \in mapLvm
    /\ localMsgQueue' = Append(localMsgQueue, Head(ioQueue))
    /\ ioQueue' = Tail(ioQueue)
    /\ UNCHANGED <<appVars, crashed, io, luaVars, useVars>>

\* _PostMsg of a message for the login machine.
IoAddMsg ==
    /\ IoReady /\ Head(ioQueue).dest \in mapLvm \ {MainVm}
    /\ localMsgQueue' = Append(localMsgQueue, Head(ioQueue))
    /\ ioQueue' = Tail(ioQueue)
    /\ UNCHANGED <<appVars, crashed, io, luaVars, useVars>>

IoStep ==
    \/ CreateMain \/ CreateLogin
    \/ \E ok \in BOOLEAN : LoginEnds(ok) \/ MainEnds(ok)
    \/ IoDispatch \/ IoAddMsg

-----------------------------------------------------------------------------
(* The worker: ProcessMsg, with Login:OnLogin as the handler *)

WorkerTakes ==
    /\ pc = "up" /\ ~crashed /\ localMsgQueue # <<>>
    /\ localMsgQueue' = Tail(localMsgQueue)
    /\ UNCHANGED <<appVars, crashed, io, luaVars, sessions, mapLogin, client, asked, claimed>>

WorkerDispatch(known) ==
    LET m == Head(localMsgQueue) IN
    /\ WorkerTakes
    /\ "data" \in m.form
    /\ ioQueue' = Append(ioQueue,
            [dest |-> MainVm, cmd |-> IF known THEN "MSG_RET_OK" ELSE "MSG_RET_ERROR", fid |-> m.fid])
    /\ accepted' = IF known THEN accepted \cup {m.fid} ELSE accepted

\* msg.data.username of a request without data raises: no RetMessage.
WorkerRaises ==
    /\ WorkerTakes
    /\ "data" \notin Head(localMsgQueue).form
    /\ UNCHANGED <<ioQueue, accepted>>

WorkerStep == WorkerRaises \/ \E known \in BOOLEAN : WorkerDispatch(known)

Next ==
    \/ AppStep
    \/ \E c \in Clients : Connect(c) \/ \E form \in Forms : Ask(c, form)
    \/ IoStep
    \/ WorkerStep

Spec == Init /\ [][Next]_vars

\* The threads run on, and scripts end; clients need do nothing.
FairSpec ==
    /\ Spec
    /\ WF_vars(AppStep) /\ WF_vars(IoStep) /\ WF_vars(WorkerStep)
-----------------------------------------------------------------------------
(* Properties *)

\* Type invariant.
TypeOK ==
    /\ pc \in {"main", "net", "service", "io", "posted", "up"}
    /\ crashed \in BOOLEAN /\ early \in BOOLEAN
    /\ ioQueue \in Seq(Msgs \cup {Create})
    /\ io \in {Create, NoMsg}
    /\ vm \in [{MainVm, LoginVm} -> {"null", "running", "serving", "failed"}]
    /\ mapLvm \in SUBSET {MainVm, LoginVm}
    /\ loginServerId \in {MainVm, LoginVm}
    /\ localMsgQueue \in Seq({m \in Msgs : m.dest = LoginVm})
    /\ sessions \in SUBSET Clients /\ mapLogin \in SUBSET Clients /\ accepted \in SUBSET Clients
    /\ client \in [Clients -> {"away", "open", "asking", "answered", "echoed"}]
    /\ asked \in [Clients -> Forms] /\ claimed \in SUBSET Clients

\* The server dies of start-up only by a client that came between NET::Start
\* and the post of _CreateLvm("main"): once that is posted, the main machine
\* is there before any message is dispatched to it, however slow the io
\* thread, the scripts and the worker's start are.
CrashIsEarly == crashed => early

\* No message is dispatched to a machine whose script still runs, although
\* _lvmMain is assigned before Init and ids are handed out within it.
NoEarlyDispatch ==
    [][/\ IoDispatch => vm[MainVm] # "running"
       /\ WorkerStep => vm[LoginVm] = "serving"]_vars

\* While m_login.lua has not failed to start, nobody is logged in but by the
\* login machine, whatever a client writes into its requests and in whichever
\* order requests, answers and the start of the scripts come. When it failed,
\* the main machine takes a client's own request for the answer: then those
\* are logged in who gave a request of theirs an error of 0 and a uid, and
\* still nobody else.
LoggedInByLogin ==
    \A c \in mapLogin : c \in accepted \/ (vm[LoginVm] = "failed" /\ c \in claimed)

\* A request that makes a script raise before it answers: in Login:OnLogin,
\* or, without a login machine, in the main machine's SetLogin.
Unanswerable(c) ==
    \/ vm[LoginVm] = "serving" /\ "data" \notin asked[c]
    \/ vm[LoginVm] = "failed" /\ "error" \in asked[c] /\ "uid" \notin asked[c]

\* Every request to log in that no script raises on is answered or sent back,
\* with the login machine or without, unless the process died or main.lua
\* failed.
Answered ==
    \A c \in Clients :
        client[c] = "asking"
            ~> \/ client[c] \in {"answered", "echoed"} \/ Unanswerable(c)
               \/ crashed \/ vm[MainVm] = "failed"
=============================================================================
