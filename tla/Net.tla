-------------------------------- MODULE Net --------------------------------
(***************************************************************************)
(* The websocket side of cpp/net.cpp: the ids of clients, the map from an  *)
(* id to its uWS::WebSocket, its mutex, and what the main machine is told. *)
(* The ws thread runs the uWS callbacks; SendClient and CloseClient run on *)
(* the thread of the Lua code that calls them.  The life of a WebSocket is *)
(* that of third/uWebSockets/src/WebSocket.cpp: close() answers a close    *)
(* frame, onEnd() ends a connection that broke (code 1006), a closedown    *)
(* that finished, and, through terminate(), one the server drops.          *)
(***************************************************************************)
EXTENDS Integers

CONSTANTS Socks,    \* addresses a WebSocket object may live at
          IdTop,    \* the largest uint32_t (bound: a small one wraps soon)
          NoSock

Ids == 0 .. IdTop

ASSUME NetAssumption == IdTop \in Nat \ {0} /\ NoSock \notin Socks

Code1006 == 1006
Code1000 == 1000

VARIABLES
    wsGenId,     \* _WS_GEN_ID
    mapWSConn,   \* id |-> socket, NoSock when the id is not in the map
    lock,        \* m_lockWSConn: "free", or the thread that holds it
    sock,        \* per address: "free", "open", or "closing" (isShuttingDown)
    userData,    \* per address: the id kept by setUserData
    wsPost,      \* what the ws thread posts next, [cmd, id]; cmd "" for nothing
    closeId,     \* CloseClient in progress: its wid
    closePc,     \* and its next step: "", "find", "terminate", "erase", "unlock"
    told,        \* history: ids the main machine knows as connected
    lost         \* history: ids whose WebSocket ended with code 1006

wsVars    == <<sock, userData>>
closeVars == <<closeId, closePc>>
vars      == <<wsGenId, mapWSConn, lock, wsVars, wsPost, closeVars, told, lost>>

NoPost == [cmd |-> "", id |-> 0]

Init ==
    /\ wsGenId = 0
    /\ mapWSConn = [id \in Ids |-> NoSock]
    /\ lock = "free"
    /\ sock = [s \in Socks |-> "free"]
    /\ userData = [s \in Socks |-> 0]
    /\ wsPost = NoPost
    /\ closeId = 0
    /\ closePc = ""
    /\ told = {}
    /\ lost = {}

-----------------------------------------------------------------------------
(* The ws thread *)

\* The id AllocId finds after k increments; uint32_t wraps around.
Candidate(k) ==
    LET id == (IF wsGenId >= IdTop THEN 0 ELSE wsGenId) + k IN
    IF id > IdTop THEN id - (IdTop + 1) ELSE id

\* Mutants: the map is not looked at; the counter does not wrap.
AllocIdBlind == Candidate(1)
AllocIdWide == wsGenId + 1

FreeSteps == {k \in 1 .. IdTop + 1 : mapWSConn[Candidate(k)] = NoSock}

\* NET::AllocId: the first id that is not in the map.
AllocId == Candidate(CHOOSE k \in FreeSteps : \A j \in FreeSteps : k <= j)

\* The event loop takes the next event when the last callback has returned;
\* a callback that takes the lock waits for it.
WsIdle  == wsPost = NoPost
WsReady == WsIdle /\ lock = "free"

\* onConnection, up to the unlock.  With every id in the map AllocId would
\* not return: the bound on IdTop excludes it.
OnConnection(s) ==
    /\ WsReady
    /\ \E id \in Ids : mapWSConn[id] = NoSock
    /\ sock[s] = "free"
    /\ sock' = [sock EXCEPT ![s] = "open"]
    /\ userData' = [userData EXCEPT ![s] = AllocId]
    /\ mapWSConn' = [mapWSConn EXCEPT ![AllocId] = s]
    /\ wsGenId' = AllocId
    /\ lost' = lost \ {AllocId}
    /\ wsPost' = [cmd |-> "CLIENT_CONN", id |-> AllocId]
    /\ UNCHANGED <<lock, closeVars, told>>

\* onMessage, up to the unlock; a socket shutting down reads nothing more.
OnMessage(s) ==
    /\ WsReady
    /\ sock[s] = "open"
    /\ wsPost' = [cmd |-> "CLIENT_MSG", id |-> userData[s]]
    /\ UNCHANGED <<wsGenId, mapWSConn, lock, wsVars, closeVars, told, lost>>

\* Mutants of Ignored: no code is special; every code is.
IgnoredNever(code) == FALSE
IgnoredAlways(code) == TRUE

\* onDisconnection does nothing at all for code 1006.
Ignored(code) == code = Code1006

\* WebSocket::close on a close frame of the peer: onDisconnection with the
\* peer's code, then the closedown handshake goes on in the background.
OnClose(s) ==
    /\ WsReady
    /\ sock[s] = "open"
    /\ sock' = [sock EXCEPT ![s] = "closing"]
    /\ IF Ignored(Code1000) THEN UNCHANGED <<mapWSConn, wsPost>>
       ELSE /\ mapWSConn' = [mapWSConn EXCEPT ![userData[s]] = NoSock]
            /\ wsPost' = [cmd |-> "CLIENT_DISCONN", id |-> userData[s]]
    /\ UNCHANGED <<wsGenId, lock, userData, closeVars, told, lost>>

\* The object is deleted.
Free(s) ==
    /\ sock' = [sock EXCEPT ![s] = "free"]
    /\ userData' = [userData EXCEPT ![s] = 0]

\* WebSocket::onEnd of an open socket: the connection broke, or a frame was
\* refused (forceClose).  onDisconnection gets 1006, the object is freed.
OnEnd(s) ==
    /\ WsIdle
    /\ Ignored(Code1006) \/ lock = "free"
    /\ sock[s] = "open"
    /\ Free(s)
    /\ lost' = lost \cup {userData[s]}
    /\ IF Ignored(Code1006) THEN UNCHANGED <<mapWSConn, wsPost>>
       ELSE /\ mapWSConn' = [mapWSConn EXCEPT ![userData[s]] = NoSock]
            /\ wsPost' = [cmd |-> "CLIENT_DISCONN", id |-> userData[s]]
    /\ UNCHANGED <<wsGenId, lock, closeVars, told>>

\* WebSocket::onEnd of a socket shutting down, or its timeout: no callback.
OnShutdownEnd(s) ==
    /\ WsIdle
    /\ sock[s] = "closing"
    /\ Free(s)
    /\ UNCHANGED <<wsGenId, mapWSConn, lock, wsPost, closeVars, told, lost>>

\* The PostMsg of each callback, after the unlock.
Post ==
    /\ wsPost # NoPost
    /\ told' = CASE wsPost.cmd = "CLIENT_CONN" -> told \cup {wsPost.id}
                 [] wsPost.cmd = "CLIENT_DISCONN" -> told \ {wsPost.id}
                 [] OTHER -> told
    /\ wsPost' = NoPost
    /\ UNCHANGED <<wsGenId, mapWSConn, lock, wsVars, closeVars, lost>>

-----------------------------------------------------------------------------
(* A Lua thread *)

\* SendClient(wid), all of it under the lock, writes to this socket; it
\* changes nothing else.
Recipient(wid) == mapWSConn[wid]

\* CloseClient(wid) for an id the main machine was told of.
CloseClient(wid) ==
    /\ closePc = ""
    /\ wid \in told
    /\ closeId' = wid
    /\ closePc' = "find"
    /\ UNCHANGED <<wsGenId, mapWSConn, lock, wsVars, wsPost, told, lost>>

CloseFind ==
    /\ closePc = "find"
    /\ lock = "free"
    /\ lock' = "lua"
    /\ closePc' = IF mapWSConn[closeId] = NoSock THEN "unlock" ELSE "terminate"
    /\ UNCHANGED <<wsGenId, mapWSConn, wsVars, wsPost, closeId, told, lost>>

\* terminate() under the lock: onEnd calls onDisconnection on this thread,
\* which would take the lock again were the code not ignored.  A pointer to a
\* freed object is left alone here: what the write does is undefined.
CloseTerminate ==
    LET s == mapWSConn[closeId] IN
    /\ closePc = "terminate"
    /\ Ignored(Code1006) \/ lock = "free"
    /\ Free(s)
    /\ lost' = IF sock[s] = "open" THEN lost \cup {userData[s]} ELSE lost
    /\ closePc' = "erase"
    /\ UNCHANGED <<wsGenId, mapWSConn, lock, wsPost, closeId, told>>

CloseErase ==
    /\ closePc = "erase"
    /\ mapWSConn' = [mapWSConn EXCEPT ![closeId] = NoSock]
    /\ closePc' = "unlock"
    /\ UNCHANGED <<wsGenId, lock, wsVars, wsPost, closeId, told, lost>>

CloseUnlock ==
    /\ closePc = "unlock"
    /\ lock' = "free"
    /\ closePc' = ""
    /\ closeId' = 0
    /\ UNCHANGED <<wsGenId, mapWSConn, wsVars, wsPost, told, lost>>

-----------------------------------------------------------------------------
CloseStep ==
    \/ CloseFind
    \/ CloseTerminate
    \/ CloseErase
    \/ CloseUnlock

Next ==
    \/ \E s \in Socks :
          OnConnection(s) \/ OnMessage(s) \/ OnClose(s) \/ OnEnd(s) \/ OnShutdownEnd(s)
    \/ Post
    \/ \E wid \in Ids : CloseClient(wid)
    \/ CloseStep

Spec == Init /\ [][Next]_vars

\* A thread that has begun a callback or a call goes on with it.
FairSpec == Spec /\ WF_vars(Post) /\ WF_vars(CloseStep)
-----------------------------------------------------------------------------
(* Properties *)

\* Type invariant.
TypeOK ==
    /\ wsGenId \in Ids
    /\ mapWSConn \in [Ids -> Socks \cup {NoSock}]
    /\ lock \in {"free", "lua"}
    /\ sock \in [Socks -> {"free", "open", "closing"}]
    /\ userData \in [Socks -> Ids]
    /\ wsPost \in [cmd : {"", "CLIENT_CONN", "CLIENT_MSG", "CLIENT_DISCONN"}, id : Ids]
    /\ closeId \in Ids
    /\ closePc \in {"", "find", "terminate", "erase", "unlock"}
    /\ told \in SUBSET Ids
    /\ lost \in SUBSET Ids

\* What SendClient writes for a client reaches that client: an id in the map
\* leads to the open socket that carries it.  The exception is an id whose
\* connection ended with code 1006, whose entry is left to dangle.
RightSocket ==
    \A id \in Ids \ lost :
        Recipient(id) # NoSock => sock[Recipient(id)] = "open" /\ userData[Recipient(id)] = id

\* Every open connection can be reached under its id, through every wrap of
\* _WS_GEN_ID, every dangling entry and every reuse of an address; so no two
\* open connections share an id.
Reachable ==
    \A s \in Socks : sock[s] = "open" => mapWSConn[userData[s]] = s

\* The main machine learns of connections in order, and an id it believes
\* connected is, or its CLIENT_DISCONN is being posted, or it was lost to
\* code 1006.
ToldRight ==
    /\ \A id \in told :
          \/ \E s \in Socks : sock[s] = "open" /\ userData[s] = id
          \/ wsPost = [cmd |-> "CLIENT_DISCONN", id |-> id]
          \/ id \in lost
    /\ \A s \in Socks :
          sock[s] = "open" =>
              userData[s] \in told \/ wsPost = [cmd |-> "CLIENT_CONN", id |-> userData[s]]
    /\ wsPost.cmd = "CLIENT_MSG" => wsPost.id \in told

\* m_lockWSConn is not recursive, and terminate() calls onDisconnection while
\* CloseClient holds it: the lock is released all the same.
LockReleased == lock # "free" ~> lock = "free"
=============================================================================
