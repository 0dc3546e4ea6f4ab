----------------------------- MODULE NetProofs -----------------------------
(***************************************************************************)
(* Theorems about Net, for every number of sockets and every width of the  *)
(* id counter.                                                             *)
(***************************************************************************)
EXTENDS Net, WellFoundedInduction, TLAPS

-----------------------------------------------------------------------------
(* NET::AllocId *)

\* A set of numbers that is not empty has a least element.
LEMMA LeastNat ==
    ASSUME NEW S, S \subseteq Nat, S # {}
    PROVE  \E k \in S : \A j \in S : k <= j
<1>1. \E x \in S : \A y \in S : ~(<<y, x>> \in OpToRel(<, Nat))
  BY NatLessThanWellFounded, WFMin
<1>2. PICK k \in S : \A j \in S : ~(<<j, k>> \in OpToRel(<, Nat))
  BY <1>1
<1>3. ASSUME NEW j \in S, j < k PROVE <<j, k>> \in OpToRel(<, Nat)
  BY <1>3 DEF OpToRel
<1>4. \A j \in S : ~(j < k)
  BY <1>2, <1>3, Zenon
<1>5. QED
  BY <1>4

\* While some id is free, the loop of AllocId ends with a free id.
LEMMA AllocIdFree ==
    ASSUME wsGenId \in Ids, \E id \in Ids : mapWSConn[id] = NoSock
    PROVE  AllocId \in Ids /\ mapWSConn[AllocId] = NoSock
<1>1. FreeSteps \subseteq Nat
  BY NetAssumption DEF FreeSteps
<1>2. FreeSteps # {}
  <2>1. PICK id \in Ids : mapWSConn[id] = NoSock
    OBVIOUS
  <2> DEFINE start == IF wsGenId >= IdTop THEN 0 ELSE wsGenId
             k == IF id > start THEN id - start ELSE id - start + IdTop + 1
  <2>2. k \in 1 .. IdTop + 1 /\ Candidate(k) = id
    BY NetAssumption DEF Candidate, Ids
  <2>3. QED
    BY <2>1, <2>2 DEF FreeSteps
<1> DEFINE first == CHOOSE k \in FreeSteps : \A j \in FreeSteps : k <= j
<1>3. first \in FreeSteps
  BY <1>1, <1>2, LeastNat
<1>4. AllocId = Candidate(first)
  BY DEF AllocId
<1>5. Candidate(first) \in Ids
  BY <1>3, NetAssumption DEF Candidate, Ids, FreeSteps
<1>6. mapWSConn[Candidate(first)] = NoSock
  BY <1>3 DEF FreeSteps
<1>7. QED
  BY <1>4, <1>5, <1>6

-----------------------------------------------------------------------------
(* The inductive invariant *)

\* CloseClient holds the lock from its search to its end.
LockHeld == lock = "lua" <=> closePc \in {"terminate", "erase", "unlock"}

\* It found a socket, and no open socket has the id it is about to erase.
Closing ==
    /\ closePc = "terminate" => mapWSConn[closeId] \in Socks
    /\ closePc = "erase" => \A s \in Socks : sock[s] = "open" => userData[s] # closeId

\* A client the main machine is being told has left is not connected.
Leaving ==
    wsPost.cmd = "CLIENT_DISCONN" =>
        \A s \in Socks : sock[s] = "open" => userData[s] # wsPost.id

\* One it is being told of is connected, or was lost since.
Connecting ==
    wsPost.cmd = "CLIENT_CONN" =>
        (\E s \in Socks : sock[s] = "open" /\ userData[s] = wsPost.id) \/ wsPost.id \in lost

IInv ==
    /\ TypeOK
    /\ LockHeld
    /\ Closing
    /\ Leaving
    /\ Connecting
    /\ Reachable
    /\ RightSocket
    /\ ToldRight

LEMMA InitIInv == Init => IInv
<1> SUFFICES ASSUME Init PROVE IInv
  OBVIOUS
<1>0. 0 \in Ids
  BY NetAssumption DEF Ids
<1>1. TypeOK
  BY <1>0 DEF Init, TypeOK, NoPost
<1>2. \A s \in Socks : sock[s] # "open"
  BY DEF Init
<1>3. LockHeld /\ Closing /\ Leaving /\ Reachable
  BY <1>2 DEF Init, LockHeld, Closing, Leaving, Reachable
<1>4. RightSocket
  BY DEF Init, RightSocket, Recipient
<1>5. ToldRight /\ Connecting
  BY <1>2 DEF Init, ToldRight, Connecting, NoPost
<1>6. QED
  BY <1>1, <1>3, <1>4, <1>5 DEF IInv

LEMMA ConnectionStep ==
    ASSUME IInv, NEW s \in Socks, OnConnection(s)
    PROVE  IInv'
<1> DEFINE id == AllocId
<1>1. id \in Ids /\ mapWSConn[id] = NoSock
  BY AllocIdFree DEF OnConnection, IInv, TypeOK
<1>2. /\ sock' = [sock EXCEPT ![s] = "open"]
      /\ userData' = [userData EXCEPT ![s] = id]
      /\ mapWSConn' = [mapWSConn EXCEPT ![id] = s]
      /\ wsGenId' = id
      /\ lost' = lost \ {id}
      /\ wsPost' = [cmd |-> "CLIENT_CONN", id |-> id]
      /\ wsPost = NoPost /\ lock = "free" /\ sock[s] = "free"
      /\ UNCHANGED <<lock, closeId, closePc, told>>
  BY DEF OnConnection, WsReady, WsIdle, closeVars
<1> HIDE DEF id
<1>3. TypeOK'
  BY <1>1, <1>2 DEF IInv, TypeOK
<1>4. LockHeld' /\ Closing' /\ Leaving'
  BY <1>1, <1>2 DEF IInv, LockHeld, Closing, Leaving
<1>5. Reachable'
  BY <1>1, <1>2, NetAssumption DEF IInv, TypeOK, Reachable
<1>6. RightSocket'
  <2> SUFFICES ASSUME NEW i \in Ids, i \notin lost', mapWSConn'[i] # NoSock
               PROVE  sock'[mapWSConn'[i]] = "open" /\ userData'[mapWSConn'[i]] = i
    BY DEF RightSocket, Recipient
  <2>1. CASE i = id
    BY <1>1, <1>2, <2>1 DEF IInv, TypeOK
  <2>2. CASE i # id
    <3>1. i \notin lost /\ mapWSConn'[i] = mapWSConn[i]
      BY <1>1, <1>2, <2>2 DEF IInv, TypeOK
    <3>2. mapWSConn[i] \in Socks
      BY <3>1 DEF IInv, TypeOK
    <3>3. sock[mapWSConn[i]] = "open" /\ userData[mapWSConn[i]] = i
      BY <3>1 DEF IInv, RightSocket, Recipient
    <3>4. QED
      BY <1>2, <3>1, <3>2, <3>3 DEF IInv, TypeOK
  <2>3. QED
    BY <2>1, <2>2
<1>7. ToldRight'
  BY <1>1, <1>2, NetAssumption DEF IInv, TypeOK, ToldRight, NoPost
<1>8. Connecting'
  BY <1>1, <1>2 DEF IInv, TypeOK, Connecting
<1>9. QED
  BY <1>3, <1>4, <1>5, <1>6, <1>7, <1>8 DEF IInv

\* RightSocket for one id, with the type of what it leads to.
LEMMA Leads ==
    ASSUME IInv, NEW i \in Ids, i \notin lost, mapWSConn[i] # NoSock
    PROVE  mapWSConn[i] \in Socks /\ sock[mapWSConn[i]] = "open" /\ userData[mapWSConn[i]] = i
<1>1. mapWSConn[i] \in Socks
  BY DEF IInv, TypeOK
<1>2. QED
  BY <1>1 DEF IInv, RightSocket, Recipient

LEMMA MessageStep ==
    ASSUME IInv, NEW s \in Socks, OnMessage(s)
    PROVE  IInv'
<1> USE DEF OnMessage, WsReady, WsIdle, wsVars, closeVars
<1>1. TypeOK'
  BY DEF IInv, TypeOK
<1>2. LockHeld' /\ Closing' /\ Leaving' /\ Connecting' /\ Reachable' /\ RightSocket'
  BY DEF IInv, LockHeld, Closing, Leaving, Connecting, Reachable, RightSocket, Recipient
<1>3. ToldRight'
  BY DEF IInv, TypeOK, ToldRight, NoPost
<1>4. QED
  BY <1>1, <1>2, <1>3 DEF IInv

LEMMA CloseFrameStep ==
    ASSUME IInv, NEW s \in Socks, OnClose(s)
    PROVE  IInv'
<1> DEFINE id == userData[s]
<1>1. id \in Ids
  BY DEF IInv, TypeOK
<1>2. /\ sock[s] = "open" /\ wsPost = NoPost /\ lock = "free"
      /\ sock' = [sock EXCEPT ![s] = "closing"]
      /\ mapWSConn' = [mapWSConn EXCEPT ![id] = NoSock]
      /\ wsPost' = [cmd |-> "CLIENT_DISCONN", id |-> id]
      /\ UNCHANGED <<wsGenId, lock, userData, closeId, closePc, told, lost>>
  BY DEF OnClose, Ignored, Code1000, Code1006, WsReady, WsIdle, closeVars
<1>3. TypeOK'
  BY <1>1, <1>2 DEF IInv, TypeOK
<1>4. LockHeld' /\ Closing'
  BY <1>1, <1>2 DEF IInv, LockHeld, Closing
<1>5. \A t \in Socks : sock'[t] = "open" => sock[t] = "open" /\ t # s /\ userData[t] # id
  BY <1>1, <1>2 DEF IInv, TypeOK, Reachable
<1>6. Leaving' /\ Connecting' /\ Reachable'
  BY <1>1, <1>2, <1>5 DEF IInv, TypeOK, Leaving, Connecting, Reachable
<1>7. RightSocket'
  <2> SUFFICES ASSUME NEW i \in Ids, i \notin lost', mapWSConn'[i] # NoSock
               PROVE  sock'[mapWSConn'[i]] = "open" /\ userData'[mapWSConn'[i]] = i
    BY DEF RightSocket, Recipient
  <2>1. i # id /\ mapWSConn'[i] = mapWSConn[i]
    BY <1>1, <1>2 DEF IInv, TypeOK
  <2>2. mapWSConn[i] \in Socks /\ sock[mapWSConn[i]] = "open" /\ userData[mapWSConn[i]] = i
    BY <1>2, <2>1, Leads
  <2>3. QED
    BY <1>2, <2>1, <2>2 DEF IInv, TypeOK
<1>8. ToldRight'
  <2>1. \A t \in Socks : sock'[t] = "open" => userData'[t] \in told'
    BY <1>2, <1>5 DEF IInv, ToldRight, NoPost
  <2>2. ASSUME NEW i \in told'
        PROVE  \/ \E t \in Socks : sock'[t] = "open" /\ userData'[t] = i
               \/ wsPost' = [cmd |-> "CLIENT_DISCONN", id |-> i]
               \/ i \in lost'
    <3>1. CASE i = id
      BY <1>2, <3>1
    <3>2. CASE i # id
      BY <1>2, <2>2, <3>2 DEF IInv, TypeOK, ToldRight, NoPost
    <3>3. QED
      BY <3>1, <3>2
  <2>3. wsPost'.cmd # "CLIENT_MSG"
    BY <1>2
  <2>4. QED
    BY <2>1, <2>2, <2>3 DEF ToldRight
<1>9. QED
  BY <1>3, <1>4, <1>6, <1>7, <1>8 DEF IInv

\* A socket that was closed is forgotten, or an open one with code 1006.
LEMMA FreeStep ==
    ASSUME IInv, NEW s \in Socks, Free(s),
           lost' = IF sock[s] = "open" THEN lost \cup {userData[s]} ELSE lost,
           UNCHANGED <<wsGenId, mapWSConn, lock, wsPost, closeId, told>>
    PROVE  /\ sock' \in [Socks -> {"free", "open", "closing"}]
           /\ userData' \in [Socks -> Ids]
           /\ lost' \in SUBSET Ids
           /\ Leaving' /\ Connecting' /\ Reachable' /\ RightSocket' /\ ToldRight'
           /\ \A t \in Socks : sock'[t] = "open" => sock[t] = "open" /\ t # s /\ userData'[t] = userData[t]
<1>1. TypeOK /\ 0 \in Ids
  BY NetAssumption DEF IInv, Ids
<1>2. /\ sock' \in [Socks -> {"free", "open", "closing"}]
      /\ userData' \in [Socks -> Ids]
      /\ lost' \in SUBSET Ids
  BY <1>1 DEF TypeOK, Free
<1>3. \A t \in Socks : sock'[t] = "open" => sock[t] = "open" /\ t # s /\ userData'[t] = userData[t]
  BY <1>1 DEF TypeOK, Free
<1>4. Leaving' /\ Reachable'
  BY <1>3 DEF IInv, Leaving, Reachable
<1>5. RightSocket'
  <2> SUFFICES ASSUME NEW i \in Ids, i \notin lost', mapWSConn'[i] # NoSock
               PROVE  sock'[mapWSConn'[i]] = "open" /\ userData'[mapWSConn'[i]] = i
    BY DEF RightSocket, Recipient
  <2>1. mapWSConn[i] \in Socks /\ sock[mapWSConn[i]] = "open" /\ userData[mapWSConn[i]] = i
    BY Leads
  <2>2. mapWSConn[i] # s
    BY <2>1
  <2>3. QED
    BY <1>1, <2>1, <2>2 DEF TypeOK, Free
<1>6. Connecting'
  <2> SUFFICES ASSUME wsPost.cmd = "CLIENT_CONN"
               PROVE  (\E t \in Socks : sock'[t] = "open" /\ userData'[t] = wsPost.id)
                      \/ wsPost.id \in lost'
    BY DEF Connecting
  <2>1. CASE wsPost.id \in lost
    BY <2>1
  <2>2. CASE \E t \in Socks : sock[t] = "open" /\ userData[t] = wsPost.id
    <3>1. PICK t \in Socks : sock[t] = "open" /\ userData[t] = wsPost.id
      BY <2>2
    <3>2. CASE t = s
      BY <3>1, <3>2
    <3>3. CASE t # s
      BY <1>1, <3>1, <3>3 DEF TypeOK, Free
    <3>4. QED
      BY <3>2, <3>3
  <2>3. QED
    BY <2>1, <2>2 DEF IInv, Connecting
<1>7. ToldRight'
  <2>1. \A t \in Socks :
           sock'[t] = "open" => userData'[t] \in told'
                             \/ wsPost' = [cmd |-> "CLIENT_CONN", id |-> userData'[t]]
    BY <1>3 DEF IInv, ToldRight
  <2>2. ASSUME NEW i \in told'
        PROVE  \/ \E t \in Socks : sock'[t] = "open" /\ userData'[t] = i
               \/ wsPost' = [cmd |-> "CLIENT_DISCONN", id |-> i]
               \/ i \in lost'
    <3>1. CASE \E t \in Socks : sock[t] = "open" /\ userData[t] = i
      <4>1. PICK t \in Socks : sock[t] = "open" /\ userData[t] = i
        BY <3>1
      <4>2. CASE t = s
        BY <4>1, <4>2
      <4>3. CASE t # s
        BY <1>1, <4>1, <4>3 DEF TypeOK, Free
      <4>4. QED
        BY <4>2, <4>3
    <3>2. CASE wsPost = [cmd |-> "CLIENT_DISCONN", id |-> i] \/ i \in lost
      BY <3>2
    <3>3. QED
      BY <2>2, <3>1, <3>2 DEF IInv, ToldRight
  <2>3. wsPost'.cmd = "CLIENT_MSG" => wsPost'.id \in told'
    BY DEF IInv, ToldRight
  <2>4. QED
    BY <2>1, <2>2, <2>3 DEF ToldRight
<1>8. QED
  BY <1>2, <1>3, <1>4, <1>5, <1>6, <1>7

LEMMA EndStep ==
    ASSUME IInv, NEW s \in Socks, OnEnd(s) \/ OnShutdownEnd(s)
    PROVE  IInv'
<1>1. /\ Free(s)
      /\ lost' = IF sock[s] = "open" THEN lost \cup {userData[s]} ELSE lost
      /\ UNCHANGED <<wsGenId, mapWSConn, lock, wsPost, closeId, closePc, told>>
  BY DEF OnEnd, OnShutdownEnd, Ignored, Code1006, closeVars
<1>2. TypeOK'
  BY <1>1, FreeStep DEF IInv, TypeOK
<1>3. LockHeld' /\ Closing'
  BY <1>1, FreeStep DEF IInv, LockHeld, Closing
<1>4. QED
  BY <1>1, <1>2, <1>3, FreeStep DEF IInv

LEMMA PostStep ==
    ASSUME IInv, Post
    PROVE  IInv'
<1>0. 0 \in Ids
  BY NetAssumption DEF Ids
<1>1. /\ wsPost # NoPost /\ wsPost' = NoPost
      /\ wsPost.cmd = "CLIENT_CONN" => told' = told \cup {wsPost.id}
      /\ wsPost.cmd = "CLIENT_DISCONN" => told' = told \ {wsPost.id}
      /\ wsPost.cmd \notin {"CLIENT_CONN", "CLIENT_DISCONN"} => told' = told
      /\ UNCHANGED <<wsGenId, mapWSConn, lock, sock, userData, closeId, closePc, lost>>
  BY DEF Post, wsVars, closeVars
<1>2. wsPost.id \in Ids
  BY DEF IInv, TypeOK
<1>3. told' \in SUBSET Ids
  BY <1>1, <1>2 DEF IInv, TypeOK
<1>4. TypeOK'
  BY <1>0, <1>1, <1>3 DEF IInv, TypeOK, NoPost
<1>5. LockHeld' /\ Closing' /\ Leaving' /\ Connecting' /\ Reachable' /\ RightSocket'
  BY <1>1 DEF IInv, LockHeld, Closing, Leaving, Connecting, Reachable, RightSocket, Recipient, NoPost
<1>6. ASSUME NEW i \in told'
      PROVE  (\E t \in Socks : sock'[t] = "open" /\ userData'[t] = i) \/ i \in lost'
  <2>1. CASE wsPost.cmd = "CLIENT_CONN" /\ i = wsPost.id
    BY <1>1, <2>1 DEF IInv, Connecting
  <2>2. CASE i \in told /\ wsPost # [cmd |-> "CLIENT_DISCONN", id |-> i]
    BY <1>1, <2>2 DEF IInv, ToldRight
  <2>3. QED
    BY <1>1, <1>6, <2>1, <2>2
<1>7. ASSUME NEW s \in Socks, sock'[s] = "open" PROVE userData'[s] \in told'
  BY <1>1, <1>7 DEF IInv, ToldRight, Leaving
<1>8. ToldRight'
  BY <1>1, <1>6, <1>7 DEF ToldRight, NoPost
<1>9. QED
  BY <1>4, <1>5, <1>8 DEF IInv

LEMMA CloseClientStep ==
    ASSUME IInv, (\E wid \in Ids : CloseClient(wid)) \/ CloseFind \/ CloseUnlock
    PROVE  IInv'
<1>0. 0 \in Ids
  BY NetAssumption DEF Ids
<1> USE DEF CloseClient, CloseFind, CloseUnlock, wsVars
<1>1. TypeOK'
  BY <1>0 DEF IInv, TypeOK
<1>2. LockHeld' /\ Leaving' /\ Connecting' /\ Reachable' /\ RightSocket' /\ ToldRight'
  BY DEF IInv, LockHeld, Leaving, Connecting, Reachable, RightSocket, Recipient, ToldRight
<1>3. Closing'
  BY DEF IInv, TypeOK, Closing
<1>4. QED
  BY <1>1, <1>2, <1>3 DEF IInv

LEMMA TerminateStep ==
    ASSUME IInv, CloseTerminate
    PROVE  IInv'
<1> DEFINE s == mapWSConn[closeId]
<1>1. s \in Socks
  BY DEF CloseTerminate, IInv, Closing
<1>2. /\ Free(s)
      /\ lost' = IF sock[s] = "open" THEN lost \cup {userData[s]} ELSE lost
      /\ closePc = "terminate" /\ closePc' = "erase"
      /\ UNCHANGED <<wsGenId, mapWSConn, lock, wsPost, closeId, told>>
  BY DEF CloseTerminate
<1> HIDE DEF s
<1>3. TypeOK'
  BY <1>1, <1>2, FreeStep DEF IInv, TypeOK
<1>4. LockHeld'
  BY <1>2 DEF IInv, LockHeld
<1>5. Closing'
  <2> SUFFICES ASSUME NEW t \in Socks, sock'[t] = "open" PROVE userData'[t] # closeId
    BY <1>2 DEF Closing
  <2>1. sock[t] = "open" /\ t # s /\ userData'[t] = userData[t]
    BY <1>1, <1>2, FreeStep
  <2>2. QED
    BY <2>1 DEF IInv, Reachable, s
<1>6. QED
  BY <1>1, <1>2, <1>3, <1>4, <1>5, FreeStep DEF IInv

LEMMA EraseStep ==
    ASSUME IInv, CloseErase
    PROVE  IInv'
<1>1. /\ closePc = "erase" /\ closePc' = "unlock"
      /\ mapWSConn' = [mapWSConn EXCEPT ![closeId] = NoSock]
      /\ UNCHANGED <<wsGenId, lock, sock, userData, wsPost, closeId, told, lost>>
  BY DEF CloseErase, wsVars
<1>2. TypeOK'
  BY <1>1 DEF IInv, TypeOK
<1>3. LockHeld' /\ Closing' /\ Leaving' /\ Connecting' /\ ToldRight'
  BY <1>1 DEF IInv, LockHeld, Closing, Leaving, Connecting, ToldRight
<1>4. Reachable'
  BY <1>1 DEF IInv, TypeOK, Closing, Reachable
<1>5. RightSocket'
  BY <1>1 DEF IInv, TypeOK, RightSocket, Recipient
<1>6. QED
  BY <1>2, <1>3, <1>4, <1>5 DEF IInv

LEMMA IInvStep == IInv /\ [Next]_vars => IInv'
<1> SUFFICES ASSUME IInv, [Next]_vars PROVE IInv'
  OBVIOUS
<1>1. ASSUME NEW s \in Socks, OnConnection(s) PROVE IInv'
  BY <1>1, ConnectionStep
<1>2. ASSUME NEW s \in Socks, OnMessage(s) PROVE IInv'
  BY <1>2, MessageStep
<1>3. ASSUME NEW s \in Socks, OnClose(s) PROVE IInv'
  BY <1>3, CloseFrameStep
<1>4. ASSUME NEW s \in Socks, OnEnd(s) \/ OnShutdownEnd(s) PROVE IInv'
  BY <1>4, EndStep
<1>5. CASE Post
  BY <1>5, PostStep
<1>6. CASE (\E wid \in Ids : CloseClient(wid)) \/ CloseFind \/ CloseUnlock
  BY <1>6, CloseClientStep
<1>7. CASE CloseTerminate
  BY <1>7, TerminateStep
<1>8. CASE CloseErase
  BY <1>8, EraseStep
<1>9. CASE UNCHANGED vars
  BY <1>9 DEF vars, wsVars, closeVars, IInv, TypeOK, LockHeld, Closing, Leaving, Connecting,
       Reachable, RightSocket, Recipient, ToldRight
<1>10. QED
  BY <1>1, <1>2, <1>3, <1>4, <1>5, <1>6, <1>7, <1>8, <1>9 DEF Next, CloseStep

-----------------------------------------------------------------------------
\* The lock, the map, the sockets and the main machine's knowledge agree.
THEOREM NetInvariant == Spec => []IInv
BY InitIInv, IInvStep, PTL DEF Spec

\* Every callback and every step of CloseClient keeps every variable in its
\* type; in particular AllocId (net.cpp:34) hands out a uint32_t.
THEOREM NetTypeCorrect == Spec => []TypeOK
<1>1. IInv => TypeOK
  BY DEF IInv
<1>2. QED
  BY <1>1, NetInvariant, PTL

\* No wrap of the ids, no dangling entry and no reuse of an address makes an
\* open connection unreachable or gives two of them one id (net.cpp:34-90).
THEOREM ReachableAlways == Spec => []Reachable
<1>1. IInv => Reachable
  BY DEF IInv
<1>2. QED
  BY <1>1, NetInvariant, PTL

\* SendClient (net.cpp:49) writes to the client it names, unless that client
\* was lost with code 1006.
THEOREM RightSocketAlways == Spec => []RightSocket
<1>1. IInv => RightSocket
  BY DEF IInv
<1>2. QED
  BY <1>1, NetInvariant, PTL

\* What the main machine is told (net.cpp:86-120) is what happened, in order,
\* but for clients lost with code 1006.
THEOREM ToldRightAlways == Spec => []ToldRight
<1>1. IInv => ToldRight
  BY DEF IInv
<1>2. QED
  BY <1>1, NetInvariant, PTL
=============================================================================
