------------------------------- MODULE LvmMgr -------------------------------
(***************************************************************************)
(* The message scheduler of cpp/lvm.cpp.  PostMsg, called from any thread, *)
(* posts a handler to io_service.  One thread runs those handlers in FIFO  *)
(* order: _PostMsg either dispatches to the main machine in place, or puts *)
(* the message into the destination's localMsgQueue and, if that machine   *)
(* was not in_global, into globalMsgQueue.  Worker threads (ProcessMsg)    *)
(* take a machine out of globalMsgQueue and handle its messages until its  *)
(* localMsgQueue is empty.  Init is the state LvmMgr::Init and Main:init   *)
(* leave: the main machine (0) and the login machine (1) are registered.   *)
(***************************************************************************)
EXTENDS Naturals, Sequences

CONSTANTS MaxVm,     \* bound: the highest id _CreateLvm hands out
          Toks,      \* bound: the messages that may be in flight at once
          Workers,   \* threads running ProcessMsg (LvmMgr::Init starts one)
          NoMsg,
          NoVm

MainVm == 0          \* MAIN_LVM_ID
LoginVm == 1         \* the machine Main:init creates first
LvmIds == 1 .. MaxVm
Vms    == LvmIds \cup {MainVm}

\* struct LVM_MSG: cmd, sid and payload are data; tok tells messages apart.
Msgs == [dest : Vms, tok : Toks]

ASSUME LvmMgrAssumption ==
    /\ MaxVm \in Nat \ {0}
    /\ NoMsg \notin Msgs
    /\ NoVm \notin Vms

VARIABLES
    ioQueue,         \* handlers posted to io_service, each a bound _PostMsg
    ioMsg,           \* the message the io thread dispatches to the main machine
    ioVm,            \* the machine the io thread is about to AddToGlobal
    mapLvm,          \* ids registered in mapLvm
    gen_id,          \* _gen_id
    localMsgQueue,   \* LVM::localMsgQueue of every machine
    in_global,       \* LVM::in_global of every machine
    globalMsgQueue,  \* machines waiting for a worker
    wVm,             \* per worker, the machine its spLvm holds
    wMsg             \* per worker, the message it dispatches

ioVars   == <<ioQueue, ioMsg, ioVm>>
mapVars  == <<mapLvm, gen_id>>
lvmVars  == <<localMsgQueue, in_global>>
workVars == <<wVm, wMsg>>
vars     == <<ioVars, mapVars, lvmVars, globalMsgQueue, workVars>>

Init ==
    /\ ioQueue = <<>>
    /\ ioMsg = NoMsg
    /\ ioVm = NoVm
    /\ mapLvm = {MainVm, LoginVm}
    /\ gen_id = LoginVm
    /\ localMsgQueue = [v \in LvmIds |-> <<>>]
    /\ in_global = [v \in LvmIds |-> 0]
    /\ globalMsgQueue = <<>>
    /\ wVm = [w \in Workers |-> NoVm]
    /\ wMsg = [w \in Workers |-> NoMsg]

-----------------------------------------------------------------------------
(* Posting *)

SeqToks(s) == {s[i].tok : i \in DOMAIN s}

InFlight ==
    LET held == {wMsg[w] : w \in Workers} \cup {ioMsg} IN
    SeqToks(ioQueue)
        \cup UNION {SeqToks(localMsgQueue[v]) : v \in LvmIds}
        \cup {m.tok : m \in held \ {NoMsg}}

\* LvmMgr::PostMsg, from the websocket thread, the HTTP thread, a timer or a
\* Lua handler on either kind of thread.  A fresh token bounds the traffic.
PostMsg(m) ==
    /\ m.tok \notin InFlight
    /\ ioQueue' = Append(ioQueue, m)
    /\ UNCHANGED <<ioMsg, ioVm, mapVars, lvmVars, globalMsgQueue, workVars>>

-----------------------------------------------------------------------------
(* The io thread *)

\* io_service::run takes the next handler when the last one has returned.
IoReady ==
    /\ ioMsg = NoMsg
    /\ ioVm = NoVm
    /\ ioQueue # <<>>

\* _PostMsg, dest is the main machine: Dispatch starts in the handler.
IoDispatchMain ==
    /\ IoReady
    /\ Head(ioQueue).dest = MainVm
    /\ ioMsg' = Head(ioQueue)
    /\ ioQueue' = Tail(ioQueue)
    /\ UNCHANGED <<ioVm, mapVars, lvmVars, globalMsgQueue, workVars>>

\* The main machine's Dispatch returns, the message is deleted.
IoDispatchEnd ==
    /\ ioMsg # NoMsg
    /\ ioMsg' = NoMsg
    /\ UNCHANGED <<ioQueue, ioVm, mapVars, lvmVars, globalMsgQueue, workVars>>

\* Mutants of AddMsg: in_global counts instead of flagging; the old value is
\* lost and every message queues its machine; the flag is never set; the
\* message goes to the front.
AddMsgCounts(v, m) ==
    /\ localMsgQueue' = [localMsgQueue EXCEPT ![v] = Append(@, m)]
    /\ in_global' = [in_global EXCEPT ![v] = @ + 1]
    /\ ioVm' = IF in_global[v] = 0 THEN v ELSE NoVm

AddMsgAlwaysQueues(v, m) ==
    /\ localMsgQueue' = [localMsgQueue EXCEPT ![v] = Append(@, m)]
    /\ in_global' = [in_global EXCEPT ![v] = 1]
    /\ ioVm' = v

AddMsgNoFlag(v, m) ==
    /\ localMsgQueue' = [localMsgQueue EXCEPT ![v] = Append(@, m)]
    /\ ioVm' = IF in_global[v] = 0 THEN v ELSE NoVm
    /\ UNCHANGED in_global

AddMsgFront(v, m) ==
    /\ localMsgQueue' = [localMsgQueue EXCEPT ![v] = <<m>> \o @]
    /\ in_global' = [in_global EXCEPT ![v] = 1]
    /\ ioVm' = IF in_global[v] = 0 THEN v ELSE NoVm

\* LVM::AddMsg under m_lockQueue; AddToGlobal follows if it returned 0.
AddMsg(v, m) ==
    /\ localMsgQueue' = [localMsgQueue EXCEPT ![v] = Append(@, m)]
    /\ in_global' = [in_global EXCEPT ![v] = 1]
    /\ ioVm' = IF in_global[v] = 0 THEN v ELSE NoVm

\* _PostMsg, dest is found by GetLVM.
IoAddMsg ==
    LET m == Head(ioQueue) IN
    /\ IoReady
    /\ m.dest \in mapLvm \ {MainVm}
    /\ AddMsg(m.dest, m)
    /\ ioQueue' = Tail(ioQueue)
    /\ UNCHANGED <<ioMsg, mapVars, globalMsgQueue, workVars>>

\* _PostMsg, dest is not found: nothing is done with the message.
IoNoLvm ==
    /\ IoReady
    /\ Head(ioQueue).dest \notin mapLvm \cup {MainVm}
    /\ ioQueue' = Tail(ioQueue)
    /\ UNCHANGED <<ioMsg, ioVm, mapVars, lvmVars, globalMsgQueue, workVars>>

\* Mutant: the machine that came last is served first.
AddToGlobalFront ==
    /\ ioVm # NoVm
    /\ globalMsgQueue' = <<ioVm>> \o globalMsgQueue
    /\ ioVm' = NoVm
    /\ UNCHANGED <<ioQueue, ioMsg, mapVars, lvmVars, workVars>>

\* AddToGlobal, under m_lockGlobalMsgQueue.
AddToGlobal ==
    /\ ioVm # NoVm
    /\ globalMsgQueue' = Append(globalMsgQueue, ioVm)
    /\ ioVm' = NoVm
    /\ UNCHANGED <<ioQueue, ioMsg, mapVars, lvmVars, workVars>>

\* _CreateLvm, called by the Lua code of the main machine: the id is used up
\* even if the new machine's Init fails, and then nothing is registered.
CreateLvm(ok) ==
    /\ ioMsg # NoMsg
    /\ gen_id < MaxVm
    /\ gen_id' = gen_id + 1
    /\ mapLvm' = IF ok THEN mapLvm \cup {gen_id'} ELSE mapLvm
    /\ UNCHANGED <<ioVars, lvmVars, globalMsgQueue, workVars>>

\* _RemoveLvm, likewise; globalMsgQueue and spLvm keep the object alive.
RemoveLvm(id) ==
    /\ ioMsg # NoMsg
    /\ id \in mapLvm
    /\ mapLvm' = mapLvm \ {id}
    /\ UNCHANGED <<gen_id, ioVars, lvmVars, globalMsgQueue, workVars>>

-----------------------------------------------------------------------------
(* A worker thread: ProcessMsg *)

\* NextGlobal; on an empty queue the worker sleeps and tries again.
NextGlobal(w) ==
    /\ wVm[w] = NoVm
    /\ globalMsgQueue # <<>>
    /\ wVm' = [wVm EXCEPT ![w] = Head(globalMsgQueue)]
    /\ globalMsgQueue' = Tail(globalMsgQueue)
    /\ UNCHANGED <<ioVars, mapVars, lvmVars, wMsg>>

\* GetMsg returns a message and its Dispatch starts.
GetMsg(w) ==
    LET v == wVm[w] IN
    /\ v # NoVm
    /\ wMsg[w] = NoMsg
    /\ localMsgQueue[v] # <<>>
    /\ wMsg' = [wMsg EXCEPT ![w] = Head(localMsgQueue[v])]
    /\ localMsgQueue' = [localMsgQueue EXCEPT ![v] = Tail(@)]
    /\ UNCHANGED <<ioVars, mapVars, in_global, globalMsgQueue, wVm>>

\* Mutants: the flag stays set; the worker lets go of a machine that still has
\* messages.
GetMsgNullKeepsFlag(w) ==
    LET v == wVm[w] IN
    /\ v # NoVm
    /\ wMsg[w] = NoMsg
    /\ localMsgQueue[v] = <<>>
    /\ wVm' = [wVm EXCEPT ![w] = NoVm]
    /\ UNCHANGED <<ioVars, mapVars, lvmVars, globalMsgQueue, wMsg>>

GetMsgNullEarly(w) ==
    LET v == wVm[w] IN
    /\ v # NoVm
    /\ wMsg[w] = NoMsg
    /\ in_global' = [in_global EXCEPT ![v] = 0]
    /\ wVm' = [wVm EXCEPT ![w] = NoVm]
    /\ UNCHANGED <<ioVars, mapVars, localMsgQueue, globalMsgQueue, wMsg>>

\* GetMsg returns NULL: the inner loop ends and spLvm is dropped.
GetMsgNull(w) ==
    LET v == wVm[w] IN
    /\ v # NoVm
    /\ wMsg[w] = NoMsg
    /\ localMsgQueue[v] = <<>>
    /\ in_global' = [in_global EXCEPT ![v] = 0]
    /\ wVm' = [wVm EXCEPT ![w] = NoVm]
    /\ UNCHANGED <<ioVars, mapVars, localMsgQueue, globalMsgQueue, wMsg>>

\* Dispatch returns, with or without a Lua error, and the message is deleted.
DispatchEnd(w) ==
    /\ wMsg[w] # NoMsg
    /\ wMsg' = [wMsg EXCEPT ![w] = NoMsg]
    /\ UNCHANGED <<ioVars, mapVars, lvmVars, globalMsgQueue, wVm>>

-----------------------------------------------------------------------------
IoStep ==
    \/ IoDispatchMain
    \/ IoDispatchEnd
    \/ IoAddMsg
    \/ IoNoLvm
    \/ AddToGlobal

WorkerStep(w) ==
    \/ NextGlobal(w)
    \/ GetMsg(w)
    \/ GetMsgNull(w)
    \/ DispatchEnd(w)

Next ==
    \/ \E m \in Msgs : PostMsg(m)
    \/ IoStep
    \/ \E ok \in BOOLEAN : CreateLvm(ok)
    \/ \E id \in Vms : RemoveLvm(id)
    \/ \E w \in Workers : WorkerStep(w)

Spec == Init /\ [][Next]_vars

\* The threads of the pool keep running and every Lua handler returns; nobody
\* is obliged to post, create or remove anything.
Fairness ==
    /\ WF_vars(IoStep)
    /\ \A w \in Workers : WF_vars(WorkerStep(w))

FairSpec == Spec /\ Fairness
-----------------------------------------------------------------------------
(* Properties *)

\* Type invariant.
TypeOK ==
    /\ ioQueue \in Seq(Msgs)
    /\ ioMsg \in Msgs \cup {NoMsg}
    /\ ioVm \in LvmIds \cup {NoVm}
    /\ mapLvm \in SUBSET Vms
    /\ gen_id \in LvmIds
    /\ localMsgQueue \in [LvmIds -> Seq(Msgs)]
    /\ in_global \in [LvmIds -> {0, 1}]
    /\ globalMsgQueue \in Seq(LvmIds)
    /\ wVm \in [Workers -> LvmIds \cup {NoVm}]
    /\ wMsg \in [Workers -> Msgs \cup {NoMsg}]

Queued(v) == \E i \in DOMAIN globalMsgQueue : globalMsgQueue[i] = v
Held(v)   == \E w \in Workers : wVm[w] = v

\* The in_global flag and the three places a machine can be on its way to a
\* worker (the io thread between AddMsg and AddToGlobal, globalMsgQueue, a
\* worker's spLvm) agree: a machine with the flag is in exactly one of them,
\* one without it in none, so no wake-up is lost and none is doubled.
OneOwner ==
    /\ \A i, j \in DOMAIN globalMsgQueue :
          globalMsgQueue[i] = globalMsgQueue[j] => i = j
    /\ \A v \in LvmIds : Queued(v) => ioVm # v /\ ~Held(v)
    /\ \A w \in Workers : wVm[w] # NoVm => ioVm # wVm[w]
    /\ \A v \in LvmIds : in_global[v] = 1 <=> ioVm = v \/ Queued(v) \/ Held(v)

\* A machine with messages waiting is in_global: GetMsg clears the flag only
\* when it finds localMsgQueue empty.
NoLostWakeup ==
    \A v \in LvmIds : localMsgQueue[v] # <<>> => in_global[v] = 1

\* No two workers are ever inside the same lua_State: however many threads
\* LvmMgr::Init starts, they hold different machines.
ExclusiveVm ==
    \A w1, w2 \in Workers : wVm[w1] = wVm[w2] /\ wVm[w1] # NoVm => w1 = w2

\* A message waits for, and is handled by, the machine it is addressed to.
RightVm ==
    /\ \A v \in LvmIds : \A i \in DOMAIN localMsgQueue[v] : localMsgQueue[v][i].dest = v
    /\ \A w \in Workers : wMsg[w] # NoMsg => wVm[w] = wMsg[w].dest
    /\ ioMsg # NoMsg => ioMsg.dest = MainVm /\ ioVm = NoVm

\* An LVM object that nothing refers to any more (it was removed from mapLvm
\* and is on no queue and in no worker's spLvm) has no message left in its
\* localMsgQueue: ~LVM, which frees none, leaks none.
DestroyedIsDrained ==
    \A v \in LvmIds :
        ~(v \in mapLvm \/ ioVm = v \/ Queued(v) \/ Held(v)) => localMsgQueue[v] = <<>>

\* The inductive strengthening behind OneOwner, NoLostWakeup and ExclusiveVm.
IInv == TypeOK /\ OneOwner /\ NoLostWakeup /\ ExclusiveVm /\ RightVm

\* An id is never handed out twice, although a failed _CreateLvm uses one up
\* and _RemoveLvm frees one: a registered machine's id is not above _gen_id.
FreshIds == \A v \in mapLvm : v <= gen_id

\* What a caller of PostMsg may rely on: LvmMgr implements VmActors.
RunningOf(main, vm, msg) ==
    [v \in Vms |->
        IF v = MainVm THEN main
        ELSE IF \E w \in Workers : vm[w] = v
             THEN msg[CHOOSE w \in Workers : vm[w] = v]
             ELSE NoMsg]

Running == RunningOf(ioMsg, wVm, wMsg)

Actors == INSTANCE VmActors
            WITH transit <- ioQueue, inbox <- localMsgQueue,
                 running <- Running, live <- mapLvm

ActorSpec == Actors!Spec

\* When nobody posts any more, every message in flight is eventually handled
\* (or dropped for want of a destination): no machine is left behind with
\* messages and no worker coming for it.
QuietDrains ==
    <>[][\A m \in Msgs : ~PostMsg(m)]_vars => <>[](InFlight = {})

\* However busy the system stays, a machine with waiting messages is served:
\* some worker comes to dispatch to it, unless every worker stays inside one
\* machine for ever.  The exception is what ProcessMsg does: its inner loop
\* lets go of a machine only when GetMsg finds no message, so machines that
\* keep being posted to, one per worker, hold the workers and starve the rest.
EachServed ==
    \A v \in LvmIds :
        localMsgQueue[v] # <<>>
            ~> \/ \E w \in Workers : wVm[w] = v /\ wMsg[w] # NoMsg
               \/ \E f \in [Workers -> LvmIds] : [](wVm = f)
=============================================================================
