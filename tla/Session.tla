------------------------------ MODULE Session ------------------------------
(***************************************************************************)
(* Requests and their answers between Lua machines: script/common/base.lua *)
(* on top of the actors of VmActors.  A request carries a session id; the  *)
(* id comes back with the answer and finds the callback.  Every machine    *)
(* numbers its own sessions, and every message that reaches a machine, be  *)
(* it a request of another machine, a timer, a client's message or an      *)
(* answer, carries a number in the same field.                             *)
(***************************************************************************)
EXTENDS Naturals, Sequences, FiniteSets

CONSTANTS Vms,       \* Lua machines
          Servers,   \* those that registered the request's command (RegCmdCB)
          Calls,     \* identities of calls, each made once
          MaxSid,    \* bound on the session ids in use
          MaxMail,   \* bound on waiting messages, for new events and notices
          NoCall, NoMsg

Sids == 1 .. MaxSid

\* Req: a registered command.  Event: a timer, or a client's message, whose
\* sid is the timer's or the client's id.  Ret: LVM_CMD_MSG_RET or
\* LVM_CMD_HTTP_RESP.  call is not in the code: it tells which call the
\* message belongs to.
Msgs == [cmd : {"Req", "Event", "Ret"}, fid : Vms, sid : Sids \cup {0}, call : Calls \cup {NoCall}]

ASSUME SessionAssumption ==
    /\ Servers \subseteq Vms
    /\ MaxSid \in Nat /\ MaxMail \in Nat
    /\ NoCall \notin Calls /\ NoMsg \notin Msgs

VARIABLES
    SessionCB,   \* per machine: session id |-> the call whose callback it holds
    mailbox,     \* per machine: messages posted to it and not yet dispatched
    running,     \* per machine: the message in Dispatch, or NoMsg
    answered,    \* per machine: the handler has called RetMessage
    httpQ,       \* io_service_net: requests not yet answered, the one at work first
    net,         \* the net-io thread: "up", or "stuck" in the request at work, or
                 \* "down" with the process
    asked,       \* history: calls made
    done,        \* history: calls whose callback returned
    lost         \* history: calls whose handler did not answer, or whose callback failed

vars == <<SessionCB, mailbox, running, answered, httpQ, net, asked, done, lost>>

Init ==
    /\ SessionCB = [v \in Vms |-> [s \in Sids |-> NoCall]]
    /\ mailbox = [v \in Vms |-> <<>>]
    /\ running = [v \in Vms |-> NoMsg]
    /\ answered = [v \in Vms |-> FALSE]
    /\ httpQ = <<>>
    /\ net = "up"
    /\ asked = {}
    /\ done = {}
    /\ lost = {}

Post(v, m) == mailbox' = [mailbox EXCEPT ![v] = Append(@, m)]

-----------------------------------------------------------------------------
(* Calls a script makes while a message is dispatched *)

FreeSids(v) == {s \in Sids : SessionCB[v][s] = NoCall}

\* Mutant: the first id, whether it is taken or not.
NewSIDFirst(v) == 1

\* TS.NewSID starts from zero at every call: the smallest id not in use.
NewSID(v) == CHOOSE s \in FreeSids(v) : \A t \in FreeSids(v) : s <= t

\* TS.Reg
Reg(v, c) ==
    /\ SessionCB' = [SessionCB EXCEPT ![v][NewSID(v)] = c]
    /\ asked' = asked \cup {c}

\* M.PostMessage with a callback, to a machine that answers such requests.
PostMessage(v, dest, c) ==
    /\ running[v] # NoMsg
    /\ c \notin asked
    /\ FreeSids(v) # {}
    /\ Reg(v, c)
    /\ Post(dest, [cmd |-> "Req", fid |-> v, sid |-> NewSID(v), call |-> c])
    /\ UNCHANGED <<running, answered, httpQ, net, done, lost>>

\* M.PostMessage without a callback: sid 0.
PostNotice(v, dest) ==
    /\ running[v] # NoMsg
    /\ Len(mailbox[dest]) < MaxMail /\ Len(mailbox[v]) < MaxMail
    /\ Post(dest, [cmd |-> "Req", fid |-> v, sid |-> 0, call |-> NoCall])
    /\ UNCHANGED <<SessionCB, running, answered, httpQ, net, asked, done, lost>>

\* M.HttpReq
HttpReq(v, c) ==
    /\ running[v] # NoMsg
    /\ c \notin asked
    /\ FreeSids(v) # {}
    /\ Reg(v, c)
    /\ httpQ' = Append(httpQ, [fid |-> v, sid |-> NewSID(v), call |-> c])
    /\ UNCHANGED <<mailbox, running, answered, net, done, lost>>

\* Mutant: the answer goes out under a session id of the machine that answers.
RetMessageOwnSid(v) ==
    /\ running[v] # NoMsg
    /\ running[v].cmd = "Req" /\ v \in Servers
    /\ ~answered[v]
    /\ Post(running[v].fid, [running[v] EXCEPT !.cmd = "Ret", !.fid = v,
                               !.sid = IF FreeSids(v) = {} THEN 0 ELSE NewSID(v)])
    /\ answered' = [answered EXCEPT ![v] = TRUE]
    /\ UNCHANGED <<SessionCB, running, httpQ, net, asked, done, lost>>

\* M.RetMessage: the request's sender and session id are handed back.  A
\* handler answers once, as m_login.lua does.
RetMessage(v) ==
    /\ running[v] # NoMsg
    /\ running[v].cmd = "Req" /\ v \in Servers
    /\ ~answered[v]
    /\ Post(running[v].fid, [running[v] EXCEPT !.cmd = "Ret", !.fid = v])
    /\ answered' = [answered EXCEPT ![v] = TRUE]
    /\ UNCHANGED <<SessionCB, running, httpQ, net, asked, done, lost>>

-----------------------------------------------------------------------------
(* Dispatch *)

\* REG_CMD_CB has a handler for the message, or it is a timer's.
Registered(v, m) ==
    \/ m.cmd = "Event"
    \/ m.cmd = "Req" /\ v \in Servers

\* Mutant: sessions are looked up before commands.
CallbackSessionFirst(v, m) == IF m.sid \in Sids THEN SessionCB[v][m.sid] ELSE NoCall

\* M.Dispatch and TS.Dispatch: registered commands and timers first, and only
\* then the session the message names.
Callback(v, m) ==
    IF Registered(v, m) \/ m.sid \notin Sids THEN NoCall ELSE SessionCB[v][m.sid]

Begin(v) ==
    /\ running[v] = NoMsg
    /\ mailbox[v] # <<>>
    /\ running' = [running EXCEPT ![v] = Head(mailbox[v])]
    /\ mailbox' = [mailbox EXCEPT ![v] = Tail(@)]
    /\ UNCHANGED <<SessionCB, answered, httpQ, net, asked, done, lost>>

\* Mutant: the whole table goes, not one entry.
ClearTable(v) == SessionCB' = [SessionCB EXCEPT ![v] = NoCall]

\* TS.Dispatch forgets the session after its callback returned.
Clear(v) == SessionCB' = [SessionCB EXCEPT ![v][running[v].sid] = NoCall]

\* Dispatch returns; ok is FALSE when lua_pcall caught an error.  A callback
\* that failed stays in SessionCB; a handler that did not answer never will.
End(v, ok) ==
    LET m == running[v]
        c == Callback(v, m)
    IN
    /\ m # NoMsg
    /\ IF c # NoCall /\ ok THEN Clear(v) ELSE UNCHANGED SessionCB
    /\ done' = IF c # NoCall /\ ok THEN done \cup {c} ELSE done
    /\ lost' = CASE c # NoCall /\ ~ok -> lost \cup {c}
                 [] m.cmd = "Req" /\ m.call # NoCall /\ ~answered[v] -> lost \cup {m.call}
                 [] OTHER -> lost
    /\ running' = [running EXCEPT ![v] = NoMsg]
    /\ answered' = [answered EXCEPT ![v] = FALSE]
    /\ UNCHANGED <<mailbox, httpQ, net, asked>>

-----------------------------------------------------------------------------
(* The rest of the server *)

\* A timer or a client's message; any number may be in its sid field.
Event(v, n) ==
    /\ Len(mailbox[v]) < MaxMail
    /\ Post(v, [cmd |-> "Event", fid |-> v, sid |-> n, call |-> NoCall])
    /\ UNCHANGED <<SessionCB, running, answered, httpQ, net, asked, done, lost>>

\* NET::_HttpReq carries out the request at the head of the queue, while
\* those behind it wait, and answers with the content, or with "fail:" and the
\* reason of a system_error.
_HttpReq ==
    /\ net = "up" /\ httpQ # <<>>
    /\ LET r == Head(httpQ) IN
         Post(r.fid, [cmd |-> "Ret", fid |-> r.fid, sid |-> r.sid, call |-> r.call])
    /\ httpQ' = Tail(httpQ)
    /\ UNCHANGED <<SessionCB, running, answered, net, asked, done, lost>>

\* The request is synchronous and has no timeout: the other side may never
\* answer it.
HttpHangs ==
    /\ net = "up" /\ httpQ # <<>>
    /\ net' = "stuck"
    /\ UNCHANGED <<SessionCB, mailbox, running, answered, httpQ, asked, done, lost>>

\* An exception of another class leaves the thread and ends the process: all
\* that it holds in memory is gone, and the histories with it.
HttpThrows ==
    /\ net = "up" /\ httpQ # <<>>
    /\ net' = "down"
    /\ SessionCB' = [v \in Vms |-> [s \in Sids |-> NoCall]]
    /\ mailbox' = [v \in Vms |-> <<>>]
    /\ running' = [v \in Vms |-> NoMsg]
    /\ answered' = [v \in Vms |-> FALSE]
    /\ httpQ' = <<>>
    /\ asked' = {} /\ done' = {} /\ lost' = {}

HttpStep == _HttpReq \/ HttpHangs \/ HttpThrows

VmStep(v) ==
    \/ Begin(v)
    \/ End(v, TRUE)
    \/ End(v, FALSE)

Script(v) ==
    \/ \E dest \in Servers, c \in Calls : PostMessage(v, dest, c)
    \/ \E dest \in Vms : PostNotice(v, dest)
    \/ \E c \in Calls : HttpReq(v, c)
    \/ RetMessage(v)

Next ==
    /\ net # "down"
    /\ \/ \E v \in Vms : VmStep(v) \/ Script(v)
       \/ \E v \in Vms, n \in Sids : Event(v, n)
       \/ HttpStep

Spec == Init /\ [][Next]_vars

\* The threads behind the machines (LvmMgr) go on, and the net-io thread gets to
\* every request; whether the request then returns is not assumed.
FairSpec == Spec /\ WF_vars(HttpStep) /\ \A v \in Vms : WF_vars(net # "down" /\ VmStep(v))
-----------------------------------------------------------------------------
(* Properties *)

\* Type invariant.
TypeOK ==
    /\ SessionCB \in [Vms -> [Sids -> Calls \cup {NoCall}]]
    /\ mailbox \in [Vms -> Seq(Msgs)]
    /\ running \in [Vms -> Msgs \cup {NoMsg}]
    /\ answered \in [Vms -> BOOLEAN]
    /\ httpQ \in Seq([fid : Vms, sid : Sids, call : Calls])
    /\ net \in {"up", "stuck", "down"}
    /\ asked \in SUBSET Calls
    /\ done \in SUBSET Calls
    /\ lost \in SUBSET Calls

\* A callback runs with the answer to its own call and with nothing else: not
\* with another machine's request, a timer or a client's message that carries
\* the same number, nor with the answer to a call without a callback.
RightCallback ==
    \A v \in Vms :
        running[v] # NoMsg =>
            Callback(v, running[v]) = IF running[v].cmd = "Ret" THEN running[v].call ELSE NoCall

\* Messages that stand for call c: on its way, at work, or on its way back.
Outstanding(c) ==
    (UNION {{<<v, i>> : i \in {j \in DOMAIN mailbox[v] : mailbox[v][j].call = c}} : v \in Vms})
    \cup {<<v, 0>> : v \in {w \in Vms : /\ running[w] # NoMsg
                                       /\ running[w].call = c
                                       /\ ~answered[w]}}
    \cup {<<NoMsg, i>> : i \in {j \in DOMAIN httpQ : httpQ[j].call = c}}

\* A callback stays registered, under one session id of its caller, exactly
\* from its call until it has run or its answer is lost; meanwhile one message
\* and one only is under way for it.
HeldWhileOut ==
    \A c \in Calls :
        LET held == {p \in Vms \X Sids : SessionCB[p[1]][p[2]] = c} IN
        /\ c \in asked \ done <=> Cardinality(held) = 1
        /\ c \notin asked \ done <=> held = {}
        /\ Cardinality(Outstanding(c)) = IF c \in asked \ (done \cup lost) THEN 1 ELSE 0

\* The call is an HTTP request at, or behind, one that never returns.
BehindStuck(c) == net = "stuck" /\ \E i \in DOMAIN httpQ : httpQ[i].call = c

\* Every call is answered, unless its handler or its callback failed, it waits
\* behind an HTTP request that never returns, or such a request has ended the
\* process.  A call to a machine is answered though the net-io thread is stuck.
CallsAnswered ==
    \A c \in Calls : c \in asked ~> c \in done \cup lost \/ BehindStuck(c) \/ net = "down"
=============================================================================
