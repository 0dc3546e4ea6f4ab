--------------------------- MODULE SessionProofs ---------------------------
(***************************************************************************)
(* Theorems about Session, for every set of machines, of calls and of      *)
(* session ids.                                                            *)
(***************************************************************************)
EXTENDS Session, WellFoundedInduction, FiniteSetTheorems, TLAPS

-----------------------------------------------------------------------------
(* Session ids *)

\* A set of numbers that is not empty has a least element.
LEMMA LeastNat ==
    ASSUME NEW S, S \subseteq Nat, S # {}
    PROVE  \E k \in S : \A j \in S : k <= j
<1>1. \E x \in S : \A y \in S : ~(<<y, x>> \in OpToRel(<, Nat))
  BY NatLessThanWellFounded, WFMin
<1>2. PICK k \in S : \A j \in S : ~(<<j, k>> \in OpToRel(<, Nat))
  BY <1>1
<1>3. ASSUME NEW j \in S, j < k PROVE <<j, k>> \in OpToRel(<, Nat)
  BY <1>3 DEF OpToRel
<1>4. \A j \in S : ~(j < k)
  BY <1>2, <1>3, Zenon
<1>5. QED
  BY <1>4

\* NewSID is a session id of the machine that holds no callback.
LEMMA NewSIDFree ==
    ASSUME NEW v \in Vms, FreeSids(v) # {}
    PROVE  NewSID(v) \in Sids /\ SessionCB[v][NewSID(v)] = NoCall
<1>1. FreeSids(v) \subseteq Nat
  BY SessionAssumption DEF FreeSids, Sids
<1>2. NewSID(v) \in FreeSids(v)
  BY <1>1, LeastNat DEF NewSID
<1>3. QED
  BY <1>2 DEF FreeSids

-----------------------------------------------------------------------------
(* The calls in a queue *)

CallsOf(s) == {s[i].call : i \in DOMAIN s} \cap Calls

\* No call has two messages in the queue.
Once(s) == \A i, j \in DOMAIN s : s[i].call = s[j].call /\ s[i].call \in Calls => i = j

Call(m) == {m.call} \cap Calls

\* A message posted adds its call.
LEMMA AppendCalls ==
    ASSUME NEW S, NEW s \in Seq(S), NEW m \in S
    PROVE  /\ CallsOf(Append(s, m)) = CallsOf(s) \cup Call(m)
           /\ Once(s) /\ m.call \notin CallsOf(s) => Once(Append(s, m))
<1> DEFINE t == Append(s, m)
<1>1. /\ DOMAIN t = 1 .. Len(s) + 1
      /\ t[Len(s) + 1] = m
      /\ \A i \in 1 .. Len(s) : t[i] = s[i]
      /\ DOMAIN s = 1 .. Len(s)
      /\ Len(s) \in Nat
  OBVIOUS
<1> HIDE DEF t
<1>2. DOMAIN t = DOMAIN s \cup {Len(s) + 1}
  BY <1>1
<1>3. CallsOf(t) = CallsOf(s) \cup Call(m)
  BY <1>1, <1>2 DEF CallsOf, Call
<1>4. ASSUME Once(s), m.call \notin CallsOf(s) PROVE Once(t)
  <2>1. \A i \in DOMAIN s : s[i].call \in Calls => s[i].call # m.call
    BY <1>4 DEF CallsOf
  <2>2. QED
    BY <1>1, <1>2, <1>4, <2>1 DEF Once
<1>5. QED
  BY <1>3, <1>4 DEF t

LEMMA HeadTail ==
    ASSUME NEW S, NEW s \in Seq(S), s # <<>>
    PROVE  /\ Head(s) \in S /\ Tail(s) \in Seq(S)
           /\ \A i \in DOMAIN Tail(s) : i + 1 \in DOMAIN s /\ Tail(s)[i] = s[i + 1]
OBVIOUS

LEMMA Element ==
    ASSUME NEW S, NEW s \in Seq(S), NEW i \in DOMAIN s
    PROVE  s[i] \in S
OBVIOUS

\* The message taken from a queue takes its call with it.
LEMMA TailCalls ==
    ASSUME NEW S, NEW s \in Seq(S), s # <<>>, Once(s)
    PROVE  /\ CallsOf(Tail(s)) = CallsOf(s) \ Call(Head(s))
           /\ Once(Tail(s))
           /\ Call(Head(s)) \subseteq CallsOf(s)
<1> DEFINE t == Tail(s)
<1>1. /\ Len(s) \in Nat /\ Len(s) >= 1
      /\ DOMAIN s = 1 .. Len(s)
      /\ DOMAIN t = 1 .. Len(s) - 1
      /\ \A i \in 1 .. Len(s) - 1 : t[i] = s[i + 1]
      /\ Head(s) = s[1]
  OBVIOUS
<1> HIDE DEF t
<1>2. Once(t)
  BY <1>1 DEF Once
<1>3. CallsOf(t) \subseteq CallsOf(s) \ Call(Head(s))
  <2>1. SUFFICES ASSUME NEW i \in DOMAIN t, t[i].call \in Calls
                 PROVE  t[i].call \in CallsOf(s) /\ t[i].call # Head(s).call
    BY DEF CallsOf, Call
  <2>2. i + 1 \in DOMAIN s /\ 1 \in DOMAIN s /\ i + 1 # 1 /\ t[i] = s[i + 1]
    BY <1>1
  <2>3. QED
    BY <1>1, <2>1, <2>2 DEF CallsOf, Once
<1>4. CallsOf(s) \ Call(Head(s)) \subseteq CallsOf(t)
  <2>1. SUFFICES ASSUME NEW i \in DOMAIN s, s[i].call \in Calls, s[i].call # Head(s).call
                 PROVE  s[i].call \in CallsOf(t)
    BY DEF CallsOf, Call
  <2>2. i # 1 /\ i - 1 \in DOMAIN t /\ t[i - 1] = s[i]
    BY <1>1, <2>1
  <2>3. QED
    BY <2>1, <2>2 DEF CallsOf
<1>5. Call(Head(s)) \subseteq CallsOf(s)
  BY <1>1 DEF CallsOf, Call
<1>6. QED
  BY <1>2, <1>3, <1>4, <1>5 DEF t

-----------------------------------------------------------------------------
(* The inductive invariant *)

\* The call of the message in Dispatch, while no answer to it is under way.
Live(v) == IF running[v] = NoMsg \/ answered[v] THEN {} ELSE Call(running[v])

\* Only a request that the machine answers is answered.
Answering ==
    \A v \in Vms : answered[v] => running[v] # NoMsg /\ running[v].cmd = "Req" /\ v \in Servers

\* Message m at machine v, when it stands for a call, finds that call's
\* callback in cb under its session id: at v, or at the machine that asked.
Right(cb, v, m) ==
    /\ m.call = NoCall /\ m.cmd # "Event" => m.sid = 0
    /\ m.call # NoCall =>
         /\ m.cmd # "Event" /\ m.sid \in Sids
         /\ m.cmd = "Req" => v \in Servers /\ cb[m.fid][m.sid] = m.call
         /\ m.cmd = "Ret" => cb[v][m.sid] = m.call

MailRight == \A v \in Vms : \A i \in DOMAIN mailbox[v] : Right(SessionCB, v, mailbox[v][i])

RunningRight == \A v \in Vms : running[v] # NoMsg /\ ~answered[v] => Right(SessionCB, v, running[v])

HttpRight == \A i \in DOMAIN httpQ : SessionCB[httpQ[i].fid][httpQ[i].sid] = httpQ[i].call

In(v) == CallsOf(mailbox[v])

InHttp == CallsOf(httpQ)

\* Every call under way was made.
Asked == InHttp \subseteq asked /\ \A v \in Vms : In(v) \subseteq asked /\ Live(v) \subseteq asked

\* No call is twice in one queue, nor in two places.
NotTwice == Once(httpQ) /\ \A v \in Vms : Once(mailbox[v])

Apart ==
    /\ \A v, w \in Vms : In(v) \cap Live(w) = {}
    /\ \A v \in Vms : In(v) \cap InHttp = {} /\ Live(v) \cap InHttp = {}
    /\ \A v, w \in Vms : v # w => In(v) \cap In(w) = {} /\ Live(v) \cap Live(w) = {}

UnderWay(c) == c \in InHttp \/ \E v \in Vms : c \in In(v) \/ c \in Live(v)

\* A call made is under way until it is done or lost.
Way ==
    /\ done \cup lost \subseteq asked
    /\ \A c \in Calls : UnderWay(c) <=> c \in asked \ (done \cup lost)

Single == Asked /\ NotTwice /\ Apart /\ Way

\* The callbacks held are those of the calls made and not done, each once.
Callbacks ==
    /\ \A v \in Vms, s \in Sids : SessionCB[v][s] # NoCall => SessionCB[v][s] \in asked \ done
    /\ \A c \in asked \ done : \E v \in Vms, s \in Sids : SessionCB[v][s] = c
    /\ \A v, w \in Vms, s, t \in Sids :
         SessionCB[v][s] # NoCall /\ SessionCB[v][s] = SessionCB[w][t] => v = w /\ s = t

IInv == TypeOK /\ Answering /\ MailRight /\ RunningRight /\ HttpRight /\ Single /\ Callbacks

\* A message brings at most one callback to run, that of its own call.
LEMMA RightOfInv ==
    ASSUME IInv
    PROVE  RightCallback
<1>1. SUFFICES ASSUME NEW v \in Vms, running[v] # NoMsg
               PROVE  Callback(v, running[v]) = IF running[v].cmd = "Ret" THEN running[v].call ELSE NoCall
  BY DEF RightCallback
<1>2. running[v] \in Msgs
  BY <1>1 DEF IInv, TypeOK
<1>3. CASE answered[v]
  BY <1>1, <1>3 DEF IInv, Answering, Callback, Registered
<1>4. CASE ~answered[v]
  <2>1. Right(SessionCB, v, running[v])
    BY <1>1, <1>4 DEF IInv, RunningRight
  <2>2. 0 \notin Sids
    BY DEF Sids
  <2>3. QED
    BY <1>2, <2>1, <2>2 DEF Right, Callback, Registered, Msgs
<1>5. QED
  BY <1>3, <1>4

-----------------------------------------------------------------------------
(* The steps *)

LEMMA TypeStep ==
    ASSUME IInv, [Next]_vars, ~HttpThrows
    PROVE  TypeOK'
<1> USE DEF IInv, TypeOK
<1>1. CASE UNCHANGED vars
  BY <1>1 DEF vars
<1>2. ASSUME NEW v \in Vms, NEW dest \in Servers, NEW c \in Calls, PostMessage(v, dest, c) PROVE TypeOK'
  <2>1. NewSID(v) \in Sids /\ dest \in Vms
    BY <1>2, NewSIDFree, SessionAssumption DEF PostMessage
  <2>2. [cmd |-> "Req", fid |-> v, sid |-> NewSID(v), call |-> c] \in Msgs
    BY <2>1 DEF Msgs
  <2>3. QED
    BY <1>2, <2>1, <2>2 DEF PostMessage, Post, Reg
<1>3. ASSUME NEW v \in Vms, NEW dest \in Vms, PostNotice(v, dest) PROVE TypeOK'
  <2>1. [cmd |-> "Req", fid |-> v, sid |-> 0, call |-> NoCall] \in Msgs
    BY DEF Msgs
  <2>2. QED
    BY <1>3, <2>1 DEF PostNotice, Post
<1>4. ASSUME NEW v \in Vms, NEW c \in Calls, HttpReq(v, c) PROVE TypeOK'
  <2>1. NewSID(v) \in Sids
    BY <1>4, NewSIDFree DEF HttpReq
  <2>2. QED
    BY <1>4, <2>1 DEF HttpReq, Reg
<1>5. ASSUME NEW v \in Vms, RetMessage(v) PROVE TypeOK'
  <2>1. running[v] \in Msgs
    BY <1>5 DEF RetMessage
  <2>2. [running[v] EXCEPT !.cmd = "Ret", !.fid = v] \in Msgs /\ running[v].fid \in Vms
    BY <2>1 DEF Msgs
  <2>3. QED
    BY <1>5, <2>2 DEF RetMessage, Post
<1>6. ASSUME NEW v \in Vms, Begin(v) PROVE TypeOK'
  <2>1. Head(mailbox[v]) \in Msgs /\ Tail(mailbox[v]) \in Seq(Msgs)
    BY <1>6 DEF Begin
  <2>2. QED
    BY <1>6, <2>1 DEF Begin
<1>7. ASSUME NEW v \in Vms, NEW ok \in BOOLEAN, End(v, ok) PROVE TypeOK'
  <2>1. running[v] \in Msgs
    BY <1>7 DEF End
  <2>2. Callback(v, running[v]) \in Calls \cup {NoCall} /\ running[v].call \in Calls \cup {NoCall}
    BY <2>1 DEF Callback, Msgs
  <2>3. SessionCB' \in [Vms -> [Sids -> Calls \cup {NoCall}]]
    <3>1. CASE UNCHANGED SessionCB
      BY <3>1
    <3>2. CASE Clear(v)
      <4>1. SessionCB[v] \in [Sids -> Calls \cup {NoCall}]
        OBVIOUS
      <4>2. [SessionCB[v] EXCEPT ![running[v].sid] = NoCall] \in [Sids -> Calls \cup {NoCall}]
        BY <4>1
      <4>3. SessionCB' = [SessionCB EXCEPT ![v] = [SessionCB[v] EXCEPT ![running[v].sid] = NoCall]]
        BY <3>2 DEF Clear
      <4>4. QED
        BY <4>2, <4>3
    <3>3. QED
      BY <1>7, <3>1, <3>2 DEF End
  <2>4. done' \in SUBSET Calls /\ lost' \in SUBSET Calls
    BY <1>7, <2>2 DEF End
  <2>5. QED
    BY <1>7, <2>3, <2>4 DEF End
<1>8. ASSUME NEW v \in Vms, NEW n \in Sids, Event(v, n) PROVE TypeOK'
  <2>1. [cmd |-> "Event", fid |-> v, sid |-> n, call |-> NoCall] \in Msgs
    BY DEF Msgs
  <2>2. QED
    BY <1>8, <2>1 DEF Event, Post
<1>9. CASE _HttpReq
  <2>1. Head(httpQ) \in [fid : Vms, sid : Sids, call : Calls] /\ Tail(httpQ) \in Seq([fid : Vms, sid : Sids, call : Calls])
    BY <1>9, HeadTail, Zenon DEF _HttpReq
  <2> DEFINE r == Head(httpQ)
  <2>2. [cmd |-> "Ret", fid |-> r.fid, sid |-> r.sid, call |-> r.call] \in Msgs
    BY <2>1 DEF Msgs
  <2>3. QED
    BY <1>9, <2>1, <2>2 DEF _HttpReq, Post
<1>10. CASE HttpHangs
  BY <1>10 DEF HttpHangs
<1>11. QED
  BY <1>1, <1>2, <1>3, <1>4, <1>5, <1>6, <1>7, <1>8, <1>9, <1>10 DEF Next, VmStep, Script, HttpStep

LEMMA AnsweringStep ==
    ASSUME IInv, [Next]_vars, ~HttpThrows
    PROVE  Answering'
<1>1. CASE UNCHANGED <<running, answered>>
  BY <1>1 DEF IInv, Answering
<1>2. ASSUME NEW v \in Vms, RetMessage(v) PROVE Answering'
  BY <1>2 DEF IInv, TypeOK, Answering, RetMessage
<1>3. ASSUME NEW v \in Vms, Begin(v) PROVE Answering'
  BY <1>3 DEF IInv, TypeOK, Answering, Begin
<1>4. ASSUME NEW v \in Vms, NEW ok \in BOOLEAN, End(v, ok) PROVE Answering'
  BY <1>4 DEF IInv, TypeOK, Answering, End
<1>5. QED
  BY <1>1, <1>2, <1>3, <1>4
     DEF Next, VmStep, Script, HttpStep, PostMessage, PostNotice, HttpReq, Event, _HttpReq, HttpHangs, vars

\* What a message posted does to the mailboxes.
LEMMA Posted ==
    ASSUME mailbox \in [Vms -> Seq(Msgs)], NEW v \in Vms, NEW m \in Msgs, Post(v, m)
    PROVE  /\ In(v)' = In(v) \cup Call(m)
           /\ \A w \in Vms : w # v => mailbox'[w] = mailbox[w] /\ In(w)' = In(w)
           /\ Once(mailbox[v]) /\ m.call \notin In(v) => Once(mailbox[v])'
           /\ \A w \in Vms : \A i \in DOMAIN mailbox'[w] :
                \/ i \in DOMAIN mailbox[w] /\ mailbox'[w][i] = mailbox[w][i]
                \/ w = v /\ mailbox'[w][i] = m
<1>1. mailbox[v] \in Seq(Msgs) /\ mailbox'[v] = Append(mailbox[v], m)
  BY DEF Post
<1>2. \A w \in Vms : w # v => mailbox'[w] = mailbox[w]
  BY DEF Post
<1>3. /\ CallsOf(Append(mailbox[v], m)) = CallsOf(mailbox[v]) \cup Call(m)
      /\ Once(mailbox[v]) /\ m.call \notin CallsOf(mailbox[v]) => Once(Append(mailbox[v], m))
  BY <1>1, AppendCalls
<1>4. /\ CallsOf(mailbox'[v]) = CallsOf(mailbox[v]) \cup Call(m)
      /\ Once(mailbox[v]) /\ m.call \notin In(v) => Once(mailbox'[v])
  BY <1>1, <1>3 DEF In
<1>5. \A i \in DOMAIN mailbox'[v] :
        (i \in DOMAIN mailbox[v] /\ mailbox'[v][i] = mailbox[v][i]) \/ mailbox'[v][i] = m
  BY <1>1
<1>6. QED
  BY <1>2, <1>4, <1>5, Zenon DEF In

\* A message is as right in cb2 as in cb when its call's callback stays.
LEMMA RightKept ==
    ASSUME NEW cb, NEW cb2, NEW v \in Vms, NEW m \in Msgs, Right(cb, v, m),
           m.call # NoCall => \A w \in Vms, s \in Sids : cb[w][s] = m.call => cb2[w][s] = m.call
    PROVE  Right(cb2, v, m)
BY DEF Right, Msgs

\* A session id given to a new callback takes none from another.
LEMMA RegKeeps ==
    ASSUME TypeOK, NEW v \in Vms, NEW c \in Calls, FreeSids(v) # {}, Reg(v, c)
    PROVE  /\ \A w \in Vms, s \in Sids : SessionCB[w][s] # NoCall => SessionCB'[w][s] = SessionCB[w][s]
           /\ SessionCB'[v][NewSID(v)] = c
BY NewSIDFree DEF TypeOK, Reg

\* While every callback registered stays, the messages under way stay right.
LEMMA AllKept ==
    ASSUME IInv,
           \A w \in Vms, s \in Sids : SessionCB[w][s] # NoCall => SessionCB'[w][s] = SessionCB[w][s]
    PROVE  /\ \A w \in Vms : \A i \in DOMAIN mailbox[w] : Right(SessionCB', w, mailbox[w][i])
           /\ \A w \in Vms : running[w] # NoMsg /\ ~answered[w] => Right(SessionCB', w, running[w])
           /\ \A i \in DOMAIN httpQ : SessionCB'[httpQ[i].fid][httpQ[i].sid] = httpQ[i].call
<1>1. ASSUME NEW w \in Vms, NEW m \in Msgs, Right(SessionCB, w, m) PROVE Right(SessionCB', w, m)
  BY <1>1, RightKept
<1>2. ASSUME NEW w \in Vms, NEW i \in DOMAIN mailbox[w] PROVE Right(SessionCB', w, mailbox[w][i])
  <2>1. mailbox[w][i] \in Msgs
    BY <1>2 DEF IInv, TypeOK
  <2>2. QED
    BY <1>1, <1>2, <2>1 DEF IInv, MailRight
<1>3. ASSUME NEW w \in Vms, running[w] # NoMsg, ~answered[w] PROVE Right(SessionCB', w, running[w])
  <2>1. running[w] \in Msgs
    BY <1>3 DEF IInv, TypeOK
  <2>2. QED
    BY <1>1, <1>3, <2>1 DEF IInv, RunningRight
<1>4. ASSUME NEW i \in DOMAIN httpQ PROVE SessionCB'[httpQ[i].fid][httpQ[i].sid] = httpQ[i].call
  <2>1. httpQ[i] \in [fid : Vms, sid : Sids, call : Calls]
    BY <1>4, Element, Zenon DEF IInv, TypeOK
  <2>2. httpQ[i].fid \in Vms /\ httpQ[i].sid \in Sids /\ httpQ[i].call # NoCall
    BY <2>1, SessionAssumption
  <2>3. QED
    BY <2>2 DEF IInv, HttpRight
<1>5. QED
  BY <1>2, <1>3, <1>4

\* A message posted for a call that nothing under way stands for.
LEMMA PostRight ==
    ASSUME IInv, NEW v \in Vms, NEW m \in Msgs, Post(v, m), Right(SessionCB', v, m),
           \A w \in Vms, s \in Sids : SessionCB[w][s] # NoCall => SessionCB'[w][s] = SessionCB[w][s]
    PROVE  MailRight'
<1>1. \A w \in Vms : \A i \in DOMAIN mailbox[w] : Right(SessionCB', w, mailbox[w][i])
  BY AllKept
<1>2. \A w \in Vms : \A i \in DOMAIN mailbox'[w] :
        \/ i \in DOMAIN mailbox[w] /\ mailbox'[w][i] = mailbox[w][i]
        \/ w = v /\ mailbox'[w][i] = m
  BY Posted DEF IInv, TypeOK
<1>3. SUFFICES ASSUME NEW w \in Vms, NEW i \in DOMAIN mailbox'[w]
               PROVE  Right(SessionCB', w, mailbox'[w][i])
  BY DEF MailRight
<1>4. CASE i \in DOMAIN mailbox[w] /\ mailbox'[w][i] = mailbox[w][i]
  BY <1>1, <1>4
<1>5. CASE w = v /\ mailbox'[w][i] = m
  BY <1>5
<1>6. QED
  BY <1>2, <1>4, <1>5

Rest == MailRight /\ RunningRight /\ HttpRight /\ Single

LEMMA PostMessageStep ==
    ASSUME IInv, NEW v \in Vms, NEW dest \in Servers, NEW c \in Calls, PostMessage(v, dest, c)
    PROVE  Rest'
<1> DEFINE m == [cmd |-> "Req", fid |-> v, sid |-> NewSID(v), call |-> c]
<1>1. /\ c \notin asked /\ FreeSids(v) # {} /\ Reg(v, c) /\ Post(dest, m)
      /\ UNCHANGED <<running, answered, httpQ, net, done, lost>>
      /\ asked' = asked \cup {c}
      /\ dest \in Vms /\ c # NoCall
  BY SessionAssumption DEF PostMessage, Reg
<1>2. /\ \A w \in Vms, s \in Sids : SessionCB[w][s] # NoCall => SessionCB'[w][s] = SessionCB[w][s]
      /\ SessionCB'[v][NewSID(v)] = c /\ NewSID(v) \in Sids
  BY <1>1, RegKeeps, NewSIDFree DEF IInv
<1>3. m \in Msgs /\ Right(SessionCB', dest, m) /\ Call(m) = {c}
  BY <1>1, <1>2 DEF Msgs, Right, Call
<1>4. m.call = c
  OBVIOUS
<1> HIDE DEF m
<1>5. MailRight'
  BY <1>1, <1>2, <1>3, PostRight
<1>6. RunningRight' /\ HttpRight'
  BY <1>1, <1>2, AllKept DEF RunningRight, HttpRight
<1>7. /\ In(dest)' = In(dest) \cup {c}
      /\ \A w \in Vms : w # dest => mailbox'[w] = mailbox[w] /\ In(w)' = In(w)
      /\ c \notin In(dest) => Once(mailbox[dest])'
  BY <1>1, <1>3, <1>4, Posted DEF IInv, TypeOK, Single, NotTwice
<1>8. InHttp' = InHttp /\ \A w \in Vms : Live(w)' = Live(w)
  BY <1>1 DEF InHttp, Live
<1>9. NotTwice'
  BY <1>1, <1>7 DEF IInv, Single, NotTwice, Asked
<1>10. Asked' /\ Apart'
  BY <1>1, <1>7, <1>8 DEF IInv, Single, Asked, Apart
<1>11. Way'
  BY <1>1, <1>7, <1>8 DEF IInv, Single, Way, UnderWay
<1>12. QED
  BY <1>5, <1>6, <1>9, <1>10, <1>11 DEF Rest, Single

\* A message that stands for no call, and leaves the rest alone.
LEMMA PlainPostStep ==
    ASSUME IInv, NEW v \in Vms, NEW m \in Msgs, Post(v, m), Right(SessionCB, v, m), m.call = NoCall,
           UNCHANGED <<SessionCB, running, answered, httpQ, net, asked, done, lost>>
    PROVE  Rest'
<1>1. Call(m) = {} /\ m.call \notin In(v)
  BY SessionAssumption DEF Call, In, CallsOf
<1>2. MailRight'
  BY PostRight
<1>3. RunningRight' /\ HttpRight'
  BY DEF IInv, RunningRight, HttpRight
<1>4. /\ \A w \in Vms : In(w)' = In(w)
      /\ \A w \in Vms : w # v => mailbox'[w] = mailbox[w]
      /\ Once(mailbox[v])'
  BY <1>1, Posted DEF IInv, TypeOK, Single, NotTwice
<1>5. InHttp' = InHttp /\ \A w \in Vms : Live(w)' = Live(w)
  BY DEF InHttp, Live
<1>6. NotTwice' /\ Asked' /\ Apart' /\ Way'
  BY <1>4, <1>5 DEF IInv, Single, NotTwice, Asked, Apart, Way, UnderWay
<1>7. QED
  BY <1>2, <1>3, <1>6 DEF Rest, Single

LEMMA PostNoticeStep ==
    ASSUME IInv, NEW v \in Vms, NEW dest \in Vms, PostNotice(v, dest)
    PROVE  Rest'
<1> DEFINE m == [cmd |-> "Req", fid |-> v, sid |-> 0, call |-> NoCall]
<1>1. m \in Msgs /\ m.call = NoCall /\ Right(SessionCB, dest, m)
  BY DEF Msgs, Right
<1>2. QED
  BY <1>1, PlainPostStep DEF PostNotice

LEMMA EventStep ==
    ASSUME IInv, NEW v \in Vms, NEW n \in Sids, Event(v, n)
    PROVE  Rest'
<1> DEFINE m == [cmd |-> "Event", fid |-> v, sid |-> n, call |-> NoCall]
<1>1. m \in Msgs /\ m.call = NoCall /\ Right(SessionCB, v, m)
  BY DEF Msgs, Right
<1>2. QED
  BY <1>1, PlainPostStep DEF Event

HttpReqs == [fid : Vms, sid : Sids, call : Calls]

LEMMA HttpReqStep ==
    ASSUME IInv, NEW v \in Vms, NEW c \in Calls, HttpReq(v, c)
    PROVE  Rest'
<1> DEFINE r == [fid |-> v, sid |-> NewSID(v), call |-> c]
<1>1. /\ c \notin asked /\ FreeSids(v) # {} /\ Reg(v, c) /\ httpQ' = Append(httpQ, r)
      /\ UNCHANGED <<mailbox, running, answered, net, done, lost>>
      /\ asked' = asked \cup {c}
  BY DEF HttpReq, Reg
<1>2. /\ \A w \in Vms, s \in Sids : SessionCB[w][s] # NoCall => SessionCB'[w][s] = SessionCB[w][s]
      /\ SessionCB'[v][NewSID(v)] = c /\ NewSID(v) \in Sids
  BY <1>1, RegKeeps, NewSIDFree DEF IInv
<1>3. httpQ \in Seq(HttpReqs) /\ r \in HttpReqs
  BY <1>2, Zenon DEF IInv, TypeOK, HttpReqs
<1>4. r.fid = v /\ r.sid = NewSID(v) /\ r.call = c /\ Call(r) = {c}
  BY DEF Call
<1> HIDE DEF r
<1>5. MailRight' /\ RunningRight'
  BY <1>1, <1>2, AllKept DEF MailRight, RunningRight
<1>6. HttpRight'
  <2>1. \A i \in DOMAIN httpQ' : (i \in DOMAIN httpQ /\ httpQ'[i] = httpQ[i]) \/ httpQ'[i] = r
    BY <1>1, <1>3
  <2>2. \A i \in DOMAIN httpQ : SessionCB'[httpQ[i].fid][httpQ[i].sid] = httpQ[i].call
    BY <1>2, AllKept
  <2>3. QED
    BY <1>2, <1>4, <2>1, <2>2 DEF HttpRight
<1>7. InHttp' = InHttp \cup {c} /\ (Once(httpQ) /\ c \notin InHttp => Once(httpQ)')
  <2>1. /\ CallsOf(Append(httpQ, r)) = CallsOf(httpQ) \cup Call(r)
        /\ Once(httpQ) /\ r.call \notin CallsOf(httpQ) => Once(Append(httpQ, r))
    BY <1>3, AppendCalls
  <2>2. QED
    BY <1>1, <1>4, <2>1 DEF InHttp
<1>8. \A w \in Vms : In(w)' = In(w) /\ Live(w)' = Live(w)
  BY <1>1 DEF In, Live
<1>9. NotTwice'
  BY <1>1, <1>7 DEF IInv, Single, NotTwice, Asked
<1>10. Asked' /\ Apart'
  BY <1>1, <1>7, <1>8 DEF IInv, Single, Asked, Apart
<1>11. Way'
  BY <1>1, <1>7, <1>8 DEF IInv, Single, Way, UnderWay
<1>12. QED
  BY <1>5, <1>6, <1>9, <1>10, <1>11 DEF Rest, Single

\* The answer takes over from the request it answers.
LEMMA RetMessageStep ==
    ASSUME IInv, NEW v \in Vms, RetMessage(v)
    PROVE  Rest'
<1>0. PICK m, a, d : m = running[v] /\ a = [m EXCEPT !.cmd = "Ret", !.fid = v] /\ d = m.fid
  OBVIOUS
<1>1. /\ m # NoMsg /\ m.cmd = "Req" /\ v \in Servers /\ ~answered[v] /\ Post(d, a)
      /\ answered' = [answered EXCEPT ![v] = TRUE]
      /\ UNCHANGED <<SessionCB, running, httpQ, net, asked, done, lost>>
  BY <1>0 DEF RetMessage
<1>2. m \in Msgs /\ Right(SessionCB, v, m) /\ d \in Vms
  BY <1>0, <1>1 DEF IInv, TypeOK, RunningRight, Msgs
<1>3. a \in Msgs /\ a.call = m.call /\ a.cmd = "Ret" /\ a.sid = m.sid
  BY <1>0, <1>2 DEF Msgs
<1>4. Right(SessionCB', d, a)
  BY <1>0, <1>1, <1>2, <1>3 DEF Right
<1>5. Live(v) = Call(m) /\ Call(a) = Call(m)
  BY <1>0, <1>1, <1>3 DEF Live, Call
<1>6. Live(v)' = {} /\ \A w \in Vms : w # v => Live(w)' = Live(w)
  BY <1>1 DEF Live, IInv, TypeOK
<1>7. RunningRight' /\ HttpRight'
  BY <1>1 DEF IInv, RunningRight, HttpRight, TypeOK
<1>8. a.call \notin In(d)
  BY <1>2, <1>3, <1>5 DEF IInv, Single, Apart, In, CallsOf, Call
<1>9. MailRight'
  BY <1>1, <1>2, <1>3, <1>4, PostRight
<1>10. /\ In(d)' = In(d) \cup Live(v)
       /\ \A w \in Vms : w # d => mailbox'[w] = mailbox[w] /\ In(w)' = In(w)
       /\ Once(mailbox[d])'
  BY <1>1, <1>2, <1>3, <1>5, <1>8, Posted DEF IInv, TypeOK, Single, NotTwice
<1>11. InHttp' = InHttp
  BY <1>1 DEF InHttp
<1>12. NotTwice'
  BY <1>1, <1>10 DEF IInv, Single, NotTwice
<1>13. Asked' /\ Apart'
  BY <1>1, <1>2, <1>6, <1>10, <1>11 DEF IInv, Single, Asked, Apart
<1>14. Way'
  BY <1>1, <1>2, <1>6, <1>10, <1>11 DEF IInv, Single, Way, UnderWay
<1>15. QED
  BY <1>7, <1>9, <1>12, <1>13, <1>14 DEF Rest, Single

\* The call moves from the mailbox to Dispatch.
LEMMA BeginStep ==
    ASSUME IInv, NEW v \in Vms, Begin(v)
    PROVE  Rest'
<1>0. PICK m : m = Head(mailbox[v])
  OBVIOUS
<1>1. /\ running[v] = NoMsg /\ mailbox[v] # <<>>
      /\ running' = [running EXCEPT ![v] = m]
      /\ mailbox' = [mailbox EXCEPT ![v] = Tail(@)]
      /\ UNCHANGED <<SessionCB, answered, httpQ, net, asked, done, lost>>
  BY <1>0 DEF Begin
<1>2. /\ mailbox[v] \in Seq(Msgs) /\ Once(mailbox[v])
      /\ mailbox'[v] = Tail(mailbox[v]) /\ ~answered[v]
      /\ \A w \in Vms : w # v => mailbox'[w] = mailbox[w]
  BY <1>1 DEF IInv, TypeOK, Single, NotTwice, Answering
<1>3. /\ CallsOf(Tail(mailbox[v])) = CallsOf(mailbox[v]) \ Call(Head(mailbox[v]))
      /\ Once(Tail(mailbox[v]))
      /\ Call(Head(mailbox[v])) \subseteq CallsOf(mailbox[v])
  BY <1>1, <1>2, TailCalls
<1>4. /\ In(v)' = In(v) \ Call(m) /\ Call(m) \subseteq In(v)
      /\ \A w \in Vms : w # v => In(w)' = In(w)
  BY <1>0, <1>2, <1>3 DEF In
<1>5. Live(v)' = Call(m) /\ \A w \in Vms : w # v => Live(w)' = Live(w)
  <2>1. m \in Msgs
    BY <1>0, <1>1, <1>2, HeadTail
  <2>2. m # NoMsg
    BY <2>1, SessionAssumption
  <2>3. QED
    BY <1>1, <1>2, <2>2 DEF Live, Call, IInv, TypeOK
<1>6. InHttp' = InHttp
  BY <1>1 DEF InHttp
<1>7. MailRight'
  <2>1. \A i \in DOMAIN mailbox'[v] : i + 1 \in DOMAIN mailbox[v] /\ mailbox'[v][i] = mailbox[v][i + 1]
    <3>1. \A i \in DOMAIN Tail(mailbox[v]) :
            i + 1 \in DOMAIN mailbox[v] /\ Tail(mailbox[v])[i] = mailbox[v][i + 1]
      BY <1>1, <1>2, HeadTail, Zenon
    <3>2. QED
      BY <1>2, <3>1, Zenon
  <2>2. QED
    BY <1>1, <1>2, <2>1 DEF IInv, MailRight
<1>8. RunningRight'
  <2>1. 1 \in DOMAIN mailbox[v] /\ m = mailbox[v][1]
    BY <1>0, <1>1, <1>2
  <2>2. QED
    BY <1>1, <2>1 DEF IInv, RunningRight, MailRight, TypeOK
<1>9. HttpRight'
  BY <1>1 DEF IInv, HttpRight
<1>10. NotTwice'
  BY <1>1, <1>2, <1>3 DEF IInv, Single, NotTwice
<1>11. Asked'
  BY <1>1, <1>4, <1>5, <1>6 DEF IInv, Single, Asked
<1>12. Apart'
  BY <1>4, <1>5, <1>6 DEF IInv, Single, Apart
<1>13. Live(v) = {}
  BY <1>1 DEF Live
<1>14. Way'
  BY <1>1, <1>4, <1>5, <1>6, <1>13 DEF IInv, Single, Way, UnderWay
<1>15. QED
  BY <1>7, <1>8, <1>9, <1>10, <1>11, <1>12, <1>14 DEF Rest, Single

\* The callback that goes was the last thing its call had.
LEMMA ClearKeeps ==
    ASSUME IInv, NEW v \in Vms, running[v] # NoMsg, Callback(v, running[v]) # NoCall, Clear(v),
           UNCHANGED <<mailbox, httpQ, net>>
    PROVE  /\ MailRight'
           /\ HttpRight'
           /\ \A w \in Vms : w # v /\ running[w] # NoMsg /\ ~answered[w] => Right(SessionCB', w, running[w])
<1>0. PICK m, c : m = running[v] /\ c = m.call
  OBVIOUS
<1>1. m \in Msgs /\ m.cmd = "Ret" /\ c = Callback(v, m) /\ c # NoCall /\ c \in Calls
  <2>1. m \in Msgs
    BY <1>0 DEF IInv, TypeOK
  <2>2. Callback(v, m) = IF m.cmd = "Ret" THEN m.call ELSE NoCall
    BY <1>0, RightOfInv DEF RightCallback
  <2>3. QED
    BY <1>0, <2>1, <2>2 DEF Msgs
<1>2. m.sid \in Sids /\ SessionCB[v][m.sid] = c
  BY <1>1 DEF Callback
<1>3. c \in Live(v)
  BY <1>0, <1>1 DEF IInv, Answering, Live, Call
<1>4. \A w \in Vms, s \in Sids : SessionCB[w][s] # c => SessionCB'[w][s] = SessionCB[w][s]
  BY <1>0, <1>2 DEF IInv, TypeOK, Clear
<1>5. ASSUME NEW w \in Vms, NEW n \in Msgs, Right(SessionCB, w, n), n.call # c
      PROVE  Right(SessionCB', w, n)
  BY <1>4, <1>5, RightKept
<1>6. ASSUME NEW w \in Vms, NEW i \in DOMAIN mailbox[w] PROVE Right(SessionCB', w, mailbox[w][i])
  <2>1. mailbox[w][i] \in Msgs
    BY <1>6, Element DEF IInv, TypeOK
  <2>2. mailbox[w][i].call # c
    BY <1>1, <1>3, <1>6 DEF IInv, Single, Apart, In, CallsOf
  <2>3. QED
    BY <1>5, <1>6, <2>1, <2>2 DEF IInv, MailRight
<1>7. ASSUME NEW w \in Vms, w # v, running[w] # NoMsg, ~answered[w] PROVE Right(SessionCB', w, running[w])
  <2>1. running[w] \in Msgs /\ Right(SessionCB, w, running[w])
    BY <1>7 DEF IInv, TypeOK, RunningRight
  <2>2. running[w].call # c
    BY <1>1, <1>3, <1>7 DEF IInv, Single, Apart, Live, Call
  <2>3. QED
    BY <1>5, <2>1, <2>2
<1>8. ASSUME NEW i \in DOMAIN httpQ PROVE SessionCB'[httpQ[i].fid][httpQ[i].sid] = httpQ[i].call
  <2>1. httpQ[i] \in HttpReqs
    BY <1>8, Element, Zenon DEF IInv, TypeOK, HttpReqs
  <2>2. httpQ[i].call # c
    BY <1>1, <1>3, <1>8 DEF IInv, Single, Apart, InHttp, CallsOf
  <2>3. QED
    BY <1>4, <2>1, <2>2 DEF IInv, HttpRight, HttpReqs
<1>9. QED
  BY <1>6, <1>7, <1>8 DEF MailRight, HttpRight

\* A Dispatch that ends makes the call it stood for done or lost, and clears
\* the callback of a call that is done.
LEMMA EndHistory ==
    ASSUME IInv, NEW v \in Vms, NEW ok \in BOOLEAN, End(v, ok)
    PROVE  /\ done' \cup lost' = done \cup lost \cup Live(v)
           /\ \/ done' = done /\ SessionCB' = SessionCB
              \/ \E s \in Sids : /\ SessionCB[v][s] \in Live(v)
                                 /\ done' = done \cup {SessionCB[v][s]}
                                 /\ SessionCB' = [SessionCB EXCEPT ![v][s] = NoCall]
<1>0. PICK m, c : m = running[v] /\ c = Callback(v, m)
  OBVIOUS
<1>1. /\ m # NoMsg /\ m \in Msgs
      /\ c = IF m.cmd = "Ret" THEN m.call ELSE NoCall
  BY <1>0, RightOfInv DEF End, RightCallback, IInv, TypeOK
<1>2. /\ IF c # NoCall /\ ok THEN Clear(v) ELSE UNCHANGED SessionCB
      /\ done' = IF c # NoCall /\ ok THEN done \cup {c} ELSE done
      /\ lost' = CASE c # NoCall /\ ~ok -> lost \cup {c}
                   [] m.cmd = "Req" /\ m.call # NoCall /\ ~answered[v] -> lost \cup {m.call}
                   [] OTHER -> lost
  BY <1>0 DEF End
<1>3. CASE c # NoCall
  <2>1. c \in Live(v) /\ Live(v) = {c} /\ m.cmd = "Ret"
    BY <1>0, <1>1, <1>3, SessionAssumption DEF IInv, Answering, Live, Call, Msgs
  <2>2. m.sid \in Sids /\ SessionCB[v][m.sid] = c
    BY <1>0, <1>3 DEF Callback
  <2>3. CASE ok
    <3>1. done' = done \cup {c} /\ lost' = lost /\ SessionCB' = [SessionCB EXCEPT ![v][m.sid] = NoCall]
      BY <1>0, <1>2, <1>3, <2>1, <2>3 DEF Clear
    <3>2. QED
      BY <2>1, <2>2, <3>1
  <2>4. CASE ~ok
    BY <1>2, <1>3, <2>1, <2>4
  <2>5. QED
    BY <2>3, <2>4
<1>4. CASE c = NoCall
  <2>1. done' = done /\ SessionCB' = SessionCB
    BY <1>2, <1>4
  <2>2. CASE m.cmd = "Req" /\ m.call # NoCall /\ ~answered[v]
    <3>1. Live(v) = {m.call}
      BY <1>0, <1>1, <2>2 DEF Live, Call, Msgs
    <3>2. lost' = lost \cup {m.call}
      BY <1>2, <1>4, <2>2
    <3>3. QED
      BY <2>1, <3>1, <3>2
  <2>3. CASE ~(m.cmd = "Req" /\ m.call # NoCall /\ ~answered[v])
    <3>1. ~answered[v] => m.call = NoCall
      <4>1. ASSUME ~answered[v], m.call # NoCall PROVE FALSE
        <5>1. Right(SessionCB, v, m)
          BY <1>0, <1>1, <4>1 DEF IInv, RunningRight
        <5>2. m.cmd = "Ret"
          BY <1>1, <2>3, <4>1, <5>1 DEF Right, Msgs
        <5>3. QED
          BY <1>1, <1>4, <4>1, <5>2
      <4>2. QED
        BY <4>1
    <3>2. Live(v) = {}
      BY <1>0, <3>1, SessionAssumption DEF Live, Call
    <3>3. lost' = lost
      BY <1>2, <1>4, <2>3
    <3>4. QED
      BY <2>1, <3>2, <3>3
  <2>4. QED
    BY <2>2, <2>3
<1>5. QED
  BY <1>3, <1>4

LEMMA EndStep ==
    ASSUME IInv, NEW v \in Vms, NEW ok \in BOOLEAN, End(v, ok)
    PROVE  Rest'
<1>1. /\ running[v] # NoMsg
      /\ running' = [running EXCEPT ![v] = NoMsg] /\ answered' = [answered EXCEPT ![v] = FALSE]
      /\ UNCHANGED <<mailbox, httpQ, net, asked>>
      /\ (Callback(v, running[v]) # NoCall /\ Clear(v)) \/ UNCHANGED SessionCB
  BY DEF End
<1>2. /\ running'[v] = NoMsg
      /\ \A w \in Vms : w # v => running'[w] = running[w] /\ answered'[w] = answered[w]
  BY <1>1 DEF IInv, TypeOK
<1>3. ASSUME UNCHANGED SessionCB PROVE MailRight' /\ RunningRight' /\ HttpRight'
  BY <1>1, <1>2, <1>3 DEF IInv, MailRight, RunningRight, HttpRight
<1>4. ASSUME Callback(v, running[v]) # NoCall, Clear(v)
      PROVE  MailRight' /\ RunningRight' /\ HttpRight'
  BY <1>1, <1>2, <1>4, ClearKeeps DEF RunningRight
<1>5. Live(v)' = {} /\ \A w \in Vms : w # v => Live(w)' = Live(w)
  BY <1>2 DEF Live
<1>6. InHttp' = InHttp /\ \A w \in Vms : In(w)' = In(w)
  BY <1>1 DEF InHttp, In
<1>7. NotTwice' /\ Asked' /\ Apart'
  BY <1>1, <1>5, <1>6 DEF IInv, Single, NotTwice, Asked, Apart
<1>8. Way'
  BY <1>1, <1>5, <1>6, EndHistory DEF IInv, Single, Way, Asked, Apart, UnderWay
<1>9. MailRight' /\ RunningRight' /\ HttpRight'
  BY <1>1, <1>3, <1>4
<1>10. QED
  BY <1>7, <1>8, <1>9 DEF Rest, Single

\* The call moves from the queue of requests to the mailbox.
LEMMA HttpAnswerStep ==
    ASSUME IInv, _HttpReq
    PROVE  Rest'
<1>0. PICK r, m, d : /\ r = Head(httpQ) /\ d = r.fid
                     /\ m = [cmd |-> "Ret", fid |-> r.fid, sid |-> r.sid, call |-> r.call]
  OBVIOUS
<1>1. /\ httpQ # <<>> /\ httpQ' = Tail(httpQ) /\ Post(d, m)
      /\ UNCHANGED <<SessionCB, running, answered, asked, done, lost>>
  BY <1>0 DEF _HttpReq
<1>2. httpQ \in Seq(HttpReqs) /\ Once(httpQ)
  BY Zenon DEF IInv, TypeOK, HttpReqs, Single, NotTwice
<1>3. r \in HttpReqs /\ 1 \in DOMAIN httpQ /\ r = httpQ[1]
  BY <1>0, <1>1, <1>2
<1>4. m \in Msgs /\ m.call = r.call /\ m.call # NoCall /\ d \in Vms /\ Call(m) = Call(r)
  BY <1>0, <1>3, SessionAssumption DEF HttpReqs, Msgs, Call
<1>5. Right(SessionCB, d, m)
  BY <1>0, <1>3, <1>4 DEF IInv, HttpRight, Right, HttpReqs
<1>6. /\ CallsOf(Tail(httpQ)) = CallsOf(httpQ) \ Call(Head(httpQ))
      /\ Once(Tail(httpQ))
      /\ Call(Head(httpQ)) \subseteq CallsOf(httpQ)
  BY <1>1, <1>2, TailCalls
<1>7. InHttp' = InHttp \ Call(m) /\ Call(m) \subseteq InHttp /\ Once(httpQ)'
  BY <1>0, <1>1, <1>4, <1>6 DEF InHttp
<1>8. m.call \notin In(d)
  BY <1>4, <1>7 DEF IInv, Single, Apart, Call, In, CallsOf
<1>9. MailRight'
  BY <1>1, <1>4, <1>5, PostRight
<1>10. RunningRight'
  BY <1>1 DEF IInv, RunningRight
<1>11. HttpRight'
  <2>1. \A i \in DOMAIN httpQ' : i + 1 \in DOMAIN httpQ /\ httpQ'[i] = httpQ[i + 1]
    BY <1>1, <1>2
  <2>2. QED
    BY <1>1, <2>1 DEF IInv, HttpRight
<1>12. /\ In(d)' = In(d) \cup Call(m)
       /\ \A w \in Vms : w # d => mailbox'[w] = mailbox[w] /\ In(w)' = In(w)
       /\ Once(mailbox[d])'
  BY <1>1, <1>4, <1>8, Posted DEF IInv, TypeOK, Single, NotTwice
<1>13. \A w \in Vms : Live(w)' = Live(w)
  BY <1>1 DEF Live
<1>14. NotTwice'
  BY <1>7, <1>12 DEF IInv, Single, NotTwice
<1>15. Asked'
  BY <1>1, <1>4, <1>7, <1>12, <1>13 DEF IInv, Single, Asked
<1>16. Apart'
  BY <1>4, <1>7, <1>12, <1>13 DEF IInv, Single, Apart
<1>17. Way'
  BY <1>1, <1>4, <1>7, <1>12, <1>13 DEF IInv, Single, Way, UnderWay
<1>18. QED
  BY <1>9, <1>10, <1>11, <1>14, <1>15, <1>16, <1>17 DEF Rest, Single

-----------------------------------------------------------------------------
(* Callbacks held *)

\* A new call is held at the id that was free.
LEMMA RegCallbacks ==
    ASSUME IInv, NEW v \in Vms, NEW c \in Calls, c \notin asked, FreeSids(v) # {}, Reg(v, c), done' = done
    PROVE  Callbacks'
<1>1. PICK n : n = NewSID(v)
  OBVIOUS
<1>2. n \in Sids /\ SessionCB[v][n] = NoCall /\ c # NoCall
  BY <1>1, NewSIDFree, SessionAssumption
<1>3. /\ SessionCB'[v][n] = c /\ asked' = asked \cup {c}
      /\ \A w \in Vms, s \in Sids : w # v \/ s # n => SessionCB'[w][s] = SessionCB[w][s]
  BY <1>1, <1>2 DEF IInv, TypeOK, Reg
<1>4. done \subseteq asked
  BY DEF IInv, Single, Way
<1>5. /\ \A w \in Vms, s \in Sids : SessionCB[w][s] # NoCall => SessionCB[w][s] \in asked \ done
      /\ \A d \in asked \ done : \E w \in Vms, s \in Sids : SessionCB[w][s] = d
      /\ \A w, x \in Vms, s, t \in Sids :
           SessionCB[w][s] # NoCall /\ SessionCB[w][s] = SessionCB[x][t] => w = x /\ s = t
  BY DEF IInv, Callbacks
<1>6. \A w \in Vms, s \in Sids : SessionCB'[w][s] # NoCall => SessionCB'[w][s] \in asked' \ done'
  BY <1>3, <1>4, <1>5
<1>7. \A d \in asked' \ done' : \E w \in Vms, s \in Sids : SessionCB'[w][s] = d
  <2>1. ASSUME NEW d \in asked' \ done' PROVE \E w \in Vms, s \in Sids : SessionCB'[w][s] = d
    <3>1. CASE d = c
      BY <1>2, <1>3, <3>1
    <3>2. CASE d # c
      <4>1. PICK w \in Vms : \E s \in Sids : SessionCB[w][s] = d
        BY <1>3, <1>5, <2>1, <3>2
      <4>2. PICK s \in Sids : SessionCB[w][s] = d
        BY <4>1
      <4>3. d # NoCall
        BY <1>3, <2>1, <3>2, SessionAssumption DEF IInv, TypeOK
      <4>4. SessionCB'[w][s] = d
        BY <1>2, <1>3, <4>2, <4>3
      <4>5. QED
        BY <4>4
    <3>3. QED
      BY <3>1, <3>2
  <2>2. QED
    BY <2>1
<1>8. \A w, x \in Vms, s, t \in Sids :
        SessionCB'[w][s] # NoCall /\ SessionCB'[w][s] = SessionCB'[x][t] => w = x /\ s = t
  <2>1. \A w \in Vms, s \in Sids : w # v \/ s # n => SessionCB'[w][s] # c
    BY <1>2, <1>3, <1>5
  <2>2. QED
    BY <1>3, <1>5, <2>1
<1>9. QED
  BY <1>6, <1>7, <1>8 DEF Callbacks

\* A call done is held no longer.
LEMMA EndCallbacks ==
    ASSUME IInv, NEW v \in Vms, NEW ok \in BOOLEAN, End(v, ok)
    PROVE  Callbacks'
<1>1. asked' = asked
  BY DEF End
<1>2. CASE done' = done /\ SessionCB' = SessionCB
  BY <1>1, <1>2 DEF IInv, Callbacks
<1>3. ASSUME NEW n \in Sids, SessionCB[v][n] \in Live(v), done' = done \cup {SessionCB[v][n]},
             SessionCB' = [SessionCB EXCEPT ![v][n] = NoCall]
      PROVE  Callbacks'
  <2>1. PICK c : c = SessionCB[v][n]
    OBVIOUS
  <2>2. c \in Calls /\ c # NoCall /\ done' = done \cup {c}
    BY <1>3, <2>1, SessionAssumption DEF Live, Call
  <2>3. /\ SessionCB'[v][n] = NoCall
        /\ \A w \in Vms, s \in Sids : w # v \/ s # n => SessionCB'[w][s] = SessionCB[w][s]
    BY <1>3 DEF IInv, TypeOK
  <2>4. /\ \A w \in Vms, s \in Sids : SessionCB[w][s] # NoCall => SessionCB[w][s] \in asked \ done
        /\ \A d \in asked \ done : \E w \in Vms, s \in Sids : SessionCB[w][s] = d
        /\ \A w, x \in Vms, s, t \in Sids :
             SessionCB[w][s] # NoCall /\ SessionCB[w][s] = SessionCB[x][t] => w = x /\ s = t
    BY DEF IInv, Callbacks
  <2>5. \A w \in Vms, s \in Sids : SessionCB'[w][s] # NoCall => SessionCB'[w][s] \in asked' \ done'
    BY <1>1, <2>1, <2>2, <2>3, <2>4
  <2>6. ASSUME NEW d \in asked' \ done' PROVE \E w \in Vms, s \in Sids : SessionCB'[w][s] = d
    <3>1. d \in asked \ done /\ d # c
      BY <1>1, <2>2
    <3>2. PICK w \in Vms : \E s \in Sids : SessionCB[w][s] = d
      BY <2>4, <3>1
    <3>3. PICK s \in Sids : SessionCB[w][s] = d
      BY <3>2
    <3>4. SessionCB'[w][s] = d
      BY <2>1, <2>3, <3>1, <3>3
    <3>5. QED
      BY <3>4
  <2>7. \A w, x \in Vms, s, t \in Sids :
          SessionCB'[w][s] # NoCall /\ SessionCB'[w][s] = SessionCB'[x][t] => w = x /\ s = t
    BY <2>3, <2>4
  <2>8. QED
    BY <2>5, <2>6, <2>7 DEF Callbacks
<1>4. QED
  BY <1>2, <1>3, EndHistory

LEMMA CallbacksStep ==
    ASSUME IInv, [Next]_vars, ~HttpThrows
    PROVE  Callbacks'
<1>1. CASE UNCHANGED <<SessionCB, asked, done>>
  BY <1>1 DEF IInv, Callbacks
<1>2. ASSUME NEW v \in Vms, NEW dest \in Servers, NEW c \in Calls, PostMessage(v, dest, c)
      PROVE  Callbacks'
  BY <1>2, RegCallbacks DEF PostMessage
<1>3. ASSUME NEW v \in Vms, NEW c \in Calls, HttpReq(v, c) PROVE Callbacks'
  BY <1>3, RegCallbacks DEF HttpReq
<1>4. ASSUME NEW v \in Vms, NEW ok \in BOOLEAN, End(v, ok) PROVE Callbacks'
  BY <1>4, EndCallbacks
<1>5. QED
  BY <1>1, <1>2, <1>3, <1>4
     DEF Next, VmStep, Script, HttpStep, PostNotice, RetMessage, Begin, Event, _HttpReq, HttpHangs, vars

-----------------------------------------------------------------------------
(* What the invariant implies *)

\* A set that has an element, and all of whose elements are that one.
LEMMA Singleton ==
    ASSUME NEW S, NEW x \in S, \A y \in S : y = x
    PROVE  Cardinality(S) = 1
<1>1. S = {x}
  OBVIOUS
<1>2. QED
  BY <1>1, FS_Singleton

\* A call under way has one message, and every other call has none.
LEMMA OneMessage ==
    ASSUME IInv, NEW c \in Calls
    PROVE  Cardinality(Outstanding(c)) = IF c \in asked \ (done \cup lost) THEN 1 ELSE 0
<1>1. PICK S : S = Outstanding(c)
  OBVIOUS
<1>2. \A p : p \in S <=>
        \/ \E v \in Vms : \E i \in DOMAIN mailbox[v] : mailbox[v][i].call = c /\ p = <<v, i>>
        \/ \E v \in Vms : running[v] # NoMsg /\ running[v].call = c /\ ~answered[v] /\ p = <<v, 0>>
        \/ \E i \in DOMAIN httpQ : httpQ[i].call = c /\ p = <<NoMsg, i>>
  <2> DEFINE A(v) == {<<v, i>> : i \in {j \in DOMAIN mailbox[v] : mailbox[v][j].call = c}}
             M == UNION {A(v) : v \in Vms}
             R == {<<v, 0>> : v \in {w \in Vms : /\ running[w] # NoMsg
                                                /\ running[w].call = c
                                                /\ ~answered[w]}}
             H == {<<NoMsg, i>> : i \in {j \in DOMAIN httpQ : httpQ[j].call = c}}
  <2>1. S = M \cup R \cup H
    BY <1>1, Zenon DEF Outstanding
  <2>2. \A p : p \in M <=> \E v \in Vms : p \in A(v)
    BY Zenon
  <2>3. \A p : \A v \in Vms : p \in A(v) <=> \E i \in DOMAIN mailbox[v] : mailbox[v][i].call = c /\ p = <<v, i>>
    OBVIOUS
  <2>4. \A p : p \in R <=> \E v \in Vms : running[v] # NoMsg /\ running[v].call = c /\ ~answered[v] /\ p = <<v, 0>>
    OBVIOUS
  <2>5. \A p : p \in H <=> \E i \in DOMAIN httpQ : httpQ[i].call = c /\ p = <<NoMsg, i>>
    OBVIOUS
  <2> HIDE DEF M, R, H, A
  <2>6. \A p : p \in M <=> \E v \in Vms : \E i \in DOMAIN mailbox[v] : mailbox[v][i].call = c /\ p = <<v, i>>
    BY <2>2, <2>3
  <2>7. \A p : p \in S <=> p \in M \/ p \in R \/ p \in H
    BY <2>1
  <2>8. QED
    BY <2>4, <2>5, <2>6, <2>7, Zenon
<1>3. /\ \A v \in Vms : \A i \in DOMAIN mailbox[v] : mailbox[v][i].call = c => c \in In(v)
      /\ \A v \in Vms : c \in In(v) => \E i \in DOMAIN mailbox[v] : mailbox[v][i].call = c
  BY DEF In, CallsOf
<1>4. \A v \in Vms : c \in Live(v) <=> running[v] # NoMsg /\ running[v].call = c /\ ~answered[v]
  BY DEF Live, Call
<1>5. /\ \A i \in DOMAIN httpQ : httpQ[i].call = c => c \in InHttp
      /\ c \in InHttp => \E i \in DOMAIN httpQ : httpQ[i].call = c
  BY DEF InHttp, CallsOf
<1>6. S # {} <=> c \in asked \ (done \cup lost)
  <2>1. S # {} <=> UnderWay(c)
    BY <1>2, <1>3, <1>4, <1>5 DEF UnderWay
  <2>2. QED
    BY <2>1 DEF IInv, Single, Way
<1>7. ASSUME NEW p \in S, NEW q \in S PROVE p = q
  <2>1. /\ \A v \in Vms : \A i, j \in DOMAIN mailbox[v] :
             mailbox[v][i].call = c /\ mailbox[v][j].call = c => i = j
        /\ \A i, j \in DOMAIN httpQ : httpQ[i].call = c /\ httpQ[j].call = c => i = j
    BY DEF IInv, Single, NotTwice, Once
  <2>2. /\ \A v, w \in Vms : ~(c \in In(v) /\ c \in Live(w))
        /\ \A v \in Vms : c \in InHttp => c \notin In(v) /\ c \notin Live(v)
        /\ \A v, w \in Vms : c \in In(v) /\ c \in In(w) => v = w
        /\ \A v, w \in Vms : c \in Live(v) /\ c \in Live(w) => v = w
    BY DEF IInv, Single, Apart
  <2>3. CASE \E v \in Vms : \E i \in DOMAIN mailbox[v] : mailbox[v][i].call = c /\ p = <<v, i>>
    BY <1>2, <1>3, <1>4, <1>5, <2>1, <2>2, <2>3
  <2>4. CASE \E v \in Vms : running[v] # NoMsg /\ running[v].call = c /\ ~answered[v] /\ p = <<v, 0>>
    BY <1>2, <1>3, <1>4, <1>5, <2>2, <2>4
  <2>5. CASE \E i \in DOMAIN httpQ : httpQ[i].call = c /\ p = <<NoMsg, i>>
    BY <1>2, <1>3, <1>4, <1>5, <2>1, <2>2, <2>5
  <2>6. QED
    BY <1>2, <2>3, <2>4, <2>5
<1>8. CASE S = {}
  BY <1>1, <1>6, <1>8, FS_EmptySet
<1>9. CASE S # {}
  <2>1. PICK p : p \in S
    BY <1>9
  <2>2. Cardinality(S) = 1
    BY <1>7, <2>1, Singleton
  <2>3. QED
    BY <1>1, <1>6, <1>9, <2>2
<1>10. QED
  BY <1>8, <1>9

LEMMA HeldOfInv ==
    ASSUME IInv
    PROVE  HeldWhileOut
<1>1. SUFFICES ASSUME NEW c \in Calls
               PROVE  LET held == {p \in Vms \X Sids : SessionCB[p[1]][p[2]] = c} IN
                      /\ c \in asked \ done <=> Cardinality(held) = 1
                      /\ c \notin asked \ done <=> held = {}
  BY OneMessage DEF HeldWhileOut
<1>2. PICK held : held = {p \in Vms \X Sids : SessionCB[p[1]][p[2]] = c}
  OBVIOUS
<1>3. c # NoCall
  BY SessionAssumption
<1>4. \A v \in Vms, s \in Sids : <<v, s>> \in held <=> SessionCB[v][s] = c
  BY <1>2
<1>5. \A p \in held : \E v \in Vms, s \in Sids : p = <<v, s>> /\ SessionCB[v][s] = c
  BY <1>2
<1>6. CASE c \in asked \ done
  <2>1. PICK v \in Vms : \E s \in Sids : SessionCB[v][s] = c
    BY <1>6 DEF IInv, Callbacks
  <2>2. PICK s \in Sids : SessionCB[v][s] = c
    BY <2>1
  <2>3. <<v, s>> \in held
    BY <1>4, <2>2
  <2>4. \A p \in held : p = <<v, s>>
    BY <1>3, <1>5, <2>2 DEF IInv, Callbacks
  <2>5. Cardinality(held) = 1
    BY <2>3, <2>4, Singleton
  <2>6. QED
    BY <1>2, <1>6, <2>3, <2>5
<1>7. CASE c \notin asked \ done
  <2>1. held = {}
    BY <1>3, <1>5, <1>7 DEF IInv, Callbacks
  <2>2. Cardinality(held) = 0
    BY <2>1, FS_EmptySet
  <2>3. QED
    BY <1>2, <1>7, <2>1, <2>2
<1>8. QED
  BY <1>6, <1>7

-----------------------------------------------------------------------------
(* The theorems *)

\* The memory of a process in which no script has asked anything.
Fresh ==
    /\ SessionCB = [v \in Vms |-> [s \in Sids |-> NoCall]]
    /\ mailbox = [v \in Vms |-> <<>>]
    /\ running = [v \in Vms |-> NoMsg]
    /\ answered = [v \in Vms |-> FALSE]
    /\ httpQ = <<>>
    /\ net \in {"up", "stuck", "down"}
    /\ asked = {} /\ done = {} /\ lost = {}

LEMMA FreshInv == Fresh => IInv
<1> SUFFICES ASSUME Fresh PROVE IInv
  OBVIOUS
<1>1. TypeOK
  BY DEF Fresh, TypeOK
<1>2. CallsOf(<<>>) = {} /\ Once(<<>>)
  BY DEF CallsOf, Once
<1>3. Answering /\ MailRight /\ RunningRight /\ HttpRight
  BY DEF Fresh, Answering, MailRight, RunningRight, HttpRight
<1>4. Single
  BY <1>2 DEF Fresh, Single, Asked, NotTwice, Apart, In, InHttp, Live, Way, UnderWay
<1>5. Callbacks
  BY DEF Fresh, Callbacks
<1>6. QED
  BY <1>1, <1>3, <1>4, <1>5 DEF IInv

\* IInv holds at the start, every step of script/common/base.lua's sessions
\* keeps it, and a process that ended holds nothing.
THEOREM Inductive == Spec => []IInv
<1>1. Init => IInv
  BY FreshInv DEF Init, Fresh
<1>2. (Fresh => IInv)'
  BY FreshInv, PTL
<1>3. IInv /\ [Next]_vars => IInv'
  <2> SUFFICES ASSUME IInv, [Next]_vars PROVE IInv'
    OBVIOUS
  <2>1. CASE HttpThrows
    <3>1. Fresh'
      BY <2>1 DEF HttpThrows, Fresh
    <3>2. QED
      BY <1>2, <3>1
  <2>2. CASE ~HttpThrows
    <3>1. Rest'
      <4>1. CASE UNCHANGED <<SessionCB, mailbox, running, answered, httpQ, asked, done, lost>>
        BY <4>1 DEF IInv, Rest, MailRight, RunningRight, HttpRight, Single, Asked,
                    NotTwice, Apart, In, InHttp, Live, Way, UnderWay
      <4>2. CASE UNCHANGED vars \/ HttpHangs
        BY <4>1, <4>2 DEF vars, HttpHangs
      <4>3. CASE Next
        BY <2>2, <4>2, <4>3, PostMessageStep, PostNoticeStep, HttpReqStep, RetMessageStep, BeginStep,
           EndStep, EventStep, HttpAnswerStep
           DEF Next, VmStep, Script, HttpStep
      <4>4. QED
        BY <4>2, <4>3
    <3>2. QED
      BY <2>2, <3>1, TypeStep, AnsweringStep, CallbacksStep DEF IInv, Rest
  <2>3. QED
    BY <2>1, <2>2
<1>4. QED
  BY <1>1, <1>3, PTL DEF Spec

\* Mailboxes, session tables and the queue of HTTP requests hold what they
\* should.
THEOREM SessionTypeCorrect == Spec => []TypeOK
BY Inductive, PTL DEF IInv

\* A callback runs with the answer to its own call and with nothing else,
\* though every machine counts its sessions from one.
THEOREM RightCallbackAlways == Spec => []RightCallback
BY Inductive, RightOfInv, PTL

\* A callback is registered, under one id, from its call until it has run, and
\* one message is under way for it until its answer has come or is lost.
THEOREM HeldWhileOutAlways == Spec => []HeldWhileOut
BY Inductive, HeldOfInv, PTL

=============================================================================
