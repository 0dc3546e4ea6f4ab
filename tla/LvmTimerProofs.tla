--------------------------- MODULE LvmTimerProofs ---------------------------
(***************************************************************************)
(* Theorems about LvmTimer, for every set of timer ids and every bound.    *)
(***************************************************************************)
EXTENDS LvmTimer, TLAPS

-----------------------------------------------------------------------------
(* Queues *)

\* A handler is appended.
LEMMA Appended ==
    ASSUME NEW S, NEW s \in Seq(S), NEW h \in S
    PROVE  /\ Append(s, h) \in Seq(S)
           /\ DOMAIN Append(s, h) = DOMAIN s \cup {Len(s) + 1}
           /\ \A i \in DOMAIN s : Append(s, h)[i] = s[i] /\ i < Len(s) + 1
           /\ Append(s, h)[Len(s) + 1] = h
           /\ Len(s) + 1 \notin DOMAIN s
           /\ DOMAIN s \subseteq Nat /\ Len(s) \in Nat
OBVIOUS

\* The head is taken.
LEMMA Taken ==
    ASSUME NEW S, NEW s \in Seq(S), s # <<>>
    PROVE  /\ Head(s) \in S /\ Head(s) = s[1] /\ 1 \in DOMAIN s
           /\ Tail(s) \in Seq(S)
           /\ \A i \in DOMAIN Tail(s) : i + 1 \in DOMAIN s /\ Tail(s)[i] = s[i + 1]
           /\ \A i \in DOMAIN s : i # 1 => i - 1 \in DOMAIN Tail(s) /\ Tail(s)[i - 1] = s[i]
           /\ DOMAIN s \subseteq Nat \ {0} /\ DOMAIN Tail(s) \subseteq Nat \ {0}
OBVIOUS

\* u is s without its head, then e: which element comes from where.
Shifted(s, e, u) ==
    /\ \A k \in DOMAIN u :
         \/ k + 1 \in DOMAIN s /\ k + 1 # 1 /\ u[k] = s[k + 1]
         \/ \E j \in DOMAIN e : u[k] = e[j] /\ k = j + Len(s) - 1
    /\ \A i \in DOMAIN s : i # 1 => i - 1 \in DOMAIN u /\ u[i - 1] = s[i]
    /\ \A j \in DOMAIN e : j + Len(s) - 1 \in DOMAIN u /\ u[j + Len(s) - 1] = e[j]
    /\ DOMAIN s = 1 .. Len(s) /\ DOMAIN u \subseteq Nat \ {0} /\ DOMAIN e \subseteq Nat \ {0}
    /\ Len(s) \in Nat \ {0}

\* The head is taken and what it leads to comes last.
LEMMA Handled ==
    ASSUME NEW S, NEW s \in Seq(S), s # <<>>, NEW e \in Seq(S)
    PROVE  Tail(s) \o e \in Seq(S) /\ Shifted(s, e, Tail(s) \o e)
<1> DEFINE u == Tail(s) \o e
<1>1. Len(s) \in Nat /\ Len(s) # 0 /\ DOMAIN s = 1 .. Len(s)
  OBVIOUS
<1>2. Tail(s) \in Seq(S) /\ Len(Tail(s)) = Len(s) - 1
      /\ \A i \in 1 .. Len(s) - 1 : Tail(s)[i] = s[i + 1]
  OBVIOUS
<1>3. u \in Seq(S) /\ Len(u) = Len(s) - 1 + Len(e) /\ DOMAIN u = 1 .. Len(s) - 1 + Len(e)
  BY <1>1, <1>2
<1>4. \A k \in 1 .. Len(s) - 1 : u[k] = s[k + 1]
  BY <1>1, <1>2
<1>5. \A j \in 1 .. Len(e) : u[j + Len(s) - 1] = e[j]
  BY <1>1, <1>2
<1>6. Len(e) \in Nat /\ DOMAIN e = 1 .. Len(e)
  OBVIOUS
<1> HIDE DEF u
<1>7. \A k \in DOMAIN u :
        \/ k + 1 \in DOMAIN s /\ k + 1 # 1 /\ u[k] = s[k + 1]
        \/ \E j \in DOMAIN e : u[k] = e[j] /\ k = j + Len(s) - 1
  <2> SUFFICES ASSUME NEW k \in DOMAIN u, k > Len(s) - 1
               PROVE \E j \in DOMAIN e : u[k] = e[j] /\ k = j + Len(s) - 1
    BY <1>1, <1>3, <1>4
  <2>1. k - Len(s) + 1 \in 1 .. Len(e)
    BY <1>1, <1>3, <1>6
  <2>2. k - Len(s) + 1 + Len(s) - 1 = k
    BY <1>1, <1>3, <1>6
  <2>3. QED
    BY <1>5, <1>6, <2>1, <2>2
<1>8. \A i \in DOMAIN s : i # 1 => i - 1 \in DOMAIN u /\ u[i - 1] = s[i]
  BY <1>1, <1>3, <1>4, <1>6
<1>9. \A j \in DOMAIN e : j + Len(s) - 1 \in DOMAIN u /\ u[j + Len(s) - 1] = e[j]
  BY <1>1, <1>3, <1>5, <1>6
<1>10. QED
  <2>1. u \in Seq(S) /\ Shifted(s, e, u)
    BY <1>1, <1>3, <1>6, <1>7, <1>8, <1>9 DEF Shifted
  <2>2. QED
    BY <2>1 DEF u

-----------------------------------------------------------------------------
(* What the io thread runs and posts *)

\* Every handler the actions post is one of Handlers.
LEMMA HandlerType ==
    /\ \A t \in TimerIds, once \in OnceArgs : Handler("set", t, once) \in Handlers
    /\ \A t \in TimerIds : Handler("kill", t, "") \in Handlers /\ Handler("msg", t, "") \in Handlers
    /\ \A t \in TimerIds, a \in {"expired", "aborted"} : Handler("wait", t, a) \in Handlers
    /\ \A o, t, a : Handler(o, t, a).op = o /\ Handler(o, t, a).id = t
    /\ \A h \in Handlers : h.id \in TimerIds
BY DEF Handler, Handlers

\* A cancel completes at most one wait, and only of a timer that has one outstanding.
LEMMA AbortedType ==
    ASSUME NEW t \in TimerIds
    PROVE  /\ Aborted(t) \in Seq(Handlers)
           /\ \A j \in DOMAIN Aborted(t) :
                 /\ t \in waiting
                 /\ j = 1
                 /\ Aborted(t)[j].op = "wait" /\ Aborted(t)[j].id = t
<1>1. Handler("wait", t, "aborted") \in Handlers
  BY HandlerType
<1>2. CASE t \in waiting
  <2> DEFINE h == Handler("wait", t, "aborted")
  <2>1. h \in Handlers /\ h.op = "wait" /\ h.id = t
    BY <1>1, HandlerType
  <2>2. Aborted(t) = <<h>>
    BY <1>2 DEF Aborted
  <2> HIDE DEF h
  <2>3. QED
    BY <1>2, <2>1, <2>2
<1>3. CASE t \notin waiting
  BY <1>3 DEF Aborted
<1>4. QED
  BY <1>2, <1>3

\* What the completion of a wait for t leads to.
Ticked(t) == IF mapTimer[t] = "none" THEN <<>> ELSE <<Handler("msg", t, "")>> \o Aborted(t)

\* A completion leads to nothing, or to a tick and then perhaps an aborted wait.
LEMMA TickedType ==
    ASSUME NEW t \in TimerIds
    PROVE  /\ Ticked(t) \in Seq(Handlers)
           /\ \A j \in DOMAIN Ticked(t) :
                 /\ mapTimer[t] # "none"
                 /\ Ticked(t)[j].id = t
                 /\ \/ Ticked(t)[j].op = "msg"
                    \/ Ticked(t)[j].op = "wait" /\ t \in waiting /\ j = 2
           /\ mapTimer[t] # "none" => 1 \in DOMAIN Ticked(t) /\ Ticked(t)[1].op = "msg"
<1> DEFINE h == Handler("msg", t, "")
<1>1. h \in Handlers /\ h.op = "msg" /\ h.id = t
  BY HandlerType
<1> HIDE DEF h
<1>2. CASE mapTimer[t] = "none"
  BY <1>2 DEF Ticked
<1>3. CASE mapTimer[t] # "none"
  <2> DEFINE a == Aborted(t)
  <2>1. a \in Seq(Handlers) /\ \A j \in DOMAIN a : t \in waiting /\ j = 1 /\ a[j].op = "wait" /\ a[j].id = t
    BY AbortedType
  <2>2. Ticked(t) = <<h>> \o a
    BY <1>3 DEF Ticked, h
  <2> HIDE DEF a
  <2>3. /\ Ticked(t) \in Seq(Handlers)
        /\ DOMAIN Ticked(t) = 1 .. Len(a) + 1
        /\ Ticked(t)[1] = h
        /\ \A j \in 1 .. Len(a) : Ticked(t)[j + 1] = a[j]
    BY <1>1, <2>1, <2>2
  <2>4. ASSUME NEW j \in DOMAIN Ticked(t), j # 1
        PROVE t \in waiting /\ j = 2 /\ Ticked(t)[j].op = "wait" /\ Ticked(t)[j].id = t
    <3>1. j - 1 \in DOMAIN a /\ Ticked(t)[j] = a[j - 1] /\ j \in Nat
      BY <2>1, <2>3, <2>4
    <3>2. QED
      BY <2>1, <3>1
  <2>5. 1 \in DOMAIN Ticked(t)
    BY <2>1, <2>3
  <2>6. QED
    BY <1>1, <1>3, <2>3, <2>4, <2>5
<1>4. QED
  BY <1>2, <1>3

-----------------------------------------------------------------------------
\* Every step keeps the type invariant.
LEMMA TypeStep == TypeOK /\ [Next]_vars => TypeOK'
<1> SUFFICES ASSUME TypeOK, [Next]_vars PROVE TypeOK'
  OBVIOUS
<1> USE DEF TypeOK, luaVars, cbVars, cppVars
<1>1. ASSUME NEW t \in TimerIds, NEW once \in OnceArgs, Time(t, once) PROVE TypeOK'
  BY <1>1, HandlerType, Appended DEF Time
<1>2. ASSUME NEW t \in TimerIds, KillTime(t) PROVE TypeOK'
  BY <1>2, HandlerType, Appended DEF KillTime
<1>3. ASSUME NEW t \in TimerIds, Expire(t) PROVE TypeOK'
  BY <1>3, HandlerType, Appended DEF Expire
<1>4. CASE SetTimer
  <2>1. Head(ioQueue).id \in TimerIds /\ Tail(ioQueue) \in Seq(Handlers)
    BY <1>4, HandlerType, Taken DEF SetTimer, Runs
  <2>2. QED
    BY <1>4, <2>1 DEF SetTimer
<1>5. CASE KillTimer
  <2>1. Head(ioQueue).id \in TimerIds
    BY <1>5, HandlerType, Taken DEF KillTimer, Runs
  <2>2. ioQueue' \in Seq(Handlers)
    BY <1>5, <2>1, AbortedType, Handled DEF KillTimer, Runs
  <2>3. QED
    BY <1>5, <2>1, <2>2 DEF KillTimer
<1>6. CASE OnTimerInternal
  <2>1. Head(ioQueue).id \in TimerIds
    BY <1>6, HandlerType, Taken DEF OnTimerInternal, Runs
  <2>2. ioQueue' \in Seq(Handlers)
    <3>1. ioQueue' = Tail(ioQueue) \o Ticked(Head(ioQueue).id) /\ ioQueue # <<>>
      BY <1>6 DEF OnTimerInternal, Ticked, Runs
    <3>2. QED
      BY <2>1, <3>1, TickedType, Handled
  <2>3. QED
    BY <1>6, <2>1, <2>2 DEF OnTimerInternal
<1>7. CASE Deliver
  <2>1. Head(ioQueue) \in Handlers /\ Tail(ioQueue) \in Seq(Handlers)
    BY <1>7, Taken DEF Deliver, Runs
  <2>2. Head(ioQueue).id \in TimerIds
    BY <2>1, HandlerType
  <2>3. Append(inbox, Head(ioQueue).id) \in Seq(TimerIds)
    BY <2>2, Appended
  <2>4. QED
    BY <1>7, <2>1, <2>3 DEF Deliver
<1>8. CASE DPTM
  BY <1>8, Taken DEF DPTM
<1>9. ASSUME NEW ok \in BOOLEAN, DPTMEnd(ok) PROVE TypeOK'
  BY <1>9 DEF DPTMEnd
<1>10. CASE UNCHANGED vars
  BY <1>10 DEF vars
<1>11. QED
  BY <1>1, <1>2, <1>3, <1>4, <1>5, <1>6, <1>7, <1>8, <1>9, <1>10 DEF Next, IoStep, LvmStep

\* Type correctness of the timers' tables and queues.
THEOREM TimerTypeCorrect == Spec => []TypeOK
<1>1. Init => TypeOK
  BY DEF Init, TypeOK
<1>2. QED
  BY <1>1, TypeStep, PTL DEF Spec

-----------------------------------------------------------------------------
(* What a step of the queue does to the handlers of one timer *)

\* At most one completion of t is queued.
OneWait(t) ==
    \A i, j \in DOMAIN ioQueue :
        /\ ioQueue[i].op = "wait" /\ ioQueue[i].id = t
        /\ ioQueue[j].op = "wait" /\ ioQueue[j].id = t
        => i = j

\* A set of t is queued behind every kill of t.
SetLast(t) ==
    \E i \in DOMAIN ioQueue :
        /\ ioQueue[i].op = "set" /\ ioQueue[i].id = t
        /\ \A j \in DOMAIN ioQueue : ioQueue[j].op = "kill" /\ ioQueue[j].id = t => j < i

\* What appending a handler does to the handlers of t.
LEMMA AppendStep ==
    ASSUME TypeOK, NEW h \in Handlers, ioQueue' = Append(ioQueue, h), NEW t
    PROVE  /\ \A o : InQueue(o, t)' <=> InQueue(o, t) \/ (h.op = o /\ h.id = t)
           /\ OneWait(t) /\ ~InQueue("wait", t) => OneWait(t)'
           /\ OneWait(t) /\ ~(h.op = "wait" /\ h.id = t) => OneWait(t)'
           /\ SetLast(t) /\ ~(h.op = "kill" /\ h.id = t) => SetLast(t)'
           /\ h.op = "set" /\ h.id = t => SetLast(t)'
<1>1. /\ DOMAIN ioQueue' = DOMAIN ioQueue \cup {Len(ioQueue) + 1}
      /\ \A i \in DOMAIN ioQueue : ioQueue'[i] = ioQueue[i] /\ i < Len(ioQueue) + 1
      /\ ioQueue'[Len(ioQueue) + 1] = h
      /\ DOMAIN ioQueue \subseteq Nat /\ Len(ioQueue) \in Nat
  BY Appended DEF TypeOK
<1> DEFINE n == Len(ioQueue) + 1
<1>2. n \notin DOMAIN ioQueue /\ n \in Nat
  BY <1>1
<1> HIDE DEF n
<1>3. /\ DOMAIN ioQueue' = DOMAIN ioQueue \cup {n}
      /\ \A i \in DOMAIN ioQueue : ioQueue'[i] = ioQueue[i] /\ i < n
      /\ ioQueue'[n] = h
  BY <1>1 DEF n
<1>4. \A o : InQueue(o, t)' <=> InQueue(o, t) \/ (h.op = o /\ h.id = t)
  BY <1>3 DEF InQueue
<1>5. OneWait(t) /\ ~InQueue("wait", t) => OneWait(t)'
  BY <1>3 DEF InQueue, OneWait
<1>6. OneWait(t) /\ ~(h.op = "wait" /\ h.id = t) => OneWait(t)'
  BY <1>3 DEF OneWait
<1>7. SetLast(t) /\ ~(h.op = "kill" /\ h.id = t) => SetLast(t)'
  BY <1>3 DEF SetLast
<1>8. h.op = "set" /\ h.id = t => SetLast(t)'
  <2> SUFFICES ASSUME h.op = "set", h.id = t PROVE SetLast(t)'
    OBVIOUS
  <2>1. \A j \in DOMAIN ioQueue' : ioQueue'[j].op = "kill" /\ ioQueue'[j].id = t => j < n
    BY <1>3
  <2>2. QED
    BY <1>3, <2>1 DEF SetLast
<1>9. QED
  BY <1>4, <1>5, <1>6, <1>7, <1>8

\* What running the first handler, which posts e, does to the handlers of t.
LEMMA HandleStep ==
    ASSUME TypeOK, ioQueue # <<>>, NEW e \in Seq(Handlers), ioQueue' = Tail(ioQueue) \o e, NEW t
    PROVE  /\ \A o : InQueue(o, t) /\ ~(Head(ioQueue).op = o /\ Head(ioQueue).id = t) => InQueue(o, t)'
           /\ \A o, j : j \in DOMAIN e /\ e[j].op = o /\ e[j].id = t => InQueue(o, t)'
           /\ \A o : InQueue(o, t)' =>
                  InQueue(o, t) \/ \E j \in DOMAIN e : e[j].op = o /\ e[j].id = t
           /\ OneWait(t) /\ (\A j \in DOMAIN e : ~(e[j].op = "wait" /\ e[j].id = t)) =>
                  /\ OneWait(t)'
                  /\ InQueue("wait", t)' => ~(Head(ioQueue).op = "wait" /\ Head(ioQueue).id = t)
           /\ SetLast(t) /\ (\A j \in DOMAIN e : e[j].op # "kill") =>
                  \/ SetLast(t)'
                  \/ Head(ioQueue).op = "set" /\ Head(ioQueue).id = t /\ ~InQueue("kill", t)'
<1>0. Shifted(ioQueue, e, ioQueue')
  BY Handled DEF TypeOK
<1> DEFINE s == ioQueue
           u == ioQueue'
           n == Len(ioQueue)
<1>1. /\ \A k \in DOMAIN u :
           \/ k + 1 \in DOMAIN s /\ k + 1 # 1 /\ u[k] = s[k + 1]
           \/ \E j \in DOMAIN e : u[k] = e[j] /\ k = j + n - 1
      /\ \A i \in DOMAIN s : i # 1 => i - 1 \in DOMAIN u /\ u[i - 1] = s[i]
      /\ \A j \in DOMAIN e : j + n - 1 \in DOMAIN u /\ u[j + n - 1] = e[j]
      /\ DOMAIN s = 1 .. n /\ DOMAIN u \subseteq Nat \ {0} /\ DOMAIN e \subseteq Nat \ {0}
      /\ n \in Nat \ {0}
  BY <1>0 DEF Shifted
<1>2. Head(ioQueue) = s[1] /\ 1 \in DOMAIN s
  BY Taken DEF TypeOK
<1> HIDE DEF n
<1>3. \A o : InQueue(o, t) /\ ~(Head(ioQueue).op = o /\ Head(ioQueue).id = t) => InQueue(o, t)'
  BY <1>1, <1>2 DEF InQueue
<1>4. \A o, j : j \in DOMAIN e /\ e[j].op = o /\ e[j].id = t => InQueue(o, t)'
  BY <1>1 DEF InQueue
<1>5. \A o : InQueue(o, t)' =>
          InQueue(o, t) \/ \E j \in DOMAIN e : e[j].op = o /\ e[j].id = t
  BY <1>1 DEF InQueue
<1>6. ASSUME OneWait(t), \A j \in DOMAIN e : ~(e[j].op = "wait" /\ e[j].id = t)
      PROVE  /\ OneWait(t)'
             /\ InQueue("wait", t)' => ~(Head(ioQueue).op = "wait" /\ Head(ioQueue).id = t)
  <2>1. \A k \in DOMAIN u : u[k].op = "wait" /\ u[k].id = t =>
            k + 1 \in DOMAIN s /\ k + 1 # 1 /\ u[k] = s[k + 1]
    BY <1>1, <1>6
  <2>2. OneWait(t)'
    <3> SUFFICES ASSUME NEW i \in DOMAIN u, NEW j \in DOMAIN u,
                        u[i].op = "wait", u[i].id = t, u[j].op = "wait", u[j].id = t
                 PROVE i = j
      BY DEF OneWait
    <3>1. i + 1 = j + 1
      BY <1>6, <2>1 DEF OneWait
    <3>2. QED
      BY <1>1, <3>1
  <2>3. InQueue("wait", t)' => ~(Head(ioQueue).op = "wait" /\ Head(ioQueue).id = t)
    BY <1>2, <1>6, <2>1 DEF InQueue, OneWait
  <2>4. QED
    BY <2>2, <2>3
<1>7. ASSUME SetLast(t), \A j \in DOMAIN e : e[j].op # "kill"
      PROVE  \/ SetLast(t)'
             \/ Head(ioQueue).op = "set" /\ Head(ioQueue).id = t /\ ~InQueue("kill", t)'
  <2>1. PICK i \in DOMAIN s :
           /\ s[i].op = "set" /\ s[i].id = t
           /\ \A j \in DOMAIN s : s[j].op = "kill" /\ s[j].id = t => j < i
    BY <1>7 DEF SetLast
  <2>2. \A k \in DOMAIN u : u[k].op = "kill" /\ u[k].id = t => k + 1 \in DOMAIN s /\ k < i - 1 /\ k >= 1
    <3> SUFFICES ASSUME NEW k \in DOMAIN u, u[k].op = "kill", u[k].id = t
                 PROVE k + 1 \in DOMAIN s /\ k < i - 1 /\ k >= 1
      OBVIOUS
    <3>1. k + 1 \in DOMAIN s /\ u[k] = s[k + 1]
      BY <1>1, <1>7
    <3>2. k + 1 < i
      BY <2>1, <3>1
    <3>3. QED
      BY <1>1, <3>1, <3>2
  <2>3. CASE i = 1
    BY <1>1, <1>2, <2>1, <2>2, <2>3 DEF InQueue
  <2>4. CASE i # 1
    <3>1. i - 1 \in DOMAIN u /\ u[i - 1] = s[i]
      BY <1>1, <2>4
    <3>2. QED
      BY <2>1, <2>2, <3>1 DEF SetLast
  <2>5. QED
    BY <2>3, <2>4
<1>8. QED
  BY <1>3, <1>4, <1>5, <1>6, <1>7

\* A handler that leads to nothing.
LEMMA TailStep ==
    ASSUME TypeOK, ioQueue # <<>>, ioQueue' = Tail(ioQueue)
    PROVE  ioQueue' = Tail(ioQueue) \o <<>> /\ <<>> \in Seq(Handlers) /\ DOMAIN <<>> = {}
BY Taken DEF TypeOK

\* A post of Lua's, or a completion: AppendStep for the handler of an action.
LEMMA PostStep ==
    ASSUME TypeOK, NEW o, NEW x \in TimerIds, NEW a, Handler(o, x, a) \in Handlers,
           ioQueue' = Append(ioQueue, Handler(o, x, a)), NEW y
    PROVE  /\ \A p : InQueue(p, y)' <=> InQueue(p, y) \/ (p = o /\ y = x)
           /\ OneWait(y) /\ ~InQueue("wait", y) => OneWait(y)'
           /\ OneWait(y) /\ ~(o = "wait" /\ x = y) => OneWait(y)'
           /\ SetLast(y) /\ ~(o = "kill" /\ x = y) => SetLast(y)'
           /\ o = "set" /\ x = y => SetLast(y)'
<1> DEFINE h == Handler(o, x, a)
<1>1. h \in Handlers /\ h.op = o /\ h.id = x
  BY HandlerType
<1>2. ioQueue' = Append(ioQueue, h)
  OBVIOUS
<1> HIDE DEF h
<1>3. /\ \A p : InQueue(p, y)' <=> InQueue(p, y) \/ (h.op = p /\ h.id = y)
      /\ OneWait(y) /\ ~InQueue("wait", y) => OneWait(y)'
      /\ OneWait(y) /\ ~(h.op = "wait" /\ h.id = y) => OneWait(y)'
      /\ SetLast(y) /\ ~(h.op = "kill" /\ h.id = y) => SetLast(y)'
      /\ h.op = "set" /\ h.id = y => SetLast(y)'
  BY <1>1, <1>2, AppendStep
<1>4. QED
  BY <1>1, <1>3

\* The step of the io thread, as the queue sees it.
LEMMA IoHeads ==
    ASSUME TypeOK, IoStep
    PROVE  /\ ioQueue # <<>>
           /\ Head(ioQueue).id \in TimerIds
           /\ Head(ioQueue).op \in {"set", "kill", "wait", "msg"}
           /\ InQueue(Head(ioQueue).op, Head(ioQueue).id)
<1>1. ioQueue # <<>> /\ Head(ioQueue).op \in {"set", "kill", "wait", "msg"}
  BY DEF IoStep, SetTimer, KillTimer, OnTimerInternal, Deliver, Runs
<1>2. Head(ioQueue) \in Handlers /\ Head(ioQueue) = ioQueue[1] /\ 1 \in DOMAIN ioQueue
  BY <1>1, Taken DEF TypeOK
<1>3. QED
  BY <1>1, <1>2, HandlerType DEF InQueue

-----------------------------------------------------------------------------
(* No timer goes dead *)

\* Every step keeps EntryHasWait.
LEMMA EntryStep == TypeOK /\ EntryHasWait /\ [Next]_vars => EntryHasWait'
<1> SUFFICES ASSUME TypeOK, EntryHasWait, [Next]_vars PROVE EntryHasWait'
  OBVIOUS
<1> DEFINE t == Head(ioQueue).id
<1>1. ASSUME NEW x \in TimerIds, NEW once \in OnceArgs, Time(x, once) PROVE EntryHasWait'
  <2>1. \A y : InQueue("wait", y)' <=> InQueue("wait", y)
    BY <1>1, HandlerType, PostStep DEF Time
  <2>2. QED
    BY <1>1, <2>1 DEF Time, EntryHasWait, cppVars
<1>2. ASSUME NEW x \in TimerIds, KillTime(x) PROVE EntryHasWait'
  <2>1. \A y : InQueue("wait", y)' <=> InQueue("wait", y)
    BY <1>2, HandlerType, PostStep DEF KillTime
  <2>2. QED
    BY <1>2, <2>1 DEF KillTime, EntryHasWait, cppVars
<1>3. ASSUME NEW x \in TimerIds, Expire(x) PROVE EntryHasWait'
  <2>1. \A y : InQueue("wait", y)' <=> InQueue("wait", y) \/ y = x
    BY <1>3, HandlerType, PostStep DEF Expire
  <2>2. QED
    BY <1>3, <2>1 DEF Expire, EntryHasWait
<1>4. CASE SetTimer
  <2>1. t \in TimerIds /\ ioQueue # <<>> /\ Head(ioQueue).op = "set" /\ ioQueue' = Tail(ioQueue)
    BY <1>4, IoHeads DEF SetTimer, IoStep, Runs
  <2>2. \A y : InQueue("wait", y) => InQueue("wait", y)'
    BY <2>1, TailStep, HandleStep
  <2>3. QED
    BY <1>4, <2>1, <2>2 DEF SetTimer, EntryHasWait, TypeOK
<1>5. CASE KillTimer
  <2>1. t \in TimerIds /\ ioQueue # <<>> /\ Head(ioQueue).op = "kill"
        /\ ioQueue' = Tail(ioQueue) \o Aborted(t)
    BY <1>5, IoHeads DEF KillTimer, IoStep, Runs
  <2>2. \A y : InQueue("wait", y) => InQueue("wait", y)'
    BY <2>1, AbortedType, HandleStep
  <2>3. QED
    BY <1>5, <2>1, <2>2 DEF KillTimer, EntryHasWait, TypeOK
<1>6. CASE OnTimerInternal
  <2>1. t \in TimerIds /\ ioQueue # <<>> /\ Head(ioQueue).op = "wait"
        /\ ioQueue' = Tail(ioQueue) \o Ticked(t)
    BY <1>6, IoHeads DEF OnTimerInternal, IoStep, Runs, Ticked
  <2>2. \A y : y # t /\ InQueue("wait", y) => InQueue("wait", y)'
    BY <2>1, TickedType, HandleStep
  <2>3. QED
    BY <1>6, <2>1, <2>2 DEF OnTimerInternal, EntryHasWait, TypeOK
<1>7. CASE Deliver
  <2>1. ioQueue # <<>> /\ Head(ioQueue).op = "msg" /\ ioQueue' = Tail(ioQueue)
    BY <1>7 DEF Deliver, Runs
  <2>2. \A y : InQueue("wait", y) => InQueue("wait", y)'
    BY <2>1, TailStep, HandleStep
  <2>3. QED
    BY <1>7, <2>2 DEF Deliver, EntryHasWait, cppVars
<1>8. CASE UNCHANGED <<ioQueue, cppVars>>
  BY <1>8 DEF EntryHasWait, InQueue, cppVars
<1>9. QED
  BY <1>1, <1>2, <1>3, <1>4, <1>5, <1>6, <1>7, <1>8
     DEF Next, IoStep, LvmStep, DPTM, DPTMEnd, vars

\* No timer goes dead: m_mapTimer's entries always have a completion to come.
THEOREM EntryHasWaitAlways == Spec => []EntryHasWait
<1>1. Init => EntryHasWait
  BY DEF Init, EntryHasWait
<1>2. QED
  BY <1>1, EntryStep, TimerTypeCorrect, PTL DEF Spec

-----------------------------------------------------------------------------
(* One completion per timer *)

\* What OneWaitEach says of an id that is not killed.
One(t) ==
    /\ mapTimer[t] = "none" => ~InQueue("wait", t)
    /\ t \in waiting => ~InQueue("wait", t)
    /\ OneWait(t)

\* Every step keeps what OneWaitEach says of an id it does not kill.
LEMMA OneStep ==
    ASSUME TypeOK, EntryHasWait, [Next]_vars, NEW y \in TimerIds, y \notin killed', One(y)
    PROVE  One(y)'
<1> DEFINE t == Head(ioQueue).id
<1>1. ASSUME NEW x \in TimerIds, NEW once \in OnceArgs, Time(x, once) PROVE One(y)'
  <2>1. (InQueue("wait", y)' <=> InQueue("wait", y)) /\ (OneWait(y) => OneWait(y)')
    BY <1>1, HandlerType, PostStep DEF Time
  <2>2. QED
    BY <1>1, <2>1 DEF Time, One, cppVars
<1>2. ASSUME NEW x \in TimerIds, KillTime(x) PROVE One(y)'
  <2>1. (InQueue("wait", y)' <=> InQueue("wait", y)) /\ (OneWait(y) => OneWait(y)')
    BY <1>2, HandlerType, PostStep DEF KillTime
  <2>2. QED
    BY <1>2, <2>1 DEF KillTime, One, cppVars
<1>3. ASSUME NEW x \in TimerIds, Expire(x) PROVE One(y)'
  <2>1. /\ InQueue("wait", y)' <=> InQueue("wait", y) \/ y = x
        /\ OneWait(y) /\ (x = y => ~InQueue("wait", y)) => OneWait(y)'
    BY <1>3, HandlerType, PostStep DEF Expire
  <2>2. QED
    BY <1>3, <2>1 DEF Expire, One, EntryHasWait
<1>4. CASE SetTimer
  <2>1. t \in TimerIds /\ ioQueue # <<>> /\ ioQueue' = Tail(ioQueue)
    BY <1>4, IoHeads DEF SetTimer, IoStep
  <2>2. (InQueue("wait", y)' => InQueue("wait", y)) /\ (OneWait(y) => OneWait(y)')
    BY <2>1, TailStep, HandleStep
  <2>3. QED
    BY <1>4, <2>1, <2>2 DEF SetTimer, One, TypeOK
<1>5. CASE KillTimer
  <2>1. t \in TimerIds /\ ioQueue # <<>> /\ ioQueue' = Tail(ioQueue) \o Aborted(t)
    BY <1>5, IoHeads DEF KillTimer, IoStep
  <2>2. y = t => t \notin waiting
    BY <1>5 DEF KillTimer, EntryHasWait
  <2>3. \A j \in DOMAIN Aborted(t) : ~(Aborted(t)[j].op = "wait" /\ Aborted(t)[j].id = y)
    BY <2>1, <2>2, AbortedType
  <2>4. (InQueue("wait", y)' => InQueue("wait", y)) /\ (OneWait(y) => OneWait(y)')
    BY <2>1, <2>3, AbortedType, HandleStep
  <2>5. QED
    BY <1>5, <2>1, <2>4 DEF KillTimer, One, TypeOK
<1>6. CASE OnTimerInternal
  <2>1. t \in TimerIds /\ ioQueue # <<>> /\ Head(ioQueue).op = "wait" /\ InQueue("wait", t)
        /\ ioQueue' = Tail(ioQueue) \o Ticked(t)
    BY <1>6, IoHeads DEF OnTimerInternal, IoStep, Runs, Ticked
  <2>2. y = t => t \notin waiting
    BY <2>1 DEF One
  <2>3. \A j \in DOMAIN Ticked(t) : ~(Ticked(t)[j].op = "wait" /\ Ticked(t)[j].id = y)
    BY <2>1, <2>2, TickedType
  <2>4. /\ InQueue("wait", y)' => InQueue("wait", y)
        /\ OneWait(y) => OneWait(y)' /\ (InQueue("wait", y)' => y # t)
    BY <2>1, <2>3, TickedType, HandleStep
  <2>5. QED
    BY <1>6, <2>1, <2>4 DEF OnTimerInternal, One, TypeOK
<1>7. CASE Deliver
  <2>1. ioQueue # <<>> /\ ioQueue' = Tail(ioQueue)
    BY <1>7 DEF Deliver, Runs
  <2>2. (InQueue("wait", y)' => InQueue("wait", y)) /\ (OneWait(y) => OneWait(y)')
    BY <2>1, TailStep, HandleStep
  <2>3. QED
    BY <1>7, <2>2 DEF Deliver, One, cppVars
<1>8. CASE UNCHANGED <<ioQueue, cppVars>>
  BY <1>8 DEF One, OneWait, InQueue, cppVars
<1>9. QED
  BY <1>1, <1>2, <1>3, <1>4, <1>5, <1>6, <1>7, <1>8
     DEF Next, IoStep, LvmStep, DPTM, DPTMEnd, vars

\* KillTimer is the only step that adds to killed, and none takes away.
LEMMA KilledGrows == TypeOK /\ [Next]_vars => killed \subseteq killed'
BY DEF TypeOK, Next, IoStep, LvmStep, DPTM, DPTMEnd, vars, cppVars, Time, KillTime, Expire,
       SetTimer, KillTimer, OnTimerInternal, Deliver

\* One completion per timer, as long as its id is not killed.
THEOREM OneWaitEachAlways == Spec => []OneWaitEach
<1>1. Init => OneWaitEach
  <2>1. Init => DOMAIN ioQueue = {} /\ waiting = {}
    BY DEF Init
  <2>2. QED
    BY <2>1 DEF OneWaitEach, InQueue
<1>2. OneWaitEach <=> \A y \in TimerIds \ killed : One(y)
  BY DEF OneWaitEach, One, OneWait
<1>3. OneWaitEach' <=> \A y \in TimerIds \ killed' : One(y)'
  BY DEF OneWaitEach, One, OneWait
<1>4. TypeOK /\ EntryHasWait /\ OneWaitEach /\ [Next]_vars => OneWaitEach'
  <2> SUFFICES ASSUME TypeOK, EntryHasWait, OneWaitEach, [Next]_vars,
                      NEW y \in TimerIds, y \notin killed'
               PROVE One(y)'
    BY <1>3
  <2>1. One(y)
    BY <1>2, KilledGrows
  <2>2. QED
    BY <2>1, OneStep
<1>5. QED
  BY <1>1, <1>4, TimerTypeCorrect, EntryHasWaitAlways, PTL DEF Spec

-----------------------------------------------------------------------------
(* No callback goes dead *)

\* What NoDeadCallback says of one id.
Alive(y) == timerCb[y] # "none" /\ y \notin called => TickComing(y)

\* TickComing in terms of SetLast and InQueue, before and after a step.
LEMMA Coming ==
    ASSUME NEW y
    PROVE  /\ TickComing(y) <=> \/ SetLast(y)
                                \/ mapTimer[y] # "none" /\ ~InQueue("kill", y)
                                \/ InQueue("msg", y)
                                \/ \E i \in DOMAIN inbox : inbox[i] = y
           /\ TickComing(y)' <=> \/ SetLast(y)'
                                 \/ mapTimer'[y] # "none" /\ ~InQueue("kill", y)'
                                 \/ InQueue("msg", y)'
                                 \/ \E i \in DOMAIN inbox' : inbox'[i] = y
BY DEF TickComing, SetLast

\* Every step keeps what NoDeadCallback says of an id.
LEMMA AliveStep ==
    ASSUME TypeOK, [Next]_vars, NEW y \in TimerIds, Alive(y)
    PROVE  Alive(y)'
<1> DEFINE t == Head(ioQueue).id
<1>1. ASSUME NEW x \in TimerIds, NEW once \in OnceArgs, Time(x, once) PROVE Alive(y)'
  <2>1. /\ \A p : p # "set" => (InQueue(p, y)' <=> InQueue(p, y))
        /\ SetLast(y) \/ x = y => SetLast(y)'
    BY <1>1, HandlerType, PostStep DEF Time
  <2>2. CASE x = y
    BY <2>1, <2>2, Coming DEF Alive
  <2>3. CASE x # y
    BY <1>1, <2>1, <2>3, Coming DEF Time, Alive, TypeOK, cppVars
  <2>4. QED
    BY <2>2, <2>3
<1>2. ASSUME NEW x \in TimerIds, KillTime(x) PROVE Alive(y)'
  <2>1. CASE x = y
    BY <1>2, <2>1 DEF KillTime, Alive, TypeOK
  <2>2. CASE x # y
    <3>1. /\ \A p : InQueue(p, y)' <=> InQueue(p, y)
          /\ SetLast(y) => SetLast(y)'
      BY <1>2, <2>2, HandlerType, PostStep DEF KillTime
    <3>2. QED
      BY <1>2, <2>2, <3>1, Coming DEF KillTime, Alive, TypeOK, cppVars
  <2>3. QED
    BY <2>1, <2>2
<1>3. ASSUME NEW x \in TimerIds, Expire(x) PROVE Alive(y)'
  <2>1. /\ \A p : p # "wait" => (InQueue(p, y)' <=> InQueue(p, y))
        /\ SetLast(y) => SetLast(y)'
    BY <1>3, HandlerType, PostStep DEF Expire
  <2>2. QED
    BY <1>3, <2>1, Coming DEF Expire, Alive, luaVars
<1>4. CASE SetTimer
  <2>1. t \in TimerIds /\ ioQueue # <<>> /\ Head(ioQueue).op = "set" /\ ioQueue' = Tail(ioQueue)
    BY <1>4, IoHeads DEF SetTimer, IoStep, Runs
  <2>2. /\ InQueue("kill", y)' => InQueue("kill", y)
        /\ InQueue("msg", y) => InQueue("msg", y)'
        /\ SetLast(y) => SetLast(y)' \/ (t = y /\ ~InQueue("kill", y)')
    BY <2>1, TailStep, HandleStep
  <2>3. mapTimer'[t] # "none" /\ (mapTimer[y] # "none" => mapTimer'[y] # "none")
    BY <1>4, <2>1 DEF SetTimer, TypeOK
  <2>4. QED
    BY <1>4, <2>2, <2>3, Coming DEF SetTimer, Alive, luaVars
<1>5. CASE KillTimer
  <2>1. t \in TimerIds /\ ioQueue # <<>> /\ Head(ioQueue).op = "kill" /\ InQueue("kill", t)
        /\ ioQueue' = Tail(ioQueue) \o Aborted(t)
    BY <1>5, IoHeads DEF KillTimer, IoStep, Runs
  <2>2. /\ InQueue("kill", y)' => InQueue("kill", y)
        /\ InQueue("msg", y) => InQueue("msg", y)'
        /\ SetLast(y) => SetLast(y)'
    <3>1. Aborted(t) \in Seq(Handlers) /\ \A j \in DOMAIN Aborted(t) : Aborted(t)[j].op \in {"wait", "msg"}
      BY <2>1, AbortedType
    <3>2. InQueue("kill", y)' => InQueue("kill", y)
      <4>1. InQueue("kill", y)' =>
                InQueue("kill", y) \/ \E j \in DOMAIN Aborted(t) : Aborted(t)[j].op = "kill"
        BY <2>1, <3>1, HandleStep
      <4>2. QED
        BY <3>1, <4>1
    <3>3. InQueue("msg", y) => InQueue("msg", y)'
      BY <2>1, <3>1, HandleStep
    <3>4. SetLast(y) => SetLast(y)'
      BY <2>1, <3>1, HandleStep
    <3>5. QED
      BY <3>2, <3>3, <3>4
  <2>3. ~InQueue("kill", y) => mapTimer'[y] = mapTimer[y]
    BY <1>5, <2>1 DEF KillTimer, TypeOK
  <2>4. QED
    BY <1>5, <2>2, <2>3, Coming DEF KillTimer, Alive, luaVars
<1>6. CASE OnTimerInternal
  <2>1. t \in TimerIds /\ ioQueue # <<>> /\ Head(ioQueue).op = "wait"
        /\ ioQueue' = Tail(ioQueue) \o Ticked(t)
    BY <1>6, IoHeads DEF OnTimerInternal, IoStep, Runs, Ticked
  <2>2. /\ InQueue("kill", y)' => InQueue("kill", y)
        /\ InQueue("msg", y) => InQueue("msg", y)'
        /\ SetLast(y) => SetLast(y)'
    <3>1. Ticked(t) \in Seq(Handlers) /\ \A j \in DOMAIN Ticked(t) : Ticked(t)[j].op \in {"wait", "msg"}
      BY <2>1, TickedType
    <3>2. InQueue("kill", y)' => InQueue("kill", y)
      <4>1. InQueue("kill", y)' =>
                InQueue("kill", y) \/ \E j \in DOMAIN Ticked(t) : Ticked(t)[j].op = "kill"
        BY <2>1, <3>1, HandleStep
      <4>2. QED
        BY <3>1, <4>1
    <3>3. InQueue("msg", y) => InQueue("msg", y)'
      BY <2>1, <3>1, HandleStep
    <3>4. SetLast(y) => SetLast(y)'
      BY <2>1, <3>1, HandleStep
    <3>5. QED
      BY <3>2, <3>3, <3>4
  <2>3. y = t /\ mapTimer[y] # "none" => InQueue("msg", y)'
    <3> SUFFICES ASSUME y = t, mapTimer[y] # "none" PROVE InQueue("msg", y)'
      OBVIOUS
    <3>1. /\ Ticked(t) \in Seq(Handlers) /\ 1 \in DOMAIN Ticked(t)
          /\ Ticked(t)[1].op = "msg" /\ Ticked(t)[1].id = y
      BY <2>1, TickedType
    <3>2. QED
      BY <2>1, <3>1, HandleStep
  <2>4. y # t => mapTimer'[y] = mapTimer[y]
    BY <1>6, <2>1 DEF OnTimerInternal, TypeOK
  <2>5. QED
    <3>1. UNCHANGED <<inbox, timerCb, called>>
      BY <1>6 DEF OnTimerInternal, luaVars
    <3>2. CASE y = t
      BY <2>2, <2>3, <3>1, <3>2, Coming DEF Alive
    <3>3. CASE y # t
      BY <2>2, <2>4, <3>1, <3>3, Coming DEF Alive
    <3>4. QED
      BY <3>2, <3>3
<1>7. CASE Deliver
  <2>1. t \in TimerIds /\ ioQueue # <<>> /\ Head(ioQueue).op = "msg" /\ ioQueue' = Tail(ioQueue)
    BY <1>7, IoHeads DEF Deliver, IoStep, Runs
  <2>2. /\ InQueue("kill", y)' => InQueue("kill", y)
        /\ InQueue("msg", y) /\ y # t => InQueue("msg", y)'
        /\ SetLast(y) => SetLast(y)'
    BY <2>1, TailStep, HandleStep
  <2>3. \A z : z = t \/ (\E i \in DOMAIN inbox : inbox[i] = z) => \E i \in DOMAIN inbox' : inbox'[i] = z
    BY <1>7, <2>1, Appended DEF Deliver, TypeOK
  <2>4. QED
    BY <1>7, <2>2, <2>3, Coming DEF Deliver, Alive, luaVars, cppVars
<1>8. CASE DPTM
  <2>1. UNCHANGED ioQueue /\ UNCHANGED mapTimer /\ UNCHANGED timerCb
    BY <1>8 DEF DPTM, cppVars
  <2>2. called \subseteq called' /\ (timerCb[Head(inbox)] # "none" => Head(inbox) \in called')
    BY <1>8 DEF DPTM
  <2>3. (\E i \in DOMAIN inbox : inbox[i] = y) => y = Head(inbox) \/ \E i \in DOMAIN inbox' : inbox'[i] = y
    <3>1. inbox \in Seq(TimerIds) /\ inbox # <<>> /\ inbox' = Tail(inbox)
      BY <1>8 DEF DPTM, TypeOK
    <3>2. /\ Head(inbox) = inbox[1]
          /\ \A i \in DOMAIN inbox : i # 1 => i - 1 \in DOMAIN Tail(inbox) /\ Tail(inbox)[i - 1] = inbox[i]
      BY <3>1, Taken
    <3>3. QED
      BY <3>1, <3>2
  <2>4. (SetLast(y) <=> SetLast(y)') /\ \A p : InQueue(p, y)' <=> InQueue(p, y)
    BY <2>1 DEF SetLast, InQueue
  <2>5. QED
    BY <2>1, <2>2, <2>3, <2>4, Coming DEF Alive
<1>9. ASSUME NEW ok \in BOOLEAN, DPTMEnd(ok) PROVE Alive(y)'
  <2>1. timerCb'[y] # "none" => timerCb[y] # "none"
    BY <1>9 DEF DPTMEnd, TypeOK
  <2>2. TickComing(y) <=> TickComing(y)'
    BY <1>9 DEF DPTMEnd, TickComing, InQueue, cppVars
  <2>3. QED
    BY <1>9, <2>1, <2>2 DEF DPTMEnd, Alive
<1>10. CASE UNCHANGED vars
  BY <1>10 DEF Alive, TickComing, InQueue, vars, cppVars, luaVars
<1>11. QED
  BY <1>1, <1>2, <1>3, <1>4, <1>5, <1>6, <1>7, <1>8, <1>9, <1>10 DEF Next, IoStep, LvmStep

\* A registered callback that was not called yet has a tick coming.
THEOREM NoDeadCallbackAlways == Spec => []NoDeadCallback
<1>1. Init => NoDeadCallback
  BY DEF Init, NoDeadCallback
<1>2. TypeOK /\ NoDeadCallback /\ [Next]_vars => NoDeadCallback'
  BY AliveStep DEF NoDeadCallback, Alive
<1>3. QED
  BY <1>1, <1>2, TimerTypeCorrect, PTL DEF Spec
=============================================================================
