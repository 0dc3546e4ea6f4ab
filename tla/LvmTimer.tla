------------------------------ MODULE LvmTimer ------------------------------
(***************************************************************************)
(* The timers of one machine: CAsyncTimer (cpp/timer.h), the handlers that *)
(* LvmMgr::SetTimer and KillTimer post, LVM::OnTimer, and base.lua above   *)
(* them (Time, KillTime, DPTM).  Lua calls Time and KillTime on the        *)
(* machine's worker; set, kill and expiry run on the io thread, in the     *)
(* order they were posted; a tick travels back as an LVM_CMD_ONTIMER       *)
(* message.  The machine stays registered.  For the main machine, whose    *)
(* Dispatch runs on the io thread, the behaviours are those in which the   *)
(* io thread waits for Deliver, DPTM and DPTMEnd to follow each other.     *)
(***************************************************************************)
EXTENDS Naturals, Sequences

CONSTANTS TimerIds,
          NoId,
          MaxPosts,   \* bound: Lua posts only while io_service holds fewer handlers
          MaxInbox    \* bound: ticks waiting in the machine's localMsgQueue

\* The once argument of Time: 1, 0 or left out.  C++ reads nil as 0, DPTM
\* compares it with 0.
OnceArgs == {"once", "repeat", "nil"}

ASSUME LvmTimerAssumption == NoId \notin TimerIds /\ MaxPosts \in Nat /\ MaxInbox \in Nat

\* What io_service runs: _SetTimer, _KillTimer, the completion of an
\* async_wait, _PostMsg with LVM_CMD_ONTIMER.
Handler(o, t, a) == [op |-> o, id |-> t, arg |-> a]
Handlers ==
    [op : {"set"}, id : TimerIds, arg : OnceArgs]
        \cup [op : {"kill", "msg"}, id : TimerIds, arg : {""}]
        \cup [op : {"wait"}, id : TimerIds, arg : {"expired", "aborted"}]

VARIABLES
    ioQueue,    \* handlers in io_service
    mapTimer,   \* m_mapTimer: per id "none", or what TIMER_INFO.once makes of it
    waiting,    \* ids whose deadline_timer has an async_wait outstanding
    inbox,      \* ONTIMER messages delivered to the machine
    timerCb,    \* TS.TIMER_CB: per id "none" or the once it was registered with
    cbId,       \* the id whose callback is running
    cbOnce,     \* dt.once, read before that callback was called
    called,     \* history: ids whose registered callback has been called
    killed,     \* history: ids KillTimer has erased from m_mapTimer
    wanted,     \* history: ids whose last call was Time, not KillTime
    mixed       \* history: ids that Time has been given with a once other than 0

luaVars == <<timerCb, called, wanted, mixed>>
cbVars  == <<cbId, cbOnce>>
cppVars == <<mapTimer, waiting, killed>>
vars    == <<ioQueue, inbox, luaVars, cbVars, cppVars>>

Init ==
    /\ ioQueue = <<>>
    /\ mapTimer = [t \in TimerIds |-> "none"]
    /\ waiting = {}
    /\ inbox = <<>>
    /\ timerCb = [t \in TimerIds |-> "none"]
    /\ cbId = NoId
    /\ cbOnce = "none"
    /\ called = {}
    /\ killed = {}
    /\ wanted = {}
    /\ mixed = {}

-----------------------------------------------------------------------------
(* Lua calls, from a callback or from the handler of any other message *)

\* M.Time: RegTM overwrites what was registered, then SetTimer is posted.
Time(t, once) ==
    /\ Len(ioQueue) < MaxPosts
    /\ timerCb' = [timerCb EXCEPT ![t] = once]
    /\ called' = called \ {t}
    /\ wanted' = wanted \cup {t}
    /\ mixed' = IF once = "repeat" THEN mixed ELSE mixed \cup {t}
    /\ ioQueue' = Append(ioQueue, Handler("set", t, once))
    /\ UNCHANGED <<inbox, cbVars, cppVars>>

\* M.KillTime.
KillTime(t) ==
    /\ Len(ioQueue) < MaxPosts
    /\ timerCb' = [timerCb EXCEPT ![t] = "none"]
    /\ called' = called \ {t}
    /\ ioQueue' = Append(ioQueue, Handler("kill", t, ""))
    /\ wanted' = wanted \ {t}
    /\ UNCHANGED <<inbox, mixed, cbVars, cppVars>>

-----------------------------------------------------------------------------
(* The io thread *)

Runs(op) == ioQueue # <<>> /\ Head(ioQueue).op = op

\* deadline_timer::cancel, also implied by expires_from_now and by its
\* destructor: an outstanding wait completes at once, as aborted.
Aborted(t) == IF t \in waiting THEN <<Handler("wait", t, "aborted")>> ELSE <<>>

\* Mutants of SetTimer: a timer that exists is replaced; once is kept as is.
SetTimerReplaces ==
    LET t == Head(ioQueue).id IN
    /\ Runs("set")
    /\ mapTimer' = [mapTimer EXCEPT ![t] = IF Head(ioQueue).arg = "once" THEN "once" ELSE "repeat"]
    /\ waiting' = waiting \cup {t}
    /\ ioQueue' = Tail(ioQueue) \o Aborted(t)
    /\ UNCHANGED <<inbox, luaVars, cbVars, killed>>

SetTimerRaw ==
    LET t == Head(ioQueue).id IN
    /\ Runs("set")
    /\ IF mapTimer[t] # "none" THEN UNCHANGED <<mapTimer, waiting>>
       ELSE /\ mapTimer' = [mapTimer EXCEPT ![t] = Head(ioQueue).arg]
            /\ waiting' = waiting \cup {t}
    /\ ioQueue' = Tail(ioQueue)
    /\ UNCHANGED <<inbox, luaVars, cbVars, killed>>

\* CAsyncTimer::SetTimer: nothing happens when the id is in m_mapTimer.
SetTimer ==
    LET t == Head(ioQueue).id IN
    /\ Runs("set")
    /\ IF mapTimer[t] # "none" THEN UNCHANGED <<mapTimer, waiting>>
       ELSE /\ mapTimer' = [mapTimer EXCEPT
                              ![t] = IF Head(ioQueue).arg = "once" THEN "once" ELSE "repeat"]
            /\ waiting' = waiting \cup {t}
    /\ ioQueue' = Tail(ioQueue)
    /\ UNCHANGED <<inbox, luaVars, cbVars, killed>>

\* CAsyncTimer::KillTimer.  A completion already queued stays queued.
KillTimer ==
    LET t == Head(ioQueue).id IN
    /\ Runs("kill")
    /\ ioQueue' = Tail(ioQueue) \o Aborted(t)
    /\ waiting' = waiting \ {t}
    /\ killed' = IF mapTimer[t] # "none" THEN killed \cup {t} ELSE killed
    /\ mapTimer' = [mapTimer EXCEPT ![t] = "none"]
    /\ UNCHANGED <<inbox, luaVars, cbVars>>

\* Mutants of OnTimerInternal: a repeating timer is not armed again; an
\* aborted completion erases the entry without a tick.
OnTimerInternalNoRearm ==
    LET t == Head(ioQueue).id IN
    /\ Runs("wait")
    /\ ioQueue' = Tail(ioQueue) \o
         (IF mapTimer[t] = "none" THEN <<>> ELSE <<Handler("msg", t, "")>> \o Aborted(t))
    /\ waiting' = IF mapTimer[t] = "none" THEN waiting ELSE waiting \ {t}
    /\ mapTimer' = [mapTimer EXCEPT ![t] = IF @ = "repeat" THEN "repeat" ELSE "none"]
    /\ UNCHANGED <<inbox, luaVars, cbVars, killed>>

OnTimerInternalMuteAbort ==
    LET t == Head(ioQueue).id
        tick == IF Head(ioQueue).arg = "aborted" THEN <<>> ELSE <<Handler("msg", t, "")>> IN
    /\ Runs("wait")
    /\ ioQueue' = Tail(ioQueue) \o (IF mapTimer[t] = "none" THEN <<>> ELSE tick \o Aborted(t))
    /\ waiting' = IF mapTimer[t] = "repeat" THEN waiting \cup {t}
                  ELSE IF mapTimer[t] = "once" THEN waiting \ {t} ELSE waiting
    /\ mapTimer' = [mapTimer EXCEPT ![t] = IF @ = "repeat" THEN "repeat" ELSE "none"]
    /\ UNCHANGED <<inbox, luaVars, cbVars, killed>>

\* CAsyncTimer::OnTimerInternal and LVM::OnTimer.  The error code is not
\* looked at: whatever timer has the id now ticks, and is armed again
\* (repeat) or erased (once); either cancels a wait it has outstanding.
OnTimerInternal ==
    LET t == Head(ioQueue).id IN
    /\ Runs("wait")
    /\ ioQueue' = Tail(ioQueue) \o
         (IF mapTimer[t] = "none" THEN <<>> ELSE <<Handler("msg", t, "")>> \o Aborted(t))
    /\ waiting' = IF mapTimer[t] = "repeat" THEN waiting \cup {t} ELSE waiting \ {t}
    /\ mapTimer' = [mapTimer EXCEPT ![t] = IF @ = "repeat" THEN "repeat" ELSE "none"]
    /\ UNCHANGED <<inbox, luaVars, cbVars, killed>>

\* _PostMsg brings the tick to the machine.
Deliver ==
    /\ Runs("msg")
    /\ Len(inbox) < MaxInbox
    /\ inbox' = Append(inbox, Head(ioQueue).id)
    /\ ioQueue' = Tail(ioQueue)
    /\ UNCHANGED <<luaVars, cbVars, cppVars>>

\* Time passes: an outstanding wait completes.
Expire(t) ==
    /\ t \in waiting
    /\ waiting' = waiting \ {t}
    /\ ioQueue' = Append(ioQueue, Handler("wait", t, "expired"))
    /\ UNCHANGED <<inbox, luaVars, cbVars, mapTimer, killed>>

-----------------------------------------------------------------------------
(* The machine's worker *)

\* TS.DPTM up to the call of dt.cb.
DPTM ==
    LET t == Head(inbox) IN
    /\ cbId = NoId
    /\ inbox # <<>>
    /\ inbox' = Tail(inbox)
    /\ IF timerCb[t] = "none" THEN UNCHANGED <<called, cbVars>>
       ELSE /\ called' = called \cup {t}
            /\ cbId' = t
            /\ cbOnce' = timerCb[t]
    /\ UNCHANGED <<ioQueue, timerCb, wanted, mixed, cppVars>>

\* Mutant: the registration goes whatever dt.once is.
DPTMEndAlwaysClears(ok) ==
    /\ cbId # NoId
    /\ timerCb' = IF ok THEN [timerCb EXCEPT ![cbId] = "none"] ELSE timerCb
    /\ cbId' = NoId
    /\ cbOnce' = "none"
    /\ UNCHANGED <<ioQueue, inbox, called, wanted, mixed, cppVars>>

\* dt.cb returns (ok), or raises an error and the rest of DPTM is skipped.
\* The once registration that is dropped is the present one, whoever made it.
DPTMEnd(ok) ==
    /\ cbId # NoId
    /\ timerCb' = IF ok /\ cbOnce # "repeat" THEN [timerCb EXCEPT ![cbId] = "none"] ELSE timerCb
    /\ cbId' = NoId
    /\ cbOnce' = "none"
    /\ UNCHANGED <<ioQueue, inbox, called, wanted, mixed, cppVars>>

-----------------------------------------------------------------------------
IoStep ==
    \/ SetTimer
    \/ KillTimer
    \/ OnTimerInternal
    \/ Deliver

LvmStep ==
    \/ DPTM
    \/ \E ok \in BOOLEAN : DPTMEnd(ok)

Next ==
    \/ \E t \in TimerIds, once \in OnceArgs : Time(t, once)
    \/ \E t \in TimerIds : KillTime(t) \/ Expire(t)
    \/ IoStep
    \/ LvmStep

Spec == Init /\ [][Next]_vars

\* A wait that is not cut short by a new expires_from_now runs out.
Elapse(t) == Expire(t) \/ (OnTimerInternal /\ Head(ioQueue).id = t)

Fairness ==
    /\ WF_vars(IoStep)
    /\ WF_vars(LvmStep)
    /\ \A t \in TimerIds : WF_vars(Elapse(t))

FairSpec == Spec /\ Fairness
-----------------------------------------------------------------------------
(* Properties *)

\* Type invariant.
TypeOK ==
    /\ ioQueue \in Seq(Handlers)
    /\ mapTimer \in [TimerIds -> {"none", "once", "repeat"}]
    /\ waiting \in SUBSET TimerIds
    /\ inbox \in Seq(TimerIds)
    /\ timerCb \in [TimerIds -> OnceArgs \cup {"none"}]
    /\ cbId \in TimerIds \cup {NoId}
    /\ cbOnce \in OnceArgs \cup {"none"}
    /\ called \in SUBSET TimerIds
    /\ killed \in SUBSET TimerIds
    /\ wanted \in SUBSET TimerIds
    /\ mixed \in SUBSET TimerIds

InQueue(o, t) == \E i \in DOMAIN ioQueue : ioQueue[i].op = o /\ ioQueue[i].id = t

\* No timer goes dead: every entry of m_mapTimer has a completion to come,
\* through any mixture of set, kill, expiry and aborted completions, and an
\* outstanding wait always has an entry.
EntryHasWait ==
    /\ \A t \in TimerIds : mapTimer[t] # "none" => t \in waiting \/ InQueue("wait", t)
    /\ \A t \in waiting : mapTimer[t] # "none"

\* One completion per timer: as long as an id is never killed, exactly one
\* wait or completion belongs to its entry and none outlives it.  So it ticks
\* once per elapsed wait, however often Lua sets it again meanwhile.
OneWaitEach ==
    \A t \in TimerIds \ killed :
        /\ mapTimer[t] = "none" => ~InQueue("wait", t)
        /\ t \in waiting => ~InQueue("wait", t)
        /\ \A i, j \in DOMAIN ioQueue :
              /\ ioQueue[i].op = "wait" /\ ioQueue[i].id = t
              /\ ioQueue[j].op = "wait" /\ ioQueue[j].id = t
              => i = j

\* A callback registered by Time and not called yet has a tick coming: its
\* set is behind every kill in io_service, or the timer of its id runs and no
\* kill is on the way, or an ONTIMER message is.
TickComing(t) ==
    \/ \E i \in DOMAIN ioQueue :
          /\ ioQueue[i].op = "set" /\ ioQueue[i].id = t
          /\ \A j \in DOMAIN ioQueue : ioQueue[j].op = "kill" /\ ioQueue[j].id = t => j < i
    \/ mapTimer[t] # "none" /\ ~InQueue("kill", t)
    \/ InQueue("msg", t)
    \/ \E i \in DOMAIN inbox : inbox[i] = t

NoDeadCallback ==
    \A t \in TimerIds : timerCb[t] # "none" /\ t \notin called => TickComing(t)

\* Every Time is answered: its callback is called, unless the registration is
\* killed, or dropped by the callback of the same id it was made in.
TimeIsServed ==
    \A t \in TimerIds :
        timerCb[t] # "none" /\ t \notin called ~> timerCb[t] = "none" \/ t \in called

\* A timer that is only ever set repeating, and set again after every kill,
\* ticks for ever, whatever its callback does and however often it fails.
RepeatTicks ==
    \A t \in TimerIds :
        <>[](t \notin mixed /\ t \in wanted) => []<>(cbId = t)
=============================================================================
