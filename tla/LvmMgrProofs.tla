---------------------------- MODULE LvmMgrProofs ----------------------------
(***************************************************************************)
(* Theorems about LvmMgr, for every number of machines, tokens and workers,*)
(* and about the stack of a machine that LVM::Dispatch pushes to.          *)
(***************************************************************************)
EXTENDS LvmMgr, TLAPS

\* The sentinels are told apart from what they stand in for.
LEMMA Sentinels == NoMsg \notin Msgs /\ NoVm \notin Vms /\ NoVm \notin LvmIds /\ LoginVm \in LvmIds /\ MainVm \notin LvmIds
BY LvmMgrAssumption DEF Vms, LvmIds, LoginVm, MainVm

\* What the operations on a FIFO queue do to its type and its elements.
LEMMA AppendFifo ==
    ASSUME NEW S, NEW s \in Seq(S), NEW e \in S
    PROVE  /\ Append(s, e) \in Seq(S)
           /\ DOMAIN Append(s, e) = DOMAIN s \cup {Len(s) + 1}
           /\ \A i \in DOMAIN s : Append(s, e)[i] = s[i]
           /\ Append(s, e)[Len(s) + 1] = e
           /\ Len(s) + 1 \notin DOMAIN s
           /\ Append(s, e) # <<>>
OBVIOUS

LEMMA TailFifo ==
    ASSUME NEW S, NEW s \in Seq(S), s # <<>>
    PROVE  /\ Head(s) \in S
           /\ Tail(s) \in Seq(S)
           /\ 1 \in DOMAIN s
           /\ Head(s) = s[1]
           /\ \A i \in DOMAIN Tail(s) : i + 1 \in DOMAIN s /\ Tail(s)[i] = s[i + 1]
           /\ \A i \in DOMAIN s : i # 1 => i - 1 \in DOMAIN Tail(s)
           /\ DOMAIN Tail(s) \subseteq Nat \ {0}
OBVIOUS

-----------------------------------------------------------------------------
LEMMA TypeStep == TypeOK /\ [Next]_vars => TypeOK'
<1> SUFFICES ASSUME TypeOK, [Next]_vars PROVE TypeOK'
  OBVIOUS
<1> USE Sentinels DEF TypeOK, ioVars, mapVars, lvmVars, workVars
<1>1. ASSUME NEW m \in Msgs, PostMsg(m) PROVE TypeOK'
  BY <1>1, AppendFifo DEF PostMsg
<1>2. CASE IoDispatchMain
  BY <1>2, TailFifo DEF IoDispatchMain, IoReady
<1>3. CASE IoDispatchEnd
  BY <1>3 DEF IoDispatchEnd
<1>4. CASE IoAddMsg
  <2> DEFINE m == Head(ioQueue)
  <2>1. m \in Msgs /\ Tail(ioQueue) \in Seq(Msgs)
    BY <1>4, TailFifo DEF IoAddMsg, IoReady
  <2>2. m.dest \in LvmIds
    BY <1>4 DEF IoAddMsg, Vms
  <2>3. QED
    BY <1>4, <2>1, <2>2, AppendFifo DEF IoAddMsg, AddMsg
<1>5. CASE IoNoLvm
  BY <1>5, TailFifo DEF IoNoLvm, IoReady
<1>6. CASE AddToGlobal
  BY <1>6, AppendFifo DEF AddToGlobal
<1>7. ASSUME NEW ok \in BOOLEAN, CreateLvm(ok) PROVE TypeOK'
  BY <1>7, LvmMgrAssumption DEF CreateLvm, LvmIds, Vms
<1>8. ASSUME NEW id \in Vms, RemoveLvm(id) PROVE TypeOK'
  BY <1>8 DEF RemoveLvm
<1>9. ASSUME NEW w \in Workers, NextGlobal(w) PROVE TypeOK'
  BY <1>9, TailFifo DEF NextGlobal
<1>10. ASSUME NEW w \in Workers, GetMsg(w) PROVE TypeOK'
  <2>1. wVm[w] \in LvmIds
    BY <1>10 DEF GetMsg
  <2>2. Head(localMsgQueue[wVm[w]]) \in Msgs /\ Tail(localMsgQueue[wVm[w]]) \in Seq(Msgs)
    BY <1>10, <2>1, TailFifo DEF GetMsg
  <2>3. QED
    BY <1>10, <2>1, <2>2 DEF GetMsg
<1>11. ASSUME NEW w \in Workers, GetMsgNull(w) PROVE TypeOK'
  BY <1>11 DEF GetMsgNull
<1>12. ASSUME NEW w \in Workers, DispatchEnd(w) PROVE TypeOK'
  BY <1>12 DEF DispatchEnd
<1>13. CASE UNCHANGED vars
  BY <1>13 DEF vars
<1>14. QED
  BY <1>1, <1>2, <1>3, <1>4, <1>5, <1>6, <1>7, <1>8, <1>9, <1>10, <1>11, <1>12, <1>13
  DEF Next, IoStep, WorkerStep

\* Type correctness: every action of the scheduler keeps every variable in
\* its type.
THEOREM TypeCorrect == Spec => []TypeOK
<1>1. Init => TypeOK
  BY Sentinels DEF Init, TypeOK, Vms
<1>2. QED
  BY <1>1, TypeStep, PTL DEF Spec

-----------------------------------------------------------------------------
\* The ownership invariant: the in_global flag, the run queue, the io thread
\* and the workers agree on who owns a machine, in every step.
LEMMA OwnerStep == IInv /\ [Next]_vars => IInv'
<1> SUFFICES ASSUME IInv, [Next]_vars PROVE IInv'
  OBVIOUS
<1>0. TypeOK /\ TypeOK'
  BY TypeStep DEF IInv
<1> USE Sentinels DEF IInv, TypeOK, OneOwner, NoLostWakeup, ExclusiveVm, RightVm, Queued, Held
<1>1. ASSUME NEW m \in Msgs, PostMsg(m) PROVE IInv'
  BY <1>0, <1>1 DEF PostMsg, mapVars, lvmVars, workVars
<1>2. CASE IoDispatchMain
  BY <1>0, <1>2 DEF IoDispatchMain, IoReady, mapVars, lvmVars, workVars
<1>3. CASE IoDispatchEnd
  BY <1>0, <1>3 DEF IoDispatchEnd, mapVars, lvmVars, workVars
<1>4. CASE IoAddMsg
  <2> DEFINE m == Head(ioQueue)
             v == m.dest
  <2>1. m \in Msgs /\ v \in LvmIds
    BY <1>4, TailFifo DEF IoAddMsg, IoReady, Vms
  <2>2. /\ localMsgQueue' = [localMsgQueue EXCEPT ![v] = Append(@, m)]
        /\ in_global' = [in_global EXCEPT ![v] = 1]
        /\ ioVm' = IF in_global[v] = 0 THEN v ELSE NoVm
        /\ ioVm = NoVm /\ ioMsg = NoMsg
        /\ UNCHANGED <<ioMsg, globalMsgQueue, wVm, wMsg>>
    BY <1>4 DEF IoAddMsg, IoReady, AddMsg, workVars
  <2>0. m.dest = v
    OBVIOUS
  <2> HIDE DEF m, v
  <2>3. OneOwner'
    <3>1. \A u \in LvmIds : (Queued(u)' <=> Queued(u)) /\ (Held(u)' <=> Held(u))
      BY <2>2
    <3>2. in_global[v] = 0 => ~Queued(v) /\ ~Held(v)
      BY <2>1
    <3>3. in_global[v] # 0 => Queued(v) \/ Held(v)
      BY <2>1, <2>2
    <3>4. \A u \in LvmIds : Queued(u)' => ioVm' # u /\ ~Held(u)'
      BY <2>1, <2>2, <3>1, <3>2
    <3>5. \A w \in Workers : wVm'[w] # NoVm => ioVm' # wVm'[w]
      BY <2>1, <2>2, <3>2
    <3>6. \A u \in LvmIds : in_global'[u] = 1 <=> ioVm' = u \/ Queued(u)' \/ Held(u)'
      <4> SUFFICES ASSUME NEW u \in LvmIds
                   PROVE in_global'[u] = 1 <=> ioVm' = u \/ Queued(u)' \/ Held(u)'
        OBVIOUS
      <4>1. in_global[u] = 1 <=> Queued(u) \/ Held(u)
        BY <2>1, <2>2
      <4>2. (Queued(u)' <=> Queued(u)) /\ (Held(u)' <=> Held(u))
        BY <3>1
      <4>3. /\ u = v => in_global'[u] = 1 /\ (ioVm' = v \/ in_global[v] # 0)
            /\ u # v => in_global'[u] = in_global[u] /\ ioVm' # u
        BY <2>1, <2>2
      <4> HIDE DEF Queued, Held
      <4>4. QED
        BY <3>3, <4>1, <4>2, <4>3
    <3>7. QED
      BY <2>2, <3>4, <3>5, <3>6
  <2>4. NoLostWakeup' /\ ExclusiveVm'
    BY <2>1, <2>2
  <2>5. RightVm'
    <3>1. \A u \in LvmIds : \A i \in DOMAIN localMsgQueue'[u] : localMsgQueue'[u][i].dest = u
      <4> SUFFICES ASSUME NEW u \in LvmIds, NEW i \in DOMAIN localMsgQueue'[u]
                   PROVE localMsgQueue'[u][i].dest = u
        OBVIOUS
      <4>1. CASE u = v
        <5>1. localMsgQueue'[v] = Append(localMsgQueue[v], m) /\ localMsgQueue[v] \in Seq(Msgs)
          BY <2>1, <2>2
        <5>2. \A j \in DOMAIN localMsgQueue[v] : localMsgQueue[v][j].dest = v
          BY <2>1
        <5> HIDE DEF TypeOK, RightVm, OneOwner, NoLostWakeup, ExclusiveVm
        <5>3. QED
          BY <2>0, <2>1, <4>1, <5>1, <5>2, AppendFifo
      <4>2. CASE u # v
        BY <2>1, <2>2, <4>2
      <4>3. QED
        BY <4>1, <4>2
    <3>2. QED
      BY <2>2, <3>1
  <2> HIDE DEF TypeOK, OneOwner, NoLostWakeup, ExclusiveVm, RightVm
  <2>6. QED
    BY <1>0, <2>3, <2>4, <2>5
<1>5. CASE IoNoLvm
  BY <1>0, <1>5 DEF IoNoLvm, IoReady, mapVars, lvmVars, workVars
<1>6. CASE AddToGlobal
  <2>1. /\ ioVm \in LvmIds /\ ioVm' = NoVm
        /\ globalMsgQueue' = Append(globalMsgQueue, ioVm)
        /\ UNCHANGED <<ioMsg, localMsgQueue, in_global, wVm, wMsg>>
    BY <1>6 DEF AddToGlobal, lvmVars, workVars
  <2>2. OneOwner'
    <3>1. \A u \in LvmIds : Queued(u)' <=> Queued(u) \/ u = ioVm
      <4>1. globalMsgQueue \in Seq(LvmIds)
        OBVIOUS
      <4> HIDE DEF TypeOK, RightVm, OneOwner, NoLostWakeup, ExclusiveVm
      <4>2. QED
        BY <2>1, <4>1, AppendFifo
    <3>2. ~Queued(ioVm) /\ ~Held(ioVm)
      BY <2>1
    <3>3. \A i, j \in DOMAIN globalMsgQueue' :
            globalMsgQueue'[i] = globalMsgQueue'[j] => i = j
      <4>1. globalMsgQueue \in Seq(LvmIds) /\ \A i \in DOMAIN globalMsgQueue : globalMsgQueue[i] # ioVm
        BY <3>2
      <4>2. \A i, j \in DOMAIN globalMsgQueue : globalMsgQueue[i] = globalMsgQueue[j] => i = j
        OBVIOUS
      <4> HIDE DEF TypeOK, RightVm, OneOwner, NoLostWakeup, ExclusiveVm
      <4>3. QED
        BY <2>1, <4>1, <4>2, AppendFifo
    <3>4. \A u \in LvmIds : Held(u)' <=> Held(u)
      BY <2>1
    <3>5. \A u \in LvmIds : Queued(u)' => ioVm' # u /\ ~Held(u)'
      <4>1. \A u \in LvmIds : Queued(u) => ~Held(u)
        OBVIOUS
      <4> HIDE DEF TypeOK, RightVm, OneOwner, NoLostWakeup, ExclusiveVm, Queued, Held
      <4>2. QED
        BY <2>1, <3>1, <3>2, <3>4, <4>1
    <3>6. \A w \in Workers : wVm'[w] # NoVm => ioVm' # wVm'[w]
      BY <2>1
    <3>7. \A u \in LvmIds : in_global'[u] = 1 <=> ioVm' = u \/ Queued(u)' \/ Held(u)'
      <4>1. \A u \in LvmIds : in_global[u] = 1 <=> ioVm = u \/ Queued(u) \/ Held(u)
        OBVIOUS
      <4> HIDE DEF TypeOK, RightVm, OneOwner, NoLostWakeup, ExclusiveVm, Queued, Held
      <4>2. QED
        BY <2>1, <3>1, <3>4, <4>1
    <3>8. QED
      BY <3>3, <3>5, <3>6, <3>7
  <2>3. NoLostWakeup' /\ ExclusiveVm' /\ RightVm'
    BY <2>1
  <2> HIDE DEF TypeOK, OneOwner, NoLostWakeup, ExclusiveVm, RightVm
  <2>4. QED
    BY <1>0, <2>2, <2>3
<1>7. ASSUME NEW ok \in BOOLEAN, CreateLvm(ok) PROVE IInv'
  BY <1>0, <1>7 DEF CreateLvm, ioVars, lvmVars, workVars
<1>8. ASSUME NEW id \in Vms, RemoveLvm(id) PROVE IInv'
  BY <1>0, <1>8 DEF RemoveLvm, ioVars, lvmVars, workVars
<1>9. ASSUME NEW w \in Workers, NextGlobal(w) PROVE IInv'
  <2> DEFINE v == Head(globalMsgQueue)
  <2>1. /\ wVm[w] = NoVm /\ globalMsgQueue # <<>>
        /\ wVm' = [wVm EXCEPT ![w] = v]
        /\ globalMsgQueue' = Tail(globalMsgQueue)
        /\ UNCHANGED <<ioMsg, ioVm, localMsgQueue, in_global, wMsg>>
    BY <1>9 DEF NextGlobal, ioVars, lvmVars
  <2>2. v \in LvmIds /\ v = globalMsgQueue[1] /\ 1 \in DOMAIN globalMsgQueue
    BY <2>1, TailFifo
  <2>3. \A u \in LvmIds : Queued(u)' <=> Queued(u) /\ u # v
    <3>1. globalMsgQueue \in Seq(LvmIds)
      OBVIOUS
    <3>2. \A i, j \in DOMAIN globalMsgQueue : globalMsgQueue[i] = globalMsgQueue[j] => i = j
      OBVIOUS
    <3> HIDE DEF TypeOK, RightVm, OneOwner, NoLostWakeup, ExclusiveVm, v
    <3>3. SUFFICES ASSUME NEW u \in LvmIds PROVE Queued(u)' <=> Queued(u) /\ u # v
      OBVIOUS
    <3>4. ASSUME Queued(u)' PROVE Queued(u) /\ u # v
      <4>1. PICK i \in DOMAIN Tail(globalMsgQueue) : Tail(globalMsgQueue)[i] = u
        BY <2>1, <3>4
      <4>2. i + 1 \in DOMAIN globalMsgQueue /\ globalMsgQueue[i + 1] = u /\ i + 1 # 1
        BY <2>1, <3>1, <4>1, TailFifo
      <4>3. QED
        BY <2>2, <3>2, <4>2
    <3>5. ASSUME Queued(u), u # v PROVE Queued(u)'
      <4>1. PICK i \in DOMAIN globalMsgQueue : globalMsgQueue[i] = u
        BY <3>5
      <4>2. i # 1
        BY <2>2, <3>5, <4>1
      <4>3. i - 1 \in DOMAIN Tail(globalMsgQueue) /\ Tail(globalMsgQueue)[i - 1] = u
        BY <2>1, <3>1, <4>1, <4>2
      <4>4. QED
        BY <2>1, <4>3
    <3>6. QED
      BY <3>4, <3>5
  <2>4. \A u \in LvmIds : Held(u)' <=> Held(u) \/ u = v
    BY <2>1, <2>2
  <2>5. Queued(v)
    BY <2>2
  <2>6. OneOwner'
    <3>1. \A i, j \in DOMAIN globalMsgQueue' :
            globalMsgQueue'[i] = globalMsgQueue'[j] => i = j
      BY <2>1, TailFifo
    <3>2. \A u \in LvmIds : Queued(u)' => ioVm' # u /\ ~Held(u)'
      BY <2>1, <2>3, <2>4
    <3>3. \A x \in Workers : wVm'[x] # NoVm => ioVm' # wVm'[x]
      BY <2>1, <2>2, <2>5
    <3>4. \A u \in LvmIds : in_global'[u] = 1 <=> ioVm' = u \/ Queued(u)' \/ Held(u)'
      BY <2>1, <2>2, <2>3, <2>4, <2>5
    <3>5. QED
      BY <3>1, <3>2, <3>3, <3>4
  <2>7. NoLostWakeup' /\ ExclusiveVm'
    <3>1. ~Held(v)
      BY <2>2, <2>5
    <3>2. NoLostWakeup'
      BY <2>1
    <3>3. QED
      BY <2>1, <3>1, <3>2
  <2>8. RightVm'
    <3>1. wMsg[w] = NoMsg
      <4>1. wMsg[w] # NoMsg => wMsg[w].dest \in Vms /\ wVm[w] = wMsg[w].dest
        BY DEF Msgs
      <4>2. QED
        BY <2>1, <4>1
    <3>2. QED
      BY <2>1, <3>1
  <2> HIDE DEF TypeOK, OneOwner, NoLostWakeup, ExclusiveVm, RightVm
  <2>9. QED
    BY <1>0, <2>6, <2>7, <2>8
<1>10. ASSUME NEW w \in Workers, GetMsg(w) PROVE IInv'
  <2> DEFINE v == wVm[w]
  <2>1. /\ v \in LvmIds /\ wMsg[w] = NoMsg /\ localMsgQueue[v] # <<>>
        /\ localMsgQueue[v] \in Seq(Msgs)
        /\ wMsg' = [wMsg EXCEPT ![w] = Head(localMsgQueue[v])]
        /\ localMsgQueue' = [localMsgQueue EXCEPT ![v] = Tail(@)]
        /\ UNCHANGED <<ioMsg, ioVm, in_global, globalMsgQueue, wVm>>
    BY <1>10 DEF GetMsg, ioVars
  <2>2. OneOwner' /\ ExclusiveVm'
    BY <2>1
  <2>3. NoLostWakeup'
    BY <2>1
  <2>4. RightVm'
    BY <2>1, TailFifo
  <2> HIDE DEF TypeOK, OneOwner, NoLostWakeup, ExclusiveVm, RightVm
  <2>5. QED
    BY <1>0, <2>2, <2>3, <2>4
<1>11. ASSUME NEW w \in Workers, GetMsgNull(w) PROVE IInv'
  <2> DEFINE v == wVm[w]
  <2>1. /\ v \in LvmIds /\ wMsg[w] = NoMsg /\ localMsgQueue[v] = <<>>
        /\ in_global' = [in_global EXCEPT ![v] = 0]
        /\ wVm' = [wVm EXCEPT ![w] = NoVm]
        /\ UNCHANGED <<ioMsg, ioVm, localMsgQueue, globalMsgQueue, wMsg>>
    BY <1>11 DEF GetMsgNull, ioVars
  <2>2. \A u \in LvmIds : Held(u)' <=> Held(u) /\ u # v
    BY <2>1
  <2>3. OneOwner'
    <3>1. \A u \in LvmIds : Queued(u)' <=> Queued(u)
      BY <2>1
    <3>2. Held(v) /\ ~Queued(v) /\ ioVm # v
      BY <2>1
    <3>3. \A u \in LvmIds : Queued(u)' => ioVm' # u /\ ~Held(u)'
      BY <2>1, <2>2, <3>1
    <3>4. \A x \in Workers : wVm'[x] # NoVm => ioVm' # wVm'[x]
      BY <2>1
    <3>5. \A u \in LvmIds : in_global'[u] = 1 <=> ioVm' = u \/ Queued(u)' \/ Held(u)'
      <4>1. \A u \in LvmIds : in_global'[u] = IF u = v THEN 0 ELSE in_global[u]
        BY <2>1
      <4>2. \A u \in LvmIds : in_global[u] = 1 <=> ioVm = u \/ Queued(u) \/ Held(u)
        OBVIOUS
      <4> HIDE DEF TypeOK, RightVm, OneOwner, NoLostWakeup, ExclusiveVm, Queued, Held
      <4>3. QED
        BY <2>1, <2>2, <3>1, <3>2, <4>1, <4>2
    <3>6. QED
      BY <2>1, <3>3, <3>4, <3>5
  <2>4. NoLostWakeup' /\ ExclusiveVm' /\ RightVm'
    BY <2>1
  <2> HIDE DEF TypeOK, OneOwner, NoLostWakeup, ExclusiveVm, RightVm
  <2>5. QED
    BY <1>0, <2>3, <2>4
<1>12. ASSUME NEW w \in Workers, DispatchEnd(w) PROVE IInv'
  BY <1>0, <1>12 DEF DispatchEnd, ioVars, mapVars, lvmVars
<1>13. CASE UNCHANGED vars
  BY <1>0, <1>13 DEF vars, ioVars, mapVars, lvmVars, workVars
<1>14. QED
  BY <1>1, <1>2, <1>3, <1>4, <1>5, <1>6, <1>7, <1>8, <1>9, <1>10, <1>11, <1>12, <1>13
  DEF Next, IoStep, WorkerStep

LEMMA OwnerInit == Init => IInv
BY Sentinels DEF Init, IInv, TypeOK, OneOwner, NoLostWakeup, ExclusiveVm, RightVm, Queued, Held, Vms

THEOREM Ownership == Spec => []IInv
BY OwnerInit, OwnerStep, PTL DEF Spec

\* The in_global flag never disagrees with the place a machine is in, so no
\* wake-up is lost or doubled by the unlock between AddMsg and AddToGlobal.
THEOREM OneOwnerAlways == Spec => []OneOwner
<1>1. IInv => OneOwner
  BY DEF IInv
<1>2. QED
  BY <1>1, Ownership, PTL

\* A machine with waiting messages is always on its way to a worker.
THEOREM NoLostWakeupAlways == Spec => []NoLostWakeup
<1>1. IInv => NoLostWakeup
  BY DEF IInv
<1>2. QED
  BY <1>1, Ownership, PTL

\* However many workers ProcessMsg is started on, no lua_State is entered by
\* two of them.
THEOREM ExclusiveAlways == Spec => []ExclusiveVm
<1>1. IInv => ExclusiveVm
  BY DEF IInv
<1>2. QED
  BY <1>1, Ownership, PTL

\* Messages wait for and are handled by the machine they are addressed to.
THEOREM RightVmAlways == Spec => []RightVm
<1>1. IInv => RightVm
  BY DEF IInv
<1>2. QED
  BY <1>1, Ownership, PTL

\* A machine that is destroyed has an empty localMsgQueue.
THEOREM DrainedAlways == Spec => []DestroyedIsDrained
<1>1. IInv => DestroyedIsDrained
  BY DEF IInv, OneOwner, NoLostWakeup, DestroyedIsDrained
<1>2. QED
  BY <1>1, Ownership, PTL

-----------------------------------------------------------------------------
\* An id is registered at most once: _gen_id only grows and stays above them.
THEOREM FreshIdsAlways == Spec => []FreshIds
<1>1. Init => FreshIds
  BY DEF Init, FreshIds, MainVm, LoginVm
<1>2. TypeOK /\ FreshIds /\ [Next]_vars => FreshIds'
  <2> SUFFICES ASSUME TypeOK, FreshIds, [Next]_vars PROVE FreshIds'
    OBVIOUS
  <2>1. gen_id \in Nat /\ \A v \in mapLvm : v \in Nat
    BY LvmMgrAssumption DEF TypeOK, Vms, LvmIds, MainVm
  <2>2. ASSUME NEW ok \in BOOLEAN, CreateLvm(ok) PROVE FreshIds'
    BY <2>1, <2>2 DEF CreateLvm, FreshIds
  <2>3. ASSUME NEW id \in Vms, RemoveLvm(id) PROVE FreshIds'
    BY <2>3 DEF RemoveLvm, FreshIds
  <2>4. CASE UNCHANGED mapVars
    BY <2>4 DEF mapVars, FreshIds
  <2>5. QED
    BY <2>2, <2>3, <2>4
    DEF Next, IoStep, WorkerStep, PostMsg, IoDispatchMain, IoDispatchEnd, IoAddMsg, IoNoLvm,
        AddToGlobal, NextGlobal, GetMsg, GetMsgNull, DispatchEnd, vars
<1>3. QED
  BY <1>1, <1>2, TypeCorrect, PTL DEF Spec

-----------------------------------------------------------------------------
(* LvmMgr implements VmActors *)

\* What the refinement mapping makes of a machine: the main machine runs what
\* the io thread runs, another one what the worker that holds it runs.
LEMMA RunningFacts ==
    ASSUME NEW main \in Msgs \cup {NoMsg},
           NEW vm \in [Workers -> LvmIds \cup {NoVm}],
           NEW msg \in [Workers -> Msgs \cup {NoMsg}],
           \A w1, w2 \in Workers : vm[w1] = vm[w2] /\ vm[w1] # NoVm => w1 = w2
    PROVE  /\ RunningOf(main, vm, msg) = [v \in Vms |-> RunningOf(main, vm, msg)[v]]
           /\ RunningOf(main, vm, msg)[MainVm] = main
           /\ \A w \in Workers : vm[w] # NoVm => RunningOf(main, vm, msg)[vm[w]] = msg[w]
           /\ \A v \in LvmIds :
                 (\A w \in Workers : vm[w] # v) => RunningOf(main, vm, msg)[v] = NoMsg
<1> DEFINE R == RunningOf(main, vm, msg)
<1>1. R = [v \in Vms |-> R[v]] /\ R[MainVm] = main
  BY DEF RunningOf, Vms
<1>2. ASSUME NEW w \in Workers, vm[w] # NoVm PROVE R[vm[w]] = msg[w]
  <2>1. vm[w] \in LvmIds /\ vm[w] \in Vms /\ vm[w] # MainVm
    BY <1>2, Sentinels DEF Vms
  <2>2. (CHOOSE x \in Workers : vm[x] = vm[w]) = w
    BY <1>2
  <2>3. QED
    BY <2>1, <2>2 DEF RunningOf
<1>3. ASSUME NEW v \in LvmIds, \A w \in Workers : vm[w] # v PROVE R[v] = NoMsg
  BY <1>3, Sentinels DEF RunningOf, Vms
<1>4. QED
  BY <1>1, <1>2, <1>3

LEMMA RunningBefore ==
    ASSUME IInv
    PROVE  /\ Running = [v \in Vms |-> Running[v]]
           /\ Running[MainVm] = ioMsg
           /\ \A w \in Workers : wVm[w] # NoVm => Running[wVm[w]] = wMsg[w]
           /\ \A v \in LvmIds : (\A w \in Workers : wVm[w] # v) => Running[v] = NoMsg
<1>1. /\ ioMsg \in Msgs \cup {NoMsg}
      /\ wVm \in [Workers -> LvmIds \cup {NoVm}]
      /\ wMsg \in [Workers -> Msgs \cup {NoMsg}]
      /\ \A w1, w2 \in Workers : wVm[w1] = wVm[w2] /\ wVm[w1] # NoVm => w1 = w2
  BY DEF IInv, TypeOK, ExclusiveVm
<1>2. QED
  BY <1>1, RunningFacts DEF Running

LEMMA RunningAfter ==
    ASSUME IInv'
    PROVE  /\ Running' = [v \in Vms |-> Running'[v]]
           /\ Running'[MainVm] = ioMsg'
           /\ \A w \in Workers : wVm'[w] # NoVm => Running'[wVm'[w]] = wMsg'[w]
           /\ \A v \in LvmIds : (\A w \in Workers : wVm'[w] # v) => Running'[v] = NoMsg
<1>1. /\ ioMsg' \in Msgs \cup {NoMsg}
      /\ wVm' \in [Workers -> LvmIds \cup {NoVm}]
      /\ wMsg' \in [Workers -> Msgs \cup {NoMsg}]
      /\ \A w1, w2 \in Workers : wVm'[w1] = wVm'[w2] /\ wVm'[w1] # NoVm => w1 = w2
  BY DEF IInv, TypeOK, ExclusiveVm
<1>2. QED
  BY <1>1, RunningFacts DEF Running

\* Every step of the threads is a step of the actors, or invisible to them.
LEMMA ActorStep == IInv /\ IInv' /\ FreshIds /\ [Next]_vars => [Actors!Next]_(Actors!vars)
<1> SUFFICES ASSUME IInv, IInv', FreshIds, [Next]_vars PROVE [Actors!Next]_(Actors!vars)
  OBVIOUS
<1> USE DEF Actors!vars, ioVars, mapVars, lvmVars, workVars
<1>a. /\ Actors!Vms = Vms /\ Actors!LvmIds = LvmIds /\ Actors!Msgs = Msgs
      /\ Actors!MainVm = MainVm
  BY DEF Actors!Vms, Actors!LvmIds, Actors!Msgs, Actors!MainVm, Vms, LvmIds, Msgs, MainVm
<1>b. TypeOK /\ TypeOK'
  BY DEF IInv
<1>c. UNCHANGED <<ioMsg, wVm, wMsg>> => Running' = Running
  BY DEF Running
<1>1. ASSUME NEW m \in Msgs, PostMsg(m) PROVE Actors!Send(m)
  BY <1>1, <1>c DEF PostMsg, Actors!Send
<1>2. CASE IoDispatchMain
  <2>1. \A v \in Vms : Running'[v] = IF v = MainVm THEN Head(ioQueue) ELSE Running[v]
    BY <1>2, Sentinels DEF IoDispatchMain, Running, RunningOf
  <2>2. Running' = [Running EXCEPT ![MainVm] = Head(ioQueue)]
    BY <2>1, RunningBefore, RunningAfter
  <2>3. Actors!BeginMain
    BY <1>2, <1>a, <2>2, RunningBefore
    DEF IoDispatchMain, IoReady, Actors!BeginMain, Actors!Routable
  <2>4. QED
    BY <2>3 DEF Actors!Next
<1>3. CASE IoDispatchEnd
  <2>1. \A v \in Vms : Running'[v] = IF v = MainVm THEN NoMsg ELSE Running[v]
    BY <1>3 DEF IoDispatchEnd, Running, RunningOf
  <2>2. Running' = [Running EXCEPT ![MainVm] = NoMsg]
    BY <2>1, RunningBefore, RunningAfter
  <2>3. Actors!End(MainVm)
    BY <1>3, <2>2, RunningBefore DEF IoDispatchEnd, Actors!End
  <2>4. QED
    BY <1>a, <2>3 DEF Actors!Next, Vms
<1>4. CASE IoAddMsg
  <2>1. Actors!Deliver
    BY <1>4, <1>a, <1>c, RunningBefore
    DEF IoAddMsg, IoReady, AddMsg, Actors!Deliver, Actors!Routable
  <2>2. QED
    BY <2>1 DEF Actors!Next
<1>5. CASE IoNoLvm
  <2>1. Actors!Lose
    BY <1>5, <1>a, <1>c, RunningBefore DEF IoNoLvm, IoReady, Actors!Lose, Actors!Routable
  <2>2. QED
    BY <2>1 DEF Actors!Next
<1>6. CASE AddToGlobal
  BY <1>6, <1>c DEF AddToGlobal
<1>7. ASSUME NEW ok \in BOOLEAN, CreateLvm(ok) PROVE [Actors!Next]_(Actors!vars)
  <2>1. gen_id' \in LvmIds /\ gen_id' \notin mapLvm
    BY <1>7, <1>b, LvmMgrAssumption DEF CreateLvm, FreshIds, TypeOK, Vms, LvmIds, MainVm
  <2>2. CASE ok
    <3>1. Actors!Register(gen_id')
      BY <1>7, <1>a, <1>c, <2>1, <2>2, RunningBefore DEF CreateLvm, Actors!Register
    <3>2. QED
      BY <1>a, <2>1, <3>1 DEF Actors!Next, Vms
  <2>3. CASE ~ok
    BY <1>7, <1>c, <2>3 DEF CreateLvm
  <2>4. QED
    BY <2>2, <2>3
<1>8. ASSUME NEW id \in Vms, RemoveLvm(id) PROVE Actors!Remove(id)
  BY <1>8, <1>a, <1>c, RunningBefore DEF RemoveLvm, Actors!Remove
<1>9. ASSUME NEW w \in Workers, NextGlobal(w) PROVE UNCHANGED Actors!vars
  <2> DEFINE u == Head(globalMsgQueue)
  <2>1. /\ wVm[w] = NoVm /\ wVm' = [wVm EXCEPT ![w] = u]
        /\ UNCHANGED <<ioQueue, ioMsg, mapLvm, localMsgQueue, wMsg>>
    BY <1>9 DEF NextGlobal
  <2>2. u \in LvmIds /\ Queued(u)
    BY <1>9, <1>b, TailFifo DEF NextGlobal, TypeOK, Queued
  <2>3. \A x \in Workers : wVm[x] # u
    BY <2>2 DEF IInv, OneOwner, Held
  <2>4. wMsg[w] = NoMsg
    <3>1. wMsg[w] # NoMsg => wMsg[w].dest \in Vms /\ wVm[w] = wMsg[w].dest
      BY <1>b DEF IInv, RightVm, TypeOK, Msgs
    <3>2. QED
      BY <2>1, <3>1, Sentinels
  <2>5. ASSUME NEW v \in Vms PROVE Running'[v] = Running[v]
    <3>1. CASE v = MainVm
      BY <2>1, <3>1, RunningBefore, RunningAfter
    <3>2. CASE v = u
      <4>1. wVm'[w] = u /\ u # NoVm
        BY <1>b, <2>1, <2>2, Sentinels DEF TypeOK
      <4>2. QED
        BY <2>1, <2>2, <2>3, <2>4, <3>2, <4>1, RunningBefore, RunningAfter
    <3>3. ASSUME v # MainVm, v # u, NEW x \in Workers, wVm[x] = v PROVE Running'[v] = Running[v]
      <4>1. wVm'[x] = v /\ v # NoVm
        BY <1>b, <2>1, <3>3, Sentinels DEF TypeOK
      <4>2. QED
        BY <2>1, <3>3, <4>1, RunningBefore, RunningAfter
    <3>4. ASSUME v # MainVm, v # u, \A x \in Workers : wVm[x] # v PROVE Running'[v] = Running[v]
      <4>1. v \in LvmIds /\ \A x \in Workers : wVm'[x] # v
        BY <1>b, <2>1, <3>4 DEF TypeOK, Vms
      <4>2. QED
        BY <3>4, <4>1, RunningBefore, RunningAfter
    <3>5. QED
      BY <3>1, <3>2, <3>3, <3>4
  <2>6. QED
    BY <2>1, <2>5, RunningBefore, RunningAfter
<1>10. ASSUME NEW w \in Workers, GetMsg(w) PROVE Actors!Begin(wVm[w]) /\ wVm[w] \in LvmIds
  <2> DEFINE u == wVm[w]
             m == Head(localMsgQueue[u])
  <2>1. /\ u \in LvmIds /\ u # NoVm /\ u # MainVm /\ wMsg[w] = NoMsg /\ localMsgQueue[u] # <<>>
        /\ localMsgQueue' = [localMsgQueue EXCEPT ![u] = Tail(@)]
        /\ wMsg' = [wMsg EXCEPT ![w] = m]
        /\ UNCHANGED <<ioQueue, ioMsg, mapLvm, wVm>>
    BY <1>10, <1>b, Sentinels DEF GetMsg, TypeOK
  <2>2. wMsg'[w] = m /\ \A x \in Workers \ {w} : wMsg'[x] = wMsg[x] /\ wVm[x] # u
    BY <1>b, <2>1 DEF TypeOK, IInv, ExclusiveVm
  <2> HIDE DEF m, u
  <2>3. ASSUME NEW v \in Vms PROVE Running'[v] = IF v = u THEN m ELSE Running[v]
    <3>1. CASE v = MainVm
      BY <2>1, <3>1, RunningBefore, RunningAfter
    <3>2. CASE v = u
      BY <2>1, <2>2, <3>2, RunningAfter DEF u
    <3>3. ASSUME v # MainVm, v # u, NEW x \in Workers, wVm[x] = v PROVE Running'[v] = Running[v]
      <4>1. x # w /\ wVm'[x] = v /\ v # NoVm
        BY <2>1, <3>3, Sentinels DEF u
      <4>2. QED
        BY <2>1, <2>2, <3>3, <4>1, RunningBefore, RunningAfter
    <3>4. ASSUME v # MainVm, v # u, \A x \in Workers : wVm[x] # v PROVE Running'[v] = Running[v]
      <4>1. v \in LvmIds /\ \A x \in Workers : wVm'[x] # v
        BY <2>1, <3>4 DEF Vms
      <4>2. QED
        BY <3>4, <4>1, RunningBefore, RunningAfter
    <3>5. QED
      BY <2>1, <3>1, <3>2, <3>3, <3>4
  <2>4. Running' = [Running EXCEPT ![u] = m]
    BY <2>3, RunningBefore, RunningAfter
  <2>5. Running[u] = NoMsg
    BY <2>1, RunningBefore DEF u
  <2>6. QED
    BY <2>1, <2>4, <2>5 DEF Actors!Begin, u, m
<1>11. ASSUME NEW w \in Workers, GetMsgNull(w) PROVE UNCHANGED Actors!vars
  <2> DEFINE u == wVm[w]
  <2>1. /\ u \in LvmIds /\ u # NoVm /\ u # MainVm /\ wMsg[w] = NoMsg
        /\ wVm' = [wVm EXCEPT ![w] = NoVm]
        /\ UNCHANGED <<ioQueue, ioMsg, mapLvm, localMsgQueue, wMsg>>
    BY <1>11, <1>b, Sentinels DEF GetMsgNull, TypeOK
  <2>2. wVm'[w] = NoVm /\ \A x \in Workers \ {w} : wVm'[x] = wVm[x] /\ wVm[x] # u
    BY <1>b, <2>1 DEF TypeOK, IInv, ExclusiveVm
  <2> HIDE DEF u
  <2>3. ASSUME NEW v \in Vms PROVE Running'[v] = Running[v]
    <3>1. CASE v = MainVm
      BY <2>1, <3>1, RunningBefore, RunningAfter
    <3>2. CASE v = u
      <4>1. \A x \in Workers : wVm'[x] # u
        BY <2>1, <2>2
      <4>2. Running[u] = NoMsg
        BY <2>1, RunningBefore DEF u
      <4>3. QED
        BY <2>1, <3>2, <4>1, <4>2, RunningAfter
    <3>3. ASSUME v # MainVm, v # u, NEW x \in Workers, wVm[x] = v PROVE Running'[v] = Running[v]
      <4>1. x # w /\ wVm'[x] = v /\ v # NoVm
        BY <2>2, <3>3, Sentinels DEF u
      <4>2. QED
        BY <2>1, <3>3, <4>1, RunningBefore, RunningAfter
    <3>4. ASSUME v # MainVm, v # u, \A x \in Workers : wVm[x] # v PROVE Running'[v] = Running[v]
      <4>1. v \in LvmIds /\ \A x \in Workers : wVm'[x] # v
        BY <2>2, <3>4, Sentinels DEF Vms
      <4>2. QED
        BY <3>4, <4>1, RunningBefore, RunningAfter
    <3>5. QED
      BY <3>1, <3>2, <3>3, <3>4
  <2>4. QED
    BY <2>1, <2>3, RunningBefore, RunningAfter
<1>12. ASSUME NEW w \in Workers, DispatchEnd(w) PROVE Actors!End(wVm[w]) /\ wVm[w] \in Vms
  <2> DEFINE u == wVm[w]
  <2>1. /\ wMsg[w] # NoMsg /\ wMsg' = [wMsg EXCEPT ![w] = NoMsg]
        /\ UNCHANGED <<ioQueue, ioMsg, mapLvm, localMsgQueue, wVm>>
    BY <1>12 DEF DispatchEnd
  <2>2. u \in LvmIds /\ u # NoVm /\ u # MainVm
    <3>1. wMsg[w].dest \in Vms /\ u = wMsg[w].dest
      BY <1>b, <2>1 DEF IInv, RightVm, TypeOK, Msgs
    <3>2. QED
      BY <1>b, <3>1, Sentinels DEF TypeOK
  <2>3. wMsg'[w] = NoMsg /\ \A x \in Workers \ {w} : wMsg'[x] = wMsg[x] /\ wVm[x] # u
    BY <1>b, <2>1, <2>2 DEF TypeOK, IInv, ExclusiveVm
  <2> HIDE DEF u
  <2>4. ASSUME NEW v \in Vms PROVE Running'[v] = IF v = u THEN NoMsg ELSE Running[v]
    <3>1. CASE v = MainVm
      BY <2>1, <2>2, <3>1, RunningBefore, RunningAfter
    <3>2. CASE v = u
      BY <2>1, <2>2, <2>3, <3>2, RunningAfter DEF u
    <3>3. ASSUME v # MainVm, v # u, NEW x \in Workers, wVm[x] = v PROVE Running'[v] = Running[v]
      <4>1. x # w /\ wVm'[x] = v /\ v # NoVm
        BY <2>1, <3>3, Sentinels DEF u
      <4>2. QED
        BY <2>3, <3>3, <4>1, RunningBefore, RunningAfter
    <3>4. ASSUME v # MainVm, v # u, \A x \in Workers : wVm[x] # v PROVE Running'[v] = Running[v]
      <4>1. v \in LvmIds /\ \A x \in Workers : wVm'[x] # v
        BY <2>1, <3>4 DEF Vms
      <4>2. QED
        BY <3>4, <4>1, RunningBefore, RunningAfter
    <3>5. QED
      BY <3>1, <3>2, <3>3, <3>4
  <2>5. Running' = [Running EXCEPT ![u] = NoMsg]
    BY <2>4, RunningBefore, RunningAfter
  <2>6. Running[u] # NoMsg /\ u \in Vms
    BY <2>1, <2>2, RunningBefore DEF u, Vms
  <2>7. QED
    BY <2>1, <2>5, <2>6 DEF Actors!End, u
<1>13. CASE UNCHANGED vars
  BY <1>13, <1>c DEF vars
<1>14. QED
  BY <1>1, <1>2, <1>3, <1>4, <1>5, <1>6, <1>7, <1>8, <1>9, <1>10, <1>11, <1>12, <1>13, <1>a
  DEF Next, IoStep, WorkerStep, Actors!Next

\* The threads, the run queue and the in_global flag of lvm.cpp implement
\* sequential actors with FIFO inboxes, whatever the number of workers.
THEOREM Refinement == Spec => ActorSpec
<1>1. Init => Actors!Init
  <2> SUFFICES ASSUME Init PROVE Actors!Init
    OBVIOUS
  <2>1. IInv
    BY OwnerInit
  <2>2. \A w \in Workers : wVm[w] = NoVm
    BY DEF Init
  <2>3. \A v \in Vms : Running[v] = NoMsg
    BY <2>1, <2>2, RunningBefore, Sentinels DEF Init, Vms
  <2>4. Running = [v \in Vms |-> NoMsg]
    BY <2>1, <2>3, RunningBefore
  <2>5. QED
    BY <2>1, <2>4
    DEF Init, IInv, TypeOK, Actors!Init, Actors!Vms, Actors!LvmIds, Actors!MainVm, Vms, LvmIds, MainVm
<1>2. QED
  BY <1>1, ActorStep, Ownership, FreshIdsAlways, PTL DEF Spec, ActorSpec, Actors!Spec

-----------------------------------------------------------------------------
(* LVM::Dispatch pushes within the stack array: for any limit of the stack, *)
(* any reserve and whatever the scripts' functions need.                    *)

CONSTANTS MaxStack, ErrorExtra, Frames
VARIABLES phase, top, func, size

Stack == INSTANCE LuaStack

StackTypes ==
    /\ phase \in {"idle", "pushed", "running", "failed"}
    /\ top \in Nat /\ func \in Nat /\ size \in Nat

\* The stack has a size Lua gives it on purpose, or the one for errors.
StackRegular == size <= MaxStack \/ size = MaxStack + ErrorExtra

\* Below the limit there is always the room of EXTRA_STACK above the values
\* that are left, which is what Dispatch pushes without asking.
StackRoom ==
    size <= MaxStack =>
        /\ phase = "idle" => top + Stack!EXTRA_STACK <= size
        /\ phase = "pushed" => func + Stack!EXTRA_STACK <= size
        /\ phase = "running" => top + Stack!EXTRA_STACK <= size
        /\ phase = "failed" => func + 1 + Stack!EXTRA_STACK <= size

\* The result never lands above what is in use.
StackAbove ==
    /\ phase = "pushed" => func + 4 <= top /\ top <= func + 5
    /\ phase = "running" => func + 1 <= top

StackInv == StackTypes /\ StackRegular /\ StackRoom /\ StackAbove

\* What shrinking keeps: the stack is left as it is, or has a size below the
\* limit with more than EXTRA_STACK slots above what is in use.
LEMMA ShrunkKeeps ==
    ASSUME MaxStack \in Nat, size \in Nat, NEW t \in Nat
    PROVE  /\ Stack!Shrunk(t) \in Nat
           /\ Stack!Shrunk(t) = size \/ (Stack!Shrunk(t) <= MaxStack /\ t + Stack!EXTRA_STACK + 1 <= Stack!Shrunk(t))
<1>1. Stack!InUse(t) \in Nat /\ t + 1 <= Stack!InUse(t)
  BY DEF Stack!InUse, Stack!BaseTop
<1>2. Stack!InUse(t) \div 8 \in Nat
  <2>1. \A k \in Nat : k \div 8 \in Nat
    BY SMT
  <2> QED BY <1>1, <2>1
<1>3. Stack!GoodSize(t) \in Nat /\ Stack!GoodSize(t) <= MaxStack
  BY <1>1, <1>2 DEF Stack!GoodSize, Stack!Least, Stack!EXTRA_STACK
<1>4. Stack!InUse(t) <= MaxStack - Stack!EXTRA_STACK => t + Stack!EXTRA_STACK + 1 <= Stack!GoodSize(t)
  BY <1>1, <1>2 DEF Stack!GoodSize, Stack!Least, Stack!EXTRA_STACK
<1> QED BY <1>3, <1>4 DEF Stack!Shrunk

\* A stack that is grown has room for the function, and EXTRA_STACK above it.
LEMMA NewSizeRoom ==
    ASSUME MaxStack \in Nat, size \in Nat, top \in Nat, NEW n \in Nat
    PROVE  Stack!NewSize(n) \in Nat /\ top + n + Stack!EXTRA_STACK <= Stack!NewSize(n)
BY DEF Stack!NewSize, Stack!Least, Stack!EXTRA_STACK

LEMMA StackInit ==
    ASSUME MaxStack \in Nat, Stack!BASIC_STACK_SIZE <= MaxStack, Stack!Init
    PROVE  StackInv
<1>1. Stack!InUse(1) = 22
  BY DEF Stack!InUse, Stack!BaseTop
<1>2. Stack!GoodSize(1) \in Nat /\ 6 <= Stack!GoodSize(1)
  BY <1>1 DEF Stack!GoodSize, Stack!Least, Stack!BASIC_STACK_SIZE, Stack!EXTRA_STACK
<1>3. size \in Nat /\ 6 <= size /\ size <= MaxStack
  BY <1>2 DEF Stack!Init, Stack!BASIC_STACK_SIZE
<1> QED
  BY <1>3 DEF Stack!Init, StackInv, StackTypes, StackRegular, StackRoom, StackAbove, Stack!EXTRA_STACK

\* Every step keeps the invariant.
LEMMA StackStep ==
    ASSUME MaxStack \in Nat, ErrorExtra \in Nat \ {0}, Frames \subseteq Nat, StackInv, [Stack!Next]_(Stack!vars)
    PROVE  StackInv'
<1> USE DEF StackInv, StackTypes, StackRegular, StackRoom, StackAbove, Stack!EXTRA_STACK
<1>1. ASSUME NEW values \in {4, 5}, Stack!Dispatch(values) PROVE StackInv'
  BY <1>1 DEF Stack!Dispatch
<1>2. CASE Stack!CollectGarbage
  <2>1. /\ Stack!Shrunk(top) \in Nat
        /\ Stack!Shrunk(top) = size \/ (Stack!Shrunk(top) <= MaxStack /\ top + Stack!EXTRA_STACK + 1 <= Stack!Shrunk(top))
    BY ShrunkKeeps
  <2>2. size' = Stack!Shrunk(top) /\ UNCHANGED <<phase, top, func>> /\ phase \in {"pushed", "running"}
    BY <1>2 DEF Stack!CollectGarbage
  <2> QED BY <2>1, <2>2
<1>3. ASSUME NEW n \in Frames, Stack!Enter(n) PROVE StackInv'
  <2>1. Stack!NewSize(n) \in Nat /\ top + n + Stack!EXTRA_STACK <= Stack!NewSize(n)
    BY NewSizeRoom
  <2>2. n \in Nat
    OBVIOUS
  <2>3. CASE Stack!Fits(n)
    BY <1>3, <2>2, <2>3 DEF Stack!Enter, Stack!Fits
  <2>4. CASE ~Stack!Fits(n)
    <3>1. size' = Stack!NewSize(n) /\ Stack!NewSize(n) <= MaxStack
      BY <1>3, <2>4 DEF Stack!Enter
    <3>2. phase' = "running" /\ top' = top + n /\ func' = func /\ phase \in {"pushed", "running"}
      BY <1>3 DEF Stack!Enter
    <3> QED BY <2>1, <2>2, <3>1, <3>2
  <2> QED BY <2>3, <2>4
<1>4. ASSUME NEW n \in Frames, Stack!Overflow(n) PROVE StackInv'
  BY <1>4 DEF Stack!Overflow
<1>5. ASSUME NEW n \in Frames, Stack!Leave(n) PROVE StackInv'
  <2>1. n \in Nat
    OBVIOUS
  <2> QED BY <1>5, <2>1 DEF Stack!Leave
<1>6. CASE Stack!Raise
  BY <1>6 DEF Stack!Raise
<1>7. CASE Stack!Return
  BY <1>7 DEF Stack!Return
<1>8. CASE Stack!ReturnError
  <2>1. phase = "failed" /\ phase' = "idle" /\ top' = func + 1 /\ func' = func
    BY <1>8 DEF Stack!ReturnError
  <2>2. size' = Stack!Shrunk(func + 1)
    BY <1>8, <2>1 DEF Stack!ReturnError
  <2>3. /\ Stack!Shrunk(func + 1) \in Nat
        /\ \/ Stack!Shrunk(func + 1) = size
           \/ Stack!Shrunk(func + 1) <= MaxStack /\ func + 1 + Stack!EXTRA_STACK + 1 <= Stack!Shrunk(func + 1)
    BY func + 1 \in Nat, ShrunkKeeps
  <2> QED BY <2>1, <2>2, <2>3
<1>9. CASE UNCHANGED Stack!vars
  BY <1>9 DEF Stack!vars
<1> QED
  BY <1>1, <1>2, <1>3, <1>4, <1>5, <1>6, <1>7, <1>8, <1>9 DEF Stack!Next

\* LVM::Dispatch never writes beyond the Lua stack before LUAI_MAXSTACK and
\* the reserve for errors are used up, that is, for about a million messages.
THEOREM PushesFitAlways ==
    ASSUME MaxStack \in Nat, Stack!BASIC_STACK_SIZE <= MaxStack,
           ErrorExtra \in Nat \ {0}, Frames \subseteq Nat
    PROVE  Stack!Spec => []Stack!PushesFit
<1>1. Stack!Init => StackInv
  BY StackInit
<1>2. StackInv /\ [Stack!Next]_(Stack!vars) => StackInv'
  BY StackStep
<1>3. StackInv => Stack!PushesFit
  BY DEF StackInv, StackTypes, StackRegular, StackRoom, StackAbove, Stack!PushesFit, Stack!EXTRA_STACK
<1> QED BY <1>1, <1>2, <1>3, PTL DEF Stack!Spec
=============================================================================
