------------------------------ MODULE VmActors ------------------------------
(***************************************************************************)
(* What LvmMgr promises to the Lua code above it, without its threads,     *)
(* flags and run queue: every Lua virtual machine is an actor.  A message  *)
(* posted with PostMsg joins one global FIFO (transit), is delivered from  *)
(* there to the inbox of its destination if that machine is registered,    *)
(* and each machine handles one message at a time, in the order of its     *)
(* inbox.  The main machine has no inbox: it handles its messages straight *)
(* from the global FIFO, on the thread that serves it.                     *)
(***************************************************************************)
EXTENDS Naturals, Sequences

CONSTANTS MaxVm,   \* highest machine id ever handed out
          Toks,    \* identities that tell apart the messages in flight
          NoMsg    \* "not handling a message"

MainVm == 0
LvmIds == 1 .. MaxVm
Vms    == LvmIds \cup {MainVm}
Msgs   == [dest : Vms, tok : Toks]

VARIABLES transit,   \* messages posted and not yet routed, oldest first
          inbox,     \* per machine, messages routed to it and not yet handled
          running,   \* per machine, the message it is handling, or NoMsg
          live       \* registered machines

vars == <<transit, inbox, running, live>>

Init ==
    /\ transit = <<>>
    /\ inbox = [v \in LvmIds |-> <<>>]
    /\ running = [v \in Vms |-> NoMsg]
    /\ live \in SUBSET Vms

Send(m) ==
    /\ transit' = Append(transit, m)
    /\ UNCHANGED <<inbox, running, live>>

\* Routing stops while the main machine handles a message.
Routable ==
    /\ running[MainVm] = NoMsg
    /\ transit # <<>>

Deliver ==
    LET m == Head(transit) IN
    /\ Routable
    /\ m.dest \in live \ {MainVm}
    /\ inbox' = [inbox EXCEPT ![m.dest] = Append(@, m)]
    /\ transit' = Tail(transit)
    /\ UNCHANGED <<running, live>>

\* Only a message to a machine that is not registered is ever lost.
Lose ==
    /\ Routable
    /\ Head(transit).dest \notin live \cup {MainVm}
    /\ transit' = Tail(transit)
    /\ UNCHANGED <<inbox, running, live>>

BeginMain ==
    /\ Routable
    /\ Head(transit).dest = MainVm
    /\ running' = [running EXCEPT ![MainVm] = Head(transit)]
    /\ transit' = Tail(transit)
    /\ UNCHANGED <<inbox, live>>

Begin(v) ==
    /\ running[v] = NoMsg
    /\ inbox[v] # <<>>
    /\ running' = [running EXCEPT ![v] = Head(inbox[v])]
    /\ inbox' = [inbox EXCEPT ![v] = Tail(@)]
    /\ UNCHANGED <<transit, live>>

End(v) ==
    /\ running[v] # NoMsg
    /\ running' = [running EXCEPT ![v] = NoMsg]
    /\ UNCHANGED <<transit, inbox, live>>

\* Only the main machine registers and removes machines.
Register(v) ==
    /\ running[MainVm] # NoMsg
    /\ v \in LvmIds \ live
    /\ live' = live \cup {v}
    /\ UNCHANGED <<transit, inbox, running>>

Remove(v) ==
    /\ running[MainVm] # NoMsg
    /\ v \in live
    /\ live' = live \ {v}
    /\ UNCHANGED <<transit, inbox, running>>

Next ==
    \/ \E m \in Msgs : Send(m)
    \/ Deliver
    \/ Lose
    \/ BeginMain
    \/ \E v \in LvmIds : Begin(v)
    \/ \E v \in Vms : End(v) \/ Register(v) \/ Remove(v)

Spec == Init /\ [][Next]_vars
=============================================================================
