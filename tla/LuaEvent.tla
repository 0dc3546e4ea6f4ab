------------------------------ MODULE LuaEvent ------------------------------
(***************************************************************************)
(* script/common/LuaEvent.lua, the event bus of a Lua machine: listeners,  *)
(* dispatch at once, with listeners that add, remove and dispatch in turn, *)
(* and events put off to update(), which a frame of the program calls.     *)
(***************************************************************************)
EXTENDS Naturals, Sequences, SequencesExt

CONSTANTS Events, Listeners,   \* a listener is a pair of an object and a function
          MaxDepth,            \* bound on dispatches within dispatches
          MaxCmds              \* bound on events put off

ASSUME LuaEventAssumption == MaxDepth \in Nat /\ MaxCmds \in Nat

VARIABLES
    mEvents,   \* m_events: event |-> its listeners in order
    mCmds,     \* m_cmds: events put off
    stack      \* dispatches in progress, outermost first

vars == <<mEvents, mCmds, stack>>

\* ev and i are ipairs' list and position.  The rest is history: owed, the
\* listeners of the start not yet called or removed; called; cut, whether a
\* listener of the list was removed meanwhile.
Dispatches == [ev : Events, i : Nat, owed : SUBSET Listeners, called : SUBSET Listeners, cut : BOOLEAN]

Init ==
    /\ mEvents = [e \in Events |-> <<>>]
    /\ mCmds = <<>>
    /\ stack = <<>>

Start(e) ==
    stack' = Append(stack, [ev |-> e, i |-> 0, owed |-> ToSet(mEvents[e]), called |-> {}, cut |-> FALSE])

\* LuaEvent:dispatchEvent, at once.
DispatchEvent(e) ==
    /\ Len(stack) < MaxDepth
    /\ Start(e)
    /\ UNCHANGED <<mEvents, mCmds>>

\* LuaEvent:dispatchEvent with notOnce.
DispatchLater(e) ==
    /\ Len(mCmds) < MaxCmds
    /\ mCmds' = Append(mCmds, e)
    /\ UNCHANGED <<mEvents, stack>>

Top == stack[Len(stack)]

\* Mutant: stops one short of the end.
MoreButLast == Top.i + 1 < Len(mEvents[Top.ev])

\* ipairs finds another listener in the list as it is now.
More == Top.i < Len(mEvents[Top.ev])

\* Dispatch d calls l.
Called(d, l) ==
    [ev |-> d.ev, i |-> d.i + 1, owed |-> d.owed \ {l}, called |-> d.called \cup {l}, cut |-> d.cut]

\* The next listener is called; it may do anything below before it returns.
Call ==
    LET l == mEvents[Top.ev][Top.i + 1] IN
    /\ stack # <<>>
    /\ More
    /\ stack' = [stack EXCEPT ![Len(stack)] = Called(@, l)]
    /\ UNCHANGED <<mEvents, mCmds>>

Return ==
    /\ stack # <<>>
    /\ ~More
    /\ stack' = Front(stack)
    /\ UNCHANGED <<mEvents, mCmds>>

\* A listener raises an error, which ends every dispatch in progress.
Fail ==
    /\ stack # <<>>
    /\ stack' = <<>>
    /\ UNCHANGED <<mEvents, mCmds>>

\* Mutant: new listeners come first.
AddedFirst(e, l) == <<l>> \o mEvents[e]

\* Mutant: the listener takes the place of the list.
AddedAlone(e, l) == l

Added(e, l) == Append(mEvents[e], l)

\* LuaEvent:addEventListener; scripts add a listener to an event once.
AddEventListener(e, l) ==
    /\ l \notin ToSet(mEvents[e])
    /\ mEvents' = [mEvents EXCEPT ![e] = Added(e, l)]
    /\ UNCHANGED <<mCmds, stack>>

\* Dispatch d finds l no longer.
Cut(d, l) ==
    [ev |-> d.ev, i |-> d.i, owed |-> d.owed \ {l}, called |-> d.called \ {l}, cut |-> TRUE]

\* LuaEvent:removeEventListener: the later listeners move down, the positions
\* of the dispatches in progress do not.
RemoveEventListener(e, i) ==
    LET l == mEvents[e][i] IN
    /\ mEvents' = [mEvents EXCEPT ![e] = RemoveAt(@, i)]
    /\ stack' = [n \in DOMAIN stack |-> IF stack[n].ev = e THEN Cut(stack[n], l) ELSE stack[n]]
    /\ UNCHANGED mCmds

\* LuaEvent:update takes one event, between other work; the others wait for
\* the next update.
Update ==
    /\ stack = <<>>
    /\ mCmds # <<>>
    /\ Start(Head(mCmds))
    /\ mCmds' = Tail(mCmds)
    /\ UNCHANGED mEvents

Next ==
    \/ Call \/ Return \/ Fail \/ Update
    \/ \E e \in Events : DispatchEvent(e) \/ DispatchLater(e)
    \/ \E e \in Events, l \in Listeners : AddEventListener(e, l)
    \/ \E e \in Events : \E i \in DOMAIN mEvents[e] : RemoveEventListener(e, i)

Spec == Init /\ [][Next]_vars
-----------------------------------------------------------------------------
\* Type invariant.
TypeOK ==
    /\ mEvents \in [Events -> Seq(Listeners)]
    /\ mCmds \in Seq(Events)
    /\ stack \in Seq(Dispatches)

Ahead(d) == {mEvents[d.ev][j] : j \in d.i + 1 .. Len(mEvents[d.ev])}

\* While listeners add others and dispatch the same event again, a dispatch
\* calls each listener it found at its start, and none twice.  Only a removal
\* from the list under it can make it miss one.
EachOnce ==
    \A n \in DOMAIN stack :
        LET d == stack[n] IN ~d.cut => d.owed \subseteq Ahead(d) /\ d.called \cap Ahead(d) = {}

\* A dispatch that comes to its end has called all it found and still owed.
NoneMissed ==
    [][Return => Top.owed = {} \/ Top.cut]_vars
=============================================================================
