------------------------------ MODULE LuaStack ------------------------------
(***************************************************************************)
(* The stack of one Lua machine under LVM::Dispatch, which pushes a        *)
(* function and its arguments without lua_checkstack, calls it, and leaves *)
(* the result (or the error message) where it is.  Positions count from    *)
(* L->stack; the collector may shrink the stack whenever Lua allocates.    *)
(***************************************************************************)
EXTENDS Integers

CONSTANTS MaxStack,     \* LUAI_MAXSTACK, 1000000
          ErrorExtra,   \* ERRORSTACKSIZE is larger by this, 200
          Frames        \* bound: what functions need of the stack

BaseTop == 1 + 20       \* stack_init: the function entry and LUA_MINSTACK
EXTRA_STACK == 5
BASIC_STACK_SIZE == 2 * 20

VARIABLES
    phase,    \* "idle", "pushed" before lua_pcall, "running", "failed"
    top,      \* L->top; within Lua functions, their ci->top
    func,     \* where the function was pushed, and the result will be
    size      \* L->stacksize

vars == <<phase, top, func, size>>

\* LVM::Dispatch up to lua_pcall: function, fid, sid, cmd and a message if any.
Dispatch(values) ==
    /\ phase = "idle"
    /\ phase' = "pushed"
    /\ func' = top
    /\ top' = top + values
    /\ UNCHANGED size

\* luaD_shrinkstack with top t: stackinuse counts what the base frame may use.
InUse(t) == (IF t < BaseTop THEN BaseTop ELSE t) + 1
Least(a, b) == IF a < b THEN a ELSE b
GoodSize(t) == Least(InUse(t) + InUse(t) \div 8 + 2 * EXTRA_STACK, MaxStack)
Shrunk(t) ==
    IF InUse(t) <= MaxStack - EXTRA_STACK /\ GoodSize(t) < size THEN GoodSize(t) ELSE size

\* luaL_newstate and LVM::Init when its script succeeds: it leaves no value,
\* and the stack as large as it was made, or as the script made it.
Init ==
    /\ phase = "idle"
    /\ top = 1 /\ func = 1
    /\ size \in {BASIC_STACK_SIZE} \cup GoodSize(1) .. MaxStack

\* A step of the collector that traverses the thread.
CollectGarbage ==
    /\ phase \in {"pushed", "running"}
    /\ size' = Shrunk(top)
    /\ UNCHANGED <<phase, top, func>>

\* luaD_precall of a function that needs n: luaD_growstack if they are not there.
Fits(n) == size - EXTRA_STACK - top > n
NewSize(n) ==
    LET needed == top + n + EXTRA_STACK
        twice == Least(2 * size, MaxStack)
    IN  IF twice < needed THEN needed ELSE twice

Enter(n) ==
    /\ phase \in {"pushed", "running"}
    /\ Fits(n) \/ (size <= MaxStack /\ NewSize(n) <= MaxStack)
    /\ size' = IF Fits(n) THEN size ELSE NewSize(n)
    /\ phase' = "running"
    /\ top' = top + n
    /\ UNCHANGED func

\* luaD_growstack: "stack overflow" leaves the larger stack for the error's
\* sake; an overflow of that one is an error in error handling.
Overflow(n) ==
    /\ phase \in {"pushed", "running"}
    /\ ~Fits(n)
    /\ size > MaxStack \/ NewSize(n) > MaxStack
    /\ size' = IF size > MaxStack THEN size ELSE MaxStack + ErrorExtra
    /\ phase' = "failed"
    /\ UNCHANGED <<top, func>>

\* A function returns to one that goes on (luaD_poscall).
Leave(n) ==
    /\ phase = "running"
    /\ top - n > func + EXTRA_STACK
    /\ top' = top - n
    /\ UNCHANGED <<phase, func, size>>

\* Any other error of the script.
Raise ==
    /\ phase = "running"
    /\ phase' = "failed"
    /\ UNCHANGED <<top, func, size>>

\* lua_pcall returns; its one result is read and not popped.
Return ==
    /\ phase = "running"
    /\ phase' = "idle"
    /\ top' = func + 1
    /\ UNCHANGED <<func, size>>

\* luaD_pcall: the message replaces the function, and the stack is shrunk.
\* Dispatch logs the message and does not pop it either.
ReturnError ==
    /\ phase = "failed"
    /\ phase' = "idle"
    /\ top' = func + 1
    /\ size' = Shrunk(top')
    /\ UNCHANGED func

Next ==
    \/ \E values \in {4, 5} : Dispatch(values)
    \/ CollectGarbage
    \/ \E n \in Frames : Enter(n) \/ Overflow(n) \/ Leave(n)
    \/ Raise
    \/ Return
    \/ ReturnError

Spec == Init /\ [][Next]_vars
-----------------------------------------------------------------------------
(* Properties *)

\* The pushes of Dispatch stay inside the stack array, although nothing checks
\* for room, until LUAI_MAXSTACK and the reserve for errors are used up: by
\* then every message has left a value, and each Dispatch has failed with a
\* stack overflow for long.
PushesFit ==
    phase = "pushed" /\ top <= MaxStack + ErrorExtra => top <= size

\* lapi.h:14 asserts of every push "L->top <= L->ci->top" ("stack overflow"):
\* what LVM::Dispatch pushes stays in the LUA_MINSTACK slots it may use.
PushesChecked == phase = "pushed" => top <= BaseTop
=============================================================================
