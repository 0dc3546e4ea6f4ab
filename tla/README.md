# cppluasrv in TLA+

cppluasrv is a game server: C++ threads (`cpp/`) carry messages between Lua machines, and Lua
scripts (`script/`) hold the game's logic. This directory has TLA+ models of it, the TLC
configurations that check them on small instances, and proofs that TLAPS checks for every
instance. Line numbers and paths are those of the repository.

1. [The system](#the-system) – components, state, operations, interactions, what is hard
2. [Modules and how they follow the code](#modules-and-how-they-follow-the-code)
3. [Runs](#runs), [bounds](#bounds), [fairness](#fairness)
4. [Proofs](#proofs)
5. [Disagreements found](#disagreements-found)
6. [Not modelled](#not-modelled), [plan](#plan)

How to run, from this directory: `tlc -workers 2 -config MCLvmMgr.cfg MCLvmMgr`,
`tlapm LvmMgrProofs.tla`.

## The system

Threads: the **ws thread** (uWebSockets' hub and the callbacks of `net.cpp`), the **net-io
thread** (synchronous HTTP requests, one by one), the **io thread** (runs the handlers posted to
`LvmMgr::io_service` in order; the main machine's Lua code runs here) and the **worker**
(`ProcessMsg`, one thread today; all other machines' Lua code runs there).

```
 ws thread ── PostMsg ─┐                        ┌─ Dispatch of the main machine (io thread)
 net-io    ── PostMsg ─┼─> io_service (FIFO) ───┤
 timers    ── PostMsg ─┤                        └─ localMsgQueue ─ globalMsgQueue ─ worker
 any Lua   ── PostMsg ─┘
```

| component | state | operations | hard behaviour | what makes it correct |
|---|---|---|---|---|
| Scheduler `LvmMgr`, `LVM` (`cpp/lvm.*`) | io_service, `mapLvm`, `_gen_id`, per machine `localMsgQueue` and `in_global`, `globalMsgQueue` | `PostMsg`, `_PostMsg`, `AddMsg`, `GetMsg`, `AddToGlobal`, `NextGlobal`, `ProcessMsg`, `_CreateLvm`, `_RemoveLvm` | two locks taken one after the other, none during `Dispatch`; removal while messages wait | no lost or doubled wake-up, one thread per `lua_State`, FIFO per machine, nothing left when a machine is destroyed |
| Timers (`cpp/timer.h`, `base.lua`) | `m_mapTimer`, outstanding waits, `TIMER_CB` | `Time`, `KillTime`, `SetTimer`, `KillTimer`, `OnTimerInternal`, `OnTimer`, `DPTM` | two tables on two threads updated by messages; aborted completions carry only an id | a registered callback is called, a repeating timer goes on, no timer ticks twice per wait |
| Websocket clients (`cpp/net.cpp`) | `_WS_GEN_ID`, `mapWSConn`, the mutex | `AllocId`, `onConnection`, `onMessage`, `onDisconnection`, `SendClient`, `CloseClient` | callbacks under the lock, wrap of ids, dangling entries after code 1006, addresses used again | an id leads to its client; the main machine's view is right |
| HTTP requests (`cpp/net.cpp`) | io_service_net | `HttpReq`, `_HttpReq` | requests that fail, never return or throw what nothing catches | one answer per request that returns; those that do not hold back HTTP requests only |
| Sessions (`script/common/base.lua`) | `SessionCB`, `REG_CMD_CB` | `PostMessage`, `RetMessage`, `HttpReq`, `Dispatch` | numbers used again, numbers of others in the same field, handlers that fail | the callback gets its own answer, once |
| Event bus (`script/common/LuaEvent.lua`) | `m_events`, `m_cmds` | add, remove, dispatch, update | lists changed while they are walked | every listener called once |
| Lobby (`connmgr.lua`, `roommgr.lua`, `m_login.lua`, `game/room.lua`) | `mapLoginFidToUid`, `_list_room`, `lst_user` | login, create table, enter table, room entry | three machines whose tables follow each other by messages; a machine that fails to start; clients' texts handed on to rooms | who is told to be in a room is |
| Start-up (`cpp/app.cpp`, `NET::Start`, `LvmMgr::Init`, `main.lua`) | which threads, `io_service` and machines exist | `Run`, `Start`, `Init`, `_CreateLvm`, `Main:init` | clients may connect before the scripts run; scripts may fail | no client that comes in time is lost, who is logged in was accepted by the login machine, if there is one |
| A machine's Lua stack (`lvm.cpp` `Dispatch`, `lua/ldo.c`) | top, size | push, call, grow, shrink, error | pushes nobody checks, results nobody pops, a collector that shrinks | every push falls within the array |
| Winning hands (`game/cs/mjlib.lua`, `game/base_table`) | the caller's hand | `_check_normal`, `_check_color`, `_find_eye`, `get_hu_info`, `gen_table` | greedy decisions, generated tables | the same answer as the definition |

Interactions: `NET` posts to the main machine (`CLIENT_CONN`, `CLIENT_MSG`, `CLIENT_DISCONN`);
`connmgr.lua` dispatches a client's message on the event bus, asks the login machine by a session
and the rooms' machines by messages without one; every Lua machine reaches C++ through
`EXTERNAL` (`luaInterface`). `PROJECT.json` lists the hazards, each at its line.

## Modules and how they follow the code

Each specification has an `MC` module where TLC needs model values or symmetry. Comments in a
module name the function an action stands for. Definitions introduced as *mutant* are plausible
mistakes; they belong to no specification and serve to see that a property can fail.

**`LvmMgr`** – one action for each stretch of code between two points at which another thread can
matter: `AddMsg` and `AddToGlobal` are two steps because `_PostMsg` holds no lock in between, and
a `Dispatch` has a beginning (`IoDispatchMain`, `GetMsg`) and an end. `CreateLvm` and `RemoveLvm`
happen while the main machine dispatches, the only place scripts call them from. `tok` tells
messages apart and bounds how many are under way. The initial state is that after start-up, which
`Startup` leads up to.

**`Startup`** – `App::Run` as the steps between which another thread can come in, the ws thread with
clients that connect and ask to log in as soon as `NET::Start` has run, the io thread with the two
scripts as machines that start, serve or fail, and the worker. A null `io_service` or `_lvmMain` ends
the process (`crashed`). It follows one request, the login, from the client through both machines,
because it needs everything that starts. A request has a *form*, the fields the scripts look for that
the client chose to write: `data`, a `uid` in it, an `error` of 0. The login machine raises an error for
a request without data (`WorkerRaises`). When `loginServerId` is 0 the main machine sends the client's
request to itself, and `OnLoginRet` takes it for the answer: it looks at the client's own `error` and
`uid`, logs the client in or raises (`OnLoginRetRaises`), and sends the request back ("echoed").

**`LuaStack`** – `top` and `size` of one machine's Lua stack, for any number of messages: `Dispatch`
pushes, `Enter` and `Leave` are calls within the script, `Overflow` is `luaD_growstack`'s error,
`CollectGarbage` may shrink the stack at any moment Lua runs. The limits of `luaconf.h` are
constants.

**`VmActors`** – what the scheduler promises: a FIFO of messages on their way, an inbox per
machine, one message at a time. `LvmMgr` has `Actors == INSTANCE VmActors WITH ...`, where
`running` is found in the workers' hands, and `ActorSpec` is what it refines. The modules of the
Lua side start from it: `Session` and `Lobby` have one mailbox per machine and take from its head.

**`LvmTimer`** – the handlers of the io thread as a queue, `m_mapTimer`, the waits that asio holds,
and `TIMER_CB`. `OnTimerInternal` looks at nothing but the id, as in the code; an aborted wait is a
completion like any other. `DPTM` has a beginning and an end, since its callback may call `Time`
and `KillTime`, and may fail. The `nil` once is told apart from 0 and 1 because C++ reads it as 0
and Lua does not.

**`Net`** – one event of the hub at a time; a callback and the `PostMsg` after its unlock are two
steps, and `CloseClient` has one per point where another thread can come in. `Ignored(code)` is the
test of code 1006. The life of a `WebSocket` follows `third/uWebSockets/src/WebSocket.cpp` as far
as it calls back. Writing through a dangling pointer is undefined: if the address carries a new
client the model ends that client, otherwise it leaves things alone.

**`Session`** – calls between machines with the number each message carries. A call is a model
value that exists only to say which callback belongs to which message. Handlers and callbacks may
fail (`End(v, FALSE)`). `_HttpReq` is a request that returns or throws a `system_error`. Requests are
synchronous on one thread and have no timeout (`client_http.hpp:104-107`, `net.cpp:152-161`):
`HttpHangs` is one that never returns, and all behind it wait. `HttpThrows` is an exception that
`net.cpp:163` does not catch, or that leaves a `noexcept` function of the HTTP client (a port that is no number,
`client_http.hpp:453-462`): the process ends, and what it held in memory is gone.

**`LuaEvent`** – a stack of dispatches in progress, since a listener may dispatch, add and remove.

**`Lobby`** – the handlers of the four scripts, each one step because its tables are seen by no
other machine. `CreateLvm(FALSE)` is a script that fails to start: its room then has machine 0.
`FindUser` is as it is written: it compares the user with the fields of the room's record.
`RemoveRoom` is an operation of RoomMgr that no script calls yet; it is in the model as an action
of the main machine. `OnOther` hands a client's text that has no listener to the room of its user, if
`FindUser` finds one. `PostMessage` makes the command a number (`lvm.cpp:50`), so that a text whose
command is not 1010 in the main machine may be `REQ_ENTERTABLE` in the room; `Texts` is what such texts
may say there, and a room cannot tell them from the main machine's own. `told` remembers the last client that was told
it entered, `claimed` the users for whom a client's text asked to be host, and `asked` the last user a
client asked to be. There is a login machine here; what happens without one is in `Startup`.

**`Mahjong`** – a hand is drawn tile by tile; then `M._check_normal` works on the caller's table, one
round of its loop per step: `TryEye` takes a pair off, looks at what remains and puts the pair back
unless it passes. `pairs` gives no order, so any pair still to be tried may be next. The other
deciders only read, and are operators. `Melds` and `Wins` are the definition that all of them are
compared with. Loops and sums are recursive functions under a `LET`, so that they can be proved about.
The module has no module of its own for TLC since its constants are sets of numbers.

## Runs

| run | configuration | shows |
|---|---|---|
| `sched` | MCLvmMgr | `OneOwner`, `NoLostWakeup`, `ExclusiveVm`, `DestroyedIsDrained`: the `in_global` protocol keeps one owner per machine and loses and doubles nothing; `ActorSpec`: the threads implement sequential actors; `QuietDrains`, `EachServed` under fairness |
| `timer` | MCLvmTimer | `EntryHasWait`, `OneWaitEach`, `NoDeadCallback`; `TimeIsServed`, `RepeatTicks` under fairness |
| `net` | MCNet | `RightSocket`, `Reachable`, `ToldRight`; `LockReleased`: `terminate()` under the lock does not block on it |
| `session` | MCSession | `RightCallback`, `HeldWhileOut`; `CallsAnswered` under fairness |
| `lobby` | MCLobby | `ToldIsSeated`, `OneHost`, `LastLoginWins`, with texts of clients that reach rooms, machines that fail to start and rooms that are removed |
| `event` | MCLuaEvent | `EachOnce`, `NoneMissed` |
| `mahjong` | MCMahjong | `NormalRight`, `TablesRight`: which hands the deciders get right; `EyePutBack`: what is left of the hand; `JiangAgrees`: two deciders agree |
| `startup` | MCStartup | `CrashIsEarly`, `LoggedInByLogin`, `NoEarlyDispatch`; `Answered` under fairness |

Four more runs are meant to fail; see [Disagreements found](#disagreements-found). What the
properties do *not* say is as important:

* `EachServed` promises a waiting machine its turn only if every other machine is let go of again and
  again: a worker stays with a machine until its queue is empty (`lvm.cpp:419`), and one that keeps
  posting to itself starves the rest.
* `CrashIsEarly` allows the process to die of a client that connects within the first moments:
  `NET::Start` comes before `LvmMgr::Init` (`app.cpp:25`), and nothing waits for the main machine.
  `Answered` excepts that, and a `main.lua` that fails: the server then runs on and answers nobody.
* `RightSocket` and `ToldRight` except ids lost to code 1006: for those the code keeps the entry
  and tells nobody. A message for such an id may go to the client now at that address.
* `TimeIsServed` says that a callback is called, not that it is called in time: an `ONTIMER` message
  of a killed timer calls the callback of the next one early. It excepts a registration made within
  the callback of the same id, which is wiped when that callback returns.
* `Answered` excepts requests that make a script raise before it answers: without data when there is a
  login machine, with an error of 0 and no uid when it failed to start.
* `LoggedInByLogin` says what the code does when the login machine failed to start: the main machine takes
  a client's own request for the answer, and one that gives an error of 0 and a uid logs its client in
  (`connmgr.lua:66-74`). `claimed` remembers who sent such a request. `Answered` counts the request that is
  sent back as an answer, although it is none.
* `CallsAnswered` and `HeldWhileOut` except calls whose handler or callback failed: their session is
  never freed. `CallsAnswered` also excepts HTTP requests at or behind one that never returns, and a
  process that an HTTP request ended. A call to a machine is answered though the HTTP thread is stuck.
* `RoomsApart` excepts rooms whose machine failed to start: those all have machine 0. So does
  `ToldIsSeated`: a client is told that it entered such a room, and its user is seated nowhere.
* `ToldIsSeated` says nothing of a user after a client's text has named it to the room, until the user
  enters again; `OneHost` allows a second host for whom such a text asked. Neither says that a user is in
  the room it asked for: user 4 is found in every room of four (`roommgr.lua:19-28`).
* `ToldIsSeated` does not say that a user is seated once: `game/room.lua` appends the user at each
  entry, so one who enters four times fills a room alone. `OneHost` is about the room's own list.
* `RepeatTicks` is about ids that are always set with the same `once`. No property holds it against the
  code that a repeating timer set without `once` is forgotten after its first tick (`base.lua:56`).
* `EachOnce` and `NoneMissed` except a dispatch whose list lost a listener: `ipairs` then passes over one.
* `NoneMissed` does not say when an event put off is dispatched: `update()` takes one per call, and
  nothing in the repository calls it.
* `EyePutBack` states that a winning hand is handed back without its eye, as the code leaves it.
* `LastLoginWins` is about the ids of clients, not the people: a login stays when its client goes,
  since `OnDisConnect` only logs.
* `NormalRight` is about hands of the first suit: in the others `_check_color` passes anything
  (see below), and so does `_check_normal`.

## Bounds

| module | bounds | why they suffice |
|---|---|---|
| `LvmMgr` | `MaxVm` 2, 3 messages, 2 workers | the login machine and one that is created, removed and outlived by its messages while the other is queued; two workers meet on one machine; three messages are at once in the io queue, a local queue and a dispatch. The proofs cover every size |
| `Startup` | 2 clients, one request each at a time, of any form | one client is ahead of the posted creation and one behind it, and one asks without data or with an error of 0 while the other does not; a client asks again after its answer, in another form |
| `LuaStack` | a limit of 60 slots, functions that need 2 or 15 | small functions fit, large ones grow the stack or overflow it. The proof covers every limit, `LUAI_MAXSTACK` among them |
| `LvmTimer` | one id, three pending posts, two ticks in the inbox | set, kill and set of the id are in the queue together, behind an aborted completion and its tick; ids interact only through the queue's order, and the proofs cover any set of them |
| `Net` | three addresses, ids 0..2 | ids wrap with clients connected, an address is used again under a dangling id, and two other clients stay; with three clients every id is taken |
| `Session` | two machines, two calls, two numbers, one waiting event | a call to the other machine, to the same one and to HTTP; requests from both sides carry the same number |
| `Lobby` | two clients, users 2 and 4, machines up to 3, one room at a time (the constraint `OneRoom`), two client messages under way, texts for each user and one for none | one user on two clients and two users on one; 4 equals a room's size and 2 the machine of the first room, so that both are found and their texts handed on; a room that was removed, or never had a machine, is followed by another. Rooms meet in `RoomMgr` only, which looks at one of them at a time. The failing runs have no such texts, one client, and users 1 and 3. The proofs cover every size, rooms side by side and every text |
| `LuaEvent` | two events, three listeners, two nested dispatches, one event put off | a list is changed on both sides of the position in both dispatches |
| `Mahjong` | tiles 1–10 and 28, eight tiles | a pair and two melds; runs would cross the border of two suits between 9 and 10, and 28 is an honour. The proofs cover all tiles, every hand for `mjlib.lua` and hands of fourteen for the tables |

In `Mahjong` drawing ends at the bound, and in `Startup` and `Session` the process may have died: deadlock is
not checked there. Symmetry is
used for model values that no action orders, and in no liveness run.

## Fairness

Weak fairness of a thread's steps, taken as one action: the threads of the pool are never stopped,
and handlers of boost.asio and the worker's loop have no condition they wait for but work
(`IoStep`, `LvmStep`, `WorkerStep(w)`, `HttpStep`, `VmStep(v)`, `Post`, `CloseStep`; in `Startup`, `AppStep` is the thread of `main()`). It includes that a Lua handler ends, which is the script's duty. It does not include that an HTTP request
returns: `HttpStep` is that the thread gets to the next request, which returns, hangs or throws. `Elapse(t)`
says that time passes for each timer. Nothing obliges a client, a script or a timer's owner to do
anything: `PostMsg`, `Time`, `ClientSend`, connections and removals have no fairness.

## Proofs

TLAPS checks them for every number of machines, messages, workers, sockets, clients and ids. But for
one bound on a hand of mahjong, they assume only the named `ASSUME` of each module: the bounds are
numbers and the sentinels no messages, machines, sockets, users or calls.

`LvmMgrProofs` – `OwnerStep` shows that

    IInv == TypeOK /\ OneOwner /\ NoLostWakeup /\ ExclusiveVm /\ RightVm

is inductive. None of the parts is so alone: that `GetMsgNull` may clear the flag needs that no
other worker holds the machine (`ExclusiveVm`), and that `NextGlobal` keeps `ExclusiveVm` needs that
a queued machine is not held and not queued twice (`OneOwner`), which in turn rests on `AddMsg`
queueing a machine only when its flag was clear. `DrainedAlways` and the four `...Always` theorems
follow; `FreshIdsAlways` is an induction of its own. `Refinement` proves `Spec => ActorSpec`:
`RunningFacts`, `RunningBefore` and `RunningAfter` say what the mapping makes of the workers, and `ActorStep`
has a case for each action (`NextGlobal`, `GetMsgNull` and `AddToGlobal` are stutters).

`NetProofs` – `AllocIdFree` shows that `AllocId` is an id not in the map whenever there is one: every
id is reached from every value of the counter, across the wrap, by one of its steps. The inductive
invariant adds to the three properties the parts `LockHeld` (who holds the lock), `Closing` (what
`CloseClient` knows at each of its steps), `Leaving` and `Connecting` (what a post that is still to be
made says of the socket and the id).

`LvmTimerProofs` – first what a step makes of the handlers of one id: `AppendStep` for a post,
`HandleStep` for a handler that runs and posts others. From these `EntryStep` (inductive with
`TypeOK`), `OneStep` (needs `EntryHasWait`: an id killed for the first time had no entry before, so
no wait that a cancel could complete behind its back) and `AliveStep` (a tick is passed on from a set
to the entry, to the message, to the inbox). They hold for every set of ids and every bound.

`StartupProofs` – the invariant is that of an order: before a thread runs nothing it handles exists
(`NothingBefore`), what the io thread does is part of a script it can be in (`IoInScript`), and who is
logged in, or about to be, went through a login machine that is registered (`LoginRegistered`,
`KnownOnWay`), or the login machine failed: the main machine sends a login to itself in no other case
(`LoginSettled`, `OwnRequests`), and what it sends has the form its client chose (`OwnForms`). From these follow `CrashIsEarly`, `LoggedInByLogin` and `NoEarlyDispatch`.

`SessionProofs` – `RightCallback` rests on two facts that need each other. Every message that stands
for a call finds that call's callback under its number (`Right`); and no call is under way twice, in one
queue or in two places (`NotTwice`, `Apart`), so that the callback which `Clear` takes away was needed
by nothing else. `AppendCalls` and `TailCalls` say what a post and a take do to the calls in a queue, and
each action has a lemma. With `Way` (a call made is under way until it is done or lost) and `Callbacks`
(the callbacks held are those of the calls not done, each once) the same induction gives
`HeldWhileOut`, as counted by `Cardinality`. A process that ended is as at its start, where all of this
holds (`Fresh`).

`LobbyProofs` – both history properties are about the *last* message of a kind: `AppendLast` and
`TailLast` say how posting and taking change it. `ToldOf` is `ToldIsSeated` in that form. `LastOf` orders
the three stages of a login: the last one made is the last REQ_LOGIN, or if there is none the last
LOGIN, or if there is none the last RES_LOGIN, or it is in `mapLoginFidToUid`. Each stage feeds the next in
order, which is why no answer can overtake a later one. A text of a client resets `told` for the user it
names and is entered in `claimed` with the post (`HandOn`), so both properties are proved for every set of
`Texts`; `Claims` says that every message and every seat that asks for a host beyond the first has its
entry there. `RoomsApart` needs only that ids grow; it is proved and not
checked by a run, where rooms are one at a time.

`LuaEventProofs` – `IInv` says that a list holds a listener once and that every dispatch in progress,
at any depth, is sound for the list *as it is now*: what it owes is ahead of its position and what it
called is not. `AddEventListener` keeps it because the new listener comes last, and a removal marks the
dispatches it disturbs.

At the end of `LvmMgrProofs`, over `Stack == INSTANCE LuaStack`: what each dispatch leaves on the Lua
stack. `StackInv` says how much room each phase leaves: while the stack is within its limit, there are
`EXTRA_STACK` slots above what a dispatch leaves behind (`StackRoom`), which five pushes just fill, and
a result lands at or below what was in use (`StackAbove`). `ShrunkKeeps` shows that the collector
preserves this, `NewSizeRoom` that growing does. `PushesFit` is not inductive and is not checked by a
run of its own, since the number of messages has no bound in the module.

`MahjongProofs` – all of it rests on one idea: tiles are melds if and only if there are numbers
`r[i]` of runs starting at each tile that leave triplets or nothing (`MeldsMeans`). From it:

* *the greedy loop*: `r[i]` modulo 3 is forced from the lowest tile up, and it is what `_check_color`
  takes (`GreedyFinds`, `GreedyRight`), so a triplet taken as a triplet is never missed;
* *the eye*: melds weigh 0 modulo 3, so the stretch with the pair ends at a sum of 2 (`SumThrees`) and
  `_find_eye` has that pair among its own (`EyeFound`);
* *the tables, one way*: each round of `gen_table_sub` adds one meld, so whatever it makes decomposes
  (`OneMoreWhole`, `GenTableWhole`); *the other way*: a suit that decomposes loses a meld and still does
  (`OneLess`), and four losses leave a pair or nothing of up to fourteen tiles, so four rounds make it
  (`GenTableAll`);
* *the keys*: a key says nothing of where its stretch lay. A stretch can be cut out of its suit and
  moved (`Cut`, `Moved`, `Padded`), and the stretches of a suit put together again (`Joined`).

`MahjongInv` ties the steps to this: the table passed in is the hand unless the answer is yes, and
pairs already tried do not pass. None of the properties is inductive without it: that "no" is right
needs to know of every pair that it was tried, on the whole hand. The provers have no induction over a
formula, so `LeastNat` gives it for sets (a set of numbers has a least one); `Induction` and `Climb`
follow, and `Recursion`, from which the recursive functions of the model are what their equations say.
`TablesRightAlways` assumes `MaxTiles <= 14`: the tables stop at four melds and one pair, which is the
largest hand of the game, and are wrong of a larger one.

| theorem | property |
|---|---|
| `TypeCorrect`, `NetTypeCorrect`, `TimerTypeCorrect`, `EventTypeCorrect`, `StartupTypeCorrect`, `SessionTypeCorrect`, `LobbyTypeCorrect` | `TypeOK` |
| `CrashIsEarlyAlways`, `LoggedInByLoginAlways`, `NoEarlyDispatchAlways` | as named |
| `RightCallbackAlways`, `HeldWhileOutAlways` | as named |
| `ToldIsSeatedAlways`, `OneHostAlways`, `RoomsApartAlways`, `LastLoginWinsAlways` | as named |
| `EachOnceAlways`, `NoneMissedAlways` | as named |
| `OneOwnerAlways`, `NoLostWakeupAlways`, `ExclusiveAlways`, `RightVmAlways`, `DrainedAlways`, `FreshIdsAlways` | as named |
| `Refinement` | `ActorSpec` |
| `EntryHasWaitAlways`, `OneWaitEachAlways`, `NoDeadCallbackAlways` | as named |
| `PushesFitAlways` | `PushesFit` |
| `NormalRightAlways`, `EyePutBackAlways`, `JiangAgreesAlways`, `TablesRightAlways` | as named |
| `NetInvariant`, `ReachableAlways`, `RightSocketAlways`, `ToldRightAlways` | as named |

Only model-checked: the liveness properties (`QuietDrains`, `EachServed`, `TimeIsServed`, `RepeatTicks`,
`CallsAnswered`, `Answered`, `LockReleased`), since the prover has neither fairness nor `ENABLED`.
Every other property of a passing run is a theorem.

## Disagreements found

Each is a run that fails on one property, which quotes the repository.

| run | the code | what is said of it |
|---|---|---|
| `lobby_forwards` | `FindUser` never looks at a room's users | connmgr.lua:183 "translate to room which not process" |
| `lobby_removed` | `DelLvm` sends `LVM_CMD_CREATLVM` | base.lua:127 "LVM_CMD_DELLVM beg:" |
| `mahjong_suit` | `_check_color` passes every second and third suit | mjlib.lua:181 "检查单一花色" |
| `lua_stack` | `LVM::Dispatch` never pops what `lua_pcall` leaves and pushes without `lua_checkstack`: from the 17th message on it is beyond its `LUA_MINSTACK` slots | lapi.h:14 `api_check(L,L->top <= L->ci->top,"stack overflow")` |

What follows from the last one: the array itself is not overrun (`PushesFitAlways`), but the values stay
for ever. After about `LUAI_MAXSTACK` (1000000) messages each `Dispatch` of that machine ends with
"stack overflow", and some two hundred messages later the pushes do pass the end of the array.

Two more that no run shows. Without a login machine `OnLogin`'s callback sends a client its own request as
the answer, where connmgr.lua:177 shows an answer with an error code ("echoed" in `Startup`). And
`get_hu_info` raises an error for a pair of honours (`hulib.lua:19` passes
the wrong arguments to `check_color`). `HonourError` says for which hands, and `TablesRight` is about
the others.

## Not modelled

* Lua itself: a handler is a step that ends or fails; of the interpreter only the stack is modelled.
* Undefined behaviour: a machine destroyed with active timers, uWS sockets used from two threads.
* Most named hands of `mjlib.lua`: each is a loop of one test, and nothing calls them
  (`check_qingyise` and `check_quanqiuren` read a global that does not exist). Nothing calls `shuffle`.
* JSON, logging and helper scripts: sequential text and table functions.
* The rest of `src/lua`, and `src/third`: third-party code, nine tenths of the lines in the tree. What
  the server relies on is in the models where it calls back (`Net`, `LvmTimer`, `LuaStack`).
* What answers to clients say, but for who is told to have entered a room.

## Plan

1. Several machines' timers and their destruction; the writes of two threads to one socket.
2. Connections, lobby and sessions composed in one module.
3. The remaining hands of `mjlib.lua`, if something comes to call them.
