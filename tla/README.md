# Verification of the remote-driving system

Formal models of the programs of this repository that control machines: the
remote-control-drive system (`src/rcd`), in which a console with pedals and a
steering wheel drives a mining truck over a network, and the loading place of
the machines' own screens (`src/hmi`). TLA+ modules describe the control logic,
TLC checks them on small instances, and TLAPS proves the main invariants for
instances of any size.

## 1. The system

The repository holds three code bases. `src/rcd` is the remote-driving system.
`src/hmi` is the Qt screen inside trucks and excavators; its dispatching part,
which commands other machines, is modelled too. `src/jar` and `src/sign_*` are
wrappers around vendor middleware.

`src/rcd` is three processes which talk over ZMQ publish/subscribe, and trucks
which connect to one of them over TCP:

```
 console --UART--> Control ----ControlData, ControlLight----> GatewayServer ==TCP/JT808==> truck
 IO device -Modbus->  |                                        ^        |
                      +--Button--> RcdUi --ReqRemoteControl-----+        |
                                     ^----RespRemoteControl, VehicleStatus, data
```

In `src/hmi`, the excavator's screen and the gateway in its vehicle exchange
datagrams:

```
 other trucks ~~~> gateway of the vehicle --0305, 0306, acks--> HMI: work list, table
                                          <--8306, 8403, ...--- HMI: buttons, ReSendClass
```

| component | state | operations | interacts by |
|---|---|---|---|
| **GatewayServer** (`gatewayserver.cpp`, `devhandle.cpp`, `devmanage.cpp`) | list of connections (socket, IMEI), a `DevHandle` per connection with its command timer, `controlFastDev`, `lastReqControlCmd`, subscription counts | accept, authenticate, lose a connection; take a remote-control request; relay answers and timeouts; relay control samples | slots on the Qt main thread, ZMQ callbacks on a second thread, queued signals between them |
| **Control: console** (`zhongzhi.cpp`) | UART buffer, port open or not, link status, the next takeover key | open, read, frame, time out; decode keys | a reading thread; signals to `ControlPub` |
| **Control: publisher and IO device** (`controlpub.cpp`, `iodev.cpp`) | the cached sample, the poll state of the Modbus device | publish periodically, merge inputs, poll | Qt timers and signals |
| **RcdUi** (`MainProcessor`, `InteractiveManager`, `IpcManager`, `MainCameraCL`, `RightCameraCL`, `MainMonitorCL`) | layout, focus, current vehicle, last result, the mode shown, vehicle list and selection, open questions | keys, layout switch, requests, answers | subscriber threads post to the main thread; modules call each other through `MainProcessor`; one or three processes |
| **hmi: loading place** (`worklistdeal.cpp`, `uiexcavator.cpp`) | queue of trucks, the table and its selection, emergency button | reports of trucks, buttons that command them | one GUI thread; the link |
| **hmi: link** (`resendclass.cpp`, `cmddealclass.cpp`) | messages not acknowledged, timers | send, acknowledge, send again | UDP |
| **pubinc** (`zmqwrap.hpp`, `jt808.hpp`) | counted subscriptions; the codec keeps none | subscribe, publish, encode, decode | used by all |

What is hard in it, and what would make it right:

* *Two threads in the gateway.* A request is looked up on the subscriber thread
  and delivered on the main thread, where the handle may be gone meanwhile.
  Right: list, handles and subscriptions agree; a request that a vehicle gets no
  other besides is answered, and none is forgotten.
* *One `lastReqControlCmd` for all vehicles.* Answers are matched with the last
  request of any vehicle. Right: only a vehicle that accepted START is driven.
* *Asynchronous takeover.* Keys, requests, answers and timeouts overlap, and the
  screen does not wait. Right, as long as one thing is done at a time: no vehicle
  is driven without the screen saying so; leaving the screen releases the vehicle.
* *A serial line cut anywhere.* Right: a sample is one frame, the backlog stays
  bounded, the console is heard again.
* *A cached sample with two writers.* The console overwrites what the IO device
  wrote, the emergency stop included. Right: the stop is set again and again, and
  is published once the console falls silent; link statuses are current, the loss
  of the console is told.
* *Lists kept by messages.* The vehicles on the monitor and the trucks at the
  loading place are known from single messages that cross, repeat or are missed.
  Right: one entry per machine, none for a machine that is gone, and commands
  meant for the state the operator saw.
* *A lossy link with one timer and acknowledgements by kind.* Right: a command is
  kept until it arrived, and repeated in time.

`PROJECT.json` lists every component with what is left out, and each hazard with
its line and the properties that would catch it.

## 2. The modules

| module | role |
|---|---|
| `Gateway` | the gateway process, both threads, any number of connections and vehicles |
| `Takeover` | abstract: at most one vehicle is driven, handed over through nobody |
| `GatewaySequential` | the gateway used with one request at a time; shown to implement `Takeover` |
| `GatewayProofs` | inductive invariant of `Gateway` and its theorems |
| `SequentialProofs` | invariant of `GatewaySequential`, and the refinement of `Takeover` |
| `Console` | the serial line of the console |
| `ConsoleProofs` | framing invariant of `Console` and its theorems |
| `Cockpit` | the driver's screen as one process, and the console's buttons |
| `RemoteControl` | `Cockpit` composed with `Gateway` |
| `RemoteControlProofs` | theorems about `Cockpit` as an open system; both parts behave as their modules say; the invariant behind `DrivenShown` and `ReleaseUnderWay` |
| `Control` | the control process: `Console`'s reading thread, `ControlPub`, `IODev` |
| `ControlProofs` | `Control` uses `Console` as specified; its own invariants |
| `Fleet` | the vehicles on offer: `Gateway`'s connections composed with the monitor screen |
| `FleetProofs` | invariant of `Fleet`, on top of `GatewayProofs`, and its theorems |
| `Frames` | a TCP connection byte by byte: the codec `jt808` and the reading of a `DevHandle` |
| `FramesProofs` | what is encoded is decoded again, and the theorems about the reading |
| `Resend` | the acknowledged link of `src/hmi`, over a faulty network |
| `WorkSite` | the loading place of `src/hmi`, on top of `Resend` |
| `WorkSiteProofs` | the invariant of `WorkSite` and `Resend`, and their theorems |
| `MCGateway`, `MCGatewaySequential`, `MCConsole`, `MCRemoteControl`, `MCControl`, `MCFleet`, `MCFrames`, `MCWorkSite` | TLC instances |

### Gateway

`devList` is `DevManage`'s list; `handle[c]` the `DevHandle` of connection slot
`c`; `controlFastDev`, `lastReqControlCmd` are the members of that name;
`dataSubs`, `lightSubs` what ZMQ counts for the two topics; `posted` the
`EmitReqControlCmdSignal` emissions in Qt's queue; `zmq` where the subscriber
thread stands in `HandleZmqReqRemoteControl`; `closing` the handle whose
`DevDisConnected` has raised its status and not yet its deletion. A handle lives
as long as a `shared_ptr` refers to it (`Owned`): when the last one goes, its
timer, its connections and the events posted to it go with it, within the same
action. The action names are those of the functions. `HandleZmqReqRemoteControl`
is three steps (look up, store the option, emit), because only the lookup is
locked. `HandleReqControlCmdResult` is not an action but part of each of its
callers (answer, timeout). `DevDisConnected` is two steps, because the
subscriber thread can look up in between.

The vehicle is external: it authenticates with one IMEI per connection and
answers the commands of a connection in order, at most once each, with
"accepted" or "rejected"; it may never answer. Time is abstracted: an armed
timer may fire at any moment. `awaiting` is history: the vehicles of which a
request was found connected and no answer was published since. It does not count
requests: the answers do not say which request they are to, and a handle has one
timer for all of them.

### Console

A byte is its position in the frame and the opening of the port it was read in.
`HandleUartData(n)` is one pass of the loop: `n` bytes are appended, and either a
frame at the head is handled or one byte is dropped. `ReadTimeout` closes the
port and keeps the buffer, as the code does. Header and tail are recognised at
their own places only: the value ranges of the fields between exclude the
pattern `aa ff .. 55` elsewhere. The console is assumed to send without gaps.

### Cockpit and RemoteControl

`events` is the main thread's queue: keys for `InteractiveManager`, keys routed
on to a screen (that hop is a queued connection too), and results for
`MainCamera`. `layout` stands for the current screens and for
`m_focusModule`, which `switchLayout` sets with it. `remoteStatus`,
`currentStatus`, `isRemoteApply` are `MainCamera`'s; `asking` the message boxes,
each running its own event loop. A controller's `sendToMain` reaches nobody while
its screen is not shown (`Connected`), which is why the order of "send END" and
"switch layout" matters. `RespRemotelHandler` filters on the subscriber thread,
before the result is posted. `RemoteControl` joins `requests` and `answers` with
the gateway: an action of the gateway that publishes a result appends to
`answers` in the same step.

`SystemSpec` is the system as the code has it. `OneByOneSpec` is the system worked
one thing at a time, and restricts steps, not the size of the instance: the
driver turns to another vehicle when nothing asked of the one before is on its
way or unanswered (`TurnsWhenDone`); a vehicle has one connection, and connects
anew when the gateway has nothing in hand for it (`ConnectsWhenDone`); Enter is
pressed when no question is open and no Enter waits (`OneQuestionOpen`). Keys may
still be pressed at any rate, and answers be late, refused or missing. The code
enforces none of the three, and without each of them `DrivenShown`,
`ReleaseUnderWay` or `LeaveEndsControl` fails:

* *two vehicles asked at a time:* b's START overwrites `lastReqControlCmd` while a's
  END is out; a accepts and is granted again, b's grant does not disconnect a, END
  for b releases b only, and a stays driven at the monitor screen;
* *a new connection while a START is posted:* the START goes to every handle there
  is; one that authenticates as that vehicle only afterwards takes it too, while END,
  looked up in between, is answered DISCONNECT and releases nobody. A vehicle on two
  connections takes every command twice;
* *two questions:* Yes to the second changes the current vehicle under a driven
  one.

Left open: which vehicle the list has selected (also when the question is
answered, since the code reads the selection again), and which of the two
choices the camera screen has selected. Leaving the program is not modelled.

### Control

`Console` is instantiated: the serial line moves exactly as there, and each pass
that ends a frame posts status, sample and lights to the main thread, in the
order of the emits. `cache` is `cacheControlData` (the driver's command, and of
the IO device's inputs the emergency stop; the bucket switch takes the same
way), `linkStatus` is `ControlPub::status`, both uninitialised at the start as
the code leaves them. `HandlePubDataTimerOut` publishes the cache as it is at that
moment, and `published` is the sample published last; the lights have a publishing
timer of their own, which reads what nothing here depends on, and is left out. `readTimer` is the single-shot timer of `IODev`: it is
armed again by the reply only, so `ReadIOState` may be the last one (`gaveUp`).
The Modbus master is external: a request finishes with inputs or an error, its
port may fail at any time, and connecting may fail unnoticed.

### Fleet

`Gateway` is instantiated with no requests, so that only its connections move,
and `statuses` is the topic VehicleStatus. `vehicleMap`, `vehicleList`,
`showVehicle`, `select`, `pageIndex`, `maxPage` are the members of
`MainMonitorModel`. `ScreenRestarts` loses all of them and what was on its way.
Entering a vehicle is `Cockpit`'s and not repeated here.

### Frames

`flight` is what the vehicle has written and `cut` how much of its first message
has arrived; `Arrive(n)` hands the next `n` bytes to `ReadDataFromDev`, which
reads lines until there are none, decodes each and passes on what it could
decode. The codec is modelled byte by byte, in both of its variants, with a
header of a message id and a length. Loops over the data are recursive functions
(`reverseDecode`, `checkSum`, `ReadDataFromDev`), `Xor` is the exclusive or of two
bytes bit by bit, and `LineEnd` is where `readLine` stops. The vehicle is external, and encodes as the
codec does. `whole` is history: the messages that arrived in one piece. Of a torn
message nothing is claimed. Mostly it is lost; torn within the line end it is
still decoded, since the last two bytes are dropped unread; and its rest may
itself look like a message.

### Resend and WorkSite

`Resend` keeps `reSendMap` as `pending`, `newest` and `age`. Time passes in ticks,
so that ages can be compared with `RESEND_TIMEVAL`. An age is a difference of
wall-clock times, as in the code, and the HMI sets that clock itself, once, from
the first position it receives (`G2hPosDeal`, `date -s`): ages then jump by one of
`ClockSteps`, forward or back, and may be negative. Timers run by the monotonic
clock. `waited` is the real time since a message was sent last, and `setBack` says
that the clock was set back while messages were kept. A single-shot timer of Qt is
an element of `armed`; there may be several, since each message that finds the
map empty starts one. A negative interval is refused by `QTimer::singleShot`, which
then starts none (`SingleShot`). The network loses, duplicates and reorders datagrams in
both directions; the gateway acknowledges what it receives, by id.
`WorkSite` keeps `inList`, what the table shows, its current row and the state
of the emergency button. Each button handler is an action, applied to the truck
that the handler looks up (`Target`): by name from the selected row, or the first
of the list. Handlers that refuse with a message change nothing and are not
actions. Where the code commands one truck and marks another (`DockAgain`,
`ClearFirst`), so does the model. `docked`, `arrived` and `alone` are history.

## 3. What TLC checks

| run | instance | shows |
|---|---|---|
| `gateway` | 2 connections, 2 vehicles, 2 requests with any option byte; 325 k states | `TypeOK`, `IndexAgrees` (list against handles), `FastDevWired` (a controlled vehicle is subscribed for and connected), `TimerOwed`, `LossEndsControl`, `RequestResolved`: a request that stays the only one of its vehicle is answered, and `RequestKept`: no step forgets what a vehicle is still to be told |
| `gateway_sequential` | 3, 2, 4; 287 k states | `SingleControl` and `ImplementsTakeover` under sequential use: one request at a time, one connection per vehicle, START only while no vehicle is controlled |
| `console` | frames of 5, reads of 2 to 5, 3 openings; 172 k states | `SampleWhole`, `BacklogBound`, `Heard` |
| `remote_control` | 1 vehicle, 1 connection, any 4 keys, 2 messages ahead, one thing at a time; 3.23 M states | `EndLast`, `DrivenShown` and `ReleaseUnderWay` end to end |
| `remote_control_live` | 2 vehicles, one of them driven, the 4 keys of a trip to the other, 2 messages ahead, one thing at a time; 365 k states | `LeaveEndsControl`, `DrivenShown` and `ReleaseUnderWay` end to end |
| `control` | frames of 3, reads of 2, 1 opening, 4 signals in flight; 599 k states | `OneRequest`, `WheelCurrent`, `ConsoleLossReported`, `EStopCached`, `EStopReaches` |
| `fleet` | 3 connections, 3 vehicles, pages of 2, 2 statuses in flight, 1 restart; 469 k states | `ShownAgrees`, `ListedOnce`, `NoGhosts`, `LostDisappears` |
| `frames` | 2 messages of 2 ids, bodies of at most 2 of the bytes 13, 10, 0, 62, every cut, both variants; 76 k states | `TypeOK`, `WholeHandled`, `NothingInvented` |
| `worksite` | 2 trucks, 2 reports, 2 commands, interval of 2 ticks, the clock set by 2 forward or back, symmetric; 7.54 M states | `ListedOnce`, `FinishIsFresh`, `ResentInTime`, `KeptUntilArrived` |

Bounds, and why they are enough. Two requests to two vehicles are the smallest
case in which an answer meets the option of another request; two connections
are two vehicles, or one vehicle twice; with three the same invariants hold by
proof (section 4), and `gateway_sequential` has three. Four
sequential requests are START, END, START, END. A frame of 5 bytes has a header,
a body and a tail, and reads of 2 to 5 cut it at every place and join two of
them; three openings leave rests of two earlier ones in the buffer. Four keys
besides PageDown are the shortest way into control and out of it: Enter, PageUp
(gives up, because nothing was accepted yet), PageUp (START), Escape. In
`control` one opening suffices, because `console` checks the cuts; four signals
in flight are a whole frame behind an earlier status. Pages of 2 for 3 vehicles
make the second page come and go under the selection. Two reports and two
commands are a truck that docks, is sent away and reports once more, late, or two
trucks at a time; two commands overwrite each other in the map; reports are limited to
asking, docking and clearing, the other ones only store another state. Two ticks
are the interval itself: set forward, the clock makes every kept message due, and
set back, every age too small; `MaxWait` = 5 watches a message for longer than the
four ticks it may wait. Two
messages are a torn one and its neighbour; the four bytes are the two of the line
end, one that both variants leave alone and one that only `cloud` escapes, and
lengths 0 to 2 and the checksum are the other bytes that get escaped. Two
timers are armed at a time at most with two commands. `MaxPosted`
is how far the driver may run ahead of the screen. `MaxAsk` = 2 bounds questions
where `OneByOneSpec` allows one, so that it is the discipline that keeps them apart.
In `control`, one value stands for any that uninitialised memory may hold
(`MCGarbage`).

With two vehicles, the whole way into control is beyond TLC in any order of keys.
`remote_control_live` therefore starts where it begins to matter, with the first of two
vehicles driven, a state that `RemoteControl` reaches (`DrivingInit`), and the driver
takes a trip: Escape, Enter, PageUp, Escape (`Trip`), with Enter answered by any
vehicle, by none, or by no, and each key while earlier ones are still on their way.
A vehicle that is lost stays away there (`StaysAway`); `remote_control` has it return. On
this instance `DrivenShown`, `ReleaseUnderWay` and `LeaveEndsControl` are violated as
soon as the discipline is dropped. The run turns the deadlock check off: with all
keys pressed and the vehicles gone nothing more happens there. `frames` turns it off
because a vehicle may stop sending.

Fairness. In `Gateway`: weak for the steps of a thread inside a function, strong
for the delivery of posted events and for timers, because Qt's event loop comes
back to each of its sources between two handlers. Nothing is assumed of the
cockpit or of the vehicles: they need not ask or answer. `RemoteControl` adds
that a published request is received (the subscriber thread loops on its
socket), and assumes nothing about the driver or the screen. The discipline of
`OneByOneSpec` refuses none of the steps that fairness asks for, which are all the
gateway's and neither post keys nor connect a vehicle. In `Console`:
`waitForReadyRead` returns, with bytes or a timeout; that the port can be
reopened is not assumed, so `Heard` speaks of a port that stays open. `Heard`
needs reads of two bytes or more: a line that delivers single bytes is never
heard, since an incomplete frame at the head is dropped. In `Control`, Qt's loop serves
signals and timers (weak), a Modbus request finishes, by the time limit given to
the master if not by an answer (weak), and a device that stays connected answers
from time to time (strong); `EStopCached` and `EStopReaches` ask for that, and that
no poll ended without a request. While console samples arrive only `EStopCached`
holds: the publishing timer (weak) may meet the cleared value each time. In `Fleet`, the gateway finishes closing a connection
and the screen handles what it is sent (weak); connections, keys and restarts
promise nothing. `Frames` needs none. `WorkSite` assumes no fairness: that a message is sent again is
a bound on the time it has waited, an invariant, as time in `Resend` cannot pass an expired
timer.

### Disagreements between code and its own words

| run | what it shows |
|---|---|
| `end_stops_control` | a vehicle that accepted END ("遥控结束") is driven: a START for another one overwrote `lastReqControlCmd` |
| `display_truthful` | the screen says "遥控驾驶中" while nobody is driven |
| `connected_listed` | a vehicle is taken off the screen by the loss of one of its two connections, though the message is "当前接入车辆设备状态", the vehicles connected now |

More were met and have no run of their own. A request that finds a vehicle
between its DISCONNECTED status and its deletion is answered by none of the
results that `zmqmsg.hpp:33-43` lists, since the handle is gone when the command is
delivered (`RequestResolved` speaks of requests whose connection lasts). `gatewayserver.cpp:96-97`
logs that ControlData and ControlLight are unsubscribed, and only the first is
(`lightSubs` in `Release`). `zhongzhi.cpp:161` logs "Remote Control Finished" on
every second press of the takeover button, while `MainCameraCL.cpp:185` has the
handling of that key commented out and asks for START again on the next one
(`MainCameraKey`). Of two requests to one vehicle that overlap, the
answer to the first stops the timer of both (`devhandle.cpp:205`), and the second may
never be answered (`RequestResolved` speaks of a request that stays the only one). A
late or duplicated FINISH report makes a truck count as docked again after it was
sent away (`FinishIsFresh` says there was a report, not that it was new). And when the
HMI sets its clock back (`cmddealclass.cpp:161`) while messages are kept, no timer need
run any more, and sending another message starts none while the map holds others
(`ResentInTime` excludes it with `setBack`).

## 4. What TLAPS proves

For every number of connections, vehicles and requests, `GatewayProofs`:
`TypeOK`, `IndexAgrees`, `FastDevWired`, `TimerOwed` and `LossEndsControl`. They
are not inductive by themselves: `IInv` adds `Lifetimes` (a destroyed handle is
blank, nothing is posted to it, the connection being closed is still listed) and
`Identities` (commands and control belong to authenticated vehicles only, and a
closing handle keeps control only with a second connection of its vehicle).
Without the first, a new connection in a reused slot could inherit a running
timer; without the second, a release on loss could miss the controlled handle.
Assumed are only distinctness of the two null values (`GatewayAssumption`).

The same invariant carries `RequestKept`, the safety half of `RequestResolved`:
something is still to be delivered to a connected vehicle, or its timer runs, and no
step changes that but an answer published for the vehicle or the loss of the
connection. It is an action property because a request posted in
the middle of a disconnection is owed by nobody. The proof follows what every
step does with the handles that survive it: a lost connection and a release take
away other handles, their events and timers only (`SurvivorOwes`, `RetargetOwes`,
`ReleaseOwes`), and an answer, which stops the one timer of a vehicle, is
published for that vehicle (`ResultOwes`). What is left to TLC is that Qt delivers
and the timer fires.

For the gateway under sequential use (one request at a time, one connection per
vehicle, START only while no vehicle is controlled), again of any size, `SequentialProofs`:
`SingleControl`, and that it implements `Takeover` (`ImplementsTakeover`). Every
sequential step is a step of `Gateway`, so `IInv` holds; `SeqInv` adds what one
request at a time gives: the request is in one place only (the subscriber
thread, the queue, or one vehicle that owes the answer: `Calm`, `OneBusy`,
`OnePosted`), each vehicle is on one connection (`Unique`), and once START has
been granted nobody else can be granted it (`Turn`). The point of `Turn` is that
the granted vehicle has taken its copy of the request out of the queue, so the
copies that other connections still hold cannot make it answer again. `Handover`
says of each step that control comes from or goes to nobody, which is what
`Takeover` asks.

For every frame length of 3 or more, every range of read sizes and every number
of openings, `ConsoleProofs`: `TypeOK`, `SampleWhole` and `BacklogBound`. The
invariant says that the bytes of one opening follow one another in the buffer and
lead up to the byte the console sends next, and that the buffer either is in
step with the frames or has spent a bounded number of dropping passes: at most
`FrameLen - 1` before the first header, and twice that at each reopening (for
what was left before the cut and for the cut frame).

For any number of keys, questions and vehicles, `RemoteControlProofs`: `TypeOK` and
`EndLast` of the cockpit as an open system, whatever answers arrive.

For the control process with any frame, set of commands and bound on signals in
flight, `ControlProofs`: its serial line implements `Console` (`ConsoleInside`), so
that `SampleWhole` and `BacklogBound` carry over, and `TypeOK`, `OneRequest` and
`WheelCurrent` hold. The last needs that the newest status in the queue is the
thread's own, and that the queue keeps its order.

For any number of trucks, commands and timers and any interval, `WorkSiteProofs`:
`TypeOK`, `ListedOnce`, `FinishIsFresh`, `ResentInTime`, `KeptUntilArrived`, and that
`WorkSite` uses the link as `Resend` specifies it (`UsesLink`). `ResentInTime` is not
inductive: the invariant says that, unless the clock was set back, for every
message kept there is an armed timer which, added to the time the message has
waited, comes within twice the interval, and that its age is at least that time
(`Timely`). That is what the code's `nextVal`, computed from ages instead of
remaining times, gives; it is also why the bound is two intervals and not one. A
clock set forward only makes messages due early.
`KeptUntilArrived` needs that an acknowledgement on its way belongs to a message
that arrived (`OnlyCopies`).

For any number of connections, vehicles, restarts and statuses on their way, and
any size of a page, `FleetProofs`: `TypeOK`, `ShownAgrees`, `ListedOnce` and
`NoGhosts`. The gateway of `Fleet` takes steps of `Gateway` only, so `IInv` is kept by
the lemmas of `GatewayProofs`, and without requests nobody is controlled
(`NoRequests`). `NoGhosts` is not inductive: `ListedStand` says of every vehicle that
is listed, or that a status on its way will list, and whose loss is not announced
after that, that one of its connections stands and is not being closed. That the gateway of `Fleet`
implements `Gateway` is a theorem of its own (`GatewayInside`).

For `RemoteControl` of any size, `RemoteControlProofs`: `SystemTypeOK`, `EndLast`, and that
its cockpit implements `Cockpit` and its gateway `Gateway` (`CockpitInside`,
`GatewayInside`), so that the theorems about each hold of both together. For
any number of vehicles, connections, keys and messages posted ahead, `DrivenShown` holds of every
behaviour of `OneByOneSpec` (section 2). The constants are not restricted, and
vehicles and connections change as often as they like; what is restricted is that
two of them are in hand at a time. The invariant names the vehicle asked last, v,
and says that whatever the gateway has in hand, and whatever the driver asked, is
v's (`OneInHand`, `OneAsked`). When the driver turns to another vehicle nothing is asked
of v, and since the screen is then the monitor, v is not under control either
(`NobodyElse`); so the next vehicle takes v's place. A vehicle that connects has
nothing in hand (`AuthKeeps`), and the lookup by IMEI finds the one connection there is
(`OnlyLookup`). For v the argument is: a controlled vehicle owes an answer unless the last
command stored is START (`EndIsOwed`), since every command
stored is emitted to the connection; so at rest the newest request that names a
vehicle was START (`StartLast`). Only the screen as it is now can have made it
(`StartShown`), because a report or END is published after it otherwise. And the
answer which granted control was "accepted" and is on its way or on the screen
(`GrantShown`): it passes the filter because the current vehicle has not changed,
and is shown as remote control because no other request came between.

Of the same behaviours, `ReleaseUnderWay`, the safety half of
`LeaveEndsControl`: while the gateway holds a vehicle and the driver is at the
monitor screen, something that will release it is under way. It follows from
two parts of that invariant. A controlled vehicle whose last stored command is
not START owes an answer (`EndIsOwed`), and every answer to it releases. And if the
newest command were START, it would have been made by the screen as it is now
(`StartShown`), which would then be the remote-control screen. What a request on
its way asks is found by taking the newest one that names a vehicle
(`NewestNamed`). What is left to TLC is that it arrives and is answered.

For every set of ids and bytes, every length of a body, number of messages and
cut of the stream, `FramesProofs`: every message is decoded to itself (`RoundTrip`),
a line has one line feed, at its end (`LineIsOne`), and with these `TypeOK`,
`WholeHandled` and `NothingInvented`. Codec and reading are recursive over the
data. The library's induction theorems cannot be used for that, since they
take an operator as parameter, so induction is done through sets: a set of
numbers that is not empty has a least element (`Least`, from well-foundedness), and
a function defined by recursion is shown to exist, and to be unique, by the least
number at which it would not (`ForwardRecursion`, `BackwardRecursion`,
`BackwardUnique`, `JoinUnique`). From there each escaped byte has its place in the
line and each line its place in the stream (`LineLayout`, `StreamLayout`), and
reading from that place gives the piece back. `WholeHandled` is not inductive:
`Torn` adds that of the first message in flight less has arrived than all of it,
so that the next arrival cannot end in it twice, and the rest of a torn message is
read up to its own line feed and no further (`ReadWindow`). `Within` asks for an
increasing assignment of positions, and the proof extends that assignment at
each arrival. Assumed is that ids, values and lengths fit a byte
(`FramesAssumption`).

Only model-checked: `RequestResolved`, `Heard`, `LeaveEndsControl`,
`ConsoleLossReported`, `EStopCached`, `EStopReaches` and `LostDisappears`, because liveness under
fairness is out of the prover's reach. Every invariant that a passing run checks,
and every action property, is a theorem.

## 5. Not modelled

Of the modelled parts: samples in flight between publisher and vehicle, the
relays of delay, raw data and HMI messages (they keep no state), the destructor's
socket leak, what Qt does with objects destroyed on a foreign thread, data races
inside ZMQ and between the meter's timer and the subscriber thread; the scaling
of console values and the meter port; the three-process start of RcdUi; the
composition of `Fleet` with `Cockpit` (a selection made on a list that shifts while
the question is open); of the codec's header the fields no receiver looks at, and
lines longer than `readLine`'s buffer; `Tr300rs` and `TrGearShift`,
which the build leaves out; the `src/hmi` screens of the other machines.

Parts left out: widgets, maps and video of RcdUi, and the map editing, parameter
and file pages of `src/hmi` (display and data entry); `zmq_interface`, which the
modelled processes do not use; `src/jar` and `src/sign_*`, wrappers around vendor
SDKs; `crash_debug` and `pubQsLog`.

The repository is some 300 000 lines, most of them vendored headers (fastrtps,
curl, osg, proj), generated flatbuffer code and drawing. The models cover the
1 300 or so lines that decide which machine is commanded, and by whom: a small
part of the text, and most of the concurrent, stateful logic of `src/rcd`.

## 6. What could follow

1. `Fleet` composed with `Cockpit`, so that the vehicle entered is the one selected.
2. The three-process start of RcdUi, in which every key is handled three times.
3. Safety halves, as of `RequestResolved` and `LeaveEndsControl`, of the liveness
   properties that are only model-checked: that at each moment something owes the
   step that is waited for (`Heard`, `ConsoleLossReported`, `EStopCached`, `EStopReaches`,
   `LostDisappears`).
