------------------------------- MODULE Control -------------------------------
(***************************************************************************)
(* The control process, src/rcd/Control, as main.cpp builds it: the        *)
(* reading thread of the console (Console) posts what it reads to the main *)
(* thread, where ControlPub caches it, where IODev polls a Modbus device   *)
(* into the same cache, and where ControlPub publishes the cache on timers.*)
(*                                                                         *)
(* A control sample is abstracted to the driver's command it carries; the  *)
(* scaling of pedals and wheel is left out.  Time is abstracted: a timer   *)
(* that is armed may fire at any moment.  That the lights are published,   *)
(* on a timer of their own, changes nothing here and is left out.          *)
(***************************************************************************)
EXTENDS Integers, Sequences

CONSTANTS FrameLen, MinChunk, MaxChunk, MaxOpens,   \* as in Console
          Commands,   \* what pedals, wheel and gear can command
          BrakesOn,   \* the cached command before the first sample
          Garbage,    \* link statuses uninitialized memory can hold
          MaxPosted   \* bound: signals the reading thread has posted

(***************************************************************************)
(*   posted      signals of the reading thread queued for the main thread  *)
(*   cache       cacheControlData: the command and, of the IO device's     *)
(*               inputs, the emergency stop (the bucket's goes its way)    *)
(*   light       the command lightData was taken with                      *)
(*   linkStatus  ControlPub::status                                        *)
(*   published   history: the control sample published last                *)
(*   reported    history: the wheel's link status as published last        *)
(*   devPath     the IO device's file exists                               *)
(*   iodev       the Modbus master: none, connected, or created and not    *)
(*               connected                                                 *)
(*   readTimer   readTimer is armed                                        *)
(*   waiting     a request to the IO device has not finished               *)
(*   gaveUp      history: a poll of the IO device ended without a request  *)
(*   estop       the emergency stop, an input of the IO device             *)
(***************************************************************************)
VARIABLES isOpen, uartBuf, status, upcoming, opens, sample,   \* of Console
          posted, cache, light, linkStatus, published, reported,
          devPath, iodev, readTimer, waiting, gaveUp, estop

line == <<isOpen, uartBuf, status, upcoming, opens, sample>>
pub == <<cache, light, linkStatus>>
poll == <<iodev, readTimer, waiting, gaveUp>>
outside == <<devPath, estop>>
told == <<published, reported>>
vars == <<line, posted, pub, told, poll, outside>>

Line == INSTANCE Console

ASSUME ControlAssumption ==
    /\ Line!ConsoleAssumption
    /\ BrakesOn \notin Commands
    /\ MaxPosted \in Nat

-----------------------------------------------------------------------------
LinkStatuses == {"DISCONNECTED", "CONNECTED_NO_DATA", "CONNECTED_DATA"}

Caches == [command : Commands \cup {BrakesOn}, eStop : BOOLEAN]
DevLinkStatuses == [wheel : LinkStatuses \cup Garbage,
                    gearShift : LinkStatuses \cup Garbage,
                    bucket : LinkStatuses \cup Garbage]
Signals == [sig : {"status"}, val : LinkStatuses]
           \cup [sig : {"data", "light"}, val : Commands]

TypeOK ==
    /\ Line!TypeOK
    /\ posted \in Seq(Signals)
    /\ cache \in Caches
    /\ published \in Caches
    /\ light \in Commands \cup {BrakesOn}
    /\ linkStatus \in DevLinkStatuses
    /\ reported \in LinkStatuses \cup Garbage
    /\ devPath \in BOOLEAN
    /\ iodev \in {"null", "connected", "unconnected"}
    /\ readTimer \in BOOLEAN
    /\ waiting \in BOOLEAN
    /\ gaveUp \in BOOLEAN
    /\ estop \in BOOLEAN

\* ControlPub sets three brakes and leaves the rest of its data, and all of
\* the link status, as the stack had it.
Init ==
    /\ Line!Init
    /\ posted = <<>>
    /\ cache \in [command : {BrakesOn}, eStop : BOOLEAN]
    /\ published = cache
    /\ light = BrakesOn
    /\ linkStatus \in [wheel : Garbage, gearShift : Garbage, bucket : Garbage]
    /\ reported = linkStatus.wheel
    /\ devPath \in BOOLEAN
    /\ iodev = "null"
    /\ readTimer = TRUE
    /\ waiting = FALSE
    /\ gaveUp = FALSE
    /\ estop \in BOOLEAN

-----------------------------------------------------------------------------
(* The console's reading thread: zhongzhi::StartLoop *)

StatusSignal(s) == [sig |-> "status", val |-> s]

Post(signals) ==
    /\ Len(posted) + Len(signals) <= MaxPosted
    /\ posted' = posted \o signals

\* Opening the port, and closing it when nothing came for 50 ms.
PortStep ==
    /\ Line!InitUart \/ Line!ReadTimeout
    /\ Post(<<StatusSignal(status')>>)
    /\ UNCHANGED <<pub, told, poll, outside>>

\* A pass of HandleUartData: a whole frame raises the status, the control
\* sample and the lights, in this order.
ReadStep(command) ==
    /\ Line!Read
    /\ Post(IF sample' = <<>> THEN <<>>
            ELSE <<StatusSignal(status'), [sig |-> "data", val |-> command],
                   [sig |-> "light", val |-> command]>>)
    /\ UNCHANGED <<pub, told, poll, outside>>

-----------------------------------------------------------------------------
(* Main thread: ControlPub *)

\* Mutated HandleZhongZhiStatusSlot: the wheel's status is left to the IO
\* device's slot.
StatusWithoutWheel(m) ==
    /\ m.sig = "status"
    /\ linkStatus' = [linkStatus EXCEPT !.gearShift = m.val, !.bucket = m.val]
    /\ UNCHANGED <<cache, light>>

\* Mutated HandleZhongZhiStatusSlot: connected to every signal.
StatusOfAnySignal(m) ==
    /\ linkStatus' = [wheel |-> m.val, gearShift |-> m.val, bucket |-> m.val]
    /\ UNCHANGED <<cache, light>>

\* The console's status is written over that of the bucket too, which the IO
\* device reports.
HandleZhongZhiStatusSlot(m) ==
    /\ m.sig = "status"
    /\ linkStatus' = [wheel |-> m.val, gearShift |-> m.val, bucket |-> m.val]
    /\ UNCHANGED <<cache, light>>

\* The whole cache is overwritten, and the console's own copy has nothing in
\* the IO device's fields.
HandleZhongZhiControlDataSlot(m) ==
    /\ m.sig = "data"
    /\ cache' = [command |-> m.val, eStop |-> FALSE]
    /\ UNCHANGED <<light, linkStatus>>

HandleZhongZhiControlLightSlot(m) ==
    /\ m.sig = "light"
    /\ light' = m.val
    /\ UNCHANGED <<cache, linkStatus>>

DeliverSignal ==
    /\ posted # <<>>
    /\ posted' = Tail(posted)
    /\ \/ HandleZhongZhiStatusSlot(Head(posted))
       \/ HandleZhongZhiControlDataSlot(Head(posted))
       \/ HandleZhongZhiControlLightSlot(Head(posted))
    /\ UNCHANGED <<line, told, poll, outside>>

\* Mutated HandlePubDataTimerOut: only the driver's command is taken along.
PublishCommand ==
    /\ published' = [published EXCEPT !.command = cache.command]
    /\ UNCHANGED <<line, posted, pub, reported, poll, outside>>

\* A copy of the cache as it is at this moment.
HandlePubDataTimerOut ==
    /\ published' = cache
    /\ UNCHANGED <<line, posted, pub, reported, poll, outside>>

HandlePubStatusTimerOut ==
    /\ reported' = linkStatus.wheel
    /\ UNCHANGED <<line, posted, pub, published, poll, outside>>

-----------------------------------------------------------------------------
(* Main thread: IODev *)

\* HandleIodevStatusSlot, called directly.
IodevStatus(s) == linkStatus' = [linkStatus EXCEPT !.bucket = s]

\* HandleTimeOut without the device's file: the device is given up.
WaitForDevice ==
    /\ readTimer /\ ~ devPath
    /\ IodevStatus("DISCONNECTED")
    /\ iodev' = "null"
    /\ UNCHANGED <<line, posted, cache, light, told, readTimer, waiting, gaveUp, outside>>

\* Init: the result of connectDevice is not looked at.
InitDevice ==
    /\ readTimer /\ devPath /\ iodev = "null"
    /\ iodev' \in {"connected", "unconnected"}
    /\ UNCHANGED <<line, posted, pub, told, readTimer, waiting, gaveUp, outside>>

\* Mutated ReadIOState: the timer is not left to the reply.
ReadIOStateAndRearm ==
    /\ readTimer /\ devPath /\ iodev # "null"
    /\ waiting' \in {TRUE, FALSE}
    /\ UNCHANGED <<line, posted, pub, told, iodev, readTimer, gaveUp, outside>>

\* ReadIOState: the single-shot timer is over.  It is started again by the
\* reply only, so a poll that sends no request is the last one: the master is
\* not connected, or refuses the request, or has a reply finished already.
ReadIOState ==
    /\ readTimer /\ devPath /\ iodev # "null"
    /\ readTimer' = FALSE
    /\ waiting' \in IF iodev = "connected" THEN {TRUE, FALSE} ELSE {FALSE}
    /\ gaveUp' = (gaveUp \/ ~ waiting')
    /\ UNCHANGED <<line, posted, pub, told, iodev, outside>>

\* Mutated HandleReadIOStateReady: the timer is started again after an error
\* only.
ReadyWithoutRearm(ok) ==
    /\ waiting
    /\ ok => iodev = "connected"
    /\ waiting' = FALSE
    /\ readTimer' = ~ ok
    /\ IF ok
       THEN /\ IodevStatus("CONNECTED_DATA")
            /\ cache' = [cache EXCEPT !.eStop = estop]
       ELSE /\ IodevStatus("CONNECTED_NO_DATA")
            /\ UNCHANGED cache
    /\ UNCHANGED <<line, posted, light, told, iodev, gaveUp, outside>>

\* The request finished: with the device's inputs, or with an error.
HandleReadIOStateReady(ok) ==
    /\ waiting
    /\ ok => iodev = "connected"
    /\ waiting' = FALSE
    /\ readTimer' = TRUE
    /\ IF ok
       THEN /\ IodevStatus("CONNECTED_DATA")
            /\ cache' = [cache EXCEPT !.eStop = estop]
       ELSE /\ IodevStatus("CONNECTED_NO_DATA")
            /\ UNCHANGED cache
    /\ UNCHANGED <<line, posted, light, told, iodev, gaveUp, outside>>

HandleTimeOut == WaitForDevice \/ InitDevice \/ ReadIOState

-----------------------------------------------------------------------------
(* Outside: the device is plugged in or out, loses its port, is operated *)

DeviceChanges ==
    /\ \/ devPath' = ~ devPath /\ UNCHANGED <<iodev, estop>>
       \/ iodev = "connected" /\ iodev' = "unconnected" /\ UNCHANGED outside
       \/ estop' = ~ estop /\ UNCHANGED <<iodev, devPath>>
    /\ UNCHANGED <<line, posted, pub, told, readTimer, waiting, gaveUp>>

Next ==
    \/ PortStep
    \/ \E command \in Commands : ReadStep(command)
    \/ DeliverSignal
    \/ HandlePubDataTimerOut
    \/ HandlePubStatusTimerOut
    \/ HandleTimeOut
    \/ \E ok \in BOOLEAN : HandleReadIOStateReady(ok)
    \/ DeviceChanges

Spec == Init /\ [][Next]_vars

\* The event loop serves posted signals and timers.  A request finishes, by
\* its answer or by the time limit of 100 ms given to the master.  Of the IO
\* device: as long as it is connected it does answer from time to time.
LiveSpec ==
    /\ Spec
    /\ WF_vars(DeliverSignal)
    /\ WF_vars(HandlePubDataTimerOut)
    /\ WF_vars(HandlePubStatusTimerOut)
    /\ WF_vars(HandleTimeOut)
    /\ WF_vars(\E ok \in BOOLEAN : HandleReadIOStateReady(ok))
    /\ SF_vars(HandleReadIOStateReady(TRUE))

-----------------------------------------------------------------------------
(* Properties *)

\* At most one request is at the IO device, and none when the device is given
\* up, which would delete the master under it: only the reply starts the timer
\* again.
OneRequest == waiting => ~ readTimer /\ iodev # "null"

\* What is known of wheel and gear shift is the console's newest status, apart
\* from statuses still queued: samples and statuses are not reordered, and the
\* IO device, which shares the bucket's status with the console, does not
\* touch the other two.
QueuedStatuses == {i \in DOMAIN posted : posted[i].sig = "status"}

WheelCurrent ==
    /\ QueuedStatuses = {} /\ status # "NONE" =>
          linkStatus.wheel = status /\ linkStatus.gearShift = status
    /\ \A i \in QueuedStatuses :
          (\A j \in QueuedStatuses : j <= i) => posted[i].val = status

\* The loss of the console is reported, unless it is back meanwhile.  It is
\* the only thing a listener learns: the last sample goes on being published.
ConsoleLossReported ==
    status = "DISCONNECTED"
        ~> reported = "DISCONNECTED" \/ status # "DISCONNECTED"

\* As long as no poll of the IO device ended without a request, a pressed
\* emergency stop is cached again and again, although every console sample
\* clears it.  Nothing follows for what is published while samples arrive: the
\* publishing timer may find it cleared each time.
EStopCached ==
    <>[](estop /\ devPath /\ ~ gaveUp) => []<>(cache.eStop)

\* Without console samples the emergency stop gets through: what is published
\* comes to say, and goes on saying, whether it is pressed, whatever samples
\* were still queued and whatever requests failed, as long as no poll of the
\* IO device ended without a request.
EStopReaches ==
    \A pressed \in BOOLEAN :
        <>[](/\ estop = pressed /\ devPath /\ ~ gaveUp
             /\ status # "CONNECTED_DATA")
            => <>[](published.eStop = pressed)
==============================================================================
