---------------------------- MODULE RemoteControl ----------------------------
(***************************************************************************)
(* The takeover of a vehicle from the console's buttons to the vehicle:    *)
(* Cockpit and Gateway, joined by the ZMQ topics ReqRemoteControl and      *)
(* RespRemoteControl, each an ordered channel from one publisher to one    *)
(* subscriber thread.                                                      *)
(***************************************************************************)
EXTENDS Cockpit

CONSTANTS Conn, NoDev   \* as in Gateway

ASSUME SystemAssumption == NoDev \notin Conn

VARIABLES devList, handle, controlFastDev, lastReqControlCmd, dataSubs,
          lightSubs, posted, zmq, closing, reqs, awaiting
VARIABLE answers   \* published on RespRemoteControl, not yet received

\* A key makes at most one request, so the gateway's bound is never met.
G == INSTANCE Gateway WITH MaxReq <- MaxKeys

gatewayVars == <<devList, handle, controlFastDev, lastReqControlCmd, dataSubs,
                 lightSubs, posted, zmq, closing, reqs, awaiting>>
systemVars == <<vars, gatewayVars, answers>>

Answers == [imei : Imei \cup {NoImei}, result : Results]

SystemTypeOK ==
    /\ TypeOK
    /\ G!TypeOK
    /\ answers \in Seq(Answers)

SystemInit == Init /\ G!Init /\ answers = <<>>

-----------------------------------------------------------------------------
(* Cockpit *)

CockpitActs ==
    /\ Driver \/ HandleEvent
    /\ UNCHANGED <<gatewayVars, answers>>

RespReceived ==
    /\ answers # <<>>
    /\ answers' = Tail(answers)
    /\ RespRemotelHandler(Head(answers).imei, Head(answers).result)
    /\ UNCHANGED gatewayVars

-----------------------------------------------------------------------------
(* Gateway *)

PublishResp(imei, result) ==
    answers' = Append(answers, [imei |-> imei, result |-> result])

\* A request that names no connected vehicle is answered at once; without a
\* current vehicle it names none, and no answer to it passes the cockpit.
ReqReceived ==
    LET req == Head(requests)
    IN  /\ Received
        /\ IF req.imei = NoImei
           THEN zmq.pc = "idle" /\ UNCHANGED <<gatewayVars, answers>>
           ELSE /\ G!HandleZmqReqRemoteControl(req.imei, req.opt)
                /\ IF G!GetDevHandle(req.imei) = NoDev
                   THEN PublishResp(req.imei, "DISCONNECT")
                   ELSE UNCHANGED answers

VehicleAnswers(c) ==
    \E result \in {"RECV", "REJECT"} :
        /\ G!HandleRespControlCmd(c, result)
        /\ PublishResp(handle[c].imei, result)
        /\ UNCHANGED vars

\* The timeout of a handle destroyed by its own slot may name anyone.
NoAnswer(c) ==
    /\ G!ControlCmdTimeOutSlots(c)
    /\ \E imei \in IF c \in G!Owned(devList, NoDev, zmq.dev)
                   THEN {handle[c].imei} ELSE Imei \cup {NoImei} :
          PublishResp(imei, "TIMEOUT")
    /\ UNCHANGED vars

\* The subscriber thread, once it has a request.
ZmqGoesOn == (G!ZmqStoreLastReq \/ G!ZmqEmit) /\ UNCHANGED <<vars, answers>>

\* The main thread delivers what the subscriber thread posted.
Deliver ==
    /\ G!Dequeue \/ \E c \in Conn : G!HandleReqControlCmdSlot(c)
    /\ UNCHANGED <<vars, answers>>

DeleteClosed == G!HandleDevDisConnected /\ UNCHANGED <<vars, answers>>

VehicleActs ==
    \E c \in Conn :
        /\ \/ G!HandleNewConnect(c)
           \/ \E imei \in Imei : G!HandleAuth(c, imei)
           \/ G!DevDisConnected(c)
        /\ UNCHANGED <<vars, answers>>

GatewayActs ==
    \/ ZmqGoesOn
    \/ Deliver
    \/ DeleteClosed
    \/ VehicleActs
    \/ \E c \in Conn : VehicleAnswers(c) \/ NoAnswer(c)

-----------------------------------------------------------------------------
SystemNext == CockpitActs \/ RespReceived \/ ReqReceived \/ GatewayActs

SystemSpec == SystemInit /\ [][SystemNext]_systemVars

\* The gateway's threads run on, as in Gateway; its subscriber thread receives
\* what was published.
SystemFairness ==
    /\ WF_systemVars(ReqReceived \/ ZmqGoesOn)
    /\ WF_systemVars(DeleteClosed)
    /\ SF_systemVars(Deliver)
    /\ \A c \in Conn : SF_systemVars(NoAnswer(c))

-----------------------------------------------------------------------------
(* One thing at a time: how the system has to be worked for what is said of *)
(* driven vehicles below.  The code enforces none of it.                    *)

\* Something asked of the vehicle is on its way to it, or unanswered.
Asked(imei) ==
    \/ \E i \in DOMAIN requests : requests[i].imei = imei
    \/ G!InTransit(imei)

\* The driver turns to another vehicle when nothing is asked of the last one.
TurnsWhenDone ==
    \/ currentVehicle' \in {currentVehicle, NoImei}
    \/ \A imei \in Imei \ {currentVehicle'} : ~ Asked(imei)

\* A vehicle has one connection, and connects anew when the gateway has nothing
\* for it in hand.
OneConnectionEach ==
    \A c, d \in G!Listed :
        handle[c].imei = handle[d].imei /\ handle[c].imei # NoImei => c = d

ConnectsWhenDone ==
    /\ OneConnectionEach'
    /\ \A c \in Conn : \/ handle'[c].imei \in {handle[c].imei, NoImei}
                       \/ ~ G!InTransit(handle'[c].imei)

\* The driver presses Enter when no question is open and no Enter waits.
OneQuestionOpen ==
    /\ Len(asking) <= 1
    /\ \A i \in DOMAIN events : events[i].cmd = "Enter" =>
          /\ asking = <<>>
          /\ \A j \in DOMAIN events : events[j].cmd = "Enter" => i = j

OneByOne == TurnsWhenDone /\ ConnectsWhenDone /\ OneQuestionOpen'

OneByOneNext == SystemNext /\ OneByOne

OneByOneSpec == SystemInit /\ [][OneByOneNext]_systemVars

OneByOneLiveSpec == OneByOneSpec /\ SystemFairness

-----------------------------------------------------------------------------
(* Properties *)

\* The vehicles a published control sample is written to.
DrivenVehicles == {handle[c].imei : c \in G!Driven}

\* Nothing is on its way between a button and a vehicle, or back.
Settled ==
    /\ events = <<>> /\ requests = <<>> /\ answers = <<>>
    /\ \A imei \in Imei : ~ G!InTransit(imei)
    /\ \A c \in Conn : ~ handle[c].timer
    /\ closing = NoDev

\* No vehicle is driven behind the driver's back: once everything under way
\* has arrived, a vehicle that control samples reach is the current vehicle,
\* its camera is on the screen, and the screen says it is driven, whatever
\* keys were pressed while answers were outstanding.  It takes OneByOneSpec.
DrivenShown ==
    Settled =>
        \A imei \in DrivenVehicles :
            /\ layout = "RemoteControl"
            /\ imei = currentVehicle
            /\ remoteStatus = "RemoteControl"

\* Leaving the remote-control screen ends remote control, although the
\* cockpit neither waits for the answer nor repeats the request: the vehicle's
\* answer, its silence and its loss all release it.  It takes OneByOneSpec: of
\* two vehicles asked at a time the first may be left under control for good,
\* its late answer having granted it once more.
LeaveEndsControl ==
    layout = "Monitor" /\ DrivenVehicles # {}
        ~> DrivenVehicles = {} \/ layout = "RemoteControl"

\* A command which the gateway took on for a connected vehicle is not answered
\* yet.
Unanswered ==
    \E c \in G!Listed : \/ handle[c].cmds # <<>>
                        \/ G!PostedTo(c, handle[c].imei)
Owed == zmq.pc = "emit" \/ Unanswered

\* No request on its way names a vehicle.
Unnamed == \A i \in DOMAIN requests : requests[i].imei = NoImei

\* Nor is there a moment at which nothing would end it: while the gateway still
\* holds a vehicle and the driver is back at the monitor screen, the newest
\* request that names a vehicle is no START, and is on its way, or taken on, or
\* stored with a command unanswered, whose answer then releases the vehicle.
\* It takes OneByOneSpec.
ReleaseUnderWay ==
    layout = "Monitor" /\ controlFastDev # NoDev =>
        \/ \E i \in DOMAIN requests :
              /\ requests[i].imei # NoImei /\ requests[i].opt # "START"
              /\ \A j \in DOMAIN requests : j > i => requests[j].imei = NoImei
        \/ Unnamed /\ zmq.pc = "found" /\ zmq.opt # "START"
        \/ Unnamed /\ zmq.pc # "found" /\ lastReqControlCmd # "START" /\ Owed

\* The driving mode on the screen, "in remote control", is true of a vehicle.
DisplayTruthful ==
    Settled /\ layout = "RemoteControl" /\ remoteStatus = "RemoteControl"
        => currentVehicle \in DrivenVehicles
==============================================================================
