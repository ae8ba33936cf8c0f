------------------------------- MODULE Gateway -------------------------------
(***************************************************************************)
(* The remote-control gateway, src/rcd/GatewayServer: the process between  *)
(* the cockpit (ZMQ publish/subscribe) and the vehicles (one TCP           *)
(* connection each).  Two threads act: the Qt main thread, which owns the  *)
(* sockets, the timers and every DevHandle, and the subscriber thread of   *)
(* ZmqSubscriber, which runs the HandleZmqXxx callbacks and reaches the    *)
(* handles by signals that Qt posts to the main thread.                    *)
(*                                                                         *)
(* Time is abstracted: an armed timer may fire at any later moment.  The   *)
(* vehicle is external: it answers the commands of a connection in order,  *)
(* each at most once, and keeps one IMEI per connection.                   *)
(***************************************************************************)
EXTENDS Naturals, Sequences, SequencesExt

CONSTANTS Conn,    \* connection slots; a slot is a socket and its DevHandle
          Imei,    \* vehicle identities
          NoImei,  \* the empty string of a handle not yet authenticated
          NoDev,   \* the null std::shared_ptr<DevHandle>
          MaxReq   \* bound: remote-control requests per behaviour

ASSUME GatewayAssumption ==
    /\ NoImei \notin Imei
    /\ NoDev \notin Conn
    /\ MaxReq \in Nat

(***************************************************************************)
(*   devList           DevManage's list, oldest first                      *)
(*   handle            every DevHandle: its imei, whether its              *)
(*                     reqControlCmdTimer is armed, how many times         *)
(*                     EmitControlData and EmitControlLight are connected  *)
(*                     to it, the commands its vehicle has not answered    *)
(*                     and the command its vehicle accepted last           *)
(*   controlFastDev    the handle under remote control                     *)
(*   lastReqControlCmd the option of the newest request of any vehicle     *)
(*   dataSubs,         how many subscriptions ZMQ counts for the topics    *)
(*   lightSubs         ControlData and ControlLight                        *)
(*   posted            EmitReqControlCmdSignal emissions the main thread   *)
(*                     has still to deliver, each with its receivers       *)
(*   zmq               the subscriber thread inside                        *)
(*                     HandleZmqReqRemoteControl                           *)
(*   closing           the handle whose DevDisConnected the main thread    *)
(*                     is in the middle of                                 *)
(*   reqs              requests made so far                                *)
(*   awaiting          history: the vehicles of which a request was found  *)
(*                     connected and neither a RespRemoteControl nor a     *)
(*                     disconnected VehicleStatus was published since.     *)
(*                     Both name the vehicle and not the request, so that  *)
(*                     whatever is published of a vehicle takes it out,    *)
(*                     the answer to an older command of it too            *)
(***************************************************************************)
VARIABLES devList, handle, controlFastDev, lastReqControlCmd, dataSubs,
          lightSubs, posted, zmq, closing, reqs, awaiting

fastVars == <<controlFastDev, dataSubs, lightSubs>>
vars == <<devList, handle, fastVars, lastReqControlCmd, posted, zmq, closing,
          reqs, awaiting>>

-----------------------------------------------------------------------------
(* Types *)

\* The option byte of a request: "UNKNOWN" is any other value.
Opts == {"UNKNOWN", "START", "END"}

NoHandle == [imei |-> NoImei, timer |-> FALSE, wired |-> 0,
             cmds |-> <<>>, acked |-> "UNKNOWN"]
Handles == [imei : Imei \cup {NoImei}, timer : BOOLEAN, wired : Nat,
            cmds : Seq(Opts), acked : Opts]
DevInfos == [sock : Conn, imei : Imei \cup {NoImei}]
Emissions == [imei : Imei, opt : Opts, rcv : SUBSET Conn]
ZmqIdle == [pc |-> "idle", imei |-> NoImei, opt |-> "UNKNOWN", dev |-> NoDev]
ZmqStates == [pc : {"idle", "found", "emit"}, imei : Imei \cup {NoImei},
              opt : Opts, dev : Conn \cup {NoDev}]

TypeOK ==
    /\ devList \in Seq(DevInfos)
    /\ handle \in [Conn -> Handles]
    /\ controlFastDev \in Conn \cup {NoDev}
    /\ lastReqControlCmd \in Opts
    /\ dataSubs \in Nat
    /\ lightSubs \in Nat
    /\ posted \in Seq(Emissions)
    /\ zmq \in ZmqStates
    /\ closing \in Conn \cup {NoDev}
    /\ reqs \in 0..MaxReq
    /\ awaiting \subseteq Imei

-----------------------------------------------------------------------------
(* DevManage and the lifetime of a DevHandle *)

ListedIn(list) == {list[i].sock : i \in DOMAIN list}
Listed == ListedIn(devList)

\* The shared pointers to a handle: the list, controlFastDev, and the local
\* devHandleTmp of the subscriber thread.  A handle without one is destroyed.
Owned(list, fast, tmp) == ListedIn(list) \cup ({fast, tmp} \ {NoDev})
Alive == Owned(devList, controlFastDev, zmq.dev)

\* The sockets of the oldest entry of an IMEI: one, or none.
OldestOf(imei) ==
    {devList[i].sock : i \in
        {j \in DOMAIN devList : /\ devList[j].imei = imei
                                /\ \A k \in 1..(j-1) : devList[k].imei # imei}}

GetDevHandle(imei) ==
    IF OldestOf(imei) = {} THEN NoDev ELSE CHOOSE c \in OldestOf(imei) : TRUE

AddDev(c) == devList' = Append(devList, [sock |-> c, imei |-> NoImei])

\* Mutated UpdateDev: the newest entry instead of that of the descriptor.
UpdateNewest(c, imei) ==
    devList' = [devList EXCEPT ![Len(devList)].imei = imei]

UpdateDev(c, imei) ==
    devList' = [i \in DOMAIN devList |->
                   IF devList[i].sock = c THEN [devList[i] EXCEPT !.imei = imei]
                                          ELSE devList[i]]

DelDev(c) ==
    \E i \in DOMAIN devList :
        /\ devList[i].sock = c
        /\ devList' = RemoveAt(devList, i)

\* Handles outside keep are destroyed: their timers stop, Qt drops their
\* connections and takes their posted events out of the queue.
Surviving(f, keep) == [c \in Conn |-> IF c \in keep THEN f[c] ELSE NoHandle]
Undelivered(keep) ==
    [i \in DOMAIN posted |-> [posted[i] EXCEPT !.rcv = @ \cap keep]]

-----------------------------------------------------------------------------
Init ==
    /\ devList = <<>>
    /\ handle = [c \in Conn |-> NoHandle]
    /\ controlFastDev = NoDev
    /\ lastReqControlCmd \in Opts      \* the member is not initialized
    /\ dataSubs = 0
    /\ lightSubs = 0
    /\ posted = <<>>
    /\ zmq = ZmqIdle
    /\ closing = NoDev
    /\ reqs = 0
    /\ awaiting = {}

-----------------------------------------------------------------------------
(* Subscriber thread: HandleZmqReqRemoteControl.  DevManage locks its list *)
(* for the lookup only, so the main thread may act between the steps.      *)

HandleZmqReqRemoteControl(imei, opt) ==
    /\ zmq.pc = "idle"
    /\ reqs < MaxReq
    /\ reqs' = reqs + 1
    /\ \/ /\ GetDevHandle(imei) = NoDev          \* answered at once
          /\ UNCHANGED <<zmq, awaiting>>
       \/ /\ GetDevHandle(imei) # NoDev
          /\ zmq' = [pc |-> "found", imei |-> imei, opt |-> opt,
                     dev |-> GetDevHandle(imei)]
          /\ awaiting' = awaiting \cup {imei}
    /\ UNCHANGED <<devList, handle, fastVars, lastReqControlCmd, posted, closing>>

ZmqStoreLastReq ==
    /\ zmq.pc = "found"
    /\ lastReqControlCmd' = zmq.opt
    /\ zmq' = [zmq EXCEPT !.pc = "emit"]
    /\ UNCHANGED <<devList, handle, fastVars, posted, closing, reqs, awaiting>>

\* Every living handle is a receiver.  Returning releases devHandleTmp, which
\* may be the last pointer to the handle.
ZmqEmit ==
    LET keep == Owned(devList, controlFastDev, NoDev)
    IN  /\ zmq.pc = "emit"
        /\ posted' = Append(Undelivered(keep),
                            [imei |-> zmq.imei, opt |-> zmq.opt, rcv |-> keep])
        /\ handle' = Surviving(handle, keep)
        /\ zmq' = ZmqIdle
        /\ UNCHANGED <<devList, fastVars, lastReqControlCmd, closing, reqs,
                       awaiting>>

-----------------------------------------------------------------------------
(* Main thread *)

\* controlFastDev becomes d; f is the table of handles with the connections
\* made or cut by the caller.
Retarget(d, f) ==
    LET keep == Owned(devList, d, zmq.dev)
    IN  /\ controlFastDev' = d
        /\ handle' = Surviving(f, keep)
        /\ posted' = Undelivered(keep)

\* Mutated Release: the subscription count is not checked for zero.
ReleaseUnchecked(f) ==
    /\ dataSubs' = dataSubs - 1
    /\ lightSubs' = lightSubs
    /\ Retarget(NoDev, [c \in Conn |-> IF c = controlFastDev
                                       THEN [f[c] EXCEPT !.wired = 0] ELSE f[c]])

\* Mutated Release: controlFastDev is not cleared.
ReleaseKeepingPointer(f) ==
    /\ dataSubs' = IF dataSubs = 0 THEN 0 ELSE dataSubs - 1
    /\ lightSubs' = lightSubs
    /\ Retarget(controlFastDev,
                [c \in Conn |-> IF c = controlFastDev
                                THEN [f[c] EXCEPT !.wired = 0] ELSE f[c]])

\* Mutated Release: the signals stay connected.
ReleaseConnected(f) ==
    /\ dataSubs' = IF dataSubs = 0 THEN 0 ELSE dataSubs - 1
    /\ lightSubs' = lightSubs
    /\ Retarget(NoDev, f)

\* One subscription fewer, both signals disconnected from controlFastDev
\* (every duplicate at once), controlFastDev cleared.
Release(f) ==
    /\ dataSubs' = IF dataSubs = 0 THEN 0 ELSE dataSubs - 1
    /\ lightSubs' = lightSubs
    /\ Retarget(NoDev, [c \in Conn |-> IF c = controlFastDev
                                       THEN [f[c] EXCEPT !.wired = 0] ELSE f[c]])

\* Both topics subscribed and both signals connected to the oldest handle of
\* the IMEI; nothing is disconnected.
Grant(imei, f) ==
    LET d == GetDevHandle(imei)
    IN  /\ dataSubs' = dataSubs + 1
        /\ lightSubs' = lightSubs + 1
        /\ Retarget(d, [c \in Conn |-> IF c = d THEN [f[c] EXCEPT !.wired = @ + 1]
                                                ELSE f[c]])

\* Mutated HandleReqControlCmdResult: any accepted command grants control.
GrantAnyAccepted(imei, result, f) ==
    IF result = "RECV" THEN Grant(imei, f) ELSE Release(f)

\* GateWayServer's slot.  It also publishes the result to the cockpit.
HandleReqControlCmdResult(imei, result, f) ==
    IF result = "RECV" /\ lastReqControlCmd = "START"
    THEN Grant(imei, f)
    ELSE Release(f)

HandleNewConnect(c) ==
    /\ closing = NoDev
    /\ c \notin Alive
    /\ AddDev(c)
    /\ UNCHANGED <<handle, fastVars, lastReqControlCmd, posted, zmq, closing,
                   reqs, awaiting>>

\* The CONNECTED status it raises changes nothing but the cockpit's view.
HandleAuth(c, imei) ==
    /\ closing = NoDev
    /\ c \in Listed
    /\ handle[c].imei \in {NoImei, imei}
    /\ handle' = [handle EXCEPT ![c].imei = imei]
    /\ UpdateDev(c, imei)
    /\ UNCHANGED <<fastVars, lastReqControlCmd, posted, zmq, closing, reqs,
                   awaiting>>

\* Mutated HandleReqControlCmdSlot: the timer is not started.
SendWithoutTimer(c) ==
    /\ closing = NoDev
    /\ posted # <<>>
    /\ c \in Head(posted).rcv
    /\ posted' = [posted EXCEPT ![1].rcv = @ \ {c}]
    /\ handle' = [handle EXCEPT ![c].cmds =
                    IF handle[c].imei = Head(posted).imei /\ c \in Listed
                    THEN Append(@, Head(posted).opt) ELSE @]
    /\ UNCHANGED <<devList, fastVars, lastReqControlCmd, zmq, closing, reqs,
                   awaiting>>

\* HandleReqControlCmdSlot of one receiver of the oldest emission.  Writing
\* to a socket that has disconnected reaches no vehicle; the timer starts.
HandleReqControlCmdSlot(c) ==
    /\ closing = NoDev
    /\ posted # <<>>
    /\ c \in Head(posted).rcv
    /\ posted' = [posted EXCEPT ![1].rcv = @ \ {c}]
    /\ \/ /\ handle[c].imei = Head(posted).imei
          /\ handle' = [handle EXCEPT
                ![c].timer = TRUE,
                ![c].cmds = IF c \in Listed THEN Append(@, Head(posted).opt) ELSE @]
       \/ /\ handle[c].imei # Head(posted).imei
          /\ UNCHANGED handle
    /\ UNCHANGED <<devList, fastVars, lastReqControlCmd, zmq, closing, reqs,
                   awaiting>>

\* The emission has no receiver left.
Dequeue ==
    /\ posted # <<>>
    /\ Head(posted).rcv = {}
    /\ posted' = Tail(posted)
    /\ UNCHANGED <<devList, handle, fastVars, lastReqControlCmd, zmq, closing,
                   reqs, awaiting>>

\* Mutated HandleRespControlCmd: the answer does not stop the timer.
AnswerWithoutStop(c, result) ==
    /\ closing = NoDev
    /\ c \in Listed
    /\ handle[c].cmds # <<>>
    /\ HandleReqControlCmdResult(handle[c].imei, result,
                                 [handle EXCEPT ![c].cmds = Tail(@)])
    /\ awaiting' = awaiting \ {handle[c].imei}
    /\ UNCHANGED <<devList, lastReqControlCmd, zmq, closing, reqs>>

\* The vehicle of c answers the oldest command it has not answered.  The
\* answer is matched with lastReqControlCmd, not with that command.
HandleRespControlCmd(c, result) ==
    /\ closing = NoDev
    /\ c \in Listed
    /\ handle[c].cmds # <<>>
    /\ HandleReqControlCmdResult(handle[c].imei, result,
          [handle EXCEPT ![c].timer = FALSE,
                         ![c].cmds = Tail(@),
                         ![c].acked = IF result = "RECV" THEN Head(handle[c].cmds)
                                                         ELSE @])
    /\ awaiting' = awaiting \ {handle[c].imei}
    /\ UNCHANGED <<devList, lastReqControlCmd, zmq, closing, reqs>>

\* A handle that only controlFastDev keeps is destroyed by the slot it calls,
\* which then reads the IMEI out of it: the published answer may name anyone.
ControlCmdTimeOutSlots(c) ==
    /\ closing = NoDev
    /\ handle[c].timer
    /\ HandleReqControlCmdResult(handle[c].imei, "TIMEOUT",
                                 [handle EXCEPT ![c].timer = FALSE])
    /\ \/ awaiting' = awaiting \ {handle[c].imei}
       \/ /\ c \notin Owned(devList, NoDev, zmq.dev)
          /\ UNCHANGED awaiting
    /\ UNCHANGED <<devList, lastReqControlCmd, zmq, closing, reqs>>

\* The status the lost handle raises: remote control ends if the oldest
\* handle of its IMEI is the controlled one.
HandleVehicleStatus(imei) ==
    /\ IF controlFastDev # NoDev /\ controlFastDev = GetDevHandle(imei)
       THEN Release(handle)
       ELSE UNCHANGED <<handle, fastVars, posted>>
    /\ awaiting' = awaiting \ {imei}

\* Mutated DevDisConnected: the entry is deleted before the status is raised,
\* so the lookup finds no handle.
StatusAfterDelete(c) ==
    /\ closing = NoDev
    /\ c \in Listed
    /\ awaiting' = awaiting \ {handle[c].imei}
    /\ closing' = c
    /\ UNCHANGED <<devList, handle, fastVars, posted, lastReqControlCmd, zmq, reqs>>

\* The peer closed, or HeartTimeOutSlots closed a silent connection.
DevDisConnected(c) ==
    /\ closing = NoDev
    /\ c \in Listed
    /\ IF handle[c].imei = NoImei
       THEN UNCHANGED <<handle, fastVars, posted, awaiting>>
       ELSE HandleVehicleStatus(handle[c].imei)
    /\ closing' = c
    /\ UNCHANGED <<devList, lastReqControlCmd, zmq, reqs>>

\* The rest of DevDisConnected.
HandleDevDisConnected ==
    LET keep == Owned(devList', controlFastDev, zmq.dev)
    IN  /\ closing # NoDev
        /\ DelDev(closing)
        /\ handle' = Surviving([handle EXCEPT ![closing].cmds = <<>>], keep)
        /\ posted' = Undelivered(keep)
        /\ closing' = NoDev
        /\ UNCHANGED <<fastVars, lastReqControlCmd, zmq, reqs, awaiting>>

-----------------------------------------------------------------------------
MainStep ==
    \/ \E c \in Conn :
          \/ HandleNewConnect(c)
          \/ \E imei \in Imei : HandleAuth(c, imei)
          \/ HandleReqControlCmdSlot(c)
          \/ \E result \in {"RECV", "REJECT"} : HandleRespControlCmd(c, result)
          \/ ControlCmdTimeOutSlots(c)
          \/ DevDisConnected(c)
    \/ Dequeue
    \/ HandleDevDisConnected

ZmqStep ==
    \/ \E imei \in Imei, opt \in Opts :
          HandleZmqReqRemoteControl(imei, opt)
    \/ ZmqStoreLastReq
    \/ ZmqEmit

Next == MainStep \/ ZmqStep

Spec == Init /\ [][Next]_vars

\* Both threads run on.  Qt's event loop returns to every source of events
\* between two handlers (posted events and timers are ready again and again,
\* hence strong fairness).  Cockpit and vehicles promise nothing.
Fairness ==
    /\ WF_vars(ZmqStoreLastReq)
    /\ WF_vars(ZmqEmit)
    /\ WF_vars(HandleDevDisConnected)
    /\ SF_vars(Dequeue)
    /\ SF_vars(\E c \in Conn : HandleReqControlCmdSlot(c))
    /\ \A c \in Conn : SF_vars(ControlCmdTimeOutSlots(c))

LiveSpec == Spec /\ Fairness

-----------------------------------------------------------------------------
(* Properties *)

\* The list holds each living socket once, and an entry's IMEI is the one its
\* handle authenticated with: UpdateDev and DelDev change the entry of the
\* connection they are called for, although they look for it by descriptor
\* and a vehicle that reconnects is in the list twice.
IndexAgrees ==
    /\ \A i, j \in DOMAIN devList : devList[i].sock = devList[j].sock => i = j
    /\ \A i \in DOMAIN devList : devList[i].imei = handle[devList[i].sock].imei

\* While the gateway holds a vehicle under control, samples published on
\* ControlData and ControlLight reach it: the topics are subscribed and the
\* signals connected, however many grants, refusals, timeouts and lost
\* connections of this and other vehicles came before.
FastDevWired ==
    controlFastDev # NoDev =>
        /\ handle[controlFastDev].wired > 0
        /\ dataSubs > 0
        /\ lightSubs > 0

\* A timeout, which ends remote control, is only ever raised by a vehicle that
\* owes an answer or whose connection is gone: the answer stops the timer.
TimerOwed ==
    \A c \in Listed : handle[c].timer => handle[c].cmds # <<>>

\* A connection that goes away takes remote control with it, unless the same
\* vehicle has a second connection: DevDisConnected raises the status before
\* the entry that HandleVehicleStatus looks for is deleted.
LossEndsControl ==
    [][\A c \in Listed \ ListedIn(devList') :
          controlFastDev' = c =>
              \E d \in Listed \ {c} : handle[d].imei = handle[c].imei]_vars

PostedTo(c, imei) ==
    \E i \in DOMAIN posted : posted[i].imei = imei /\ c \in posted[i].rcv

\* The requests of the vehicle that c has still to send or its vehicle to answer.
UnderWay(c, imei) ==
    Len(handle[c].cmds)
        + Len(SelectSeq(posted, LAMBDA e : e.imei = imei /\ c \in e.rcv))

\* The vehicle has lost this connection or has another, or more than one
\* request of it is made.
Entangled(c, imei) ==
    \/ c \notin Listed
    \/ \E d \in Conn \ {c} : handle[d].imei = imei
    \/ UnderWay(c, imei) > 1
    \/ zmq.imei = imei

SoleRequest(c, imei) ==
    handle[c].imei = imei /\ UnderWay(c, imei) = 1 /\ ~ Entangled(c, imei)

\* A request that stays the only one of its vehicle is answered, by the vehicle
\* or by the timer, as long as the vehicle keeps that one connection, whatever
\* becomes of other vehicles and their requests.  Nothing of the kind holds of
\* two requests of one vehicle that overlap: the answer to the first stops the
\* one timer the handle has, and then the second may never be answered.
RequestResolved ==
    \A c \in Conn, imei \in Imei :
        SoleRequest(c, imei) /\ imei \in awaiting
            ~> imei \notin awaiting \/ Entangled(c, imei)

\* No step takes a vehicle out of those that are told something: until an
\* answer of it is published or its connection goes, an event posted to that is
\* still to be delivered or the timer runs, although every loss, release and
\* answer of another vehicle takes handles and the events posted to them away.
Owes(c, imei) ==
    /\ c \in Listed
    /\ handle[c].imei = imei
    /\ handle[c].timer \/ PostedTo(c, imei)

RequestKept ==
    [][\A c \in Conn, imei \in Imei :
          Owes(c, imei) /\ imei \in awaiting =>
              Owes(c, imei)' \/ imei \notin awaiting' \/ c \notin Listed']_vars

\* Who a published control sample is written to.
Driven == {c \in Alive : handle[c].wired > 0 /\ dataSubs > 0}

\* Remote control end, as zmqmsg.hpp calls the END command: a vehicle that
\* accepted it, and for which no later request is on its way, is sent no
\* control data.
InTransit(imei) ==
    \/ zmq.pc # "idle" /\ zmq.imei = imei
    \/ \E i \in DOMAIN posted : posted[i].imei = imei
    \/ \E c \in Listed : handle[c].imei = imei /\ handle[c].cmds # <<>>

EndStopsControl ==
    \A c \in Driven \cap Listed :
        ~ InTransit(handle[c].imei) => handle[c].acked # "END"
==============================================================================
