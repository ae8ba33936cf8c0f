-------------------------- MODULE RemoteControlProofs --------------------------
(***************************************************************************)
(* Proofs about RemoteControl.  First about Cockpit as an open system:     *)
(* answers of any vehicle with any result may arrive at any time, and      *)
(* requests may be received whenever the gateway likes.  Then, for any     *)
(* instance of the whole, its cockpit behaves as Cockpit and its gateway   *)
(* as Gateway, so that what is proved of each holds of both together.      *)
(* Last, worked one vehicle, one connection and one question at a time     *)
(* (OneByOneSpec), it satisfies DrivenShown and ReleaseUnderWay, whatever  *)
(* the number of vehicles, connections and keys and however far the driver *)
(* runs ahead.                                                             *)
(***************************************************************************)
EXTENDS RemoteControl, SequenceTheorems, FiniteSetTheorems, WellFoundedInduction, TLAPS

P == INSTANCE GatewayProofs WITH MaxReq <- MaxKeys

-----------------------------------------------------------------------------
(* The cockpit as an open system *)

\* What the handlers append keeps a sequence of messages one.
LEMMA TakeType ==
    ASSUME TypeOK, events # <<>>, NEW s \in Seq(Messages), Take(s)
    PROVE  events' \in Seq(Messages)
BY DEF Take, TypeOK

LEMMA TakeNone ==
    ASSUME TypeOK, events # <<>>, Take(<<>>)
    PROVE  events' \in Seq(Messages)
<1>1. <<>> \in Seq(Messages)
  OBVIOUS
<1> QED
  BY <1>1, TakeType

\* The message at the head is a message.
LEMMA HeadType ==
    ASSUME TypeOK, events # <<>>
    PROVE  /\ Head(events) \in Messages
           /\ Head(events).to \in Screens \cup {"InteractiveManager"}
           /\ Head(events).cmd \in Keys \cup Results
           /\ Head(events).cmd \in Results => Head(events).to = "MainCamera"
<1>1. Head(events) \in Messages
  BY DEF TypeOK
<1> QED
  BY <1>1 DEF Messages, Screens, Keys, Results

\* What is published is a request, and the newest one.
LEMMA PublishType ==
    ASSUME TypeOK, NEW opt \in {"UNKNOWN", "START", "END"}, Publish(opt)
    PROVE  /\ requests' \in Seq(Requests)
           /\ Last(requests').opt = opt
<1> DEFINE r == [imei |-> currentVehicle, opt |-> opt]
<1>1. r \in Requests
  BY DEF TypeOK, Requests
<1>2. requests' = Append(requests, r) /\ requests \in Seq(Requests)
  BY DEF Publish, TypeOK
<1>3. /\ requests' \in Seq(Requests)
      /\ Len(requests') = Len(requests) + 1
      /\ requests'[Len(requests) + 1] = r
  BY <1>1, <1>2
<1> QED
  BY <1>3 DEF Last

-----------------------------------------------------------------------------
LEMMA InitType == Init => TypeOK
BY CockpitAssumption DEF Init, TypeOK, Layouts, RemoteStatuses, Results

LEMMA NextType == TypeOK /\ [Next]_vars => TypeOK'
<1> SUFFICES ASSUME TypeOK, [Next]_vars PROVE TypeOK'
  OBVIOUS
<1> USE CockpitAssumption
<1>1. ASSUME NEW key \in Keys, HandleButton(key) PROVE TypeOK'
  <2>1. [to |-> "InteractiveManager", cmd |-> key] \in Messages
    BY DEF Messages
  <2>2. events' \in Seq(Messages)
    BY <1>1, <2>1 DEF HandleButton, Emit, TypeOK
  <2>3. keys' \in 0..MaxKeys /\ controlKey' \in {"PageUp", "PageDown"}
    BY <1>1 DEF HandleButton, TypeOK, Keys
  <2> QED
    BY <1>1, <2>2, <2>3 DEF HandleButton, TypeOK, screens, mainCamera
<1>2. ASSUME NEW imei \in Imei \cup {NoImei}, EnterRemoteControl(imei) PROVE TypeOK'
  BY <1>2 DEF EnterRemoteControl, TypeOK, console, Front, Layouts, RemoteStatuses
<1>3. ASSUME ReportDocked PROVE TypeOK'
  <2>1. requests' \in Seq(Requests)
    BY <1>3, PublishType DEF ReportDocked, TypeOK
  <2> QED
    BY <1>3, <2>1 DEF ReportDocked, TypeOK, console, mainCamera, Front
<1>4. ASSUME AnswerNo PROVE TypeOK'
  BY <1>4 DEF AnswerNo, TypeOK, console, mainCamera, Front
<1>5. ASSUME events # <<>>, InteractiveManager(Head(events)) PROVE TypeOK'
  <2> DEFINE m == Head(events)
             n == [to |-> IF m.cmd \in {"PageUp", "PageDown"} THEN "MainCamera"
                                                              ELSE FocusModule,
                   cmd |-> m.cmd]
  <2>1. m.cmd \in Keys
    BY <1>5, HeadType DEF InteractiveManager, Keys, Results
  <2>2. n \in Messages
    BY <2>1 DEF Messages, Screens, FocusModule
  <2>3. <<n>> \in Seq(Messages)
    BY <2>2
  <2>4. Take(<<n>>)
    BY <1>5 DEF InteractiveManager
  <2>5. events' \in Seq(Messages)
    BY <1>5, <2>3, <2>4, TakeType
  <2> QED
    BY <1>5, <2>5 DEF InteractiveManager, TypeOK, console, screens, mainCamera
<1>6. ASSUME events # <<>>, RemoteResult(Head(events)) PROVE TypeOK'
  <2>1. events' \in Seq(Messages)
    BY <1>6, TakeNone DEF RemoteResult
  <2>2. remoteStatus' \in RemoteStatuses
    BY <1>6 DEF RemoteResult, RemoteStatuses, TypeOK
  <2> QED
    BY <1>6, <2>1, <2>2 DEF RemoteResult, TypeOK, console
<1>7. ASSUME events # <<>>, MainCameraKey(Head(events)) PROVE TypeOK'
  <2>1. events' \in Seq(Messages)
    BY <1>7, TakeNone DEF MainCameraKey
  <2>2. requests' \in Seq(Requests) /\ isRemoteApply' \in BOOLEAN
    BY <1>7, PublishType DEF MainCameraKey, TypeOK
  <2> QED
    BY <1>7, <2>1, <2>2 DEF MainCameraKey, TypeOK, console
<1>8. ASSUME events # <<>>, RightCameraEscape(Head(events)) PROVE TypeOK'
  <2>1. events' \in Seq(Messages)
    BY <1>8, TakeNone DEF RightCameraEscape
  <2>2. requests' \in Seq(Requests) /\ layout' \in Layouts
    BY <1>8, PublishType DEF RightCameraEscape, TypeOK, Layouts
  <2> QED
    BY <1>8, <2>1, <2>2 DEF RightCameraEscape, TypeOK, console, mainCamera
<1>9. ASSUME events # <<>>, RightCameraEnter(Head(events)) PROVE TypeOK'
  <2>1. events' \in Seq(Messages)
    BY <1>9, TakeNone DEF RightCameraEnter
  <2>2. asking' \in Seq({"enter", "docked"})
    <3>1. asking' = asking \/ asking' = Append(asking, "docked")
      BY <1>9 DEF RightCameraEnter
    <3>2. asking \in Seq({"enter", "docked"})
      BY DEF TypeOK
    <3>3. QED
      BY <3>1, <3>2
  <2> QED
    BY <1>9, <2>1, <2>2 DEF RightCameraEnter, TypeOK, console, mainCamera
<1>10. ASSUME events # <<>>, MainMonitorKey(Head(events)) PROVE TypeOK'
  <2>1. events' \in Seq(Messages)
    BY <1>10, TakeNone DEF MainMonitorKey
  <2>2. asking' \in Seq({"enter", "docked"})
    <3>1. asking' = asking \/ asking' = Append(asking, "enter")
      BY <1>10 DEF MainMonitorKey
    <3>2. asking \in Seq({"enter", "docked"})
      BY DEF TypeOK
    <3>3. QED
      BY <3>1, <3>2
  <2> QED
    BY <1>10, <2>1, <2>2 DEF MainMonitorKey, TypeOK, console, mainCamera
<1>11. ASSUME NEW imei \in Imei \cup {NoImei}, NEW result \in Results,
              RespRemotelHandler(imei, result)
       PROVE  TypeOK'
  <2>1. [to |-> "MainCamera", cmd |-> result] \in Messages
    BY DEF Messages
  <2>2. events' \in Seq(Messages)
    BY <1>11, <2>1 DEF RespRemotelHandler, TypeOK
  <2> QED
    BY <1>11, <2>2 DEF RespRemotelHandler, TypeOK, console, screens, mainCamera
<1>12. ASSUME Received PROVE TypeOK'
  BY <1>12 DEF Received, TypeOK, console, screens, mainCamera
<1>13. ASSUME UNCHANGED vars PROVE TypeOK'
  BY <1>13 DEF vars, TypeOK, console, screens, mainCamera
<1> QED
  BY <1>1, <1>2, <1>3, <1>4, <1>5, <1>6, <1>7, <1>8, <1>9, <1>10, <1>11, <1>12,
     <1>13 DEF Next, Driver, HandleEvent

\* The cockpit's state keeps its types for any number of keys, questions and
\* vehicles; in particular a stored result is one the gateway sent, never one
\* of the display's own.
THEOREM TypeCorrect == Spec => []TypeOK
<1> QED
  BY InitType, NextType, PTL DEF Spec

-----------------------------------------------------------------------------
LEMMA NextEndLast == TypeOK /\ EndLast /\ [Next]_vars => EndLast'
<1> SUFFICES ASSUME TypeOK, EndLast, [Next]_vars PROVE EndLast'
  OBVIOUS
<1>1. CASE UNCHANGED <<layout, requests>>
  BY <1>1 DEF EndLast
<1>2. ASSUME layout' = "RemoteControl" PROVE EndLast'
  BY <1>2 DEF EndLast
<1>3. ASSUME Received PROVE EndLast'
  <2>1. requests \in Seq(Requests)
    BY DEF TypeOK
  <2>2. /\ requests # <<>> /\ requests' = Tail(requests)
        /\ layout' = layout
    BY <1>3 DEF Received, screens
  <2>3. requests' # <<>> => requests'[Len(requests')] = requests[Len(requests)]
    BY <2>1, <2>2
  <2> QED
    BY <2>2, <2>3 DEF EndLast, Last
<1>4. ASSUME ReportDocked PROVE EndLast'
  BY <1>1, <1>2, <1>4 DEF ReportDocked, Connected
<1>5. ASSUME MainCameraKey(Head(events)) PROVE EndLast'
  BY <1>1, <1>2, <1>5 DEF MainCameraKey, Connected
<1>6. ASSUME RightCameraEscape(Head(events)) PROVE EndLast'
  BY <1>1, <1>6, PublishType DEF RightCameraEscape, EndLast
<1>7. ASSUME NEW imei \in Imei \cup {NoImei}, EnterRemoteControl(imei) PROVE EndLast'
  BY <1>1, <1>2, <1>7 DEF EnterRemoteControl
<1>8. ASSUME NEW key \in Keys, HandleButton(key) PROVE EndLast'
  BY <1>1, <1>8 DEF HandleButton, screens
<1>9. ASSUME NEW imei \in Imei \cup {NoImei}, NEW result \in Results,
             RespRemotelHandler(imei, result)
      PROVE  EndLast'
  BY <1>1, <1>9 DEF RespRemotelHandler, screens
<1>10. ASSUME \/ AnswerNo
              \/ InteractiveManager(Head(events))
              \/ RemoteResult(Head(events))
              \/ RightCameraEnter(Head(events))
              \/ MainMonitorKey(Head(events))
              \/ UNCHANGED vars
       PROVE  EndLast'
  BY <1>1, <1>10 DEF AnswerNo, InteractiveManager, RemoteResult, RightCameraEnter,
     MainMonitorKey, vars, screens
<1> QED
  BY <1>3, <1>4, <1>5, <1>6, <1>7, <1>8, <1>9, <1>10 DEF Next, Driver, HandleEvent

\* At the monitor screen the last request on its way is END, whatever the
\* driver pressed and whatever came back, for any number of keys, vehicles and
\* open questions.
THEOREM LastIsEnd == Spec => []EndLast
<1>1. Init => EndLast
  BY DEF Init, EndLast
<1> QED
  BY <1>1, InitType, NextType, NextEndLast, PTL DEF Spec

-----------------------------------------------------------------------------
(* What DrivenShown rests on *)

\* A question is the only one, and no Enter key waits behind it; where
\* MainMonitor asks, or is going to, it is on the screen.
OneQuestion ==
    /\ OneQuestionOpen
    /\ \A i \in DOMAIN events :
          events[i].cmd = "Enter" /\ events[i].to = "MainMonitor" =>
              layout = "Monitor"
    /\ asking # <<>> /\ Last(asking) = "enter" => layout = "Monitor"

\* Whatever the gateway has in hand concerns the vehicle asked last, v: nobody
\* else is sent a command or under control.
OneInHand(v) ==
    /\ zmq.pc # "idle" => zmq.imei = v
    /\ \A i \in DOMAIN posted : posted[i].imei = v
    /\ \A c \in P!Listed : handle[c].cmds # <<>> => handle[c].imei = v
    /\ controlFastDev # NoDev =>
          /\ controlFastDev \in P!Listed \ {closing}
          /\ handle[controlFastDev].imei = v
    /\ \A c \in Conn : handle[c].wired > 0 => controlFastDev = c

\* And so does whatever the driver asked.
OneAsked(v) ==
    /\ currentVehicle \in {v, NoImei}
    /\ \A i \in DOMAIN requests : requests[i].imei \in {v, NoImei}
    /\ controlFastDev # NoDev /\ answers # <<>> => Last(answers).imei = v

\* The answer owed will end control, unless the last command stored is START.
EndIsOwed ==
    controlFastDev # NoDev /\ lastReqControlCmd # "START" => Owed

\* The newest request that names a vehicle asks for control: it is on its way
\* to the gateway, or was found connected, or is stored and has consequences.
StartOnItsWay ==
    \E i \in DOMAIN requests :
       /\ requests[i].imei # NoImei /\ requests[i].opt = "START"
       /\ \A j \in DOMAIN requests : j > i => requests[j].imei = NoImei

StartStored ==
    \/ zmq.pc = "found" /\ zmq.opt = "START"
    \/ /\ zmq.pc # "found" /\ lastReqControlCmd = "START"
       /\ controlFastDev # NoDev \/ Owed

StartLast == StartOnItsWay \/ (Unnamed /\ StartStored)

\* Then it was made by the remote-control screen as it is now.
Shown == /\ layout = "RemoteControl"
         /\ currentVehicle \in Imei
         /\ isRemoteApply

StartShown == StartLast => Shown

\* The last result the screen has still to handle is "accepted", or the last
\* one it handled was, and showed remote control.
AcceptedLast ==
    \/ \E i \in DOMAIN events :
          /\ events[i].cmd = "RECV"
          /\ \A j \in DOMAIN events : j > i => events[j].cmd \in Keys
    \/ /\ \A j \in DOMAIN events : events[j].cmd \in Keys
       /\ remoteStatus = "RemoteControl"

\* Control was granted together with the last answer: it is on its way, or the
\* screen has it, unless another request is under way.
GrantShown ==
    /\ controlFastDev # NoDev /\ answers # <<>> =>
          Last(answers).result = "RECV"
    /\ /\ controlFastDev # NoDev /\ answers = <<>> /\ StartLast
       /\ Unnamed /\ zmq.pc # "found" /\ ~ Owed
       => AcceptedLast

VehicleInv(v) ==
    /\ OneInHand(v)
    /\ OneAsked(v)
    /\ EndIsOwed
    /\ StartShown
    /\ GrantShown

DrivenInv ==
    /\ OneQuestion
    /\ OneConnectionEach
    /\ \E v \in Imei \cup {NoImei} : VehicleInv(v)

-----------------------------------------------------------------------------
(* The gateway inside the system *)

\* GatewayProofs has a copy of Gateway's definitions: they are the same.
LEMMA SameHelpers ==
    /\ G!Listed = P!Listed
    /\ G!ZmqIdle = P!ZmqIdle
    /\ \A l, fast, tmp : G!Owned(l, fast, tmp) = P!Owned(l, fast, tmp)
    /\ \A imei : G!GetDevHandle(imei) = P!GetDevHandle(imei)
    /\ \A f, keep : /\ G!Surviving(f, keep) = P!Surviving(f, keep)
                    /\ G!Undelivered(keep) = P!Undelivered(keep)
    /\ \A d, f : G!Retarget(d, f) <=> P!Retarget(d, f)
    /\ \A f : G!Release(f) <=> P!Release(f)
    /\ \A imei, f : G!Grant(imei, f) <=> P!Grant(imei, f)
<1>1. \A l : G!ListedIn(l) = P!ListedIn(l)
  BY DEF G!ListedIn, P!ListedIn
<1>2. G!Listed = P!Listed /\ G!ZmqIdle = P!ZmqIdle
  BY <1>1 DEF G!Listed, P!Listed, G!ZmqIdle, P!ZmqIdle
<1>3. \A l, fast, tmp : G!Owned(l, fast, tmp) = P!Owned(l, fast, tmp)
  BY <1>1 DEF G!Owned, P!Owned
<1>4. \A imei : G!GetDevHandle(imei) = P!GetDevHandle(imei)
  BY DEF G!GetDevHandle, P!GetDevHandle, G!OldestOf, P!OldestOf
<1>5. \A f, keep : /\ G!Surviving(f, keep) = P!Surviving(f, keep)
                   /\ G!Undelivered(keep) = P!Undelivered(keep)
  BY DEF G!Surviving, P!Surviving, G!NoHandle, P!NoHandle,
         G!Undelivered, P!Undelivered
<1>6. \A d, f : G!Retarget(d, f) <=> P!Retarget(d, f)
  BY <1>3, <1>5 DEF G!Retarget, P!Retarget
<1>7. \A f : G!Release(f) <=> P!Release(f)
  BY <1>6 DEF G!Release, P!Release
<1>8. \A imei, f : G!Grant(imei, f) <=> P!Grant(imei, f)
  BY <1>4, <1>6 DEF G!Grant, P!Grant
<1>9. QED
  BY <1>2, <1>3, <1>4, <1>5, <1>6, <1>7, <1>8

LEMMA SameActions ==
    /\ G!Init <=> P!Init
    /\ G!TypeOK <=> P!TypeOK
    /\ \A imei, opt : G!HandleZmqReqRemoteControl(imei, opt)
                          <=> P!HandleZmqReqRemoteControl(imei, opt)
    /\ G!ZmqStoreLastReq <=> P!ZmqStoreLastReq
    /\ G!ZmqEmit <=> P!ZmqEmit
    /\ G!Dequeue <=> P!Dequeue
    /\ G!HandleDevDisConnected <=> P!HandleDevDisConnected
    /\ \A c : /\ G!HandleNewConnect(c) <=> P!HandleNewConnect(c)
              /\ G!DevDisConnected(c) <=> P!DevDisConnected(c)
              /\ G!HandleReqControlCmdSlot(c) <=> P!HandleReqControlCmdSlot(c)
              /\ G!ControlCmdTimeOutSlots(c) <=> P!ControlCmdTimeOutSlots(c)
              /\ \A imei : G!HandleAuth(c, imei) <=> P!HandleAuth(c, imei)
              /\ \A result : G!HandleRespControlCmd(c, result)
                                 <=> P!HandleRespControlCmd(c, result)
<1>1. G!Init <=> P!Init
  BY SameHelpers DEF G!Init, P!Init, G!NoHandle, P!NoHandle, G!Opts, P!Opts
<1>2. G!TypeOK <=> P!TypeOK
  BY DEF G!TypeOK, P!TypeOK, G!DevInfos, P!DevInfos, G!Handles, P!Handles,
         G!Opts, P!Opts, G!Emissions, P!Emissions, G!ZmqStates, P!ZmqStates
<1>3. ASSUME NEW imei, NEW opt
      PROVE  G!HandleZmqReqRemoteControl(imei, opt)
                 <=> P!HandleZmqReqRemoteControl(imei, opt)
  BY SameHelpers DEF G!HandleZmqReqRemoteControl, P!HandleZmqReqRemoteControl,
                     G!fastVars, P!fastVars
<1>4. /\ G!ZmqStoreLastReq <=> P!ZmqStoreLastReq
      /\ G!ZmqEmit <=> P!ZmqEmit
      /\ G!Dequeue <=> P!Dequeue
  BY SameHelpers DEF G!ZmqStoreLastReq, P!ZmqStoreLastReq, G!ZmqEmit, P!ZmqEmit,
                     G!Dequeue, P!Dequeue, G!fastVars, P!fastVars
<1>5. G!HandleDevDisConnected <=> P!HandleDevDisConnected
  <2>1. G!DelDev(closing) <=> P!DelDev(closing)
    BY DEF G!DelDev, P!DelDev, G!RemoveAt, P!RemoveAt
  <2>2. QED
    BY SameHelpers, <2>1 DEF G!HandleDevDisConnected, P!HandleDevDisConnected,
                             G!fastVars, P!fastVars
<1>6. ASSUME NEW c
      PROVE  /\ G!HandleNewConnect(c) <=> P!HandleNewConnect(c)
             /\ G!HandleReqControlCmdSlot(c) <=> P!HandleReqControlCmdSlot(c)
             /\ \A imei : G!HandleAuth(c, imei) <=> P!HandleAuth(c, imei)
  <2>1. G!Alive = P!Alive
    BY SameHelpers DEF G!Alive, P!Alive
  <2>2. QED
    BY SameHelpers, <2>1
    DEF G!HandleNewConnect, P!HandleNewConnect, G!AddDev, P!AddDev,
        G!HandleReqControlCmdSlot, P!HandleReqControlCmdSlot,
        G!HandleAuth, P!HandleAuth, G!UpdateDev, P!UpdateDev,
        G!fastVars, P!fastVars
<1>7. ASSUME NEW imei, NEW result, NEW f
      PROVE  G!HandleReqControlCmdResult(imei, result, f)
                 <=> P!HandleReqControlCmdResult(imei, result, f)
  BY SameHelpers DEF G!HandleReqControlCmdResult, P!HandleReqControlCmdResult
<1>8. ASSUME NEW c
      PROVE  /\ G!ControlCmdTimeOutSlots(c) <=> P!ControlCmdTimeOutSlots(c)
             /\ \A result : G!HandleRespControlCmd(c, result)
                                <=> P!HandleRespControlCmd(c, result)
  BY SameHelpers, <1>7 DEF G!ControlCmdTimeOutSlots, P!ControlCmdTimeOutSlots,
         G!HandleRespControlCmd, P!HandleRespControlCmd
<1>9. ASSUME NEW c
      PROVE  G!DevDisConnected(c) <=> P!DevDisConnected(c)
  <2>1. \A imei : G!HandleVehicleStatus(imei) <=> P!HandleVehicleStatus(imei)
    BY SameHelpers DEF G!HandleVehicleStatus, P!HandleVehicleStatus,
                       G!fastVars, P!fastVars
  <2>2. QED
    BY SameHelpers, <2>1 DEF G!DevDisConnected, P!DevDisConnected,
                             G!fastVars, P!fastVars
<1>10. QED
  BY <1>1, <1>2, <1>3, <1>4, <1>5, <1>6, <1>8, <1>9

LEMMA GatewayStep ==
    ASSUME TypeOK, [SystemNext]_systemVars
    PROVE  [P!Next]_(P!vars)
<1>1. ASSUME UNCHANGED gatewayVars PROVE UNCHANGED P!vars
  BY <1>1 DEF gatewayVars, P!vars, P!fastVars
<1>2. CASE CockpitActs \/ RespReceived \/ UNCHANGED systemVars
  BY <1>1, <1>2 DEF CockpitActs, RespReceived, systemVars
<1>3. CASE ReqReceived
  <2> DEFINE req == Head(requests)
  <2>1. req \in Requests
    BY <1>3 DEF ReqReceived, Received, TypeOK
  <2>2. CASE req.imei = NoImei
    BY <1>1, <1>3, <2>2 DEF ReqReceived
  <2>3. CASE req.imei # NoImei
    <3>1. P!HandleZmqReqRemoteControl(req.imei, req.opt)
      BY <1>3, <2>3, SameActions DEF ReqReceived
    <3>2. req.imei \in Imei /\ req.opt \in P!Opts
      BY <2>1, <2>3 DEF Requests, P!Opts
    <3>3. P!ZmqStep
      BY <3>1, <3>2 DEF P!ZmqStep
    <3>4. QED
      BY <3>3 DEF P!Next
  <2>4. QED
    BY <2>2, <2>3
<1>4. CASE GatewayActs
  BY <1>4, SameActions
  DEF GatewayActs, ZmqGoesOn, Deliver, DeleteClosed, VehicleActs, VehicleAnswers,
      NoAnswer, P!Next, P!ZmqStep, P!MainStep
<1>5. QED
  BY <1>2, <1>3, <1>4 DEF SystemNext


-----------------------------------------------------------------------------
(* The cockpit inside the system, and the channel between the two *)

AnswersOK == answers \in Seq(Answers)

\* A published answer names a vehicle, or nobody.
LEMMA PublishResult ==
    ASSUME AnswersOK, NEW imei \in Imei \cup {NoImei}, NEW result \in Results,
           PublishResp(imei, result)
    PROVE  /\ AnswersOK'
           /\ answers' # <<>>
           /\ Last(answers') = [imei |-> imei, result |-> result]
<1> DEFINE a == [imei |-> imei, result |-> result]
<1>1. a \in Answers
  BY DEF Answers
<1>2. answers' = Append(answers, a)
  BY DEF PublishResp
<1> HIDE DEF a
<1>3. /\ answers' \in Seq(Answers)
      /\ Len(answers') = Len(answers) + 1
      /\ Len(answers) \in Nat
      /\ answers'[Len(answers) + 1] = a
  BY <1>1, <1>2, AppendProperties, LenProperties DEF AnswersOK
<1>4. answers' # <<>>
  BY <1>3
<1>5. QED
  BY <1>3, <1>4 DEF AnswersOK, Last, a

LEMMA HandleImei ==
    ASSUME P!TypeOK, NEW c \in Conn
    PROVE  handle[c].imei \in Imei \cup {NoImei}
BY DEF P!TypeOK, P!Handles

LEMMA CockpitStep ==
    ASSUME AnswersOK, [SystemNext]_systemVars
    PROVE  [Next]_vars
<1>1. CASE CockpitActs
  BY <1>1 DEF CockpitActs, Next
<1>2. CASE RespReceived
  <2>1. Head(answers) \in Answers
    BY <1>2 DEF RespReceived, AnswersOK
  <2>2. Head(answers).imei \in Imei \cup {NoImei} /\ Head(answers).result \in Results
    BY <2>1 DEF Answers
  <2>3. QED
    BY <1>2, <2>2 DEF RespReceived, Next
<1>3. CASE ReqReceived
  BY <1>3 DEF ReqReceived, Next
<1>4. CASE GatewayActs
  BY <1>4 DEF GatewayActs, ZmqGoesOn, Deliver, DeleteClosed, VehicleActs,
     VehicleAnswers, NoAnswer
<1>5. CASE UNCHANGED systemVars
  BY <1>5 DEF systemVars
<1>6. QED
  BY <1>1, <1>2, <1>3, <1>4, <1>5 DEF SystemNext

LEMMA AnswersStep ==
    ASSUME TypeOK, P!TypeOK, AnswersOK, [SystemNext]_systemVars
    PROVE  AnswersOK'
<1>1. ASSUME UNCHANGED answers PROVE AnswersOK'
  BY <1>1 DEF AnswersOK
<1>2. CASE CockpitActs
  BY <1>1, <1>2 DEF CockpitActs
<1>3. CASE RespReceived
  BY <1>3 DEF RespReceived, AnswersOK
<1>4. CASE ReqReceived
  <2>1. Head(requests) \in Requests
    BY <1>4 DEF ReqReceived, Received, TypeOK
  <2>2. Head(requests).imei \in Imei \cup {NoImei} /\ "DISCONNECT" \in Results
    BY <2>1 DEF Requests, Results
  <2>3. UNCHANGED answers \/ PublishResp(Head(requests).imei, "DISCONNECT")
    BY <1>4 DEF ReqReceived
  <2>4. QED
    BY <1>1, <2>2, <2>3, PublishResult
<1>5. ASSUME NEW c \in Conn, VehicleAnswers(c) PROVE AnswersOK'
  BY <1>5, HandleImei, PublishResult DEF VehicleAnswers, Results
<1>6. ASSUME NEW c \in Conn, NoAnswer(c) PROVE AnswersOK'
  BY <1>6, HandleImei, PublishResult DEF NoAnswer, Results
<1>7. CASE ZmqGoesOn \/ Deliver \/ DeleteClosed \/ VehicleActs
  BY <1>1, <1>7 DEF ZmqGoesOn, Deliver, DeleteClosed, VehicleActs
<1>8. CASE UNCHANGED systemVars
  BY <1>1, <1>8 DEF systemVars
<1>9. QED
  BY <1>2, <1>3, <1>4, <1>5, <1>6, <1>7, <1>8 DEF SystemNext, GatewayActs

-----------------------------------------------------------------------------
(* Any instance *)

SystemInv == TypeOK /\ EndLast /\ P!IInv /\ AnswersOK

LEMMA GatewayAssumed == P!GatewayAssumption
BY CockpitAssumption, SystemAssumption DEF P!GatewayAssumption

LEMMA SystemInvInit == SystemInit => SystemInv
<1> SUFFICES ASSUME SystemInit PROVE SystemInv
  OBVIOUS
<1>1. TypeOK /\ EndLast
  BY InitType DEF SystemInit, Init, EndLast
<1>2. P!IInv
  BY GatewayAssumed, SameActions, P!InitInv DEF SystemInit
<1>3. AnswersOK
  BY EmptySeq DEF SystemInit, AnswersOK
<1>4. QED
  BY <1>1, <1>2, <1>3 DEF SystemInv

LEMMA SystemInvStep == SystemInv /\ [SystemNext]_systemVars => SystemInv'
<1> SUFFICES ASSUME SystemInv, [SystemNext]_systemVars PROVE SystemInv'
  OBVIOUS
<1>1. TypeOK' /\ EndLast'
  BY CockpitStep, NextType, NextEndLast DEF SystemInv
<1>2. P!IInv'
  BY GatewayAssumed, GatewayStep, P!NextInv DEF SystemInv
<1>3. AnswersOK'
  BY AnswersStep DEF SystemInv, P!IInv
<1>4. QED
  BY <1>1, <1>2, <1>3 DEF SystemInv


LEMMA SystemInvariance == SystemSpec => []SystemInv
<1> QED
  BY SystemInvInit, SystemInvStep, PTL DEF SystemSpec

\* Every variable of the system keeps its type, the channel back to the cockpit
\* included: what the gateway publishes is an answer the cockpit knows, also
\* when the handle that timed out is gone.
THEOREM SystemTypeCorrect == SystemSpec => []SystemTypeOK
<1>1. SystemInv => SystemTypeOK
  BY SameActions DEF SystemInv, SystemTypeOK, AnswersOK, P!IInv
<1>2. QED
  BY <1>1, SystemInvariance, PTL

\* At the monitor screen the last request on its way is END, with the gateway
\* at the other end.
THEOREM SystemLastIsEnd == SystemSpec => []EndLast
<1>1. SystemInv => EndLast
  BY DEF SystemInv
<1>2. QED
  BY <1>1, SystemInvariance, PTL

\* The system's cockpit behaves as Cockpit specifies.
THEOREM CockpitInside == SystemSpec => Spec
<1>1. SystemInv /\ [SystemNext]_systemVars => [Next]_vars
  BY CockpitStep DEF SystemInv
<1>2. SystemInit => Init
  BY DEF SystemInit
<1>3. QED
  BY <1>1, <1>2, SystemInvariance, PTL DEF Spec, SystemSpec

\* The system's gateway behaves as Gateway specifies, a report read as a
\* request included: its list, subscriptions, timers and the end of control
\* with a lost connection are as GatewayProofs says.
THEOREM GatewayInside == SystemSpec => P!Spec
<1>1. SystemInv /\ [SystemNext]_systemVars => [P!Next]_(P!vars)
  BY GatewayStep DEF SystemInv
<1>2. SystemInit => P!Init
  BY SameActions DEF SystemInit
<1>3. QED
  BY <1>1, <1>2, SystemInvariance, PTL DEF P!Spec, SystemSpec

-----------------------------------------------------------------------------
(* The messages posted to the cockpit's main thread *)

\* A message handled without another posted.
LEMMA Taken ==
    ASSUME TypeOK, events # <<>>, Take(<<>>)
    PROVE  /\ Len(events) \in Nat /\ Len(events) >= 1
           /\ DOMAIN events = 1..Len(events)
           /\ DOMAIN events' = 1..(Len(events) - 1)
           /\ \A i \in DOMAIN events' : events'[i] = events[i+1]
           /\ Head(events) = events[1]
<1>1. events \in Seq(Messages)
  BY DEF TypeOK
<1>2. Tail(events) \in Seq(Messages)
  BY <1>1, HeadTailProperties
<1>3. events' = Tail(events)
  BY <1>2, ConcatEmptySeq DEF Take
<1>4. QED
  BY <1>1, <1>2, <1>3, HeadTailProperties, LenProperties

\* A message handled and another posted.
LEMMA Reposted ==
    ASSUME TypeOK, events # <<>>, NEW n \in Messages, Take(<<n>>)
    PROVE  /\ Len(events) \in Nat /\ Len(events) >= 1
           /\ DOMAIN events = 1..Len(events)
           /\ DOMAIN events' = 1..Len(events)
           /\ \A i \in 1..(Len(events) - 1) : events'[i] = events[i+1]
           /\ events'[Len(events)] = n
           /\ Head(events) = events[1]
<1> DEFINE t == Tail(events)
<1>1. events \in Seq(Messages)
  BY DEF TypeOK
<1>2. /\ t \in Seq(Messages) /\ Len(t) = Len(events) - 1
      /\ \A i \in 1..Len(t) : t[i] = events[i+1]
  BY <1>1, HeadTailProperties
<1>3. /\ Len(events) \in Nat /\ Len(events) >= 1
      /\ DOMAIN events = 1..Len(events)
      /\ Head(events) = events[1]
  BY <1>1, LenProperties, EmptySeq
<1> HIDE DEF t
<1>4. events' = Append(t, n)
  BY <1>2, AppendIsConcat DEF Take, t
<1>5. /\ events' \in Seq(Messages)
      /\ Len(events') = Len(events)
      /\ \A i \in 1..Len(t) : events'[i] = t[i]
      /\ events'[Len(t) + 1] = n
  BY <1>2, <1>3, <1>4, AppendProperties
<1>6. DOMAIN events' = 1..Len(events)
  BY <1>5, LenProperties
<1>7. QED
  BY <1>2, <1>3, <1>5, <1>6

\* A message posted by another thread.
LEMMA Posting ==
    ASSUME TypeOK, NEW n \in Messages, events' = Append(events, n)
    PROVE  /\ Len(events) \in Nat
           /\ DOMAIN events = 1..Len(events)
           /\ DOMAIN events' = 1..(Len(events) + 1)
           /\ \A i \in DOMAIN events : events'[i] = events[i]
           /\ events'[Len(events) + 1] = n
<1>1. events \in Seq(Messages)
  BY DEF TypeOK
<1>2. QED
  BY <1>1, AppendProperties, LenProperties

LEMMA OnlyQuestion ==
    ASSUME TypeOK, OneQuestion, asking # <<>>
    PROVE  Front(asking) = <<>>
<1>1. asking \in Seq({"enter", "docked"})
  BY DEF TypeOK
<1>2. Len(asking) \in Nat \ {0} /\ Len(asking) <= 1
  BY <1>1, EmptySeq DEF OneQuestion, OneQuestionOpen
<1>3. QED
  BY <1>1, <1>2 DEF Front

-----------------------------------------------------------------------------
(* One question *)

LEMMA OneQuestionInit == Init => OneQuestion
BY DEF Init, OneQuestion, OneQuestionOpen

\* A handler that takes the message at the head, which may ask.
LEMMA TakenQuestion ==
    ASSUME TypeOK, OneQuestion, events # <<>>, Take(<<>>),
           layout' \in {layout, "Monitor"},
           \/ asking' = asking
           \/ /\ Head(events).cmd = "Enter"
              /\ asking' = Append(asking, "docked")
           \/ /\ Head(events).cmd = "Enter" /\ Head(events).to = "MainMonitor"
              /\ asking' = Append(asking, "enter")
              /\ layout' = layout
    PROVE  OneQuestion'
<1>1. /\ Len(events) \in Nat /\ Len(events) >= 1
      /\ DOMAIN events = 1..Len(events)
      /\ DOMAIN events' = 1..(Len(events) - 1)
      /\ \A i \in DOMAIN events' : events'[i] = events[i+1]
      /\ Head(events) = events[1]
  BY Taken
<1>2. \A i \in DOMAIN events' : i \in Nat /\ i+1 \in DOMAIN events /\ i+1 # 1
  BY <1>1
<1>3. CASE asking' = asking
  <2>1. ASSUME NEW i \in DOMAIN events', events'[i].cmd = "Enter"
        PROVE  /\ asking' = <<>>
               /\ \A j \in DOMAIN events' : events'[j].cmd = "Enter" => i = j
               /\ events'[i].to = "MainMonitor" => layout' = "Monitor"
    <3>1. events[i+1].cmd = "Enter"
      BY <1>1, <2>1
    <3>2. ASSUME NEW j \in DOMAIN events', events'[j].cmd = "Enter" PROVE i = j
      <4>1. i+1 = j+1
        BY <1>1, <1>2, <3>1, <3>2 DEF OneQuestion, OneQuestionOpen
      <4>2. QED
        BY <4>1, <1>2
    <3>3. QED
      BY <1>1, <1>2, <1>3, <3>1, <3>2 DEF OneQuestion, OneQuestionOpen
  <2>2. QED
    BY <1>3, <2>1 DEF OneQuestion, OneQuestionOpen
<1>4. CASE Head(events).cmd = "Enter" /\ asking' # asking
  <2>1. asking = <<>> /\ \A i \in DOMAIN events' : events'[i].cmd # "Enter"
    BY <1>1, <1>2, <1>4 DEF OneQuestion, OneQuestionOpen
  <2>2. Head(events).to = "MainMonitor" => layout = "Monitor"
    BY <1>1, <1>4 DEF OneQuestion, OneQuestionOpen
  <2>3. \/ asking' = <<"docked">>
        \/ asking' = <<"enter">> /\ layout' = "Monitor"
    BY <1>4, <2>1, <2>2
  <2>4. /\ Len(asking') = 1
        /\ Last(asking') = "enter" => layout' = "Monitor"
    BY <2>3 DEF Last
  <2>5. QED
    BY <2>1, <2>4 DEF OneQuestion, OneQuestionOpen
<1>5. QED
  BY <1>3, <1>4

\* A question is answered.
LEMMA Answered ==
    ASSUME TypeOK, OneQuestion, asking # <<>>, asking' = Front(asking),
           events' = events
    PROVE  OneQuestion'
<1>1. asking' = <<>>
  BY OnlyQuestion
<1>2. \A i \in DOMAIN events : events[i].cmd # "Enter"
  BY DEF OneQuestion, OneQuestionOpen
<1>3. QED
  BY <1>1, <1>2 DEF OneQuestion, OneQuestionOpen

LEMMA OneQuestionStep ==
    ASSUME TypeOK, OneQuestion, [Next]_vars, OneQuestionOpen'
    PROVE  OneQuestion'
<1>1. CASE UNCHANGED <<events, layout, asking>>
  BY <1>1 DEF OneQuestion, OneQuestionOpen
<1>2. ASSUME NEW key \in Keys, HandleButton(key) PROVE OneQuestion'
  <2> DEFINE n == [to |-> "InteractiveManager", cmd |-> key]
  <2>1. n \in Messages /\ n.cmd = key /\ n.to = "InteractiveManager"
    BY DEF Messages
  <2>2. events' = Append(events, n) /\ UNCHANGED <<layout, asking>>
    BY <1>2 DEF HandleButton, Emit, screens
  <2> HIDE DEF n
  <2>3. /\ Len(events) \in Nat
        /\ DOMAIN events = 1..Len(events)
        /\ DOMAIN events' = 1..(Len(events) + 1)
        /\ \A i \in DOMAIN events : events'[i] = events[i]
        /\ events'[Len(events) + 1] = n
    BY <2>1, <2>2, Posting
  <2>4. \A i \in DOMAIN events' : i \in DOMAIN events \/ i = Len(events) + 1
    BY <2>3
  <2>5. CASE key = "Enter"
    <3>1. Len(events) + 1 \in DOMAIN events'
      BY <2>3
    <3>2. \A i \in DOMAIN events' : events'[i].cmd = "Enter" => i = Len(events) + 1
      BY <2>1, <2>3, <2>5, <3>1 DEF OneQuestionOpen
    <3>3. asking = <<>>
      BY <2>1, <2>2, <2>3, <2>5, <3>1 DEF OneQuestionOpen
    <3>5. \A i \in DOMAIN events' : events'[i].cmd = "Enter" =>
             i = Len(events) + 1 /\ events'[i].to = "InteractiveManager"
      BY <2>1, <2>3, <3>2
    <3>6. QED
      BY <2>2, <3>3, <3>5 DEF OneQuestion
  <2>6. CASE key # "Enter"
    <3>1. \A i \in DOMAIN events' : events'[i].cmd = "Enter" =>
             i \in DOMAIN events /\ events'[i] = events[i]
      BY <2>1, <2>3, <2>4, <2>6
    <3>2. QED
      BY <2>2, <3>1 DEF OneQuestion, OneQuestionOpen
  <2>7. QED
    BY <2>5, <2>6
<1>3. ASSUME NEW imei \in Imei \cup {NoImei}, NEW result \in Results,
             RespRemotelHandler(imei, result)
      PROVE  OneQuestion'
  <2> DEFINE n == [to |-> "MainCamera", cmd |-> result]
  <2>1. n \in Messages /\ n.cmd # "Enter"
    BY DEF Messages, Results
  <2>2. /\ UNCHANGED <<layout, asking>>
        /\ events' = events \/ events' = Append(events, n)
    BY <1>3 DEF RespRemotelHandler, screens
  <2> HIDE DEF n
  <2>3. CASE events' = Append(events, n)
    <3>1. /\ Len(events) \in Nat
          /\ DOMAIN events = 1..Len(events)
          /\ DOMAIN events' = 1..(Len(events) + 1)
          /\ \A i \in DOMAIN events : events'[i] = events[i]
          /\ events'[Len(events) + 1] = n
      BY <2>1, <2>3, Posting
    <3>2. \A i \in DOMAIN events' : i \in DOMAIN events \/ i = Len(events) + 1
      BY <3>1
    <3>3. \A i \in DOMAIN events' : events'[i].cmd = "Enter" =>
             i \in DOMAIN events /\ events'[i] = events[i]
      BY <2>1, <3>1, <3>2
    <3>4. QED
      BY <2>2, <3>3 DEF OneQuestion, OneQuestionOpen
  <2>4. QED
    BY <1>1, <2>2, <2>3
<1>4. ASSUME events # <<>>, InteractiveManager(Head(events)) PROVE OneQuestion'
  <2> DEFINE m == Head(events)
             n == [to |-> IF m.cmd \in {"PageUp", "PageDown"} THEN "MainCamera"
                                                              ELSE FocusModule,
                   cmd |-> m.cmd]
  <2>1. m.cmd \in Keys /\ Take(<<n>>) /\ UNCHANGED <<layout, asking>>
    BY <1>4, HeadType DEF InteractiveManager, screens, Keys, Results
  <2>2. n \in Messages
    BY <2>1 DEF Messages, Screens, FocusModule
  <2>3. n.cmd = m.cmd /\ (n.to = "MainMonitor" => layout = "Monitor")
    BY DEF FocusModule
  <2> HIDE DEF n
  <2>4. /\ Len(events) \in Nat /\ Len(events) >= 1
        /\ DOMAIN events = 1..Len(events)
        /\ DOMAIN events' = 1..Len(events)
        /\ \A i \in 1..(Len(events) - 1) : events'[i] = events[i+1]
        /\ events'[Len(events)] = n
        /\ m = events[1]
    BY <1>4, <2>1, <2>2, Reposted
  <2> HIDE DEF m
  <2> DEFINE from(i) == IF i = Len(events) THEN 1 ELSE i + 1
  <2>5. \A i \in DOMAIN events' : from(i) \in DOMAIN events
    BY <2>4
  <2>6. \A i, j \in DOMAIN events' : from(i) = from(j) => i = j
    BY <2>4
  <2>7. \A i \in DOMAIN events' :
           /\ events'[i].cmd = events[from(i)].cmd
           /\ events'[i].to = "MainMonitor" =>
                 layout = "Monitor" \/ events[from(i)].to = "MainMonitor"
    BY <2>3, <2>4
  <2> HIDE DEF from
  <2>8. QED
    BY <2>1, <2>5, <2>6, <2>7 DEF OneQuestion, OneQuestionOpen
<1>5. ASSUME events # <<>>,
             RemoteResult(Head(events)) \/ MainCameraKey(Head(events))
                \/ RightCameraEscape(Head(events))
      PROVE  OneQuestion'
  BY <1>5, TakenQuestion
  DEF RemoteResult, MainCameraKey, RightCameraEscape, mainCamera
<1>6. ASSUME events # <<>>,
             RightCameraEnter(Head(events)) \/ MainMonitorKey(Head(events))
      PROVE  OneQuestion'
  BY <1>6, TakenQuestion DEF RightCameraEnter, MainMonitorKey
<1>7. ASSUME \/ \E imei \in Imei \cup {NoImei} : EnterRemoteControl(imei)
             \/ ReportDocked
             \/ AnswerNo
      PROVE  OneQuestion'
  BY <1>7, Answered DEF EnterRemoteControl, ReportDocked, AnswerNo
<1>8. CASE Received \/ UNCHANGED vars
  BY <1>1, <1>8 DEF Received, vars, screens
<1>9. QED
  BY <1>2, <1>3, <1>4, <1>5, <1>6, <1>7, <1>8 DEF Next, Driver, HandleEvent

-----------------------------------------------------------------------------
(* The gateway, asked for one vehicle at a time *)

\* The command in hand for a connection: sent, or still to be sent.
InHand(c) ==
    \/ handle[c].cmds # <<>>
    \/ \E i \in DOMAIN posted :
          posted[i].imei = handle[c].imei /\ c \in posted[i].rcv

LEMMA OwedIs ==
    /\ Owed <=> zmq.pc = "emit" \/ \E c \in P!Listed : InHand(c)
    /\ Owed' <=> zmq'.pc = "emit" \/ \E c \in P!Listed' : InHand(c)'
<1>1. G!Listed = P!Listed
  BY SameHelpers
<1>2. G!Listed' = P!Listed'
  BY DEF G!Listed, P!Listed, G!ListedIn, P!ListedIn
<1>3. QED
  BY <1>1, <1>2 DEF Owed, Unanswered, InHand, G!PostedTo

\* The connection of a vehicle is the one a lookup finds.
LEMMA OnlyLookup ==
    ASSUME OneConnectionEach, P!IInv, NEW c \in P!Listed, handle[c].imei \in Imei
    PROVE  P!GetDevHandle(handle[c].imei) = c
<1>1. P!TypeOK /\ P!IndexAgrees
  BY DEF P!IInv
<1>2. ASSUME NEW d \in P!Listed \ {c}, handle[d].imei = handle[c].imei PROVE FALSE
  BY <1>2, SameHelpers, CockpitAssumption DEF OneConnectionEach
<1>3. QED
  BY GatewayAssumed, <1>1, <1>2, P!MissedLookup

\* The connection in hand is the controlled one, if there is one.
LEMMA OnlyInHand ==
    ASSUME OneConnectionEach, P!IInv, NEW v, OneInHand(v),
           controlFastDev # NoDev, NEW c \in P!Listed, InHand(c)
    PROVE  c = controlFastDev
<1>1. /\ controlFastDev \in P!Listed /\ handle[controlFastDev].imei = v
      /\ v \in Imei
  BY DEF OneInHand, P!IInv, P!Identities
<1>2. handle[c].imei = v
  BY DEF InHand, OneInHand
<1>3. QED
  BY <1>1, <1>2, SameHelpers, CockpitAssumption DEF OneConnectionEach

\* Destroying handles takes nothing from those that are left, and owes nobody
\* an answer.
LEMMA Kept ==
    ASSUME P!IInv, NEW v, OneInHand(v),
           NEW f \in [Conn -> P!Handles], NEW keep,
           handle' = P!Surviving(f, keep),
           \A c \in Conn : /\ f[c].imei = handle[c].imei
                           /\ f[c].cmds # <<>> => handle[c].cmds # <<>>
    PROVE  /\ \A c \in Conn \cap keep : handle'[c] = f[c]
           /\ \A c \in Conn : handle'[c].wired > 0 => f[c].wired > 0
           /\ \A c \in Conn : handle'[c].cmds # <<>> =>
                 handle[c].cmds # <<>> /\ handle'[c].imei = handle[c].imei
           /\ DOMAIN P!Undelivered(keep) = DOMAIN posted
           /\ \A i \in DOMAIN posted :
                 /\ P!Undelivered(keep)[i].imei = posted[i].imei
                 /\ P!Undelivered(keep)[i].rcv = posted[i].rcv \cap keep
                 /\ \A c \in P!Undelivered(keep)[i].rcv :
                       c \in Conn /\ handle'[c].imei = handle[c].imei
<1>1. /\ P!TypeOK /\ P!NoHandle.wired = 0 /\ P!NoHandle.cmds = <<>>
      /\ posted \in Seq(P!Emissions)
  BY DEF P!IInv, P!TypeOK, P!NoHandle
<1>2. \A c \in Conn : handle'[c] = IF c \in keep THEN f[c] ELSE P!NoHandle
  BY GatewayAssumed, P!SurvivingType
<1>3. ASSUME NEW i \in DOMAIN posted
      PROVE  /\ posted[i] \in P!Emissions
             /\ P!Undelivered(keep)[i] = [posted[i] EXCEPT !.rcv = @ \cap keep]
  BY <1>1, <1>3, LenProperties, ElementOfSeq DEF P!Undelivered
<1>4. ASSUME NEW i \in DOMAIN posted
      PROVE  /\ P!Undelivered(keep)[i].rcv = posted[i].rcv \cap keep
             /\ P!Undelivered(keep)[i].imei = posted[i].imei
             /\ posted[i].rcv \subseteq Conn
  BY <1>3 DEF P!Emissions
<1>5. DOMAIN P!Undelivered(keep) = DOMAIN posted
  BY DEF P!Undelivered
<1>6. \A c \in Conn \cap keep : handle'[c] = f[c]
  BY <1>2
<1>7. \A i \in DOMAIN posted : \A c \in P!Undelivered(keep)[i].rcv :
         c \in Conn /\ handle'[c].imei = handle[c].imei
  BY <1>4, <1>6
<1>8. \A c \in Conn : handle'[c].wired > 0 => f[c].wired > 0
  BY <1>1, <1>2
<1>9. \A c \in Conn : handle'[c].cmds # <<>> =>
         handle[c].cmds # <<>> /\ handle'[c].imei = handle[c].imei
  BY <1>1, <1>2
<1>10. QED
  BY <1>4, <1>5, <1>6, <1>7, <1>8, <1>9

\* So whoever is left with a command in hand had it before.
LEMMA KeptInHand ==
    ASSUME P!IInv, NEW v, OneInHand(v),
           NEW f \in [Conn -> P!Handles], NEW keep,
           handle' = P!Surviving(f, keep), posted' = P!Undelivered(keep),
           \A c \in Conn : /\ f[c].imei = handle[c].imei
                           /\ f[c].cmds # <<>> => handle[c].cmds # <<>>,
           NEW c \in Conn, InHand(c)'
    PROVE  InHand(c)
<1>1. CASE handle'[c].cmds # <<>>
  BY <1>1, Kept DEF InHand
<1>2. CASE ~ (handle'[c].cmds # <<>>)
  <2>1. PICK i \in DOMAIN posted' : posted'[i].imei = handle'[c].imei /\ c \in posted'[i].rcv
    BY <1>2 DEF InHand
  <2>2. /\ i \in DOMAIN posted /\ posted[i].imei = posted'[i].imei
        /\ c \in posted[i].rcv /\ handle'[c].imei = handle[c].imei
    BY <2>1, Kept
  <2>3. QED
    BY <2>1, <2>2 DEF InHand
<1>3. QED
  BY <1>1, <1>2

\* Retarget with a table in which at most the target is wired.
LEMMA Retargeted ==
    ASSUME P!IInv, NEW v, OneInHand(v),
           NEW f \in [Conn -> P!Handles], NEW d \in P!Listed \cup {NoDev},
           d # NoDev => handle[d].imei = v /\ d # closing',
           P!Retarget(d, f), UNCHANGED <<devList, zmq>>,
           \A c \in Conn : /\ f[c].imei = handle[c].imei
                           /\ f[c].cmds # <<>> => handle[c].cmds # <<>>
                           /\ f[c].wired > 0 => d = c
    PROVE  controlFastDev' = d /\ OneInHand(v)' /\ (Owed' => Owed)
<1> DEFINE keep == P!Owned(devList, d, zmq.dev)
<1>1. /\ controlFastDev' = d /\ handle' = P!Surviving(f, keep)
      /\ posted' = P!Undelivered(keep)
  BY DEF P!Retarget
<1>2. P!Listed \subseteq Conn /\ P!Listed \subseteq keep /\ P!Listed' = P!Listed
  BY GatewayAssumed, P!ListedType DEF P!IInv, P!Owned, P!Listed
<1> HIDE DEF keep
<1>3. /\ \A c \in Conn \cap keep : handle'[c] = f[c]
      /\ \A c \in Conn : handle'[c].wired > 0 => f[c].wired > 0
      /\ \A c \in Conn : handle'[c].cmds # <<>> =>
            handle[c].cmds # <<>> /\ handle'[c].imei = handle[c].imei
      /\ DOMAIN posted' = DOMAIN posted
      /\ \A i \in DOMAIN posted : posted'[i].imei = posted[i].imei
  BY <1>1, Kept
<1>4. d # NoDev => d \in P!Listed \ {closing'} /\ handle'[d].imei = v
  BY <1>2, <1>3
<1>5. OneInHand(v)'
  <2>1. \A c \in P!Listed' : handle'[c].cmds # <<>> => handle'[c].imei = v
    BY <1>2, <1>3 DEF OneInHand
  <2>2. \A c \in Conn : handle'[c].wired > 0 => controlFastDev' = c
    BY <1>1, <1>3
  <2>3. \A i \in DOMAIN posted' : posted'[i].imei = v
    BY <1>3 DEF OneInHand
  <2>4. QED
    BY <1>1, <1>2, <1>4, <2>1, <2>2, <2>3 DEF OneInHand
<1>6. Owed' => Owed
  <2>1. \A c \in P!Listed : InHand(c)' => InHand(c)
    BY <1>1, <1>2, KeptInHand
  <2>2. QED
    BY <1>2, <2>1, OwedIs
<1>7. QED
  BY <1>1, <1>5, <1>6

\* Giving up control.
LEMMA Released ==
    ASSUME P!IInv, NEW v, OneInHand(v), NEW f \in [Conn -> P!Handles],
           P!Release(f), UNCHANGED <<devList, zmq>>,
           \A c \in Conn : /\ f[c].imei = handle[c].imei
                           /\ f[c].cmds # <<>> => handle[c].cmds # <<>>
                           /\ f[c].wired = handle[c].wired
    PROVE  controlFastDev' = NoDev /\ OneInHand(v)' /\ (Owed' => Owed)
<1> DEFINE g == [c \in Conn |-> IF c = controlFastDev
                                THEN [f[c] EXCEPT !.wired = 0] ELSE f[c]]
<1>1. P!Retarget(NoDev, g)
  BY DEF P!Release
<1>2. /\ g \in [Conn -> P!Handles]
      /\ \A c \in Conn : /\ g[c].imei = f[c].imei
                         /\ g[c].cmds = f[c].cmds
                         /\ g[c].wired = IF c = controlFastDev THEN 0 ELSE f[c].wired
  BY DEF P!Handles
<1> HIDE DEF g
<1>3. \A c \in Conn : ~ (g[c].wired > 0)
  BY <1>2 DEF OneInHand
<1>4. QED
  BY <1>1, <1>2, <1>3, Retargeted

\* What a step of the gateway keeps true, the arrival of a request apart; and
\* of a step that publishes no answer: it grants no control, and leaves
\* control only with a command unanswered if there was one before.
GatewayKeeps(v) == OneInHand(v)' /\ EndIsOwed' /\ (StartStored' => StartStored)

Quiet ==
    controlFastDev' # NoDev =>
       /\ controlFastDev' = controlFastDev
       /\ zmq'.pc # "found" /\ ~ Owed' => zmq.pc # "found" /\ ~ Owed

\* Control is lost, or was not there.
LEMMA UncontrolledStep ==
    ASSUME NEW v, controlFastDev' = NoDev, OneInHand(v)', Owed' => Owed,
           UNCHANGED <<zmq, lastReqControlCmd>>
    PROVE  GatewayKeeps(v) /\ Quiet
BY DEF GatewayKeeps, Quiet, EndIsOwed, StartStored

\* Nothing changes in what is owed, stored or controlled.
LEMMA UnchangedStep ==
    ASSUME NEW v, UNCHANGED <<controlFastDev, zmq, lastReqControlCmd>>,
           Owed' <=> Owed, OneInHand(v)', EndIsOwed
    PROVE  GatewayKeeps(v) /\ Quiet
BY DEF GatewayKeeps, Quiet, EndIsOwed, StartStored

LEMMA StoreKeeps ==
    ASSUME P!IInv, NEW v, OneInHand(v), P!ZmqStoreLastReq
    PROVE  GatewayKeeps(v) /\ Quiet
<1>1. /\ zmq.pc = "found" /\ lastReqControlCmd' = zmq.opt
      /\ zmq' = [zmq EXCEPT !.pc = "emit"] /\ zmq \in P!ZmqStates
      /\ UNCHANGED <<devList, handle, controlFastDev, posted, closing>>
  BY DEF P!ZmqStoreLastReq, P!fastVars, P!IInv, P!TypeOK
<1>2. zmq'.pc = "emit" /\ zmq'.imei = zmq.imei
  BY <1>1 DEF P!ZmqStates
<1>3. Owed'
  BY <1>2 DEF Owed
<1>4. OneInHand(v)'
  BY <1>1, <1>2 DEF OneInHand, P!Listed
<1>5. QED
  BY <1>1, <1>2, <1>3, <1>4 DEF GatewayKeeps, Quiet, EndIsOwed, StartStored

LEMMA EmitKeeps ==
    ASSUME P!IInv, NEW v, OneInHand(v), EndIsOwed, P!ZmqEmit
    PROVE  GatewayKeeps(v) /\ Quiet
<1> DEFINE keep == P!Owned(devList, controlFastDev, NoDev)
           e == [imei |-> zmq.imei, opt |-> zmq.opt, rcv |-> keep]
           u == P!Undelivered(keep)
<1>1. /\ zmq.pc = "emit" /\ posted' = Append(u, e)
      /\ handle' = P!Surviving(handle, keep)
      /\ zmq' = P!ZmqIdle
      /\ UNCHANGED <<devList, controlFastDev, lastReqControlCmd, closing>>
  BY DEF P!ZmqEmit, P!fastVars
<1>2. /\ P!TypeOK /\ P!Listed \subseteq Conn
      /\ handle \in [Conn -> P!Handles]
      /\ P!Lifetimes
  BY GatewayAssumed, P!ListedType DEF P!IInv, P!TypeOK
<1>3. keep \subseteq Conn /\ P!Listed \subseteq keep /\ P!Listed' = P!Listed
  <2>1. P!Listed' = P!Listed
    BY <1>1 DEF P!Listed
  <2>2. controlFastDev \in Conn \cup {NoDev}
    BY <1>2 DEF P!TypeOK
  <2>3. P!Listed \subseteq keep
    BY DEF P!Owned, P!Listed
  <2>4. keep \subseteq Conn
    BY <1>2, <2>2 DEF P!Owned, P!Listed
  <2> HIDE DEF keep
  <2>5. QED
    BY <2>1, <2>3, <2>4
<1>4. zmq'.pc = "idle"
  BY <1>1 DEF P!ZmqIdle
<1>5. e.rcv = keep /\ e.imei = v /\ e \in P!Emissions
  BY <1>1, <1>2, <1>3 DEF P!Emissions, P!TypeOK, P!ZmqStates, P!Lifetimes, OneInHand
<1> HIDE DEF e
<1>6. u \in Seq(P!Emissions) /\ DOMAIN u = DOMAIN posted
  <2> HIDE DEF keep
  <2>1. QED
    BY GatewayAssumed, <1>2, P!UndeliveredType
<1> HIDE DEF keep
<1>7. /\ \A c \in Conn \cap keep : handle'[c] = handle[c]
      /\ \A c \in Conn : handle'[c].wired > 0 => handle[c].wired > 0
      /\ \A i \in DOMAIN posted : u[i].imei = posted[i].imei
  BY <1>1, <1>2, Kept
<1> HIDE DEF u
<1>8. /\ DOMAIN posted' = 1..(Len(u) + 1) /\ Len(u) \in Nat
      /\ DOMAIN posted = 1..Len(u)
      /\ \A i \in 1..Len(u) : posted'[i] = u[i]
      /\ posted'[Len(u) + 1] = e
  BY <1>1, <1>5, <1>6, AppendProperties, LenProperties
<1>9. \A i \in DOMAIN posted' : posted'[i].imei = v
  <2>1. \A i \in DOMAIN posted' : i \in DOMAIN posted \/ i = Len(u) + 1
    BY <1>8
  <2>2. QED
    BY <1>5, <1>7, <1>8, <2>1 DEF OneInHand
<1>10. OneInHand(v)'
  <2>1. \A c \in P!Listed' : handle'[c] = handle[c]
    BY <1>2, <1>3, <1>7
  <2>2. \A c \in Conn : handle'[c].wired > 0 => controlFastDev' = c
    BY <1>1, <1>7 DEF OneInHand
  <2>3. QED
    BY <1>1, <1>3, <1>4, <1>9, <2>1, <2>2 DEF OneInHand
<1>11. controlFastDev # NoDev => Owed'
  <2>1. Len(u) + 1 \in DOMAIN posted'
    BY <1>8
  <2>2. ASSUME controlFastDev # NoDev, NEW d, d = controlFastDev
        PROVE  d \in P!Listed' /\ InHand(d)'
    <3>1. d \in P!Listed' /\ handle'[d].imei = v
      BY <1>2, <1>3, <1>7, <2>2 DEF OneInHand
    <3>2. QED
      BY <1>1, <1>3, <1>5, <1>8, <2>1, <3>1 DEF InHand
  <2>3. QED
    BY <2>2, OwedIs
<1>12. Owed
  BY <1>1 DEF Owed
<1>13. QED
  BY <1>1, <1>4, <1>10, <1>11, <1>12 DEF GatewayKeeps, Quiet, EndIsOwed, StartStored

LEMMA DequeueKeeps ==
    ASSUME P!IInv, NEW v, OneInHand(v), EndIsOwed, P!Dequeue
    PROVE  GatewayKeeps(v) /\ Quiet
<1>1. /\ posted # <<>> /\ Head(posted).rcv = {} /\ posted' = Tail(posted)
      /\ UNCHANGED <<devList, handle, controlFastDev, lastReqControlCmd, zmq, closing>>
      /\ posted \in Seq(P!Emissions)
  BY DEF P!Dequeue, P!fastVars, P!IInv, P!TypeOK
<1>2. /\ Len(posted) \in Nat /\ DOMAIN posted = 1..Len(posted)
      /\ posted[1].rcv = {}
      /\ DOMAIN posted' = 1..(Len(posted) - 1)
      /\ \A i \in DOMAIN posted' : posted'[i] = posted[i+1]
  BY <1>1, HeadTailProperties, LenProperties
<1>3. \A i \in DOMAIN posted' : i+1 \in DOMAIN posted
  BY <1>2
<1>4. ASSUME NEW c, NEW i \in DOMAIN posted, c \in posted[i].rcv
      PROVE  \E j \in DOMAIN posted' : posted'[j] = posted[i]
  <2>1. i # 1
    BY <1>2, <1>4
  <2>2. i - 1 \in DOMAIN posted' /\ posted'[i-1] = posted[i]
    BY <1>2, <2>1
  <2>3. QED
    BY <2>2
<1>5. Owed' <=> Owed
  <2>1. ASSUME NEW c PROVE InHand(c)' <=> InHand(c)
    <3>1. InHand(c)' => InHand(c)
      BY <1>1, <1>2, <1>3 DEF InHand
    <3>2. InHand(c) => InHand(c)'
      BY <1>1, <1>4 DEF InHand
    <3>3. QED
      BY <3>1, <3>2
  <2>2. P!Listed' = P!Listed
    BY <1>1 DEF P!Listed
  <2>3. QED
    BY <1>1, <2>1, <2>2, OwedIs
<1>6. OneInHand(v)'
  BY <1>1, <1>2, <1>3 DEF OneInHand, P!Listed
<1>7. QED
  BY <1>1, <1>5, <1>6, UnchangedStep

\* A command that reaches a connected vehicle is owed an answer instead; one
\* that reaches nobody is in nobody's hand.
LEMMA SlotKeeps ==
    ASSUME P!IInv, NEW v, OneInHand(v), EndIsOwed,
           NEW c \in Conn, P!HandleReqControlCmdSlot(c)
    PROVE  GatewayKeeps(v) /\ Quiet
<1>1. /\ posted # <<>> /\ c \in Head(posted).rcv
      /\ posted' = [posted EXCEPT ![1].rcv = @ \ {c}]
      /\ UNCHANGED <<devList, controlFastDev, lastReqControlCmd, zmq, closing>>
      /\ posted \in Seq(P!Emissions) /\ handle \in [Conn -> P!Handles]
  BY DEF P!HandleReqControlCmdSlot, P!fastVars, P!IInv, P!TypeOK
<1>2. /\ Len(posted) \in Nat \ {0} /\ DOMAIN posted = 1..Len(posted)
      /\ Head(posted) = posted[1]
      /\ \A i \in DOMAIN posted : posted[i] \in P!Emissions
  BY <1>1, EmptySeq, LenProperties, ElementOfSeq
<1>3. 1 \in DOMAIN posted /\ c \in posted[1].rcv /\ P!Listed' = P!Listed
  BY <1>1, <1>2 DEF P!Listed
<1>4. /\ DOMAIN posted' = DOMAIN posted
      /\ \A i \in DOMAIN posted :
            /\ posted'[i].imei = posted[i].imei
            /\ posted'[i].rcv = IF i = 1 THEN posted[i].rcv \ {c} ELSE posted[i].rcv
  BY <1>1, <1>2, <1>3 DEF P!Emissions
<1>5. P!Listed \subseteq Conn
  BY GatewayAssumed, P!ListedType DEF P!IInv
<1>6. CASE c \in P!Listed /\ handle[c].imei = posted[1].imei
  <2>1. handle' = [handle EXCEPT ![c].timer = TRUE,
                                 ![c].cmds = Append(@, posted[1].opt)]
    BY <1>2, <1>6 DEF P!HandleReqControlCmdSlot
  <2>2. \A d \in Conn : /\ handle'[d].imei = handle[d].imei
                        /\ handle'[d].wired = handle[d].wired
                        /\ d # c => handle'[d].cmds = handle[d].cmds
    BY <1>1, <2>1 DEF P!Handles
  <2>3. handle'[c].cmds # <<>>
    <3>1. handle'[c].cmds = Append(handle[c].cmds, posted[1].opt)
      BY <1>1, <2>1 DEF P!Handles
    <3>2. handle[c].cmds \in Seq(P!Opts) /\ posted[1].opt \in P!Opts
      BY <1>1, <1>2, <1>3 DEF P!Handles, P!Emissions
    <3>3. QED
      BY <3>1, <3>2, AppendProperties
  <2>4. handle[c].imei = v
    BY <1>3, <1>6 DEF OneInHand
  <2>5. OneInHand(v)'
    <3>1. \A d \in P!Listed' : handle'[d].cmds # <<>> => handle'[d].imei = v
      BY <1>3, <1>5, <2>2, <2>4 DEF OneInHand
    <3>2. \A d \in Conn : handle'[d].wired > 0 => controlFastDev' = d
      BY <1>1, <2>2 DEF OneInHand
    <3>3. controlFastDev # NoDev => handle'[controlFastDev].imei = v
      BY <1>5, <2>2 DEF OneInHand
    <3>4. QED
      BY <1>1, <1>3, <1>4, <3>1, <3>2, <3>3 DEF OneInHand
  <2>6. InHand(c) /\ InHand(c)'
    BY <1>3, <1>6, <2>3 DEF InHand
  <2>7. QED
    BY <1>1, <1>3, <1>6, <2>5, <2>6, OwedIs, UnchangedStep
<1>7. CASE ~ (c \in P!Listed /\ handle[c].imei = posted[1].imei)
  <2>1. \A d \in Conn : /\ handle'[d].imei = handle[d].imei
                        /\ handle'[d].wired = handle[d].wired
                        /\ handle'[d].cmds = handle[d].cmds
    <3>1. CASE handle' = handle
      BY <3>1
    <3>2. CASE handle[c].imei = posted[1].imei /\ c \notin P!Listed
      <4>1. handle' = [handle EXCEPT ![c].timer = TRUE, ![c].cmds = @]
        BY <1>2, <3>2 DEF P!HandleReqControlCmdSlot
      <4>2. QED
        BY <1>1, <4>1 DEF P!Handles
    <3>3. QED
      BY <1>2, <1>7, <3>1, <3>2 DEF P!HandleReqControlCmdSlot
  <2>2. ASSUME NEW d \in P!Listed PROVE InHand(d)' <=> InHand(d)
    <3>1. /\ d \in Conn /\ handle'[d].imei = handle[d].imei
          /\ handle'[d].cmds = handle[d].cmds
      BY <1>5, <2>1
    <3>2. \A i \in DOMAIN posted :
             posted[i].imei = handle[d].imei =>
                 (d \in posted'[i].rcv <=> d \in posted[i].rcv)
      BY <1>4, <1>7
    <3>3. QED
      BY <1>4, <3>1, <3>2 DEF InHand
  <2>3. OneInHand(v)'
    <3>1. \A d \in P!Listed' : handle'[d].cmds # <<>> => handle'[d].imei = v
      BY <1>3, <1>5, <2>1 DEF OneInHand
    <3>2. \A d \in Conn : handle'[d].wired > 0 => controlFastDev' = d
      BY <1>1, <2>1 DEF OneInHand
    <3>3. controlFastDev # NoDev => handle'[controlFastDev].imei = v
      BY <1>5, <2>1 DEF OneInHand
    <3>4. QED
      BY <1>1, <1>3, <1>4, <3>1, <3>2, <3>3 DEF OneInHand
  <2>4. QED
    BY <1>1, <1>3, <2>2, <2>3, OwedIs, UnchangedStep
<1>8. QED
  BY <1>6, <1>7

\* A connection that is new has nothing in hand.
LEMMA NewConnectKeeps ==
    ASSUME P!IInv, NEW v, OneInHand(v), EndIsOwed,
           NEW c \in Conn, P!HandleNewConnect(c)
    PROVE  GatewayKeeps(v) /\ Quiet
<1>1. /\ P!AddDev(c) /\ P!TypeOK /\ P!Lifetimes /\ c \notin P!Alive
      /\ UNCHANGED <<handle, controlFastDev, lastReqControlCmd, posted, zmq, closing>>
  BY DEF P!HandleNewConnect, P!fastVars, P!IInv
<1>2. P!Listed' = P!Listed \cup {c}
  BY GatewayAssumed, <1>1, P!Addition
<1>3. handle[c].cmds = <<>>
  BY <1>1 DEF P!Lifetimes, P!NoHandle
<1>4. ~ InHand(c)
  BY <1>1, <1>3 DEF InHand, P!Lifetimes
<1>5. OneInHand(v)'
  BY <1>1, <1>2, <1>3 DEF OneInHand
<1>6. \A d : InHand(d)' <=> InHand(d)
  BY <1>1 DEF InHand
<1>7. Owed' <=> Owed
  BY <1>1, <1>2, <1>4, <1>6, OwedIs
<1>8. QED
  BY <1>1, <1>5, <1>7, UnchangedStep

\* A vehicle that authenticates has nothing in hand, as it waits for that.
LEMMA AuthKeeps ==
    ASSUME P!IInv, NEW v, OneInHand(v), EndIsOwed, ConnectsWhenDone,
           NEW c \in Conn, NEW imei \in Imei, P!HandleAuth(c, imei)
    PROVE  GatewayKeeps(v) /\ Quiet
<1>1. /\ handle' = [handle EXCEPT ![c].imei = imei]
      /\ handle[c].imei \in {NoImei, imei} /\ c \in P!Listed
      /\ P!UpdateDev(c, imei)
      /\ UNCHANGED <<controlFastDev, lastReqControlCmd, posted, zmq, closing>>
      /\ handle \in [Conn -> P!Handles] /\ devList \in Seq(P!DevInfos)
      /\ P!Listed \subseteq Conn /\ P!Identities
  BY GatewayAssumed, P!ListedType DEF P!HandleAuth, P!fastVars, P!IInv, P!TypeOK
<1>2. \A d \in Conn : /\ handle'[d].imei = IF d = c THEN imei ELSE handle[d].imei
                      /\ handle'[d].wired = handle[d].wired
                      /\ handle'[d].cmds = handle[d].cmds
  BY <1>1 DEF P!Handles
<1>3. P!Listed' = P!Listed
  <2>1. \A i \in DOMAIN devList : devList[i] \in P!DevInfos
    BY <1>1, LenProperties, ElementOfSeq
  <2>2. /\ DOMAIN devList' = DOMAIN devList
        /\ \A i \in DOMAIN devList : devList'[i].sock = devList[i].sock
    BY <1>1, <2>1 DEF P!UpdateDev, P!DevInfos
  <2>3. QED
    BY <2>2 DEF P!Listed, P!ListedIn
<1>4. CASE handle[c].imei = imei
  <2>1. \A d \in Conn : handle'[d].imei = handle[d].imei
    BY <1>2, <1>4
  <2>2. \A d \in P!Listed : InHand(d)' <=> InHand(d)
    BY <1>1, <1>2, <2>1 DEF InHand
  <2>3. OneInHand(v)'
    <3>1. controlFastDev # NoDev => handle'[controlFastDev].imei = v
      BY <1>1, <2>1 DEF OneInHand
    <3>2. QED
      BY <1>1, <1>2, <1>3, <2>1, <3>1 DEF OneInHand
  <2>4. QED
    BY <1>1, <1>3, <2>2, <2>3, OwedIs, UnchangedStep
<1>5. CASE handle[c].imei = NoImei
  <2>1. NoImei \notin Imei
    BY CockpitAssumption
  <2>2. handle[c].cmds = <<>> /\ c # controlFastDev
    BY <1>1, <1>5, <2>1, SystemAssumption DEF P!Identities
  <2>3. \A i \in DOMAIN posted : posted[i].imei # imei
    <3>1. handle'[c].imei = imei
      BY <1>2
    <3>2. ~ G!InTransit(imei)
      BY <1>5, <2>1, <3>1 DEF ConnectsWhenDone
    <3>3. QED
      BY <3>2 DEF G!InTransit
  <2>4. ~ InHand(c) /\ ~ InHand(c)'
    <3>1. \A i \in DOMAIN posted : posted[i].imei # NoImei
      <4>1. \A i \in DOMAIN posted : posted[i] \in P!Emissions
        BY LenProperties, ElementOfSeq DEF P!IInv, P!TypeOK
      <4>2. QED
        BY <2>1, <4>1 DEF P!Emissions
    <3>2. QED
      BY <1>1, <1>2, <1>5, <2>2, <2>3, <3>1 DEF InHand
  <2>5. \A d \in P!Listed \ {c} : InHand(d)' <=> InHand(d)
    BY <1>1, <1>2 DEF InHand
  <2>6. OneInHand(v)'
    <3>1. controlFastDev # NoDev => handle'[controlFastDev].imei = v
      BY <1>1, <1>2, <2>2 DEF OneInHand
    <3>2. \A d \in P!Listed' : handle'[d].cmds # <<>> => handle'[d].imei = v
      BY <1>1, <1>2, <1>3, <2>2 DEF OneInHand
    <3>3. QED
      BY <1>1, <1>2, <1>3, <3>1, <3>2 DEF OneInHand
  <2>7. Owed' <=> Owed
    BY <1>1, <1>3, <2>4, <2>5, OwedIs
  <2>8. QED
    BY <1>1, <2>6, <2>7, UnchangedStep
<1>6. QED
  BY <1>1, <1>4, <1>5

\* The connection that is lost is not the controlled one, or control ends.
LEMMA LossKeeps ==
    ASSUME OneConnectionEach, P!IInv, NEW v, OneInHand(v), EndIsOwed,
           NEW c \in Conn, P!DevDisConnected(c)
    PROVE  GatewayKeeps(v) /\ Quiet
<1>1. /\ c \in P!Listed /\ closing' = c
      /\ UNCHANGED <<devList, lastReqControlCmd, zmq>>
      /\ controlFastDev \in Conn \cup {NoDev}
      /\ handle \in [Conn -> P!Handles]
      /\ handle[c].imei \in Imei \cup {NoImei}
  BY DEF P!DevDisConnected, P!IInv, P!TypeOK, P!Handles
<1>2. CASE UNCHANGED <<handle, controlFastDev, posted>> /\ controlFastDev # c
  <2>1. OneInHand(v)'
    BY <1>1, <1>2 DEF OneInHand, P!Listed
  <2>2. Owed' <=> Owed
    <3>1. \A d : InHand(d)' <=> InHand(d)
      BY <1>2 DEF InHand
    <3>2. P!Listed' = P!Listed
      BY <1>1 DEF P!Listed
    <3>3. QED
      BY <1>1, <3>1, <3>2, OwedIs
  <2>3. QED
    BY <1>1, <1>2, <2>1, <2>2, UnchangedStep
<1>3. CASE P!Release(handle)
  BY <1>1, <1>3, Released, UncontrolledStep
<1>4. CASE handle[c].imei = NoImei
  <2>1. controlFastDev # c
    BY <1>1, <1>4, CockpitAssumption, SystemAssumption DEF P!IInv, P!Identities, P!TypeOK
  <2>2. UNCHANGED <<handle, controlFastDev, posted>>
    BY <1>4 DEF P!DevDisConnected, P!fastVars
  <2>3. QED
    BY <1>2, <2>1, <2>2
<1>5. CASE handle[c].imei # NoImei
  <2>1. P!GetDevHandle(handle[c].imei) = c
    BY <1>1, <1>5, OnlyLookup
  <2>2. \/ P!Release(handle)
        \/ /\ UNCHANGED <<handle, controlFastDev, posted>>
           /\ ~ (controlFastDev # NoDev /\ controlFastDev = c)
    BY <1>5, <2>1 DEF P!DevDisConnected, P!HandleVehicleStatus, P!fastVars
  <2>3. c # NoDev
    BY SystemAssumption
  <2>4. QED
    BY <1>2, <1>3, <2>2, <2>3
<1>6. QED
  BY <1>4, <1>5

\* Whatever is deleted with the lost connection, it was not in hand for the
\* controlled vehicle.
LEMMA DeleteKeeps ==
    ASSUME OneConnectionEach, P!IInv, NEW v, OneInHand(v), EndIsOwed,
           P!HandleDevDisConnected
    PROVE  GatewayKeeps(v) /\ Quiet
<1> DEFINE keep == P!Owned(devList', controlFastDev, zmq.dev)
           f == [handle EXCEPT ![closing].cmds = <<>>]
<1>1. /\ closing # NoDev /\ closing' = NoDev
      /\ P!DelDev(closing)
      /\ handle' = P!Surviving(f, keep)
      /\ posted' = P!Undelivered(keep)
      /\ UNCHANGED <<controlFastDev, lastReqControlCmd, zmq>>
  BY DEF P!HandleDevDisConnected, P!fastVars
<1>2. /\ closing \in Conn /\ handle \in [Conn -> P!Handles]
      /\ P!TypeOK /\ P!IndexAgrees /\ P!Listed \subseteq Conn
  BY GatewayAssumed, <1>1, P!ListedType DEF P!IInv, P!TypeOK
<1>3. /\ f \in [Conn -> P!Handles]
      /\ \A c \in Conn : /\ f[c].imei = handle[c].imei
                         /\ f[c].wired = handle[c].wired
                         /\ f[c].cmds # <<>> => handle[c].cmds # <<>>
                         /\ c # closing => f[c] = handle[c]
  <2>1. <<>> \in Seq(P!Opts)
    BY EmptySeq
  <2>2. QED
    BY <1>2, <2>1 DEF P!Handles
<1>4. P!Listed' = P!Listed \ {closing} /\ P!Listed' \subseteq keep
  BY GatewayAssumed, <1>1, <1>2, P!Deletion DEF P!Owned, P!Listed
<1> HIDE DEF f, keep
<1>5. /\ \A c \in Conn \cap keep : handle'[c] = f[c]
      /\ \A c \in Conn : handle'[c].wired > 0 => f[c].wired > 0
      /\ DOMAIN posted' = DOMAIN posted
      /\ \A i \in DOMAIN posted : /\ posted'[i].imei = posted[i].imei
                                  /\ posted'[i].rcv = posted[i].rcv \cap keep
  BY <1>1, <1>3, Kept
<1>6. \A c \in P!Listed' : c \in Conn /\ handle'[c] = handle[c]
  BY <1>2, <1>3, <1>4, <1>5
<1>7. OneInHand(v)'
  <2>1. controlFastDev' # NoDev =>
           /\ controlFastDev' \in P!Listed' \ {closing'}
           /\ handle'[controlFastDev'].imei = v
    BY <1>1, <1>2, <1>4, <1>6, SystemAssumption DEF OneInHand
  <2>2. \A c \in P!Listed' : handle'[c].cmds # <<>> => handle'[c].imei = v
    BY <1>4, <1>6 DEF OneInHand
  <2>3. \A c \in Conn : handle'[c].wired > 0 => controlFastDev' = c
    BY <1>1, <1>3, <1>5 DEF OneInHand
  <2>4. QED
    BY <1>1, <1>5, <2>1, <2>2, <2>3 DEF OneInHand
<1>8. Owed' => Owed
  <2>1. \A c \in P!Listed' : InHand(c)' => InHand(c)
    BY <1>1, <1>3, <1>6, KeptInHand
  <2>2. QED
    BY <1>1, <1>4, <2>1, OwedIs
<1>9. CASE controlFastDev = NoDev
  BY <1>1, <1>7, <1>8, <1>9, UncontrolledStep
<1>10. CASE controlFastDev # NoDev
  <2>1. \A c \in P!Listed : InHand(c) => c \in P!Listed'
    BY <1>4, <1>10, OnlyInHand DEF OneInHand
  <2>2. \A c \in P!Listed' : InHand(c) => InHand(c)'
    BY <1>4, <1>5, <1>6 DEF InHand
  <2>3. Owed => Owed'
    BY <1>1, <2>1, <2>2, OwedIs
  <2>4. QED
    BY <1>1, <1>7, <1>8, <2>3, UnchangedStep
<1>11. QED
  BY <1>9, <1>10

\* An answer that leaves a vehicle under control is "accepted", and names it.
LEMMA AnswerKeeps ==
    ASSUME OneConnectionEach, P!IInv, NEW v, OneInHand(v), EndIsOwed,
           NEW c \in Conn, NEW result, P!HandleRespControlCmd(c, result)
    PROVE  /\ GatewayKeeps(v)
           /\ controlFastDev' # NoDev => result = "RECV" /\ handle[c].imei = v
<1> DEFINE acked == IF result = "RECV" THEN Head(handle[c].cmds) ELSE handle[c].acked
           g == [handle EXCEPT ![c].timer = FALSE,
                               ![c].cmds = Tail(@),
                               ![c].acked = acked]
<1>1. /\ c \in P!Listed /\ handle[c].cmds # <<>> /\ closing = NoDev
      /\ P!HandleReqControlCmdResult(handle[c].imei, result, g)
      /\ UNCHANGED <<devList, lastReqControlCmd, zmq, closing>>
      /\ handle \in [Conn -> P!Handles] /\ handle[c].imei \in Imei
  BY DEF P!HandleRespControlCmd, P!IInv, P!TypeOK, P!Identities
<1>2. Owed /\ handle[c].imei = v
  BY <1>1, OwedIs DEF InHand, OneInHand
<1>3. /\ g \in [Conn -> P!Handles]
      /\ \A d \in Conn : /\ g[d].imei = handle[d].imei
                         /\ g[d].wired = handle[d].wired
                         /\ g[d].cmds # <<>> => handle[d].cmds # <<>>
  <2>1. Tail(handle[c].cmds) \in Seq(P!Opts) /\ Head(handle[c].cmds) \in P!Opts
    BY <1>1, HeadTailProperties DEF P!Handles
  <2>2. acked \in P!Opts
    BY <1>1, <2>1 DEF P!Handles
  <2> HIDE DEF acked
  <2>3. QED
    BY <1>1, <2>1, <2>2 DEF P!Handles
<1> HIDE DEF g
<1>4. CASE result = "RECV" /\ lastReqControlCmd = "START"
  <2> DEFINE f == [d \in Conn |-> IF d = c THEN [g[d] EXCEPT !.wired = @ + 1]
                                           ELSE g[d]]
  <2>1. P!Retarget(c, f)
    BY <1>1, <1>4, OnlyLookup DEF P!HandleReqControlCmdResult, P!Grant
  <2>2. /\ f \in [Conn -> P!Handles]
        /\ \A d \in Conn : /\ f[d].imei = g[d].imei /\ f[d].cmds = g[d].cmds
                           /\ d # c => f[d].wired = g[d].wired
    BY <1>3 DEF P!Handles
  <2> HIDE DEF f
  <2>3. \A d \in Conn : handle[d].wired > 0 => d = c
    <3>1. controlFastDev # NoDev => controlFastDev = c
      <4>1. InHand(c)
        BY <1>1 DEF InHand
      <4>2. QED
        BY <1>1, <4>1, OnlyInHand
    <3>2. QED
      BY <3>1, SystemAssumption DEF OneInHand
  <2>4. \A d \in Conn : /\ f[d].imei = handle[d].imei
                        /\ f[d].cmds # <<>> => handle[d].cmds # <<>>
                        /\ f[d].wired > 0 => c = d
    BY <1>3, <2>2, <2>3
  <2>5. c # closing'
    BY <1>1, SystemAssumption
  <2>6. controlFastDev' = c /\ OneInHand(v)' /\ (Owed' => Owed)
    BY <1>1, <1>2, <2>1, <2>2, <2>4, <2>5, Retargeted
  <2>7. QED
    BY <1>1, <1>2, <1>4, <2>6 DEF GatewayKeeps, EndIsOwed, StartStored
<1>5. CASE ~ (result = "RECV" /\ lastReqControlCmd = "START")
  <2>1. P!Release(g)
    BY <1>1, <1>5 DEF P!HandleReqControlCmdResult
  <2>2. QED
    BY <1>1, <1>3, <2>1, Released, UncontrolledStep
<1>6. QED
  BY <1>4, <1>5

LEMMA TimeoutKeeps ==
    ASSUME P!IInv, NEW v, OneInHand(v), EndIsOwed,
           NEW c \in Conn, P!ControlCmdTimeOutSlots(c)
    PROVE  GatewayKeeps(v) /\ controlFastDev' = NoDev
<1> DEFINE g == [handle EXCEPT ![c].timer = FALSE]
<1>1. /\ P!HandleReqControlCmdResult(handle[c].imei, "TIMEOUT", g)
      /\ UNCHANGED <<devList, lastReqControlCmd, zmq>>
      /\ handle \in [Conn -> P!Handles]
  BY DEF P!ControlCmdTimeOutSlots, P!IInv, P!TypeOK
<1>2. /\ g \in [Conn -> P!Handles]
      /\ \A d \in Conn : /\ g[d].imei = handle[d].imei
                         /\ g[d].wired = handle[d].wired
                         /\ g[d].cmds = handle[d].cmds
  BY <1>1 DEF P!Handles
<1> HIDE DEF g
<1>3. P!Release(g)
  BY <1>1 DEF P!HandleReqControlCmdResult
<1>4. QED
  BY <1>1, <1>2, <1>3, Released, UncontrolledStep

-----------------------------------------------------------------------------
(* The newest request that names a vehicle *)

LEMMA GatewaySame ==
    ASSUME UNCHANGED gatewayVars
    PROVE  /\ StartStored' <=> StartStored
           /\ Owed' <=> Owed
           /\ EndIsOwed' <=> EndIsOwed
           /\ \A v : OneInHand(v)' <=> OneInHand(v)
<1>1. P!Listed' = P!Listed /\ (\A c : InHand(c)' <=> InHand(c))
  BY DEF gatewayVars, P!Listed, InHand
<1>2. Owed' <=> Owed
  BY <1>1, OwedIs DEF gatewayVars
<1>3. QED
  BY <1>1, <1>2 DEF gatewayVars, StartStored, OneInHand, EndIsOwed

\* Without a current vehicle a request is published that counts for nothing.
LEMMA Published ==
    ASSUME TypeOK, NEW opt \in {"UNKNOWN", "START", "END"}, Publish(opt),
           UNCHANGED gatewayVars
    PROVE  /\ Unnamed' => Unnamed
           /\ StartLast' => \/ currentVehicle \in Imei /\ opt = "START"
                            \/ currentVehicle = NoImei /\ StartLast
<1> DEFINE r == [imei |-> currentVehicle, opt |-> opt]
<1>1. requests \in Seq(Requests) /\ currentVehicle \in Imei \cup {NoImei}
  BY DEF TypeOK
<1>2. r \in Requests /\ r.imei = currentVehicle /\ r.opt = opt
  BY <1>1 DEF Requests
<1>3. requests' = Append(requests, r)
  BY DEF Publish
<1> HIDE DEF r
<1>4. /\ Len(requests) \in Nat /\ DOMAIN requests = 1..Len(requests)
      /\ DOMAIN requests' = 1..(Len(requests) + 1)
      /\ \A i \in DOMAIN requests : requests'[i] = requests[i]
      /\ requests'[Len(requests) + 1] = r
  BY <1>1, <1>2, <1>3, AppendProperties, LenProperties
<1> DEFINE n == Len(requests) + 1
<1>5. /\ n \in DOMAIN requests' /\ requests'[n] = r
      /\ DOMAIN requests \subseteq DOMAIN requests'
      /\ \A i \in DOMAIN requests' : i # n => i \in DOMAIN requests /\ n > i
  BY <1>4
<1> HIDE DEF n
<1>6. Unnamed' => Unnamed
  BY <1>4, <1>5 DEF Unnamed
<1>7. CASE currentVehicle \in Imei
  <2>1. r.imei # NoImei
    BY <1>2, <1>7, CockpitAssumption
  <2>2. ~ Unnamed'
    BY <1>5, <2>1 DEF Unnamed
  <2>3. StartOnItsWay' => opt = "START"
    BY <1>2, <1>5, <2>1 DEF StartOnItsWay
  <2>4. QED
    BY <1>6, <1>7, <2>2, <2>3 DEF StartLast
<1>8. CASE currentVehicle = NoImei
  <2>1. StartOnItsWay' => StartOnItsWay
    <3>1. ASSUME NEW i \in DOMAIN requests',
                 requests'[i].imei # NoImei, requests'[i].opt = "START",
                 \A j \in DOMAIN requests' : j > i => requests'[j].imei = NoImei
          PROVE  StartOnItsWay
      <4>1. i \in DOMAIN requests
        BY <1>2, <1>5, <1>8, <3>1
      <4>2. requests[i].imei # NoImei /\ requests[i].opt = "START"
        BY <1>4, <3>1, <4>1
      <4>3. \A j \in DOMAIN requests : j > i => requests[j].imei = NoImei
        BY <1>4, <1>5, <3>1
      <4>4. QED
        BY <4>1, <4>2, <4>3 DEF StartOnItsWay
    <3>2. QED
      BY <3>1 DEF StartOnItsWay
  <2>2. QED
    BY <1>6, <1>8, <2>1, GatewaySame DEF StartLast
<1>9. QED
  BY <1>1, <1>7, <1>8

\* The oldest request is taken.
LEMMA RequestTaken ==
    ASSUME TypeOK, Received
    PROVE  /\ StartOnItsWay' => StartOnItsWay
           /\ Head(requests).imei = NoImei => (Unnamed' <=> Unnamed)
           /\ /\ Head(requests).imei # NoImei /\ Head(requests).opt = "START"
              /\ Unnamed'
              => StartOnItsWay
<1>1. requests \in Seq(Requests) /\ requests # <<>> /\ requests' = Tail(requests)
  BY DEF TypeOK, Received
<1>2. /\ Len(requests) \in Nat \ {0} /\ DOMAIN requests = 1..Len(requests)
      /\ Head(requests) = requests[1]
      /\ DOMAIN requests' = 1..(Len(requests) - 1)
      /\ \A i \in DOMAIN requests' : requests'[i] = requests[i+1]
  BY <1>1, EmptySeq, HeadTailProperties, LenProperties
<1>3. 1 \in DOMAIN requests /\ \A i \in DOMAIN requests' : i+1 \in DOMAIN requests
  BY <1>2
<1>4. \A j \in DOMAIN requests :
         j > 1 => /\ j-1 \in DOMAIN requests'
                  /\ requests'[j-1] = requests[j]
  BY <1>2
<1>5. \A j \in DOMAIN requests : j = 1 \/ j > 1
  BY <1>2
<1>6. StartOnItsWay' => StartOnItsWay
  <2>1. ASSUME NEW i \in DOMAIN requests',
               requests'[i].imei # NoImei, requests'[i].opt = "START",
               \A j \in DOMAIN requests' : j > i => requests'[j].imei = NoImei
        PROVE  StartOnItsWay
    <3>1. requests[i+1].imei # NoImei /\ requests[i+1].opt = "START"
      BY <1>2, <2>1
    <3>2. ASSUME NEW j \in DOMAIN requests, j > i+1 PROVE requests[j].imei = NoImei
      <4>1. j > 1 /\ j-1 > i
        BY <1>2, <3>2
      <4>2. QED
        BY <1>4, <2>1, <4>1
    <3>3. QED
      BY <1>3, <3>1, <3>2 DEF StartOnItsWay
  <2>2. QED
    BY <2>1 DEF StartOnItsWay
<1>7. Head(requests).imei = NoImei => (Unnamed' <=> Unnamed)
  BY <1>2, <1>3, <1>4, <1>5 DEF Unnamed
<1>8. ASSUME Head(requests).imei # NoImei, Head(requests).opt = "START", Unnamed'
      PROVE  StartOnItsWay
  <2>1. \A j \in DOMAIN requests : j > 1 => requests[j].imei = NoImei
    BY <1>4, <1>8 DEF Unnamed
  <2>2. QED
    BY <1>2, <1>3, <1>8, <2>1 DEF StartOnItsWay
<1>9. QED
  BY <1>6, <1>7, <1>8

-----------------------------------------------------------------------------
(* The result the screen handles last *)

LEMMA KeysNoResults == "RECV" \notin Keys /\ Keys \cap Results = {}
BY DEF Keys, Results

\* A key is handled, and another perhaps posted.
LEMMA AcceptedTaken ==
    ASSUME TypeOK, AcceptedLast, events # <<>>, Head(events).cmd \in Keys,
           remoteStatus' = remoteStatus,
           Take(<<>>) \/ \E n \in Messages : n.cmd \in Keys /\ Take(<<n>>)
    PROVE  AcceptedLast'
<1> DEFINE Shifted ==
        /\ Len(events) \in Nat /\ Head(events) = events[1]
        /\ DOMAIN events = 1..Len(events) /\ DOMAIN events' \subseteq Nat
        /\ \A i \in DOMAIN events :
              i # 1 => i-1 \in DOMAIN events' /\ events'[i-1] = events[i]
        /\ \A j \in DOMAIN events' :
              \/ events'[j].cmd \in Keys
              \/ j+1 \in DOMAIN events /\ events'[j] = events[j+1]
<1>1. Shifted
  <2>1. CASE Take(<<>>)
    BY <2>1, Taken
  <2>2. ASSUME NEW n \in Messages, n.cmd \in Keys, Take(<<n>>)
        PROVE  Shifted
    BY <2>2, Reposted
  <2>3. QED
    BY <2>1, <2>2
<1>2. CASE \A j \in DOMAIN events : events[j].cmd \in Keys
  <2>1. remoteStatus = "RemoteControl"
    BY <1>2, KeysNoResults DEF AcceptedLast
  <2>2. QED
    BY <1>1, <1>2, <2>1 DEF AcceptedLast
<1>3. CASE ~ \A j \in DOMAIN events : events[j].cmd \in Keys
  <2>1. PICK i \in DOMAIN events :
           /\ events[i].cmd = "RECV"
           /\ \A j \in DOMAIN events : j > i => events[j].cmd \in Keys
    BY <1>3 DEF AcceptedLast
  <2>2. i # 1
    BY <1>1, <2>1, KeysNoResults
  <2>3. i-1 \in DOMAIN events' /\ events'[i-1].cmd = "RECV"
    BY <1>1, <2>1, <2>2
  <2>4. ASSUME NEW j \in DOMAIN events', j > i-1 PROVE events'[j].cmd \in Keys
    <3>1. j+1 > i
      BY <1>1, <2>4
    <3>2. QED
      BY <1>1, <2>1, <3>1
  <2>5. QED
    BY <2>3, <2>4 DEF AcceptedLast
<1>4. QED
  BY <1>2, <1>3

\* A result is handled after the request for control.
LEMMA AcceptedHandled ==
    ASSUME TypeOK, AcceptedLast, isRemoteApply,
           events # <<>>, RemoteResult(Head(events))
    PROVE  AcceptedLast'
<1>1. Head(events).cmd \in Results /\ Take(<<>>)
  BY DEF RemoteResult
<1>2. /\ Len(events) \in Nat /\ Len(events) >= 1
      /\ DOMAIN events = 1..Len(events)
      /\ DOMAIN events' = 1..(Len(events) - 1)
      /\ \A i \in DOMAIN events' : events'[i] = events[i+1]
      /\ Head(events) = events[1]
  BY <1>1, Taken
<1>3. PICK i \in DOMAIN events :
         /\ events[i].cmd = "RECV"
         /\ \A j \in DOMAIN events : j > i => events[j].cmd \in Keys
  <2>1. 1 \in DOMAIN events /\ events[1].cmd \notin Keys
    BY <1>1, <1>2, KeysNoResults
  <2>2. QED
    BY <2>1 DEF AcceptedLast
<1>4. ASSUME NEW j \in DOMAIN events', j > i-1 PROVE events'[j].cmd \in Keys
  <2>1. j+1 \in DOMAIN events /\ j+1 > i
    BY <1>2, <1>4
  <2>2. QED
    BY <1>2, <1>3, <2>1
<1>5. CASE i = 1
  <2>1. remoteStatus' = "RemoteControl"
    BY <1>2, <1>3, <1>5 DEF RemoteResult
  <2>2. \A j \in DOMAIN events' : j > i-1
    BY <1>2, <1>5
  <2>3. QED
    BY <1>4, <2>1, <2>2 DEF AcceptedLast
<1>6. CASE i # 1
  <2>1. i-1 \in DOMAIN events' /\ events'[i-1].cmd = "RECV"
    BY <1>2, <1>3, <1>6
  <2>2. QED
    BY <1>4, <2>1 DEF AcceptedLast
<1>7. QED
  BY <1>5, <1>6

\* A key is posted, or "accepted".
LEMMA AcceptedPosted ==
    ASSUME TypeOK, NEW n \in Messages, events' = Append(events, n),
           remoteStatus' = remoteStatus,
           n.cmd = "RECV" \/ (n.cmd \in Keys /\ AcceptedLast)
    PROVE  AcceptedLast'
<1>1. /\ Len(events) \in Nat
      /\ DOMAIN events = 1..Len(events)
      /\ DOMAIN events' = 1..(Len(events) + 1)
      /\ \A i \in DOMAIN events : events'[i] = events[i]
      /\ events'[Len(events) + 1] = n
  BY Posting
<1>2. \A j \in DOMAIN events' : j \in DOMAIN events \/ j = Len(events) + 1
  BY <1>1
<1>3. CASE n.cmd = "RECV"
  <2>1. /\ Len(events) + 1 \in DOMAIN events'
        /\ \A j \in DOMAIN events' : ~ (j > Len(events) + 1)
    BY <1>1
  <2>2. QED
    BY <1>1, <1>3, <2>1 DEF AcceptedLast
<1>4. CASE n.cmd \in Keys /\ AcceptedLast
  <2>1. DOMAIN events \subseteq DOMAIN events'
    BY <1>1
  <2>2. QED
    BY <1>1, <1>2, <1>4, <2>1 DEF AcceptedLast
<1>5. QED
  BY <1>3, <1>4

-----------------------------------------------------------------------------
(* The cockpit's steps *)

\* A step of the cockpit that keeps the screen, or makes a request.
ScreenKeeps ==
    /\ StartLast' => Shown'
    /\ Unnamed' => Unnamed
    /\ StartLast /\ AcceptedLast => AcceptedLast'

LEMMA ScreenSame ==
    ASSUME StartShown,
           UNCHANGED <<gatewayVars, requests, layout, currentVehicle, isRemoteApply>>,
           StartLast /\ AcceptedLast => AcceptedLast'
    PROVE  ScreenKeeps
<1>1. StartLast' <=> StartLast
  BY GatewaySame DEF StartLast, StartOnItsWay, Unnamed
<1>2. QED
  BY <1>1 DEF ScreenKeeps, StartShown, Shown, Unnamed

LEMMA AcceptedSame ==
    ASSUME UNCHANGED <<events, remoteStatus>>
    PROVE  AcceptedLast' <=> AcceptedLast
BY DEF AcceptedLast

LEMMA DriverKeeps ==
    ASSUME TypeOK, OneQuestion, StartShown, Driver, UNCHANGED gatewayVars
    PROVE  ScreenKeeps
<1>1. ASSUME NEW key \in Keys, HandleButton(key) PROVE ScreenKeeps
  <2> DEFINE n == [to |-> "InteractiveManager", cmd |-> key]
  <2>1. n \in Messages /\ n.cmd \in Keys
    BY DEF Messages
  <2>2. /\ events' = Append(events, n)
        /\ UNCHANGED <<requests, layout, currentVehicle, isRemoteApply, remoteStatus>>
    BY <1>1 DEF HandleButton, Emit, screens, mainCamera
  <2> HIDE DEF n
  <2>3. AcceptedLast => AcceptedLast'
    BY <2>1, <2>2, AcceptedPosted
  <2>4. QED
    BY <2>2, <2>3, ScreenSame
<1>2. ASSUME NEW imei \in Imei \cup {NoImei}, EnterRemoteControl(imei)
      PROVE  ScreenKeeps
  <2>1. layout = "Monitor"
    BY <1>2 DEF EnterRemoteControl, OneQuestion
  <2>2. ~ StartLast
    BY <2>1 DEF StartShown, Shown
  <2>3. UNCHANGED requests
    BY <1>2 DEF EnterRemoteControl
  <2>4. ~ StartLast' /\ (Unnamed' <=> Unnamed)
    BY <2>2, <2>3, GatewaySame DEF StartLast, StartOnItsWay, Unnamed
  <2>5. QED
    BY <2>2, <2>4 DEF ScreenKeeps
<1>3. ASSUME ReportDocked PROVE ScreenKeeps
  <2>1. UNCHANGED <<events, layout, currentVehicle, isRemoteApply, remoteStatus>>
    BY <1>3 DEF ReportDocked, mainCamera
  <2>2. CASE UNCHANGED requests
    BY <2>1, <2>2, ScreenSame, AcceptedSame
  <2>3. CASE Publish("UNKNOWN")
    <3>1. (Unnamed' => Unnamed) /\ (StartLast' => currentVehicle = NoImei /\ StartLast)
      BY <2>3, Published
    <3>2. ~ StartLast'
      BY <3>1, CockpitAssumption DEF StartShown, Shown
    <3>3. QED
      BY <2>1, <3>1, <3>2, AcceptedSame DEF ScreenKeeps
  <2>4. QED
    BY <1>3, <2>2, <2>3 DEF ReportDocked
<1>4. ASSUME AnswerNo PROVE ScreenKeeps
  BY <1>4, ScreenSame, AcceptedSame DEF AnswerNo, mainCamera
<1>5. QED
  BY <1>1, <1>2, <1>3, <1>4 DEF Driver

LEMMA EventKeeps ==
    ASSUME TypeOK, StartShown, HandleEvent, UNCHANGED gatewayVars
    PROVE  ScreenKeeps
<1> DEFINE m == Head(events)
<1>1. events # <<>> /\ m \in Messages
  BY HeadType DEF HandleEvent
<1>2. CASE InteractiveManager(m)
  <2> DEFINE n == [to |-> IF m.cmd \in {"PageUp", "PageDown"} THEN "MainCamera"
                                                              ELSE FocusModule,
                   cmd |-> m.cmd]
  <2>1. /\ m.cmd \in Keys /\ Take(<<n>>)
        /\ UNCHANGED <<requests, layout, currentVehicle, isRemoteApply, remoteStatus>>
    BY <1>1, <1>2, HeadType
    DEF InteractiveManager, screens, mainCamera, Keys, Results
  <2>2. n \in Messages /\ n.cmd \in Keys
    BY <2>1 DEF Messages, Screens, FocusModule
  <2> HIDE DEF n
  <2>3. AcceptedLast => AcceptedLast'
    BY <1>1, <2>1, <2>2, AcceptedTaken
  <2>4. QED
    BY <2>1, <2>3, ScreenSame
<1>3. CASE RemoteResult(m)
  <2>1. StartLast => isRemoteApply
    BY DEF StartShown, Shown
  <2>2. StartLast /\ AcceptedLast => AcceptedLast'
    BY <1>1, <1>3, <2>1, AcceptedHandled
  <2>3. QED
    BY <1>3, <2>2, ScreenSame DEF RemoteResult
<1>4. CASE MainCameraKey(m)
  <2>1. AcceptedLast => AcceptedLast'
    BY <1>1, <1>4, AcceptedTaken DEF MainCameraKey
  <2>2. UNCHANGED <<layout, currentVehicle>>
    BY <1>4 DEF MainCameraKey
  <2>3. CASE UNCHANGED <<requests, isRemoteApply>>
    BY <2>1, <2>2, <2>3, ScreenSame
  <2>4. CASE ~ Connected("MainCamera") /\ UNCHANGED requests
    <3>1. layout # "RemoteControl"
      BY <2>4 DEF Connected
    <3>2. ~ StartLast' /\ (Unnamed' <=> Unnamed)
      BY <2>4, <3>1, GatewaySame DEF StartShown, Shown, StartLast, StartOnItsWay, Unnamed
    <3>3. QED
      BY <2>1, <3>2 DEF ScreenKeeps
  <2>5. CASE /\ Connected("MainCamera")
             /\ isRemoteApply' = (currentStatus = "RECV")
             /\ Publish(IF currentStatus = "RECV" THEN "START" ELSE "END")
    <3> DEFINE opt == IF currentStatus = "RECV" THEN "START" ELSE "END"
    <3>1. /\ Unnamed' => Unnamed
          /\ StartLast' => \/ currentVehicle \in Imei /\ opt = "START"
                           \/ currentVehicle = NoImei /\ StartLast
      BY <2>5, Published
    <3>2. StartLast' => currentVehicle \in Imei /\ currentStatus = "RECV"
      BY <3>1, CockpitAssumption DEF StartShown, Shown
    <3>3. layout = "RemoteControl"
      BY <2>5 DEF Connected
    <3>4. QED
      BY <2>1, <2>2, <2>5, <3>1, <3>2, <3>3 DEF ScreenKeeps, Shown
  <2>6. QED
    BY <1>4, <2>3, <2>4, <2>5 DEF MainCameraKey
<1>5. CASE RightCameraEscape(m)
  <2>1. m.cmd \in Keys /\ UNCHANGED <<currentVehicle, isRemoteApply, remoteStatus>>
    BY <1>5 DEF RightCameraEscape, mainCamera, Keys
  <2>2. AcceptedLast => AcceptedLast'
    BY <1>1, <1>5, <2>1, AcceptedTaken DEF RightCameraEscape
  <2>3. CASE UNCHANGED <<requests, layout>>
    BY <2>1, <2>2, <2>3, ScreenSame
  <2>4. CASE Publish("END")
    <3>1. (Unnamed' => Unnamed) /\ (StartLast' => currentVehicle = NoImei /\ StartLast)
      BY <2>4, Published
    <3>2. ~ StartLast'
      BY <3>1, CockpitAssumption DEF StartShown, Shown
    <3>3. QED
      BY <2>2, <3>1, <3>2 DEF ScreenKeeps
  <2>5. QED
    BY <1>5, <2>3, <2>4 DEF RightCameraEscape
<1>6. CASE RightCameraEnter(m) \/ MainMonitorKey(m)
  <2>1. m.cmd \in Keys
    BY <1>1, <1>6, HeadType DEF RightCameraEnter, MainMonitorKey, Keys, Results
  <2>2. AcceptedLast => AcceptedLast'
    BY <1>1, <1>6, <2>1, AcceptedTaken DEF RightCameraEnter, MainMonitorKey, mainCamera
  <2>3. QED
    BY <1>6, <2>2, ScreenSame DEF RightCameraEnter, MainMonitorKey, mainCamera
<1>7. QED
  BY <1>2, <1>3, <1>4, <1>5, <1>6 DEF HandleEvent

\* Whatever the cockpit asks, it asks of the current vehicle.
LEMMA CockpitAsks ==
    ASSUME TypeOK, Driver \/ HandleEvent
    PROVE  /\ \A i \in DOMAIN requests' :
                 \/ requests'[i].imei = currentVehicle
                 \/ i \in DOMAIN requests /\ requests'[i] = requests[i]
           /\ \/ currentVehicle' = currentVehicle
              \/ /\ asking # <<>> /\ Last(asking) = "enter"
                 /\ currentVehicle' \in Imei \cup {NoImei}
                 /\ requests' = requests
<1>1. \/ UNCHANGED requests
      \/ \E opt \in {"UNKNOWN", "START", "END"} : Publish(opt)
  BY DEF Driver, HandleButton, EnterRemoteControl, ReportDocked, AnswerNo, HandleEvent,
     InteractiveManager, RemoteResult, MainCameraKey, RightCameraEscape,
     RightCameraEnter, MainMonitorKey
<1>2. ASSUME NEW opt, Publish(opt), NEW i \in DOMAIN requests'
      PROVE  \/ requests'[i].imei = currentVehicle
             \/ i \in DOMAIN requests /\ requests'[i] = requests[i]
  <2>1. requests \in Seq(Requests)
    BY DEF TypeOK
  <2>2. requests' = Append(requests, [imei |-> currentVehicle, opt |-> opt])
    BY <1>2 DEF Publish
  <2>3. /\ Len(requests) \in Nat /\ DOMAIN requests = 1..Len(requests)
        /\ DOMAIN requests' = 1..(Len(requests) + 1)
        /\ \A j \in DOMAIN requests : requests'[j] = requests[j]
        /\ requests'[Len(requests) + 1].imei = currentVehicle
    BY <2>1, <2>2
  <2>4. i \in DOMAIN requests \/ i = Len(requests) + 1
    BY <1>2, <2>3
  <2>5. QED
    BY <2>3, <2>4
<1>3. \/ currentVehicle' = currentVehicle
      \/ \E imei \in Imei \cup {NoImei} : EnterRemoteControl(imei)
  BY DEF Driver, HandleButton, ReportDocked, AnswerNo, HandleEvent, screens,
     InteractiveManager, RemoteResult, MainCameraKey, RightCameraEscape,
     RightCameraEnter, MainMonitorKey
<1>4. QED
  BY <1>1, <1>2, <1>3 DEF EnterRemoteControl

\* With nothing asked of other vehicles none of them is under control at the
\* monitor screen, so that it is another's turn.
LEMMA NobodyElse ==
    ASSUME SystemInv, NEW v, VehicleInv(v), layout = "Monitor", NEW w \in Imei,
           \A imei \in Imei \ {w} : ~ Asked(imei)
    PROVE  /\ OneInHand(w)
           /\ \A i \in DOMAIN requests : requests[i].imei \in {w, NoImei}
           /\ controlFastDev # NoDev => v = w
<1>1. /\ P!TypeOK /\ P!Lifetimes /\ P!Identities /\ TypeOK
      /\ OneInHand(v) /\ EndIsOwed /\ StartShown /\ P!Listed \subseteq Conn
  BY GatewayAssumed, P!ListedType DEF SystemInv, P!IInv, VehicleInv
<1>2. \A imei \in Imei \ {w} : /\ ~ (zmq.pc # "idle" /\ zmq.imei = imei)
                               /\ \A i \in DOMAIN posted : posted[i].imei # imei
                               /\ \A c \in P!Listed : ~ (handle[c].imei = imei
                                                         /\ handle[c].cmds # <<>>)
                               /\ \A i \in DOMAIN requests : requests[i].imei # imei
  BY SameHelpers DEF Asked, G!InTransit
<1>3. zmq.pc # "idle" => zmq.imei = w
  BY <1>1, <1>2 DEF P!Lifetimes
<1>4. \A i \in DOMAIN posted : posted[i].imei = w
  <2>1. \A i \in DOMAIN posted : posted[i] \in P!Emissions
    BY <1>1, LenProperties, ElementOfSeq DEF P!TypeOK
  <2>2. QED
    BY <1>2, <2>1 DEF P!Emissions
<1>5. \A c \in P!Listed : handle[c].cmds # <<>> => handle[c].imei = w
  BY <1>1, <1>2 DEF P!Identities
<1>6. \A i \in DOMAIN requests : requests[i].imei \in {w, NoImei}
  <2>1. \A i \in DOMAIN requests : requests[i] \in Requests
    BY <1>1, LenProperties, ElementOfSeq DEF TypeOK
  <2>2. QED
    BY <1>2, <2>1 DEF Requests
<1>7. ASSUME controlFastDev # NoDev, v # w PROVE FALSE
  <2>1. v \in Imei
    BY <1>1, <1>7 DEF OneInHand, P!Identities
  <2>2. /\ zmq.pc = "idle" /\ DOMAIN posted = {}
        /\ \A c \in P!Listed : handle[c].cmds = <<>>
    BY <1>1, <1>3, <1>4, <1>5, <1>7 DEF OneInHand
  <2>3. ~ Owed
    BY <2>2, OwedIs DEF InHand
  <2>4. lastReqControlCmd = "START"
    BY <1>1, <1>7, <2>3 DEF EndIsOwed
  <2>5. StartStored
    BY <1>7, <2>2, <2>4 DEF StartStored
  <2>6. ~ StartLast
    BY <1>1 DEF StartShown, Shown
  <2>7. ~ Unnamed
    BY <2>5, <2>6 DEF StartLast
  <2>8. QED
    BY <1>6, <1>7, <2>7, CockpitAssumption DEF Unnamed, VehicleInv, OneAsked
<1>8. OneInHand(w)
  BY <1>1, <1>3, <1>4, <1>5, <1>7 DEF OneInHand
<1>9. QED
  BY <1>6, <1>7, <1>8

LEMMA CockpitActsKeep ==
    ASSUME SystemInv, OneQuestion, NEW v \in Imei \cup {NoImei}, VehicleInv(v),
           CockpitActs, TurnsWhenDone
    PROVE  \E w \in Imei \cup {NoImei} : VehicleInv(w)'
<1>1. /\ UNCHANGED gatewayVars /\ answers' = answers /\ controlFastDev' = controlFastDev
      /\ TypeOK
  BY DEF CockpitActs, gatewayVars, SystemInv
<1>2. ScreenKeeps
  BY <1>1, DriverKeeps, EventKeeps DEF CockpitActs, VehicleInv
<1>3. EndIsOwed' /\ StartShown'
  BY <1>1, <1>2, GatewaySame DEF VehicleInv, ScreenKeeps, StartShown
<1>4. ASSUME controlFastDev # NoDev, answers = <<>>, StartLast', Unnamed',
             zmq'.pc # "found", ~ Owed'
      PROVE  AcceptedLast'
  <2>1. StartStored'
    BY <1>4 DEF StartLast, StartOnItsWay, Unnamed
  <2>2. StartLast /\ Unnamed
    BY <1>1, <1>2, <1>4, <2>1, GatewaySame DEF StartLast, ScreenKeeps
  <2>3. zmq.pc # "found" /\ ~ Owed
    BY <1>1, <1>4, GatewaySame DEF gatewayVars
  <2>4. AcceptedLast
    BY <1>4, <2>2, <2>3 DEF VehicleInv, GrantShown
  <2>5. QED
    BY <1>2, <2>2, <2>4 DEF ScreenKeeps
<1>5. GrantShown'
  BY <1>1, <1>4 DEF GrantShown, VehicleInv
<1>6. /\ \A i \in DOMAIN requests' :
            \/ requests'[i].imei = currentVehicle
            \/ i \in DOMAIN requests /\ requests'[i] = requests[i]
      /\ \/ currentVehicle' = currentVehicle
         \/ /\ asking # <<>> /\ Last(asking) = "enter"
            /\ currentVehicle' \in Imei \cup {NoImei}
            /\ requests' = requests
  BY <1>1, CockpitAsks DEF CockpitActs
<1>7. OneInHand(v)'
  BY <1>1, GatewaySame DEF VehicleInv
<1>8. CASE currentVehicle' \in {currentVehicle, NoImei}
  <2>1. OneAsked(v)'
    BY <1>1, <1>6, <1>8 DEF OneAsked, VehicleInv
  <2>2. QED
    BY <1>3, <1>5, <1>7, <2>1 DEF VehicleInv
<1>9. CASE currentVehicle' \notin {currentVehicle, NoImei}
  <2> DEFINE w == currentVehicle'
  <2>1. /\ w \in Imei /\ layout = "Monitor" /\ requests' = requests
        /\ \A imei \in Imei \ {w} : ~ Asked(imei)
    BY <1>6, <1>9 DEF TurnsWhenDone, OneQuestion
  <2>2. /\ OneInHand(w)
        /\ \A i \in DOMAIN requests : requests[i].imei \in {w, NoImei}
        /\ controlFastDev # NoDev => v = w
    <3> HIDE DEF w
    <3>1. QED
      BY <2>1, NobodyElse
  <2>3. PICK u \in Imei : u = w
    BY <2>1
  <2> HIDE DEF w
  <2>4. OneInHand(u)'
    BY <1>1, <2>2, <2>3, GatewaySame
  <2>5. OneAsked(u)'
    BY <1>1, <2>1, <2>2, <2>3 DEF OneAsked, VehicleInv, w
  <2>6. QED
    BY <1>3, <1>5, <2>4, <2>5 DEF VehicleInv
<1>10. QED
  BY <1>8, <1>9

\* The answer that granted control passes the filter, as the newest request is
\* still the screen's.
LEMMA RespReceivedKeeps ==
    ASSUME SystemInv, NEW v, VehicleInv(v), RespReceived
    PROVE  VehicleInv(v)'
<1> DEFINE a == Head(answers)
<1>1. /\ answers # <<>> /\ answers' = Tail(answers)
      /\ answers \in Seq(Answers)
      /\ RespRemotelHandler(a.imei, a.result)
      /\ UNCHANGED gatewayVars /\ controlFastDev' = controlFastDev
      /\ UNCHANGED <<requests, layout, currentVehicle, isRemoteApply, remoteStatus>>
  BY DEF RespReceived, gatewayVars, RespRemotelHandler, screens, mainCamera,
         SystemInv, AnswersOK
<1>2. /\ Len(answers) \in Nat \ {0} /\ a = answers[1]
      /\ answers' \in Seq(Answers)
      /\ Len(answers') = Len(answers) - 1
      /\ \A i \in 1..Len(answers') : answers'[i] = answers[i+1]
  BY <1>1, EmptySeq, HeadTailProperties
<1>3. StartLast' <=> StartLast
  BY <1>1, GatewaySame DEF StartLast, StartOnItsWay, Unnamed
<1>4. OneInHand(v)' /\ EndIsOwed' /\ StartShown'
  BY <1>1, <1>3, GatewaySame DEF VehicleInv, StartShown, Shown
<1>5. answers' # <<>> => Last(answers') = Last(answers)
  <2>1. ASSUME answers' # <<>> PROVE Len(answers') \in Nat \ {0}
    BY <1>2, <2>1, EmptySeq
  <2>2. ASSUME answers' # <<>> PROVE answers'[Len(answers')] = answers[Len(answers)]
    BY <1>2, <2>1, <2>2
  <2>3. QED
    BY <2>2 DEF Last
<1>6. answers' = <<>> => a = Last(answers)
  <2>1. ASSUME answers' = <<>> PROVE Len(answers) = 1
    <3>1. Len(answers') = 0
      BY <2>1, EmptySeq
    <3>2. QED
      BY <1>2, <3>1
  <2>2. QED
    BY <1>2, <2>1 DEF Last
<1>7. ASSUME controlFastDev # NoDev, answers' = <<>>, StartLast PROVE AcceptedLast'
  <2>1. a.result = "RECV" /\ a.imei = v
    BY <1>1, <1>6, <1>7 DEF VehicleInv, GrantShown, OneAsked
  <2>2. layout = "RemoteControl" /\ a.imei = currentVehicle
    BY <1>7, <2>1, CockpitAssumption DEF VehicleInv, StartShown, Shown, OneAsked
  <2> DEFINE n == [to |-> "MainCamera", cmd |-> a.result]
  <2>3. n \in Messages /\ n.cmd = "RECV"
    BY <2>1 DEF Messages, Results
  <2>4. events' = Append(events, n)
    BY <1>1, <2>2 DEF RespRemotelHandler
  <2> HIDE DEF n
  <2>5. QED
    BY <1>1, <2>3, <2>4, AcceptedPosted DEF SystemInv
<1>8. GrantShown'
  BY <1>1, <1>3, <1>5, <1>7 DEF GrantShown, VehicleInv
<1>9. OneAsked(v)'
  BY <1>1, <1>5 DEF OneAsked, VehicleInv
<1>10. QED
  BY <1>4, <1>8, <1>9 DEF VehicleInv

\* A request is dropped only while the vehicle is neither under control nor
\* owes an answer.
LEMMA Dropped ==
    ASSUME OneConnectionEach, P!IInv, NEW v \in Imei, OneInHand(v),
           P!GetDevHandle(v) = NoDev, zmq.pc = "idle"
    PROVE  controlFastDev = NoDev /\ ~ Owed
<1>1. P!Listed \subseteq Conn
  BY GatewayAssumed, P!ListedType DEF P!IInv
<1>2. \A c \in P!Listed : handle[c].imei # v
  BY <1>1, OnlyLookup, SystemAssumption
<1>3. controlFastDev = NoDev
  BY <1>2 DEF OneInHand
<1>4. \A c \in P!Listed : ~ InHand(c)
  BY <1>2 DEF InHand, OneInHand
<1>5. QED
  BY <1>3, <1>4, OwedIs

LEMMA ReqReceivedKeeps ==
    ASSUME SystemInv, OneConnectionEach, NEW v, VehicleInv(v), ReqReceived
    PROVE  VehicleInv(v)'
<1> DEFINE req == Head(requests)
<1>1. /\ Received /\ TypeOK /\ P!IInv /\ OneInHand(v) /\ EndIsOwed
      /\ UNCHANGED <<events, layout, currentVehicle, isRemoteApply, remoteStatus>>
      /\ req \in Requests /\ req.imei \in {v, NoImei}
  <2>1. requests \in Seq(Requests) /\ requests # <<>>
    BY DEF ReqReceived, Received, SystemInv, TypeOK
  <2>2. req = requests[1] /\ 1 \in DOMAIN requests /\ req \in Requests
    BY <2>1
  <2>3. QED
    BY <2>2 DEF ReqReceived, Received, SystemInv, VehicleInv, OneAsked, screens, mainCamera
<1>2. /\ StartOnItsWay' => StartOnItsWay
      /\ req.imei = NoImei => (Unnamed' <=> Unnamed)
      /\ req.imei # NoImei /\ req.opt = "START" /\ Unnamed' => StartOnItsWay
  BY <1>1, RequestTaken
<1>3. ASSUME StartLast' => StartLast PROVE StartShown'
  BY <1>1, <1>3 DEF StartShown, Shown, VehicleInv
<1>4. AcceptedLast' <=> AcceptedLast
  BY <1>1, AcceptedSame
<1>5. \A i \in DOMAIN requests' : requests'[i].imei \in {v, NoImei}
  <2>1. requests \in Seq(Requests) /\ requests' = Tail(requests) /\ requests # <<>>
    BY <1>1 DEF Received, TypeOK
  <2>2. \A i \in DOMAIN requests' : /\ i+1 \in DOMAIN requests
                                   /\ requests'[i] = requests[i+1]
    BY <2>1
  <2>3. QED
    BY <2>2 DEF VehicleInv, OneAsked
<1>8. CASE req.imei = NoImei
  <2>1. UNCHANGED <<gatewayVars, answers>> /\ controlFastDev' = controlFastDev
        /\ zmq' = zmq
    BY <1>8 DEF ReqReceived, gatewayVars
  <2>2. (StartLast' => StartLast) /\ (Unnamed' <=> Unnamed)
    BY <1>2, <1>8, <2>1, GatewaySame DEF StartLast
  <2>3. GrantShown'
    BY <1>4, <2>1, <2>2, GatewaySame DEF GrantShown, VehicleInv
  <2>4. OneAsked(v)'
    BY <1>1, <1>5, <2>1 DEF OneAsked, VehicleInv
  <2>5. QED
    BY <1>1, <1>3, <2>1, <2>2, <2>3, <2>4, GatewaySame DEF VehicleInv
<1>6. CASE req.imei # NoImei
  <2>1. /\ req.imei \in Imei /\ req.imei = v /\ zmq.pc = "idle"
        /\ UNCHANGED <<devList, handle, controlFastDev, lastReqControlCmd, posted,
                       closing>>
    BY <1>1, <1>6, SameActions
    DEF ReqReceived, Requests, P!HandleZmqReqRemoteControl, P!fastVars
  <2>2. Owed' <=> Owed \/ zmq'.pc = "emit"
    <3>1. P!Listed' = P!Listed /\ (\A c : InHand(c)' <=> InHand(c))
      BY <2>1 DEF P!Listed, InHand
    <3>2. QED
      BY <2>1, <3>1, OwedIs
  <2>3. CASE P!GetDevHandle(req.imei) = NoDev
    <3>1. /\ zmq' = zmq
          /\ PublishResp(req.imei, "DISCONNECT")
      BY <1>6, <2>3, SameHelpers, SameActions
      DEF ReqReceived, P!HandleZmqReqRemoteControl
    <3>2. controlFastDev = NoDev /\ ~ Owed
      BY <1>1, <2>1, <2>3, Dropped
    <3>3. ~ StartStored'
      BY <2>1, <2>2, <3>1, <3>2 DEF StartStored
    <3>4. StartLast' => StartLast
      BY <1>2, <3>3 DEF StartLast
    <3>5. OneInHand(v)' /\ EndIsOwed'
      BY <1>1, <2>1, <3>1, <3>2 DEF OneInHand, EndIsOwed, P!Listed
    <3>6. GrantShown'
      BY <2>1, <3>2 DEF GrantShown
    <3>7. OneAsked(v)'
      BY <1>1, <1>5, <2>1, <3>2 DEF OneAsked, VehicleInv
    <3>8. QED
      BY <1>3, <3>4, <3>5, <3>6, <3>7 DEF VehicleInv
  <2>4. CASE P!GetDevHandle(req.imei) # NoDev
    <3> DEFINE d == P!GetDevHandle(req.imei)
    <3>1. /\ zmq' = [pc |-> "found", imei |-> req.imei, opt |-> req.opt, dev |-> d]
          /\ answers' = answers
      BY <1>6, <2>4, SameHelpers, SameActions
      DEF ReqReceived, P!HandleZmqReqRemoteControl
    <3> HIDE DEF d
    <3>3. zmq'.pc = "found" /\ zmq'.opt = req.opt /\ zmq'.imei = v
      BY <2>1, <3>1
    <3>4. StartLast' => StartLast
      BY <1>2, <1>6, <3>3 DEF StartLast, StartStored
    <3>5. OneInHand(v)'
      BY <1>1, <2>1, <3>3 DEF OneInHand, P!Listed
    <3>6. EndIsOwed'
      <4>1. Owed' <=> Owed
        BY <2>2, <3>3
      <4>2. QED
        BY <1>1, <2>1, <4>1 DEF EndIsOwed
    <3>7. GrantShown'
      BY <2>1, <3>1, <3>3 DEF GrantShown, VehicleInv
    <3>8. OneAsked(v)'
      BY <1>1, <1>5, <2>1, <3>1 DEF OneAsked, VehicleInv
    <3>9. QED
      BY <1>3, <3>4, <3>5, <3>6, <3>7, <3>8 DEF VehicleInv
  <2>5. QED
    BY <2>3, <2>4
<1>7. QED
  BY <1>6, <1>8

-----------------------------------------------------------------------------
(* The gateway's steps in the system *)

\* What both kinds of step of the gateway keep of the screen.
LEMMA GatewayShown ==
    ASSUME NEW v, StartShown, GatewayKeeps(v), UNCHANGED vars
    PROVE  StartShown' /\ (StartLast' => StartLast) /\ (Unnamed' <=> Unnamed)
BY DEF GatewayKeeps, StartShown, Shown, StartLast, StartOnItsWay, Unnamed,
       vars, screens, mainCamera

LEMMA QuietKeeps ==
    ASSUME NEW v, VehicleInv(v), GatewayKeeps(v), Quiet, UNCHANGED <<vars, answers>>
    PROVE  VehicleInv(v)'
<1>1. AcceptedLast' <=> AcceptedLast
  BY AcceptedSame DEF vars, screens, mainCamera
<1>2. StartShown' /\ (StartLast' => StartLast) /\ (Unnamed' <=> Unnamed)
  BY GatewayShown DEF VehicleInv
<1>3. GrantShown'
  BY <1>1, <1>2 DEF GrantShown, VehicleInv, Quiet
<1>4. OneAsked(v)'
  BY DEF OneAsked, VehicleInv, Quiet, vars, screens, mainCamera
<1>5. QED
  BY <1>2, <1>3, <1>4 DEF GatewayKeeps, VehicleInv

LEMMA QuietActsKeep ==
    ASSUME SystemInv, OneConnectionEach, ConnectsWhenDone, NEW v, VehicleInv(v),
           ZmqGoesOn \/ Deliver \/ DeleteClosed \/ VehicleActs
    PROVE  VehicleInv(v)'
<1>1. P!IInv /\ OneInHand(v) /\ EndIsOwed /\ UNCHANGED <<vars, answers>>
  BY DEF SystemInv, VehicleInv, ZmqGoesOn, Deliver, DeleteClosed, VehicleActs
<1>2. \/ P!ZmqStoreLastReq \/ P!ZmqEmit \/ P!Dequeue \/ P!HandleDevDisConnected
      \/ \E c \in Conn : \/ P!HandleReqControlCmdSlot(c)
                         \/ P!HandleNewConnect(c)
                         \/ \E imei \in Imei : P!HandleAuth(c, imei)
                         \/ P!DevDisConnected(c)
  BY SameActions DEF ZmqGoesOn, Deliver, DeleteClosed, VehicleActs
<1>3. GatewayKeeps(v) /\ Quiet
  BY <1>1, <1>2, StoreKeeps, EmitKeeps, DequeueKeeps, DeleteKeeps, SlotKeeps,
     NewConnectKeeps, AuthKeeps, LossKeeps
<1>4. QED
  BY <1>1, <1>3, QuietKeeps

\* A published answer either ends control or is "accepted".
LEMMA AnswerPublished ==
    ASSUME SystemInv, NEW v, VehicleInv(v), GatewayKeeps(v), UNCHANGED vars,
           NEW imei \in Imei \cup {NoImei}, NEW result \in Results,
           PublishResp(imei, result),
           controlFastDev' # NoDev => result = "RECV" /\ imei = v
    PROVE  VehicleInv(v)'
<1>1. answers' # <<>> /\ Last(answers') = [imei |-> imei, result |-> result]
  BY PublishResult DEF SystemInv
<1>2. StartShown'
  BY GatewayShown DEF VehicleInv
<1>3. GrantShown'
  BY <1>1 DEF GrantShown
<1>4. OneAsked(v)'
  BY <1>1 DEF OneAsked, VehicleInv, vars, screens, mainCamera
<1>5. QED
  BY <1>2, <1>3, <1>4 DEF GatewayKeeps, VehicleInv

LEMMA AnswersKeep ==
    ASSUME SystemInv, OneConnectionEach, NEW v, VehicleInv(v),
           NEW c \in Conn, VehicleAnswers(c) \/ NoAnswer(c)
    PROVE  VehicleInv(v)'
<1>1. P!IInv /\ OneInHand(v) /\ EndIsOwed
  BY DEF SystemInv, VehicleInv
<1>2. handle[c].imei \in Imei \cup {NoImei}
  BY <1>1, HandleImei DEF P!IInv
<1>3. ASSUME NEW result \in {"RECV", "REJECT"},
             P!HandleRespControlCmd(c, result),
             PublishResp(handle[c].imei, result), UNCHANGED vars
      PROVE  VehicleInv(v)'
  <2>1. /\ GatewayKeeps(v)
        /\ controlFastDev' # NoDev => result = "RECV" /\ handle[c].imei = v
    BY <1>1, <1>3, AnswerKeeps
  <2>2. QED
    BY <1>2, <1>3, <2>1, AnswerPublished DEF Results
<1>4. ASSUME NEW imei \in Imei \cup {NoImei}, P!ControlCmdTimeOutSlots(c),
             PublishResp(imei, "TIMEOUT"), UNCHANGED vars
      PROVE  VehicleInv(v)'
  <2>1. GatewayKeeps(v) /\ controlFastDev' = NoDev
    BY <1>1, <1>4, TimeoutKeeps
  <2>2. QED
    BY <1>4, <2>1, AnswerPublished DEF Results
<1>5. CASE VehicleAnswers(c)
  BY <1>3, <1>5, SameActions DEF VehicleAnswers
<1>6. CASE NoAnswer(c)
  BY <1>2, <1>4, <1>6, SameActions DEF NoAnswer
<1>7. QED
  BY <1>5, <1>6

-----------------------------------------------------------------------------
(* One thing at a time *)

LEMMA DrivenInvInit == SystemInit => DrivenInv
<1> SUFFICES ASSUME SystemInit PROVE DrivenInv
  OBVIOUS
<1>1. P!Init /\ OneQuestion
  BY SameActions, OneQuestionInit DEF SystemInit
<1>2. /\ controlFastDev = NoDev /\ DOMAIN posted = {} /\ zmq.pc = "idle"
      /\ \A c \in Conn : handle[c].wired = 0
      /\ P!Listed = {}
  BY <1>1 DEF P!Init, P!ZmqIdle, P!NoHandle, P!Listed, P!ListedIn
<1>3. OneConnectionEach
  BY <1>2, SameHelpers DEF OneConnectionEach
<1>4. OneInHand(NoImei) /\ EndIsOwed /\ ~ Owed
  BY <1>2, OwedIs DEF OneInHand, EndIsOwed
<1>5. /\ currentVehicle = NoImei /\ DOMAIN requests = {} /\ answers = <<>>
  BY DEF SystemInit, Init
<1>6. OneAsked(NoImei)
  BY <1>5 DEF OneAsked
<1>7. ~ StartLast
  BY <1>2, <1>4, <1>5 DEF StartLast, StartStored, StartOnItsWay
<1>8. VehicleInv(NoImei)
  BY <1>2, <1>4, <1>6, <1>7 DEF VehicleInv, StartShown, GrantShown
<1>9. QED
  BY <1>1, <1>3, <1>8 DEF DrivenInv

LEMMA DrivenInvStep ==
    ASSUME SystemInv, DrivenInv, [OneByOneNext]_systemVars
    PROVE  DrivenInv'
<1>1. PICK v \in Imei \cup {NoImei} : VehicleInv(v)
  BY DEF DrivenInv
<1>2. CASE UNCHANGED systemVars
  <2>1. UNCHANGED <<gatewayVars, vars, answers>> /\ controlFastDev' = controlFastDev
        /\ zmq' = zmq
    BY <1>2 DEF systemVars, gatewayVars
  <2>2. (StartLast' <=> StartLast) /\ (Unnamed' <=> Unnamed) /\ (Shown' <=> Shown)
        /\ (AcceptedLast' <=> AcceptedLast)
    BY <2>1, GatewaySame, AcceptedSame
    DEF vars, screens, mainCamera, StartLast, StartOnItsWay, Unnamed, Shown
  <2>3. OneAsked(v)'
    BY <1>1, <2>1 DEF VehicleInv, OneAsked, vars, screens, mainCamera
  <2>4. StartShown' /\ GrantShown'
    BY <1>1, <2>1, <2>2, GatewaySame DEF VehicleInv, StartShown, GrantShown
  <2>5. VehicleInv(v)'
    BY <1>1, <2>1, <2>3, <2>4, GatewaySame DEF VehicleInv
  <2>6. OneQuestion'
    BY <2>1 DEF DrivenInv, OneQuestion, OneQuestionOpen, vars, screens
  <2>7. OneConnectionEach'
    BY <2>1 DEF DrivenInv, OneConnectionEach, G!Listed, gatewayVars
  <2>8. QED
    BY <2>5, <2>6, <2>7 DEF DrivenInv
<1>3. CASE OneByOneNext
  <2>1. SystemNext /\ TurnsWhenDone /\ ConnectsWhenDone /\ OneQuestionOpen'
    BY <1>3 DEF OneByOneNext, OneByOne
  <2>2. OneQuestion'
    BY <2>1, CockpitStep, OneQuestionStep DEF SystemInv, DrivenInv
  <2>3. OneConnectionEach'
    BY <2>1 DEF ConnectsWhenDone
  <2>4. \E w \in Imei \cup {NoImei} : VehicleInv(w)'
    <3>1. OneQuestion /\ OneConnectionEach
      BY DEF DrivenInv
    <3>2. CASE CockpitActs
      BY <1>1, <2>1, <3>1, <3>2, CockpitActsKeep
    <3>3. CASE RespReceived \/ ReqReceived
      BY <1>1, <3>1, <3>3, RespReceivedKeeps, ReqReceivedKeeps
    <3>4. CASE ZmqGoesOn \/ Deliver \/ DeleteClosed \/ VehicleActs
      BY <1>1, <2>1, <3>1, <3>4, QuietActsKeep
    <3>5. CASE \E c \in Conn : VehicleAnswers(c) \/ NoAnswer(c)
      BY <1>1, <3>1, <3>5, AnswersKeep
    <3>6. QED
      BY <2>1, <3>2, <3>3, <3>4, <3>5 DEF SystemNext, GatewayActs
  <2>5. QED
    BY <2>2, <2>3, <2>4 DEF DrivenInv
<1>4. QED
  BY <1>2, <1>3

\* At rest a driven vehicle is the controlled one, no END is owed, so the last
\* command stored is START: the screen made that request, and has its answer.
LEMMA DrivenInvShows ==
    ASSUME SystemInv, DrivenInv
    PROVE  DrivenShown
<1> SUFFICES ASSUME Settled, NEW c \in G!Driven
             PROVE  /\ layout = "RemoteControl"
                    /\ handle[c].imei = currentVehicle
                    /\ remoteStatus = "RemoteControl"
  BY DEF DrivenShown, DrivenVehicles
<1>0. PICK v \in Imei \cup {NoImei} : VehicleInv(v)
  BY DEF DrivenInv
<1>1. /\ P!TypeOK /\ P!Lifetimes /\ P!Identities /\ P!Listed \subseteq Conn
      /\ TypeOK
  BY GatewayAssumed, P!ListedType DEF SystemInv, P!IInv
<1>2. c \in Conn /\ handle[c].wired > 0
  <2>1. c \in P!Owned(devList, controlFastDev, zmq.dev) /\ handle[c].wired > 0
    BY SameHelpers DEF G!Driven, G!Alive
  <2>2. QED
    BY <1>1, <2>1 DEF P!Owned, P!Listed, P!TypeOK, P!ZmqStates
<1>3. /\ controlFastDev = c /\ controlFastDev # NoDev /\ c \in P!Listed
      /\ handle[c].imei = v /\ v \in Imei
  BY <1>0, <1>1, <1>2, SystemAssumption DEF VehicleInv, OneInHand, P!Identities
<1>4. \A imei \in Imei : ~ G!InTransit(imei)
  BY DEF Settled
<1>5. zmq.pc = "idle"
  BY <1>1, <1>4 DEF G!InTransit, P!Lifetimes
<1>6. \A i \in DOMAIN posted : FALSE
  <2>1. \A i \in DOMAIN posted : posted[i] \in P!Emissions
    BY <1>1, LenProperties, ElementOfSeq DEF P!TypeOK
  <2>2. QED
    BY <1>4, <2>1 DEF G!InTransit, P!Emissions
<1>7. \A d \in P!Listed : handle[d].cmds = <<>>
  BY <1>1, <1>4, SameHelpers DEF G!InTransit, P!Identities
<1>8. ~ Owed
  BY <1>5, <1>6, <1>7, OwedIs DEF InHand
<1>9. lastReqControlCmd = "START"
  BY <1>0, <1>3, <1>8 DEF VehicleInv, EndIsOwed
<1>10. Unnamed /\ DOMAIN events = {} /\ answers = <<>>
  BY DEF Settled, Unnamed
<1>11. StartLast
  BY <1>3, <1>5, <1>9, <1>10 DEF StartLast, StartStored
<1>12. layout = "RemoteControl" /\ currentVehicle \in Imei
  BY <1>0, <1>11 DEF VehicleInv, StartShown, Shown
<1>13. currentVehicle = v
  BY <1>0, <1>12, CockpitAssumption DEF VehicleInv, OneAsked
<1>14. AcceptedLast
  BY <1>0, <1>3, <1>5, <1>8, <1>10, <1>11 DEF VehicleInv, GrantShown
<1>15. QED
  BY <1>3, <1>10, <1>12, <1>13, <1>14 DEF AcceptedLast

LEMMA DrivenInvariance == OneByOneSpec => [](SystemInv /\ DrivenInv)
<1> DEFINE Inv == SystemInv /\ DrivenInv
<1>1. SystemInit => Inv
  BY SystemInvInit, DrivenInvInit
<1>2. Inv /\ [OneByOneNext]_systemVars => Inv'
  <2>1. [OneByOneNext]_systemVars => [SystemNext]_systemVars
    BY DEF OneByOneNext
  <2>2. QED
    BY <2>1, SystemInvStep, DrivenInvStep
<1> HIDE DEF Inv
<1>3. OneByOneSpec => []Inv
  BY <1>1, <1>2, PTL DEF OneByOneSpec
<1>4. QED
  BY <1>3 DEF Inv

\* No vehicle is driven behind the driver's back, for any number of vehicles,
\* connections, keys and messages posted, whatever the vehicles answer or fail
\* to answer and however often a connection is lost: as long as one thing is
\* done at a time.
THEOREM DrivenIsShown == OneByOneSpec => []DrivenShown
  BY DrivenInvariance, DrivenInvShows, PTL

-----------------------------------------------------------------------------
(* Leaving the remote-control screen *)

\* The newest request that names a vehicle, if there is one.
LEMMA NewestNamed ==
    ASSUME TypeOK, ~ Unnamed
    PROVE  \E i \in DOMAIN requests :
              /\ requests[i].imei # NoImei
              /\ \A j \in DOMAIN requests : j > i => requests[j].imei = NoImei
<1> DEFINE n == Len(requests)
           R == {ss \in Nat \X Nat : ss[1] < ss[2]}
           U == {x \in Nat : n - x \in DOMAIN requests /\ requests[n - x].imei # NoImei}
<1>1. n \in Nat /\ DOMAIN requests = 1..n
  BY LenProperties DEF TypeOK
<1> HIDE DEF n
<1>2. U \subseteq Nat /\ U # {}
  <2>1. PICK i \in DOMAIN requests : requests[i].imei # NoImei
    BY DEF Unnamed
  <2>2. n - i \in Nat /\ n - (n - i) = i
    BY <1>1
  <2>3. n - i \in U
    BY <2>1, <2>2
  <2>4. QED
    BY <2>3
<1>3. IsWellFoundedOn(R, Nat)
  BY NatLessThanWellFounded DEF OpToRel
<1>4. \A x, y \in Nat : <<y, x>> \in R <=> y < x
  OBVIOUS
<1>5. PICK x \in U : \A y \in U : ~ (<<y, x>> \in R)
  <2> HIDE DEF R, U
  <2>1. QED
    BY <1>2, <1>3, WFMin
<1>6. \A y \in U : ~ (y < x)
  <2> HIDE DEF R
  <2>1. QED
    BY <1>4, <1>5
<1> DEFINE i == n - x
<1>7. i \in DOMAIN requests /\ requests[i].imei # NoImei
  BY <1>5
<1>8. ASSUME NEW j \in DOMAIN requests, j > i PROVE requests[j].imei = NoImei
  <2>1. n - j \in Nat /\ n - (n - j) = j /\ n - j < x
    BY <1>1, <1>5, <1>8
  <2>2. n - j \notin U
    BY <1>6, <2>1
  <2> HIDE DEF i
  <2>3. QED
    BY <2>1, <2>2
<1>9. QED
  BY <1>7, <1>8

\* At the monitor screen a vehicle still held is about to be released: what
\* leaving published, or what the gateway made of it, is under way.  For any
\* number of vehicles, connections and keys, one thing at a time.
THEOREM ReleaseFollows == OneByOneSpec => []ReleaseUnderWay
<1>1. ASSUME SystemInv, DrivenInv PROVE ReleaseUnderWay
  <2>0. PICK v \in Imei \cup {NoImei} : VehicleInv(v)
    BY <1>1 DEF DrivenInv
  <2>1. ASSUME layout = "Monitor", ~ Unnamed
        PROVE  \E i \in DOMAIN requests :
                  /\ requests[i].imei # NoImei /\ requests[i].opt # "START"
                  /\ \A j \in DOMAIN requests : j > i => requests[j].imei = NoImei
    <3>1. ~ StartOnItsWay
      BY <2>0, <2>1 DEF VehicleInv, StartShown, StartLast, Shown
    <3>2. PICK i \in DOMAIN requests :
              /\ requests[i].imei # NoImei
              /\ \A j \in DOMAIN requests : j > i => requests[j].imei = NoImei
      BY <1>1, <2>1, NewestNamed DEF SystemInv
    <3>3. QED
      BY <3>1, <3>2 DEF StartOnItsWay
  <2>2. ASSUME layout = "Monitor", controlFastDev # NoDev, Unnamed,
               ~ (zmq.pc = "found" /\ zmq.opt # "START")
        PROVE  zmq.pc # "found" /\ lastReqControlCmd # "START" /\ Owed
    <3>1. ~ StartStored
      BY <2>0, <2>2 DEF VehicleInv, StartShown, StartLast, Shown
    <3>2. zmq.pc # "found" /\ lastReqControlCmd # "START"
      BY <2>2, <3>1 DEF StartStored
    <3>3. QED
      BY <2>0, <2>2, <3>2 DEF VehicleInv, EndIsOwed
  <2>3. QED
    BY <2>1, <2>2 DEF ReleaseUnderWay
<1>2. QED
  BY <1>1, DrivenInvariance, PTL
==============================================================================
