------------------------------- MODULE Cockpit -------------------------------
(***************************************************************************)
(* The driver's screen, src/rcd/RcdUi, as one process ("./RCD" without an  *)
(* argument), and the two buttons of the console that work it              *)
(* (zhongzhi::HandleButton).  Messages from other threads, and those of    *)
(* InteractiveManager, are posted to the main thread in one queue; all     *)
(* other messages between modules are direct calls.                        *)
(*                                                                         *)
(* The lists a selection is made in are left out: which vehicle is         *)
(* selected, and which of the two choices of the camera screen, is open.   *)
(* The keys Left and Right do nothing else and are left out with them.     *)
(***************************************************************************)
EXTENDS Naturals, Sequences, SequencesExt

CONSTANTS Imei,     \* vehicle identities
          NoImei,   \* the empty string: no current vehicle
          MaxKeys,  \* bound: keys pressed per behaviour, PageDown apart, which
                    \* is pressed after each PageUp at most once
          MaxPosted,  \* bound: messages posted to the main thread when a key
                      \* is pressed, this key included
          MaxAsk    \* bound: Enter keys and questions at one time

ASSUME CockpitAssumption ==
    /\ NoImei \notin Imei
    /\ MaxKeys \in Nat /\ MaxPosted \in Nat /\ MaxAsk \in Nat

(***************************************************************************)
(*   controlKey      console: the key the next press of the takeover       *)
(*                   button emits                                          *)
(*   keys            keys pressed so far                                   *)
(*   events          what is posted to the main thread: a key for          *)
(*                   InteractiveManager or for a screen, or the result of  *)
(*                   a request for MainCamera                              *)
(*   layout          which pair of screens is shown                        *)
(*   remoteStatus    the driving mode MainCamera shows                     *)
(*   currentStatus   the last result MainCamera received                   *)
(*   isRemoteApply   MainCamera's last request was START                   *)
(*   currentVehicle  System's current vehicle                              *)
(*   asking          the open questions, the newest last: each runs an     *)
(*                   event loop inside the one before                      *)
(*   requests        published on ReqRemoteControl, not yet received       *)
(***************************************************************************)
VARIABLES controlKey, keys, events, layout, remoteStatus, currentStatus,
          isRemoteApply, currentVehicle, asking, requests

console == <<controlKey, keys>>
mainCamera == <<remoteStatus, currentStatus, isRemoteApply>>
screens == <<layout, mainCamera, currentVehicle, asking>>
vars == <<console, events, screens, requests>>

Keys == {"PageUp", "PageDown", "Escape", "Enter"}
Results == {"UNKNOWN", "DISCONNECT", "RECV", "TIMEOUT", "REJECT"}
Screens == {"MainMonitor", "MainCamera", "RightCamera"}
Layouts == {"Monitor", "RemoteControl"}
RemoteStatuses == {"Monitoring", "RemoteControl", "Fail", "Disconnect"}

Messages == [to : Screens \cup {"InteractiveManager"}, cmd : Keys]
            \cup [to : {"MainCamera"}, cmd : Results]
Requests == [imei : Imei \cup {NoImei}, opt : {"UNKNOWN", "START", "END"}]

TypeOK ==
    /\ controlKey \in {"PageUp", "PageDown"}
    /\ keys \in 0..MaxKeys
    /\ events \in Seq(Messages)
    /\ layout \in Layouts
    /\ remoteStatus \in RemoteStatuses
    /\ currentStatus \in Results
    /\ isRemoteApply \in BOOLEAN
    /\ currentVehicle \in Imei \cup {NoImei}
    /\ asking \in Seq({"enter", "docked"})
    /\ requests \in Seq(Requests)

-----------------------------------------------------------------------------
Init ==
    /\ controlKey = "PageUp"
    /\ keys = 0
    /\ events = <<>>
    /\ layout = "Monitor"
    /\ remoteStatus = "Monitoring"
    /\ currentStatus = "UNKNOWN"
    /\ isRemoteApply \in BOOLEAN        \* the member is not initialized
    /\ currentVehicle = NoImei
    /\ asking = <<>>
    /\ requests = <<>>

-----------------------------------------------------------------------------
(* The console, and the subscriber threads of IpcManager *)

Emit(key) == events' = Append(events, [to |-> "InteractiveManager", cmd |-> key])

Enters == Cardinality({i \in DOMAIN events : events[i].cmd = "Enter"})

\* The takeover button is released, or a direction key.
HandleButton(key) ==
    /\ IF key = "PageDown" THEN UNCHANGED keys
                           ELSE keys < MaxKeys /\ keys' = keys + 1
    /\ Len(events) < MaxPosted
    /\ key = "Enter" => Enters + Len(asking) < MaxAsk
    /\ IF key \in {"PageUp", "PageDown"}
       THEN /\ key = controlKey
            /\ controlKey' = IF key = "PageUp" THEN "PageDown" ELSE "PageUp"
       ELSE UNCHANGED controlKey
    /\ Emit(key)
    /\ UNCHANGED <<screens, requests>>

\* An answer is dropped unless MainCamera is shown and it names the current
\* vehicle at that moment.
RespRemotelHandler(imei, result) ==
    /\ events' = IF layout = "RemoteControl" /\ imei = currentVehicle
                 THEN Append(events, [to |-> "MainCamera", cmd |-> result])
                 ELSE events
    /\ UNCHANGED <<console, screens, requests>>

-----------------------------------------------------------------------------
(* Main thread *)

Publish(opt) ==
    requests' = Append(requests, [imei |-> currentVehicle, opt |-> opt])

\* MainMonitor's controller, and RightCamera's, are connected to the main
\* processor only while their screen is shown.
Connected(screen) ==
    layout = IF screen = "MainMonitor" THEN "Monitor" ELSE "RemoteControl"

\* What InteractiveManager::m_focusModule is in a layout.
FocusModule == IF layout = "Monitor" THEN "MainMonitor" ELSE "RightCamera"

\* The message handled is taken out of the queue; its handler may post another.
Take(reposted) == events' = Tail(events) \o reposted

\* InteractiveManager: the takeover keys go to MainCamera, the others to the
\* screen that has the focus now.
InteractiveManager(m) ==
    /\ m.to = "InteractiveManager"
    /\ Take(<<[to |-> IF m.cmd \in {"PageUp", "PageDown"} THEN "MainCamera"
                                                             ELSE FocusModule,
                  cmd |-> m.cmd]>>)
    /\ UNCHANGED <<console, screens, requests>>

\* Mutated RemoteResult: an accepted request always shows monitoring.
AcceptedShowsMonitoring(m) ==
    /\ m.to = "MainCamera" /\ m.cmd \in Results
    /\ Take(<<>>)
    /\ currentStatus' = m.cmd
    /\ remoteStatus' = CASE m.cmd = "RECV" -> "Monitoring"
                         [] m.cmd = "DISCONNECT" -> "Disconnect"
                         [] OTHER -> "Fail"
    /\ UNCHANGED <<console, layout, isRemoteApply, currentVehicle, asking, requests>>

\* Mutated RemoteResult: the converted status is stored.
ConvertedStored(m) ==
    /\ m.to = "MainCamera" /\ m.cmd \in Results
    /\ Take(<<>>)
    /\ remoteStatus' = CASE m.cmd = "RECV" /\ isRemoteApply -> "RemoteControl"
                         [] m.cmd = "RECV" /\ ~ isRemoteApply -> "Monitoring"
                         [] m.cmd = "DISCONNECT" -> "Disconnect"
                         [] OTHER -> "Fail"
    /\ currentStatus' = remoteStatus'
    /\ UNCHANGED <<console, layout, isRemoteApply, currentVehicle, asking, requests>>

\* MainCameraCL::getFromAny, MC_RemoteResule: what was accepted is the kind of
\* request made last, whichever the answer is to.
RemoteResult(m) ==
    /\ m.to = "MainCamera" /\ m.cmd \in Results
    /\ Take(<<>>)
    /\ currentStatus' = m.cmd
    /\ remoteStatus' = CASE m.cmd = "RECV" /\ isRemoteApply -> "RemoteControl"
                         [] m.cmd = "RECV" /\ ~ isRemoteApply -> "Monitoring"
                         [] m.cmd = "DISCONNECT" -> "Disconnect"
                         [] OTHER -> "Fail"
    /\ UNCHANGED <<console, layout, isRemoteApply, currentVehicle, asking, requests>>

\* MainCameraCL::inputHandler: PageUp asks for control if the last result was
\* "accepted", and gives it up otherwise; PageDown is commented out.
MainCameraKey(m) ==
    /\ m.to = "MainCamera" /\ m.cmd \in Keys
    /\ Take(<<>>)
    /\ IF m.cmd = "PageUp"
       THEN /\ isRemoteApply' = (currentStatus = "RECV")
            /\ IF Connected("MainCamera")
               THEN Publish(IF currentStatus = "RECV" THEN "START" ELSE "END")
               ELSE UNCHANGED requests
       ELSE UNCHANGED <<isRemoteApply, requests>>
    /\ UNCHANGED <<console, layout, remoteStatus, currentStatus, currentVehicle,
                   asking>>

\* Mutated RightCameraEscape: the layout is switched first, which disconnects
\* the controller before it asks for the end of control.
SwitchBeforeEnd(m) ==
    /\ m.to = "RightCamera" /\ m.cmd = "Escape"
    /\ Take(<<>>)
    /\ layout' = "Monitor"
    /\ UNCHANGED <<console, mainCamera, currentVehicle, asking, requests>>

\* RightCameraCL::inputHandler, Escape: END is published, then the layout is
\* switched.
RightCameraEscape(m) ==
    /\ m.to = "RightCamera" /\ m.cmd = "Escape"
    /\ Take(<<>>)
    /\ IF Connected("RightCamera")
       THEN Publish("END") /\ layout' = "Monitor"
       ELSE UNCHANGED <<requests, layout>>
    /\ UNCHANGED <<console, mainCamera, currentVehicle, asking>>

\* RightCameraCL::inputHandler, Enter: with "docked" selected it asks.
RightCameraEnter(m) ==
    /\ m.to = "RightCamera" /\ m.cmd = "Enter"
    /\ Take(<<>>)
    /\ asking' \in {asking, Append(asking, "docked")}
    /\ UNCHANGED <<console, layout, mainCamera, currentVehicle, requests>>

\* MainMonitorCL::inputHandler.  Enter asks if a vehicle is selected; Escape
\* asks whether to leave the program, and is taken here as answered with no.
MainMonitorKey(m) ==
    /\ m.to = "MainMonitor"
    /\ Take(<<>>)
    /\ IF m.cmd = "Enter" THEN asking' \in {asking, Append(asking, "enter")}
                          ELSE UNCHANGED asking
    /\ UNCHANGED <<console, layout, mainCamera, currentVehicle, requests>>

\* Yes to the newest question of MainMonitor: the vehicle selected by now, or
\* none, becomes the current one, and if MainMonitor is still shown the
\* layout is switched, with which MainCamera shows monitoring.
EnterRemoteControl(imei) ==
    /\ asking # <<>> /\ Last(asking) = "enter"
    /\ asking' = Front(asking)
    /\ currentVehicle' = imei
    /\ IF Connected("MainMonitor")
       THEN layout' = "RemoteControl" /\ remoteStatus' = "Monitoring"
       ELSE UNCHANGED <<layout, remoteStatus>>
    /\ UNCHANGED <<console, events, currentStatus, isRemoteApply, requests>>

\* Yes to the newest question of RightCamera.  The report is published on the
\* topic of the remote-control requests, where the low byte of its length is
\* read as the option: neither START nor END.
ReportDocked ==
    /\ asking # <<>> /\ Last(asking) = "docked"
    /\ asking' = Front(asking)
    /\ IF Connected("RightCamera") THEN Publish("UNKNOWN") ELSE UNCHANGED requests
    /\ UNCHANGED <<console, events, layout, mainCamera, currentVehicle>>

AnswerNo ==
    /\ asking # <<>>
    /\ asking' = Front(asking)
    /\ UNCHANGED <<console, events, layout, mainCamera, currentVehicle, requests>>

HandleEvent ==
    /\ events # <<>>
    /\ \/ InteractiveManager(Head(events))
       \/ RemoteResult(Head(events))
       \/ MainCameraKey(Head(events))
       \/ RightCameraEscape(Head(events))
       \/ RightCameraEnter(Head(events))
       \/ MainMonitorKey(Head(events))

Driver ==
    \/ \E key \in Keys : HandleButton(key)
    \/ \E imei \in Imei \cup {NoImei} : EnterRemoteControl(imei)
    \/ ReportDocked
    \/ AnswerNo

\* The gateway receives the oldest request.
Received ==
    /\ requests # <<>>
    /\ requests' = Tail(requests)
    /\ UNCHANGED <<console, events, screens>>

Next ==
    \/ Driver
    \/ HandleEvent
    \/ \E imei \in Imei \cup {NoImei}, result \in Results :
          RespRemotelHandler(imei, result)
    \/ Received

Spec == Init /\ [][Next]_vars

-----------------------------------------------------------------------------
(* Properties *)

\* Whatever was pressed, and whatever became of the answers, when the driver is
\* back at the monitor screen the last request the gateway has still to
\* receive asks for the end of control: none made by the remote-control
\* screen, a report in its place included, is published behind it.
EndLast == layout = "Monitor" /\ requests # <<>> => Last(requests).opt = "END"
==============================================================================
