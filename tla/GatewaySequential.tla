-------------------------- MODULE GatewaySequential --------------------------
(***************************************************************************)
(* The gateway used the way its single lastReqControlCmd supposes: one     *)
(* request at a time, remote control started only when no vehicle is under *)
(* control, and one connection per vehicle.  Used like this it implements  *)
(* Takeover.  Connections may still be lost, and answers late or missing,  *)
(* at any moment.                                                          *)
(***************************************************************************)
EXTENDS Gateway

\* Nothing of an earlier request is left: not in the subscriber thread, not
\* in Qt's event queue, not at a vehicle.
Quiet ==
    /\ zmq.pc = "idle"
    /\ posted = <<>>
    /\ \A c \in Alive : handle[c].cmds = <<>> /\ ~ handle[c].timer

SequentialRequest(imei, opt) ==
    /\ Quiet
    /\ opt = "START" => controlFastDev = NoDev
    /\ HandleZmqReqRemoteControl(imei, opt)

SingleAuth(c, imei) ==
    /\ \A d \in Listed \ {c} : handle[d].imei # imei
    /\ HandleAuth(c, imei)

SequentialMainStep ==
    \/ \E c \in Conn :
          \/ HandleNewConnect(c)
          \/ \E imei \in Imei : SingleAuth(c, imei)
          \/ HandleReqControlCmdSlot(c)
          \/ \E result \in {"RECV", "REJECT"} : HandleRespControlCmd(c, result)
          \/ ControlCmdTimeOutSlots(c)
          \/ DevDisConnected(c)
    \/ Dequeue
    \/ HandleDevDisConnected

SequentialZmqStep ==
    \/ \E imei \in Imei, opt \in {"START", "END"} : SequentialRequest(imei, opt)
    \/ ZmqStoreLastReq
    \/ ZmqEmit

SequentialNext == SequentialMainStep \/ SequentialZmqStep

SequentialSpec == Init /\ [][SequentialNext]_vars

\* A published sample is written once, to the controlled vehicle alone, and
\* nothing is subscribed to or connected when no vehicle is controlled.
SingleControl ==
    /\ dataSubs = IF controlFastDev = NoDev THEN 0 ELSE 1
    /\ \A c \in Alive : handle[c].wired = IF c = controlFastDev THEN 1 ELSE 0

\* The gateway under sequential use implements Takeover: the owner is the
\* vehicle of controlFastDev, the driven vehicles those of Driven.
Owner == IF controlFastDev = NoDev THEN NoImei ELSE handle[controlFastDev].imei
Promise == INSTANCE Takeover WITH owner <- Owner,
                                  driven <- {handle[c].imei : c \in Driven}
ImplementsTakeover == Promise!Spec
==============================================================================
