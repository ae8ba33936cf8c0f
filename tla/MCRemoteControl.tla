--------------------------- MODULE MCRemoteControl ---------------------------
(***************************************************************************)
(* Instances of RemoteControl for TLC: from the start with one vehicle and *)
(* any keys, which needs nothing beyond RemoteControl, and with two        *)
(* vehicles from the moment one of them is driven.                         *)
(***************************************************************************)
EXTENDS RemoteControl

\* Two vehicles have connected; the driver entered the first, pressed the
\* takeover button twice, to END and to START, had both accepted, and has
\* pressed it back.  The counters start anew.
DrivingInit ==
    LET slot == CHOOSE s \in [1..2 -> Conn] : s[1] # s[2]
        car == CHOOSE v \in [1..2 -> Imei] : v[1] # v[2]
    IN  /\ devList = [i \in 1..2 |-> [sock |-> slot[i], imei |-> car[i]]]
        /\ handle = [c \in Conn |->
                IF c = slot[1]
                THEN [G!NoHandle EXCEPT !.imei = car[1], !.wired = 1,
                                        !.acked = "START"]
                ELSE [G!NoHandle EXCEPT !.imei = car[2]]]
        /\ controlFastDev = slot[1] /\ lastReqControlCmd = "START"
        /\ dataSubs = 1 /\ lightSubs = 1
        /\ posted = <<>> /\ zmq = G!ZmqIdle /\ closing = NoDev
        /\ reqs = 0 /\ awaiting = {}
        /\ controlKey = "PageUp" /\ keys = 0 /\ events = <<>>
        /\ layout = "RemoteControl" /\ remoteStatus = "RemoteControl"
        /\ currentStatus = "RECV" /\ isRemoteApply = TRUE
        /\ currentVehicle = car[1] /\ asking = <<>>
        /\ requests = <<>> /\ answers = <<>>

\* Then the driver leaves, enters the other vehicle, asks for it and leaves,
\* with Enter answered with any vehicle, or none, or no.
Trip == <<"Escape", "Enter", "PageUp", "Escape">>

OnTrip ==
    /\ keys' # keys => Last(events').cmd = Trip[keys']
    /\ controlKey' = "PageUp" => controlKey = "PageUp"

\* A vehicle that is lost stays away.
StaysAway == Len(devList') <= Len(devList)

TwoVehiclesSpec ==
    /\ DrivingInit
    /\ [][OneByOneNext /\ OnTrip /\ StaysAway]_systemVars
    /\ SystemFairness
==============================================================================
