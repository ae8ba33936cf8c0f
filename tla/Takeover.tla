------------------------------ MODULE Takeover ------------------------------
(***************************************************************************)
(* What the gateway promises a cockpit: at most one vehicle is under       *)
(* remote control, control data is written to that vehicle and to no       *)
(* other, and control passes from one vehicle to another only through a    *)
(* state in which nobody is driven.                                        *)
(***************************************************************************)
CONSTANTS Imei, NoImei

VARIABLES owner,   \* the vehicle under remote control, or NoImei
          driven   \* the vehicles a published control sample is written to

Init == owner = NoImei /\ driven = {}

Take(imei) ==
    /\ owner = NoImei
    /\ owner' = imei
    /\ driven' = {imei}

GiveBack ==
    /\ owner # NoImei
    /\ owner' = NoImei
    /\ driven' = {}

Next == GiveBack \/ \E imei \in Imei : Take(imei)

Spec == Init /\ [][Next]_<<owner, driven>>
==============================================================================
