-------------------------------- MODULE Fleet --------------------------------
(***************************************************************************)
(* The vehicles the monitor screen offers, from the gateway's connections  *)
(* to the page on the screen: Gateway, the topic VehicleStatus, and        *)
(* MainMonitorCL with MainMonitorModel of src/rcd/RcdUi.  The gateway says *)
(* once that a vehicle connected and once for each of its connections that *)
(* it was lost; a screen that starts later, or again, is not told.         *)
(*                                                                         *)
(* Entering the selected vehicle is part of Cockpit.  The cockpit makes no *)
(* request here, so that of the gateway only connections move.             *)
(***************************************************************************)
EXTENDS Naturals, Integers, Sequences, SequencesExt

CONSTANTS Conn, NoDev,   \* as in Gateway
          Imei, NoImei,
          BuiltIn,       \* the vehicle a screen lists from its start
          PageSize,      \* MAXPLAYWGT: 6 in the code
          MaxStatuses,   \* bound: statuses on their way
          MaxRestarts    \* bound: restarts of the screen

VARIABLES devList, handle, controlFastDev, lastReqControlCmd, dataSubs,
          lightSubs, posted, zmq, closing, reqs, awaiting   \* of Gateway
VARIABLES statuses,     \* published on VehicleStatus and not yet handled
          vehicleMap,   \* the keys of m_vehicleMap
          vehicleList,  \* m_vehicleList
          showVehicle,  \* m_showVehicle: what the page shows
          select,       \* m_select: the field of the page selected
          pageIndex,
          maxPage,
          restarts      \* of the screen so far

gateway == <<devList, handle, controlFastDev, lastReqControlCmd, dataSubs,
             lightSubs, posted, zmq, closing, reqs, awaiting>>
list == <<vehicleMap, vehicleList>>
page == <<showVehicle, pageIndex, maxPage>>
screen == <<list, page, select, restarts>>
vars == <<gateway, statuses, screen>>

G == INSTANCE Gateway WITH MaxReq <- 0

ASSUME FleetAssumption ==
    /\ G!GatewayAssumption
    /\ BuiltIn \in Imei
    /\ PageSize \in Nat \ {0}
    /\ MaxStatuses \in Nat /\ MaxRestarts \in Nat

Fields == 0..(PageSize - 1)
Statuses == [imei : Imei, connected : BOOLEAN]

TypeOK ==
    /\ G!TypeOK
    /\ statuses \in Seq(Statuses)
    /\ vehicleMap \subseteq Imei
    /\ vehicleList \in Seq(Imei)
    /\ showVehicle \in [Fields -> Imei \cup {NoImei}]
    /\ select \in Fields
    /\ pageIndex \in Nat
    /\ maxPage \in Nat
    /\ restarts \in 0..MaxRestarts

-----------------------------------------------------------------------------
(* The page shown of a list *)

PagesOf(l) == (Len(l) + PageSize - 1) \div PageSize

PageOf(l, index) ==
    [i \in Fields |-> IF index * PageSize + i < Len(l)
                      THEN l[index * PageSize + i + 1] ELSE NoImei]

\* The last page there is, if the index is beyond it.
Clamped(l, index) ==
    IF index < PagesOf(l) THEN index
    ELSE IF PagesOf(l) > 0 THEN PagesOf(l) - 1 ELSE 0

\* Mutated refreshDisplayData: the page index is left where it is.
RefreshUnclamped(l, index) ==
    /\ maxPage' = PagesOf(l)
    /\ pageIndex' = index
    /\ showVehicle' = PageOf(l, index)

refreshDisplayData(l, index) ==
    /\ maxPage' = PagesOf(l)
    /\ pageIndex' = Clamped(l, index)
    /\ showVehicle' = PageOf(l, Clamped(l, index))

-----------------------------------------------------------------------------
\* A screen as it starts, its page refreshed when it is first shown.
Started ==
    /\ vehicleMap = {BuiltIn}
    /\ vehicleList = <<BuiltIn>>
    /\ select = 0
    /\ pageIndex = 0
    /\ maxPage = PagesOf(<<BuiltIn>>)
    /\ showVehicle = PageOf(<<BuiltIn>>, 0)

\* The option of the last request is not initialized, and not used here.
Init == /\ G!Init /\ lastReqControlCmd = "UNKNOWN"
        /\ statuses = <<>>
        /\ Started /\ restarts = 0

(* Gateway *)

Publish(imei, connected) ==
    /\ Len(statuses) < MaxStatuses
    /\ statuses' = Append(statuses, [imei |-> imei, connected |-> connected])

VehicleConnects(c) ==
    /\ G!HandleNewConnect(c)
    /\ UNCHANGED <<statuses, screen>>

VehicleAuthenticates(c, imei) ==
    /\ G!HandleAuth(c, imei)
    /\ Publish(imei, TRUE)
    /\ UNCHANGED screen

\* Mutated ConnectionLost: a connection that is closed because it was silent
\* raises no status.
LostBySilence(c) ==
    /\ G!DevDisConnected(c)
    /\ \/ UNCHANGED statuses
       \/ handle[c].imei # NoImei /\ Publish(handle[c].imei, FALSE)
    /\ UNCHANGED screen

\* DevDisConnected raises the status of every connection that has an IMEI.
ConnectionLost(c) ==
    /\ G!DevDisConnected(c)
    /\ IF handle[c].imei = NoImei
       THEN UNCHANGED statuses ELSE Publish(handle[c].imei, FALSE)
    /\ UNCHANGED screen

ConnectionDeleted ==
    /\ G!HandleDevDisConnected
    /\ UNCHANGED <<statuses, screen>>

-----------------------------------------------------------------------------
(* Monitor screen *)

\* Mutated addVehicle: appended whether it is known or not.
AppendAlways(imei) ==
    /\ vehicleMap' = vehicleMap \cup {imei}
    /\ vehicleList' = Append(vehicleList, imei)
    /\ refreshDisplayData(vehicleList', pageIndex)

\* A vehicle that is known is not listed again.
addVehicle(imei) ==
    /\ vehicleMap' = vehicleMap \cup {imei}
    /\ IF imei \in vehicleMap
       THEN UNCHANGED <<vehicleList, page>>
       ELSE /\ vehicleList' = Append(vehicleList, imei)
            /\ refreshDisplayData(vehicleList', pageIndex)

\* removeOne: the first entry is taken out, if there is one.
removeOne(imei) ==
    \/ \E i \in DOMAIN vehicleList :
          /\ vehicleList[i] = imei
          /\ \A j \in 1..(i-1) : vehicleList[j] # imei
          /\ vehicleList' = RemoveAt(vehicleList, i)
    \/ /\ \A i \in DOMAIN vehicleList : vehicleList[i] # imei
       /\ UNCHANGED vehicleList

removeVehicle(imei) ==
    /\ removeOne(imei)
    /\ vehicleMap' = vehicleMap \ {imei}
    /\ refreshDisplayData(vehicleList', pageIndex)

vehicleStatusHandler ==
    /\ statuses # <<>>
    /\ statuses' = Tail(statuses)
    /\ \/ Head(statuses).connected /\ addVehicle(Head(statuses).imei)
       \/ ~ Head(statuses).connected /\ removeVehicle(Head(statuses).imei)
    /\ UNCHANGED <<gateway, select, restarts>>

\* Mutated KeyRight: the page is not refreshed.
RightUnrefreshed ==
    /\ select' = (select + 1) % PageSize
    /\ pageIndex' = IF select = PageSize - 1 /\ pageIndex < maxPage - 1
                    THEN pageIndex + 1 ELSE pageIndex
    /\ UNCHANGED <<gateway, statuses, list, showVehicle, maxPage, restarts>>

\* Right of the last field is the first one, of the next page if there is one.
KeyRight ==
    /\ select' = (select + 1) % PageSize
    /\ IF select = PageSize - 1 /\ pageIndex < maxPage - 1
       THEN refreshDisplayData(vehicleList, pageIndex + 1)
       ELSE UNCHANGED page
    /\ UNCHANGED <<gateway, statuses, list, restarts>>

\* Mutated KeyLeft: the first field is not looked for, and the eight bits of
\* the selection wrap.
LeftUnchecked ==
    /\ select' = (select - 1) % 256
    /\ UNCHANGED <<gateway, statuses, list, page, restarts>>

\* Left of the first field is the last one, of the page before if there is one.
KeyLeft ==
    /\ select' = (select - 1) % PageSize
    /\ IF select = 0 /\ pageIndex > 0
       THEN refreshDisplayData(vehicleList, pageIndex - 1)
       ELSE UNCHANGED page
    /\ UNCHANGED <<gateway, statuses, list, restarts>>

\* The program is left and started again: what it knew is gone, and so is what
\* was published and not handled, or is published until it subscribes.
ScreenRestarts ==
    /\ restarts < MaxRestarts
    /\ restarts' = restarts + 1
    /\ statuses' = <<>>
    /\ vehicleMap' = {BuiltIn}
    /\ vehicleList' = <<BuiltIn>>
    /\ select' = 0
    /\ refreshDisplayData(<<BuiltIn>>, 0)
    /\ UNCHANGED gateway

-----------------------------------------------------------------------------
Next ==
    \/ \E c \in Conn :
          \/ VehicleConnects(c)
          \/ \E imei \in Imei : VehicleAuthenticates(c, imei)
          \/ ConnectionLost(c)
    \/ ConnectionDeleted
    \/ vehicleStatusHandler
    \/ KeyRight
    \/ KeyLeft
    \/ ScreenRestarts

Spec == Init /\ [][Next]_vars

\* The gateway finishes what it began, the screen handles what it is sent.
LiveSpec ==
    /\ Spec
    /\ WF_vars(ConnectionDeleted)
    /\ WF_vars(vehicleStatusHandler)

-----------------------------------------------------------------------------
(* Properties *)

\* What the selection picks from is the page of the list as it is now, and
\* there is such a page: vehicles come and go, and the driver turns pages, in
\* any order.
ShownAgrees ==
    /\ maxPage = PagesOf(vehicleList)
    /\ pageIndex < maxPage \/ pageIndex = 0
    /\ showVehicle = PageOf(vehicleList, pageIndex)

\* Each vehicle is listed once, and those listed are those known.
ListedOnce ==
    /\ vehicleMap = {vehicleList[i] : i \in DOMAIN vehicleList}
    /\ \A i, j \in DOMAIN vehicleList : vehicleList[i] = vehicleList[j] => i = j

ConnectedVehicles == {handle[c].imei : c \in G!Listed} \ {NoImei}

\* Everything published is handled, and no connection is half closed.
Told == statuses = <<>> /\ closing = NoDev

\* A vehicle offered for remote control is connected, once the screen has
\* handled what it was sent: reconnections, restarts of the screen and second
\* connections leave no ghost behind.  The built-in vehicle is one by design.
NoGhosts ==
    Told => {vehicleList[i] : i \in DOMAIN vehicleList}
               \subseteq ConnectedVehicles \cup {BuiltIn}

\* A vehicle that is lost disappears from the screen, or comes back, also if
\* statuses of other vehicles never cease.
LostDisappears ==
    \A imei \in Imei \ {BuiltIn} :
        imei \notin ConnectedVehicles
            ~> imei \notin vehicleMap \/ imei \in ConnectedVehicles

\* The list is of the vehicles connected now, as the message is documented:
\* one that is connected can be selected.
ConnectedListed == Told => ConnectedVehicles \subseteq vehicleMap
==============================================================================
