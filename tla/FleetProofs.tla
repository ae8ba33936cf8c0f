----------------------------- MODULE FleetProofs -----------------------------
(***************************************************************************)
(* Proofs about Fleet, for any number of connections, vehicles, statuses   *)
(* on their way and restarts of the screen, and any size of a page: its    *)
(* gateway is Gateway, so that GatewayProofs applies to it, and TypeOK,    *)
(* ShownAgrees, ListedOnce and NoGhosts hold.                              *)
(***************************************************************************)
EXTENDS Fleet, SequenceTheorems, TLAPS

P == INSTANCE GatewayProofs WITH MaxReq <- 0

\* Without requests nobody is controlled and the subscriber thread rests.
NoRequests ==
    /\ controlFastDev = NoDev
    /\ zmq = G!ZmqIdle
    /\ posted = <<>>

\* A connection of the vehicle that is not about to be deleted.
Standing(imei) ==
    \E c \in G!Listed : c # closing /\ handle[c].imei = imei

\* No loss of the vehicle is published after the i-th status.
NotLostAfter(imei, i) ==
    \A j \in DOMAIN statuses :
        j > i => statuses[j] # [imei |-> imei, connected |-> FALSE]

\* A vehicle which the screen lists, or will list by a status on its way, and
\* will not then take off again, has a connection.
ListedStand ==
    \A imei \in Imei \ {BuiltIn} :
        /\ imei \in vehicleMap /\ NotLostAfter(imei, 0) => Standing(imei)
        /\ \A i \in DOMAIN statuses :
              /\ statuses[i] = [imei |-> imei, connected |-> TRUE]
              /\ NotLostAfter(imei, i)
              => Standing(imei)

\* The list and the page of the screen, which know nothing of the gateway.
ScreenOK ==
    /\ vehicleMap \subseteq Imei
    /\ vehicleList \in Seq(Imei)
    /\ showVehicle \in [Fields -> Imei \cup {NoImei}]
    /\ select \in Fields
    /\ pageIndex \in Nat
    /\ maxPage \in Nat
    /\ restarts \in 0..MaxRestarts
    /\ ShownAgrees
    /\ ListedOnce

FleetInv ==
    /\ P!IInv /\ NoRequests
    /\ statuses \in Seq(Statuses)
    /\ ScreenOK
    /\ ListedStand

-----------------------------------------------------------------------------
(* The gateway *)

\* GatewayProofs has a copy of Gateway's definitions: they are the same.
LEMMA SameGateway ==
    /\ G!GatewayAssumption <=> P!GatewayAssumption
    /\ G!Init <=> P!Init
    /\ G!TypeOK <=> P!TypeOK
    /\ G!Listed = P!Listed
    /\ \A c : /\ G!HandleNewConnect(c) <=> P!HandleNewConnect(c)
              /\ G!DevDisConnected(c) <=> P!DevDisConnected(c)
              /\ \A imei : G!HandleAuth(c, imei) <=> P!HandleAuth(c, imei)
    /\ G!HandleDevDisConnected <=> P!HandleDevDisConnected
    /\ G!vars = P!vars
<1>1. G!GatewayAssumption <=> P!GatewayAssumption
  BY DEF G!GatewayAssumption, P!GatewayAssumption
<1>2. G!Init <=> P!Init
  BY DEF G!Init, P!Init, G!NoHandle, P!NoHandle, G!Opts, P!Opts, G!ZmqIdle, P!ZmqIdle
<1>3. G!TypeOK <=> P!TypeOK
  BY DEF G!TypeOK, P!TypeOK, G!DevInfos, P!DevInfos, G!Handles, P!Handles,
         G!Opts, P!Opts, G!Emissions, P!Emissions, G!ZmqStates, P!ZmqStates
<1>4. \A l : G!ListedIn(l) = P!ListedIn(l)
  BY DEF G!ListedIn, P!ListedIn
<1>5. G!Listed = P!Listed
  BY <1>4 DEF G!Listed, P!Listed
<1>6. \A l, fast, tmp : G!Owned(l, fast, tmp) = P!Owned(l, fast, tmp)
  BY <1>4 DEF G!Owned, P!Owned
<1>7. G!Alive = P!Alive
  BY <1>6 DEF G!Alive, P!Alive
<1>8. \A imei : G!GetDevHandle(imei) = P!GetDevHandle(imei)
  BY DEF G!GetDevHandle, P!GetDevHandle, G!OldestOf, P!OldestOf
<1>9. \A f, keep : /\ G!Surviving(f, keep) = P!Surviving(f, keep)
                   /\ G!Undelivered(keep) = P!Undelivered(keep)
  BY DEF G!Surviving, P!Surviving, G!NoHandle, P!NoHandle,
         G!Undelivered, P!Undelivered
<1>10. \A f : G!Release(f) <=> P!Release(f)
  BY <1>6, <1>9 DEF G!Release, P!Release, G!Retarget, P!Retarget
<1>11. ASSUME NEW c, NEW imei
       PROVE  /\ G!HandleNewConnect(c) <=> P!HandleNewConnect(c)
              /\ G!HandleAuth(c, imei) <=> P!HandleAuth(c, imei)
  BY <1>5, <1>7 DEF G!HandleNewConnect, P!HandleNewConnect, G!AddDev, P!AddDev,
         G!HandleAuth, P!HandleAuth, G!UpdateDev, P!UpdateDev, G!fastVars, P!fastVars
<1>12. \A imei : G!HandleVehicleStatus(imei) <=> P!HandleVehicleStatus(imei)
  BY <1>8, <1>10 DEF G!HandleVehicleStatus, P!HandleVehicleStatus,
                     G!fastVars, P!fastVars
<1>13. ASSUME NEW c
       PROVE  G!DevDisConnected(c) <=> P!DevDisConnected(c)
  BY <1>5, <1>12 DEF G!DevDisConnected, P!DevDisConnected, G!fastVars, P!fastVars
<1>14. G!HandleDevDisConnected <=> P!HandleDevDisConnected
  <2>1. G!DelDev(closing) <=> P!DelDev(closing)
    BY DEF G!DelDev, P!DelDev, G!RemoveAt, P!RemoveAt
  <2>2. QED
    BY <1>6, <1>9, <2>1 DEF G!HandleDevDisConnected, P!HandleDevDisConnected,
                            G!fastVars, P!fastVars
<1>15. G!vars = P!vars
  BY DEF G!vars, P!vars, G!fastVars, P!fastVars
<1>16. QED
  BY <1>1, <1>2, <1>3, <1>5, <1>11, <1>13, <1>14, <1>15
-----------------------------------------------------------------------------
(* Pages *)

\* How the division that counts the pages rounds.
LEMMA Division ==
    ASSUME NEW a \in Nat, NEW b \in Nat \ {0}
    PROVE  a \div b \in Nat
  OBVIOUS

LEMMA Remainder ==
    ASSUME NEW a \in Int
    PROVE  a % PageSize \in Fields
  BY FleetAssumption DEF Fields

LEMMA PagesType ==
    ASSUME NEW l \in Seq(Imei)
    PROVE  PagesOf(l) \in Nat
<1>1. Len(l) + PageSize - 1 \in Nat /\ PageSize \in Nat \ {0}
  BY FleetAssumption, LenProperties
<1>2. QED
  BY <1>1, Division DEF PagesOf

LEMMA PageType ==
    ASSUME NEW l \in Seq(Imei), NEW index \in Nat
    PROVE  PageOf(l, index) \in [Fields -> Imei \cup {NoImei}]
<1>1. /\ PageSize \in Nat \ {0} /\ Len(l) \in Nat
      /\ \A n \in 1..Len(l) : l[n] \in Imei
  BY FleetAssumption, LenProperties, ElementOfSeq
<1>2. index * PageSize \in Nat
  BY <1>1
<1>3. ASSUME NEW i \in Fields, index * PageSize + i < Len(l)
      PROVE  l[index * PageSize + i + 1] \in Imei
  <2>1. i \in Nat
    BY <1>1 DEF Fields
  <2>2. QED
    BY <1>1, <1>2, <1>3, <2>1
<1>4. QED
  BY <1>3 DEF PageOf

LEMMA ClampedType ==
    ASSUME NEW l \in Seq(Imei), NEW index \in Nat
    PROVE  /\ Clamped(l, index) \in Nat
           /\ Clamped(l, index) < PagesOf(l) \/ Clamped(l, index) = 0
  BY PagesType DEF Clamped

\* A refreshed page is one of the list, whatever page was asked for.
LEMMA Refreshing ==
    ASSUME NEW l \in Seq(Imei), NEW index \in Nat,
           vehicleList' = l, refreshDisplayData(l, index)
    PROVE  /\ ShownAgrees'
           /\ maxPage' \in Nat /\ pageIndex' \in Nat
           /\ showVehicle' \in [Fields -> Imei \cup {NoImei}]
<1>1. /\ maxPage' = PagesOf(l)
      /\ pageIndex' = Clamped(l, index)
      /\ showVehicle' = PageOf(l, Clamped(l, index))
  BY DEF refreshDisplayData
<1>2. /\ Clamped(l, index) \in Nat
      /\ Clamped(l, index) < PagesOf(l) \/ Clamped(l, index) = 0
      /\ PagesOf(l) \in Nat
      /\ PageOf(l, Clamped(l, index)) \in [Fields -> Imei \cup {NoImei}]
  BY ClampedType, PagesType, PageType
<1>3. ShownAgrees'
  BY <1>1, <1>2 DEF ShownAgrees, PagesOf, PageOf
<1>4. QED
  BY <1>1, <1>2, <1>3

-----------------------------------------------------------------------------
(* The steps of the gateway *)

LEMMA GatewayInit == Init => P!IInv /\ NoRequests
<1> SUFFICES ASSUME Init PROVE P!IInv /\ NoRequests
  OBVIOUS
<1>1. P!GatewayAssumption
  BY FleetAssumption, SameGateway
<1>2. P!Init
  BY SameGateway DEF Init
<1>3. P!IInv
  BY <1>1, <1>2, P!InitInv
<1>4. NoRequests
  BY DEF Init, G!Init, NoRequests
<1>5. QED
  BY <1>3, <1>4
\* A step of the fleet's gateway is one of Gateway, which makes no requests.
LEMMA ConnectsGateway ==
    ASSUME P!IInv, NoRequests, NEW c \in Conn, VehicleConnects(c)
    PROVE  /\ P!IInv' /\ NoRequests'
           /\ UNCHANGED <<handle, closing>>
           /\ G!Listed' = G!Listed \cup {c}
<1>1. P!GatewayAssumption
  BY FleetAssumption, SameGateway
<1>2. P!HandleNewConnect(c)
  BY SameGateway DEF VehicleConnects
<1>3. /\ P!AddDev(c)
      /\ UNCHANGED <<handle, controlFastDev, posted, zmq, closing>>
  BY <1>2 DEF P!HandleNewConnect, P!fastVars
<1>4. P!IInv'
  BY <1>1, <1>2, P!NewConnectInv
<1>5. NoRequests'
  BY <1>3 DEF NoRequests, G!ZmqIdle
<1>6. P!Listed' = P!Listed \cup {c}
  BY <1>1, <1>3, P!Addition DEF P!IInv
<1>7. G!Listed = P!Listed /\ G!Listed' = P!Listed'
  BY SameGateway DEF G!Listed, P!Listed, G!ListedIn, P!ListedIn
<1>8. QED
  BY <1>3, <1>4, <1>5, <1>6, <1>7

LEMMA AuthenticatesGateway ==
    ASSUME P!IInv, NoRequests, NEW c \in Conn, NEW imei \in Imei,
           VehicleAuthenticates(c, imei)
    PROVE  /\ P!IInv' /\ NoRequests'
           /\ c \in G!Listed /\ c # closing
           /\ \A d \in Conn : handle'[d].imei =
                                 IF d = c THEN imei ELSE handle[d].imei
           /\ handle[c].imei \in {NoImei, imei}
           /\ UNCHANGED closing
           /\ G!Listed' = G!Listed
<1>1. P!GatewayAssumption
  BY FleetAssumption, SameGateway
<1>2. P!HandleAuth(c, imei)
  BY SameGateway DEF VehicleAuthenticates
<1>3. /\ closing = NoDev
      /\ c \in P!Listed
      /\ handle[c].imei \in {NoImei, imei}
      /\ handle' = [handle EXCEPT ![c].imei = imei]
      /\ P!UpdateDev(c, imei)
      /\ UNCHANGED <<controlFastDev, posted, zmq, closing>>
  BY <1>2 DEF P!HandleAuth, P!fastVars
<1>4. P!IInv'
  BY <1>1, <1>2, P!AuthInv
<1>5. NoRequests'
  BY <1>3 DEF NoRequests, G!ZmqIdle
<1>6. \A d \in Conn : handle'[d].imei = IF d = c THEN imei ELSE handle[d].imei
  BY <1>3 DEF P!IInv, P!TypeOK, P!Handles
<1>7. c # closing
  BY <1>1, <1>3 DEF P!GatewayAssumption
<1>8. G!Listed' = G!Listed
  <2>1. \A i \in DOMAIN devList : devList[i] \in P!DevInfos
    BY LenProperties, ElementOfSeq DEF P!IInv, P!TypeOK
  <2>2. /\ DOMAIN devList' = DOMAIN devList
        /\ \A i \in DOMAIN devList : devList'[i].sock = devList[i].sock
    BY <1>3, <2>1 DEF P!UpdateDev, P!DevInfos
  <2>3. QED
    BY <2>2 DEF G!Listed, G!ListedIn
<1>9. QED
  BY <1>3, <1>4, <1>5, <1>6, <1>7, <1>8, SameGateway

LEMMA LostGateway ==
    ASSUME P!IInv, NoRequests, NEW c \in Conn, ConnectionLost(c)
    PROVE  /\ P!IInv' /\ NoRequests'
           /\ closing = NoDev /\ closing' = c
           /\ UNCHANGED handle
           /\ G!Listed' = G!Listed
<1>1. P!GatewayAssumption
  BY FleetAssumption, SameGateway
<1>2. P!DevDisConnected(c)
  BY SameGateway DEF ConnectionLost
<1>3. /\ closing = NoDev /\ closing' = c
      /\ UNCHANGED <<devList, zmq>>
  BY <1>2 DEF P!DevDisConnected
<1>4. UNCHANGED <<handle, posted, controlFastDev>>
  BY <1>2 DEF P!DevDisConnected, P!HandleVehicleStatus, P!fastVars, NoRequests
<1>5. P!IInv'
  BY <1>1, <1>2, P!DisconnectedInv
<1>6. NoRequests'
  BY <1>3, <1>4 DEF NoRequests, G!ZmqIdle
<1>7. G!Listed' = G!Listed
  BY <1>3 DEF G!Listed, G!ListedIn
<1>8. QED
  BY <1>3, <1>4, <1>5, <1>6, <1>7

LEMMA DeletedGateway ==
    ASSUME P!IInv, NoRequests, ConnectionDeleted
    PROVE  /\ P!IInv' /\ NoRequests'
           /\ closing' = NoDev
           /\ G!Listed' = G!Listed \ {closing}
           /\ \A d \in G!Listed' : handle'[d].imei = handle[d].imei
<1>1. P!GatewayAssumption
  BY FleetAssumption, SameGateway
<1>2. P!HandleDevDisConnected
  BY SameGateway DEF ConnectionDeleted
<1> DEFINE keep == P!Owned(devList', controlFastDev, zmq.dev)
<1>3. /\ P!DelDev(closing)
      /\ handle' = P!Surviving([handle EXCEPT ![closing].cmds = <<>>], keep)
      /\ posted' = P!Undelivered(keep)
      /\ closing' = NoDev
      /\ UNCHANGED <<controlFastDev, zmq>>
  BY <1>2 DEF P!HandleDevDisConnected, P!fastVars
<1>4. P!IInv'
  BY <1>1, <1>2, P!DeleteInv
<1>5. NoRequests'
  BY <1>3 DEF NoRequests, G!ZmqIdle, P!Undelivered
<1>6. P!Listed' = P!Listed \ {closing}
  BY <1>1, <1>3, P!Deletion DEF P!IInv
<1>7. ASSUME NEW d \in P!Listed'
      PROVE  handle'[d].imei = handle[d].imei
  <2>1. d \in keep /\ d \in Conn /\ d # closing
    <3>1. d \in P!Listed
      BY <1>6
    <3>2. d \in Conn
      BY <1>1, <3>1, P!ListedType DEF P!IInv
    <3>3. QED
      BY <1>6, <3>2 DEF P!Owned, P!Listed
  <2>2. handle'[d] = [handle EXCEPT ![closing].cmds = <<>>][d]
    BY <1>3, <2>1 DEF P!Surviving
  <2>3. handle \in [Conn -> P!Handles]
    BY DEF P!IInv, P!TypeOK
  <2>4. QED
    BY <2>1, <2>2, <2>3
<1>8. G!Listed = P!Listed /\ G!Listed' = P!Listed'
  BY SameGateway DEF G!Listed, P!Listed, G!ListedIn, P!ListedIn
<1>9. QED
  BY <1>3, <1>4, <1>5, <1>6, <1>7, <1>8
-----------------------------------------------------------------------------
(* Statuses on their way *)

LEMMA Publishing ==
    ASSUME statuses \in Seq(Statuses), NEW imei \in Imei,
           NEW connected \in BOOLEAN, Publish(imei, connected)
    PROVE  /\ statuses' \in Seq(Statuses)
           /\ Len(statuses) \in Nat
           /\ DOMAIN statuses = 1..Len(statuses)
           /\ DOMAIN statuses' = DOMAIN statuses \cup {Len(statuses) + 1}
           /\ \A i \in DOMAIN statuses : statuses'[i] = statuses[i]
           /\ statuses'[Len(statuses) + 1] = [imei |-> imei, connected |-> connected]
<1> DEFINE e == [imei |-> imei, connected |-> connected]
<1>1. statuses' = Append(statuses, e) /\ e \in Statuses
  BY DEF Publish, Statuses
<1> HIDE DEF e
<1>2. Len(statuses) \in Nat /\ DOMAIN statuses = 1..Len(statuses)
  BY LenProperties
<1>3. /\ statuses' \in Seq(Statuses)
      /\ Len(statuses') = Len(statuses) + 1
      /\ \A i \in 1..Len(statuses) : statuses'[i] = statuses[i]
      /\ statuses'[Len(statuses) + 1] = e
  BY <1>1, <1>2, AppendProperties
<1>4. DOMAIN statuses' = 1..(Len(statuses) + 1)
  BY <1>3, LenProperties
<1>5. QED
  BY <1>2, <1>3, <1>4 DEF e

LEMMA Handling ==
    ASSUME statuses \in Seq(Statuses), statuses # <<>>, statuses' = Tail(statuses)
    PROVE  /\ statuses' \in Seq(Statuses)
           /\ Head(statuses) = statuses[1] /\ Head(statuses) \in Statuses
           /\ 1 \in DOMAIN statuses
           /\ \A i \in DOMAIN statuses' : /\ i \in Nat \ {0}
                                          /\ i + 1 \in DOMAIN statuses
                                          /\ statuses'[i] = statuses[i + 1]
           /\ \A j \in DOMAIN statuses : /\ j \in Nat
                                         /\ j > 1 => j - 1 \in DOMAIN statuses'
<1>1. /\ Len(statuses) \in Nat \ {0}
      /\ DOMAIN statuses = 1..Len(statuses)
      /\ statuses[1] \in Statuses
  BY LenProperties, ElementOfSeq, EmptySeq
<1>2. /\ Head(statuses) = statuses[1]
      /\ statuses' \in Seq(Statuses)
      /\ Len(statuses') = Len(statuses) - 1
      /\ \A i \in 1..Len(statuses') : statuses'[i] = statuses[i + 1]
  BY <1>1, HeadTailProperties
<1>3. DOMAIN statuses' = 1..(Len(statuses) - 1)
  BY <1>2, LenProperties
<1>4. QED
  BY <1>1, <1>2, <1>3

\* A connected vehicle is announced.
LEMMA ConnectedStands ==
    ASSUME statuses \in Seq(Statuses), ListedStand,
           NEW imei \in Imei, Publish(imei, TRUE), UNCHANGED vehicleMap,
           \A v \in Imei : Standing(v) => Standing(v)',
           Standing(imei)'
    PROVE  ListedStand'
<1> DEFINE n == Len(statuses)
<1>1. /\ n \in Nat
      /\ DOMAIN statuses = 1..n
      /\ DOMAIN statuses' = DOMAIN statuses \cup {n + 1}
      /\ \A i \in DOMAIN statuses : statuses'[i] = statuses[i]
      /\ statuses'[n + 1] = [imei |-> imei, connected |-> TRUE]
  BY Publishing
<1> HIDE DEF n
<1>2. ASSUME NEW v, NEW i, NotLostAfter(v, i)'
      PROVE  NotLostAfter(v, i)
  BY <1>1, <1>2 DEF NotLostAfter
<1>3. ASSUME NEW v \in Imei \ {BuiltIn}, v \in vehicleMap', NotLostAfter(v, 0)'
      PROVE  Standing(v)'
  BY <1>2, <1>3 DEF ListedStand
<1>4. ASSUME NEW v \in Imei \ {BuiltIn}, NEW i \in DOMAIN statuses',
             statuses'[i] = [imei |-> v, connected |-> TRUE], NotLostAfter(v, i)'
      PROVE  Standing(v)'
  <2>1. CASE i \in DOMAIN statuses
    BY <1>1, <1>2, <1>4, <2>1 DEF ListedStand
  <2>2. CASE i = n + 1
    BY <1>1, <1>4, <2>2
  <2>3. QED
    BY <1>1, <2>1, <2>2
<1>5. QED
  BY <1>3, <1>4 DEF ListedStand

\* The loss of a vehicle is announced: nothing is claimed of it any more.
LEMMA LostStands ==
    ASSUME statuses \in Seq(Statuses), ListedStand,
           NEW imei \in Imei, Publish(imei, FALSE), UNCHANGED vehicleMap,
           \A v \in Imei \ {imei} : Standing(v) => Standing(v)'
    PROVE  ListedStand'
<1> DEFINE n == Len(statuses)
<1>1. /\ n \in Nat
      /\ DOMAIN statuses = 1..n
      /\ DOMAIN statuses' = DOMAIN statuses \cup {n + 1}
      /\ \A i \in DOMAIN statuses : statuses'[i] = statuses[i]
      /\ statuses'[n + 1] = [imei |-> imei, connected |-> FALSE]
  BY Publishing
<1> HIDE DEF n
<1>2. ASSUME NEW v, NEW i \in 0..n, NotLostAfter(v, i)'
      PROVE  NotLostAfter(v, i) /\ v # imei
  <2>1. NotLostAfter(v, i)
    BY <1>1, <1>2 DEF NotLostAfter
  <2>2. v # imei
    <3>1. n + 1 \in DOMAIN statuses' /\ n + 1 > i
      BY <1>1
    <3>2. statuses'[n + 1] # [imei |-> v, connected |-> FALSE]
      BY <1>2, <3>1 DEF NotLostAfter
    <3>3. QED
      BY <1>1, <3>2
  <2>3. QED
    BY <2>1, <2>2
<1>3. ASSUME NEW v \in Imei \ {BuiltIn}, v \in vehicleMap', NotLostAfter(v, 0)'
      PROVE  Standing(v)'
  BY <1>1, <1>2, <1>3 DEF ListedStand
<1>4. ASSUME NEW v \in Imei \ {BuiltIn}, NEW i \in DOMAIN statuses',
             statuses'[i] = [imei |-> v, connected |-> TRUE], NotLostAfter(v, i)'
      PROVE  Standing(v)'
  <2>1. i # n + 1
    BY <1>1, <1>4
  <2>2. i \in DOMAIN statuses /\ i \in 0..n
    BY <1>1, <2>1
  <2>3. QED
    BY <1>1, <1>2, <1>4, <2>2 DEF ListedStand
<1>5. QED
  BY <1>3, <1>4 DEF ListedStand
\* The screen has handled the oldest status, and lists accordingly.
LEMMA HandledStands ==
    ASSUME statuses \in Seq(Statuses), statuses # <<>>, ListedStand,
           statuses' = Tail(statuses),
           vehicleMap' = IF Head(statuses).connected
                         THEN vehicleMap \cup {Head(statuses).imei}
                         ELSE vehicleMap \ {Head(statuses).imei},
           UNCHANGED <<handle, closing, G!Listed>>
    PROVE  ListedStand'
<1>1. /\ Head(statuses) = statuses[1] /\ statuses[1] \in Statuses
      /\ 1 \in DOMAIN statuses
      /\ \A i \in DOMAIN statuses' : /\ i \in Nat \ {0}
                                     /\ i + 1 \in DOMAIN statuses
                                     /\ statuses'[i] = statuses[i + 1]
      /\ \A j \in DOMAIN statuses : /\ j \in Nat
                                    /\ j > 1 => j - 1 \in DOMAIN statuses'
  BY Handling
<1>2. \A v : Standing(v)' <=> Standing(v)
  BY DEF Standing
<1>3. ASSUME NEW v, NEW i \in Nat, NotLostAfter(v, i)'
      PROVE  NotLostAfter(v, i + 1)
  <2> SUFFICES ASSUME NEW j \in DOMAIN statuses, j > i + 1
               PROVE  statuses[j] # [imei |-> v, connected |-> FALSE]
    BY DEF NotLostAfter
  <2>1. j \in Nat /\ j - 1 \in DOMAIN statuses' /\ j - 1 > i
    BY <1>1
  <2>2. statuses'[j - 1] = statuses[(j - 1) + 1] /\ (j - 1) + 1 = j
    BY <1>1, <2>1
  <2>3. QED
    BY <1>3, <2>1, <2>2 DEF NotLostAfter
<1>4. ASSUME NEW v \in Imei \ {BuiltIn}, v \in vehicleMap', NotLostAfter(v, 0)'
      PROVE  Standing(v)'
  <2>1. NotLostAfter(v, 1)
    BY <1>3, <1>4
  <2>2. CASE statuses[1] = [imei |-> v, connected |-> TRUE]
    BY <1>1, <1>2, <2>1, <2>2 DEF ListedStand
  <2>3. CASE statuses[1] # [imei |-> v, connected |-> TRUE]
    <3>1. v \in vehicleMap /\ statuses[1] # [imei |-> v, connected |-> FALSE]
      BY <1>1, <1>4, <2>3 DEF Statuses
    <3>2. NotLostAfter(v, 0)
      <4> SUFFICES ASSUME NEW j \in DOMAIN statuses
                   PROVE  statuses[j] # [imei |-> v, connected |-> FALSE]
        BY DEF NotLostAfter
      <4>1. j \in Nat /\ j # 0
        <5>1. DOMAIN statuses = 1..Len(statuses) /\ Len(statuses) \in Nat
          BY LenProperties
        <5>2. QED
          BY <5>1
      <4>2. j = 1 \/ j > 1
        BY <4>1
      <4>3. QED
        BY <2>1, <3>1, <4>2 DEF NotLostAfter
    <3>3. QED
      BY <1>2, <3>1, <3>2 DEF ListedStand
  <2>4. QED
    BY <2>2, <2>3
<1>5. ASSUME NEW v \in Imei \ {BuiltIn}, NEW i \in DOMAIN statuses',
             statuses'[i] = [imei |-> v, connected |-> TRUE], NotLostAfter(v, i)'
      PROVE  Standing(v)'
  <2>1. i \in Nat /\ i + 1 \in DOMAIN statuses /\ statuses'[i] = statuses[i + 1]
    BY <1>1
  <2>2. NotLostAfter(v, i + 1)
    BY <1>3, <1>5, <2>1
  <2>3. QED
    BY <1>2, <1>5, <2>1, <2>2 DEF ListedStand
<1>6. QED
  BY <1>4, <1>5 DEF ListedStand

-----------------------------------------------------------------------------
(* The list of the screen *)

LEMMA AddedOnce ==
    ASSUME ScreenOK, NEW imei \in Imei, addVehicle(imei),
           UNCHANGED <<select, restarts>>
    PROVE  ScreenOK' /\ vehicleMap' = vehicleMap \cup {imei}
<1>1. vehicleMap' = vehicleMap \cup {imei}
  BY DEF addVehicle
<1>2. CASE imei \in vehicleMap
  <2>1. UNCHANGED <<vehicleMap, vehicleList, page>>
    BY <1>1, <1>2 DEF addVehicle
  <2>2. QED
    BY <1>1, <2>1 DEF ScreenOK, page, ShownAgrees, ListedOnce, PagesOf, PageOf
<1>3. CASE imei \notin vehicleMap
  <2>1. /\ vehicleList' = Append(vehicleList, imei)
        /\ refreshDisplayData(vehicleList', pageIndex)
    BY <1>3 DEF addVehicle
  <2>2. vehicleList \in Seq(Imei) /\ pageIndex \in Nat
    BY DEF ScreenOK
  <2> DEFINE n == Len(vehicleList)
  <2>3. n \in Nat /\ DOMAIN vehicleList = 1..n
    BY <2>2, LenProperties
  <2>4. /\ vehicleList' \in Seq(Imei)
        /\ Len(vehicleList') = n + 1
        /\ \A i \in DOMAIN vehicleList : vehicleList'[i] = vehicleList[i]
        /\ vehicleList'[n + 1] = imei
    BY <2>1, <2>2, <2>3, AppendProperties
  <2> HIDE DEF n
  <2>5. DOMAIN vehicleList' = DOMAIN vehicleList \cup {n + 1}
    <3>1. DOMAIN vehicleList' = 1..(n + 1)
      BY <2>4, LenProperties
    <3>2. QED
      BY <2>3, <3>1
  <2>6. ListedOnce'
    BY <1>1, <1>3, <2>4, <2>5 DEF ScreenOK, ListedOnce
  <2>7. /\ ShownAgrees'
        /\ maxPage' \in Nat /\ pageIndex' \in Nat
        /\ showVehicle' \in [Fields -> Imei \cup {NoImei}]
    BY <2>1, <2>2, <2>4, Refreshing
  <2>8. QED
    BY <1>1, <2>4, <2>6, <2>7 DEF ScreenOK, Fields
<1>4. QED
  BY <1>2, <1>3

\* The entry of a vehicle is taken out of the list, where it is at most once.
LEMMA RemovedOnce ==
    ASSUME ListedOnce, vehicleList \in Seq(Imei), NEW imei \in Imei,
           removeOne(imei), vehicleMap' = vehicleMap \ {imei}
    PROVE  ListedOnce' /\ vehicleList' \in Seq(Imei)
<1>1. CASE UNCHANGED vehicleList /\ \A i \in DOMAIN vehicleList : vehicleList[i] # imei
  BY <1>1 DEF ListedOnce
<1>2. ASSUME NEW i \in DOMAIN vehicleList, vehicleList[i] = imei,
             vehicleList' = RemoveAt(vehicleList, i)
      PROVE  ListedOnce' /\ vehicleList' \in Seq(Imei)
  <2> DEFINE n == Len(vehicleList)
             old(j) == IF j < i THEN j ELSE j + 1
  <2>1. n \in Nat /\ DOMAIN vehicleList = 1..n /\ i \in 1..n
    BY LenProperties
  <2>2. /\ vehicleList' \in Seq(Imei)
        /\ Len(vehicleList') = n - 1
        /\ \A j \in 1..(n - 1) :
              vehicleList'[j] = IF j < i THEN vehicleList[j] ELSE vehicleList[j+1]
    <3>1. P!GatewayAssumption
      BY FleetAssumption, SameGateway
    <3>2. vehicleList' = P!RemoveAt(vehicleList, i)
      BY <1>2 DEF RemoveAt, P!RemoveAt
    <3>3. QED
      BY <2>1, <3>1, <3>2, P!Removal
  <2>3. DOMAIN vehicleList' = 1..(n - 1)
    BY <2>2, LenProperties
  <2>4. ASSUME NEW j \in DOMAIN vehicleList'
        PROVE  /\ j \in Nat
               /\ old(j) \in DOMAIN vehicleList \ {i}
               /\ vehicleList'[j] = vehicleList[old(j)]
    BY <2>1, <2>2, <2>3
  <2>5. ASSUME NEW k \in DOMAIN vehicleList \ {i}
        PROVE  \E j \in DOMAIN vehicleList' : vehicleList'[j] = vehicleList[k]
    <3>1. CASE k < i
      <4>1. k \in DOMAIN vehicleList' /\ vehicleList'[k] = vehicleList[k]
        BY <2>1, <2>2, <2>3, <3>1
      <4>2. QED
        BY <4>1
    <3>2. CASE k > i
      <4>1. k - 1 \in DOMAIN vehicleList' /\ ~ (k - 1 < i) /\ (k - 1) + 1 = k
        BY <2>1, <2>3, <3>2
      <4>2. vehicleList'[k - 1] = vehicleList[(k - 1) + 1]
        BY <2>2, <2>3, <4>1
      <4>3. QED
        BY <4>1, <4>2
    <3>3. QED
      BY <2>1, <3>1, <3>2
  <2>6. \A j, k \in DOMAIN vehicleList' : vehicleList'[j] = vehicleList'[k] => j = k
    <3> SUFFICES ASSUME NEW j \in DOMAIN vehicleList', NEW k \in DOMAIN vehicleList',
                        vehicleList'[j] = vehicleList'[k]
                 PROVE  j = k
      OBVIOUS
    <3>1. old(j) = old(k)
      <4>1. /\ vehicleList[old(j)] = vehicleList[old(k)]
            /\ old(j) \in DOMAIN vehicleList /\ old(k) \in DOMAIN vehicleList
        BY <2>4
      <4> HIDE DEF old
      <4>2. QED
        BY <4>1 DEF ListedOnce
    <3>2. j \in Nat /\ k \in Nat
      BY <2>4
    <3>3. QED
      BY <2>1, <3>1, <3>2
  <2>7. vehicleMap' = {vehicleList'[j] : j \in DOMAIN vehicleList'}
    <3>1. ASSUME NEW j \in DOMAIN vehicleList'
          PROVE  vehicleList'[j] \in vehicleMap'
      <4>1. /\ vehicleList'[j] = vehicleList[old(j)]
            /\ old(j) \in DOMAIN vehicleList /\ old(j) # i
        BY <2>4
      <4> HIDE DEF old
      <4>2. QED
        BY <1>2, <4>1 DEF ListedOnce
    <3>2. ASSUME NEW v \in vehicleMap'
          PROVE  \E j \in DOMAIN vehicleList' : vehicleList'[j] = v
      <4>1. PICK k \in DOMAIN vehicleList : vehicleList[k] = v
        BY DEF ListedOnce
      <4>2. k # i
        BY <1>2, <4>1
      <4>3. QED
        BY <2>5, <4>1, <4>2
    <3>3. QED
      BY <3>1, <3>2
  <2>8. QED
    BY <2>2, <2>6, <2>7 DEF ListedOnce
<1>3. QED
  BY <1>1, <1>2 DEF removeOne

LEMMA RemovedScreen ==
    ASSUME ScreenOK, NEW imei \in Imei, removeVehicle(imei),
           UNCHANGED <<select, restarts>>
    PROVE  ScreenOK' /\ vehicleMap' = vehicleMap \ {imei}
<1>1. /\ removeOne(imei)
      /\ vehicleMap' = vehicleMap \ {imei}
      /\ refreshDisplayData(vehicleList', pageIndex)
  BY DEF removeVehicle
<1>2. ListedOnce' /\ vehicleList' \in Seq(Imei)
  BY <1>1, RemovedOnce DEF ScreenOK
<1>3. /\ ShownAgrees'
      /\ maxPage' \in Nat /\ pageIndex' \in Nat
      /\ showVehicle' \in [Fields -> Imei \cup {NoImei}]
  BY <1>1, <1>2, Refreshing DEF ScreenOK
<1>4. QED
  BY <1>1, <1>2, <1>3 DEF ScreenOK, Fields
\* Turning the page, or not, of a list that stays.
LEMMA Turned ==
    ASSUME ScreenOK, UNCHANGED <<list, restarts>>, select' \in Fields,
           \/ UNCHANGED page
           \/ \E index \in Nat : refreshDisplayData(vehicleList, index)
    PROVE  ScreenOK'
<1>1. UNCHANGED <<vehicleMap, vehicleList, restarts>>
  BY DEF list
<1>2. ListedOnce'
  BY <1>1 DEF ScreenOK, ListedOnce
<1>3. CASE UNCHANGED page
  BY <1>1, <1>2, <1>3 DEF ScreenOK, page, ShownAgrees, PagesOf, PageOf, Fields
<1>4. ASSUME NEW index \in Nat, refreshDisplayData(vehicleList, index)
      PROVE  ScreenOK'
  <2>1. /\ ShownAgrees'
        /\ maxPage' \in Nat /\ pageIndex' \in Nat
        /\ showVehicle' \in [Fields -> Imei \cup {NoImei}]
    BY <1>1, <1>4, Refreshing DEF ScreenOK
  <2>2. QED
    BY <1>1, <1>2, <2>1 DEF ScreenOK, Fields
<1>5. QED
  BY <1>3, <1>4

LEMMA ScreenKept ==
    ASSUME ScreenOK, UNCHANGED screen
    PROVE  ScreenOK'
<1>1. UNCHANGED <<list, page, select, restarts>>
  BY DEF screen
<1>2. QED
  BY <1>1, Turned DEF ScreenOK

-----------------------------------------------------------------------------
(* Every step *)

LEMMA InitFleet == Init => FleetInv
<1> SUFFICES ASSUME Init PROVE FleetInv
  OBVIOUS
<1>1. P!IInv /\ NoRequests
  BY GatewayInit
<1>2. /\ statuses = <<>> /\ DOMAIN statuses = {} /\ statuses \in Seq(Statuses)
      /\ Started /\ restarts = 0
  BY EmptySeq DEF Init
<1> DEFINE l == <<BuiltIn>>
<1>3. /\ l \in Seq(Imei) /\ Len(l) = 1 /\ DOMAIN l = {1} /\ l[1] = BuiltIn
  BY FleetAssumption
<1>4. vehicleList = l /\ vehicleMap = {BuiltIn}
  BY <1>2 DEF Started
<1> HIDE DEF l
<1>5. /\ select = 0 /\ pageIndex = 0
      /\ maxPage = PagesOf(vehicleList)
      /\ showVehicle = PageOf(vehicleList, 0)
  BY <1>2, <1>4 DEF Started, l
<1>6. maxPage \in Nat /\ showVehicle \in [Fields -> Imei \cup {NoImei}]
  BY <1>3, <1>4, <1>5, PagesType, PageType
<1>7. ListedOnce
  BY <1>3, <1>4 DEF ListedOnce
<1>8. ScreenOK
  BY <1>2, <1>3, <1>4, <1>5, <1>6, <1>7, FleetAssumption
  DEF ScreenOK, ShownAgrees, Fields
<1>9. ListedStand
  BY <1>2, <1>4 DEF ListedStand
<1>10. QED
  BY <1>1, <1>2, <1>8, <1>9 DEF FleetInv

LEMMA ConnectsInv ==
    ASSUME FleetInv, NEW c \in Conn, VehicleConnects(c)
    PROVE  FleetInv'
<1>1. /\ P!IInv' /\ NoRequests'
      /\ UNCHANGED <<handle, closing>>
      /\ G!Listed' = G!Listed \cup {c}
  BY ConnectsGateway DEF FleetInv
<1>2. UNCHANGED <<statuses, screen, vehicleMap>>
  BY DEF VehicleConnects, screen, list
<1>3. \A v : Standing(v) => Standing(v)'
  BY <1>1 DEF Standing
<1>4. ListedStand'
  BY <1>2, <1>3 DEF FleetInv, ListedStand, NotLostAfter
<1>5. QED
  BY <1>1, <1>2, <1>4, ScreenKept DEF FleetInv

LEMMA AuthenticatesInv ==
    ASSUME FleetInv, NEW c \in Conn, NEW imei \in Imei,
           VehicleAuthenticates(c, imei)
    PROVE  FleetInv'
<1>1. /\ P!IInv' /\ NoRequests'
      /\ c \in G!Listed /\ c # closing
      /\ \A d \in Conn : handle'[d].imei = IF d = c THEN imei ELSE handle[d].imei
      /\ handle[c].imei \in {NoImei, imei}
      /\ UNCHANGED closing
      /\ G!Listed' = G!Listed
  BY AuthenticatesGateway DEF FleetInv
<1>2. Publish(imei, TRUE) /\ UNCHANGED <<screen, vehicleMap>>
  BY DEF VehicleAuthenticates, screen, list
<1>3. statuses' \in Seq(Statuses)
  BY <1>2, Publishing DEF FleetInv
<1>4. Standing(imei)'
  BY <1>1 DEF Standing
<1>5. ASSUME NEW v \in Imei, Standing(v)
      PROVE  Standing(v)'
  <2>1. PICK d \in G!Listed : d # closing /\ handle[d].imei = v
    BY <1>5 DEF Standing
  <2>2. v # NoImei
    BY FleetAssumption DEF G!GatewayAssumption
  <2>3. d \in Conn
    <3>1. P!Listed \subseteq Conn
      BY FleetAssumption, SameGateway, P!ListedType DEF FleetInv, P!IInv
    <3>2. QED
      BY <3>1, SameGateway
  <2>4. handle'[d].imei = v
    BY <1>1, <2>1, <2>2, <2>3
  <2>5. QED
    BY <1>1, <2>1, <2>4 DEF Standing
<1>6. ListedStand'
  BY <1>2, <1>4, <1>5, ConnectedStands DEF FleetInv
<1>7. QED
  BY <1>1, <1>2, <1>3, <1>6, ScreenKept DEF FleetInv

LEMMA LostInv ==
    ASSUME FleetInv, NEW c \in Conn, ConnectionLost(c)
    PROVE  FleetInv'
<1>1. /\ P!IInv' /\ NoRequests'
      /\ closing = NoDev /\ closing' = c
      /\ UNCHANGED handle
      /\ G!Listed' = G!Listed
  BY LostGateway DEF FleetInv
<1>2. UNCHANGED <<screen, vehicleMap>>
  BY DEF ConnectionLost, screen, list
<1>3. \A v : v # handle[c].imei /\ Standing(v) => Standing(v)'
  <2> SUFFICES ASSUME NEW v, v # handle[c].imei, Standing(v)
               PROVE  Standing(v)'
    OBVIOUS
  <2>1. PICK d \in G!Listed : handle[d].imei = v
    BY DEF Standing
  <2>2. QED
    BY <1>1, <2>1 DEF Standing
<1>4. CASE handle[c].imei = NoImei
  <2>1. UNCHANGED statuses
    BY <1>4 DEF ConnectionLost
  <2>2. \A v \in Imei : Standing(v) => Standing(v)'
    BY <1>3, <1>4, FleetAssumption DEF G!GatewayAssumption
  <2>3. ListedStand'
    BY <1>2, <2>1, <2>2 DEF FleetInv, ListedStand, NotLostAfter
  <2>4. QED
    BY <1>1, <1>2, <2>1, <2>3, ScreenKept DEF FleetInv
<1>5. CASE handle[c].imei # NoImei
  <2>1. Publish(handle[c].imei, FALSE)
    BY <1>5 DEF ConnectionLost
  <2>2. handle[c].imei \in Imei
    BY <1>5 DEF FleetInv, P!IInv, P!TypeOK, P!Handles
  <2>3. statuses' \in Seq(Statuses)
    BY <2>1, <2>2, Publishing DEF FleetInv
  <2>4. ListedStand'
    BY <1>2, <1>3, <2>1, <2>2, LostStands DEF FleetInv
  <2>5. QED
    BY <1>1, <1>2, <2>3, <2>4, ScreenKept DEF FleetInv
<1>6. QED
  BY <1>4, <1>5

LEMMA DeletedInv ==
    ASSUME FleetInv, ConnectionDeleted
    PROVE  FleetInv'
<1>1. /\ P!IInv' /\ NoRequests'
      /\ closing' = NoDev
      /\ G!Listed' = G!Listed \ {closing}
      /\ \A d \in G!Listed' : handle'[d].imei = handle[d].imei
  BY DeletedGateway DEF FleetInv
<1>2. UNCHANGED <<statuses, screen, vehicleMap>>
  BY DEF ConnectionDeleted, screen, list
<1>3. NoDev \notin G!Listed
  <2>1. P!Listed \subseteq Conn
    BY FleetAssumption, SameGateway, P!ListedType DEF FleetInv, P!IInv
  <2>2. QED
    BY <2>1, FleetAssumption, SameGateway DEF G!GatewayAssumption
<1>4. ASSUME NEW v, Standing(v)
      PROVE  Standing(v)'
  <2>1. PICK d \in G!Listed : d # closing /\ handle[d].imei = v
    BY <1>4 DEF Standing
  <2>2. d \in G!Listed' /\ d # NoDev
    BY <1>1, <1>3, <2>1
  <2>3. QED
    BY <1>1, <2>1, <2>2 DEF Standing
<1>5. ListedStand'
  BY <1>2, <1>4 DEF FleetInv, ListedStand, NotLostAfter
<1>6. QED
  BY <1>1, <1>2, <1>5, ScreenKept DEF FleetInv

\* The screen's own steps leave the gateway alone.
LEMMA GatewayKept ==
    ASSUME P!IInv, NoRequests, UNCHANGED gateway
    PROVE  /\ P!IInv' /\ NoRequests'
           /\ UNCHANGED <<handle, closing, G!Listed>>
<1>1. UNCHANGED P!vars
  BY DEF gateway, P!vars, P!fastVars
<1>2. P!IInv'
  BY <1>1, FleetAssumption, SameGateway, P!NextInv
<1>3. NoRequests'
  BY DEF gateway, NoRequests, G!ZmqIdle
<1>4. UNCHANGED <<handle, closing, G!Listed>>
  BY DEF gateway, G!Listed, G!ListedIn
<1>5. QED
  BY <1>2, <1>3, <1>4

LEMMA HandlerInv ==
    ASSUME FleetInv, vehicleStatusHandler
    PROVE  FleetInv'
<1>1. /\ P!IInv' /\ NoRequests'
      /\ UNCHANGED <<handle, closing, G!Listed>>
  BY GatewayKept DEF FleetInv, vehicleStatusHandler
<1>2. /\ statuses # <<>>
      /\ statuses' = Tail(statuses)
      /\ UNCHANGED <<select, restarts>>
  BY DEF vehicleStatusHandler
<1>3. statuses' \in Seq(Statuses) /\ Head(statuses) \in Statuses
  BY <1>2, Handling DEF FleetInv
<1>4. Head(statuses).imei \in Imei
  BY <1>3 DEF Statuses
<1>5. /\ ScreenOK'
      /\ vehicleMap' = IF Head(statuses).connected
                       THEN vehicleMap \cup {Head(statuses).imei}
                       ELSE vehicleMap \ {Head(statuses).imei}
  <2>1. CASE Head(statuses).connected /\ addVehicle(Head(statuses).imei)
    BY <1>2, <1>4, <2>1, AddedOnce DEF FleetInv
  <2>2. CASE ~ Head(statuses).connected /\ removeVehicle(Head(statuses).imei)
    BY <1>2, <1>4, <2>2, RemovedScreen DEF FleetInv
  <2>3. QED
    BY <2>1, <2>2 DEF vehicleStatusHandler
<1>6. ListedStand'
  BY <1>1, <1>2, <1>5, HandledStands DEF FleetInv
<1>7. QED
  BY <1>1, <1>3, <1>5, <1>6 DEF FleetInv

LEMMA KeysInv ==
    ASSUME FleetInv, KeyRight \/ KeyLeft
    PROVE  FleetInv'
<1>1. /\ UNCHANGED <<gateway, statuses, list, restarts>>
      /\ select' \in Fields
      /\ \/ UNCHANGED page
         \/ \E index \in Nat : refreshDisplayData(vehicleList, index)
  <2>1. pageIndex \in Nat /\ select \in Int
    BY FleetAssumption DEF FleetInv, ScreenOK, Fields
  <2>2. CASE KeyRight
    <3>1. select' \in Fields
      BY <2>1, <2>2, Remainder DEF KeyRight
    <3>2. pageIndex + 1 \in Nat
      BY <2>1
    <3>3. QED
      BY <2>2, <3>1, <3>2 DEF KeyRight
  <2>3. CASE KeyLeft
    <3>1. select' \in Fields
      BY <2>1, <2>3, Remainder DEF KeyLeft
    <3>2. pageIndex > 0 => pageIndex - 1 \in Nat
      BY <2>1
    <3>3. QED
      BY <2>3, <3>1, <3>2 DEF KeyLeft
  <2>4. QED
    BY <2>2, <2>3
<1>2. /\ P!IInv' /\ NoRequests'
      /\ UNCHANGED <<handle, closing, G!Listed>>
  BY <1>1, GatewayKept DEF FleetInv
<1>3. ScreenOK'
  BY <1>1, Turned DEF FleetInv
<1>4. ListedStand'
  BY <1>1, <1>2 DEF FleetInv, ListedStand, NotLostAfter, Standing, list
<1>5. QED
  BY <1>1, <1>2, <1>3, <1>4 DEF FleetInv

LEMMA RestartsInv ==
    ASSUME FleetInv, ScreenRestarts
    PROVE  FleetInv'
<1>1. P!IInv' /\ NoRequests'
  BY GatewayKept DEF FleetInv, ScreenRestarts
<1>2. statuses' = <<>> /\ DOMAIN statuses' = {} /\ statuses' \in Seq(Statuses)
  BY EmptySeq DEF ScreenRestarts
<1> DEFINE l == <<BuiltIn>>
<1>3. l \in Seq(Imei) /\ DOMAIN l = {1} /\ l[1] = BuiltIn
  BY FleetAssumption
<1>4. /\ vehicleList' = l /\ vehicleMap' = {BuiltIn} /\ select' = 0
      /\ refreshDisplayData(l, 0)
      /\ restarts' \in 0..MaxRestarts
  BY FleetAssumption DEF ScreenRestarts, FleetInv, ScreenOK
<1> HIDE DEF l
<1>5. /\ ShownAgrees'
      /\ maxPage' \in Nat /\ pageIndex' \in Nat
      /\ showVehicle' \in [Fields -> Imei \cup {NoImei}]
  BY <1>3, <1>4, Refreshing
<1>6. ListedOnce'
  BY <1>3, <1>4 DEF ListedOnce
<1>7. ScreenOK'
  BY <1>3, <1>4, <1>5, <1>6, FleetAssumption DEF ScreenOK, Fields
<1>8. ListedStand'
  BY <1>2, <1>4 DEF ListedStand
<1>9. QED
  BY <1>1, <1>2, <1>7, <1>8 DEF FleetInv

LEMMA FleetStep == FleetInv /\ [Next]_vars => FleetInv'
<1> SUFFICES ASSUME FleetInv, [Next]_vars
             PROVE  FleetInv'
  OBVIOUS
<1>1. ASSUME NEW c \in Conn,
             \/ VehicleConnects(c)
             \/ \E imei \in Imei : VehicleAuthenticates(c, imei)
             \/ ConnectionLost(c)
      PROVE  FleetInv'
  BY <1>1, ConnectsInv, AuthenticatesInv, LostInv
<1>2. CASE ConnectionDeleted
  BY <1>2, DeletedInv
<1>3. CASE vehicleStatusHandler
  BY <1>3, HandlerInv
<1>4. CASE KeyRight \/ KeyLeft
  BY <1>4, KeysInv
<1>5. CASE ScreenRestarts
  BY <1>5, RestartsInv
<1>6. CASE UNCHANGED vars
  <2>1. UNCHANGED <<gateway, statuses, screen, vehicleMap>>
    BY <1>6 DEF vars, screen, list
  <2>2. /\ P!IInv' /\ NoRequests'
        /\ UNCHANGED <<handle, closing, G!Listed>>
    BY <2>1, GatewayKept DEF FleetInv
  <2>3. ListedStand'
    BY <2>1, <2>2 DEF FleetInv, ListedStand, NotLostAfter, Standing
  <2>4. QED
    BY <2>1, <2>2, <2>3, ScreenKept DEF FleetInv
<1>7. QED
  BY <1>1, <1>2, <1>3, <1>4, <1>5, <1>6 DEF Next

\* The gateway behind the screen implements Gateway without requests, so that
\* the theorems of GatewayProofs hold of its connections: a step is one of
\* HandleNewConnect, HandleAuth and the two halves of a loss, or none.
THEOREM GatewayInside == Spec => P!Spec
<1>1. Init => P!Init
  BY SameGateway DEF Init
<1>2. ASSUME [Next]_vars
      PROVE  [P!Next]_(P!vars)
  <2>1. ASSUME NEW c \in Conn, VehicleConnects(c)
        PROVE  P!Next
    BY <2>1, SameGateway DEF VehicleConnects, P!Next, P!MainStep
  <2>2. ASSUME NEW c \in Conn, NEW imei \in Imei, VehicleAuthenticates(c, imei)
        PROVE  P!Next
    BY <2>2, SameGateway DEF VehicleAuthenticates, P!Next, P!MainStep
  <2>3. ASSUME NEW c \in Conn, ConnectionLost(c)
        PROVE  P!Next
    BY <2>3, SameGateway DEF ConnectionLost, P!Next, P!MainStep
  <2>4. CASE ConnectionDeleted
    BY <2>4, SameGateway DEF ConnectionDeleted, P!Next, P!MainStep
  <2>5. CASE \/ vehicleStatusHandler \/ KeyRight \/ KeyLeft
             \/ ScreenRestarts \/ UNCHANGED vars
    <3>1. UNCHANGED gateway
      BY <2>5 DEF vehicleStatusHandler, KeyRight, KeyLeft, ScreenRestarts, vars
    <3>2. QED
      BY <3>1 DEF gateway, P!vars, P!fastVars
  <2>6. QED
    BY <1>2, <2>1, <2>2, <2>3, <2>4, <2>5 DEF Next
<1>3. QED
  BY <1>1, <1>2, PTL DEF Spec, P!Spec

\* The strengthened invariant holds throughout every behaviour.
THEOREM FleetInvariance == Spec => []FleetInv
<1>1. Init => FleetInv
  BY InitFleet
<1>2. FleetInv /\ [Next]_vars => FleetInv'
  BY FleetStep
<1>3. QED
  BY <1>1, <1>2, PTL DEF Spec

\* Every variable keeps its type: in particular the eight bits of the selected
\* field never hold a number beyond the page, whichever keys are pressed.
THEOREM TypeCorrect == Spec => []TypeOK
<1>1. FleetInv => TypeOK
  BY SameGateway DEF FleetInv, ScreenOK, TypeOK, P!IInv
<1>2. QED
  BY <1>1, FleetInvariance, PTL

\* What the selection picks from is a page of the list as it is now, however
\* vehicles come and go while pages are turned.
THEOREM PageCurrent == Spec => []ShownAgrees
<1>1. FleetInv => ShownAgrees
  BY DEF FleetInv, ScreenOK
<1>2. QED
  BY <1>1, FleetInvariance, PTL

\* m_vehicleMap and m_vehicleList name the same vehicles, each once.
THEOREM ListCorrect == Spec => []ListedOnce
<1>1. FleetInv => ListedOnce
  BY DEF FleetInv, ScreenOK
<1>2. QED
  BY <1>1, FleetInvariance, PTL

\* When everything published is handled, the screen offers no vehicle without
\* a connection, but the built-in one.
THEOREM NoGhostListed == Spec => []NoGhosts
<1>1. FleetInv => NoGhosts
  <2> SUFFICES ASSUME FleetInv, statuses = <<>>, closing = NoDev,
                      NEW i \in DOMAIN vehicleList, vehicleList[i] # BuiltIn
               PROVE  vehicleList[i] \in ConnectedVehicles
    BY DEF NoGhosts, Told
  <2>1. vehicleList[i] \in vehicleMap /\ vehicleList[i] \in Imei \ {BuiltIn}
    BY DEF FleetInv, ScreenOK, ListedOnce
  <2>2. NotLostAfter(vehicleList[i], 0)
    BY DEF NotLostAfter
  <2>3. PICK c \in G!Listed : handle[c].imei = vehicleList[i]
    BY <2>1, <2>2 DEF FleetInv, ListedStand, Standing
  <2>4. vehicleList[i] # NoImei
    BY <2>1, FleetAssumption DEF G!GatewayAssumption
  <2>5. QED
    BY <2>3, <2>4 DEF ConnectedVehicles
<1>2. QED
  BY <1>1, FleetInvariance, PTL
==============================================================================
