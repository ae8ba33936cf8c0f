--------------------------- MODULE SequentialProofs ---------------------------
(***************************************************************************)
(* Machine-checked proofs about GatewaySequential, for any set of          *)
(* connections, any set of vehicles and any number of requests: under      *)
(* sequential use one vehicle at most is driven, and the gateway           *)
(* implements Takeover.  The invariant of GatewayProofs is used            *)
(* throughout, as every sequential step is a step of Gateway.              *)
(***************************************************************************)
EXTENDS GatewaySequential, GatewayProofs

\* Connections that wait for an answer of their vehicle.
Busy == {c \in Conn : handle[c].cmds # <<>> \/ handle[c].timer}

\* SingleControl, of destroyed handles too.
Wires ==
    /\ dataSubs = IF controlFastDev = NoDev THEN 0 ELSE 1
    /\ \A c \in Conn : handle[c].wired = IF c = controlFastDev THEN 1 ELSE 0

\* The controlled connection is up.
Holder ==
    controlFastDev # NoDev =>
        /\ controlFastDev \in Listed
        /\ controlFastDev # closing

Unique ==
    \A c, d \in Listed :
        handle[c].imei = handle[d].imei /\ handle[c].imei # NoImei => c = d

\* While the subscriber thread is inside a request nothing else is under way,
\* and no vehicle is controlled if the request is to start.
Calm ==
    zmq.pc # "idle" =>
        /\ DOMAIN posted = {}
        /\ Busy = {}
        /\ zmq.opt = "START" => controlFastDev = NoDev
        /\ zmq.pc = "emit" => lastReqControlCmd = zmq.opt

\* The vehicle that owes an answer is one, and the one the request is for.
OneBusy ==
    \A c \in Busy :
        /\ c \in Listed
        /\ handle[c].imei \in Imei
        /\ \A d \in Busy : d = c
        /\ \A i \in DOMAIN posted :
              handle[c].imei = posted[i].imei /\ c \notin posted[i].rcv

OneCommand == \A c \in Conn : Len(handle[c].cmds) <= 1

OnePosted == DOMAIN posted \subseteq {1}

\* Once START has been granted nobody else can be granted it.
Turn ==
    lastReqControlCmd = "START" /\ controlFastDev # NoDev =>
        /\ Busy = {}
        /\ \A i \in DOMAIN posted :
              /\ handle[controlFastDev].imei = posted[i].imei
              /\ controlFastDev \notin posted[i].rcv

SeqInv ==
    /\ Wires /\ Holder /\ Unique /\ Calm
    /\ OneBusy /\ OneCommand /\ OnePosted /\ Turn

\* How a step may change who is controlled.
Handover ==
    \/ controlFastDev = NoDev
    \/ controlFastDev' = NoDev
    \/ /\ controlFastDev' = controlFastDev
       /\ handle'[controlFastDev].imei = handle[controlFastDev].imei

-----------------------------------------------------------------------------
(* Facts of every state *)

LEMMA Living ==
    ASSUME IInv, SeqInv
    PROVE  /\ Listed \subseteq Conn
           /\ Listed \subseteq Alive
           /\ Alive \subseteq Conn
           /\ Alive = Owned(devList, NoDev, zmq.dev)
           /\ zmq.pc = "idle" => Alive = Listed
           /\ \A c \in Conn \ Alive : handle[c] = NoHandle
           /\ handle \in [Conn -> Handles]
           /\ DOMAIN posted = {} <=> posted = <<>>
<1>1. TypeOK /\ Lifetimes /\ Listed \subseteq Conn
  BY ListedType DEF IInv
<1>2. Alive = Listed \cup ({zmq.dev} \ {NoDev})
  BY DEF SeqInv, Holder, Alive, Owned, Listed
<1>3. zmq.dev \in Conn \cup {NoDev}
  BY <1>1 DEF TypeOK, ZmqStates
<1>4. DOMAIN posted = {} <=> posted = <<>>
  <2>1. posted \in Seq(Emissions) /\ Len(posted) \in Nat
        /\ DOMAIN posted = 1 .. Len(posted)
    BY <1>1, LenProperties DEF TypeOK
  <2>2. Len(posted) = 0 <=> posted = <<>>
    BY <2>1, EmptySeq
  <2>3. Len(posted) = 0 <=> 1 .. Len(posted) = {}
    <3>1. Len(posted) # 0 => 1 \in 1 .. Len(posted)
      BY <2>1
    <3>2. Len(posted) = 0 => 1 .. Len(posted) = {}
      OBVIOUS
    <3>3. QED
      BY <3>1, <3>2
  <2>4. QED
    BY <2>1, <2>2, <2>3
<1>5. Owned(devList, NoDev, zmq.dev) = Listed \cup ({zmq.dev} \ {NoDev})
  BY DEF Owned, Listed
<1>6. QED
  BY <1>1, <1>2, <1>3, <1>4, <1>5 DEF Lifetimes, TypeOK

\* A lookup by the IMEI of a listed vehicle finds its connection.
LEMMA LookupUnique ==
    ASSUME IInv, Unique, NEW c \in Listed, handle[c].imei # NoImei
    PROVE  GetDevHandle(handle[c].imei) = c
<1> DEFINE imei == handle[c].imei
<1>1. TypeOK /\ IndexAgrees
  BY DEF IInv
<1>2. CASE GetDevHandle(imei) # NoDev
  BY <1>1, <1>2, LookupImei DEF Unique
<1>3. CASE GetDevHandle(imei) = NoDev
  <2>1. PICK d \in Listed \ {c} : handle[d].imei = handle[c].imei
    <3>1. c # NoDev
      BY <1>1, ListedType, GatewayAssumption
    <3>2. QED
      BY <1>1, <1>3, <3>1, MissedLookup
  <2>2. QED
    BY <2>1 DEF Unique
<1>4. QED
  BY <1>2, <1>3

LEMMA UndeliveredKept ==
    ASSUME TypeOK, NEW keep
    PROVE  /\ DOMAIN Undelivered(keep) = DOMAIN posted
           /\ \A i \in DOMAIN posted :
                 /\ Undelivered(keep)[i].imei = posted[i].imei
                 /\ Undelivered(keep)[i].rcv \subseteq posted[i].rcv
<1>1. \A i \in DOMAIN posted : posted[i] \in Emissions
  BY LenProperties, ElementOfSeq DEF TypeOK
<1>2. QED
  BY <1>1 DEF Undelivered, Emissions

-----------------------------------------------------------------------------
(* Steps after which no more is under way, and nobody new is controlled *)

LEMMA Shrinking ==
    ASSUME SeqInv,
           Listed' \subseteq Listed, zmq' = zmq,
           lastReqControlCmd' = lastReqControlCmd,
           \A c \in Listed' : handle'[c].imei = handle[c].imei,
           Busy' \subseteq Busy, Busy' \subseteq Listed',
           OneCommand',
           DOMAIN posted' \subseteq DOMAIN posted,
           \A i \in DOMAIN posted' : /\ posted'[i].imei = posted[i].imei
                                     /\ posted'[i].rcv \subseteq posted[i].rcv,
           controlFastDev' \in {NoDev, controlFastDev},
           Holder', Wires'
    PROVE  SeqInv' /\ Handover
<1>1. Unique'
  BY DEF SeqInv, Unique
<1>2. Calm'
  BY DEF SeqInv, Calm
<1>3. OneBusy'
  BY DEF SeqInv, OneBusy
<1>4. OnePosted'
  BY DEF SeqInv, OnePosted
<1>5. Turn'
  BY DEF SeqInv, Turn, Holder
<1>6. Handover
  BY DEF Handover, Holder
<1>7. QED
  BY <1>1, <1>2, <1>3, <1>4, <1>5, <1>6 DEF SeqInv

\* Release, of a table g in which no more is under way than before.
LEMMA Releasing ==
    ASSUME IInv, SeqInv,
           NEW g \in [Conn -> Handles], Release(g),
           UNCHANGED <<devList, zmq, lastReqControlCmd>>,
           \A c \in Conn : /\ g[c].imei = handle[c].imei
                           /\ g[c].wired = handle[c].wired
                           /\ Len(g[c].cmds) <= 1
                           /\ g[c].cmds # <<>> \/ g[c].timer => c \in Busy
    PROVE  SeqInv' /\ Handover
<1> DEFINE keep == Owned(devList, NoDev, zmq.dev)
           f == [c \in Conn |-> IF c = controlFastDev
                                THEN [g[c] EXCEPT !.wired = 0] ELSE g[c]]
<1>1. /\ controlFastDev' = NoDev
      /\ handle' = Surviving(f, keep)
      /\ posted' = Undelivered(keep)
      /\ dataSubs' = IF dataSubs = 0 THEN 0 ELSE dataSubs - 1
  BY DEF Release, Retarget
<1>2. /\ f \in [Conn -> Handles]
      /\ \A c \in Conn : /\ f[c].imei = g[c].imei
                         /\ f[c].timer = g[c].timer
                         /\ f[c].cmds = g[c].cmds
                         /\ f[c].wired = IF c = controlFastDev THEN 0 ELSE g[c].wired
  BY DEF Handles
<1>3. \A c \in Conn : f[c].wired = 0
  BY <1>2 DEF SeqInv, Wires
<1> HIDE DEF f
<1>4. \A c \in Conn : handle'[c] = IF c \in keep THEN f[c] ELSE NoHandle
  <2> HIDE DEF keep
  <2>1. QED
    BY <1>1, <1>2, SurvivingType
<1>5. /\ DOMAIN posted' = DOMAIN posted
      /\ \A i \in DOMAIN posted : /\ posted'[i].imei = posted[i].imei
                                 /\ posted'[i].rcv \subseteq posted[i].rcv
  BY <1>1, UndeliveredKept DEF IInv
<1>6. Listed' = Listed
  BY DEF Listed
<1>7. Listed \subseteq Conn /\ Listed \subseteq keep
  BY Living DEF Owned, Listed
<1> HIDE DEF keep
<1>8. Busy' \subseteq Busy
  BY <1>2, <1>4 DEF Busy, NoHandle
<1>9. OneCommand'
  <2>1. Len(NoHandle.cmds) <= 1
    BY EmptySeq DEF NoHandle
  <2>2. QED
    BY <1>2, <1>4, <2>1 DEF OneCommand
<1>10. Wires'
  BY <1>1, <1>3, <1>4, GatewayAssumption DEF Wires, NoHandle, SeqInv
<1>11. Holder'
  BY <1>1 DEF Holder
<1>12. \A c \in Listed' : handle'[c].imei = handle[c].imei
  BY <1>2, <1>4, <1>6, <1>7
<1>13. Busy' \subseteq Listed'
  BY <1>6, <1>8 DEF SeqInv, OneBusy
<1>14. QED
  BY <1>1, <1>5, <1>6, <1>8, <1>9, <1>10, <1>11, <1>12, <1>13, Shrinking, Zenon

\* Grant, after which nothing is under way any more.
LEMMA Granting ==
    ASSUME IInv, SeqInv,
           lastReqControlCmd = "START", closing = NoDev,
           NEW c \in Busy, NEW g \in [Conn -> Handles],
           Grant(handle[c].imei, g),
           UNCHANGED <<devList, zmq, lastReqControlCmd, closing>>,
           \A d \in Conn : /\ g[d].imei = handle[d].imei
                           /\ g[d].wired = handle[d].wired
                           /\ Len(g[d].cmds) <= 1
                           /\ g[d].cmds # <<>> \/ g[d].timer => d \in Busy \ {c}
    PROVE  SeqInv' /\ Handover
<1>1. /\ controlFastDev = NoDev
      /\ c \in Listed
      /\ handle[c].imei \in Imei
      /\ Busy = {c}
      /\ \A i \in DOMAIN posted :
            handle[c].imei = posted[i].imei /\ c \notin posted[i].rcv
      /\ zmq.pc = "idle"
  BY DEF SeqInv, Turn, OneBusy, Calm
<1>2. c \in Conn
  BY DEF Busy
<1>3. GetDevHandle(handle[c].imei) = c
  BY <1>1, LookupUnique, GatewayAssumption DEF SeqInv
<1> DEFINE keep == Owned(devList, c, zmq.dev)
           f == [d \in Conn |-> IF d = c THEN [g[d] EXCEPT !.wired = @ + 1] ELSE g[d]]
<1>4. /\ controlFastDev' = c
      /\ handle' = Surviving(f, keep)
      /\ posted' = Undelivered(keep)
      /\ dataSubs' = dataSubs + 1
  BY <1>3 DEF Grant, Retarget
<1>5. /\ f \in [Conn -> Handles]
      /\ \A d \in Conn : /\ f[d].imei = g[d].imei
                         /\ f[d].timer = g[d].timer
                         /\ f[d].cmds = g[d].cmds
                         /\ f[d].wired = IF d = c THEN g[d].wired + 1 ELSE g[d].wired
  BY DEF Handles
<1>6. \A d \in Conn : f[d].wired = IF d = c THEN 1 ELSE 0
  <2>1. \A d \in Conn : g[d].wired = 0
    BY <1>1, GatewayAssumption DEF SeqInv, Wires
  <2>2. QED
    BY <1>5, <2>1
<1> HIDE DEF f
<1>7. \A d \in Conn : handle'[d] = IF d \in keep THEN f[d] ELSE NoHandle
  <2> HIDE DEF keep
  <2>1. QED
    BY <1>4, <1>5, SurvivingType
<1>8. /\ DOMAIN posted' = DOMAIN posted
      /\ \A i \in DOMAIN posted : /\ posted'[i].imei = posted[i].imei
                                 /\ posted'[i].rcv \subseteq posted[i].rcv
  BY <1>4, UndeliveredKept DEF IInv
<1>9. Listed' = Listed
  BY DEF Listed
<1>10. Listed \subseteq Conn /\ Listed \subseteq keep
  BY Living DEF Owned, Listed
<1> HIDE DEF keep
<1>11. Busy' = {}
  BY <1>1, <1>5, <1>7 DEF Busy, NoHandle
<1>12. \A d \in Listed : handle'[d].imei = handle[d].imei
  BY <1>5, <1>7, <1>10
<1>13. OneCommand'
  <2>1. Len(NoHandle.cmds) <= 1
    BY EmptySeq DEF NoHandle
  <2>2. QED
    BY <1>5, <1>7, <2>1 DEF OneCommand
<1>14. Wires'
  <2>1. dataSubs' = 1 /\ c # NoDev
    BY <1>1, <1>2, <1>4, GatewayAssumption DEF SeqInv, Wires
  <2>2. \A d \in Conn : handle'[d].wired = IF d = c THEN 1 ELSE 0
    BY <1>1, <1>6, <1>7, <1>10 DEF NoHandle
  <2>3. QED
    BY <1>4, <2>1, <2>2 DEF Wires
<1>15. Holder'
  BY <1>1, <1>2, <1>4, <1>9, GatewayAssumption DEF Holder
<1>16. Unique'
  BY <1>9, <1>12 DEF SeqInv, Unique
<1>17. Calm' /\ OneBusy' /\ OnePosted'
  BY <1>1, <1>8, <1>11 DEF SeqInv, Calm, OneBusy, OnePosted
<1>18. Turn'
  BY <1>1, <1>4, <1>8, <1>11, <1>12 DEF Turn
<1>19. Handover
  BY <1>1 DEF Handover
<1>20. QED
  BY <1>13, <1>14, <1>15, <1>16, <1>17, <1>18, <1>19 DEF SeqInv

-----------------------------------------------------------------------------
(* The steps of the main thread *)

LEMMA NewConnectSeq ==
    ASSUME IInv, SeqInv, NEW c \in Conn, HandleNewConnect(c)
    PROVE  SeqInv' /\ Handover
<1>1. /\ c \notin Alive
      /\ AddDev(c)
      /\ UNCHANGED <<handle, controlFastDev, dataSubs, lastReqControlCmd,
                     posted, zmq, closing>>
  BY DEF HandleNewConnect, fastVars
<1>2. Listed' = Listed \cup {c}
  BY <1>1, Addition DEF IInv
<1>3. handle[c].imei = NoImei
  BY <1>1, Living DEF NoHandle
<1>4. Busy' = Busy
  BY <1>1 DEF Busy
<1>5. Unique'
  BY <1>1, <1>2, <1>3 DEF SeqInv, Unique
<1>6. Wires' /\ Holder' /\ Calm' /\ OneCommand' /\ OnePosted'
  BY <1>1, <1>2, <1>4 DEF SeqInv, Wires, Holder, Calm, OneCommand, OnePosted
<1>7. OneBusy' /\ Turn'
  BY <1>1, <1>2, <1>4 DEF SeqInv, OneBusy, Turn
<1>8. Handover
  BY <1>1 DEF Handover
<1>9. QED
  BY <1>5, <1>6, <1>7, <1>8 DEF SeqInv

LEMMA AuthSeq ==
    ASSUME IInv, SeqInv, NEW c \in Conn, NEW imei \in Imei, SingleAuth(c, imei)
    PROVE  SeqInv' /\ Handover
<1>1. /\ c \in Listed
      /\ \A d \in Listed \ {c} : handle[d].imei # imei
      /\ handle[c].imei \in {NoImei, imei}
      /\ handle' = [handle EXCEPT ![c].imei = imei]
      /\ UpdateDev(c, imei)
      /\ UNCHANGED <<controlFastDev, dataSubs, lastReqControlCmd, posted, zmq,
                     closing>>
  BY DEF SingleAuth, HandleAuth, fastVars
<1>2. TypeOK /\ handle \in [Conn -> Handles] /\ Listed \subseteq Conn
  BY Living DEF IInv
<1>3. Listed' = Listed
  <2>1. \A i \in DOMAIN devList : devList[i] \in DevInfos
    BY <1>2, LenProperties, ElementOfSeq DEF TypeOK
  <2>2. /\ DOMAIN devList' = DOMAIN devList
        /\ \A i \in DOMAIN devList : devList'[i].sock = devList[i].sock
    BY <1>1, <2>1 DEF UpdateDev, DevInfos
  <2>3. QED
    BY <2>2 DEF Listed, ListedIn
<1>4. \A d \in Conn : /\ handle'[d].timer = handle[d].timer
                      /\ handle'[d].wired = handle[d].wired
                      /\ handle'[d].cmds = handle[d].cmds
                      /\ handle'[d].imei = IF d = c THEN imei ELSE handle[d].imei
  BY <1>1, <1>2 DEF Handles
<1>5. Busy' = Busy
  BY <1>4 DEF Busy
<1>6. \A d \in Busy : handle'[d].imei = handle[d].imei
  <2>1. \A d \in Busy : d \in Conn /\ handle[d].imei # NoImei
    BY GatewayAssumption DEF SeqInv, OneBusy, Busy
  <2>2. QED
    BY <1>1, <1>4, <2>1
<1>7. controlFastDev # NoDev =>
         handle'[controlFastDev].imei = handle[controlFastDev].imei
  <2>1. controlFastDev # NoDev =>
           controlFastDev \in Conn /\ handle[controlFastDev].imei # NoImei
    BY <1>2, GatewayAssumption DEF IInv, Identities, TypeOK
  <2>2. QED
    BY <1>1, <1>4, <2>1
<1>8. Unique'
  BY <1>1, <1>2, <1>3, <1>4 DEF SeqInv, Unique
<1>9. Wires' /\ OneCommand'
  BY <1>1, <1>4 DEF SeqInv, Wires, OneCommand
<1>10. Holder' /\ Calm' /\ OnePosted'
  BY <1>1, <1>3, <1>5 DEF SeqInv, Holder, Calm, OnePosted
<1>11. OneBusy'
  BY <1>1, <1>3, <1>5, <1>6 DEF SeqInv, OneBusy
<1>12. Turn'
  BY <1>1, <1>5, <1>7 DEF SeqInv, Turn
<1>13. Handover
  BY <1>1, <1>7 DEF Handover
<1>14. QED
  BY <1>8, <1>9, <1>10, <1>11, <1>12, <1>13 DEF SeqInv

\* The request reaches the connection of its vehicle, the only one it is for.
LEMMA CmdSlotSeq ==
    ASSUME IInv, SeqInv, NEW c \in Conn, HandleReqControlCmdSlot(c)
    PROVE  SeqInv' /\ Handover
<1> DEFINE h == Head(posted)
<1>1. /\ posted # <<>>
      /\ c \in h.rcv
      /\ posted' = [posted EXCEPT ![1].rcv = @ \ {c}]
      /\ UNCHANGED <<devList, controlFastDev, dataSubs, lastReqControlCmd, zmq,
                     closing>>
  BY DEF HandleReqControlCmdSlot, fastVars
<1>2. TypeOK /\ Lifetimes /\ handle \in [Conn -> Handles]
  BY Living DEF IInv
<1>3. /\ 1 \in DOMAIN posted
      /\ h = posted[1]
      /\ \A i \in DOMAIN posted : posted[i] \in Emissions
  BY <1>1, <1>2, LenProperties, ElementOfSeq, EmptySeq DEF TypeOK
<1>4. DOMAIN posted = {1} /\ zmq.pc = "idle"
  BY <1>3 DEF SeqInv, OnePosted, Calm
<1>5. /\ h.imei \in Imei
      /\ c \in Listed
      /\ h.opt \in Opts
  BY <1>1, <1>2, <1>3, <1>4, Living DEF Emissions, Lifetimes
<1>6. /\ DOMAIN posted' = {1}
      /\ posted'[1].imei = h.imei
      /\ posted'[1].rcv = h.rcv \ {c}
  BY <1>1, <1>3, <1>4 DEF Emissions
<1>7. Listed' = Listed
  BY <1>1 DEF Listed
<1> HIDE DEF h
<1>8. CASE handle' = handle
  <2>1. Busy' = Busy
    BY <1>8 DEF Busy
  <2>2. OneCommand' /\ Holder' /\ Wires'
    BY <1>1, <1>7, <1>8 DEF SeqInv, OneCommand, Holder, Wires
  <2>3. Busy' \subseteq Listed'
    BY <1>7, <2>1 DEF SeqInv, OneBusy
  <2>4. QED
    BY <1>1, <1>3, <1>4, <1>6, <1>7, <1>8, <2>1, <2>2, <2>3, Shrinking, Zenon
<1>9. CASE /\ handle[c].imei = h.imei
           /\ handle' = [handle EXCEPT
                 ![c].timer = TRUE,
                 ![c].cmds = IF c \in Listed THEN Append(@, h.opt) ELSE @]
  <2>1. Busy = {}
    <3> SUFFICES ASSUME NEW d \in Busy PROVE FALSE
      OBVIOUS
    <3>1. /\ d \in Listed
          /\ handle[d].imei = h.imei
          /\ handle[d].imei \in Imei
          /\ d \notin h.rcv
      BY <1>3 DEF SeqInv, OneBusy
    <3>2. d = c
      BY <1>5, <1>9, <3>1, GatewayAssumption DEF SeqInv, Unique
    <3>3. QED
      BY <1>1, <3>1, <3>2
  <2>2. handle[c].cmds = <<>>
    BY <2>1 DEF Busy
  <2>3. /\ \A d \in Conn \ {c} : handle'[d] = handle[d]
        /\ handle'[c].imei = handle[c].imei
        /\ handle'[c].wired = handle[c].wired
        /\ handle'[c].cmds = Append(handle[c].cmds, h.opt)
        /\ handle'[c].timer = TRUE
    BY <1>2, <1>5, <1>9 DEF Handles
  <2>4. Len(handle'[c].cmds) <= 1
    <3>1. <<>> \in Seq(Opts) /\ Len(<<>>) = 0
      BY EmptySeq
    <3>2. Len(Append(<<>>, h.opt)) = 1
      BY <1>5, <3>1, AppendProperties
    <3>3. QED
      BY <2>2, <2>3, <3>2
  <2>5. Busy' = {c}
    BY <2>1, <2>3 DEF Busy
  <2>6. OneCommand'
    BY <2>3, <2>4 DEF SeqInv, OneCommand
  <2>7. Wires' /\ Holder'
    BY <1>1, <1>7, <2>3 DEF SeqInv, Wires, Holder
  <2>8. \A d \in Conn : handle'[d].imei = handle[d].imei
    BY <2>3
  <2>9. Unique'
    BY <1>7, <2>8, Living DEF SeqInv, Unique
  <2>10. Calm' /\ OnePosted'
    BY <1>1, <1>4, <1>6 DEF Calm, OnePosted
  <2>11. OneBusy'
    BY <1>5, <1>6, <1>7, <1>9, <2>3, <2>5 DEF OneBusy
  <2>12. Turn'
    <3> SUFFICES ASSUME lastReqControlCmd = "START", controlFastDev # NoDev
                 PROVE  FALSE
      BY <1>1 DEF Turn
    <3>1. /\ controlFastDev \in Listed
          /\ handle[controlFastDev].imei = h.imei
          /\ controlFastDev \notin h.rcv
      BY <1>3 DEF SeqInv, Holder, Turn
    <3>2. controlFastDev = c
      BY <1>5, <1>9, <3>1, GatewayAssumption DEF SeqInv, Unique
    <3>3. QED
      BY <1>1, <3>1, <3>2
  <2>13. Handover
    <3>1. controlFastDev # NoDev => controlFastDev \in Conn
      BY <1>2 DEF TypeOK
    <3>2. QED
      BY <1>1, <2>8, <3>1 DEF Handover
  <2>14. QED
    BY <2>6, <2>7, <2>9, <2>10, <2>11, <2>12, <2>13 DEF SeqInv
<1>10. QED
  BY <1>8, <1>9 DEF HandleReqControlCmdSlot, h

\* The only emission leaves the queue.
LEMMA DequeueSeq ==
    ASSUME IInv, SeqInv, Dequeue
    PROVE  SeqInv' /\ Handover
<1>1. /\ posted # <<>>
      /\ posted' = Tail(posted)
      /\ UNCHANGED <<devList, handle, controlFastDev, dataSubs,
                     lastReqControlCmd, zmq, closing>>
  BY DEF Dequeue, fastVars
<1>2. /\ posted \in Seq(Emissions)
      /\ Len(posted) \in Nat
      /\ DOMAIN posted = 1 .. Len(posted)
  BY LenProperties DEF IInv, TypeOK
<1>3. /\ posted' \in Seq(Emissions)
      /\ Len(posted') = Len(posted) - 1
  BY <1>1, <1>2, HeadTailProperties
<1>4. DOMAIN posted' = {}
  <2>1. Len(posted) <= 1
    <3>1. Len(posted) \in 1 .. Len(posted) \/ Len(posted) = 0
      BY <1>2
    <3>2. QED
      BY <1>2, <3>1 DEF SeqInv, OnePosted
  <2>2. DOMAIN posted' = 1 .. Len(posted')
    BY <1>3, LenProperties
  <2>3. QED
    BY <1>2, <1>3, <2>1, <2>2
<1>5. Listed' = Listed /\ Busy' = Busy
  BY <1>1 DEF Listed, Busy
<1>6. OneCommand' /\ Holder' /\ Wires'
  BY <1>1, <1>5 DEF SeqInv, OneCommand, Holder, Wires
<1>7. Busy' \subseteq Listed'
  BY <1>5 DEF SeqInv, OneBusy
<1>8. QED
  BY <1>1, <1>4, <1>5, <1>6, <1>7, Shrinking, Zenon

\* The answer of the only vehicle that owes one.
LEMMA RespSeq ==
    ASSUME IInv, SeqInv, NEW c \in Conn, NEW result \in {"RECV", "REJECT"},
           HandleRespControlCmd(c, result)
    PROVE  SeqInv' /\ Handover
<1> DEFINE acked == IF result = "RECV" THEN Head(handle[c].cmds) ELSE handle[c].acked
           g == [handle EXCEPT ![c].timer = FALSE,
                               ![c].cmds = Tail(@),
                               ![c].acked = acked]
<1>1. /\ closing = NoDev
      /\ c \in Listed
      /\ handle[c].cmds # <<>>
      /\ HandleReqControlCmdResult(handle[c].imei, result,
            [handle EXCEPT ![c].timer = FALSE,
                           ![c].cmds = Tail(@),
                           ![c].acked = IF result = "RECV" THEN Head(handle[c].cmds)
                                                           ELSE @])
      /\ UNCHANGED <<devList, zmq, lastReqControlCmd, closing>>
  BY DEF HandleRespControlCmd
<1>2. HandleReqControlCmdResult(handle[c].imei, result, g)
  BY <1>1
<1>3. /\ handle \in [Conn -> Handles]
      /\ handle[c].cmds \in Seq(Opts)
      /\ Head(handle[c].cmds) \in Opts
      /\ Tail(handle[c].cmds) \in Seq(Opts)
      /\ Len(Tail(handle[c].cmds)) = Len(handle[c].cmds) - 1
      /\ Len(handle[c].cmds) \in Nat
  BY <1>1, HeadTailProperties, LenProperties DEF IInv, TypeOK, Handles
<1>4. acked \in Opts
  BY <1>3 DEF Handles
<1>5. c \in Busy
  BY <1>1 DEF Busy
<1>6. Tail(handle[c].cmds) = <<>> /\ Len(Tail(handle[c].cmds)) = 0
  <2> DEFINE n == Len(handle[c].cmds)
  <2>1. n \in Nat /\ n <= 1 /\ n # 0
    BY <1>1, <1>3, EmptySeq DEF SeqInv, OneCommand
  <2>2. Len(Tail(handle[c].cmds)) = 0
    <3>1. Len(Tail(handle[c].cmds)) = n - 1
      BY <1>3
    <3> HIDE DEF n
    <3>2. n = 1
      BY <2>1
    <3>3. QED
      BY <3>1, <3>2
  <2>3. QED
    BY <1>3, <2>2, EmptySeq
<1> HIDE DEF acked
<1>7. /\ g \in [Conn -> Handles]
      /\ \A d \in Conn \ {c} : g[d] = handle[d]
      /\ g[c].imei = handle[c].imei
      /\ g[c].wired = handle[c].wired
      /\ g[c].cmds = Tail(handle[c].cmds)
      /\ ~ g[c].timer
  BY <1>3, <1>4 DEF Handles
<1> HIDE DEF g
<1>8. \A d \in Conn : /\ g[d].imei = handle[d].imei
                      /\ g[d].wired = handle[d].wired
                      /\ Len(g[d].cmds) <= 1
                      /\ g[d].cmds # <<>> \/ g[d].timer => d \in Busy \ {c}
  <2>1. \A d \in Conn \ {c} : /\ Len(handle[d].cmds) <= 1
                              /\ handle[d].cmds # <<>> \/ handle[d].timer
                                    => d \in Busy
    BY DEF SeqInv, OneCommand, Busy
  <2>2. Len(g[c].cmds) <= 1 /\ g[c].cmds = <<>>
    BY <1>6, <1>7
  <2>3. QED
    BY <1>7, <2>1, <2>2
<1>9. CASE lastReqControlCmd = "START" /\ Grant(handle[c].imei, g)
  BY <1>1, <1>5, <1>7, <1>8, <1>9, Granting
<1>10. CASE Release(g)
  <2>1. UNCHANGED <<devList, zmq, lastReqControlCmd>>
    BY <1>1
  <2>2. \A d \in Conn : /\ g[d].imei = handle[d].imei
                        /\ g[d].wired = handle[d].wired
                        /\ Len(g[d].cmds) <= 1
                        /\ g[d].cmds # <<>> \/ g[d].timer => d \in Busy
    BY <1>8
  <2>3. QED
    BY <1>7, <1>10, <2>1, <2>2, Releasing
<1>11. QED
  BY <1>2, <1>9, <1>10 DEF HandleReqControlCmdResult

\* No answer in time: remote control ends, whoever has it.
LEMMA TimeoutSeq ==
    ASSUME IInv, SeqInv, NEW c \in Conn, ControlCmdTimeOutSlots(c)
    PROVE  SeqInv' /\ Handover
<1> DEFINE g == [handle EXCEPT ![c].timer = FALSE]
<1>1. /\ Release(g)
      /\ UNCHANGED <<devList, zmq, lastReqControlCmd>>
  BY DEF ControlCmdTimeOutSlots, HandleReqControlCmdResult
<1>2. handle \in [Conn -> Handles]
  BY Living
<1>3. /\ g \in [Conn -> Handles]
      /\ \A d \in Conn : /\ g[d].imei = handle[d].imei
                         /\ g[d].wired = handle[d].wired
                         /\ g[d].cmds = handle[d].cmds
                         /\ g[d].timer => handle[d].timer
  BY <1>2 DEF Handles
<1> HIDE DEF g
<1>4. \A d \in Conn : /\ g[d].imei = handle[d].imei
                      /\ g[d].wired = handle[d].wired
                      /\ Len(g[d].cmds) <= 1
                      /\ g[d].cmds # <<>> \/ g[d].timer => d \in Busy
  BY <1>3 DEF SeqInv, OneCommand, Busy
<1>5. QED
  BY <1>1, <1>3, <1>4, Releasing

\* A lost connection that is controlled is found by its IMEI, and let go.
LEMMA DisconnectedSeq ==
    ASSUME IInv, SeqInv, NEW c \in Conn, DevDisConnected(c)
    PROVE  SeqInv' /\ Handover
<1>1. /\ closing = NoDev
      /\ c \in Listed
      /\ closing' = c
      /\ UNCHANGED <<devList, lastReqControlCmd, zmq>>
  BY DEF DevDisConnected
<1>2. CASE Release(handle)
  <2>1. UNCHANGED <<devList, zmq, lastReqControlCmd>>
    BY <1>1
  <2>2. handle \in [Conn -> Handles]
    BY Living
  <2>3. \A d \in Conn : /\ handle[d].imei = handle[d].imei
                        /\ handle[d].wired = handle[d].wired
                        /\ Len(handle[d].cmds) <= 1
                        /\ handle[d].cmds # <<>> \/ handle[d].timer => d \in Busy
    BY DEF SeqInv, OneCommand, Busy
  <2>4. QED
    BY <1>2, <2>1, <2>2, <2>3, Releasing
<1>3. CASE /\ UNCHANGED <<handle, fastVars, posted>>
           /\ \/ handle[c].imei = NoImei
              \/ handle[c].imei # NoImei /\ controlFastDev = NoDev
              \/ handle[c].imei # NoImei /\ controlFastDev # GetDevHandle(handle[c].imei)
  <2>1. UNCHANGED <<handle, controlFastDev, dataSubs, posted>>
    BY <1>3 DEF fastVars
  <2>2. Listed' = Listed /\ Busy' = Busy
    BY <1>1, <2>1 DEF Listed, Busy
  <2>3. controlFastDev # NoDev => controlFastDev # c
    <3>1. CASE handle[c].imei = NoImei
      BY <3>1, GatewayAssumption DEF IInv, Identities
    <3>2. CASE handle[c].imei # NoImei
      BY <1>1, <1>3, <3>2, LookupUnique DEF SeqInv
    <3>3. QED
      BY <3>1, <3>2
  <2>4. Holder'
    BY <1>1, <2>1, <2>2, <2>3 DEF SeqInv, Holder
  <2>5. OneCommand' /\ Wires' /\ Busy' \subseteq Listed'
    BY <2>1, <2>2 DEF SeqInv, OneCommand, Wires, OneBusy
  <2>6. QED
    BY <1>1, <2>1, <2>2, <2>4, <2>5, Shrinking, Zenon
<1>4. QED
  BY <1>2, <1>3 DEF DevDisConnected, HandleVehicleStatus

\* The rest of it: the connection leaves the list.
LEMMA DeleteSeq ==
    ASSUME IInv, SeqInv, HandleDevDisConnected
    PROVE  SeqInv' /\ Handover
<1> DEFINE keep == Owned(devList', controlFastDev, zmq.dev)
           f == [handle EXCEPT ![closing].cmds = <<>>]
<1>1. /\ closing # NoDev
      /\ DelDev(closing)
      /\ handle' = Surviving(f, keep)
      /\ posted' = Undelivered(keep)
      /\ closing' = NoDev
      /\ UNCHANGED <<controlFastDev, dataSubs, lastReqControlCmd, zmq>>
  BY DEF HandleDevDisConnected, fastVars
<1>2. /\ TypeOK /\ IndexAgrees
      /\ handle \in [Conn -> Handles]
      /\ closing \in Conn
      /\ Listed \subseteq Conn
      /\ closing # NoDev => closing \in Listed
  BY <1>1, Living DEF IInv, TypeOK, Lifetimes
<1>3. Listed' = Listed \ {closing}
  BY <1>1, <1>2, Deletion
<1>4. /\ f \in [Conn -> Handles]
      /\ \A d \in Conn : /\ f[d].imei = handle[d].imei
                         /\ f[d].wired = handle[d].wired
                         /\ f[d].timer = handle[d].timer
                         /\ f[d].cmds = IF d = closing THEN <<>> ELSE handle[d].cmds
  <2>1. <<>> \in Seq(Opts)
    BY EmptySeq
  <2>2. QED
    BY <1>2, <2>1 DEF Handles
<1>5. /\ Listed' \subseteq keep
      /\ controlFastDev # NoDev => controlFastDev \in keep
      /\ closing \in keep => closing = zmq.dev
  <2>1. keep = Listed' \cup ({controlFastDev, zmq.dev} \ {NoDev})
    BY DEF Owned, Listed
  <2>2. controlFastDev # closing
    BY <1>1 DEF SeqInv, Holder
  <2> HIDE DEF keep
  <2>3. QED
    BY <1>3, <2>1, <2>2
<1> HIDE DEF keep, f
<1>6. \A d \in Conn : handle'[d] = IF d \in keep THEN f[d] ELSE NoHandle
  BY <1>1, <1>4, SurvivingType
<1>7. /\ DOMAIN posted' = DOMAIN posted
      /\ \A i \in DOMAIN posted : /\ posted'[i].imei = posted[i].imei
                                 /\ posted'[i].rcv \subseteq posted[i].rcv
  BY <1>1, <1>2, UndeliveredKept
<1>8. Busy' \subseteq Busy
  BY <1>4, <1>6 DEF Busy, NoHandle
<1>9. closing \notin Busy'
  <2>1. CASE closing \in keep
    <3>1. zmq.pc # "idle"
      BY <1>1, <1>5, <2>1 DEF IInv, Lifetimes
    <3>2. QED
      BY <1>8, <3>1 DEF SeqInv, Calm
  <2>2. CASE closing \notin keep
    BY <1>2, <1>6, <2>2 DEF Busy, NoHandle
  <2>3. QED
    BY <2>1, <2>2
<1>10. Busy' \subseteq Listed'
  BY <1>3, <1>8, <1>9 DEF SeqInv, OneBusy
<1>11. \A d \in Listed' : handle'[d].imei = handle[d].imei
  BY <1>2, <1>3, <1>4, <1>5, <1>6
<1>12. OneCommand'
  <2>1. Len(NoHandle.cmds) <= 1 /\ Len(<<>>) <= 1
    BY EmptySeq DEF NoHandle
  <2>2. QED
    BY <1>4, <1>6, <2>1 DEF SeqInv, OneCommand
<1>13. Wires'
  BY <1>1, <1>4, <1>5, <1>6, GatewayAssumption DEF SeqInv, Wires, NoHandle
<1>14. Holder'
  BY <1>1, <1>3 DEF SeqInv, Holder
<1>15. Listed' \subseteq Listed
  BY <1>3
<1>16. QED
  BY <1>1, <1>7, <1>8, <1>10, <1>11, <1>12, <1>13, <1>14, <1>15, Shrinking, Zenon

-----------------------------------------------------------------------------
(* The steps of the subscriber thread *)

LEMMA ZmqLookupSeq ==
    ASSUME IInv, SeqInv, NEW imei \in Imei, NEW opt \in {"START", "END"},
           SequentialRequest(imei, opt)
    PROVE  SeqInv' /\ Handover
<1>1. /\ zmq.pc = "idle"
      /\ posted = <<>>
      /\ \A c \in Alive : handle[c].cmds = <<>> /\ ~ handle[c].timer
      /\ opt = "START" => controlFastDev = NoDev
      /\ UNCHANGED <<devList, handle, controlFastDev, dataSubs,
                     lastReqControlCmd, posted, closing>>
      /\ \/ zmq' = zmq
         \/ zmq' = [pc |-> "found", imei |-> imei, opt |-> opt,
                    dev |-> GetDevHandle(imei)]
  BY DEF SequentialRequest, Quiet, HandleZmqReqRemoteControl, fastVars
<1>2. DOMAIN posted = {} /\ Busy = {}
  BY <1>1, Living DEF Busy, NoHandle
<1>3. Listed' = Listed /\ Busy' = {}
  BY <1>1, <1>2 DEF Listed, Busy
<1>4. Calm'
  <2>1. CASE zmq' = zmq
    BY <1>1, <2>1 DEF Calm
  <2>2. CASE zmq' = [pc |-> "found", imei |-> imei, opt |-> opt,
                     dev |-> GetDevHandle(imei)]
    BY <1>1, <1>2, <1>3, <2>2 DEF Calm
  <2>3. QED
    BY <1>1, <2>1, <2>2
<1>5. Wires' /\ Holder' /\ Unique'
  BY <1>1, <1>3 DEF SeqInv, Wires, Holder, Unique
<1>6. OneBusy' /\ OneCommand' /\ OnePosted' /\ Turn'
  BY <1>1, <1>2, <1>3 DEF SeqInv, OneBusy, OneCommand, OnePosted, Turn
<1>7. Handover
  BY <1>1 DEF Handover
<1>8. QED
  BY <1>4, <1>5, <1>6, <1>7 DEF SeqInv

LEMMA ZmqStoreSeq ==
    ASSUME IInv, SeqInv, ZmqStoreLastReq
    PROVE  SeqInv' /\ Handover
<1>1. /\ zmq.pc = "found"
      /\ lastReqControlCmd' = zmq.opt
      /\ zmq' = [zmq EXCEPT !.pc = "emit"]
      /\ UNCHANGED <<devList, handle, controlFastDev, dataSubs, posted, closing>>
  BY DEF ZmqStoreLastReq, fastVars
<1>2. /\ DOMAIN posted = {} /\ Busy = {}
      /\ zmq.opt = "START" => controlFastDev = NoDev
  BY <1>1 DEF SeqInv, Calm
<1>3. Listed' = Listed /\ Busy' = {}
  BY <1>1, <1>2 DEF Listed, Busy
<1>4. zmq' \in ZmqStates /\ zmq'.opt = zmq.opt
  BY <1>1 DEF IInv, TypeOK, ZmqStates
<1>5. Calm'
  BY <1>1, <1>2, <1>3, <1>4 DEF Calm
<1>6. Wires' /\ Holder' /\ Unique'
  BY <1>1, <1>3 DEF SeqInv, Wires, Holder, Unique
<1>7. OneBusy' /\ OneCommand' /\ OnePosted' /\ Turn'
  BY <1>1, <1>2, <1>3 DEF SeqInv, OneBusy, OneCommand, OnePosted, Turn
<1>8. Handover
  BY <1>1 DEF Handover
<1>9. QED
  BY <1>5, <1>6, <1>7, <1>8 DEF SeqInv

LEMMA ZmqEmitSeq ==
    ASSUME IInv, SeqInv, ZmqEmit
    PROVE  SeqInv' /\ Handover
<1> DEFINE keep == Owned(devList, controlFastDev, NoDev)
           e == [imei |-> zmq.imei, opt |-> zmq.opt, rcv |-> keep]
<1>1. /\ zmq.pc = "emit"
      /\ posted' = Append(Undelivered(keep), e)
      /\ handle' = Surviving(handle, keep)
      /\ zmq' = ZmqIdle
      /\ UNCHANGED <<devList, controlFastDev, dataSubs, lastReqControlCmd, closing>>
  BY DEF ZmqEmit, fastVars
<1>2. /\ DOMAIN posted = {} /\ Busy = {}
      /\ lastReqControlCmd = "START" => controlFastDev = NoDev
  BY <1>1 DEF SeqInv, Calm
<1>3. /\ handle \in [Conn -> Handles]
      /\ Listed \subseteq Conn
      /\ Listed \subseteq keep
      /\ controlFastDev # NoDev => controlFastDev \in keep
  BY Living DEF Owned, Listed
<1>4. TypeOK /\ keep \subseteq Conn /\ e \in Emissions
  <2>1. TypeOK /\ zmq.imei \in Imei /\ zmq.opt \in Opts
    BY <1>1 DEF IInv, Lifetimes, TypeOK, ZmqStates
  <2>2. keep \subseteq Conn
    BY <1>3, <2>1 DEF Owned, Listed, TypeOK
  <2>3. QED
    BY <2>1, <2>2 DEF Emissions
<1> HIDE DEF keep, e
<1>5. DOMAIN posted' = {1}
  <2> DEFINE u == Undelivered(keep)
  <2>1. u \in Seq(Emissions) /\ DOMAIN u = {}
    BY <1>2, <1>4, UndeliveredType
  <2>2. Len(u) \in Nat /\ DOMAIN u = 1 .. Len(u)
    BY <2>1, LenProperties
  <2> HIDE DEF u
  <2>3. Len(u) = 0
    <3>1. Len(u) # 0 => 1 \in 1 .. Len(u)
      BY <2>2
    <3>2. QED
      BY <2>1, <2>2, <3>1
  <2>4. posted' = Append(u, e)
    BY <1>1 DEF u
  <2>5. posted' \in Seq(Emissions) /\ Len(posted') = 1
    BY <1>4, <2>1, <2>3, <2>4, AppendProperties
  <2>6. DOMAIN posted' = 1 .. 1
    BY <2>5, LenProperties
  <2>7. QED
    BY <2>6
<1>6. \A c \in Conn : handle'[c] = IF c \in keep THEN handle[c] ELSE NoHandle
  BY <1>1, <1>3, SurvivingType
<1>7. Busy' = {}
  BY <1>2, <1>6 DEF Busy, NoHandle
<1>8. Listed' = Listed /\ \A c \in Listed : handle'[c] = handle[c]
  BY <1>1, <1>3, <1>6 DEF Listed
<1>9. Wires'
  BY <1>1, <1>3, <1>6, GatewayAssumption DEF SeqInv, Wires, NoHandle
<1>10. Holder' /\ Unique'
  BY <1>1, <1>8 DEF SeqInv, Holder, Unique
<1>11. Calm'
  BY <1>1 DEF Calm, ZmqIdle
<1>12. OneBusy' /\ OnePosted'
  BY <1>5, <1>7 DEF OneBusy, OnePosted
<1>13. OneCommand'
  <2>1. Len(NoHandle.cmds) <= 1
    BY EmptySeq DEF NoHandle
  <2>2. QED
    BY <1>6, <2>1 DEF SeqInv, OneCommand
<1>14. Turn'
  BY <1>1, <1>2 DEF Turn
<1>15. Handover
  BY <1>1, <1>2, <1>8 DEF Handover, SeqInv, Holder
<1>16. QED
  BY <1>9, <1>10, <1>11, <1>12, <1>13, <1>14, <1>15 DEF SeqInv

-----------------------------------------------------------------------------
(* Every step *)

LEMMA InitSeq == Init => SeqInv
<1> SUFFICES ASSUME Init PROVE SeqInv
  OBVIOUS
<1>1. DOMAIN posted = {} /\ DOMAIN devList = {}
  BY DEF Init
<1>2. Busy = {} /\ Listed = {}
  BY <1>1 DEF Init, Busy, Listed, ListedIn, NoHandle
<1>3. OneCommand
  <2>1. Len(NoHandle.cmds) <= 1
    BY EmptySeq DEF NoHandle
  <2>2. QED
    BY <2>1 DEF Init, OneCommand
<1>4. Wires /\ Holder
  BY GatewayAssumption DEF Init, Wires, Holder, NoHandle
<1>5. QED
  BY <1>1, <1>2, <1>3, <1>4
     DEF Init, SeqInv, Unique, Calm, ZmqIdle, OneBusy, OnePosted, Turn

LEMMA SequentialIsNext == SequentialNext => Next
<1>1. SequentialMainStep => MainStep
  BY DEF SequentialMainStep, MainStep, SingleAuth
<1>2. SequentialZmqStep => ZmqStep
  BY DEF SequentialZmqStep, ZmqStep, SequentialRequest, Opts
<1>3. QED
  BY <1>1, <1>2 DEF SequentialNext, Next

LEMMA StutterSeq ==
    ASSUME SeqInv, UNCHANGED vars
    PROVE  SeqInv' /\ Handover
<1>1. UNCHANGED <<devList, handle, controlFastDev, dataSubs, lastReqControlCmd,
                  posted, zmq, closing>>
  BY DEF vars, fastVars
<1>2. Listed' = Listed /\ Busy' = Busy
  BY <1>1 DEF Listed, Busy
<1>3. Wires' /\ Holder' /\ Unique' /\ Calm'
  BY <1>1, <1>2 DEF SeqInv, Wires, Holder, Unique, Calm
<1>4. OneBusy' /\ OneCommand' /\ OnePosted' /\ Turn'
  BY <1>1, <1>2 DEF SeqInv, OneBusy, OneCommand, OnePosted, Turn
<1>5. QED
  BY <1>1, <1>3, <1>4 DEF SeqInv, Handover

LEMMA SequentialStep ==
    ASSUME IInv, SeqInv, [SequentialNext]_vars
    PROVE  SeqInv' /\ Handover
<1>1. CASE SequentialMainStep
  <2>1. ASSUME NEW c \in Conn, HandleNewConnect(c) PROVE SeqInv' /\ Handover
    BY <2>1, NewConnectSeq
  <2>2. ASSUME NEW c \in Conn, NEW imei \in Imei, SingleAuth(c, imei)
        PROVE  SeqInv' /\ Handover
    BY <2>2, AuthSeq
  <2>3. ASSUME NEW c \in Conn, HandleReqControlCmdSlot(c)
        PROVE  SeqInv' /\ Handover
    BY <2>3, CmdSlotSeq
  <2>4. ASSUME NEW c \in Conn, NEW result \in {"RECV", "REJECT"},
               HandleRespControlCmd(c, result)
        PROVE  SeqInv' /\ Handover
    BY <2>4, RespSeq
  <2>5. ASSUME NEW c \in Conn, ControlCmdTimeOutSlots(c)
        PROVE  SeqInv' /\ Handover
    BY <2>5, TimeoutSeq
  <2>6. ASSUME NEW c \in Conn, DevDisConnected(c) PROVE SeqInv' /\ Handover
    BY <2>6, DisconnectedSeq
  <2>7. CASE Dequeue
    BY <2>7, DequeueSeq
  <2>8. CASE HandleDevDisConnected
    BY <2>8, DeleteSeq
  <2>9. QED
    BY <1>1, <2>1, <2>2, <2>3, <2>4, <2>5, <2>6, <2>7, <2>8
       DEF SequentialMainStep
<1>2. CASE SequentialZmqStep
  <2>1. ASSUME NEW imei \in Imei, NEW opt \in {"START", "END"},
               SequentialRequest(imei, opt)
        PROVE  SeqInv' /\ Handover
    BY <2>1, ZmqLookupSeq
  <2>2. QED
    BY <1>2, <2>1, ZmqStoreSeq, ZmqEmitSeq DEF SequentialZmqStep
<1>3. CASE UNCHANGED vars
  BY <1>3, StutterSeq
<1>4. QED
  BY <1>1, <1>2, <1>3 DEF SequentialNext

\* Sequential use keeps to one request, one command and one wired vehicle.
THEOREM SequentialInvariance == SequentialSpec => [](IInv /\ SeqInv)
<1>1. Init => IInv /\ SeqInv
  BY InitInv, InitSeq
<1>2. IInv /\ SeqInv /\ [SequentialNext]_vars => (IInv /\ SeqInv)'
  <2> SUFFICES ASSUME IInv, SeqInv, [SequentialNext]_vars
               PROVE  IInv' /\ SeqInv'
    OBVIOUS
  <2>1. [Next]_vars
    BY SequentialIsNext
  <2>2. IInv'
    BY <2>1, NextInv
  <2>3. SeqInv'
    BY SequentialStep
  <2>4. QED
    BY <2>2, <2>3
<1>3. QED
  BY <1>1, <1>2, PTL DEF SequentialSpec

\* A published sample is written once, to the controlled vehicle alone, for
\* any number of connections, vehicles and requests: every grant meets no
\* vehicle under control, and every release the one that was connected.
THEOREM SingleControlled == SequentialSpec => []SingleControl
<1>1. IInv /\ SeqInv => SingleControl
  <2> SUFFICES ASSUME IInv, SeqInv PROVE SingleControl
    OBVIOUS
  <2>1. Alive \subseteq Conn
    BY Living
  <2>2. QED
    BY <2>1 DEF SeqInv, Wires, SingleControl
<1>2. QED
  BY <1>1, SequentialInvariance, PTL

\* Who is driven, and by which vehicle's name Takeover knows it.
OwnerMapped ==
    /\ Owner \in Imei \cup {NoImei}
    /\ Owner = NoImei <=> controlFastDev = NoDev
    /\ {handle[c].imei : c \in Driven} = {Owner} \ {NoImei}

LEMMA OwnerDriven == IInv /\ SeqInv => OwnerMapped
<1> SUFFICES ASSUME IInv, SeqInv PROVE OwnerMapped
  OBVIOUS
<1>1. controlFastDev # NoDev => /\ handle[controlFastDev].imei \in Imei
                                /\ controlFastDev \in Alive
  BY DEF IInv, Identities, Alive, Owned
<1>2. /\ Owner \in Imei \cup {NoImei}
      /\ Owner = NoImei <=> controlFastDev = NoDev
  BY <1>1, GatewayAssumption DEF Owner
<1>3. Alive \subseteq Conn
  BY Living
<1>4. Driven = IF controlFastDev = NoDev THEN {} ELSE {controlFastDev}
  <2>1. \A c \in Alive : handle[c].wired > 0 <=> c = controlFastDev
    BY <1>3 DEF SeqInv, Wires
  <2>2. dataSubs > 0 <=> controlFastDev # NoDev
    BY DEF SeqInv, Wires
  <2>3. QED
    BY <1>1, <2>1, <2>2 DEF Driven
<1>5. QED
  BY <1>1, <1>2, <1>4 DEF OwnerMapped, Owner

\* Under sequential use the gateway implements Takeover: nobody is driven but
\* the owner, and control changes hands only by way of no owner at all.
THEOREM TakeoverImplemented == SequentialSpec => ImplementsTakeover
<1> DEFINE D == {handle[c].imei : c \in Driven}
<1>1. Init => Promise!Init
  <2> SUFFICES ASSUME Init PROVE Promise!Init
    OBVIOUS
  <2>1. IInv /\ SeqInv
    BY InitInv, InitSeq
  <2>2. controlFastDev = NoDev
    BY DEF Init
  <2>3. QED
    BY <2>1, <2>2, OwnerDriven DEF OwnerMapped, Promise!Init
<1>2. /\ IInv /\ SeqInv /\ OwnerMapped /\ OwnerMapped'
      /\ [SequentialNext]_vars
      => [Promise!Next]_<<Owner, D>>
  <2> SUFFICES ASSUME IInv, SeqInv, OwnerMapped, OwnerMapped',
                      [SequentialNext]_vars
               PROVE  [Promise!Next]_<<Owner, D>>
    OBVIOUS
  <2>1. Handover
    BY SequentialStep
  <2>2. /\ Owner \in Imei \cup {NoImei}
        /\ Owner = NoImei <=> controlFastDev = NoDev
        /\ D = {Owner} \ {NoImei}
    BY DEF OwnerMapped
  <2>3. /\ Owner' \in Imei \cup {NoImei}
        /\ Owner' = NoImei <=> controlFastDev' = NoDev
        /\ D' = {Owner'} \ {NoImei}
    BY DEF OwnerMapped
  <2> HIDE DEF D
  <2>4. CASE controlFastDev = NoDev
    BY <2>2, <2>3, <2>4 DEF Promise!Next, Promise!Take, D
  <2>5. CASE controlFastDev' = NoDev
    BY <2>2, <2>3, <2>5 DEF Promise!Next, Promise!GiveBack, D
  <2>6. CASE /\ controlFastDev' = controlFastDev
             /\ handle'[controlFastDev].imei = handle[controlFastDev].imei
    <3>1. Owner' = Owner
      BY <2>6 DEF Owner
    <3>2. QED
      BY <2>2, <2>3, <3>1
  <2>7. QED
    BY <2>1, <2>4, <2>5, <2>6 DEF Handover
<1>3. QED
  BY <1>1, <1>2, OwnerDriven, SequentialInvariance, PTL
     DEF SequentialSpec, ImplementsTakeover, Promise!Spec
==============================================================================
