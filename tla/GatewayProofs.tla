---------------------------- MODULE GatewayProofs ----------------------------
(***************************************************************************)
(* Machine-checked proofs about Gateway, for any set of connections, any   *)
(* set of vehicles and any number of requests.                             *)
(***************************************************************************)
EXTENDS Gateway, SequenceTheorems, TLAPS

\* What the lifetime rule keeps true: a destroyed handle leaves nothing
\* behind, no event is posted to it, and the handle being disconnected is
\* still in the list.
Lifetimes ==
    /\ \A c \in Conn \ Alive : handle[c] = NoHandle
    /\ \A i \in DOMAIN posted : posted[i].rcv \subseteq Alive
    /\ closing # NoDev => closing \in Listed
    /\ zmq.pc # "idle" => zmq.imei \in Imei
    /\ zmq.pc = "idle" => zmq.dev = NoDev

\* Only authenticated vehicles are sent commands or are under control, and
\* control survives the loss of its connection only with a second connection.
Identities ==
    /\ \A c \in Conn : handle[c].cmds # <<>> => handle[c].imei \in Imei
    /\ controlFastDev # NoDev => handle[controlFastDev].imei \in Imei
    /\ closing # NoDev /\ controlFastDev = closing =>
          \E d \in Listed \ {closing} : handle[d].imei = handle[closing].imei

IInv ==
    /\ TypeOK
    /\ IndexAgrees
    /\ FastDevWired
    /\ TimerOwed
    /\ Lifetimes
    /\ Identities

-----------------------------------------------------------------------------
(* Sequences *)

\* A function on 1..n is a sequence of length n.
LEMMA FunctionIsSeq ==
    ASSUME NEW S, NEW n \in Nat, NEW f \in [1..n -> S]
    PROVE  f \in Seq(S) /\ Len(f) = n
<1>1. f \in Seq(S)
  BY SeqDef
<1>2. DOMAIN f = 1..Len(f) /\ Len(f) \in Nat
  BY <1>1, LenProperties
<1>3. QED
  BY <1>1, <1>2

\* Removing entry i of a sequence leaves the others in order.
LEMMA Removal ==
    ASSUME NEW S, NEW s \in Seq(S), NEW i \in 1..Len(s)
    PROVE  /\ RemoveAt(s, i) \in Seq(S)
           /\ Len(RemoveAt(s, i)) = Len(s) - 1
           /\ \A j \in 1..(Len(s) - 1) :
                 RemoveAt(s, i)[j] = IF j < i THEN s[j] ELSE s[j+1]
<1> DEFINE l == SubSeq(s, 1, i-1)
           r == SubSeq(s, i+1, Len(s))
<1>1. /\ Len(s) \in Nat
      /\ i \in Int /\ 1 <= i /\ i <= Len(s)
      /\ \A j \in 1..Len(s) : s[j] \in S
  BY LenProperties, ElementOfSeq
<1>2. /\ l \in Seq(S)
      /\ Len(l) = i - 1
      /\ \A j \in 1..(i-1) : l[j] = s[j]
  <2>1. \A j \in 1..(i-1) : s[j] \in S
    BY <1>1
  <2>2. /\ l \in Seq(S)
        /\ Len(l) = IF 1 <= i-1 THEN (i-1) - 1 + 1 ELSE 0
        /\ \A j \in 1..((i-1) - 1 + 1) : l[j] = s[1 + j - 1]
    BY <1>1, <2>1, SubSeqProperties
  <2>3. QED
    BY <1>1, <2>2
<1>3. /\ r \in Seq(S)
      /\ Len(r) = Len(s) - i
      /\ \A j \in 1..(Len(s) - i) : r[j] = s[i + j]
  <2>1. \A j \in (i+1)..Len(s) : s[j] \in S
    BY <1>1
  <2>2. /\ r \in Seq(S)
        /\ Len(r) = IF i+1 <= Len(s) THEN Len(s) - (i+1) + 1 ELSE 0
        /\ \A j \in 1..(Len(s) - (i+1) + 1) : r[j] = s[i + 1 + j - 1]
    BY <1>1, <2>1, SubSeqProperties
  <2>3. QED
    BY <1>1, <2>2
<1>4. RemoveAt(s, i) = l \o r
  BY DEF RemoveAt
<1> DEFINE t == RemoveAt(s, i)
<1> HIDE DEF l, r, t
<1>5. /\ t \in Seq(S)
      /\ Len(t) = Len(l) + Len(r)
      /\ \A j \in 1..(Len(l) + Len(r)) :
            t[j] = IF j <= Len(l) THEN l[j] ELSE r[j - Len(l)]
  <2>1. /\ l \o r \in Seq(S)
        /\ Len(l \o r) = Len(l) + Len(r)
        /\ \A j \in 1..(Len(l) + Len(r)) :
              (l \o r)[j] = IF j <= Len(l) THEN l[j] ELSE r[j - Len(l)]
    BY <1>2, <1>3, ConcatProperties, Zenon
  <2>2. t = l \o r
    BY <1>4 DEF t
  <2>3. QED
    BY <2>1, <2>2, Zenon
<1>6. t \in Seq(S) /\ Len(t) = Len(s) - 1
  BY <1>1, <1>2, <1>3, <1>5
<1>7. ASSUME NEW j \in 1..(Len(s) - 1)
      PROVE  t[j] = IF j < i THEN s[j] ELSE s[j+1]
  <2>1. t[j] = IF j <= i - 1 THEN l[j] ELSE r[j - (i - 1)]
    BY <1>1, <1>2, <1>3, <1>5
  <2>2. CASE j < i
    BY <1>1, <1>2, <2>1, <2>2
  <2>3. CASE i <= j
    <3>1. j - (i - 1) \in 1..(Len(s) - i)
      BY <1>1, <2>3
    <3>2. r[j - (i - 1)] = s[i + (j - (i - 1))]
      BY <1>3, <3>1
    <3>3. t[j] = s[i + (j - (i - 1))] /\ i + (j - (i - 1)) = j + 1
      BY <1>1, <2>1, <2>3, <3>2
    <3>4. QED
      BY <1>1, <2>3, <3>3
  <2>4. QED
    BY <1>1, <2>2, <2>3
<1>8. QED
  BY <1>6, <1>7 DEF t

-----------------------------------------------------------------------------
(* The helpers of Gateway *)

\* A lookup finds a handle of the list, or none.
LEMMA LookupListed ==
    ASSUME NEW imei
    PROVE  GetDevHandle(imei) \in Listed \cup {NoDev}
<1>1. OldestOf(imei) \subseteq Listed
  BY DEF OldestOf, Listed, ListedIn
<1>2. QED
  BY <1>1 DEF GetDevHandle

LEMMA ListedType == TypeOK => Listed \subseteq Conn
<1> SUFFICES ASSUME TypeOK, NEW i \in DOMAIN devList
             PROVE  devList[i].sock \in Conn
  BY DEF Listed, ListedIn
<1>1. devList[i] \in DevInfos
  BY LenProperties, ElementOfSeq DEF TypeOK
<1>2. QED
  BY <1>1 DEF DevInfos

\* Taking destroyed receivers out of the queue keeps its type and leaves no
\* receiver outside keep.
LEMMA UndeliveredType ==
    ASSUME TypeOK, NEW keep
    PROVE  /\ Undelivered(keep) \in Seq(Emissions)
           /\ DOMAIN Undelivered(keep) = DOMAIN posted
           /\ \A i \in DOMAIN posted : Undelivered(keep)[i].rcv \subseteq keep
<1> DEFINE u == Undelivered(keep)
<1>1. posted \in Seq(Emissions) /\ Len(posted) \in Nat /\ DOMAIN posted = 1..Len(posted)
  BY LenProperties DEF TypeOK
<1>2. ASSUME NEW i \in DOMAIN posted
      PROVE  /\ u[i] \in Emissions
             /\ u[i].rcv \subseteq keep
  <2>1. posted[i] \in Emissions
    BY <1>1, ElementOfSeq
  <2>2. u[i] = [posted[i] EXCEPT !.rcv = @ \cap keep]
    BY DEF Undelivered
  <2>3. QED
    BY <2>1, <2>2 DEF Emissions
<1>3. u \in [1..Len(posted) -> Emissions] /\ DOMAIN u = DOMAIN posted
  <2>1. u = [i \in DOMAIN posted |-> u[i]]
    BY DEF Undelivered
  <2> HIDE DEF u
  <2>2. QED
    BY <1>1, <1>2, <2>1
<1>4. u \in Seq(Emissions)
  <2> HIDE DEF u
  <2>1. QED
    BY <1>1, <1>3, FunctionIsSeq
<1>5. QED
  BY <1>2, <1>3, <1>4

\* Destroying handles keeps the table well typed.
LEMMA SurvivingType ==
    ASSUME NEW f \in [Conn -> Handles], NEW keep
    PROVE  /\ Surviving(f, keep) \in [Conn -> Handles]
           /\ \A c \in Conn : Surviving(f, keep)[c] = IF c \in keep THEN f[c]
                                                                   ELSE NoHandle
<1>1. NoHandle \in Handles
  <2>1. <<>> \in Seq(Opts)
    BY EmptySeq
  <2>2. QED
    BY <2>1 DEF NoHandle, Handles, Opts
<1>2. QED
  BY <1>1 DEF Surviving

-----------------------------------------------------------------------------
(* The invariant *)

LEMMA InitInv == Init => IInv
<1> SUFFICES ASSUME Init PROVE IInv
  OBVIOUS
<1>1. DOMAIN devList = {} /\ DOMAIN posted = {}
  BY DEF Init
<1>2. TypeOK
  <2>1. devList \in Seq(DevInfos) /\ posted \in Seq(Emissions)
    BY EmptySeq DEF Init
  <2>2. handle \in [Conn -> Handles]
    <3>1. <<>> \in Seq(Opts)
      BY EmptySeq
    <3>2. QED
      BY <3>1 DEF Init, NoHandle, Handles, Opts
  <2>3. QED
    BY <2>1, <2>2, GatewayAssumption DEF Init, TypeOK, ZmqIdle, ZmqStates, Opts
<1>3. IndexAgrees
  BY <1>1 DEF IndexAgrees
<1>4. FastDevWired
  BY DEF Init, FastDevWired
<1>5. TimerOwed
  BY <1>1 DEF TimerOwed, Listed, ListedIn
<1>6. Lifetimes
  BY <1>1 DEF Init, Lifetimes, ZmqIdle
<1>7. Identities
  BY DEF Init, Identities, NoHandle
<1>8. QED
  BY <1>2, <1>3, <1>4, <1>5, <1>6, <1>7 DEF IInv

\* The handle a lookup finds is authenticated as the vehicle looked for.
LEMMA LookupImei ==
    ASSUME IndexAgrees, NEW imei, GetDevHandle(imei) # NoDev
    PROVE  /\ GetDevHandle(imei) \in Listed
           /\ handle[GetDevHandle(imei)].imei = imei
<1>1. GetDevHandle(imei) \in OldestOf(imei)
  BY DEF GetDevHandle
<1>2. PICK i \in DOMAIN devList : /\ devList[i].imei = imei
                                  /\ devList[i].sock = GetDevHandle(imei)
  BY <1>1 DEF OldestOf
<1>3. QED
  BY <1>2 DEF IndexAgrees, Listed, ListedIn

\* Retarget, called with a table that keeps every IMEI and leaves no timer
\* without a command, preserves the invariant.
LEMMA RetargetInv ==
    ASSUME IInv,
           NEW f \in [Conn -> Handles],
           NEW d \in Listed \cup {NoDev},
           Retarget(d, f),
           devList' = devList, zmq' = zmq,
           \A c \in Conn : /\ f[c].imei = handle[c].imei
                           /\ f[c].cmds # <<>> => handle[c].cmds # <<>>,
           \A c \in Listed : f[c].timer => f[c].cmds # <<>>,
           d # NoDev => /\ f[d].imei \in Imei
                        /\ f[d].wired > 0
                        /\ dataSubs' > 0
                        /\ lightSubs' > 0,
           closing' = NoDev \/ (closing' \in Listed /\ d = NoDev)
    PROVE  /\ handle' \in [Conn -> Handles]
           /\ posted' \in Seq(Emissions)
           /\ controlFastDev' \in Conn \cup {NoDev}
           /\ IndexAgrees'
           /\ FastDevWired'
           /\ TimerOwed'
           /\ Lifetimes'
           /\ Identities'
<1> DEFINE keep == Owned(devList, d, zmq.dev)
<1>1. /\ controlFastDev' = d
      /\ handle' = Surviving(f, keep)
      /\ posted' = Undelivered(keep)
      /\ TypeOK /\ IndexAgrees /\ Lifetimes /\ Identities
  BY DEF Retarget, IInv
<1>2. /\ Listed \subseteq Conn
      /\ Listed \subseteq keep
      /\ d # NoDev => d \in keep
      /\ Alive' = keep
      /\ Listed' = Listed
  BY <1>1, ListedType DEF Owned, Listed, Alive
<1>3. /\ handle' \in [Conn -> Handles]
      /\ \A c \in Conn : handle'[c] = IF c \in keep THEN f[c] ELSE NoHandle
  <2>1. /\ Surviving(f, keep) \in [Conn -> Handles]
        /\ \A c \in Conn : Surviving(f, keep)[c] = IF c \in keep THEN f[c]
                                                                ELSE NoHandle
    <3> HIDE DEF keep
    <3>1. QED
      BY SurvivingType
  <2> HIDE DEF keep
  <2>2. QED
    BY <1>1, <2>1
<1>4. /\ posted' \in Seq(Emissions)
      /\ DOMAIN posted' = DOMAIN posted
      /\ \A i \in DOMAIN posted : posted'[i].rcv \subseteq keep
  BY <1>1, UndeliveredType, Zenon
<1> HIDE DEF keep
<1>5. \A c \in Listed : handle'[c] = f[c] /\ handle'[c].imei = handle[c].imei
  BY <1>2, <1>3
<1>6. IndexAgrees'
  <2>1. \A i \in DOMAIN devList : devList[i].sock \in Listed
    BY DEF Listed, ListedIn
  <2>2. QED
    BY <1>1, <1>5, <2>1 DEF IndexAgrees
<1>7. FastDevWired'
  BY <1>1, <1>2, <1>5 DEF FastDevWired
<1>8. TimerOwed'
  BY <1>2, <1>5 DEF TimerOwed
<1>9. Lifetimes'
  BY <1>1, <1>2, <1>3, <1>4 DEF Lifetimes
<1>10. Identities'
  <2>1. ASSUME NEW c \in Conn, handle'[c].cmds # <<>>
        PROVE  handle'[c].imei \in Imei
    BY <1>1, <1>3, <2>1 DEF NoHandle, Identities
  <2>2. QED
    BY <1>1, <1>2, <1>5, <2>1 DEF Identities
<1>11. QED
  BY <1>1, <1>2, <1>3, <1>4, <1>6, <1>7, <1>8, <1>9, <1>10

\* HandleReqControlCmdResult preserves the invariant.
LEMMA ResultInv ==
    ASSUME IInv,
           NEW g \in [Conn -> Handles], NEW imei \in Imei \cup {NoImei}, NEW result,
           HandleReqControlCmdResult(imei, result, g),
           UNCHANGED <<devList, zmq, lastReqControlCmd, closing>>,
           closing = NoDev,
           \A c \in Conn : /\ g[c].imei = handle[c].imei
                           /\ g[c].cmds # <<>> => handle[c].cmds # <<>>,
           \A c \in Listed : g[c].timer => g[c].cmds # <<>>,
           result = "RECV" => imei \in Imei,
           reqs' \in 0..MaxReq, awaiting' \subseteq Imei
    PROVE  IInv'
<1>1. TypeOK /\ IndexAgrees
  BY DEF IInv
<1>2. Listed \subseteq Conn
  BY <1>1, ListedType
<1> DEFINE d == GetDevHandle(imei)
<1>3. d \in Listed \cup {NoDev} /\ (d # NoDev => handle[d].imei = imei)
  BY <1>1, LookupListed, LookupImei
<1> HIDE DEF d
<1> DEFINE granted == [c \in Conn |-> IF c = d THEN [g[c] EXCEPT !.wired = @ + 1]
                                               ELSE g[c]]
           released == [c \in Conn |-> IF c = controlFastDev
                                       THEN [g[c] EXCEPT !.wired = 0] ELSE g[c]]
<1>4. /\ granted \in [Conn -> Handles]
      /\ \A c \in Conn : /\ granted[c].imei = g[c].imei
                         /\ granted[c].cmds = g[c].cmds
                         /\ granted[c].timer = g[c].timer
      /\ d # NoDev => granted[d].wired > 0
  BY <1>2, <1>3 DEF Handles
<1>5. /\ released \in [Conn -> Handles]
      /\ \A c \in Conn : /\ released[c].imei = g[c].imei
                         /\ released[c].cmds = g[c].cmds
                         /\ released[c].timer = g[c].timer
  BY DEF Handles
<1>6. dataSubs \in Nat /\ lightSubs \in Nat
  BY <1>1 DEF TypeOK
<1> DEFINE Rest == /\ handle' \in [Conn -> Handles]
                   /\ posted' \in Seq(Emissions)
                   /\ controlFastDev' \in Conn \cup {NoDev}
                   /\ IndexAgrees' /\ FastDevWired' /\ TimerOwed'
                   /\ Lifetimes' /\ Identities'
                   /\ dataSubs' \in Nat /\ lightSubs' \in Nat
<1>7. CASE result = "RECV" /\ lastReqControlCmd = "START"
  <2>1. /\ dataSubs' = dataSubs + 1
        /\ lightSubs' = lightSubs + 1
        /\ Retarget(d, granted)
    BY <1>7 DEF HandleReqControlCmdResult, Grant, d
  <2> HIDE DEF granted
  <2>2. d # NoDev => /\ granted[d].imei \in Imei /\ granted[d].wired > 0
                     /\ dataSubs' > 0 /\ lightSubs' > 0
    BY <1>2, <1>3, <1>4, <1>6, <1>7, <2>1
  <2>3. Rest
    BY <1>3, <1>4, <1>6, <2>1, <2>2, <1>2, RetargetInv
  <2>4. QED
    BY <1>1, <2>3 DEF IInv, TypeOK
<1>8. CASE ~ (result = "RECV" /\ lastReqControlCmd = "START")
  <2>1. /\ dataSubs' = IF dataSubs = 0 THEN 0 ELSE dataSubs - 1
        /\ lightSubs' = lightSubs
        /\ Retarget(NoDev, released)
    BY <1>8 DEF HandleReqControlCmdResult, Release
  <2> HIDE DEF released
  <2>2. dataSubs' \in Nat /\ lightSubs' \in Nat
    BY <1>6, <2>1
  <2>3. Rest
    BY <1>5, <2>1, <2>2, <1>2, RetargetInv
  <2>4. QED
    BY <1>1, <2>3 DEF IInv, TypeOK
<1>9. QED
  BY <1>7, <1>8

-----------------------------------------------------------------------------
(* One lemma per group of actions *)

LEMMA ZmqLookupInv ==
    ASSUME IInv, NEW imei \in Imei, NEW opt \in Opts,
           HandleZmqReqRemoteControl(imei, opt)
    PROVE  IInv'
<1>1. /\ TypeOK /\ IndexAgrees /\ FastDevWired /\ TimerOwed
      /\ Lifetimes /\ Identities
      /\ Listed \subseteq Conn
  BY ListedType DEF IInv
<1>2. UNCHANGED <<devList, handle, controlFastDev, dataSubs, lightSubs,
                  lastReqControlCmd, posted, closing>>
  BY DEF HandleZmqReqRemoteControl, fastVars
<1>3. reqs' \in 0..MaxReq
  BY <1>1, GatewayAssumption DEF HandleZmqReqRemoteControl, TypeOK
<1>4. zmq.dev = NoDev
  BY <1>1 DEF HandleZmqReqRemoteControl, Lifetimes
<1>5. \/ zmq' = zmq /\ awaiting' = awaiting
      \/ /\ zmq' = [pc |-> "found", imei |-> imei, opt |-> opt,
                     dev |-> GetDevHandle(imei)]
         /\ awaiting' = awaiting \cup {imei}
  BY DEF HandleZmqReqRemoteControl
<1>6. GetDevHandle(imei) \in Conn \cup {NoDev}
  BY <1>1, LookupListed
<1>7. zmq' \in ZmqStates /\ awaiting' \subseteq Imei
  BY <1>1, <1>5, <1>6 DEF TypeOK, ZmqStates, Opts
<1>8. Listed' = Listed /\ Alive \subseteq Alive'
  BY <1>2, <1>4 DEF Listed, ListedIn, Alive, Owned
<1>9. TypeOK'
  BY <1>1, <1>2, <1>3, <1>7 DEF TypeOK
<1>10. IndexAgrees' /\ FastDevWired'
  BY <1>1, <1>2 DEF IndexAgrees, FastDevWired
<1>11. TimerOwed' /\ Identities'
  BY <1>1, <1>2, <1>8 DEF TimerOwed, Identities
<1>12. Lifetimes'
  BY <1>1, <1>2, <1>5, <1>8 DEF Lifetimes
<1>13. QED
  BY <1>9, <1>10, <1>11, <1>12 DEF IInv

LEMMA ZmqStoreInv ==
    ASSUME IInv, ZmqStoreLastReq
    PROVE  IInv'
<1>1. /\ TypeOK /\ IndexAgrees /\ FastDevWired /\ TimerOwed
      /\ Lifetimes /\ Identities
  BY DEF IInv
<1>2. UNCHANGED <<devList, handle, controlFastDev, dataSubs, lightSubs, posted,
                  closing, reqs, awaiting>>
  BY DEF ZmqStoreLastReq, fastVars
<1>3. /\ zmq \in ZmqStates
      /\ zmq.pc = "found"
      /\ zmq' = [zmq EXCEPT !.pc = "emit"]
      /\ lastReqControlCmd' = zmq.opt
  BY <1>1 DEF ZmqStoreLastReq, TypeOK
<1>4. /\ zmq' \in ZmqStates
      /\ lastReqControlCmd' \in Opts
      /\ zmq'.pc = "emit" /\ zmq'.dev = zmq.dev /\ zmq'.imei = zmq.imei
  BY <1>3 DEF ZmqStates
<1>5. Listed' = Listed /\ Alive' = Alive
  BY <1>2, <1>4 DEF Listed, ListedIn, Alive, Owned
<1>6. TypeOK'
  BY <1>1, <1>2, <1>4 DEF TypeOK
<1>7. IndexAgrees' /\ FastDevWired'
  BY <1>1, <1>2 DEF IndexAgrees, FastDevWired
<1>8. TimerOwed' /\ Identities'
  BY <1>1, <1>2, <1>5 DEF TimerOwed, Identities
<1>9. Lifetimes'
  BY <1>1, <1>2, <1>3, <1>4, <1>5 DEF Lifetimes
<1>10. QED
  BY <1>6, <1>7, <1>8, <1>9 DEF IInv

LEMMA ZmqEmitInv ==
    ASSUME IInv, ZmqEmit
    PROVE  IInv'
<1>1. /\ TypeOK /\ IndexAgrees /\ FastDevWired /\ TimerOwed
      /\ Lifetimes /\ Identities
      /\ Listed \subseteq Conn
  BY ListedType DEF IInv
<1> DEFINE keep == Owned(devList, controlFastDev, NoDev)
           u == Undelivered(keep)
           e == [imei |-> zmq.imei, opt |-> zmq.opt, rcv |-> keep]
<1>2. /\ zmq.pc = "emit"
      /\ posted' = Append(u, e)
      /\ handle' = Surviving(handle, keep)
      /\ zmq' = ZmqIdle
      /\ UNCHANGED <<devList, controlFastDev, dataSubs, lightSubs,
                     lastReqControlCmd, closing, reqs, awaiting>>
  BY DEF ZmqEmit, fastVars
<1>3. /\ Listed' = Listed
      /\ Alive' = keep
      /\ Listed \subseteq keep
      /\ keep \subseteq Conn
      /\ controlFastDev # NoDev => controlFastDev \in keep
  BY <1>1, <1>2 DEF Listed, Alive, Owned, ZmqIdle, TypeOK
<1>4. zmq' \in ZmqStates /\ zmq'.pc = "idle" /\ zmq'.dev = NoDev
  BY <1>2 DEF ZmqIdle, ZmqStates, Opts
<1>5. e \in Emissions
  BY <1>1, <1>2, <1>3 DEF Emissions, TypeOK, ZmqStates, Lifetimes
<1>6. /\ u \in Seq(Emissions)
      /\ DOMAIN u = DOMAIN posted
      /\ \A i \in DOMAIN posted : u[i].rcv \subseteq keep
  <2> HIDE DEF keep
  <2>1. QED
    BY <1>1, UndeliveredType
<1>7. e.rcv = keep
  OBVIOUS
<1>8. /\ handle' \in [Conn -> Handles]
      /\ \A c \in Conn : handle'[c] = IF c \in keep THEN handle[c] ELSE NoHandle
  <2> HIDE DEF keep
  <2>1. handle \in [Conn -> Handles]
    BY <1>1 DEF TypeOK
  <2>2. QED
    BY <1>2, <2>1, SurvivingType
<1> HIDE DEF keep, u, e
<1>9. /\ posted' \in Seq(Emissions)
      /\ \A i \in DOMAIN posted' : posted'[i].rcv \subseteq keep
  <2>1. Len(u) \in Nat /\ DOMAIN u = 1..Len(u)
    BY <1>6, LenProperties
  <2>2. /\ posted' \in Seq(Emissions)
        /\ Len(posted') = Len(u) + 1
        /\ \A i \in 1..Len(u) : posted'[i] = u[i]
        /\ posted'[Len(u) + 1] = e
    BY <1>2, <1>5, <1>6, AppendProperties
  <2>3. DOMAIN posted' = 1..(Len(u) + 1)
    BY <2>2, LenProperties
  <2>4. QED
    BY <1>6, <1>7, <2>1, <2>2, <2>3
<1>10. TypeOK'
  BY <1>1, <1>2, <1>4, <1>8, <1>9 DEF TypeOK
<1>11. IndexAgrees'
  <2>1. \A i \in DOMAIN devList : devList[i].sock \in Listed
    BY DEF Listed, ListedIn
  <2>2. QED
    BY <1>1, <1>2, <1>3, <1>8, <2>1 DEF IndexAgrees
<1>12. FastDevWired'
  BY <1>1, <1>2, <1>3, <1>8 DEF FastDevWired, TypeOK
<1>13. TimerOwed'
  BY <1>1, <1>3, <1>8 DEF TimerOwed
<1>14. Lifetimes'
  BY <1>1, <1>2, <1>3, <1>4, <1>8, <1>9 DEF Lifetimes
<1>15. Identities'
  BY <1>1, <1>2, <1>3, <1>8 DEF Identities, NoHandle, TypeOK
<1>16. QED
  BY <1>10, <1>11, <1>12, <1>13, <1>14, <1>15 DEF IInv

LEMMA NewConnectInv ==
    ASSUME IInv, NEW c \in Conn, HandleNewConnect(c)
    PROVE  IInv'
<1>1. /\ TypeOK /\ IndexAgrees /\ FastDevWired /\ TimerOwed
      /\ Lifetimes /\ Identities
      /\ Listed \subseteq Alive
  BY DEF IInv, Alive, Owned, Listed
<1> DEFINE e == [sock |-> c, imei |-> NoImei]
<1>2. /\ c \notin Alive
      /\ devList' = Append(devList, e)
      /\ UNCHANGED <<handle, controlFastDev, dataSubs, lightSubs,
                     lastReqControlCmd, posted, zmq, closing, reqs, awaiting>>
  BY DEF HandleNewConnect, AddDev, fastVars
<1>3. /\ e \in DevInfos /\ e.sock = c /\ e.imei = NoImei
      /\ devList \in Seq(DevInfos)
  BY <1>1 DEF DevInfos, TypeOK
<1> HIDE DEF e
<1>4. Len(devList) \in Nat /\ DOMAIN devList = 1..Len(devList)
  BY <1>3, LenProperties
<1>5. /\ devList' \in Seq(DevInfos)
      /\ Len(devList') = Len(devList) + 1
      /\ \A i \in DOMAIN devList : devList'[i] = devList[i]
      /\ devList'[Len(devList) + 1] = e
  BY <1>2, <1>3, <1>4, AppendProperties
<1>6. DOMAIN devList' = DOMAIN devList \cup {Len(devList) + 1}
  <2>1. DOMAIN devList' = 1..(Len(devList) + 1)
    BY <1>5, LenProperties
  <2>2. QED
    BY <1>4, <2>1
<1>7. Listed' = Listed \cup {c}
  BY <1>3, <1>5, <1>6 DEF Listed, ListedIn
<1>8. Alive' = Alive \cup {c}
  BY <1>2, <1>7 DEF Alive, Owned, Listed
<1>9. handle[c] = NoHandle
  BY <1>1, <1>2 DEF Lifetimes
<1>10. TypeOK'
  BY <1>1, <1>2, <1>5 DEF TypeOK
<1>11. IndexAgrees'
  <2>1. \A i \in DOMAIN devList : devList[i].sock \in Listed
    BY DEF Listed, ListedIn
  <2>2. c \notin Listed
    BY <1>1, <1>2
  <2>3. \A i, j \in DOMAIN devList' :
           devList'[i].sock = devList'[j].sock => i = j
    BY <1>1, <1>3, <1>5, <1>6, <2>1, <2>2 DEF IndexAgrees
  <2>4. \A i \in DOMAIN devList' :
           devList'[i].imei = handle'[devList'[i].sock].imei
    BY <1>1, <1>2, <1>3, <1>5, <1>6, <1>9 DEF IndexAgrees, NoHandle
  <2>5. QED
    BY <2>3, <2>4 DEF IndexAgrees
<1>12. FastDevWired'
  BY <1>1, <1>2 DEF FastDevWired
<1>13. TimerOwed'
  BY <1>1, <1>2, <1>7, <1>9 DEF TimerOwed, NoHandle
<1>14. Lifetimes'
  BY <1>1, <1>2, <1>7, <1>8 DEF Lifetimes
<1>15. Identities'
  BY <1>1, <1>2, <1>7 DEF Identities
<1>16. QED
  BY <1>10, <1>11, <1>12, <1>13, <1>14, <1>15 DEF IInv

LEMMA AuthInv ==
    ASSUME IInv, NEW c \in Conn, NEW imei \in Imei, HandleAuth(c, imei)
    PROVE  IInv'
<1>1. /\ TypeOK /\ IndexAgrees /\ FastDevWired /\ TimerOwed
      /\ Lifetimes /\ Identities
      /\ Listed \subseteq Alive
  BY DEF IInv, Alive, Owned, Listed
<1>2. /\ closing = NoDev
      /\ c \in Listed
      /\ handle' = [handle EXCEPT ![c].imei = imei]
      /\ devList' = [i \in DOMAIN devList |->
                       IF devList[i].sock = c THEN [devList[i] EXCEPT !.imei = imei]
                                              ELSE devList[i]]
      /\ UNCHANGED <<controlFastDev, dataSubs, lightSubs,
                     lastReqControlCmd, posted, zmq, closing, reqs, awaiting>>
  BY DEF HandleAuth, UpdateDev, fastVars
<1>3. /\ Len(devList) \in Nat
      /\ DOMAIN devList = 1..Len(devList)
      /\ \A i \in DOMAIN devList : devList[i] \in DevInfos
  BY <1>1, LenProperties, ElementOfSeq DEF TypeOK
<1>4. \A i \in DOMAIN devList :
         /\ devList'[i] \in DevInfos
         /\ devList'[i].sock = devList[i].sock
         /\ devList'[i].imei = IF devList[i].sock = c THEN imei ELSE devList[i].imei
  BY <1>2, <1>3 DEF DevInfos
<1>5. devList' \in Seq(DevInfos) /\ DOMAIN devList' = DOMAIN devList
  <2>1. devList' \in [1..Len(devList) -> DevInfos]
    BY <1>2, <1>3, <1>4
  <2>2. QED
    BY <1>3, <2>1, FunctionIsSeq
<1>6. /\ handle' \in [Conn -> Handles]
      /\ \A d \in Conn : /\ handle'[d].timer = handle[d].timer
                         /\ handle'[d].wired = handle[d].wired
                         /\ handle'[d].cmds = handle[d].cmds
                         /\ handle'[d].imei = IF d = c THEN imei ELSE handle[d].imei
                         /\ d # c => handle'[d] = handle[d]
  BY <1>1, <1>2 DEF TypeOK, Handles
<1>7. Listed' = Listed
  BY <1>4, <1>5 DEF Listed, ListedIn
<1>8. Alive' = Alive
  BY <1>2, <1>7 DEF Alive, Owned, Listed
<1>9. TypeOK'
  BY <1>1, <1>2, <1>5, <1>6 DEF TypeOK
<1>10. Listed \subseteq Conn
  BY <1>1, ListedType
<1>11. IndexAgrees'
  <2>1. \A i \in DOMAIN devList : devList[i].sock \in Conn
    BY <1>10 DEF Listed, ListedIn
  <2>2. QED
    BY <1>1, <1>4, <1>5, <1>6, <2>1 DEF IndexAgrees
<1>12. FastDevWired'
  BY <1>1, <1>2, <1>6 DEF FastDevWired, TypeOK
<1>13. TimerOwed'
  BY <1>1, <1>6, <1>7, <1>10 DEF TimerOwed
<1>14. Lifetimes'
  BY <1>1, <1>2, <1>6, <1>7, <1>8 DEF Lifetimes
<1>15. Identities'
  BY <1>1, <1>2, <1>6 DEF Identities, TypeOK
<1>16. QED
  BY <1>9, <1>11, <1>12, <1>13, <1>14, <1>15 DEF IInv

LEMMA DequeueInv ==
    ASSUME IInv, Dequeue
    PROVE  IInv'
<1>1. /\ TypeOK /\ IndexAgrees /\ FastDevWired /\ TimerOwed
      /\ Lifetimes /\ Identities
  BY DEF IInv
<1>2. /\ posted # <<>>
      /\ posted' = Tail(posted)
      /\ UNCHANGED <<devList, handle, controlFastDev, dataSubs, lightSubs,
                     lastReqControlCmd, zmq, closing, reqs, awaiting>>
  BY DEF Dequeue, fastVars
<1>3. posted \in Seq(Emissions) /\ Len(posted) \in Nat /\ DOMAIN posted = 1..Len(posted)
  BY <1>1, LenProperties DEF TypeOK
<1>4. /\ posted' \in Seq(Emissions)
      /\ Len(posted') = Len(posted) - 1
      /\ \A i \in 1..Len(posted') : posted'[i] = posted[i+1]
  BY <1>2, <1>3, HeadTailProperties
<1>5. \A i \in DOMAIN posted' : posted'[i].rcv \subseteq Alive
  <2>1. DOMAIN posted' = 1..Len(posted')
    BY <1>4, LenProperties
  <2>2. \A i \in 1..Len(posted') : i + 1 \in DOMAIN posted
    BY <1>3, <1>4
  <2>3. QED
    BY <1>1, <1>4, <2>1, <2>2 DEF Lifetimes
<1>6. Listed' = Listed /\ Alive' = Alive
  BY <1>2 DEF Listed, ListedIn, Alive, Owned
<1>7. TypeOK'
  BY <1>1, <1>2, <1>4 DEF TypeOK
<1>8. IndexAgrees' /\ FastDevWired'
  BY <1>1, <1>2 DEF IndexAgrees, FastDevWired
<1>9. TimerOwed' /\ Identities'
  BY <1>1, <1>2, <1>6 DEF TimerOwed, Identities
<1>10. Lifetimes'
  BY <1>1, <1>2, <1>5, <1>6 DEF Lifetimes
<1>11. QED
  BY <1>7, <1>8, <1>9, <1>10 DEF IInv

LEMMA CmdSlotInv ==
    ASSUME IInv, NEW c \in Conn, HandleReqControlCmdSlot(c)
    PROVE  IInv'
<1>1. /\ TypeOK /\ IndexAgrees /\ FastDevWired /\ TimerOwed
      /\ Lifetimes /\ Identities
      /\ Listed \subseteq Conn
  BY ListedType DEF IInv
<1> DEFINE h == Head(posted)
<1>2. /\ posted # <<>>
      /\ c \in h.rcv
      /\ posted' = [posted EXCEPT ![1].rcv = @ \ {c}]
      /\ UNCHANGED <<devList, controlFastDev, dataSubs, lightSubs,
                     lastReqControlCmd, zmq, closing, reqs, awaiting>>
  BY DEF HandleReqControlCmdSlot, fastVars
<1>3. /\ posted \in Seq(Emissions)
      /\ Len(posted) \in Nat
      /\ DOMAIN posted = 1..Len(posted)
      /\ 1 \in DOMAIN posted
      /\ h = posted[1]
      /\ \A i \in DOMAIN posted : posted[i] \in Emissions
  BY <1>1, <1>2, LenProperties, ElementOfSeq, EmptySeq DEF TypeOK
<1>4. /\ h.imei \in Imei
      /\ h.opt \in Opts
      /\ c \in Alive
  BY <1>1, <1>2, <1>3 DEF Emissions, Lifetimes
<1>5. /\ posted' \in Seq(Emissions)
      /\ DOMAIN posted' = DOMAIN posted
      /\ \A i \in DOMAIN posted : posted'[i].rcv \subseteq posted[i].rcv
  <2>1. DOMAIN posted' = DOMAIN posted
    BY <1>2
  <2>2. ASSUME NEW i \in DOMAIN posted
        PROVE  /\ posted'[i] \in Emissions
               /\ posted'[i].rcv \subseteq posted[i].rcv
    <3>1. posted'[i] = IF i = 1 THEN [posted[i] EXCEPT !.rcv = @ \ {c}]
                                ELSE posted[i]
      BY <1>2
    <3>2. posted[i] \in Emissions
      BY <1>3
    <3>3. QED
      BY <3>1, <3>2 DEF Emissions
  <2>3. posted' \in [1..Len(posted) -> Emissions]
    <3>1. posted' = [i \in DOMAIN posted |-> posted'[i]]
      BY <1>2
    <3>2. QED
      BY <1>3, <2>2, <3>1
  <2>4. QED
    BY <1>3, <2>1, <2>2, <2>3, FunctionIsSeq
<1>6. /\ handle' \in [Conn -> Handles]
      /\ \A d \in Conn \ {c} : handle'[d] = handle[d]
      /\ \/ handle' = handle
         \/ /\ handle[c].imei = h.imei
            /\ handle'[c].imei = h.imei
            /\ handle'[c].wired = handle[c].wired
            /\ c \in Listed => handle'[c].cmds # <<>>
  <2>1. handle \in [Conn -> Handles]
    BY <1>1 DEF TypeOK
  <2>2. CASE handle' = handle
    BY <2>1, <2>2
  <2>3. CASE /\ handle[c].imei = h.imei
             /\ handle' = [handle EXCEPT
                   ![c].timer = TRUE,
                   ![c].cmds = IF c \in Listed THEN Append(@, h.opt) ELSE @]
    <3> DEFINE s == handle[c].cmds
               t == IF c \in Listed THEN Append(s, h.opt) ELSE s
    <3>1. handle[c] \in Handles /\ s \in Seq(Opts)
      BY <2>1 DEF Handles
    <3>2. t \in Seq(Opts) /\ (c \in Listed => t # <<>>)
      <4>1. /\ Append(s, h.opt) \in Seq(Opts)
            /\ Len(Append(s, h.opt)) = Len(s) + 1
        BY <1>4, <3>1, AppendProperties
      <4>2. Append(s, h.opt) # <<>>
        BY <3>1, <4>1, LenProperties, EmptySeq
      <4>3. QED
        BY <3>1, <4>1, <4>2
    <3>3. handle'[c] = [handle[c] EXCEPT !.timer = TRUE, !.cmds = t]
      BY <2>1, <2>3
    <3>4. \A d \in Conn \ {c} : handle'[d] = handle[d]
      BY <2>1, <2>3
    <3> HIDE DEF s, t
    <3>5. handle'[c] \in Handles
      BY <3>1, <3>2, <3>3 DEF Handles
    <3>6. handle' \in [Conn -> Handles]
      <4>1. handle' = [d \in Conn |-> handle'[d]]
        BY <2>1, <2>3
      <4>2. QED
        BY <2>1, <3>4, <3>5, <4>1
    <3>7. /\ handle'[c].imei = handle[c].imei
          /\ handle'[c].wired = handle[c].wired
          /\ handle'[c].cmds = t
      BY <3>1, <3>3 DEF Handles
    <3>8. QED
      BY <2>3, <3>2, <3>4, <3>6, <3>7
  <2>4. QED
    BY <2>2, <2>3 DEF HandleReqControlCmdSlot
<1> HIDE DEF h
<1>7. Listed' = Listed /\ Alive' = Alive
  BY <1>2 DEF Listed, ListedIn, Alive, Owned
<1>8. TypeOK'
  BY <1>1, <1>2, <1>5, <1>6 DEF TypeOK
<1>9. IndexAgrees'
  <2>1. \A i \in DOMAIN devList : devList[i].sock \in Conn
    BY <1>1 DEF Listed, ListedIn
  <2>2. QED
    BY <1>1, <1>2, <1>6, <2>1 DEF IndexAgrees
<1>10. FastDevWired'
  BY <1>1, <1>2, <1>6 DEF FastDevWired, TypeOK
<1>11. TimerOwed'
  BY <1>1, <1>6, <1>7 DEF TimerOwed
<1>12. Lifetimes'
  BY <1>1, <1>2, <1>4, <1>5, <1>6, <1>7 DEF Lifetimes
<1>13. Identities'
  BY <1>1, <1>2, <1>4, <1>6, <1>7 DEF Identities, TypeOK, Lifetimes
<1>14. QED
  BY <1>8, <1>9, <1>10, <1>11, <1>12, <1>13 DEF IInv

LEMMA RespInv ==
    ASSUME IInv, NEW c \in Conn, NEW result \in {"RECV", "REJECT"},
           HandleRespControlCmd(c, result)
    PROVE  IInv'
<1>1. TypeOK /\ Identities /\ Listed \subseteq Conn
  BY ListedType DEF IInv
<1> DEFINE acked == IF result = "RECV" THEN Head(handle[c].cmds) ELSE handle[c].acked
           g == [handle EXCEPT ![c].timer = FALSE,
                               ![c].cmds = Tail(@),
                               ![c].acked = acked]
<1>2. /\ closing = NoDev
      /\ handle[c].cmds # <<>>
      /\ HandleReqControlCmdResult(handle[c].imei, result,
            [handle EXCEPT ![c].timer = FALSE,
                           ![c].cmds = Tail(@),
                           ![c].acked = IF result = "RECV" THEN Head(handle[c].cmds)
                                                           ELSE @])
      /\ awaiting' = awaiting \ {handle[c].imei}
      /\ UNCHANGED <<devList, zmq, lastReqControlCmd, closing, reqs>>
  BY DEF HandleRespControlCmd
<1>3. HandleReqControlCmdResult(handle[c].imei, result, g)
  BY <1>2
<1>4. /\ handle \in [Conn -> Handles]
      /\ handle[c] \in Handles
      /\ handle[c].imei \in Imei
      /\ Head(handle[c].cmds) \in Opts
      /\ Tail(handle[c].cmds) \in Seq(Opts)
  BY <1>1, <1>2, HeadTailProperties DEF TypeOK, Identities, Handles
<1>5. acked \in Opts
  BY <1>4 DEF Handles
<1> HIDE DEF acked
<1>6. /\ g \in [Conn -> Handles]
      /\ \A d \in Conn \ {c} : g[d] = handle[d]
      /\ g[c].imei = handle[c].imei
      /\ ~ g[c].timer
  BY <1>4, <1>5 DEF Handles
<1> HIDE DEF g
<1>7. \A d \in Conn : /\ g[d].imei = handle[d].imei
                      /\ g[d].cmds # <<>> => handle[d].cmds # <<>>
  BY <1>2, <1>6
<1>8. \A d \in Listed : g[d].timer => g[d].cmds # <<>>
  BY <1>1, <1>6 DEF IInv, TimerOwed
<1>9. reqs' \in 0..MaxReq /\ awaiting' \subseteq Imei
  BY <1>1, <1>2 DEF TypeOK
<1>10. QED
  BY <1>2, <1>3, <1>4, <1>6, <1>7, <1>8, <1>9, ResultInv

LEMMA TimeoutInv ==
    ASSUME IInv, NEW c \in Conn, ControlCmdTimeOutSlots(c)
    PROVE  IInv'
<1>1. TypeOK /\ Listed \subseteq Conn
  BY ListedType DEF IInv
<1> DEFINE g == [handle EXCEPT ![c].timer = FALSE]
<1>2. /\ closing = NoDev
      /\ HandleReqControlCmdResult(handle[c].imei, "TIMEOUT", g)
      /\ awaiting' \subseteq awaiting
      /\ UNCHANGED <<devList, zmq, lastReqControlCmd, closing, reqs>>
  BY DEF ControlCmdTimeOutSlots
<1>3. /\ handle \in [Conn -> Handles]
      /\ handle[c].imei \in Imei \cup {NoImei}
  BY <1>1 DEF TypeOK, Handles
<1>4. /\ g \in [Conn -> Handles]
      /\ \A d \in Conn \ {c} : g[d] = handle[d]
      /\ g[c].imei = handle[c].imei
      /\ g[c].cmds = handle[c].cmds
      /\ ~ g[c].timer
  BY <1>3 DEF Handles
<1> HIDE DEF g
<1>5. \A d \in Conn : /\ g[d].imei = handle[d].imei
                      /\ g[d].cmds # <<>> => handle[d].cmds # <<>>
  BY <1>4
<1>6. \A d \in Listed : g[d].timer => g[d].cmds # <<>>
  BY <1>1, <1>4 DEF IInv, TimerOwed
<1>7. reqs' \in 0..MaxReq /\ awaiting' \subseteq Imei
  BY <1>1, <1>2 DEF TypeOK
<1>8. QED
  BY <1>2, <1>3, <1>4, <1>5, <1>6, <1>7, ResultInv

\* The lookup that misses a listed connection of the IMEI has found another one.
LEMMA MissedLookup ==
    ASSUME TypeOK, IndexAgrees, NEW c \in Listed,
           GetDevHandle(handle[c].imei) # c
    PROVE  \E d \in Listed \ {c} : handle[d].imei = handle[c].imei
<1>1. PICK j \in DOMAIN devList : devList[j].sock = c
  BY DEF Listed, ListedIn
<1>2. devList[j].imei = handle[c].imei
  BY <1>1 DEF IndexAgrees
<1>3. CASE \E k \in 1..(j-1) : devList[k].imei = handle[c].imei
  <2>1. PICK k \in 1..(j-1) : devList[k].imei = handle[c].imei
    BY <1>3
  <2>2. k \in DOMAIN devList /\ k # j
    <3>1. devList \in Seq(DevInfos)
      BY DEF TypeOK
    <3>2. Len(devList) \in Nat /\ DOMAIN devList = 1..Len(devList)
      BY <3>1, LenProperties
    <3>3. QED
      BY <3>2
  <2>3. devList[k].sock \in Listed \ {c}
    BY <1>1, <2>2 DEF IndexAgrees, Listed, ListedIn
  <2>4. handle[devList[k].sock].imei = handle[c].imei
    BY <2>1, <2>2 DEF IndexAgrees
  <2>5. QED
    BY <2>3, <2>4
<1>4. CASE \A k \in 1..(j-1) : devList[k].imei # handle[c].imei
  <2> DEFINE d == GetDevHandle(handle[c].imei)
  <2>1. c \in OldestOf(handle[c].imei)
    BY <1>1, <1>2, <1>4 DEF OldestOf
  <2>2. d \in OldestOf(handle[c].imei)
    BY <2>1 DEF GetDevHandle
  <2>3. d \in Listed
    BY <2>2 DEF OldestOf, Listed, ListedIn
  <2>4. handle[d].imei = handle[c].imei
    <3>1. PICK i \in DOMAIN devList : /\ devList[i].imei = handle[c].imei
                                      /\ devList[i].sock = d
      BY <2>2 DEF OldestOf
    <3>2. QED
      BY <3>1 DEF IndexAgrees
  <2>5. QED
    BY <2>3, <2>4
<1>5. QED
  BY <1>3, <1>4

LEMMA DisconnectedInv ==
    ASSUME IInv, NEW c \in Conn, DevDisConnected(c)
    PROVE  IInv'
<1>1. /\ TypeOK /\ IndexAgrees /\ FastDevWired /\ TimerOwed
      /\ Lifetimes /\ Identities
      /\ Listed \subseteq Conn
  BY ListedType DEF IInv
<1>2. /\ closing = NoDev
      /\ c \in Listed
      /\ closing' = c
      /\ awaiting' \subseteq awaiting
      /\ UNCHANGED <<devList, lastReqControlCmd, zmq, reqs>>
  BY DEF DevDisConnected, HandleVehicleStatus
<1>3. /\ dataSubs \in Nat /\ lightSubs \in Nat
      /\ c # NoDev
  BY <1>1, <1>2, GatewayAssumption DEF TypeOK
<1>4. CASE Release(handle)
  <2> DEFINE f == [d \in Conn |-> IF d = controlFastDev
                                  THEN [handle[d] EXCEPT !.wired = 0] ELSE handle[d]]
  <2>1. /\ dataSubs' \in Nat /\ lightSubs' \in Nat
        /\ Retarget(NoDev, f)
    BY <1>3, <1>4 DEF Release
  <2>2. /\ f \in [Conn -> Handles]
        /\ \A d \in Conn : /\ f[d].imei = handle[d].imei
                           /\ f[d].cmds = handle[d].cmds
                           /\ f[d].timer = handle[d].timer
    BY <1>1 DEF TypeOK, Handles
  <2> HIDE DEF f
  <2>3. \A d \in Listed : f[d].timer => f[d].cmds # <<>>
    BY <1>1, <2>2 DEF TimerOwed
  <2>4. /\ handle' \in [Conn -> Handles]
        /\ posted' \in Seq(Emissions)
        /\ controlFastDev' \in Conn \cup {NoDev}
        /\ IndexAgrees' /\ FastDevWired' /\ TimerOwed'
        /\ Lifetimes' /\ Identities'
    BY <1>2, <2>1, <2>2, <2>3, RetargetInv
  <2>5. TypeOK'
    BY <1>1, <1>2, <2>1, <2>4 DEF TypeOK
  <2>6. QED
    BY <2>4, <2>5 DEF IInv
<1>5. CASE UNCHANGED <<handle, fastVars, posted>>
  <2>1. UNCHANGED <<handle, controlFastDev, dataSubs, lightSubs, posted>>
    BY <1>5 DEF fastVars
  <2>2. Listed' = Listed /\ Alive' = Alive
    BY <1>2, <2>1 DEF Listed, ListedIn, Alive, Owned
  <2>3. TypeOK'
    BY <1>1, <1>2, <2>1 DEF TypeOK
  <2>4. IndexAgrees' /\ FastDevWired'
    BY <1>1, <1>2, <2>1 DEF IndexAgrees, FastDevWired
  <2>5. TimerOwed' /\ Lifetimes'
    BY <1>1, <1>2, <2>1, <2>2 DEF TimerOwed, Lifetimes
  <2>6. controlFastDev = c =>
           \E d \in Listed \ {c} : handle[d].imei = handle[c].imei
    <3> SUFFICES ASSUME controlFastDev = c
                 PROVE  \E d \in Listed \ {c} : handle[d].imei = handle[c].imei
      OBVIOUS
    <3>1. handle[c].imei # NoImei
      BY <1>1, <1>3, GatewayAssumption DEF Identities
    <3>2. GetDevHandle(handle[c].imei) # c \/ Release(handle)
      BY <1>3, <3>1 DEF DevDisConnected, HandleVehicleStatus
    <3>3. ~ Release(handle)
      BY <1>3, <2>1, GatewayAssumption DEF Release, Retarget
    <3>4. QED
      BY <1>1, <1>2, <3>2, <3>3, MissedLookup
  <2>7. Identities'
    BY <1>1, <1>2, <2>1, <2>2, <2>6 DEF Identities
  <2>8. QED
    BY <2>3, <2>4, <2>5, <2>7 DEF IInv
<1>6. QED
  BY <1>4, <1>5 DEF DevDisConnected, HandleVehicleStatus

\* AddDev lists one connection more.
LEMMA Addition ==
    ASSUME TypeOK, NEW c \in Conn, AddDev(c)
    PROVE  Listed' = Listed \cup {c}
<1> DEFINE e == [sock |-> c, imei |-> NoImei]
<1>1. devList' = Append(devList, e) /\ devList \in Seq(DevInfos) /\ e \in DevInfos
  BY DEF AddDev, TypeOK, DevInfos
<1>2. e.sock = c
  OBVIOUS
<1> HIDE DEF e
<1>3. Len(devList) \in Nat /\ DOMAIN devList = 1 .. Len(devList)
  BY <1>1, LenProperties
<1>4. /\ devList' \in Seq(DevInfos)
      /\ Len(devList') = Len(devList) + 1
      /\ \A i \in DOMAIN devList : devList'[i] = devList[i]
      /\ devList'[Len(devList) + 1] = e
  BY <1>1, <1>3, AppendProperties
<1>5. DOMAIN devList' = DOMAIN devList \cup {Len(devList) + 1}
  <2>1. DOMAIN devList' = 1 .. (Len(devList) + 1)
    BY <1>4, LenProperties
  <2>2. QED
    BY <1>3, <2>1
<1>6. QED
  BY <1>2, <1>4, <1>5 DEF Listed, ListedIn

\* DelDev removes the entry of its connection and no other.
LEMMA Deletion ==
    ASSUME TypeOK, IndexAgrees, NEW c, DelDev(c)
    PROVE  /\ devList' \in Seq(DevInfos)
           /\ \A i, j \in DOMAIN devList' :
                 devList'[i].sock = devList'[j].sock => i = j
           /\ \A i \in DOMAIN devList' : \E k \in DOMAIN devList :
                 devList'[i] = devList[k]
           /\ Listed' = Listed \ {c}
<1>1. PICK i \in DOMAIN devList : /\ devList[i].sock = c
                                  /\ devList' = RemoveAt(devList, i)
  BY DEF DelDev
<1>2. /\ devList \in Seq(DevInfos)
      /\ Len(devList) \in Nat
      /\ DOMAIN devList = 1..Len(devList)
  BY LenProperties DEF TypeOK
<1>3. i \in 1..Len(devList) /\ i \in Nat
  BY <1>2
<1>4. /\ devList' \in Seq(DevInfos)
      /\ Len(devList') = Len(devList) - 1
      /\ \A j \in 1..(Len(devList) - 1) :
            devList'[j] = IF j < i THEN devList[j] ELSE devList[j+1]
  BY <1>1, <1>2, <1>3, Removal
<1>5. DOMAIN devList' = 1..(Len(devList) - 1)
  BY <1>4, LenProperties
<1> DEFINE old(j) == IF j < i THEN j ELSE j + 1
<1>6. ASSUME NEW j \in DOMAIN devList'
      PROVE  /\ j \in Nat
             /\ old(j) \in DOMAIN devList \ {i}
             /\ devList'[j] = devList[old(j)]
  BY <1>2, <1>3, <1>4, <1>5
<1>7. ASSUME NEW k \in DOMAIN devList, k # i
      PROVE  \E j \in DOMAIN devList' : devList'[j] = devList[k]
  <2>1. CASE k < i
    <3>1. k \in DOMAIN devList' /\ devList'[k] = devList[k]
      BY <1>2, <1>3, <1>4, <1>5, <2>1
    <3>2. QED
      BY <3>1
  <2>2. CASE k > i
    <3>1. k - 1 \in DOMAIN devList' /\ ~ (k - 1 < i) /\ (k - 1) + 1 = k
      BY <1>2, <1>3, <1>5, <2>2
    <3>2. devList'[k - 1] = devList[(k - 1) + 1]
      BY <1>4, <1>5, <3>1
    <3>3. QED
      BY <3>1, <3>2
  <2>3. QED
    BY <1>2, <1>3, <1>7, <2>1, <2>2
<1>8. \A j, k \in DOMAIN devList' : devList'[j].sock = devList'[k].sock => j = k
  <2> SUFFICES ASSUME NEW j \in DOMAIN devList', NEW k \in DOMAIN devList',
                      devList'[j].sock = devList'[k].sock
               PROVE  j = k
    OBVIOUS
  <2>1. old(j) = old(k)
    <3>1. devList[old(j)].sock = devList[old(k)].sock
      BY <1>6
    <3>2. old(j) \in DOMAIN devList /\ old(k) \in DOMAIN devList
      BY <1>6
    <3> HIDE DEF old
    <3>3. QED
      BY <3>1, <3>2 DEF IndexAgrees
  <2>2. j \in Nat /\ k \in Nat
    BY <1>6
  <2>3. QED
    BY <1>3, <2>1, <2>2
<1>9. Listed' = Listed \ {c}
  <2>1. Listed' \subseteq Listed \ {c}
    <3> SUFFICES ASSUME NEW j \in DOMAIN devList'
                 PROVE  devList'[j].sock \in Listed \ {c}
      BY DEF Listed, ListedIn
    <3>1. /\ old(j) \in DOMAIN devList
          /\ old(j) # i
          /\ devList'[j] = devList[old(j)]
      BY <1>6
    <3> HIDE DEF old
    <3>2. QED
      BY <1>1, <3>1 DEF IndexAgrees, Listed, ListedIn
  <2>2. Listed \ {c} \subseteq Listed'
    <3> SUFFICES ASSUME NEW k \in DOMAIN devList, devList[k].sock # c
                 PROVE  devList[k].sock \in Listed'
      BY DEF Listed, ListedIn
    <3>1. PICK j \in DOMAIN devList' : devList'[j] = devList[k]
      BY <1>1, <1>7
    <3>2. QED
      BY <3>1 DEF Listed, ListedIn
  <2>3. QED
    BY <2>1, <2>2
<1>10. \A j \in DOMAIN devList' : \E k \in DOMAIN devList : devList'[j] = devList[k]
  BY <1>6
<1>11. QED
  BY <1>4, <1>8, <1>9, <1>10

LEMMA DeleteInv ==
    ASSUME IInv, HandleDevDisConnected
    PROVE  IInv'
<1>1. /\ TypeOK /\ IndexAgrees /\ FastDevWired /\ TimerOwed
      /\ Lifetimes /\ Identities
      /\ Listed \subseteq Conn
  BY ListedType DEF IInv
<1> DEFINE keep == Owned(devList', controlFastDev, zmq.dev)
           f == [handle EXCEPT ![closing].cmds = <<>>]
<1>2. /\ closing # NoDev
      /\ DelDev(closing)
      /\ handle' = Surviving(f, keep)
      /\ posted' = Undelivered(keep)
      /\ closing' = NoDev
      /\ UNCHANGED <<controlFastDev, dataSubs, lightSubs, lastReqControlCmd, zmq,
                     reqs, awaiting>>
  BY DEF HandleDevDisConnected, fastVars
<1>3. /\ devList' \in Seq(DevInfos)
      /\ \A i, j \in DOMAIN devList' :
            devList'[i].sock = devList'[j].sock => i = j
      /\ \A i \in DOMAIN devList' : \E k \in DOMAIN devList : devList'[i] = devList[k]
      /\ Listed' = Listed \ {closing}
  BY <1>1, <1>2, Deletion
<1>4. closing \in Conn
  BY <1>1, <1>2 DEF TypeOK
<1>5. /\ f \in [Conn -> Handles]
      /\ \A d \in Conn : /\ d # closing => f[d] = handle[d]
                         /\ f[d].imei = handle[d].imei
                         /\ f[d].wired = handle[d].wired
                         /\ f[d].cmds # <<>> => handle[d].cmds # <<>>
  <2>1. <<>> \in Seq(Opts)
    BY EmptySeq
  <2>2. QED
    BY <1>1, <1>4, <2>1 DEF TypeOK, Handles
<1>6. /\ Alive' = keep
      /\ Listed' \subseteq keep
      /\ controlFastDev # NoDev => controlFastDev \in keep
  BY <1>2 DEF Alive, Owned, Listed
<1> HIDE DEF keep, f
<1>7. /\ handle' \in [Conn -> Handles]
      /\ \A c \in Conn : handle'[c] = IF c \in keep THEN f[c] ELSE NoHandle
  BY <1>2, <1>5, SurvivingType
<1>8. /\ posted' \in Seq(Emissions)
      /\ DOMAIN posted' = DOMAIN posted
      /\ \A i \in DOMAIN posted : posted'[i].rcv \subseteq keep
  BY <1>1, <1>2, UndeliveredType
<1>9. TypeOK'
  BY <1>1, <1>2, <1>3, <1>7, <1>8 DEF TypeOK
<1>10. \A c \in Listed' : handle'[c] = handle[c]
  BY <1>1, <1>3, <1>5, <1>6, <1>7
<1>11. IndexAgrees'
  <2>1. \A i \in DOMAIN devList' : devList'[i].sock \in Listed'
    BY DEF Listed, ListedIn
  <2>2. \A i \in DOMAIN devList' : devList'[i].imei = handle[devList'[i].sock].imei
    BY <1>1, <1>3 DEF IndexAgrees
  <2>3. QED
    BY <1>3, <1>10, <2>1, <2>2 DEF IndexAgrees
<1>12. FastDevWired'
  BY <1>1, <1>2, <1>5, <1>6, <1>7 DEF FastDevWired, TypeOK
<1>13. TimerOwed'
  BY <1>1, <1>3, <1>10 DEF TimerOwed
<1>14. Lifetimes'
  BY <1>1, <1>2, <1>6, <1>7, <1>8 DEF Lifetimes
<1>15. Identities'
  <2>1. ASSUME NEW c \in Conn, handle'[c].cmds # <<>>
        PROVE  handle'[c].imei \in Imei
    BY <1>1, <1>5, <1>7, <2>1 DEF Identities, NoHandle
  <2>2. controlFastDev # NoDev => handle'[controlFastDev].imei \in Imei
    BY <1>1, <1>5, <1>6, <1>7 DEF Identities, TypeOK
  <2>3. QED
    BY <1>2, <2>1, <2>2 DEF Identities
<1>16. QED
  BY <1>9, <1>11, <1>12, <1>13, <1>14, <1>15 DEF IInv

-----------------------------------------------------------------------------
(* Every step *)

LEMMA NextInv == IInv /\ [Next]_vars => IInv'
<1> SUFFICES ASSUME IInv, [Next]_vars
             PROVE  IInv'
  OBVIOUS
<1>1. CASE MainStep
  <2>1. ASSUME NEW c \in Conn, HandleNewConnect(c) PROVE IInv'
    BY <2>1, NewConnectInv
  <2>2. ASSUME NEW c \in Conn, NEW imei \in Imei, HandleAuth(c, imei) PROVE IInv'
    BY <2>2, AuthInv
  <2>3. ASSUME NEW c \in Conn, HandleReqControlCmdSlot(c) PROVE IInv'
    BY <2>3, CmdSlotInv
  <2>4. ASSUME NEW c \in Conn, NEW result \in {"RECV", "REJECT"},
               HandleRespControlCmd(c, result)
        PROVE  IInv'
    BY <2>4, RespInv
  <2>5. ASSUME NEW c \in Conn, ControlCmdTimeOutSlots(c) PROVE IInv'
    BY <2>5, TimeoutInv
  <2>6. ASSUME NEW c \in Conn, DevDisConnected(c) PROVE IInv'
    BY <2>6, DisconnectedInv
  <2>7. CASE Dequeue
    BY <2>7, DequeueInv
  <2>8. CASE HandleDevDisConnected
    BY <2>8, DeleteInv
  <2>9. QED
    BY <1>1, <2>1, <2>2, <2>3, <2>4, <2>5, <2>6, <2>7, <2>8 DEF MainStep
<1>2. CASE ZmqStep
  <2>1. ASSUME NEW imei \in Imei, NEW opt \in Opts,
               HandleZmqReqRemoteControl(imei, opt)
        PROVE  IInv'
    BY <2>1, ZmqLookupInv
  <2>2. CASE ZmqStoreLastReq
    BY <2>2, ZmqStoreInv
  <2>3. CASE ZmqEmit
    BY <2>3, ZmqEmitInv
  <2>4. QED
    BY <1>2, <2>1, <2>2, <2>3 DEF ZmqStep
<1>3. CASE UNCHANGED vars
  <2>1. UNCHANGED <<devList, handle, controlFastDev, dataSubs, lightSubs,
                    lastReqControlCmd, posted, zmq, closing, reqs, awaiting>>
    BY <1>3 DEF vars, fastVars
  <2>2. Listed' = Listed /\ Alive' = Alive
    BY <2>1 DEF Listed, ListedIn, Alive, Owned
  <2>3. TypeOK' /\ IndexAgrees' /\ FastDevWired'
    BY <2>1 DEF IInv, TypeOK, IndexAgrees, FastDevWired
  <2>4. TimerOwed' /\ Lifetimes' /\ Identities'
    BY <2>1, <2>2 DEF IInv, TimerOwed, Lifetimes, Identities
  <2>5. QED
    BY <2>3, <2>4 DEF IInv
<1>4. QED
  BY <1>1, <1>2, <1>3 DEF Next

\* The strengthened invariant holds throughout every behaviour.
THEOREM Invariance == Spec => []IInv
<1>1. Init => IInv
  BY InitInv
<1>2. IInv /\ [Next]_vars => IInv'
  BY NextInv
<1>3. QED
  BY <1>1, <1>2, PTL DEF Spec

\* Every variable keeps its type: in particular no interleaving of grants,
\* releases and lost connections drives the subscription counts below zero.
THEOREM TypeCorrect == Spec => []TypeOK
<1>1. IInv => TypeOK
  BY DEF IInv
<1>2. QED
  BY <1>1, Invariance, PTL

\* DevManage's list agrees with the handles, however vehicles reconnect.
THEOREM IndexCorrect == Spec => []IndexAgrees
<1>1. IInv => IndexAgrees
  BY DEF IInv
<1>2. QED
  BY <1>1, Invariance, PTL

\* A vehicle held under control is subscribed for and connected.
THEOREM ControlWired == Spec => []FastDevWired
<1>1. IInv => FastDevWired
  BY DEF IInv
<1>2. QED
  BY <1>1, Invariance, PTL

\* Only vehicles that owe an answer, or are gone, can time out.
THEOREM TimeoutsOwed == Spec => []TimerOwed
<1>1. IInv => TimerOwed
  BY DEF IInv
<1>2. QED
  BY <1>1, Invariance, PTL

\* Only the end of DevDisConnected takes a connection out of the list.
LEMMA ListedKept ==
    ASSUME TypeOK, [Next]_vars, ~ HandleDevDisConnected
    PROVE  Listed \subseteq ListedIn(devList')
<1>1. CASE devList' = devList
  BY <1>1 DEF Listed
<1>2. ASSUME NEW c \in Conn, AddDev(c)
      PROVE  Listed \subseteq ListedIn(devList')
  <2>1. devList \in Seq(DevInfos) /\ [sock |-> c, imei |-> NoImei] \in DevInfos
    BY DEF TypeOK, DevInfos
  <2>2. /\ Len(devList) \in Nat
        /\ DOMAIN devList = 1..Len(devList)
        /\ devList' \in Seq(DevInfos)
        /\ Len(devList') = Len(devList) + 1
        /\ \A i \in 1..Len(devList) : devList'[i] = devList[i]
    BY <1>2, <2>1, AppendProperties, LenProperties DEF AddDev
  <2>3. DOMAIN devList' = 1..(Len(devList) + 1)
    BY <2>2, LenProperties
  <2>4. QED
    BY <2>2, <2>3 DEF Listed, ListedIn
<1>3. ASSUME NEW c \in Conn, NEW imei \in Imei, UpdateDev(c, imei)
      PROVE  Listed \subseteq ListedIn(devList')
  <2>1. /\ Len(devList) \in Nat
        /\ DOMAIN devList = 1..Len(devList)
        /\ \A i \in DOMAIN devList : devList[i] \in DevInfos
    BY LenProperties, ElementOfSeq DEF TypeOK
  <2>2. /\ DOMAIN devList' = DOMAIN devList
        /\ \A i \in DOMAIN devList : devList'[i].sock = devList[i].sock
    BY <1>3, <2>1 DEF UpdateDev, DevInfos
  <2>3. QED
    BY <2>2 DEF Listed, ListedIn
<1>4. CASE MainStep
  BY <1>1, <1>2, <1>3, <1>4
     DEF MainStep, HandleNewConnect, HandleAuth, HandleReqControlCmdSlot,
         HandleRespControlCmd, ControlCmdTimeOutSlots, DevDisConnected, Dequeue
<1>5. CASE ZmqStep
  BY <1>1, <1>5 DEF ZmqStep, HandleZmqReqRemoteControl, ZmqStoreLastReq, ZmqEmit
<1>6. CASE UNCHANGED vars
  BY <1>1, <1>6 DEF vars
<1>7. QED
  BY <1>4, <1>5, <1>6 DEF Next

\* A lost connection takes remote control with it, unless the same vehicle has
\* a second connection.
THEOREM ControlLost == Spec => LossEndsControl
<1> DEFINE Step ==
        \A c \in Listed \ ListedIn(devList') :
           controlFastDev' = c =>
              \E d \in Listed \ {c} : handle[d].imei = handle[c].imei
<1>1. IInv /\ [Next]_vars => [Step]_vars
  <2> SUFFICES ASSUME IInv, [Next]_vars
               PROVE  Step
    OBVIOUS
  <2>1. CASE HandleDevDisConnected
    <3>1. /\ TypeOK /\ IndexAgrees /\ Identities
          /\ closing # NoDev
          /\ DelDev(closing)
          /\ controlFastDev' = controlFastDev
      BY <2>1 DEF IInv, HandleDevDisConnected, fastVars
    <3>2. Listed' = Listed \ {closing}
      BY <3>1, Deletion
    <3>3. Listed \ ListedIn(devList') \subseteq {closing}
      BY <3>2 DEF Listed
    <3>4. QED
      BY <3>1, <3>3 DEF Identities
  <2>2. CASE ~ HandleDevDisConnected
    BY <2>2, ListedKept DEF IInv
  <2>3. QED
    BY <2>1, <2>2
<1> HIDE DEF Step
<1>2. Spec => [][Step]_vars
  BY <1>1, Invariance, PTL DEF Spec
<1>3. QED
  BY <1>2 DEF Step, LossEndsControl

\* Destroying handles other than c keeps what c owes.
LEMMA SurvivorOwes ==
    ASSUME TypeOK, NEW c \in Conn, NEW imei \in Imei, Owes(c, imei),
           NEW f \in [Conn -> Handles],
           f[c].timer = handle[c].timer, f[c].imei = handle[c].imei,
           NEW keep, c \in keep,
           handle' = Surviving(f, keep), posted' = Undelivered(keep)
    PROVE  handle'[c].imei = imei /\ (handle'[c].timer \/ PostedTo(c, imei)')
<1>1. handle'[c] = f[c]
  BY SurvivingType
<1>2. PostedTo(c, imei) => PostedTo(c, imei)'
  <2> SUFFICES ASSUME NEW i \in DOMAIN posted, posted[i].imei = imei, c \in posted[i].rcv
               PROVE  PostedTo(c, imei)'
    BY DEF PostedTo
  <2>1. posted[i] \in Emissions
    BY LenProperties, ElementOfSeq DEF TypeOK
  <2>2. i \in DOMAIN posted' /\ posted'[i] = [posted[i] EXCEPT !.rcv = @ \cap keep]
    BY DEF Undelivered
  <2>3. posted'[i].imei = imei /\ c \in posted'[i].rcv
    BY <2>1, <2>2 DEF Emissions
  <2>4. QED
    BY <2>2, <2>3 DEF PostedTo
<1>3. QED
  BY <1>1, <1>2 DEF Owes

\* So does a change of controlFastDev.
LEMMA RetargetOwes ==
    ASSUME TypeOK, NEW c \in Conn, NEW imei \in Imei, Owes(c, imei),
           NEW f \in [Conn -> Handles],
           f[c].timer = handle[c].timer, f[c].imei = handle[c].imei,
           NEW d, Retarget(d, f)
    PROVE  handle'[c].imei = imei /\ (handle'[c].timer \/ PostedTo(c, imei)')
<1> DEFINE keep == Owned(devList, d, zmq.dev)
<1>1. c \in keep
  BY DEF Owes, Owned, Listed
<1>2. handle' = Surviving(f, keep) /\ posted' = Undelivered(keep)
  BY DEF Retarget
<1> HIDE DEF keep
<1>3. QED
  BY <1>1, <1>2, SurvivorOwes

\* The end of remote control, and an answer of another vehicle.
LEMMA ReleaseOwes ==
    ASSUME TypeOK, NEW c \in Conn, NEW imei \in Imei, Owes(c, imei),
           NEW g \in [Conn -> Handles],
           g[c].timer = handle[c].timer, g[c].imei = handle[c].imei,
           Release(g)
    PROVE  handle'[c].imei = imei /\ (handle'[c].timer \/ PostedTo(c, imei)')
<1> DEFINE f == [x \in Conn |-> IF x = controlFastDev THEN [g[x] EXCEPT !.wired = 0]
                                                      ELSE g[x]]
<1>1. f \in [Conn -> Handles]
  BY DEF Handles
<1>2. f[c].timer = handle[c].timer /\ f[c].imei = handle[c].imei
  BY DEF Handles
<1>3. Retarget(NoDev, f)
  BY DEF Release
<1> HIDE DEF f
<1>4. QED
  BY <1>1, <1>2, <1>3, RetargetOwes

LEMMA ResultOwes ==
    ASSUME TypeOK, NEW c \in Conn, NEW imei \in Imei, Owes(c, imei),
           NEW g \in [Conn -> Handles],
           g[c].timer = handle[c].timer, g[c].imei = handle[c].imei,
           NEW other, NEW result, HandleReqControlCmdResult(other, result, g)
    PROVE  handle'[c].imei = imei /\ (handle'[c].timer \/ PostedTo(c, imei)')
<1>1. CASE Release(g)
  BY <1>1, ReleaseOwes
<1>2. CASE Grant(other, g)
  <2> DEFINE d == GetDevHandle(other)
             f == [x \in Conn |-> IF x = d THEN [g[x] EXCEPT !.wired = @ + 1] ELSE g[x]]
  <2>1. Retarget(d, f)
    BY <1>2 DEF Grant
  <2> HIDE DEF d
  <2>2. f \in [Conn -> Handles]
    <3> SUFFICES ASSUME NEW x \in Conn PROVE f[x] \in Handles
      OBVIOUS
    <3> DEFINE h == g[x]
    <3>1. h \in Handles /\ f[x] \in {h, [h EXCEPT !.wired = @ + 1]}
      OBVIOUS
    <3> HIDE DEF h, f
    <3> DEFINE w == h.wired + 1
    <3>2. w \in Nat
      BY <3>1 DEF Handles
    <3> HIDE DEF w
    <3>3. [h EXCEPT !.wired = w] \in Handles
      BY <3>1, <3>2 DEF Handles
    <3> QED
      BY <3>1, <3>3 DEF w
  <2>3. f[c].timer = handle[c].timer /\ f[c].imei = handle[c].imei
    BY DEF Handles
  <2> HIDE DEF f
  <2>4. QED
    BY <2>1, <2>2, <2>3, RetargetOwes
<1>3. QED
  BY <1>1, <1>2 DEF HandleReqControlCmdResult

\* A request posted to the connection of its vehicle is not forgotten: until
\* the vehicle is answered for or its connection goes, the request is to be
\* delivered or reqControlCmdTimer runs.
THEOREM RequestsKept == Spec => RequestKept
<1> DEFINE Kept == \A c \in Conn, imei \in Imei :
                      Owes(c, imei) /\ imei \in awaiting =>
                         Owes(c, imei)' \/ imei \notin awaiting' \/ c \notin Listed'
<1>1. IInv /\ [Next]_vars => [Kept]_vars
  <2> SUFFICES ASSUME IInv, Next, NEW c \in Conn, NEW imei \in Imei,
                      Owes(c, imei), imei \in awaiting, imei \in awaiting', c \in Listed'
               PROVE  Owes(c, imei)'
    OBVIOUS
  <2> SUFFICES handle'[c].imei = imei /\ (handle'[c].timer \/ PostedTo(c, imei)')
    BY DEF Owes
  <2>0. /\ TypeOK /\ handle \in [Conn -> Handles] /\ handle[c] \in Handles
        /\ c \in Listed /\ handle[c].imei = imei /\ imei # NoImei
        /\ posted \in Seq(Emissions)
    BY GatewayAssumption DEF IInv, TypeOK, Owes
  <2>1. CASE UNCHANGED <<handle, posted>>
    BY <2>1 DEF Owes, PostedTo
  <2>2. ASSUME NEW o \in Conn, NEW other \in Imei, HandleAuth(o, other)
        PROVE  handle'[c].imei = imei /\ (handle'[c].timer \/ PostedTo(c, imei)')
    <3>1. handle'[c].timer = handle[c].timer
          /\ (o = c => handle'[c].imei = other /\ imei \in {NoImei, other})
          /\ (o # c => handle'[c].imei = imei)
      BY <2>0, <2>2 DEF HandleAuth, Handles
    <3>2. PostedTo(c, imei)' = PostedTo(c, imei)
      BY <2>2 DEF HandleAuth, PostedTo
    <3>3. QED
      BY <2>0, <3>1, <3>2 DEF Owes
  <2>3. ASSUME NEW o \in Conn, HandleReqControlCmdSlot(o)
        PROVE  handle'[c].imei = imei /\ (handle'[c].timer \/ PostedTo(c, imei)')
    <3>1. handle'[c].imei = imei /\ (handle[c].timer => handle'[c].timer)
      <4>1. \/ handle' = handle
            \/ \E cs : handle' = [handle EXCEPT ![o].timer = TRUE, ![o].cmds = cs]
        BY <2>3 DEF HandleReqControlCmdSlot
      <4>2. ASSUME NEW cs,
                   handle' = [handle EXCEPT ![o].timer = TRUE, ![o].cmds = cs]
            PROVE  /\ handle'[c].imei = handle[c].imei
                   /\ handle[c].timer => handle'[c].timer
        <5>1. CASE c = o
          BY <2>0, <4>2, <5>1 DEF Handles
        <5>2. CASE c # o
          BY <2>0, <4>2, <5>2
        <5>3. QED
          BY <5>1, <5>2
      <4>3. QED
        BY <2>0, <4>1, <4>2
    <3>2. ASSUME NEW i \in DOMAIN posted, posted[i].imei = imei, c \in posted[i].rcv
          PROVE  handle'[c].timer \/ PostedTo(c, imei)'
      <4>1. /\ posted[i] \in Emissions /\ DOMAIN posted = 1..Len(posted)
            /\ Head(posted) = posted[1]
        BY <2>0, <2>3, LenProperties, ElementOfSeq DEF HandleReqControlCmdSlot
      <4>2. posted' = [posted EXCEPT ![1].rcv = @ \ {o}]
        BY <2>3 DEF HandleReqControlCmdSlot
      <4>3. CASE i = 1 /\ o = c
        <5>1. handle[c].imei = Head(posted).imei
          BY <2>0, <3>2, <4>1, <4>3
        <5>2. \E cs : handle' = [handle EXCEPT ![c].timer = TRUE, ![c].cmds = cs]
          BY <2>3, <4>3, <5>1 DEF HandleReqControlCmdSlot
        <5>3. handle'[c].timer
          BY <2>0, <5>2 DEF Handles
        <5>4. QED
          BY <5>3
      <4>4. CASE ~ (i = 1 /\ o = c)
        <5>1. i \in DOMAIN posted' /\ posted'[i].imei = imei /\ c \in posted'[i].rcv
          BY <3>2, <4>1, <4>2, <4>4 DEF Emissions
        <5>2. QED
          BY <5>1 DEF PostedTo
      <4>5. QED
        BY <4>3, <4>4
    <3>3. QED
      BY <3>1, <3>2 DEF Owes, PostedTo
  <2>4. ASSUME NEW o \in Conn, NEW result \in {"RECV", "REJECT"},
               HandleRespControlCmd(o, result)
        PROVE  handle'[c].imei = imei /\ (handle'[c].timer \/ PostedTo(c, imei)')
    <3> DEFINE g == [handle EXCEPT ![o].timer = FALSE,
                                   ![o].cmds = Tail(@),
                                   ![o].acked = IF result = "RECV" THEN Head(handle[o].cmds)
                                                                   ELSE @]
    <3>1. o # c
      BY <2>0, <2>4 DEF HandleRespControlCmd
    <3>2. HandleReqControlCmdResult(handle[o].imei, result, g)
      BY <2>4 DEF HandleRespControlCmd
    <3>3. g \in [Conn -> Handles]
      <4>1. handle[o] \in Handles /\ handle[o].cmds \in Seq(Opts) /\ handle[o].cmds # <<>>
        BY <2>0, <2>4 DEF HandleRespControlCmd, Handles
      <4>2. Tail(handle[o].cmds) \in Seq(Opts) /\ Head(handle[o].cmds) \in Opts
        BY <4>1, HeadTailProperties
      <4>3. QED
        BY <2>0, <4>1, <4>2 DEF Handles
    <3>4. g[c] = handle[c]
      BY <2>0, <3>1
    <3> HIDE DEF g
    <3>5. QED
      BY <2>0, <3>2, <3>3, <3>4, ResultOwes
  <2>5. ASSUME NEW o \in Conn, ControlCmdTimeOutSlots(o)
        PROVE  handle'[c].imei = imei /\ (handle'[c].timer \/ PostedTo(c, imei)')
    <3> DEFINE g == [handle EXCEPT ![o].timer = FALSE]
    <3>1. o # c
      <4>1. c \in Owned(devList, NoDev, zmq.dev)
        BY <2>0 DEF Owned, Listed
      <4>2. QED
        BY <2>0, <2>5, <4>1 DEF ControlCmdTimeOutSlots
    <3>2. HandleReqControlCmdResult(handle[o].imei, "TIMEOUT", g)
      BY <2>5 DEF ControlCmdTimeOutSlots
    <3>3. g \in [Conn -> Handles] /\ g[c] = handle[c]
      BY <2>0, <3>1 DEF Handles
    <3> HIDE DEF g
    <3>4. QED
      BY <2>0, <3>2, <3>3, ResultOwes
  <2>6. ASSUME NEW o \in Conn, DevDisConnected(o)
        PROVE  handle'[c].imei = imei /\ (handle'[c].timer \/ PostedTo(c, imei)')
    <3>1. CASE Release(handle)
      BY <2>0, <3>1, ReleaseOwes
    <3>2. QED
      BY <2>1, <2>6, <3>1 DEF DevDisConnected, HandleVehicleStatus
  <2>7. CASE Dequeue
    <3>1. /\ handle' = handle /\ posted # <<>> /\ posted' = Tail(posted)
          /\ Head(posted).rcv = {}
      BY <2>7 DEF Dequeue
    <3>2. ASSUME NEW i \in DOMAIN posted, posted[i].imei = imei, c \in posted[i].rcv
          PROVE  PostedTo(c, imei)'
      <4>1. DOMAIN posted = 1..Len(posted) /\ Len(posted) \in Nat /\ Head(posted) = posted[1]
        BY <2>0, <3>1, LenProperties
      <4>2. /\ posted' \in Seq(Emissions) /\ Len(posted') = Len(posted) - 1
            /\ \A j \in 1..Len(posted') : posted'[j] = posted[j+1]
        BY <2>0, <3>1, HeadTailProperties
      <4>3. i # 1
        BY <3>1, <3>2, <4>1
      <4>4. i - 1 \in 1..Len(posted') /\ (i - 1) + 1 = i
        BY <4>1, <4>2, <4>3
      <4>5. i - 1 \in DOMAIN posted' /\ posted'[i-1] = posted[i]
        BY <4>2, <4>4, LenProperties
      <4>6. QED
        BY <3>2, <4>5 DEF PostedTo
    <3>3. QED
      BY <2>0, <3>1, <3>2 DEF Owes, PostedTo
  <2>8. CASE HandleDevDisConnected
    <3> DEFINE keep == Owned(devList', controlFastDev, zmq.dev)
               f == [handle EXCEPT ![closing].cmds = <<>>]
    <3>1. c \in keep
      BY DEF Owned, Listed
    <3>2. f \in [Conn -> Handles] /\ f[c].timer = handle[c].timer /\ f[c].imei = handle[c].imei
      <4>1. <<>> \in Seq(Opts)
        BY EmptySeq
      <4>2. QED
        BY <2>0, <4>1 DEF Handles
    <3>3. handle' = Surviving(f, keep) /\ posted' = Undelivered(keep)
      BY <2>8 DEF HandleDevDisConnected
    <3> HIDE DEF keep, f
    <3>4. QED
      BY <2>0, <3>1, <3>2, <3>3, SurvivorOwes
  <2>9. CASE ZmqEmit
    <3> DEFINE keep == Owned(devList, controlFastDev, NoDev)
               e == [imei |-> zmq.imei, opt |-> zmq.opt, rcv |-> keep]
               u == Undelivered(keep)
    <3>1. c \in keep
      BY <2>0 DEF Owned, Listed
    <3>2. handle' = Surviving(handle, keep) /\ posted' = Append(u, e)
      BY <2>9 DEF ZmqEmit
    <3>3. /\ u \in Seq(Emissions) /\ DOMAIN u = DOMAIN posted
      <4> HIDE DEF keep
      <4>1. QED
        BY <2>0, UndeliveredType
    <3>4. handle'[c] = handle[c]
      <4> HIDE DEF keep
      <4>1. QED
        BY <2>0, <3>1, <3>2, SurvivingType
    <3>5. ASSUME NEW i \in DOMAIN posted, posted[i].imei = imei, c \in posted[i].rcv
          PROVE  PostedTo(c, imei)'
      <4>1. posted[i] \in Emissions
        BY <2>0, LenProperties, ElementOfSeq
      <4>2. u[i] = [posted[i] EXCEPT !.rcv = @ \cap keep]
        BY DEF Undelivered
      <4>3. u[i].imei = imei /\ c \in u[i].rcv
        BY <3>1, <3>5, <4>1, <4>2 DEF Emissions
      <4> HIDE DEF u, e
      <4>4. i \in DOMAIN Append(u, e) /\ Append(u, e)[i] = u[i]
        <5>1. DOMAIN u = 1..Len(u) /\ Len(u) \in Nat /\ i \in 1..Len(u)
          BY <3>3, LenProperties
        <5>2. QED
          BY <5>1, <3>3
      <4>5. QED
        BY <3>2, <4>3, <4>4 DEF PostedTo
    <3>6. QED
      BY <2>0, <3>4, <3>5 DEF Owes, PostedTo
  <2>10. CASE MainStep
    BY <2>1, <2>2, <2>3, <2>4, <2>5, <2>6, <2>7, <2>8, <2>10 DEF MainStep, HandleNewConnect
  <2>11. CASE ZmqStep
    BY <2>1, <2>9, <2>11 DEF ZmqStep, HandleZmqReqRemoteControl, ZmqStoreLastReq
  <2>12. QED
    BY <2>10, <2>11 DEF Next
<1> HIDE DEF Kept
<1>2. Spec => [][Kept]_vars
  BY <1>1, Invariance, PTL DEF Spec
<1>3. QED
  BY <1>2 DEF Kept, RequestKept
==============================================================================
