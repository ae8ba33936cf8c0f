---------------------------- MODULE WorkSiteProofs ---------------------------
(***************************************************************************)
(* Proofs about WorkSite, for every set of trucks, every number of reports *)
(* and commands, every RESEND_TIMEVAL and any number of timers: what the   *)
(* link promises of a kept message, and what the queue says of a truck.    *)
(***************************************************************************)
EXTENDS WorkSite, TLAPS

-----------------------------------------------------------------------------
(* The link *)

\* Every kept message has a timer that is due before it has waited twice
\* RESEND_TIMEVAL: ResentInTime alone is not inductive.  The timer is set by
\* the age, which is no less than the wait unless the clock was set back.
Timely ==
    ~ setBack =>
        \A id \in pending :
            /\ waited[id] <= age[id]
            /\ \E t \in armed : waited[id] + left[t] <= 2 * RESEND_TIMEVAL

\* Of a message that was sent alone all datagrams under way are copies, so
\* that an answer is one to it.
OnlyCopies ==
    \A id \in alone :
        /\ \A d \in sent : d[1] = id => d[2] = newest[id]
        /\ id \in acks => id \in arrived

LinkInv == Link!TypeOK /\ Timely /\ OnlyCopies /\ KeptUntilArrived

LEMMA LinkInit == Link!Init => LinkInv
<1> SUFFICES ASSUME Link!Init PROVE LinkInv OBVIOUS
<1> USE DEF Link!Init
<1>1. Link!TypeOK
  <2>1. left \in [Timers -> 0 .. RESEND_TIMEVAL] BY WorkSiteAssumption
  <2>2. age \in [Ids -> Int] /\ waited \in [Ids -> Nat] OBVIOUS
  <2>3. newest \in [Ids -> Msgs \cup {NoMsg}] OBVIOUS
  <2> QED BY <2>1, <2>2, <2>3 DEF Link!TypeOK
<1> QED
  BY <1>1 DEF LinkInv, Timely, OnlyCopies, KeptUntilArrived, Link!KeptUntilArrived

\* Starting a timer.
LEMMA Shot ==
    ASSUME Link!TypeOK, NEW t \in Timers, NEW v \in Int, v <= RESEND_TIMEVAL,
           Link!SingleShot(t, v)
    PROVE  /\ armed' \subseteq Timers
           /\ left' \in [Timers -> 0 .. RESEND_TIMEVAL]
           /\ v >= 0 => /\ t \in armed' /\ armed \subseteq armed'
                        /\ left'[t] = IF v = 0 THEN 1 ELSE v
                        /\ \A u \in Timers \ {t} : left'[u] = left[u]
<1>0. /\ armed \subseteq Timers /\ left \in [Timers -> 0 .. RESEND_TIMEVAL]
      /\ RESEND_TIMEVAL \in Nat /\ RESEND_TIMEVAL >= 1
  BY WorkSiteAssumption DEF Link!TypeOK
<1>1. CASE v < 0 BY <1>0, <1>1 DEF Link!SingleShot
<1>2. CASE v >= 0 BY <1>0, <1>2 DEF Link!SingleShot
<1> QED BY <1>1, <1>2

LEMMA FreeTimerIsFree ==
    ASSUME Link!TypeOK, armed # Timers
    PROVE  Link!FreeTimer \in Timers \ armed
BY DEF Link!TypeOK, Link!FreeTimer

LEMMA SendTypeOK ==
    ASSUME Link!TypeOK, NEW id \in Ids, NEW m \in Msgs, Link!Send(id, m)
    PROVE  Link!TypeOK'
<1>1. armed' \subseteq Timers /\ left' \in [Timers -> 0 .. RESEND_TIMEVAL]
  <2>1. CASE pending \subseteq {id}
    <3>1. armed # Timers /\ Link!SingleShot(Link!FreeTimer, RESEND_TIMEVAL)
      BY <2>1 DEF Link!Send, Link!ArmIfOnly
    <3>2. RESEND_TIMEVAL \in Int /\ RESEND_TIMEVAL <= RESEND_TIMEVAL
      BY WorkSiteAssumption
    <3> QED BY <3>1, <3>2, FreeTimerIsFree, Shot
  <2>2. CASE ~ (pending \subseteq {id})
    BY <2>2 DEF Link!Send, Link!ArmIfOnly, Link!clocks, Link!TypeOK
  <2> QED BY <2>1, <2>2
<1>2. /\ sent' \subseteq Ids \X Msgs
      /\ newest' \in [Ids -> Msgs \cup {NoMsg}]
      /\ age' \in [Ids -> Int] /\ waited' \in [Ids -> Nat]
      /\ clockSet' \in BOOLEAN /\ setBack' \in BOOLEAN
      /\ pending' \subseteq Ids
      /\ acks' \subseteq Ids /\ arrived' \subseteq Ids /\ alone' \subseteq Ids
  BY DEF Link!TypeOK, Link!Send
<1>3. \A i \in pending' : newest'[i] \in Msgs
  BY DEF Link!TypeOK, Link!Send
<1> QED BY <1>1, <1>2, <1>3 DEF Link!TypeOK

\* If the message is the only one a timer is started for it; otherwise the
\* timer of another one serves, whenever it is due.
LEMMA SendTimely ==
    ASSUME Link!TypeOK, Timely, NEW id \in Ids, NEW m \in Msgs, Link!Send(id, m)
    PROVE  Timely'
<1>0. /\ pending' = pending \cup {id}
      /\ age'[id] = 0 /\ waited'[id] = 0
      /\ \A i \in pending \ {id} : age'[i] = age[i] /\ waited'[i] = waited[i]
      /\ \A i \in pending : waited[i] \in Nat
  BY DEF Link!Send, Link!TypeOK
<1>1. CASE pending \subseteq {id}
  <2>1. armed # Timers /\ Link!SingleShot(Link!FreeTimer, RESEND_TIMEVAL)
    BY <1>1 DEF Link!Send, Link!ArmIfOnly
  <2>2. /\ RESEND_TIMEVAL \in Int /\ RESEND_TIMEVAL <= RESEND_TIMEVAL
        /\ RESEND_TIMEVAL > 0
    BY WorkSiteAssumption
  <2>3. /\ Link!FreeTimer \in armed'
        /\ left'[Link!FreeTimer] = RESEND_TIMEVAL
    BY <2>1, <2>2, FreeTimerIsFree, Shot
  <2>4. pending' = {id} BY <1>0, <1>1
  <2>5. waited'[id] + left'[Link!FreeTimer] <= 2 * RESEND_TIMEVAL
    BY <1>0, <2>3, WorkSiteAssumption
  <2>6. waited'[id] <= age'[id] BY <1>0
  <2> QED BY <2>3, <2>4, <2>5, <2>6 DEF Timely
<1>2. CASE ~ (pending \subseteq {id})
  <2>0. armed' = armed /\ left' = left
    BY <1>2 DEF Link!Send, Link!ArmIfOnly, Link!clocks
  <2> SUFFICES ASSUME ~ setBack' PROVE Timely'
    BY DEF Timely
  <2>1. ~ setBack BY <1>2 DEF Link!Send
  <2>2. PICK j \in pending \ {id} : TRUE BY <1>2
  <2>3. PICK t \in armed : waited[j] + left[t] <= 2 * RESEND_TIMEVAL
    BY <2>1, <2>2 DEF Timely
  <2>4. left[t] \in 0 .. RESEND_TIMEVAL BY <2>3 DEF Link!TypeOK
  <2>5. waited'[id] + left'[t] <= 2 * RESEND_TIMEVAL
    BY <1>0, <2>0, <2>4, WorkSiteAssumption
  <2>6. waited'[id] <= age'[id] BY <1>0
  <2>7. ASSUME NEW i \in pending \ {id}
        PROVE  /\ waited'[i] <= age'[i]
               /\ \E u \in armed' : waited'[i] + left'[u] <= 2 * RESEND_TIMEVAL
    BY <1>0, <2>0, <2>1 DEF Timely
  <2> QED BY <1>0, <2>0, <2>3, <2>5, <2>6, <2>7 DEF Timely
<1> QED BY <1>1, <1>2

LEMMA SendKept ==
    ASSUME LinkInv, NEW id \in Ids, NEW m \in Msgs, Link!Send(id, m)
    PROVE  OnlyCopies' /\ KeptUntilArrived'
<1> SUFFICES ASSUME NEW i \in alone'
             PROVE  /\ \A d \in sent' : d[1] = i => d[2] = newest'[i]
                    /\ i \in acks' => i \in arrived'
                    /\ i \in pending' \/ i \in arrived'
  BY DEF OnlyCopies, KeptUntilArrived, Link!KeptUntilArrived
<1>0. i \in Ids BY SendTypeOK DEF LinkInv, Link!TypeOK
<1>1. CASE i = id
  <2>1. id \notin acks /\ \A d \in sent : d[1] # id
    BY <1>1 DEF Link!Send
  <2> QED BY <1>1, <2>1 DEF Link!Send, LinkInv, Link!TypeOK
<1>2. CASE i # id
  <2>1. i \in alone BY <1>2 DEF Link!Send
  <2> QED BY <1>2, <2>1 DEF Link!Send, LinkInv, Link!TypeOK, OnlyCopies,
                            KeptUntilArrived, Link!KeptUntilArrived
<1> QED BY <1>1, <1>2

LEMMA SendInv ==
    ASSUME LinkInv, NEW id \in Ids, NEW m \in Msgs, Link!Send(id, m)
    PROVE  LinkInv'
BY SendTypeOK, SendTimely, SendKept DEF LinkInv

\* An answer to a message that was sent alone: it has arrived.
LEMMA AckInv ==
    ASSUME LinkInv, NEW id \in Ids, Link!G2hComAckDeal(id)
    PROVE  LinkInv'
<1> USE DEF LinkInv, Link!G2hComAckDeal, Link!RemoveReSendMsg
<1>1. Link!TypeOK'
  <2>0. setBack' \in BOOLEAN
    <3>1. setBack' = setBack \/ setBack' = (setBack /\ ~ (pending \subseteq {id}))
      BY DEF Link!delay
    <3> QED BY <3>1 DEF Link!TypeOK
  <2>1. age' \in [Ids -> Int] /\ waited' \in [Ids -> Nat]
    BY DEF Link!TypeOK, Link!delay
  <2>2. pending' \subseteq pending /\ acks' \subseteq Ids BY DEF Link!TypeOK
  <2>3. UNCHANGED <<newest, clockSet, armed, left, sent, arrived, alone>>
    BY DEF Link!clocks, Link!history
  <2> QED BY <2>0, <2>1, <2>2, <2>3 DEF Link!TypeOK
<1>2. Timely'
  <2>1. /\ armed' = armed /\ left' = left /\ pending' \subseteq pending
        /\ \A i \in pending' : age'[i] = age[i] /\ waited'[i] = waited[i]
    BY DEF Link!TypeOK, Link!clocks, Link!delay
  <2>2. ~ setBack' /\ pending' # {} => ~ setBack BY DEF Link!delay
  <2> QED BY <2>1, <2>2 DEF Timely
<1>3. OnlyCopies' BY DEF OnlyCopies, Link!history
<1>4. KeptUntilArrived'
  BY DEF OnlyCopies, KeptUntilArrived, Link!KeptUntilArrived, Link!history
<1> QED BY <1>1, <1>2, <1>3, <1>4

LEMMA TimeoutInv ==
    ASSUME LinkInv, NEW t \in Timers, Link!TimeoutReSendMsgSlot(t)
    PROVE  LinkInv'
<1> USE DEF LinkInv
<1>0. /\ t \in armed
      /\ UNCHANGED <<pending, newest, clockSet, acks, setBack, arrived, alone>>
  BY DEF Link!TimeoutReSendMsgSlot, Link!history
<1>1. CASE pending = {}
  <2>0. armed' = armed \ {t} /\ UNCHANGED <<age, waited, left, sent>>
    BY <1>1 DEF Link!TimeoutReSendMsgSlot
  <2>1. Link!TypeOK' BY <1>0, <2>0 DEF Link!TypeOK
  <2>2. Timely' BY <1>0, <1>1 DEF Timely
  <2>3. OnlyCopies' /\ KeptUntilArrived'
    BY <1>0, <2>0 DEF OnlyCopies, KeptUntilArrived, Link!KeptUntilArrived
  <2> QED BY <2>1, <2>2, <2>3
<1>2. CASE pending # {}
  <2>0. Link!Due \subseteq pending /\ Link!Due \subseteq Ids
    BY DEF Link!Due, Link!TypeOK
  <2>1. PICK v \in {RESEND_TIMEVAL} \cup {age[id] : id \in pending \ Link!Due} :
           Link!NextVal(v) /\ Link!SingleShot(t, v)
    BY <1>2 DEF Link!TimeoutReSendMsgSlot
  <2>v. v \in Int /\ v <= RESEND_TIMEVAL
    BY <2>0, <2>1, WorkSiteAssumption DEF Link!NextVal, Link!TypeOK
  <2>2. /\ sent' = sent \cup {<<id, newest[id]>> : id \in Link!Due}
        /\ age' = [id \in Ids |-> IF id \in Link!Due THEN 0 ELSE age[id]]
        /\ waited' = [id \in Ids |-> IF id \in Link!Due THEN 0 ELSE waited[id]]
    BY <1>2 DEF Link!TimeoutReSendMsgSlot
  <2>4. Link!TypeOK'
    <3>1. armed' \subseteq Timers /\ left' \in [Timers -> 0 .. RESEND_TIMEVAL]
      BY <2>1, <2>v, Shot
    <3>2. sent' \subseteq Ids \X Msgs BY <2>0, <2>2 DEF Link!TypeOK
    <3>3. age' \in [Ids -> Int] /\ waited' \in [Ids -> Nat]
      BY <2>2 DEF Link!TypeOK
    <3> QED BY <1>0, <3>1, <3>2, <3>3 DEF Link!TypeOK
  <2>5. Timely'
    <3> SUFFICES ASSUME ~ setBack
                 PROVE  \A id \in pending :
                          /\ waited'[id] <= age'[id]
                          /\ t \in armed'
                          /\ waited'[id] + left'[t] <= 2 * RESEND_TIMEVAL
      BY <1>0 DEF Timely
    \* No kept message is of a negative age: the timer is not refused.
    <3>0. v >= 0
      <4>1. \A id \in pending : age[id] >= 0 BY DEF Timely, Link!TypeOK
      <4> QED BY <2>1, <4>1, WorkSiteAssumption
    <3>t. t \in armed' /\ left'[t] = IF v = 0 THEN 1 ELSE v
      BY <2>1, <2>v, <3>0, Shot
    <3> TAKE id \in pending
    <3>1. id \in Ids /\ age[id] \in Int /\ waited[id] \in Nat
      BY DEF Link!TypeOK
    <3>3. CASE id \in Link!Due
      <4>1. age'[id] = 0 /\ waited'[id] = 0 BY <2>2, <3>1, <3>3
      <4> QED BY <2>v, <3>0, <3>t, <4>1, WorkSiteAssumption
    <3>4. CASE id \notin Link!Due
      <4>1. age'[id] = age[id] /\ waited'[id] = waited[id] BY <2>2, <3>1, <3>4
      <4>2. age[id] <= RESEND_TIMEVAL
        BY <3>1, <3>4, WorkSiteAssumption DEF Link!Due
      <4>3. v <= RESEND_TIMEVAL BY <2>v
      <4>4. waited[id] <= age[id] BY DEF Timely
      <4>5. left'[t] <= RESEND_TIMEVAL /\ left'[t] \in Int
        BY <2>v, <3>0, <3>t, WorkSiteAssumption
      <4> QED BY <3>1, <3>t, <4>1, <4>2, <4>4, <4>5, WorkSiteAssumption
    <3> QED BY <3>3, <3>4
  <2>6. OnlyCopies' BY <1>0, <2>2 DEF OnlyCopies
  <2>7. KeptUntilArrived' BY <1>0 DEF KeptUntilArrived, Link!KeptUntilArrived
  <2> QED BY <2>4, <2>5, <2>6, <2>7
<1> QED BY <1>1, <1>2

LEMMA ReceiveInv ==
    ASSUME LinkInv, NEW id \in Ids, NEW m \in Msgs, Link!GatewayReceives(id, m)
    PROVE  LinkInv'
<1> USE DEF LinkInv, Link!GatewayReceives, Link!map, Link!clocks, Link!delay
<1>1. Link!TypeOK' BY DEF Link!TypeOK
<1>2. Timely' BY DEF Timely
<1>3. OnlyCopies'
  <2>1. /\ sent' \subseteq sent /\ newest' = newest /\ alone' = alone
        /\ arrived \subseteq arrived' /\ acks' = acks \cup {id}
    OBVIOUS
  <2>2. id \in alone => id \in arrived'
    <3>1. id \in alone => m = newest[id]
      <4>1. <<id, m>> \in sent OBVIOUS
      <4> QED BY <4>1 DEF OnlyCopies
    <3> QED BY <3>1
  <2> QED BY <2>1, <2>2 DEF OnlyCopies
<1>4. KeptUntilArrived' BY DEF KeptUntilArrived, Link!KeptUntilArrived
<1> QED BY <1>1, <1>2, <1>3, <1>4

LEMMA LoseInv == ASSUME LinkInv, Link!Lose PROVE LinkInv'
<1> USE DEF LinkInv, Link!Lose, Link!map, Link!clocks, Link!delay, Link!history
<1>1. Link!TypeOK' BY DEF Link!TypeOK
<1>2. Timely' BY DEF Timely
<1>3. OnlyCopies' BY DEF OnlyCopies
<1>4. KeptUntilArrived' BY DEF KeptUntilArrived, Link!KeptUntilArrived
<1> QED BY <1>1, <1>2, <1>3, <1>4

\* The clock is set: forward, messages look older than they are; back, they
\* look younger if there are any.
LEMMA ClockInv ==
    ASSUME LinkInv, NEW step \in ClockSteps, Link!G2hPosDeal(step)
    PROVE  LinkInv'
<1> USE DEF LinkInv
<1>0. /\ clockSet' = TRUE
      /\ age' = [id \in Ids |-> IF id \in pending THEN age[id] + step ELSE age[id]]
      /\ setBack' = (setBack \/ (step < 0 /\ pending # {}))
      /\ UNCHANGED <<pending, newest, armed, left, sent, acks, waited, arrived, alone>>
      /\ step \in Int
  BY WorkSiteAssumption
     DEF Link!G2hPosDeal, Link!clocks, Link!net, Link!history
<1>1. Link!TypeOK'
  <2>1. age' \in [Ids -> Int] BY <1>0 DEF Link!TypeOK
  <2> QED BY <1>0, <2>1 DEF Link!TypeOK
<1>2. Timely'
  <2> SUFFICES ASSUME ~ setBack', NEW id \in pending
               PROVE  /\ waited[id] <= age'[id]
                      /\ \E t \in armed : waited[id] + left[t] <= 2 * RESEND_TIMEVAL
    BY <1>0 DEF Timely
  <2>1. ~ setBack /\ ~ (step < 0) BY <1>0
  <2>2. id \in Ids /\ age[id] \in Int /\ waited[id] \in Nat
    BY DEF Link!TypeOK
  <2>3. age'[id] = age[id] + step BY <1>0, <2>2
  <2>4. waited[id] <= age[id] BY <2>1 DEF Timely
  <2>5. waited[id] <= age'[id] BY <1>0, <2>1, <2>2, <2>3, <2>4
  <2> QED BY <2>1, <2>5 DEF Timely
<1>3. OnlyCopies' BY <1>0 DEF OnlyCopies
<1>4. KeptUntilArrived' BY <1>0 DEF KeptUntilArrived, Link!KeptUntilArrived
<1> QED BY <1>1, <1>2, <1>3, <1>4

\* As a message waits, its timer gets nearer.
LEMMA TickInv == ASSUME LinkInv, Link!Tick PROVE LinkInv'
<1> USE DEF LinkInv
<1>0. /\ \A t \in armed : left[t] > 0
      /\ left' = [t \in Timers |-> IF t \in armed THEN left[t] - 1 ELSE left[t]]
      /\ age' = [id \in Ids |-> IF id \in pending THEN age[id] + 1 ELSE age[id]]
      /\ waited' = [id \in Ids |-> IF id \in pending THEN waited[id] + 1 ELSE waited[id]]
      /\ UNCHANGED <<pending, newest, clockSet, armed, sent, acks, setBack,
                     arrived, alone>>
  BY DEF Link!Tick, Link!net, Link!history
<1>1. Link!TypeOK'
  <2>1. left' \in [Timers -> 0 .. RESEND_TIMEVAL]
    BY <1>0, WorkSiteAssumption DEF Link!TypeOK
  <2>2. age' \in [Ids -> Int] /\ waited' \in [Ids -> Nat]
    BY <1>0 DEF Link!TypeOK
  <2> QED BY <1>0, <2>1, <2>2 DEF Link!TypeOK
<1>2. Timely'
  <2> SUFFICES ASSUME ~ setBack, NEW id \in pending
               PROVE  /\ waited'[id] <= age'[id]
                      /\ \E t \in armed : waited'[id] + left'[t] <= 2 * RESEND_TIMEVAL
    BY <1>0 DEF Timely
  <2>1. PICK t \in armed : waited[id] + left[t] <= 2 * RESEND_TIMEVAL
    BY DEF Timely
  <2>2. /\ id \in Ids /\ t \in Timers /\ age[id] \in Int
        /\ waited[id] \in Nat /\ left[t] \in Nat /\ RESEND_TIMEVAL \in Nat
    BY WorkSiteAssumption DEF Link!TypeOK
  <2>3. /\ waited'[id] = waited[id] + 1 /\ left'[t] = left[t] - 1
        /\ age'[id] = age[id] + 1
    BY <1>0, <2>2
  <2>4. waited[id] <= age[id] BY DEF Timely
  <2>5. waited'[id] <= age'[id] BY <2>2, <2>3, <2>4
  <2>6. waited'[id] + left'[t] <= 2 * RESEND_TIMEVAL BY <2>1, <2>2, <2>3
  <2> QED BY <2>5, <2>6
<1>3. OnlyCopies' BY <1>0 DEF OnlyCopies
<1>4. KeptUntilArrived' BY <1>0 DEF KeptUntilArrived, Link!KeptUntilArrived
<1> QED BY <1>1, <1>2, <1>3, <1>4

LEMMA LinkStutters == ASSUME LinkInv, UNCHANGED link PROVE LinkInv'
BY DEF LinkInv, link, Link!TypeOK, Timely, OnlyCopies, KeptUntilArrived,
       Link!KeptUntilArrived

-----------------------------------------------------------------------------
(* The queue *)

Entries == [truck : Trucks, state : WorkStates]

PlaceTypeOK ==
    /\ inList \in Seq(Entries)
    /\ shown \subseteq Trucks
    /\ selected \in shown \cup {NoTruck, BlankRow}
    /\ emergence \in BOOLEAN
    /\ docked \subseteq Trucks
    /\ reports \in 0 .. MaxReports
    /\ commands \in 0 .. MaxCommands

\* Sending a docked truck away takes one entry out of the queue: that it was
\* the only one of the truck makes the queue forget the docking.
PlaceInv == PlaceTypeOK /\ ListedOnce /\ FinishIsFresh

Inv == PlaceInv /\ LinkInv

OnceIn(list) == \A i, j \in DOMAIN list : list[i].truck = list[j].truck => i = j

LEMMA Inserted ==
    ASSUME inList \in Seq(Entries), ListedOnce, NEW t \in Trucks, NEW s \in WorkStates
    PROVE  /\ InsertInList(t, s) \in Seq(Entries)
           /\ OnceIn(InsertInList(t, s))
           /\ \A i \in DOMAIN InsertInList(t, s) :
                 \/ InsertInList(t, s)[i] = Entry(t, s)
                 \/ /\ i \in DOMAIN inList /\ inList[i].truck # t
                    /\ InsertInList(t, s)[i] = inList[i]
<1>0. Entry(t, s) \in Entries /\ Entry(t, s).truck = t BY DEF Entry, Entries
<1>1. CASE Listed(t)
  <2> DEFINE list == [i \in DOMAIN inList |->
                        IF inList[i].truck = t THEN Entry(t, s) ELSE inList[i]]
  <2>1. InsertInList(t, s) = list BY <1>1 DEF InsertInList
  <2>2. list \in Seq(Entries) /\ DOMAIN list = DOMAIN inList BY <1>0
  <2>3. \A i \in DOMAIN list : list[i].truck = inList[i].truck BY <1>0
  <2>4. OnceIn(list) BY <2>2, <2>3 DEF OnceIn, ListedOnce
  <2>5. \A i \in DOMAIN list :
           \/ list[i] = Entry(t, s)
           \/ i \in DOMAIN inList /\ inList[i].truck # t /\ list[i] = inList[i]
    OBVIOUS
  <2> QED BY <2>1, <2>2, <2>4, <2>5
<1>2. CASE ~ Listed(t)
  <2> DEFINE list == Append(inList, Entry(t, s))
  <2>1. InsertInList(t, s) = list BY <1>2 DEF InsertInList
  <2>2. /\ list \in Seq(Entries) /\ Len(list) = Len(inList) + 1
        /\ Len(inList) \in Nat
        /\ list[Len(list)] = Entry(t, s)
        /\ \A i \in 1 .. Len(inList) : list[i] = inList[i]
    BY <1>0
  <2>3. \A i \in 1 .. Len(inList) : inList[i].truck # t
    BY <1>2 DEF Listed
  <2> HIDE DEF list
  <2>4. OnceIn(list)
    <3> SUFFICES ASSUME NEW i \in DOMAIN list, NEW j \in DOMAIN list,
                        list[i].truck = list[j].truck
                 PROVE  i = j
      BY DEF OnceIn
    <3>1. i \in 1 .. Len(list) /\ j \in 1 .. Len(list) BY <2>2
    <3>2. CASE i \in 1 .. Len(inList) /\ j \in 1 .. Len(inList)
      <4>1. inList[i].truck = inList[j].truck BY <2>2, <3>2
      <4> QED BY <3>2, <4>1 DEF ListedOnce
    <3>3. CASE i = Len(list) \/ j = Len(list)
      BY <1>0, <2>2, <2>3, <3>1, <3>3
    <3> QED BY <2>2, <3>1, <3>2, <3>3
  <2>5. \A i \in DOMAIN list :
           \/ list[i] = Entry(t, s)
           \/ i \in DOMAIN inList /\ inList[i].truck # t /\ list[i] = inList[i]
    BY <2>2, <2>3
  <2> QED BY <2>1, <2>2, <2>4, <2>5
<1> QED BY <1>1, <1>2

LEMMA RemovedAt ==
    ASSUME NEW S, NEW q \in Seq(S), NEW k \in DOMAIN q
    PROVE  /\ RemoveAt(q, k) \in Seq(S)
           /\ Len(RemoveAt(q, k)) = Len(q) - 1
           /\ \A i \in 1 .. (Len(q) - 1) :
                 RemoveAt(q, k)[i] = q[IF i < k THEN i ELSE i + 1]
<1> DEFINE front == SubSeq(q, 1, k - 1)
           back == SubSeq(q, k + 1, Len(q))
<1>0. k \in 1 .. Len(q) /\ Len(q) \in Nat OBVIOUS
<1>1. /\ front \in Seq(S) /\ Len(front) = k - 1
      /\ \A i \in 1 .. (k - 1) : front[i] = q[i]
  BY <1>0
<1>2. /\ back \in Seq(S) /\ Len(back) = Len(q) - k
      /\ \A i \in 1 .. (Len(q) - k) : back[i] = q[i + k]
  BY <1>0
<1> HIDE DEF front, back
<1>3. /\ front \o back \in Seq(S)
      /\ Len(front \o back) = Len(q) - 1
      /\ \A i \in 1 .. (Len(q) - 1) :
            (front \o back)[i] = IF i < k THEN front[i] ELSE back[i - (k - 1)]
  BY <1>0, <1>1, <1>2
<1>4. \A i \in 1 .. (Len(q) - 1) :
          (front \o back)[i] = q[IF i < k THEN i ELSE i + 1]
  <2> TAKE i \in 1 .. (Len(q) - 1)
  <2>1. CASE i < k BY <1>0, <1>1, <1>3, <2>1
  <2>2. CASE ~ (i < k)
    <3>1. i - (k - 1) \in 1 .. (Len(q) - k) /\ (i - (k - 1)) + k = i + 1
      BY <1>0, <2>2
    <3>2. back[i - (k - 1)] = q[i + 1] BY <1>2, <3>1
    <3> QED BY <1>3, <2>2, <3>2
  <2> QED BY <2>1, <2>2
<1>5. RemoveAt(q, k) = front \o back BY DEF RemoveAt, front, back
<1> QED BY <1>3, <1>4, <1>5

LEMMA Removed ==
    ASSUME inList \in Seq(Entries), ListedOnce, NEW t \in Trucks
    PROVE  /\ RemoveInList(t) \in Seq(Entries)
           /\ OnceIn(RemoveInList(t))
           /\ \A i \in DOMAIN RemoveInList(t) :
                 \E j \in DOMAIN inList :
                    inList[j].truck # t /\ RemoveInList(t)[i] = inList[j]
<1>1. CASE Listed(t)
  <2> DEFINE k == FirstOf(t)
             list == RemoveAt(inList, k)
             old(i) == IF i < k THEN i ELSE i + 1
  <2>1. k \in DOMAIN inList /\ inList[k].truck = t
    <3>1. PICK i \in DOMAIN inList : inList[i].truck = t BY <1>1 DEF Listed
    <3>2. \A j \in 1 .. (i - 1) : inList[j].truck # t
      <4> SUFFICES ASSUME NEW j \in 1 .. (i - 1) PROVE inList[j].truck # t
        OBVIOUS
      <4>1. i \in 1 .. Len(inList) /\ Len(inList) \in Nat OBVIOUS
      <4>2. j \in DOMAIN inList /\ j # i BY <4>1
      <4> QED BY <3>1, <4>2 DEF ListedOnce
    <3> QED BY <3>1, <3>2 DEF FirstOf
  <2> HIDE DEF k
  <2>2. /\ list \in Seq(Entries) /\ Len(list) = Len(inList) - 1
        /\ \A i \in 1 .. (Len(inList) - 1) : list[i] = inList[old(i)]
    BY <2>1, RemovedAt
  <2>3. /\ Len(inList) \in Nat /\ DOMAIN inList = 1 .. Len(inList)
        /\ k \in 1 .. Len(inList)
    BY <2>1
  <2> HIDE DEF list
  <2>4. \A i \in DOMAIN list :
           old(i) \in DOMAIN inList /\ old(i) # k /\ list[i] = inList[old(i)]
    BY <2>2, <2>3
  <2>5. \A i, j \in DOMAIN list : old(i) = old(j) => i = j
    BY <2>2, <2>3
  <2>6. OnceIn(list)
    <3> SUFFICES ASSUME NEW i \in DOMAIN list, NEW j \in DOMAIN list,
                        list[i].truck = list[j].truck
                 PROVE  i = j
      BY DEF OnceIn
    <3> HIDE DEF old
    <3>1. old(i) = old(j) BY <2>4 DEF ListedOnce
    <3> QED BY <2>5, <3>1
  <2>7. ASSUME NEW i \in DOMAIN list
        PROVE  \E j \in DOMAIN inList : inList[j].truck # t /\ list[i] = inList[j]
    <3> HIDE DEF old
    <3>1. inList[old(i)].truck # t BY <2>1, <2>4 DEF ListedOnce
    <3> QED BY <2>4, <3>1
  <2>8. RemoveInList(t) = list BY <1>1 DEF RemoveInList, list, k
  <2> QED BY <2>2, <2>6, <2>7, <2>8
<1>2. CASE ~ Listed(t)
  <2>1. RemoveInList(t) = inList BY <1>2 DEF RemoveInList
  <2> QED BY <1>2, <2>1 DEF Listed, ListedOnce, OnceIn
<1> QED BY <1>1, <1>2

\* What became of the queue fits what is known of dockings.
LEMMA QueueKept ==
    ASSUME PlaceInv, NEW list \in Seq(Entries), OnceIn(list), inList' = list,
           \A i \in DOMAIN list :
               list[i].state = "FINISH" => list[i].truck \in docked'
    PROVE  inList' \in Seq(Entries) /\ ListedOnce' /\ FinishIsFresh'
BY DEF OnceIn, ListedOnce, FinishIsFresh

LEMMA RedrawTypeOK ==
    ASSUME NEW list \in Seq(Entries), Redraw(list)
    PROVE  shown' \subseteq Trucks /\ selected' \in shown' \cup {NoTruck, BlankRow}
<1>1. ASSUME NEW i \in DOMAIN list PROVE list[i].truck \in Trucks
  <2>1. list[i] \in Entries OBVIOUS
  <2> QED BY <2>1 DEF Entries
<1> QED BY <1>1 DEF Redraw

\* A report whose truck is entered with state s, or taken out.
LEMMA ReportInv ==
    ASSUME PlaceInv, NEW t \in Trucks, NEW r, NEW list, Listing(t, r, list),
           \/ list = RemoveInList(t)
           \/ \E s \in WorkStates : list = InsertInList(t, s) /\ (s = "FINISH" => r = "FINISH")
    PROVE  PlaceInv'
<1> USE DEF PlaceInv
<1>0. /\ inList \in Seq(Entries) /\ docked \subseteq Trucks
      /\ inList' = list /\ docked' = Dock(t, r)
  BY DEF PlaceTypeOK, Listing
<1>1. /\ list \in Seq(Entries) /\ OnceIn(list)
      /\ \A i \in DOMAIN list :
            \/ list[i].truck = t /\ (list[i].state = "FINISH" => r = "FINISH")
            \/ \E j \in DOMAIN inList : inList[j].truck # t /\ list[i] = inList[j]
  <2>1. CASE list = RemoveInList(t) BY <1>0, <2>1, Removed
  <2>2. CASE \E s \in WorkStates :
                list = InsertInList(t, s) /\ (s = "FINISH" => r = "FINISH")
    <3>1. PICK s \in WorkStates :
              list = InsertInList(t, s) /\ (s = "FINISH" => r = "FINISH")
      BY <2>2
    <3> QED BY <1>0, <3>1, Inserted DEF Entry
  <2> QED BY <2>1, <2>2
<1>2. docked' \subseteq Trucks /\ docked \ {t} \subseteq docked'
      /\ (r = "FINISH" => t \in docked')
  BY <1>0 DEF Dock
<1>3. \A i \in DOMAIN list : list[i].state = "FINISH" => list[i].truck \in docked'
  BY <1>1, <1>2 DEF FinishIsFresh
<1>4. inList' \in Seq(Entries) /\ ListedOnce' /\ FinishIsFresh'
  BY <1>0, <1>1, <1>3, QueueKept
<1>5. shown' \subseteq Trucks /\ selected' \in shown' \cup {NoTruck, BlankRow}
  BY <1>1, RedrawTypeOK DEF Listing
<1>6. /\ emergence' \in BOOLEAN /\ reports' \in 0 .. MaxReports
      /\ commands' \in 0 .. MaxCommands
  BY WorkSiteAssumption DEF Listing, PlaceTypeOK
<1> QED BY <1>2, <1>4, <1>5, <1>6 DEF PlaceTypeOK

\* The operator marks the truck commanded: its state is not FINISH any more.
LEMMA MarkInv ==
    ASSUME PlaceInv, NEW t \in Trucks, NEW s \in WorkStates \ {"FINISH"},
           inList' = InsertInList(t, s), docked' = docked,
           UNCHANGED <<shown, selected, reports>>,
           emergence' \in BOOLEAN, commands' \in 0 .. MaxCommands
    PROVE  PlaceInv'
<1> USE DEF PlaceInv
<1>1. inList \in Seq(Entries) BY DEF PlaceTypeOK
<1> DEFINE list == InsertInList(t, s)
<1>2. /\ list \in Seq(Entries) /\ OnceIn(list)
      /\ \A i \in DOMAIN list : list[i].state = "FINISH" => list[i].truck \in docked'
  BY <1>1, Inserted DEF Entry, FinishIsFresh
<1>3. inList' \in Seq(Entries) /\ ListedOnce' /\ FinishIsFresh'
  <2> HIDE DEF list
  <2>1. inList' = list BY DEF list
  <2> QED BY <1>2, <2>1, QueueKept
<1> QED BY <1>3 DEF PlaceTypeOK

\* A target is an entry of the queue.
LEMMA TargetListed ==
    ASSUME PlaceInv, NEW e \in Target
    PROVE  /\ e \in Entries /\ e.truck \in Trucks
           /\ \E i \in DOMAIN inList : inList[i] = e
           /\ inList # <<>> /\ inList[1].truck \in Trucks
<1>1. PICK i \in DOMAIN inList : inList[i] = e BY DEF Target
<1>2. inList \in Seq(Entries) BY DEF PlaceInv, PlaceTypeOK
<1>3. inList # <<>> /\ 1 \in DOMAIN inList BY <1>1, <1>2
<1>4. e \in Entries /\ inList[1] \in Entries BY <1>1, <1>2, <1>3
<1>5. \A x \in Entries : x.truck \in Trucks BY DEF Entries
<1> QED BY <1>1, <1>3, <1>4, <1>5

\* Each press of a button has a number of its own, which is a message.
LEMMA PressNumber ==
    ASSUME PlaceInv, Press
    PROVE  commands' \in Msgs /\ commands' \in 0 .. MaxCommands
BY WorkSiteAssumption DEF PlaceInv, PlaceTypeOK, Press, Msgs

LEMMA CommandInv ==
    ASSUME Inv, NEW t, NEW c, Command(t, c)
    PROVE  /\ LinkInv'
           /\ commands' \in 0 .. MaxCommands
           /\ docked' = IF c = "OUT" THEN docked \ {t} ELSE docked
<1>1. commands' \in Msgs /\ commands' \in 0 .. MaxCommands
  BY PressNumber DEF Inv, Command
<1>2. Link!Send("RES_WORK_OPT", commands') BY DEF Command
<1>3. "RES_WORK_OPT" \in Ids BY DEF Ids
<1> QED BY <1>1, <1>2, <1>3, SendInv DEF Command, Inv

LEMMA SendAwayInv ==
    ASSUME Inv, NEW e \in Target, SendAway(e)
    PROVE  PlaceInv'
<1> USE DEF Inv, PlaceInv
<1>1. e.truck \in Trucks BY TargetListed
<1>2. commands' \in 0 .. MaxCommands /\ docked' = docked \ {e.truck}
  BY CommandInv DEF SendAway
<1>3. inList \in Seq(Entries) BY DEF PlaceTypeOK
<1> DEFINE list == RemoveInList(e.truck)
<1>4. /\ list \in Seq(Entries) /\ OnceIn(list)
      /\ \A i \in DOMAIN list :
            \E j \in DOMAIN inList : inList[j].truck # e.truck /\ list[i] = inList[j]
  BY <1>1, <1>3, Removed
<1>5. inList' = list BY DEF SendAway
<1> HIDE DEF list
<1>6. \A i \in DOMAIN list : list[i].state = "FINISH" => list[i].truck \in docked'
  BY <1>2, <1>4 DEF FinishIsFresh
<1>7. inList' \in Seq(Entries) /\ ListedOnce' /\ FinishIsFresh'
  BY <1>4, <1>5, <1>6, QueueKept
<1> QED BY <1>2, <1>7 DEF SendAway, PlaceTypeOK

LEMMA ClearFirstInv ==
    ASSUME Inv, NEW e \in Target, ClearFirst(e)
    PROVE  PlaceInv'
<1> USE DEF Inv, PlaceInv
<1>1. inList \in Seq(Entries) /\ inList # <<>> BY TargetListed DEF PlaceTypeOK
<1> DEFINE list == Tail(inList)
<1>2. /\ list \in Seq(Entries) /\ Len(list) = Len(inList) - 1
      /\ Len(inList) \in Nat
      /\ \A i \in DOMAIN list : i + 1 \in DOMAIN inList /\ list[i] = inList[i + 1]
  BY <1>1
<1>3. inList' = list /\ Redraw(list) /\ docked' = docked BY DEF ClearFirst
<1> HIDE DEF list
<1>4. OnceIn(list)
  <2> SUFFICES ASSUME NEW i \in DOMAIN list, NEW j \in DOMAIN list,
                      list[i].truck = list[j].truck
               PROVE  i = j
    BY DEF OnceIn
  <2>1. i + 1 = j + 1 BY <1>2 DEF ListedOnce
  <2>2. i \in 1 .. Len(list) /\ j \in 1 .. Len(list) BY <1>2
  <2> QED BY <1>2, <2>1, <2>2
<1>5. \A i \in DOMAIN list : list[i].state = "FINISH" => list[i].truck \in docked'
  BY <1>2, <1>3 DEF FinishIsFresh
<1>6. inList' \in Seq(Entries) /\ ListedOnce' /\ FinishIsFresh'
  BY <1>2, <1>3, <1>4, <1>5, QueueKept
<1>7. shown' \subseteq Trucks /\ selected' \in shown' \cup {NoTruck, BlankRow}
  BY <1>2, <1>3, RedrawTypeOK
<1>8. commands' \in 0 .. MaxCommands BY PressNumber DEF ClearFirst
<1> QED BY <1>6, <1>7, <1>8 DEF ClearFirst, PlaceTypeOK

LEMMA InitInv == Init => Inv
<1> SUFFICES ASSUME Init PROVE Inv OBVIOUS
<1>1. PlaceTypeOK
  <2>1. inList \in Seq(Entries) BY DEF Init
  <2>2. 0 \in 0 .. MaxReports /\ 0 \in 0 .. MaxCommands BY WorkSiteAssumption
  <2> QED BY <2>1, <2>2 DEF Init, PlaceTypeOK
<1>2. ListedOnce /\ FinishIsFresh BY DEF Init, ListedOnce, FinishIsFresh
<1> QED BY <1>1, <1>2, LinkInit DEF Init, Inv, PlaceInv

LEMMA ReportsInv ==
    ASSUME Inv, NEW t \in Trucks, NEW r \in Reports,
           G2hReqWorkOptSlot(t, r) \/ G2hReqWorkRealOptSlot(t, r)
    PROVE  Inv'
<1>0. r \in AllReports /\ PlaceInv BY WorkSiteAssumption DEF Inv
<1>1. LinkInv' BY LinkStutters DEF Inv, G2hReqWorkOptSlot, G2hReqWorkRealOptSlot, Listing
<1>2. CASE Leaves(r)
  <2>1. Listing(t, r, RemoveInList(t))
    BY <1>2 DEF G2hReqWorkOptSlot, G2hReqWorkRealOptSlot, Leaves
  <2> QED BY <1>0, <1>1, <2>1, ReportInv DEF Inv
<1>3. CASE ~ Leaves(r)
  <2>1. r \in WorkStates BY <1>0, <1>3 DEF Leaves, AllReports, Commands, WorkStates
  <2>2. "RUN" \in WorkStates BY DEF WorkStates
  <2>3. \/ Listing(t, r, InsertInList(t, r))
        \/ Listing(t, r, InsertInList(t, "RUN"))
    BY <1>3 DEF G2hReqWorkOptSlot, G2hReqWorkRealOptSlot
  <2>4. CASE Listing(t, r, InsertInList(t, r)) BY <1>0, <1>1, <2>1, <2>4, ReportInv DEF Inv
  <2>5. CASE Listing(t, r, InsertInList(t, "RUN"))
    <3>1. "RUN" # "FINISH" OBVIOUS
    <3> QED BY <1>0, <1>1, <2>2, <2>5, <3>1, ReportInv DEF Inv
  <2> QED BY <2>3, <2>4, <2>5
<1> QED BY <1>2, <1>3

LEMMA ButtonsInv ==
    ASSUME Inv, NEW e \in Target,
           \/ LoadRunWork(e) \/ SendAway(e) \/ Emergence(e)
           \/ ManualTakeover(e) \/ DockAgain(e) \/ ClearFirst(e)
    PROVE  Inv'
<1>0. PlaceInv /\ e.truck \in Trucks BY TargetListed DEF Inv
<1>1. CASE LoadRunWork(e)
  <2>1. LinkInv' /\ commands' \in 0 .. MaxCommands /\ docked' = docked
    BY <1>1, CommandInv DEF LoadRunWork
  <2> QED BY <1>0, <1>1, <2>1 DEF Inv, LoadRunWork, place, PlaceInv, PlaceTypeOK,
                                 ListedOnce, FinishIsFresh
<1>2. CASE SendAway(e)
  BY <1>2, CommandInv, SendAwayInv DEF Inv, SendAway
<1>3. CASE Emergence(e)
  <2>1. PICK c \in {"STOP", "RECOVER"} :
            Command(e.truck, c) /\ Mark(e, c) /\ emergence' = ~ emergence
    BY <1>3 DEF Emergence
  <2>2. LinkInv' /\ commands' \in 0 .. MaxCommands /\ docked' = docked
    BY <2>1, CommandInv
  <2>3. c \in WorkStates \ {"FINISH"} BY DEF WorkStates
  <2>4. emergence' \in BOOLEAN BY <2>1
  <2> QED BY <1>0, <1>3, <2>1, <2>2, <2>3, <2>4, MarkInv DEF Inv, Emergence, Mark
<1>4. CASE ManualTakeover(e)
  <2>1. LinkInv' /\ commands' \in 0 .. MaxCommands /\ docked' = docked
    BY <1>4, CommandInv DEF ManualTakeover
  <2>2. "MAN" \in WorkStates \ {"FINISH"} BY DEF WorkStates
  <2>3. emergence' \in BOOLEAN BY <1>0, <1>4 DEF ManualTakeover, PlaceInv, PlaceTypeOK
  <2> QED BY <1>0, <1>4, <2>1, <2>2, <2>3, MarkInv DEF Inv, ManualTakeover, Mark
<1>5. CASE DockAgain(e)
  <2>1. LinkInv' /\ commands' \in 0 .. MaxCommands /\ docked' = docked
    BY <1>5, CommandInv DEF DockAgain
  <2>2. "RE_IN" \in WorkStates \ {"FINISH"} BY DEF WorkStates
  <2>3. emergence' \in BOOLEAN BY <1>0, <1>5 DEF DockAgain, PlaceInv, PlaceTypeOK
  <2> QED BY <1>0, <1>5, <2>1, <2>2, <2>3, MarkInv DEF Inv, DockAgain, Mark
<1>6. CASE ClearFirst(e)
  BY <1>6, ClearFirstInv, LinkStutters DEF Inv, ClearFirst
<1> QED BY <1>1, <1>2, <1>3, <1>4, <1>5, <1>6

LEMMA SetLoadInv == ASSUME Inv, SetLoad PROVE Inv'
<1>1. commands' \in Msgs /\ commands' \in 0 .. MaxCommands
  BY PressNumber DEF Inv, SetLoad
<1>2. LinkInv' BY <1>1, SendInv DEF Inv, SetLoad, Ids
<1> QED BY <1>1, <1>2 DEF Inv, SetLoad, place, PlaceInv, PlaceTypeOK,
                        ListedOnce, FinishIsFresh

LEMMA LinkStepInv == ASSUME Inv, LinkStep PROVE Inv'
<1>1. LinkInv'
  BY AckInv, TimeoutInv, ClockInv, ReceiveInv, LoseInv, TickInv DEF Inv, LinkStep, Link!Step
<1>2. PlaceInv'
  BY DEF Inv, LinkStep, site, place, PlaceInv, PlaceTypeOK, ListedOnce, FinishIsFresh
<1> QED BY <1>1, <1>2 DEF Inv

LEMMA NextInv == Inv /\ [Next]_vars => Inv'
<1> SUFFICES ASSUME Inv, [Next]_vars PROVE Inv' OBVIOUS
<1>1. ASSUME NEW t \in Trucks, NEW r \in Reports,
             G2hReqWorkOptSlot(t, r) \/ G2hReqWorkRealOptSlot(t, r)
      PROVE  Inv'
  BY <1>1, ReportsInv
<1>2. CASE SelectRow
  <2>1. LinkInv' BY <1>2, LinkStutters DEF Inv, SelectRow
  <2> QED BY <1>2, <2>1 DEF Inv, SelectRow, PlaceInv, PlaceTypeOK, ListedOnce, FinishIsFresh
<1>3. CASE Operate BY <1>3, ButtonsInv, SetLoadInv DEF Operate
<1>4. CASE LinkStep BY <1>4, LinkStepInv
<1>5. CASE UNCHANGED vars
  <2>1. LinkInv' BY <1>5, LinkStutters DEF Inv, vars
  <2> QED BY <1>5, <2>1 DEF Inv, vars, site, place, PlaceInv, PlaceTypeOK,
                          ListedOnce, FinishIsFresh
<1> QED BY <1>1, <1>2, <1>3, <1>4, <1>5 DEF Next

LEMMA Invariance == Spec => []Inv
BY InitInv, NextInv, PTL DEF Spec

\* The variables of queue, table, buttons and link have their types.
THEOREM TypeCorrect == Spec => []TypeOK
<1>1. Inv => TypeOK BY DEF Inv, PlaceInv, PlaceTypeOK, Entries, LinkInv, TypeOK
<1> QED BY <1>1, Invariance, PTL

\* A truck is in the queue once, for any number of trucks and reports.
THEOREM QueuedOnce == Spec => []ListedOnce
<1>1. Inv => ListedOnce BY DEF Inv, PlaceInv
<1> QED BY <1>1, Invariance, PTL

\* Of a truck that is listed as docked FINISH is the report received last, and
\* it was not commanded to leave since that was received.
THEOREM DockingsFresh == Spec => []FinishIsFresh
<1>1. Inv => FinishIsFresh BY DEF Inv, PlaceInv
<1> QED BY <1>1, Invariance, PTL

\* No kept command waits longer than twice RESEND_TIMEVAL to be sent again,
\* whatever the number of messages, timers and answers and however far the wall
\* clock is set forward, unless it was set back while messages were kept.
THEOREM Retransmitted == Spec => []ResentInTime
<1>1. Inv => ResentInTime
  <2> SUFFICES ASSUME Inv, ~ setBack, NEW id \in pending
               PROVE  waited[id] <= 2 * RESEND_TIMEVAL
    BY DEF ResentInTime, Link!ResentInTime
  <2>1. PICK t \in armed : waited[id] + left[t] <= 2 * RESEND_TIMEVAL
    BY DEF Inv, LinkInv, Timely
  <2>2. waited[id] \in Nat /\ left[t] \in Nat /\ RESEND_TIMEVAL \in Nat
    BY WorkSiteAssumption DEF Inv, LinkInv, Link!TypeOK
  <2> QED BY <2>1, <2>2
<1> QED BY <1>1, Invariance, PTL

\* A command sent with nothing of its id under way is kept until it arrived.
THEOREM CommandsKept == Spec => []KeptUntilArrived
<1>1. Inv => KeptUntilArrived BY DEF Inv, LinkInv
<1> QED BY <1>1, Invariance, PTL

\* Seen from the link, the work site is one of its users: every step of it is
\* a step of Resend or leaves the link alone.
THEOREM UsesLink == Spec => Link!Spec
<1>1. Init => Link!Init BY DEF Init
<1>2. Inv /\ [Next]_vars => [Link!Next]_(Link!vars)
  <2> SUFFICES ASSUME Inv, [Next]_vars PROVE Link!Next \/ UNCHANGED link
    BY DEF link, Link!vars, Link!map, Link!clocks, Link!net, Link!delay,
           Link!history
  <2>1. ASSUME NEW t, NEW c, Command(t, c) PROVE Link!Next
    BY <2>1, PressNumber DEF Inv, Command, Link!Next, Ids
  <2>2. CASE SetLoad BY <2>2, PressNumber DEF Inv, SetLoad, Link!Next, Ids
  <2>3. CASE LinkStep BY <2>3 DEF LinkStep, Link!Next
  <2>4. ASSUME NEW e \in Target,
               \/ LoadRunWork(e) \/ SendAway(e) \/ Emergence(e)
               \/ ManualTakeover(e) \/ DockAgain(e) \/ ClearFirst(e)
        PROVE  Link!Next \/ UNCHANGED link
    BY <2>1, <2>4 DEF LoadRunWork, SendAway, Emergence, ManualTakeover, DockAgain,
                      ClearFirst
  <2>5. CASE SelectRow BY <2>5 DEF SelectRow
  <2>6. ASSUME NEW t, NEW r, NEW list, Listing(t, r, list) PROVE UNCHANGED link
    BY <2>6 DEF Listing
  <2>7. ASSUME NEW t \in Trucks, NEW r \in Reports,
               G2hReqWorkOptSlot(t, r) \/ G2hReqWorkRealOptSlot(t, r)
        PROVE  UNCHANGED link
    BY <2>6, <2>7 DEF G2hReqWorkOptSlot, G2hReqWorkRealOptSlot
  <2>8. CASE UNCHANGED vars BY <2>8 DEF vars
  <2> QED BY <2>2, <2>3, <2>4, <2>5, <2>7, <2>8 DEF Next, Operate
<1> QED BY <1>1, <1>2, Invariance, PTL DEF Spec, Link!Spec
==============================================================================
