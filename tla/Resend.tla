------------------------------- MODULE Resend --------------------------------
(***************************************************************************)
(* The acknowledged part of the link from the vehicle HMI to the gateway of *)
(* its vehicle: ReSendClass and what CmdDealClass, its only user, does with *)
(* it.  A message is sent as a datagram and kept by its command id; the     *)
(* gateway's answer names that id and nothing else; what is still kept      *)
(* after RESEND_TIMEVAL is sent again.  Gateway and network are outside:    *)
(* datagrams are lost, duplicated and reordered.                            *)
(*                                                                          *)
(* Time passes in ticks; an armed timer is late by less than a tick.  Timers*)
(* run by a monotonic clock, ages are differences of the wall clock, which  *)
(* the HMI itself sets, once, from the first position it is sent.           *)
(***************************************************************************)
EXTENDS Integers

CONSTANTS Ids,            \* command ids
          AckedIds,       \* those g2hComAckDeal knows
          Msgs,           \* contents of messages
          NoMsg,
          RESEND_TIMEVAL, \* in ticks
          ClockSteps,     \* what the wall clock may be set forward or back by;
                          \* as milliseconds they fit the int of a timer
          MaxWait,        \* bound: ticks a kept message is watched for
          Timers          \* bound: single-shot timers armed at the same time

ResendAssumption ==
    /\ AckedIds \subseteq Ids
    /\ NoMsg \notin Msgs
    /\ RESEND_TIMEVAL \in Nat \ {0}
    /\ ClockSteps \subseteq Int
    /\ MaxWait \in Nat /\ MaxWait > 2 * RESEND_TIMEVAL

(***************************************************************************)
(*   pending   ids of reSendMap                                            *)
(*   newest    the newest message sent with an id, which is the one kept   *)
(*   age       wall clock now less wall clock when the message was sent    *)
(*             last                                                        *)
(*   clockSet  the static flag once of g2hPosDeal                          *)
(*   armed     single-shot timers under way: each call starts one more     *)
(*   left      ticks until a timer is due                                  *)
(*   sent      datagrams on their way to the gateway                       *)
(*   acks      answers on their way back                                   *)
(*   waited    history: ticks since the kept message was sent last         *)
(*   setBack   history: the clock was set back while messages were kept,   *)
(*             and there were others, or a fresh one, in the map ever since *)
(*   arrived   history: ids whose newest message reached the gateway       *)
(*   alone     history: ids whose newest message was first sent with no    *)
(*             datagram of that id on its way, in either direction         *)
(***************************************************************************)
VARIABLES pending, newest, age, clockSet, armed, left, sent, acks,
          waited, setBack, arrived, alone

map == <<pending, newest, age, clockSet>>
clocks == <<armed, left>>
net == <<sent, acks>>
delay == <<waited, setBack>>
history == <<arrived, alone>>
vars == <<map, clocks, net, delay, history>>

TypeOK ==
    /\ pending \subseteq Ids
    /\ newest \in [Ids -> Msgs \cup {NoMsg}]
    /\ \A id \in pending : newest[id] \in Msgs
    /\ age \in [Ids -> Int]
    /\ clockSet \in BOOLEAN
    /\ armed \subseteq Timers
    /\ left \in [Timers -> 0 .. RESEND_TIMEVAL]
    /\ sent \subseteq Ids \X Msgs
    /\ acks \subseteq Ids
    /\ waited \in [Ids -> Nat]
    /\ setBack \in BOOLEAN
    /\ arrived \subseteq Ids
    /\ alone \subseteq Ids

Init ==
    /\ pending = {}
    /\ newest = [id \in Ids |-> NoMsg]
    /\ age = [id \in Ids |-> 0]
    /\ clockSet = FALSE
    /\ armed = {}
    /\ left = [t \in Timers |-> 0]
    /\ sent = {}
    /\ acks = {}
    /\ waited = [id \in Ids |-> 0]
    /\ setBack = FALSE
    /\ arrived = {}
    /\ alone = {}

-----------------------------------------------------------------------------
(* The HMI *)

\* QTimer::singleShot.  One of 0 ms comes with the next round of the event
\* loop, which is another tick; one of less is refused.
SingleShot(t, ms) ==
    IF ms < 0
    THEN armed' = armed \ {t} /\ UNCHANGED left
    ELSE /\ armed' = armed \cup {t}
         /\ left' = [left EXCEPT ![t] = IF ms = 0 THEN 1 ELSE ms]

FreeTimer == CHOOSE t \in Timers : t \notin armed

\* Mutated ArmIfOnly: no timer for an id that had one before.
ArmIfNew(id) ==
    IF pending = {} /\ newest[id] = NoMsg
    THEN armed # Timers /\ SingleShot(FreeTimer, RESEND_TIMEVAL)
    ELSE UNCHANGED clocks

\* The map holds this message and nothing else: a timer is started, without
\* a look at those that are still under way.
ArmIfOnly(id) ==
    IF pending \subseteq {id}
    THEN armed # Timers /\ SingleShot(FreeTimer, RESEND_TIMEVAL)
    ELSE UNCHANGED clocks

\* The slots of CmdDealClass: udpSendMsg, then addReSendMsg, which replaces
\* a message of the same id that is still kept.
Send(id, m) ==
    /\ sent' = sent \cup {<<id, m>>}
    /\ newest' = [newest EXCEPT ![id] = m]
    /\ age' = [age EXCEPT ![id] = 0]
    /\ pending' = pending \cup {id}
    /\ ArmIfOnly(id)
    /\ waited' = [waited EXCEPT ![id] = 0]
    /\ setBack' = (setBack /\ ~ (pending \subseteq {id}))
    /\ arrived' = arrived \ {id}
    /\ alone' = IF id \in acks \/ \E d \in sent : d[1] = id
                THEN alone \ {id} ELSE alone \cup {id}
    /\ UNCHANGED <<acks, clockSet>>

\* Mutated RemoveReSendMsg: an answer empties the map.
RemoveAll(id) ==
    /\ pending' = {}
    /\ age' = [i \in Ids |-> 0]
    /\ waited' = [i \in Ids |-> 0]
    /\ setBack' = FALSE

RemoveReSendMsg(id) ==
    /\ pending' = pending \ {id}
    /\ age' = [age EXCEPT ![id] = 0]
    /\ waited' = [waited EXCEPT ![id] = 0]
    /\ setBack' = (setBack /\ ~ (pending \subseteq {id}))

\* A datagram that is handled may have a duplicate on its way.
G2hComAckDeal(id) ==
    /\ id \in acks
    /\ \E rest \in {{}, {id}} : acks' = (acks \ {id}) \cup rest
    /\ IF id \in AckedIds THEN RemoveReSendMsg(id)
       ELSE UNCHANGED <<pending, age, delay>>
    /\ UNCHANGED <<newest, clockSet, clocks, sent, history>>

Due == {id \in pending : age[id] > RESEND_TIMEVAL}

\* nextVal: the smallest age, not the shortest time left.  It is negative if
\* the clock was set back by more than that age.
NextVal(v) ==
    /\ v <= RESEND_TIMEVAL
    /\ \A id \in pending \ Due : v <= age[id]

TimeoutReSendMsgSlot(t) ==
    /\ t \in armed /\ left[t] = 0
    /\ IF pending = {}
       THEN /\ armed' = armed \ {t}
            /\ UNCHANGED <<age, waited, left, sent>>
       ELSE /\ sent' = sent \cup {<<id, newest[id]>> : id \in Due}
            /\ age' = [id \in Ids |-> IF id \in Due THEN 0 ELSE age[id]]
            /\ waited' = [id \in Ids |-> IF id \in Due THEN 0 ELSE waited[id]]
            /\ \E v \in {RESEND_TIMEVAL} \cup {age[id] : id \in pending \ Due} :
                  NextVal(v) /\ SingleShot(t, v)
    /\ UNCHANGED <<pending, newest, clockSet, acks, setBack, history>>

\* g2hPosDeal, the first time: date -s.
G2hPosDeal(step) ==
    /\ ~ clockSet
    /\ clockSet' = TRUE
    /\ age' = [id \in Ids |-> IF id \in pending THEN age[id] + step ELSE age[id]]
    /\ setBack' = (setBack \/ (step < 0 /\ pending # {}))
    /\ UNCHANGED <<pending, newest, clocks, net, waited, history>>

-----------------------------------------------------------------------------
(* Outside *)

\* The gateway answers every message, whether it is new to it or not.
GatewayReceives(id, m) ==
    /\ <<id, m>> \in sent
    /\ \E rest \in {{}, {<<id, m>>}} : sent' = (sent \ {<<id, m>>}) \cup rest
    /\ acks' = acks \cup {id}
    /\ arrived' = IF m = newest[id] THEN arrived \cup {id} ELSE arrived
    /\ UNCHANGED <<map, clocks, delay, alone>>

Lose ==
    /\ \/ \E d \in sent : sent' = sent \ {d} /\ UNCHANGED acks
       \/ \E id \in acks : acks' = acks \ {id} /\ UNCHANGED sent
    /\ UNCHANGED <<map, clocks, delay, history>>

Tick ==
    /\ \A t \in armed : left[t] > 0
    /\ \A id \in pending : waited[id] < MaxWait
    /\ left' = [t \in Timers |-> IF t \in armed THEN left[t] - 1 ELSE left[t]]
    /\ age' = [id \in Ids |-> IF id \in pending THEN age[id] + 1 ELSE age[id]]
    /\ waited' = [id \in Ids |-> IF id \in pending THEN waited[id] + 1 ELSE waited[id]]
    /\ UNCHANGED <<pending, newest, clockSet, armed, net, setBack, history>>

Step ==
    \/ \E id \in Ids : G2hComAckDeal(id)
    \/ \E t \in Timers : TimeoutReSendMsgSlot(t)
    \/ \E step \in ClockSteps : G2hPosDeal(step)
    \/ \E id \in Ids, m \in Msgs : GatewayReceives(id, m)
    \/ Lose
    \/ Tick

Next == Step \/ \E id \in Ids, m \in Msgs : Send(id, m)

Spec == Init /\ [][Next]_vars

-----------------------------------------------------------------------------
(* Properties *)

\* No message that is kept waits longer than twice RESEND_TIMEVAL to be sent
\* again, although timers are set by ages of the wall clock and not by the
\* time left, and only the first message of the map starts one: some timer is
\* always under way and due soon enough, even when the clock is set forward.
\* This ends when the HMI sets its clock back while messages are kept: the
\* next timer may be refused, and until the map is empty, or holds one newly
\* sent message, nothing need be sent again.
ResentInTime ==
    ~ setBack => \A id \in pending : waited[id] <= 2 * RESEND_TIMEVAL

\* A message that was sent while no datagram of its id was on its way is kept
\* until it has arrived.  Otherwise an answer to an older message of the id
\* may remove it.
KeptUntilArrived == \A id \in alone : id \in pending \/ id \in arrived
==============================================================================
