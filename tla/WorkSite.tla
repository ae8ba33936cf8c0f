------------------------------ MODULE WorkSite -------------------------------
(***************************************************************************)
(* The loading place of src/hmi: the excavator's HMI keeps the queue of     *)
(* trucks that report themselves (WorkListDeal), shows it in a table, and   *)
(* its buttons send the trucks commands, which go to the gateway on the     *)
(* acknowledged link (Resend).  All of it runs on the HMI's one GUI thread. *)
(*                                                                          *)
(* A truck stands for the pair of its IMEI and its name.                    *)
(***************************************************************************)
EXTENDS Integers, Sequences, SequencesExt

CONSTANTS Trucks, NoTruck,
          Reports,          \* what trucks report
          BlankRow,         \* a row of the table without a name
          MaxReports,       \* bound: reports of trucks
          MaxCommands,      \* bound: commands of the operator
          RESEND_TIMEVAL, ClockSteps, MaxWait, Timers   \* as in Resend

Commands == {"IN", "OUT", "STOP", "RECOVER", "MAN", "RE_IN"}
AllReports == Commands \cup {"FINISH", "UNLOAD", "CLEAR"}

ASSUME WorkSiteAssumption ==
    /\ NoTruck \notin Trucks /\ BlankRow \notin Trucks
    /\ NoTruck # BlankRow
    /\ Reports \subseteq AllReports
    /\ MaxReports \in Nat /\ MaxCommands \in Nat
    /\ RESEND_TIMEVAL \in Nat \ {0}
    /\ ClockSteps \subseteq Int
    /\ MaxWait \in Nat /\ MaxWait > 2 * RESEND_TIMEVAL

(***************************************************************************)
(*   inList     WorkListDeal::inList                                       *)
(*   shown      the trucks in LoadListInfoTable, as drawn last             *)
(*   selected   its current row: a truck, a blank one, or none (NoTruck)   *)
(*   emergence  emergenceBtn is checked                                    *)
(*   docked     history: trucks of which the report received last is that  *)
(*              they finished docking, and that were not commanded to      *)
(*              leave since it was received                                *)
(*   reports    reports so far                                             *)
(*   commands   commands so far                                            *)
(***************************************************************************)
VARIABLES inList, shown, selected, emergence, docked, reports, commands,
          pending, newest, age, clockSet, armed, left, sent, acks,
          waited, setBack, arrived, alone

place == <<inList, shown, selected, emergence>>
site == <<place, docked, reports, commands>>
link == <<pending, newest, age, clockSet, armed, left, sent, acks,
          waited, setBack, arrived, alone>>
vars == <<site, link>>

-----------------------------------------------------------------------------
WorkStates == {"IN", "RUN", "FINISH", "UNLOAD", "STOP", "RECOVER", "MAN", "RE_IN"}

\* A message of the link stands for the command, by its number, it carries.
Msgs == 1 .. MaxCommands
NoMsg == 0
Ids == {"RES_WORK_OPT", "SET_LOAD"}
AckedIds == Ids

Link == INSTANCE Resend

TypeOK ==
    /\ inList \in Seq([truck : Trucks, state : WorkStates])
    /\ shown \subseteq Trucks
    /\ selected \in shown \cup {NoTruck, BlankRow}
    /\ emergence \in BOOLEAN
    /\ docked \subseteq Trucks
    /\ reports \in 0 .. MaxReports
    /\ commands \in 0 .. MaxCommands
    /\ Link!TypeOK

Init ==
    /\ inList = <<>>
    /\ shown = {}
    /\ selected = NoTruck
    /\ emergence = FALSE
    /\ docked = {}
    /\ reports = 0
    /\ commands = 0
    /\ Link!Init

-----------------------------------------------------------------------------
(* WorkListDeal *)

Entry(t, s) == [truck |-> t, state |-> s]
Listed(t) == \E i \in DOMAIN inList : inList[i].truck = t

\* Mutated InsertInList: a truck that is listed already is appended again.
AppendInList(t, s) == Append(inList, Entry(t, s))

InsertInList(t, s) ==
    IF Listed(t)
    THEN [i \in DOMAIN inList |->
             IF inList[i].truck = t THEN Entry(t, s) ELSE inList[i]]
    ELSE Append(inList, Entry(t, s))

\* removeOne: the first that matches.
FirstOf(t) ==
    CHOOSE i \in DOMAIN inList :
        /\ inList[i].truck = t
        /\ \A j \in 1 .. (i - 1) : inList[j].truck # t

RemoveInList(t) == IF Listed(t) THEN RemoveAt(inList, FirstOf(t)) ELSE inList

-----------------------------------------------------------------------------
(* Reports of trucks *)

\* Mutated Redraw: the selection is kept.
RedrawAround(list) ==
    /\ shown' = {list[i].truck : i \in DOMAIN list}
    /\ UNCHANGED selected

\* mineInfoTimerSlot: the table is drawn anew and its selection forgotten.
Redraw(list) ==
    /\ shown' = {list[i].truck : i \in DOMAIN list}
    /\ selected' = NoTruck

\* The word about docking received last.
Dock(t, r) == IF r = "FINISH" THEN docked \cup {t} ELSE docked \ {t}

Listing(t, s, list) ==
    /\ reports < MaxReports
    /\ reports' = reports + 1
    /\ inList' = list
    /\ Redraw(list)
    /\ docked' = Dock(t, s)
    /\ UNCHANGED <<emergence, commands, link>>

Leaves(r) == r \in {"OUT", "CLEAR"}

\* 0305: what a truck asks for or tells.
G2hReqWorkOptSlot(t, r) ==
    Listing(t, r, IF Leaves(r) THEN RemoveInList(t) ELSE InsertInList(t, r))

\* 0306: what a truck is doing.
G2hReqWorkRealOptSlot(t, r) ==
    Listing(t, r, CASE Leaves(r) -> RemoveInList(t)
                    [] r = "IN" -> InsertInList(t, "RUN")
                    [] OTHER -> InsertInList(t, r))

-----------------------------------------------------------------------------
(* The operator *)

SelectRow ==
    /\ selected' \in shown \cup {BlankRow}
    /\ UNCHANGED <<inList, shown, emergence, docked, reports, commands, link>>

\* The truck of the selected row, looked up in the list by the name in the
\* table; without a selection the first of the list.  There may be none.
Target ==
    IF selected = NoTruck
    THEN {inList[i] : i \in DOMAIN inList \cap {1}}
    ELSE {inList[i] : i \in {j \in DOMAIN inList : inList[j].truck = selected}}

Press ==
    /\ commands < MaxCommands
    /\ commands' = commands + 1

\* h2gResWorkOptSlots, to truck t.
Command(t, c) ==
    /\ Press
    /\ Link!Send("RES_WORK_OPT", commands')
    /\ docked' = IF c = "OUT" THEN docked \ {t} ELSE docked

\* on_loadRunWorkBtn: the list is left as it is.
LoadRunWork(e) ==
    /\ e.state = "IN"
    /\ Command(e.truck, "IN")
    /\ UNCHANGED <<place, reports>>

\* Mutated SendAway: the truck stays in the list.
SendAwayListed(e) ==
    /\ e.state = "FINISH"
    /\ Command(e.truck, "OUT")
    /\ UNCHANGED <<place, reports>>

\* on_loadOverOutBtn, and choices 4 and 5 of on_abnormalOkBtn, which send the
\* truck away half loaded and empty.
SendAway(e) ==
    /\ e.state = "FINISH"
    /\ Command(e.truck, "OUT")
    /\ inList' = RemoveInList(e.truck)
    /\ UNCHANGED <<shown, selected, emergence, reports>>

Mark(e, s) == inList' = InsertInList(e.truck, s)

\* on_emergenceBtn: the button has been toggled when the slot looks at it.
Emergence(e) ==
    LET c == IF emergence THEN "RECOVER" ELSE "STOP"
    IN  /\ emergence' = ~ emergence
        /\ Command(e.truck, c)
        /\ Mark(e, c)
        /\ UNCHANGED <<shown, selected, reports>>

\* Choice 1 of on_abnormalOkBtn.
ManualTakeover(e) ==
    /\ Command(e.truck, "MAN")
    /\ Mark(e, "MAN")
    /\ UNCHANGED <<shown, selected, emergence, reports>>

\* Choice 2: the command goes to the first truck of the list, whichever was
\* selected; the selected one is marked.
DockAgain(e) ==
    /\ Command(inList[1].truck, "RE_IN")
    /\ Mark(e, "RE_IN")
    /\ UNCHANGED <<shown, selected, emergence, reports>>

\* Choice 3: the first truck is dropped, whichever was selected.
ClearFirst(e) ==
    /\ Press
    /\ inList' = Tail(inList)
    /\ Redraw(Tail(inList))
    /\ UNCHANGED <<emergence, docked, reports, link>>

\* The load is set: another message on the same link.
SetLoad ==
    /\ Press
    /\ Link!Send("SET_LOAD", commands')
    /\ UNCHANGED <<place, docked, reports>>

Operate ==
    \/ \E e \in Target :
          \/ LoadRunWork(e) \/ SendAway(e) \/ Emergence(e)
          \/ ManualTakeover(e) \/ DockAgain(e) \/ ClearFirst(e)
    \/ SetLoad

-----------------------------------------------------------------------------
LinkStep == Link!Step /\ UNCHANGED site

Next ==
    \/ \E t \in Trucks, r \in Reports :
          G2hReqWorkOptSlot(t, r) \/ G2hReqWorkRealOptSlot(t, r)
    \/ SelectRow
    \/ Operate
    \/ LinkStep

Spec == Init /\ [][Next]_vars

-----------------------------------------------------------------------------
(* Properties *)

\* A truck is in the queue once, whatever reports and commands cross.
ListedOnce ==
    \A i, j \in DOMAIN inList : inList[i].truck = inList[j].truck => i = j

\* A truck that the queue says has docked: the report received of it last says
\* so, and it was not commanded to leave since that report was received, by
\* whichever button and whatever row was selected.  A datagram that comes twice
\* or late is received twice or late: it says nothing of when the truck docked.
FinishIsFresh ==
    \A i \in DOMAIN inList :
        inList[i].state = "FINISH" => inList[i].truck \in docked

\* What the link promises of the commands of the operator: see Resend.
ResentInTime == Link!ResentInTime
KeptUntilArrived == Link!KeptUntilArrived
==============================================================================
