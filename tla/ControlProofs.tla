---------------------------- MODULE ControlProofs ----------------------------
(***************************************************************************)
(* Proofs about Control, for every frame length, chunk size, number of     *)
(* openings and set of commands: its reading thread is Console, so that    *)
(* what is proved of Console holds in it, and TypeOK, OneRequest and       *)
(* WheelCurrent.                                                           *)
(***************************************************************************)
EXTENDS Control, TLAPS

LineProofs == INSTANCE ConsoleProofs

-----------------------------------------------------------------------------
(* The reading thread *)

\* The signals and timers of the main thread leave the reading thread alone.
THEOREM ReadingThread == Spec => Line!Spec
<1>1. Init => Line!Init BY DEF Init
<1>2. [Next]_vars => [Line!Next]_Line!vars
  BY DEF Next, vars, line, PortStep, ReadStep, DeliverSignal,
         HandlePubDataTimerOut, HandlePubStatusTimerOut, HandleTimeOut,
         WaitForDevice, InitDevice,
         ReadIOState, HandleReadIOStateReady, DeviceChanges, Line!Next, Line!vars
<1> QED BY <1>1, <1>2, PTL DEF Spec, Line!Spec

\* ConsoleProofs has a copy of Console's definitions: they are the same.
LEMMA SameConsole ==
    /\ Line!ConsoleAssumption <=> LineProofs!ConsoleAssumption
    /\ Line!Init <=> LineProofs!Init
    /\ [Line!Next]_Line!vars <=> [LineProofs!Next]_LineProofs!vars
    /\ LineProofs!TypeOK <=> Line!TypeOK
    /\ LineProofs!SampleWhole <=> Line!SampleWhole
    /\ LineProofs!BacklogBound <=> Line!BacklogBound
<1>1. Line!ConsoleAssumption <=> LineProofs!ConsoleAssumption
  BY DEF Line!ConsoleAssumption, LineProofs!ConsoleAssumption
<1>2. Line!Init <=> LineProofs!Init
  BY DEF Line!Init, LineProofs!Init, Line!Positions, LineProofs!Positions
<1>3. Line!InitUart <=> LineProofs!InitUart
  BY DEF Line!InitUart, LineProofs!InitUart, Line!Positions, LineProofs!Positions
<1>4. Line!ReadTimeout <=> LineProofs!ReadTimeout
  BY DEF Line!ReadTimeout, LineProofs!ReadTimeout
<1>5. Line!Read <=> LineProofs!Read
  <2>1. ASSUME NEW b
        PROVE  /\ Line!HasFrame(b) <=> LineProofs!HasFrame(b)
               /\ Line!FrameOf(b) = LineProofs!FrameOf(b)
               /\ Line!RemoveFrame(b) = LineProofs!RemoveFrame(b)
               /\ Line!SkipByte(b) = LineProofs!SkipByte(b)
    BY DEF Line!HasFrame, LineProofs!HasFrame, Line!HasHeader, LineProofs!HasHeader,
           Line!FrameOf, LineProofs!FrameOf, Line!RemoveFrame, LineProofs!RemoveFrame,
           Line!SkipByte, LineProofs!SkipByte
  <2>2. ASSUME NEW n
        PROVE  Line!Received(n) = LineProofs!Received(n)
    BY DEF Line!Received, LineProofs!Received
  <2>3. ASSUME NEW n \in MinChunk..MaxChunk
        PROVE  Line!HandleUartData(n) <=> LineProofs!HandleUartData(n)
    BY <2>1, <2>2 DEF Line!HandleUartData, LineProofs!HandleUartData
  <2> QED BY <2>3 DEF Line!Read, LineProofs!Read
<1>6. [Line!Next]_Line!vars <=> [LineProofs!Next]_LineProofs!vars
  BY <1>3, <1>4, <1>5 DEF Line!Next, LineProofs!Next, Line!vars, LineProofs!vars
<1>7. LineProofs!TypeOK <=> Line!TypeOK
  BY DEF Line!TypeOK, LineProofs!TypeOK, Line!Bytes, LineProofs!Bytes,
         Line!Positions, LineProofs!Positions, Line!Statuses, LineProofs!Statuses
<1>8. LineProofs!SampleWhole <=> Line!SampleWhole
  BY DEF Line!SampleWhole, LineProofs!SampleWhole
<1>9. LineProofs!BacklogBound <=> Line!BacklogBound
  BY DEF Line!BacklogBound, LineProofs!BacklogBound
<1> QED BY <1>1, <1>2, <1>6, <1>7, <1>8, <1>9

\* What is proved of the console alone holds of it inside the control process:
\* in particular, every control sample posted to the main thread is made of a
\* whole frame, and what the driver does is not sent later and later.
THEOREM ConsoleInside == Spec => [](Line!TypeOK /\ Line!SampleWhole /\ Line!BacklogBound)
<1>1. Line!Spec => LineProofs!Spec
  BY SameConsole, PTL DEF Line!Spec, LineProofs!Spec
<1>0. LineProofs!ConsoleAssumption BY ControlAssumption, SameConsole
<1>2. LineProofs!Spec => []LineProofs!TypeOK BY <1>0, LineProofs!TypeCorrect
<1>3. LineProofs!Spec => []LineProofs!SampleWhole BY <1>0, LineProofs!SamplesWhole
<1>4. LineProofs!Spec => []LineProofs!BacklogBound BY <1>0, LineProofs!BacklogBounded
<1> QED BY <1>1, <1>2, <1>3, <1>4, SameConsole, ReadingThread, PTL

-----------------------------------------------------------------------------
(* The main thread *)

\* The types of the variables the reading thread does not have.
MainTypeOK ==
    /\ posted \in Seq(Signals)
    /\ cache \in Caches
    /\ published \in Caches
    /\ light \in Commands \cup {BrakesOn}
    /\ linkStatus \in DevLinkStatuses
    /\ reported \in LinkStatuses \cup Garbage
    /\ devPath \in BOOLEAN
    /\ iodev \in {"null", "connected", "unconnected"}
    /\ readTimer \in BOOLEAN
    /\ waiting \in BOOLEAN
    /\ gaveUp \in BOOLEAN
    /\ estop \in BOOLEAN

\* Statuses are raised in the reading thread's steps only, and the newest one
\* is either still queued or known: this is inductive with the types.
MainInv == MainTypeOK /\ OneRequest /\ WheelCurrent

\* A queue that is delivered from the front and appended to at the end.
LEMMA TailSignals ==
    ASSUME posted \in Seq(Signals), posted # <<>>
    PROVE  /\ Tail(posted) \in Seq(Signals)
           /\ Head(posted) = posted[1] /\ posted[1] \in Signals
           /\ Len(Tail(posted)) = Len(posted) - 1
           /\ Len(posted) \in Nat \ {0}
           /\ \A i \in 1..Len(Tail(posted)) : Tail(posted)[i] = posted[i + 1]
OBVIOUS

\* Appending one status makes it the newest one.
LEMMA PostStatus ==
    ASSUME MainInv, NEW s \in LinkStatuses, status' = s,
           NEW rest \in Seq(Signals),
           \A i \in 1..Len(rest) : rest[i].sig # "status",
           posted' = posted \o (<<StatusSignal(s)>> \o rest),
           UNCHANGED linkStatus
    PROVE  posted' \in Seq(Signals) /\ WheelCurrent'
<1> DEFINE new == <<StatusSignal(s)>> \o rest
           n == Len(posted)
<1>0. posted \in Seq(Signals) BY DEF MainInv, MainTypeOK
<1>1. StatusSignal(s) \in Signals BY DEF StatusSignal, Signals
<1>2. /\ new \in Seq(Signals) /\ Len(new) = Len(rest) + 1
      /\ new[1] = StatusSignal(s)
      /\ \A i \in 2..Len(new) : new[i] = rest[i - 1]
  BY <1>1
<1>3. \A i \in 2..Len(new) : new[i].sig # "status" BY <1>2
<1> HIDE DEF new
<1>4. /\ posted' \in Seq(Signals)
      /\ n \in Nat /\ Len(new) \in Nat
      /\ Len(posted') = n + Len(new)
      /\ \A i \in (n + 1)..Len(posted') : posted'[i] = new[i - n]
  BY <1>0, <1>2 DEF new
<1>5. n + 1 \in DOMAIN posted' /\ posted'[n + 1] = StatusSignal(s)
  BY <1>2, <1>4
<1>6. posted'[n + 1].sig = "status" /\ posted'[n + 1].val = s
  BY <1>5 DEF StatusSignal
<1>7. n + 1 \in QueuedStatuses' BY <1>5, <1>6 DEF QueuedStatuses
<1>8. \A i \in QueuedStatuses' : i <= n + 1
  <2> SUFFICES ASSUME NEW i \in DOMAIN posted', posted'[i].sig = "status", i > n + 1
               PROVE  FALSE
    BY <1>4 DEF QueuedStatuses
  <2>1. i \in (n + 1)..Len(posted') /\ i > n + 1 BY <1>4
  <2>2. i - n \in 2..Len(new) BY <1>4, <2>1
  <2>3. posted'[i] = new[i - n] BY <1>4, <2>1
  <2> QED BY <2>2, <2>3, <1>3
<1>9. ASSUME NEW i \in QueuedStatuses', \A j \in QueuedStatuses' : j <= i
      PROVE  posted'[i].val = status'
  <2>1. i \in DOMAIN posted' BY DEF QueuedStatuses
  <2>0. i \in Int BY <1>4, <2>1
  <2>2. i = n + 1
    <3>1. i <= n + 1 BY <1>8
    <3>2. n + 1 <= i BY <1>7, <1>9
    <3> QED BY <1>4, <2>0, <3>1, <3>2
  <2> QED BY <2>2, <1>6
<1> QED BY <1>4, <1>7, <1>9 DEF WheelCurrent

\* The reading thread leaves the rest alone.
LEMMA PortStepInv == MainInv /\ PortStep => MainInv'
<1> SUFFICES ASSUME MainInv, PortStep PROVE MainInv' OBVIOUS
<1>1. status' \in LinkStatuses
  BY DEF PortStep, Line!InitUart, Line!ReadTimeout, LinkStatuses
<1>2. posted' = posted \o (<<StatusSignal(status')>> \o <<>>)
  <2>1. <<StatusSignal(status')>> \o <<>> = <<StatusSignal(status')>> OBVIOUS
  <2> QED BY <2>1 DEF PortStep, Post
<1>3. UNCHANGED <<pub, told, poll, outside>> BY DEF PortStep
<1>4. <<>> \in Seq(Signals) /\ \A i \in 1..Len(<<>>) : <<>>[i].sig # "status" OBVIOUS
<1>5. posted' \in Seq(Signals) /\ WheelCurrent'
  BY <1>1, <1>2, <1>3, <1>4, PostStatus DEF pub
<1> QED BY <1>3, <1>5 DEF MainInv, MainTypeOK, OneRequest, pub, told, poll, outside

LEMMA ReadStepInv ==
    ASSUME MainInv, NEW command \in Commands, ReadStep(command)
    PROVE  MainInv'
<1> DEFINE rest == <<[sig |-> "data", val |-> command],
                     [sig |-> "light", val |-> command]>>
<1>1. UNCHANGED <<pub, told, poll, outside>> BY DEF ReadStep
<1>2. CASE sample' = <<>>
  <2>1. UNCHANGED status
    <3>1. PICK n \in MinChunk..MaxChunk : Line!HandleUartData(n)
      BY DEF ReadStep, Line!Read
    <3>2. ASSUME NEW b, Line!HasFrame(b) PROVE Line!FrameOf(b) # <<>>
      <4>1. FrameLen \in Nat /\ FrameLen >= 3
        BY ControlAssumption DEF Line!ConsoleAssumption
      <4>2. Len(Line!FrameOf(b)) = FrameLen BY <4>1 DEF Line!FrameOf
      <4> QED BY <4>1, <4>2
    <3> QED BY <1>2, <3>1, <3>2 DEF Line!HandleUartData
  <2>2. posted' = posted
    BY <1>2 DEF ReadStep, Post, MainInv, MainTypeOK
  <2> QED BY <1>1, <2>1, <2>2
       DEF MainInv, MainTypeOK, OneRequest, WheelCurrent, QueuedStatuses,
           pub, told, poll, outside
<1>3. CASE sample' # <<>>
  <2>1. status' = "CONNECTED_DATA"
    BY <1>3 DEF ReadStep, Line!Read, Line!HandleUartData
  <2>2. /\ rest \in Seq(Signals)
        /\ \A i \in 1..Len(rest) : rest[i].sig # "status"
    BY DEF Signals
  <2>3. posted' = posted \o (<<StatusSignal(status')>> \o rest)
    BY <1>3 DEF ReadStep, Post
  <2> HIDE DEF rest
  <2>4. posted' \in Seq(Signals) /\ WheelCurrent'
    BY <1>1, <2>1, <2>2, <2>3, PostStatus DEF LinkStatuses, pub
  <2> QED BY <1>1, <2>4 DEF MainInv, MainTypeOK, OneRequest, pub, told, poll, outside
<1> QED BY <1>2, <1>3

\* The delivery of one signal.
LEMMA DeliverSignalInv == MainInv /\ DeliverSignal => MainInv'
<1> SUFFICES ASSUME MainInv, DeliverSignal PROVE MainInv' OBVIOUS
<1> DEFINE m == Head(posted)
<1>0. posted \in Seq(Signals) /\ posted # <<>> /\ posted' = Tail(posted)
  BY DEF MainInv, MainTypeOK, DeliverSignal
<1>1. /\ posted' \in Seq(Signals)
      /\ m = posted[1] /\ m \in Signals
      /\ Len(posted') = Len(posted) - 1
      /\ Len(posted) \in Nat \ {0}
      /\ \A i \in 1..Len(posted') : posted'[i] = posted[i + 1]
  BY <1>0, TailSignals
<1>2. UNCHANGED <<line, told, poll, outside>> BY DEF DeliverSignal
<1>3. /\ DOMAIN posted = 1..Len(posted) /\ DOMAIN posted' = 1..Len(posted')
  BY <1>0, <1>1
<1>4. \A i \in DOMAIN posted' : i + 1 \in DOMAIN posted /\ posted'[i] = posted[i + 1]
  BY <1>1, <1>3
<1>5. \A i \in DOMAIN posted : i # 1 => i - 1 \in DOMAIN posted' /\ posted[i] = posted'[i - 1]
  BY <1>1, <1>3
<1>6. ASSUME NEW i \in QueuedStatuses', \A j \in QueuedStatuses' : j <= i
      PROVE  posted'[i].val = status'
  <2>1. i + 1 \in QueuedStatuses BY <1>4 DEF QueuedStatuses
  <2>2. \A j \in QueuedStatuses : j <= i + 1
    <3> SUFFICES ASSUME NEW j \in QueuedStatuses, j # 1 PROVE j <= i + 1
      BY <1>3, <2>1 DEF QueuedStatuses
    <3>1. j - 1 \in QueuedStatuses' BY <1>5 DEF QueuedStatuses
    <3>2. i \in Int /\ j \in Int BY <1>3 DEF QueuedStatuses
    <3> QED BY <1>6, <3>1, <3>2
  <2>3. posted[i + 1].val = status BY <2>1, <2>2 DEF MainInv, WheelCurrent
  <2> QED BY <1>2, <1>4, <2>3 DEF QueuedStatuses, line
<1>7. MainTypeOK'
  <2> HIDE DEF m
  <2>1. CASE HandleZhongZhiStatusSlot(m)
    <3>1. m.val \in LinkStatuses
      BY <1>1, <2>1 DEF HandleZhongZhiStatusSlot, Signals
    <3> QED BY <1>1, <1>2, <2>1, <3>1
         DEF MainInv, MainTypeOK, told, HandleZhongZhiStatusSlot, DevLinkStatuses,
             poll, outside
  <2>2. CASE HandleZhongZhiControlDataSlot(m)
    <3>1. m.val \in Commands
      BY <1>1, <2>2 DEF HandleZhongZhiControlDataSlot, Signals
    <3> QED BY <1>1, <1>2, <2>2, <3>1
         DEF MainInv, MainTypeOK, told, HandleZhongZhiControlDataSlot, Caches,
             poll, outside
  <2>3. CASE HandleZhongZhiControlLightSlot(m)
    <3>1. m.val \in Commands
      BY <1>1, <2>3 DEF HandleZhongZhiControlLightSlot, Signals
    <3> QED BY <1>1, <1>2, <2>3, <3>1
         DEF MainInv, MainTypeOK, told, HandleZhongZhiControlLightSlot, poll, outside
  <2> QED BY <2>1, <2>2, <2>3 DEF DeliverSignal, m
<1>8. OneRequest' BY <1>2 DEF MainInv, OneRequest, poll
<1>9. QueuedStatuses' = {} /\ status' # "NONE" =>
          linkStatus'.wheel = status' /\ linkStatus'.gearShift = status'
  <2> SUFFICES ASSUME QueuedStatuses' = {}, status' # "NONE"
               PROVE  linkStatus'.wheel = status' /\ linkStatus'.gearShift = status'
    OBVIOUS
  <2>1. QueuedStatuses \subseteq {1}
    <3> SUFFICES ASSUME NEW j \in QueuedStatuses, j # 1 PROVE FALSE OBVIOUS
    <3> QED BY <1>5 DEF QueuedStatuses
  <2>2. CASE m.sig = "status"
    <3>1. 1 \in QueuedStatuses BY <1>1, <1>3, <2>2 DEF QueuedStatuses
    <3>2. \A j \in QueuedStatuses : j <= 1 BY <2>1
    <3>3. m.val = status BY <1>1, <3>1, <3>2 DEF MainInv, WheelCurrent
    <3>4. HandleZhongZhiStatusSlot(m)
      BY <2>2 DEF DeliverSignal, HandleZhongZhiControlDataSlot,
                  HandleZhongZhiControlLightSlot
    <3> QED BY <1>2, <3>3, <3>4 DEF HandleZhongZhiStatusSlot, line
  <2>3. CASE m.sig # "status"
    <3>1. QueuedStatuses = {} BY <1>1, <2>1, <2>3 DEF QueuedStatuses
    <3>2. UNCHANGED linkStatus
      BY <2>3 DEF DeliverSignal, HandleZhongZhiStatusSlot,
                  HandleZhongZhiControlDataSlot, HandleZhongZhiControlLightSlot
    <3> QED BY <1>2, <3>1, <3>2 DEF MainInv, WheelCurrent, line
  <2> QED BY <2>2, <2>3
<1> QED BY <1>6, <1>7, <1>8, <1>9 DEF MainInv, WheelCurrent

\* What the main thread does by itself: its queue and the console's two
\* statuses stay as they are.
LEMMA KeepsWheel ==
    ASSUME MainInv, UNCHANGED <<line, posted>>,
           linkStatus'.wheel = linkStatus.wheel,
           linkStatus'.gearShift = linkStatus.gearShift
    PROVE  WheelCurrent'
BY DEF MainInv, WheelCurrent, QueuedStatuses, line

LEMMA SetsBucket ==
    ASSUME MainInv, NEW s \in LinkStatuses, IodevStatus(s)
    PROVE  /\ linkStatus' \in DevLinkStatuses
           /\ linkStatus'.wheel = linkStatus.wheel
           /\ linkStatus'.gearShift = linkStatus.gearShift
BY DEF MainInv, MainTypeOK, IodevStatus, DevLinkStatuses

LEMMA PollInv == MainInv /\ HandleTimeOut => MainInv'
<1> SUFFICES ASSUME MainInv, HandleTimeOut PROVE MainInv' OBVIOUS
<1>1. CASE WaitForDevice
  <2>1. /\ linkStatus' \in DevLinkStatuses
        /\ linkStatus'.wheel = linkStatus.wheel
        /\ linkStatus'.gearShift = linkStatus.gearShift
    BY <1>1, SetsBucket DEF WaitForDevice, LinkStatuses
  <2>2. WheelCurrent' BY <1>1, <2>1, KeepsWheel DEF WaitForDevice
  <2> QED BY <1>1, <2>1, <2>2
       DEF WaitForDevice, MainInv, MainTypeOK, told, OneRequest, outside
<1>2. CASE InitDevice
  <2>1. WheelCurrent' BY <1>2, KeepsWheel DEF InitDevice, pub
  <2> QED BY <1>2, <2>1 DEF InitDevice, MainInv, MainTypeOK, told, OneRequest, pub, outside
<1>3. CASE ReadIOState
  <2>1. WheelCurrent' BY <1>3, KeepsWheel DEF ReadIOState, pub
  <2>2. waiting' \in BOOLEAN BY <1>3 DEF ReadIOState
  <2>3. gaveUp' \in BOOLEAN BY <1>3 DEF ReadIOState, MainInv, MainTypeOK
  <2> QED BY <1>3, <2>1, <2>2, <2>3
       DEF ReadIOState, MainInv, MainTypeOK, told, OneRequest, pub, outside
<1> QED BY <1>1, <1>2, <1>3 DEF HandleTimeOut

LEMMA ReadyInv ==
    ASSUME MainInv, NEW ok \in BOOLEAN, HandleReadIOStateReady(ok)
    PROVE  MainInv'
<1>1. PICK s \in LinkStatuses : IodevStatus(s)
  <2>1. CASE ok BY <2>1 DEF HandleReadIOStateReady, LinkStatuses
  <2>2. CASE ~ ok BY <2>2 DEF HandleReadIOStateReady, LinkStatuses
  <2> QED BY <2>1, <2>2
<1>2. /\ linkStatus' \in DevLinkStatuses
      /\ linkStatus'.wheel = linkStatus.wheel
      /\ linkStatus'.gearShift = linkStatus.gearShift
  BY <1>1, SetsBucket
<1>3. WheelCurrent' BY <1>2, KeepsWheel DEF HandleReadIOStateReady
<1>4. cache' \in Caches
  BY DEF HandleReadIOStateReady, MainInv, MainTypeOK, Caches
<1> QED BY <1>2, <1>3, <1>4
     DEF HandleReadIOStateReady, MainInv, MainTypeOK, told, OneRequest, outside

LEMMA MainInvStep == MainInv /\ [Next]_vars => MainInv'
<1> SUFFICES ASSUME MainInv, [Next]_vars PROVE MainInv' OBVIOUS
<1>1. CASE PortStep BY <1>1, PortStepInv
<1>2. CASE \E command \in Commands : ReadStep(command) BY <1>2, ReadStepInv
<1>3. CASE DeliverSignal BY <1>3, DeliverSignalInv
<1>4. CASE HandlePubStatusTimerOut
  <2>1. WheelCurrent' BY <1>4, KeepsWheel DEF HandlePubStatusTimerOut, pub
  <2>2. reported' \in LinkStatuses \cup Garbage
    BY <1>4 DEF HandlePubStatusTimerOut, MainInv, MainTypeOK, DevLinkStatuses
  <2> QED BY <1>4, <2>1, <2>2
       DEF HandlePubStatusTimerOut, MainInv, MainTypeOK, OneRequest, pub, poll, outside
<1>9. CASE HandlePubDataTimerOut
  <2>1. WheelCurrent' BY <1>9, KeepsWheel DEF HandlePubDataTimerOut, pub
  <2> QED BY <1>9, <2>1
       DEF HandlePubDataTimerOut, MainInv, MainTypeOK, OneRequest, pub, poll, outside
<1>5. CASE HandleTimeOut BY <1>5, PollInv
<1>6. CASE \E ok \in BOOLEAN : HandleReadIOStateReady(ok) BY <1>6, ReadyInv
<1>7. CASE DeviceChanges
  <2>1. WheelCurrent' BY <1>7, KeepsWheel DEF DeviceChanges, pub
  <2> QED BY <1>7, <2>1
       DEF DeviceChanges, MainInv, MainTypeOK, told, OneRequest, pub, outside
<1>8. CASE UNCHANGED vars
  <2>1. WheelCurrent' BY <1>8, KeepsWheel DEF vars, pub
  <2> QED BY <1>8, <2>1
       DEF vars, MainInv, MainTypeOK, OneRequest, pub, told, poll, outside
<1> QED BY <1>1, <1>2, <1>3, <1>4, <1>5, <1>6, <1>7, <1>8, <1>9 DEF Next

THEOREM MainInvariance == Spec => []MainInv
<1>1. Init => MainInv
  <2> SUFFICES ASSUME Init PROVE MainInv OBVIOUS
  <2>1. MainTypeOK
    <3>1. posted \in Seq(Signals) BY DEF Init
    <3>2. cache \in Caches BY DEF Init, Caches
    <3>3. linkStatus \in DevLinkStatuses BY DEF Init, DevLinkStatuses
    <3>4. reported \in LinkStatuses \cup Garbage BY DEF Init
    <3> QED BY <3>1, <3>2, <3>3, <3>4 DEF Init, MainTypeOK
  <2>2. WheelCurrent
    BY DEF Init, WheelCurrent, QueuedStatuses, Line!Init
  <2> QED BY <2>1, <2>2 DEF MainInv, OneRequest, Init
<1> QED BY <1>1, MainInvStep, PTL DEF Spec

\* Every variable of the control process keeps its type: in particular the
\* main thread's queue holds only statuses of the console and commands.
THEOREM TypeCorrect == Spec => []TypeOK
<1>1. Line!TypeOK /\ MainInv => TypeOK BY DEF MainInv, MainTypeOK, told, TypeOK
<1> QED BY <1>1, ConsoleInside, MainInvariance, PTL

\* One request is outstanding at most and never without the master it was sent
\* with: the poll timer and the reply exclude each other.
THEOREM RequestsOneByOne == Spec => []OneRequest
<1>1. MainInv => OneRequest BY DEF MainInv
<1> QED BY <1>1, MainInvariance, PTL

\* What is published about wheel and gear shift lags behind the console by what
\* is queued and by nothing else.
THEOREM WheelNotStale == Spec => []WheelCurrent
<1>1. MainInv => WheelCurrent BY DEF MainInv
<1> QED BY <1>1, MainInvariance, PTL
=============================================================================
