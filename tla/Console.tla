------------------------------- MODULE Console -------------------------------
(***************************************************************************)
(* The driver's console on its serial line: the reading thread of          *)
(* src/rcd/Control/src/zhongzhi.cpp (StartLoop, InitUart, HandleUartData). *)
(* The console (external) repeats frames of FrameLen bytes; a byte is its  *)
(* position in the frame and the opening of the port it arrived in.  Only  *)
(* the first two bytes of a frame are its header and only the last its     *)
(* tail: the ranges of the fields between them exclude a second match      *)
(* (no byte 0xff follows a byte 0xaa with 0x55 in the tail's place).       *)
(***************************************************************************)
EXTENDS Integers, Sequences

CONSTANTS FrameLen,   \* bytes of a frame: 25 in the code
          MinChunk,   \* fewest and most bytes one readAll() returns
          MaxChunk,
          MaxOpens    \* bound: openings of the port per behaviour

ASSUME ConsoleAssumption ==
    /\ FrameLen \in Nat /\ FrameLen >= 3
    /\ MinChunk \in Nat \ {0}
    /\ MaxChunk \in Nat /\ MinChunk <= MaxChunk
    /\ MaxOpens \in Nat

(***************************************************************************)
(*   isOpen    the port is open                                            *)
(*   uartBuf   bytes read and neither handled nor skipped                  *)
(*   status    the link status last emitted                                *)
(*   upcoming  the position of the byte the console sends next             *)
(*   opens     successful openings so far                                  *)
(*   sample    history: the bytes the last step took as a control sample,  *)
(*             empty if it took none                                       *)
(***************************************************************************)
VARIABLES isOpen, uartBuf, status, upcoming, opens, sample

vars == <<isOpen, uartBuf, status, upcoming, opens, sample>>

Positions == 0..(FrameLen - 1)
Bytes == [pos : Positions, opening : 1..MaxOpens]
Statuses == {"NONE", "DISCONNECTED", "CONNECTED_NO_DATA", "CONNECTED_DATA"}

TypeOK ==
    /\ isOpen \in BOOLEAN
    /\ uartBuf \in Seq(Bytes)
    /\ status \in Statuses
    /\ upcoming \in Positions
    /\ opens \in 0..MaxOpens
    /\ sample \in Seq(Bytes) /\ Len(sample) \in {0, FrameLen}

-----------------------------------------------------------------------------
Init ==
    /\ isOpen = FALSE
    /\ uartBuf = <<>>
    /\ status = "NONE"
    /\ upcoming \in Positions
    /\ opens = 0
    /\ sample = <<>>

\* The loop opens a closed port once a second.  The console has gone on
\* sending meanwhile; the buffer keeps what it held when the port was closed.
InitUart ==
    /\ ~ isOpen
    /\ \/ /\ opens < MaxOpens
          /\ isOpen' = TRUE
          /\ status' = "CONNECTED_NO_DATA"
          /\ upcoming' \in Positions
          /\ opens' = opens + 1
       \/ /\ status' = "DISCONNECTED"
          /\ UNCHANGED <<isOpen, upcoming, opens>>
    /\ sample' = <<>>
    /\ UNCHANGED uartBuf

\* The next n bytes of the console.
Received(n) ==
    [i \in 1..n |-> [pos |-> (upcoming + i - 1) % FrameLen, opening |-> opens]]

HasHeader(buf) == Len(buf) >= 2 /\ buf[1].pos = 0 /\ buf[2].pos = 1

\* Mutated HasFrame: the tail byte is not looked at.
HasLength(buf) == HasHeader(buf) /\ Len(buf) >= FrameLen

HasFrame(buf) ==
    /\ HasHeader(buf)
    /\ Len(buf) >= FrameLen
    /\ buf[FrameLen].pos = FrameLen - 1

\* Mutated FrameOf: one byte short.
ShortFrameOf(buf) == SubSeq(buf, 1, FrameLen - 1)

\* The bytes a control sample is made of.
FrameOf(buf) == SubSeq(buf, 1, FrameLen)

\* Mutated RemoveFrame: only the first byte of the frame goes.
RemoveOneByte(buf) == Tail(buf)

RemoveFrame(buf) == SubSeq(buf, FrameLen + 1, Len(buf))

\* Mutated SkipByte: what makes no frame is dropped at once.
SkipAll(buf) == <<>>

SkipByte(buf) == Tail(buf)

\* One pass of HandleUartData: a frame at the head of the buffer is handled
\* and removed; otherwise one byte is dropped, also when the head is a frame
\* of which the rest has not arrived.
HandleUartData(n) ==
    LET buf == uartBuf \o Received(n)
    IN  /\ isOpen
        /\ upcoming' = (upcoming + n) % FrameLen
        /\ \/ /\ HasFrame(buf)
              /\ status' = "CONNECTED_DATA"
              /\ sample' = FrameOf(buf)
              /\ uartBuf' = RemoveFrame(buf)
           \/ /\ ~ HasFrame(buf)
              /\ sample' = <<>>
              /\ uartBuf' = SkipByte(buf)
              /\ UNCHANGED status
        /\ UNCHANGED <<isOpen, opens>>

\* No byte for 50 ms.
ReadTimeout ==
    /\ isOpen
    /\ isOpen' = FALSE
    /\ status' = "DISCONNECTED"
    /\ sample' = <<>>
    /\ UNCHANGED <<uartBuf, upcoming, opens>>

Read == \E n \in MinChunk..MaxChunk : HandleUartData(n)

Next == InitUart \/ Read \/ ReadTimeout

Spec == Init /\ [][Next]_vars

\* waitForReadyRead returns, with bytes or with a timeout.
LiveSpec == Spec /\ WF_vars(Read \/ ReadTimeout)

-----------------------------------------------------------------------------
(* Properties *)

\* A control sample starts with the header of a frame and ends with the tail
\* of one, and its bytes follow each other as the console sent them, unless
\* the port was reopened between two of them: no loss of synchronisation
\* inside an opening makes a sample of two frames.
SampleWhole ==
    sample # <<>> =>
        /\ sample[1].pos = 0
        /\ sample[FrameLen].pos = FrameLen - 1
        /\ \A i \in 1..(FrameLen - 1) :
              \/ sample[i + 1].pos = (sample[i].pos + 1) % FrameLen
              \/ sample[i + 1].opening > sample[i].opening

\* What a driver does is not sent later and later: as long as no read returns
\* more than one frame, the bytes left waiting are bounded.  The worst case is
\* a resynchronisation with every read full: one at the first opening, and two
\* more (before and behind the cut) at each reopening, because the buffer is
\* not cleared.  Each lets FrameLen - 1 passes add MaxChunk - 1 bytes.
BacklogBound ==
    opens > 0 /\ MaxChunk <= FrameLen =>
        Len(uartBuf) <= FrameLen - 2
                        + (2 * opens - 1) * (FrameLen - 1) * (MaxChunk - 1)

\* While the port stays open the console is heard again and again: a frame cut
\* by a read is lost, but never every frame.  It needs reads of two bytes or
\* more; a line that delivers single bytes is never heard.
Heard == <>[]isOpen => []<>(sample # <<>>)
==============================================================================
