------------------------------- MODULE Frames -------------------------------
(***************************************************************************)
(* One TCP connection between a vehicle and the gateway, byte by byte: the *)
(* codec src/rcd/pubinc/jt808 and the reading of a DevHandle.  Lines end   *)
(* in 0D 0A and their contents are escaped so as to hold neither.  TCP     *)
(* loses nothing and keeps the order, but may hand over the stream cut at  *)
(* any byte, and readLine returns the start of a line if that is all there *)
(* is.  The sender is the vehicle, which encodes as the codec does.        *)
(*                                                                         *)
(* A header is the message id and the length, of a byte each: the serial   *)
(* number and the package counts, which no receiver looks at, are left     *)
(* out.  Lines are shorter than readLine's buffer.                         *)
(***************************************************************************)
EXTENDS Naturals, Sequences, SequencesExt

CONSTANTS Ids,      \* message ids, bytes
          Values,   \* the bytes bodies are made of
          MaxBody,  \* bound: length of a body
          MaxSent   \* bound: messages sent

ASSUME FramesAssumption ==
    /\ Ids \cup Values \subseteq 0..255
    /\ MaxBody \in 0..255
    /\ MaxSent \in Nat

VARIABLES type,      \* of the codec, the same at both ends
          flight,    \* messages sent that have not arrived completely
          cut,       \* bytes of the first of them that have arrived
          received,  \* messages passed to HandleCmd
          whole,     \* history: messages that arrived in one piece
          sent       \* messages sent so far

vars == <<type, flight, cut, received, whole, sent>>

Bodies(values) == UNION {[1..n -> values] : n \in 0..MaxBody}
Messages == [id : Ids, body : Bodies(Values)]

-----------------------------------------------------------------------------
(* The codec *)

HeadLen == 2

CR == 13
LF == 10

Escape(b) ==
    CASE b = CR -> <<CR, 1>>
      [] b = LF -> <<CR, 2>>
      [] type = "cloud" /\ b \in {62, 26} -> <<b - 1, 2>>
      [] type = "cloud" /\ b \in {61, 25} -> <<b, 1>>
      [] OTHER -> <<b>>

\* Mutated reverseEncode: the line feed is not escaped.
EncodeWithLF(data) ==
    FlattenSeq([i \in DOMAIN data |->
                    IF data[i] = LF THEN <<LF>> ELSE Escape(data[i])])
        \o <<CR, LF>>

reverseEncode(data) ==
    FlattenSeq([i \in DOMAIN data |-> Escape(data[i])]) \o <<CR, LF>>

Escapes == IF type = "cloud" THEN {CR, 61, 25} ELSE {CR}

Unescaped(b, next) ==
    IF b = CR THEN IF next = 2 THEN LF ELSE CR
              ELSE IF next = 1 THEN b ELSE b + 1

\* The last two bytes are taken for the line end, whatever they are.
reverseDecode(data) ==
    LET From[i \in 1..(Len(data) + 1)] ==
            IF i + 2 > Len(data) THEN <<>>
            ELSE IF data[i] \in Escapes
                 THEN <<Unescaped(data[i], data[i+1])>> \o From[i+2]
                 ELSE <<data[i]>> \o From[i+1]
    IN  From[1]

\* The bits in which two bytes differ.
Xor(a, b) ==
    LET Bit(w) == IF (a \div w) % 2 = (b \div w) % 2 THEN 0 ELSE w
    IN  Bit(1) + Bit(2) + Bit(4) + Bit(8) + Bit(16) + Bit(32) + Bit(64) + Bit(128)

checkSum(data) ==
    LET Sum[i \in 0..Len(data)] ==
            IF i = 0 THEN 0 ELSE Xor(Sum[i-1], data[i])
    IN  Sum[Len(data)]

enCodeMsg(msg) ==
    LET data == <<msg.id, Len(msg.body)>> \o msg.body
    IN  reverseEncode(Append(data, checkSum(data)))

\* Mutated deCodeMsg: the length of the body is not compared.
DecodeAnyLength(line) ==
    LET temp == reverseDecode(line)
        len  == Len(temp)
    IN  IF len > HeadLen /\ temp[len] = checkSum(Front(temp))
        THEN <<[id |-> temp[1], body |-> SubSeq(temp, HeadLen + 1, len)]>>
        ELSE <<>>

\* The message, or none.  A line too short for a header is read beyond its
\* end, and then refused for its length whatever is found there.
deCodeMsg(line) ==
    LET temp == reverseDecode(line)
        len  == Len(temp)
    IN  IF /\ len > HeadLen
           /\ temp[len] = checkSum(Front(temp))
           /\ len = temp[2] + 1 + HeadLen
        THEN <<[id |-> temp[1], body |-> SubSeq(temp, HeadLen + 1, len - 1)]>>
        ELSE <<>>

-----------------------------------------------------------------------------
(* Reading *)

\* Where the line that starts at i ends: at a line feed, or with the data.
LineEnd(data, i) ==
    CHOOSE j \in i..Len(data) :
        /\ data[j] = LF \/ j = Len(data)
        /\ \A h \in i..(j - 1) : data[h] # LF

\* Mutated ReadDataFromDev: reading stops at a line that is refused.
StopAtRefused(data) ==
    LET From[i \in 1..(Len(data) + 1)] ==
            LET msg == deCodeMsg(SubSeq(data, i, LineEnd(data, i)))
            IN  IF i > Len(data) \/ msg = <<>> THEN <<>>
                ELSE msg \o From[LineEnd(data, i) + 1]
    IN  From[1]

\* Line after line is read; those that can be decoded are handled and the
\* others skipped.
ReadDataFromDev(data) ==
    LET From[i \in 1..(Len(data) + 1)] ==
            IF i > Len(data) THEN <<>>
            ELSE deCodeMsg(SubSeq(data, i, LineEnd(data, i)))
                     \o From[LineEnd(data, i) + 1]
    IN  From[1]

-----------------------------------------------------------------------------
Init ==
    /\ type \in {"cloud", "default"}
    /\ flight = <<>>
    /\ cut = 0
    /\ received = <<>>
    /\ whole = <<>>
    /\ sent = 0

SendDataToDev(msg) ==
    /\ sent < MaxSent
    /\ sent' = sent + 1
    /\ flight' = Append(flight, msg)
    /\ UNCHANGED <<type, cut, received, whole>>

Stream(msgs) == FlattenSeq([i \in DOMAIN msgs |-> enCodeMsg(msgs[i])])
EndOf(i) == Len(Stream(SubSeq(flight, 1, i)))

\* The next n bytes arrive, and readyRead is emitted.
Arrive(n) ==
    LET upTo == cut + n
        k    == Cardinality({i \in DOMAIN flight : EndOf(i) <= upTo})
    IN  /\ received' = received \o
                       ReadDataFromDev(SubSeq(Stream(flight), cut + 1, upTo))
        /\ whole' = whole \o SubSeq(flight, IF cut = 0 THEN 1 ELSE 2, k)
        /\ flight' = SubSeq(flight, k + 1, Len(flight))
        /\ cut' = upTo - EndOf(k)
        /\ UNCHANGED <<type, sent>>

Next ==
    \/ \E msg \in Messages : SendDataToDev(msg)
    \/ \E n \in 1..(Len(Stream(flight)) - cut) : Arrive(n)

Spec == Init /\ [][Next]_vars

-----------------------------------------------------------------------------
(* Properties *)

TypeOK ==
    /\ type \in {"cloud", "default"}
    /\ flight \in Seq(Messages)
    /\ cut \in 0..(2 * (HeadLen + MaxBody + 1) + 1)
    /\ received \in Seq([id : 0..255, body : Bodies(0..255)])
    /\ whole \in Seq(Messages)
    /\ sent \in 0..MaxSent

\* s is what is left of t when some of its elements are struck out.
Within(s, t) ==
    \E at \in [DOMAIN s -> DOMAIN t] :
        /\ \A i, j \in DOMAIN s : i < j => at[i] < at[j]
        /\ \A i \in DOMAIN s : s[i] = t[at[i]]

\* A message that arrives in one piece is handled, in its turn and as it was
\* sent, whatever bytes it holds and however the ones before it were torn: the
\* torn one takes no other message with it.
WholeHandled == Within(whole, received)

\* When the reading starts and ends between two messages, it handles those
\* that arrived and nothing else, no matter what was torn earlier.
NothingInvented ==
    [][cut = 0 /\ cut' = 0 =>
          received' = received \o SubSeq(whole', Len(whole) + 1, Len(whole'))]_vars
==============================================================================
