---------------------------- MODULE ConsoleProofs ----------------------------
(***************************************************************************)
(* Proofs about Console, for every frame length, chunk size and number of  *)
(* openings: the type invariant, SampleWhole and BacklogBound.             *)
(***************************************************************************)
EXTENDS Console, SequenceTheorems, TLAPS

-----------------------------------------------------------------------------
(* Arithmetic *)

\* A number is its quotient times f plus its remainder.
LEMMA DivMod ==
    ASSUME NEW f \in Nat, f >= 1, NEW x \in Int
    PROVE  /\ x % f \in 0..(f - 1)
           /\ x \div f \in Int
           /\ x = f * (x \div f) + (x % f)
OBVIOUS

\* A multiple of f between -f and f is 0.
LEMMA SmallMultiple ==
    ASSUME NEW f \in Nat, f >= 1, NEW k \in Int, f * k > -f, f * k < f
    PROVE  k = 0
<1>1. CASE k >= 1
  <2>1. f * k >= f BY <1>1
  <2> QED BY <2>1
<1>2. CASE k <= -1
  <2>1. f * k <= -f BY <1>2
  <2> QED BY <2>1
<1>3. CASE k = 0 BY <1>3
<1> QED BY <1>1, <1>2, <1>3

\* The remainder is the only number below f that differs by a multiple of f.
LEMMA ModUnique ==
    ASSUME NEW f \in Nat, f >= 1, NEW x \in Int, NEW q \in Int,
           NEW r \in 0..(f - 1), x = f * q + r
    PROVE  x % f = r
<1> DEFINE d == q - (x \div f)
<1>1. /\ x % f \in 0..(f - 1)
      /\ x \div f \in Int
      /\ x = f * (x \div f) + (x % f)
  BY DivMod
<1>2. d \in Int BY <1>1
<1>3. f * d = f * q - f * (x \div f) BY <1>1
<1>4. f * d = (x % f) - r
  <2>1. f * q = x - r /\ f * (x \div f) = x - (x % f) BY <1>1
  <2> HIDE DEF d
  <2> QED BY <1>1, <1>3, <2>1
<1>5. f * d > -f /\ f * d < f BY <1>1, <1>4
<1>6. d = 0 BY <1>2, <1>5, SmallMultiple
<1> QED BY <1>1, <1>4, <1>6

LEMMA ModSmall ==
    ASSUME NEW f \in Nat, f >= 1, NEW x \in 0..(f - 1)
    PROVE  x % f = x
<1>1. x = f * 0 + x OBVIOUS
<1> QED BY <1>1, ModUnique

LEMMA ModSelf ==
    ASSUME NEW f \in Nat, f >= 1
    PROVE  f % f = 0
<1>1. f = f * 1 + 0 OBVIOUS
<1> QED BY <1>1, ModUnique

\* Adding to a remainder is adding to the number.
LEMMA ModAdd ==
    ASSUME NEW f \in Nat, f >= 1, NEW x \in Int, NEW y \in Int
    PROVE  ((x % f) + y) % f = (x + y) % f
<1> DEFINE z == (x % f) + y
<1>1. /\ x % f \in 0..(f - 1)
      /\ x \div f \in Int
      /\ x = f * (x \div f) + (x % f)
  BY DivMod
<1>2. z \in Int BY <1>1
<1>3. /\ z % f \in 0..(f - 1)
      /\ z \div f \in Int
      /\ z = f * (z \div f) + (z % f)
  BY <1>2, DivMod
<1>4. (x \div f) + (z \div f) \in Int BY <1>1, <1>3
<1>5. f * ((x \div f) + (z \div f)) = f * (x \div f) + f * (z \div f)
  BY <1>1, <1>3
<1>6. x + y = f * ((x \div f) + (z \div f)) + (z % f) BY <1>1, <1>3, <1>5
<1>7. x + y \in Int OBVIOUS
<1>8. (x + y) % f = z % f
  <2> HIDE DEF z
  <2> QED BY <1>3, <1>4, <1>6, <1>7, ModUnique
<1> QED BY <1>8

\* Products grow with their first factor.
LEMMA MulMono ==
    ASSUME NEW a \in Int, NEW b \in Int, NEW k \in Nat, a <= b
    PROVE  a * k <= b * k
<1>1. (b - a) * k >= 0 OBVIOUS
<1>2. (b - a) * k = b * k - a * k OBVIOUS
<1> QED BY <1>1, <1>2

-----------------------------------------------------------------------------
(* Buffers.  Bytes of one opening follow each other in the frames, and the  *)
(* bytes of the current opening lead up to the one the console sends next.  *)

Contiguous(b) ==
    \A i, j \in 1..Len(b) : i <= j =>
        /\ b[i].opening <= b[j].opening
        /\ b[i].opening = b[j].opening =>
              b[j].pos = (b[i].pos + (j - i)) % FrameLen

LeadsTo(b, up, op) ==
    \A i \in 1..Len(b) :
        /\ b[i].opening <= op
        /\ b[i].opening = op => up = (b[i].pos + (Len(b) + 1 - i)) % FrameLen

\* The same buffer without its first k bytes.
Suffix(b, k, c) ==
    /\ c \in Seq(Bytes)
    /\ Len(c) = Len(b) - k
    /\ \A i \in 1..Len(c) : c[i] = b[i + k]

LEMMA FrameLenType == FrameLen \in Nat /\ FrameLen >= 3 /\ FrameLen >= 1
BY ConsoleAssumption

\* A byte of a sequence of bytes.
LEMMA ByteType ==
    ASSUME NEW b \in Seq(Bytes), NEW i \in 1..Len(b)
    PROVE  /\ b[i] \in Bytes
           /\ b[i].pos \in Positions /\ b[i].pos \in Nat
           /\ b[i].opening \in 1..MaxOpens /\ b[i].opening \in Nat
<1>1. b[i] \in Bytes OBVIOUS
<1> QED BY <1>1, FrameLenType, ConsoleAssumption DEF Bytes, Positions

LEMMA TailSuffix ==
    ASSUME NEW b \in Seq(Bytes), Len(b) >= 1
    PROVE  Suffix(b, 1, SkipByte(b))
BY DEF Suffix, SkipByte

LEMMA FrameSuffix ==
    ASSUME NEW b \in Seq(Bytes), Len(b) >= FrameLen
    PROVE  Suffix(b, FrameLen, RemoveFrame(b))
<1> DEFINE c == SubSeq(b, FrameLen + 1, Len(b))
<1>1. /\ FrameLen + 1 \in Int /\ Len(b) \in Int
      /\ \A i \in (FrameLen + 1)..Len(b) : b[i] \in Bytes
  BY FrameLenType
<1>2. /\ c \in Seq(Bytes)
      /\ Len(c) = IF FrameLen + 1 <= Len(b) THEN Len(b) - (FrameLen + 1) + 1 ELSE 0
      /\ \A i \in 1..(Len(b) - (FrameLen + 1) + 1) : c[i] = b[(FrameLen + 1) + i - 1]
  BY <1>1, SubSeqProperties
<1> HIDE DEF c
<1>3. Len(c) = Len(b) - FrameLen BY <1>2, FrameLenType
<1>4. ASSUME NEW i \in 1..Len(c) PROVE c[i] = b[i + FrameLen]
  <2>1. (FrameLen + 1) + i - 1 = i + FrameLen BY FrameLenType
  <2>2. i \in 1..(Len(b) - (FrameLen + 1) + 1) BY <1>3, FrameLenType
  <2> QED BY <1>2, <2>1, <2>2
<1> QED BY <1>2, <1>3, <1>4 DEF Suffix, RemoveFrame, c

LEMMA SuffixKeeps ==
    ASSUME NEW b \in Seq(Bytes), NEW c, NEW k \in Nat, Suffix(b, k, c),
           NEW up, NEW op, Contiguous(b), LeadsTo(b, up, op)
    PROVE  Contiguous(c) /\ LeadsTo(c, up, op)
<1>1. \A i \in 1..Len(c) : c[i] = b[i + k] /\ i + k \in 1..Len(b)
  BY DEF Suffix
<1>2. Contiguous(c)
  <2> SUFFICES ASSUME NEW i \in 1..Len(c), NEW j \in 1..Len(c), i <= j
               PROVE  /\ c[i].opening <= c[j].opening
                      /\ c[i].opening = c[j].opening =>
                            c[j].pos = (c[i].pos + (j - i)) % FrameLen
    BY DEF Contiguous
  <2>1. i + k <= j + k /\ (j + k) - (i + k) = j - i OBVIOUS
  <2> QED BY <1>1, <2>1 DEF Contiguous
<1>3. LeadsTo(c, up, op)
  <2> SUFFICES ASSUME NEW i \in 1..Len(c)
               PROVE  /\ c[i].opening <= op
                      /\ c[i].opening = op =>
                            up = (c[i].pos + (Len(c) + 1 - i)) % FrameLen
    BY DEF LeadsTo
  <2>1. Len(c) + 1 - i = Len(b) + 1 - (i + k) BY DEF Suffix
  <2> QED BY <1>1, <2>1 DEF LeadsTo
<1> QED BY <1>2, <1>3

\* What the buffer holds after n bytes were received.
LEMMA ReceivedBytes ==
    ASSUME NEW n \in Nat, TypeOK, opens >= 1
    PROVE  LET b == uartBuf \o Received(n)
           IN  /\ b \in Seq(Bytes)
               /\ Len(b) = Len(uartBuf) + n
               /\ \A i \in 1..Len(b) :
                     b[i] = IF i <= Len(uartBuf) THEN uartBuf[i]
                            ELSE [pos |-> (upcoming + (i - Len(uartBuf) - 1)) % FrameLen,
                                  opening |-> opens]
<1> DEFINE r == Received(n)
<1>1. ASSUME NEW k \in 1..n
      PROVE  /\ r[k] = [pos |-> (upcoming + (k - 1)) % FrameLen, opening |-> opens]
             /\ r[k] \in Bytes
  <2>1. upcoming \in Int BY FrameLenType DEF TypeOK, Positions
  <2>2. upcoming + k - 1 = upcoming + (k - 1) /\ upcoming + (k - 1) \in Int BY <2>1
  <2>3. r[k] = [pos |-> (upcoming + (k - 1)) % FrameLen, opening |-> opens]
    BY <2>2 DEF Received
  <2>4. (upcoming + (k - 1)) % FrameLen \in 0..(FrameLen - 1)
    BY <2>2, DivMod, FrameLenType
  <2>5. opens \in 1..MaxOpens BY ConsoleAssumption DEF TypeOK
  <2> QED BY <2>3, <2>4, <2>5 DEF Bytes, Positions
<1>2. r \in Seq(Bytes) /\ Len(r) = n
  <2>1. r = [k \in 1..n |-> r[k]] BY DEF Received
  <2>2. r \in [1..n -> Bytes]
    <3> HIDE DEF r
    <3> QED BY <1>1, <2>1
  <2> HIDE DEF r
  <2> QED BY <2>2
<1>3. uartBuf \in Seq(Bytes) BY DEF TypeOK
<1> DEFINE b == uartBuf \o r
<1> HIDE DEF r
<1>4. /\ b \in Seq(Bytes) /\ Len(b) = Len(uartBuf) + n
      /\ \A i \in 1..Len(b) : b[i] = IF i <= Len(uartBuf) THEN uartBuf[i]
                                     ELSE r[i - Len(uartBuf)]
  BY <1>2, <1>3
<1> HIDE DEF b
<1>5. ASSUME NEW i \in 1..Len(b), ~ i <= Len(uartBuf)
      PROVE  r[i - Len(uartBuf)]
               = [pos |-> (upcoming + (i - Len(uartBuf) - 1)) % FrameLen, opening |-> opens]
  <2>1. i - Len(uartBuf) \in 1..n BY <1>3, <1>4, <1>5
  <2> QED BY <1>1, <2>1
<1>6. \A i \in 1..Len(b) :
         b[i] = IF i <= Len(uartBuf) THEN uartBuf[i]
                ELSE [pos |-> (upcoming + (i - Len(uartBuf) - 1)) % FrameLen,
                      opening |-> opens]
  BY <1>4, <1>5
<1> QED BY <1>4, <1>6 DEF b, r

\* Bytes appended in the order of the stream keep the order of the buffer.
LEMMA AppendKeeps ==
    ASSUME NEW a \in Seq(Bytes), NEW b \in Seq(Bytes), NEW n \in Nat,
           NEW L \in Nat, L = Len(a), Len(b) = L + n,
           NEW up \in Positions, NEW op \in Nat,
           \A i \in 1..Len(b) :
              b[i] = IF i <= L THEN a[i]
                     ELSE [pos |-> (up + (i - L - 1)) % FrameLen, opening |-> op],
           Contiguous(a), LeadsTo(a, up, op)
    PROVE  /\ Contiguous(b)
           /\ LeadsTo(b, (up + n) % FrameLen, op)
<1>0. up \in Int /\ FrameLen \in Nat /\ FrameLen >= 1
  BY FrameLenType DEF Positions
<1>3. \A i \in 1..(L + n) :
         b[i] = IF i <= L THEN a[i]
                ELSE [pos |-> (up + (i - L - 1)) % FrameLen, opening |-> op]
  OBVIOUS
<1>4. ASSUME NEW i \in 1..(L + n), i > L
      PROVE  b[i].opening = op /\ b[i].pos = (up + (i - L - 1)) % FrameLen
  <2>1. ~ i <= L BY <1>4
  <2> QED BY <1>3, <2>1
<1>5. ASSUME NEW i \in 1..(L + n), i <= L
      PROVE  /\ i \in 1..L /\ b[i] = a[i]
             /\ b[i].opening \in Nat /\ b[i].opening <= op /\ b[i].pos \in Int
  <2>1. i \in 1..L /\ b[i] = a[i] BY <1>0, <1>3, <1>5
  <2>2. a[i].pos \in Nat /\ a[i].opening \in Nat BY <1>0, <2>1, ByteType
  <2> QED BY <2>1, <2>2 DEF LeadsTo
<1>6. \* a byte at i of the current opening and the j-th byte
      ASSUME NEW i \in 1..(L + n), NEW j \in Nat, j >= L, j >= i - 1, b[i].opening = op
      PROVE  (up + (j - L)) % FrameLen = (b[i].pos + (j + 1 - i)) % FrameLen
  <2>1. CASE i <= L
    <3>0. b[i].pos \in Int BY <1>5, <2>1
    <3>1. up = (b[i].pos + (L + 1 - i)) % FrameLen
      BY <1>5, <1>6, <2>1 DEF LeadsTo
    <3>2. b[i].pos + (L + 1 - i) \in Int /\ j - L \in Int BY <1>0, <3>0
    <3>3. (up + (j - L)) % FrameLen
            = ((b[i].pos + (L + 1 - i)) + (j - L)) % FrameLen
      BY <1>0, <3>1, <3>2, ModAdd
    <3>4. (b[i].pos + (L + 1 - i)) + (j - L) = b[i].pos + (j + 1 - i)
      BY <1>0, <3>0
    <3> QED BY <3>3, <3>4
  <2>2. CASE i > L
    <3>1. b[i].pos = (up + (i - L - 1)) % FrameLen BY <1>4, <2>2
    <3>2. up + (i - L - 1) \in Int /\ j + 1 - i \in Int BY <1>0
    <3>3. (b[i].pos + (j + 1 - i)) % FrameLen
            = ((up + (i - L - 1)) + (j + 1 - i)) % FrameLen
      <4> DEFINE x == up + (i - L - 1)
                 y == j + 1 - i
      <4>1. x \in Int /\ y \in Int BY <3>2
      <4> HIDE DEF x, y
      <4>2. ((x % FrameLen) + y) % FrameLen = (x + y) % FrameLen
        BY <1>0, <4>1, ModAdd
      <4> QED BY <3>1, <4>2 DEF x, y
    <3>4. (up + (i - L - 1)) + (j + 1 - i) = up + (j - L) BY <1>0
    <3> QED BY <3>3, <3>4
  <2> QED BY <1>0, <2>1, <2>2
<1>7. Contiguous(b)
  <2> SUFFICES ASSUME NEW i \in 1..(L + n), NEW j \in 1..(L + n), i <= j
               PROVE  /\ b[i].opening <= b[j].opening
                      /\ b[i].opening = b[j].opening =>
                            b[j].pos = (b[i].pos + (j - i)) % FrameLen
    BY DEF Contiguous
  <2>1. CASE j <= L
    <3>1. i <= L BY <1>0, <2>1
    <3>2. i \in 1..L /\ b[i] = a[i] BY <1>5, <3>1
    <3>3. j \in 1..L /\ b[j] = a[j] BY <1>5, <2>1
    <3> QED BY <3>2, <3>3 DEF Contiguous
  <2>2. CASE j > L
    <3>1. b[j].opening = op /\ b[j].pos = (up + (j - L - 1)) % FrameLen
      BY <1>4, <2>2
    <3>2. b[i].opening <= op
      <4>1. CASE i <= L BY <1>5, <4>1
      <4>2. CASE i > L BY <1>0, <1>4, <4>2
      <4> QED BY <1>0, <4>1, <4>2
    <3>3. ASSUME b[i].opening = op
          PROVE  b[j].pos = (b[i].pos + (j - i)) % FrameLen
      <4>1. j - 1 \in Nat /\ j - 1 >= L /\ j - 1 >= i - 1 BY <1>0, <2>2
      <4>2. (up + (j - 1 - L)) % FrameLen = (b[i].pos + (j - 1 + 1 - i)) % FrameLen
        BY <1>6, <3>3, <4>1
      <4>3. j - 1 - L = j - L - 1 /\ j - 1 + 1 - i = j - i BY <1>0
      <4> QED BY <3>1, <4>2, <4>3
    <3> QED BY <3>1, <3>2, <3>3
  <2> QED BY <1>0, <2>1, <2>2
<1>8. LeadsTo(b, (up + n) % FrameLen, op)
  <2>1. ASSUME NEW i \in 1..Len(b)
        PROVE  /\ b[i].opening <= op
               /\ b[i].opening = op =>
                     (up + n) % FrameLen = (b[i].pos + (Len(b) + 1 - i)) % FrameLen
    <3>0. i \in 1..(L + n) OBVIOUS
    <3>1. b[i].opening <= op
      <4>1. CASE i <= L BY <1>5, <3>0, <4>1
      <4>2. CASE i > L BY <1>0, <1>4, <3>0, <4>2
      <4> QED BY <1>0, <4>1, <4>2
    <3>2. L + n \in Nat /\ L + n >= L /\ L + n >= i - 1 /\ (L + n) - L = n BY <1>0
    <3>3. b[i].opening = op =>
             (up + ((L + n) - L)) % FrameLen = (b[i].pos + ((L + n) + 1 - i)) % FrameLen
      BY <1>6, <3>0, <3>2
    <3>4. Len(b) = L + n OBVIOUS
    <3> QED BY <3>1, <3>2, <3>3, <3>4
  <2> QED BY <2>1 DEF LeadsTo
<1> QED BY <1>7, <1>8

-----------------------------------------------------------------------------
(* The backlog.  A pass that drops a byte lets it grow by MaxChunk - 1, so   *)
(* its bound counts the passes that drop.  In an opening they are the ones   *)
(* before the first header, Left of them to come (Synced), and those that    *)
(* drop a frame cut by a reopening (Cut).                                    *)

FirstPos(b, up) == IF b = <<>> THEN up ELSE b[1].pos
FirstOpening(b, op) == IF b = <<>> THEN op ELSE b[1].opening
Left(p) == IF p = 0 THEN 0 ELSE FrameLen - p

Earlier(e) == (2 * (FrameLen - 1)) * (e - 1)
Backlog(drops) == FrameLen - 2 + drops * (MaxChunk - 1)

Synced(b, up, op, x) ==
    Len(b) <= Backlog(Earlier(FirstOpening(b, op)) + FrameLen - 1 - Left(FirstPos(b, up))) + x

Cut(b, up, op, x) ==
    /\ b # <<>>
    /\ b[1].opening < op
    /\ \A i \in 1..Len(b) : b[i].opening = b[1].opening => i < Left(b[1].pos)
    /\ Len(b) <= Backlog(Earlier(b[1].opening) + 2 * FrameLen - 1 - Left(b[1].pos)) + x

LEMMA LeftType ==
    ASSUME NEW p \in Positions
    PROVE  Left(p) \in Positions /\ Left(p) \in Nat /\ Left(p) <= FrameLen - 1
BY FrameLenType DEF Positions, Left

\* Dropping a byte that is no frame's first brings the next header closer.
LEMMA LeftSteps ==
    ASSUME NEW p \in Positions
    PROVE  Left((p + 1) % FrameLen) = IF p = 0 THEN FrameLen - 1 ELSE Left(p) - 1
<1>0. FrameLen \in Nat /\ FrameLen >= 3 /\ p \in 0..(FrameLen - 1)
  BY FrameLenType DEF Positions
<1>1. CASE p = FrameLen - 1
  <2>1. (p + 1) % FrameLen = 0 BY <1>0, <1>1, ModSelf
  <2> QED BY <1>0, <1>1, <2>1 DEF Left
<1>2. CASE p # FrameLen - 1
  <2>1. p + 1 \in 0..(FrameLen - 1) BY <1>0, <1>2
  <2>2. (p + 1) % FrameLen = p + 1 BY <1>0, <2>1, ModSmall
  <2> QED BY <1>0, <1>2, <2>2 DEF Left
<1> QED BY <1>1, <1>2

LEMMA EarlierGrows ==
    ASSUME NEW e \in Nat, e >= 1
    PROVE  /\ Earlier(e) \in Nat
           /\ \A f \in Nat : f > e => Earlier(f) >= Earlier(e) + 2 * (FrameLen - 1)
<1> DEFINE m == 2 * (FrameLen - 1)
<1>1. m \in Nat BY FrameLenType
<1> HIDE DEF m
<1>2. m * (e - 1) \in Nat BY <1>1
<1>3. ASSUME NEW f \in Nat, f > e
      PROVE  m * (f - 1) >= m * (e - 1) + m
  <2>1. e * m <= (f - 1) * m BY <1>1, <1>3, MulMono
  <2>2. (f - 1) * m = m * (f - 1) /\ e * m = m * (e - 1) + m BY <1>1
  <2> QED BY <1>1, <2>1, <2>2
<1> QED BY <1>2, <1>3 DEF Earlier, m

\* One drop more in the bound makes up for a full read that removes one byte.
LEMMA BacklogGrows ==
    ASSUME NEW u \in Nat, NEW v \in Nat, MaxChunk \in Nat, MaxChunk >= 1
    PROVE  /\ Backlog(u) \in Nat
           /\ Backlog(u) >= FrameLen - 2
           /\ u <= v => Backlog(u) <= Backlog(v)
           /\ u < v => Backlog(u) + MaxChunk - 1 <= Backlog(v)
<1> DEFINE k == MaxChunk - 1
<1>1. k \in Nat OBVIOUS
<1> HIDE DEF k
<1>2. u * k \in Nat /\ v * k \in Nat BY <1>1
<1>3. u <= v => u * k <= v * k BY <1>1, MulMono
<1>4. u < v => u * k + k <= v * k
  <2> SUFFICES ASSUME u < v PROVE u * k + k <= v * k OBVIOUS
  <2>1. (u + 1) * k <= v * k BY <1>1, MulMono
  <2>2. (u + 1) * k = u * k + k BY <1>1
  <2> QED BY <2>1, <2>2
<1>5. Backlog(u) = FrameLen - 2 + u * k /\ Backlog(v) = FrameLen - 2 + v * k
  BY DEF Backlog, k
<1>6. MaxChunk = k + 1 BY DEF k
<1> QED BY <1>1, <1>2, <1>3, <1>4, <1>5, <1>6, FrameLenType

\* A complete frame of one opening is recognised: a buffer that starts with
\* the first byte of one and has its length is cut by a reopening if HasFrame
\* rejects it.
LEMMA RejectedIsCut ==
    ASSUME NEW b \in Seq(Bytes), Contiguous(b), Len(b) >= FrameLen,
           b[1].pos = 0, ~ HasFrame(b)
    PROVE  b[FrameLen].opening > b[1].opening
<1>0. /\ 1 \in 1..Len(b) /\ 2 \in 1..Len(b) /\ FrameLen \in 1..Len(b)
      /\ FrameLen >= 3 /\ FrameLen \in Nat
  BY FrameLenType
<1>1. /\ b[1].opening <= b[2].opening /\ b[2].opening <= b[FrameLen].opening
      /\ b[1].opening = b[2].opening => b[2].pos = (b[1].pos + (2 - 1)) % FrameLen
      /\ b[1].opening = b[FrameLen].opening =>
            b[FrameLen].pos = (b[1].pos + (FrameLen - 1)) % FrameLen
  BY <1>0 DEF Contiguous
<1>2. b[1].opening \in Nat /\ b[2].opening \in Nat /\ b[FrameLen].opening \in Nat
  BY <1>0, ByteType
<1>3. 1 % FrameLen = 1 /\ (FrameLen - 1) % FrameLen = FrameLen - 1
  BY <1>0, ModSmall
<1>4. SUFFICES ASSUME b[1].opening = b[FrameLen].opening PROVE HasFrame(b)
  BY <1>0, <1>1, <1>2
<1>5. b[2].opening = b[1].opening BY <1>1, <1>2, <1>4
<1>6. b[2].pos = 1
  <2>1. b[1].pos + (2 - 1) = 1 OBVIOUS
  <2> QED BY <1>1, <1>3, <1>5, <2>1
<1>7. b[FrameLen].pos = FrameLen - 1
  <2>1. b[1].pos + (FrameLen - 1) = FrameLen - 1 BY <1>0
  <2> QED BY <1>1, <1>3, <1>4, <2>1
<1> QED BY <1>0, <1>6, <1>7 DEF HasFrame, HasHeader

\* The head of a suffix: a later byte of the same opening, one of a later
\* opening, or the byte to come.
LEMMA SuffixHead ==
    ASSUME NEW b \in Seq(Bytes), NEW k \in Nat, k >= 1, k <= Len(b), NEW c,
           Suffix(b, k, c), NEW up \in Positions, NEW op \in Nat,
           Contiguous(b), LeadsTo(b, up, op)
    PROVE  /\ FirstPos(c, up) \in Positions
           /\ FirstOpening(c, op) \in Nat
           /\ FirstOpening(c, op) >= b[1].opening
           /\ FirstOpening(c, op) = b[1].opening =>
                 FirstPos(c, up) = (b[1].pos + k) % FrameLen
           /\ c # <<>> => FirstOpening(c, op) = b[k + 1].opening /\ k + 1 \in 1..Len(b)
<1>1. 1 \in 1..Len(b) /\ b[1].opening \in Nat BY ByteType
<1>2. c \in Seq(Bytes) /\ Len(c) = Len(b) - k BY DEF Suffix
<1>3. CASE c = <<>>
  <2>1. Len(b) = k BY <1>2, <1>3
  <2>2. b[1].opening <= op /\ (b[1].opening = op => up = (b[1].pos + (Len(b) + 1 - 1)) % FrameLen)
    BY <1>1 DEF LeadsTo
  <2>3. Len(b) + 1 - 1 = k BY <2>1
  <2> QED BY <1>3, <2>2, <2>3 DEF FirstPos, FirstOpening
<1>4. CASE c # <<>>
  <2>1. 1 \in 1..Len(c) /\ 1 + k \in 1..Len(b) /\ 1 + k = k + 1 /\ (k + 1) - 1 = k
    BY <1>2, <1>4
  <2>2. c[1] = b[k + 1] BY <2>1 DEF Suffix
  <2>3. /\ b[1].opening <= b[k + 1].opening
        /\ b[1].opening = b[k + 1].opening => b[k + 1].pos = (b[1].pos + ((k + 1) - 1)) % FrameLen
    BY <1>1, <2>1 DEF Contiguous
  <2>4. b[k + 1].opening \in Nat /\ b[k + 1].pos \in Positions
    BY <2>1, ByteType
  <2> QED BY <1>4, <2>1, <2>2, <2>3, <2>4 DEF FirstPos, FirstOpening
<1> QED BY <1>3, <1>4

\* The bound survives a pass that drops a byte ...
LEMMA DropKeepsBound ==
    ASSUME NEW b \in Seq(Bytes), Len(b) >= 1, NEW c, Suffix(b, 1, c),
           NEW up \in Positions, NEW op \in Nat,
           Contiguous(b), LeadsTo(b, up, op), ~ HasFrame(b),
           MaxChunk \in Nat, MaxChunk >= 1,
           Synced(b, up, op, MaxChunk) \/ Cut(b, up, op, MaxChunk)
    PROVE  Synced(c, up, op, 0) \/ Cut(c, up, op, 0)
<1> DEFINE e == b[1].opening
           p == b[1].pos
           g == FirstOpening(c, op)
           q == FirstPos(c, up)
<1>0. /\ FrameLen \in Nat /\ FrameLen >= 3 /\ 1 \in 1..Len(b) /\ b # <<>>
      /\ e \in Nat /\ e >= 1 /\ p \in Positions
      /\ FirstOpening(b, op) = e /\ FirstPos(b, up) = p
  BY FrameLenType, ByteType, ConsoleAssumption DEF FirstOpening, FirstPos
<1>1. /\ c \in Seq(Bytes) /\ Len(c) = Len(b) - 1 /\ Len(c) \in Nat
      /\ \A i \in 1..Len(c) : c[i] = b[i + 1]
  BY DEF Suffix
<1>2. /\ q \in Positions /\ g \in Nat /\ g >= e
      /\ g = e => q = (p + 1) % FrameLen
      /\ c # <<>> => g = b[2].opening /\ 2 \in 1..Len(b) /\ c[1] = b[2]
  <2>1. /\ FirstPos(c, up) \in Positions
        /\ FirstOpening(c, op) \in Nat
        /\ FirstOpening(c, op) >= b[1].opening
        /\ FirstOpening(c, op) = b[1].opening => FirstPos(c, up) = (b[1].pos + 1) % FrameLen
        /\ c # <<>> => FirstOpening(c, op) = b[1 + 1].opening /\ 1 + 1 \in 1..Len(b)
    BY SuffixHead
  <2>2. c # <<>> => 1 \in 1..Len(c) /\ c[1] = b[1 + 1] BY <1>1
  <2>3. 1 + 1 = 2 OBVIOUS
  <2> QED BY <2>1, <2>2, <2>3
<1>3. /\ Left(p) \in Nat /\ Left(p) <= FrameLen - 1
      /\ Left(q) \in Nat /\ Left(q) <= FrameLen - 1
  BY <1>0, <1>2, LeftType
<1>4. /\ Earlier(e) \in Nat /\ Earlier(g) \in Nat
      /\ g > e => Earlier(g) >= Earlier(e) + 2 * (FrameLen - 1)
  <2>1. g >= 1 BY <1>0, <1>2
  <2>2. /\ Earlier(e) \in Nat
        /\ \A f \in Nat : f > e => Earlier(f) >= Earlier(e) + 2 * (FrameLen - 1)
    BY <1>0, EarlierGrows
  <2>3. Earlier(g) \in Nat BY <1>2, <2>1, EarlierGrows
  <2> HIDE DEF e, g
  <2> QED BY <1>2, <2>2, <2>3
<1>5. g = e => Left(q) = IF p = 0 THEN FrameLen - 1 ELSE Left(p) - 1
  BY <1>0, <1>2, LeftSteps
<1> DEFINE new == Earlier(g) + FrameLen - 1 - Left(q)
           sync == Earlier(e) + FrameLen - 1 - Left(p)
           cut == Earlier(e) + 2 * FrameLen - 1 - Left(p)
<1>6. new \in Nat /\ sync \in Nat /\ cut \in Nat BY <1>0, <1>3, <1>4
<1>7. Synced(c, up, op, 0) <=> Len(c) <= Backlog(new) + 0
  BY DEF Synced
<1> HIDE DEF e, p, g, q
<1>8. ASSUME NEW old \in Nat, old < new, Len(b) <= Backlog(old) + MaxChunk
      PROVE  Synced(c, up, op, 0)
  <2>1. Backlog(old) + MaxChunk - 1 <= Backlog(new) /\ Backlog(new) \in Nat /\ Backlog(old) \in Nat
    <3> HIDE DEF new
    <3> QED BY <1>6, <1>8, BacklogGrows
  <2> HIDE DEF new
  <2> QED BY <1>1, <1>7, <1>8, <2>1
<1>9. ASSUME Len(c) <= FrameLen - 2 PROVE Synced(c, up, op, 0)
  <2> HIDE DEF new
  <2>1. Backlog(new) >= FrameLen - 2 /\ Backlog(new) \in Nat BY <1>6, BacklogGrows
  <2> QED BY <1>0, <1>1, <1>7, <1>9, <2>1
<1>10. CASE Synced(b, up, op, MaxChunk)
  <2>1. Len(b) <= Backlog(sync) + MaxChunk
    BY <1>0, <1>10 DEF Synced
  <2>2. CASE g > e
    <3>1. sync < new BY <1>0, <1>3, <1>4, <2>2
    <3> HIDE DEF sync, new
    <3> QED BY <1>6, <1>8, <2>1, <3>1
  <2>3. CASE g = e /\ p # 0
    <3>1. sync < new BY <1>0, <1>3, <1>4, <1>5, <2>3
    <3> HIDE DEF sync, new
    <3> QED BY <1>6, <1>8, <2>1, <3>1
  <2>4. CASE g = e /\ p = 0 /\ Len(b) < FrameLen
    BY <1>0, <1>1, <1>9, <2>4
  <2>5. CASE g = e /\ p = 0 /\ Len(b) >= FrameLen
    <3>1. b[FrameLen].opening > e /\ FrameLen \in 1..Len(b) /\ b[FrameLen].opening \in Nat
      BY <1>0, <2>5, RejectedIsCut, ByteType DEF e, p
    <3>2. b[FrameLen].opening <= op BY <3>1 DEF LeadsTo
    <3>3. c # <<>> BY <1>0, <1>1, <2>5
    <3>4. c[1].opening = e /\ c[1].pos = q
      BY <1>2, <2>5, <3>3 DEF q, FirstPos
    <3>5. Left(c[1].pos) = FrameLen - 1 BY <1>5, <2>5, <3>4
    <3>6. ASSUME NEW i \in 1..Len(c), c[i].opening = e PROVE i < FrameLen - 1
      <4>1. i + 1 \in 1..Len(b) /\ b[i + 1].opening = e BY <1>1, <3>6
      <4>2. FrameLen <= i + 1 => b[FrameLen].opening <= b[i + 1].opening
        BY <3>1, <4>1 DEF Contiguous
      <4>3. ~ FrameLen <= i + 1 BY <1>0, <3>1, <4>1, <4>2
      <4> QED BY <1>0, <4>3
    <3>7. Len(c) <= Backlog(Earlier(c[1].opening) + 2 * FrameLen - 1 - Left(c[1].pos)) + 0
      <4> DEFINE then == Earlier(c[1].opening) + 2 * FrameLen - 1 - Left(c[1].pos)
      <4>1. then \in Nat /\ sync < then
        <5>1. Left(p) = 0 BY <2>5 DEF Left
        <5> QED BY <1>0, <1>4, <3>4, <3>5, <5>1
      <4> HIDE DEF then, sync
      <4>2. Backlog(sync) + MaxChunk - 1 <= Backlog(then) /\ Backlog(then) \in Nat /\ Backlog(sync) \in Nat
        BY <1>6, <4>1, BacklogGrows
      <4>3. Len(c) <= Backlog(then) + 0 BY <1>1, <2>1, <4>2
      <4> QED BY <4>3 DEF then
    <3>8. e < op BY <1>0, <3>1, <3>2
    <3>9. \A i \in 1..Len(c) : c[i].opening = c[1].opening => i < Left(c[1].pos)
      BY <3>4, <3>5, <3>6
    <3>10. c[1].opening < op BY <3>4, <3>8
    <3> QED BY <3>3, <3>7, <3>9, <3>10 DEF Cut
  <2> QED BY <1>0, <1>1, <1>2, <2>2, <2>3, <2>4, <2>5
<1>11. CASE Cut(b, up, op, MaxChunk)
  <2>1. /\ e < op
        /\ \A i \in 1..Len(b) : b[i].opening = e => i < Left(p)
        /\ Len(b) <= Backlog(cut) + MaxChunk
    BY <1>11 DEF Cut, e, p
  <2>2. Left(p) >= 2 /\ p # 0 BY <1>0, <1>3, <2>1 DEF Left, e
  <2>3. CASE g > e
    <3>1. cut < new BY <1>0, <1>3, <1>4, <2>2, <2>3
    <3> HIDE DEF cut, new
    <3> QED BY <1>6, <1>8, <2>1, <3>1
  <2>4. CASE g = e
    <3>1. c # <<>> BY <2>1, <2>4 DEF g, FirstOpening
    <3>2. c[1].opening = e /\ c[1].pos = q
      BY <1>2, <2>4, <3>1 DEF q, FirstPos
    <3>3. Left(c[1].pos) = Left(p) - 1 BY <1>5, <2>2, <2>4, <3>2
    <3>4. ASSUME NEW i \in 1..Len(c), c[i].opening = c[1].opening
          PROVE  i < Left(c[1].pos)
      <4>1. i + 1 \in 1..Len(b) /\ b[i + 1].opening = e BY <1>1, <3>2, <3>4
      <4>2. i + 1 < Left(p) BY <2>1, <4>1
      <4> QED BY <1>3, <3>3, <4>2
    <3>5. Len(c) <= Backlog(Earlier(c[1].opening) + 2 * FrameLen - 1 - Left(c[1].pos)) + 0
      <4> DEFINE then == Earlier(c[1].opening) + 2 * FrameLen - 1 - Left(c[1].pos)
      <4>1. then \in Nat /\ cut < then BY <1>0, <1>3, <1>4, <3>2, <3>3
      <4> HIDE DEF then, cut
      <4>2. Backlog(cut) + MaxChunk - 1 <= Backlog(then) /\ Backlog(then) \in Nat /\ Backlog(cut) \in Nat
        BY <1>6, <4>1, BacklogGrows
      <4>3. Len(c) <= Backlog(then) + 0 BY <1>1, <2>1, <4>2
      <4> QED BY <4>3 DEF then
    <3>6. c[1].opening < op BY <2>1, <3>2
    <3> QED BY <3>1, <3>4, <3>5, <3>6 DEF Cut
  <2> QED BY <1>0, <1>2, <2>3, <2>4
<1> QED BY <1>10, <1>11

\* ... and one that takes a frame, if a read returns no more than a frame.
LEMMA FrameKeepsBound ==
    ASSUME NEW b \in Seq(Bytes), NEW c, HasFrame(b), Suffix(b, FrameLen, c),
           NEW up \in Positions, NEW op \in Nat,
           Contiguous(b), LeadsTo(b, up, op),
           MaxChunk \in Nat, MaxChunk >= 1, MaxChunk <= FrameLen,
           Synced(b, up, op, MaxChunk) \/ Cut(b, up, op, MaxChunk)
    PROVE  Synced(c, up, op, 0)
<1> DEFINE e == b[1].opening
           g == FirstOpening(c, op)
           q == FirstPos(c, up)
<1>0. /\ FrameLen \in Nat /\ FrameLen >= 3 /\ 1 \in 1..Len(b) /\ b # <<>>
      /\ Len(b) >= FrameLen /\ b[1].pos = 0 /\ e \in Nat /\ e >= 1
      /\ FirstOpening(b, op) = e /\ FirstPos(b, up) = 0
  BY FrameLenType, ByteType, ConsoleAssumption
  DEF HasFrame, HasHeader, FirstOpening, FirstPos
<1>1. Len(c) = Len(b) - FrameLen /\ Len(c) \in Nat BY <1>0 DEF Suffix
<1>2. /\ q \in Positions /\ g \in Nat /\ g >= e
      /\ g = e => q = (b[1].pos + FrameLen) % FrameLen
  BY <1>0, SuffixHead
<1>3. g = e => q = 0
  <2>1. b[1].pos + FrameLen = FrameLen BY <1>0
  <2> QED BY <1>0, <1>2, <2>1, ModSelf
<1>4. /\ Left(0) = 0 /\ Left(q) \in Nat /\ Left(q) <= FrameLen - 1
  BY <1>2, LeftType DEF Left
<1>5. /\ Earlier(e) \in Nat
      /\ \A f \in Nat : f > e => Earlier(f) >= Earlier(e) + 2 * (FrameLen - 1)
  BY <1>0, EarlierGrows
<1> DEFINE old == Earlier(e) + FrameLen - 1 - 0
           new == Earlier(g) + FrameLen - 1 - Left(q)
<1>6. Len(b) <= Backlog(old) + MaxChunk
  <2>1. ~ Cut(b, up, op, MaxChunk)
    BY <1>0, <1>4 DEF Cut
  <2> QED BY <1>0, <1>4, <2>1 DEF Synced
<1>7. Synced(c, up, op, 0) <=> Len(c) <= Backlog(new) + 0
  BY DEF Synced
<1> HIDE DEF e, g, q
<1>8. old \in Nat /\ new \in Nat /\ old <= new
  <2>1. CASE g = e BY <1>0, <1>3, <1>4, <1>5, <2>1
  <2>2. CASE g > e
    <3>1. Earlier(g) >= Earlier(e) + 2 * (FrameLen - 1) BY <1>2, <1>5, <2>2
    <3>2. Earlier(g) \in Nat
      <4>1. g >= 1 BY <1>0, <1>2
      <4> QED BY <1>2, <4>1, EarlierGrows
    <3> QED BY <1>0, <1>4, <1>5, <3>1, <3>2
  <2> QED BY <1>0, <1>2, <2>1, <2>2
<1> HIDE DEF old, new
<1>9. Backlog(old) <= Backlog(new) /\ Backlog(new) \in Nat /\ Backlog(old) \in Nat
  BY <1>8, BacklogGrows
<1> QED BY <1>0, <1>1, <1>6, <1>7, <1>9

-----------------------------------------------------------------------------
(* The invariant *)

IInv ==
    /\ TypeOK
    /\ opens = 0 => ~ isOpen /\ uartBuf = <<>>
    /\ Contiguous(uartBuf)
    /\ LeadsTo(uartBuf, upcoming, opens)
    /\ opens > 0 /\ MaxChunk <= FrameLen =>
          \/ Synced(uartBuf, upcoming, opens, 0)
          \/ Cut(uartBuf, upcoming, opens, 0)
    /\ SampleWhole

LEMMA MaxChunkType == MaxChunk \in Nat /\ MaxChunk >= 1
BY ConsoleAssumption

LEMMA EmptySynced ==
    ASSUME NEW up \in Positions, NEW op \in Nat, op >= 1
    PROVE  Synced(<<>>, up, op, 0)
<1> DEFINE drops == Earlier(op) + FrameLen - 1 - Left(up)
<1>1. drops \in Nat BY FrameLenType, LeftType, EarlierGrows
<1>2. Synced(<<>>, up, op, 0) <=> Len(<<>>) <= Backlog(drops) + 0
  BY DEF Synced, FirstPos, FirstOpening
<1> HIDE DEF drops
<1>3. Backlog(drops) \in Nat BY <1>1, BacklogGrows, MaxChunkType
<1>4. Len(<<>>) = 0 OBVIOUS
<1> QED BY <1>2, <1>3, <1>4

LEMMA InitIInv == Init => IInv
<1> SUFFICES ASSUME Init PROVE IInv OBVIOUS
<1>1. TypeOK
  <2>1. <<>> \in Seq(Bytes) /\ Len(<<>>) = 0 OBVIOUS
  <2>2. uartBuf \in Seq(Bytes) /\ sample \in Seq(Bytes) /\ Len(sample) = 0
    BY <2>1 DEF Init
  <2>3. isOpen \in BOOLEAN /\ status \in Statuses /\ upcoming \in Positions
    BY DEF Init, Statuses
  <2>4. opens \in 0..MaxOpens BY ConsoleAssumption DEF Init
  <2> QED BY <2>2, <2>3, <2>4 DEF TypeOK
<1>2. uartBuf = <<>> /\ opens = 0 /\ sample = <<>> /\ ~ isOpen BY DEF Init
<1>3. Contiguous(uartBuf) /\ LeadsTo(uartBuf, upcoming, opens)
  <2>1. 1..Len(uartBuf) = {} BY <1>2
  <2> QED BY <2>1 DEF Contiguous, LeadsTo
<1> QED BY <1>1, <1>2, <1>3 DEF IInv, SampleWhole

LEMMA InitUartIInv == IInv /\ InitUart => IInv'
<1> SUFFICES ASSUME IInv, InitUart PROVE IInv' OBVIOUS
<1>0. /\ TypeOK /\ opens \in Nat /\ MaxOpens \in Nat /\ sample' = <<>> /\ uartBuf' = uartBuf
      /\ uartBuf \in Seq(Bytes) /\ ~ isOpen
  BY ConsoleAssumption DEF IInv, TypeOK, InitUart
<1>1. SampleWhole' BY <1>0 DEF SampleWhole
<1>2. Contiguous(uartBuf)' BY <1>0 DEF IInv, Contiguous
<1>3. CASE opens < MaxOpens /\ isOpen' = TRUE /\ status' = "CONNECTED_NO_DATA"
           /\ upcoming' \in Positions /\ opens' = opens + 1
  <2>1. TypeOK' BY <1>0, <1>3 DEF TypeOK, Statuses
  <2>2. \A i \in 1..Len(uartBuf) :
           uartBuf[i].opening \in Nat /\ uartBuf[i].opening <= opens
    BY <1>0, ByteType DEF IInv, LeadsTo
  <2>3. LeadsTo(uartBuf, upcoming, opens)'
    <3>1. \A i \in 1..Len(uartBuf) :
             uartBuf[i].opening <= opens + 1 /\ uartBuf[i].opening # opens + 1
      BY <1>0, <2>2
    <3> QED BY <1>0, <1>3, <3>1 DEF LeadsTo
  <2>4. ASSUME MaxChunk <= FrameLen
        PROVE  Synced(uartBuf, upcoming, opens, 0)' \/ Cut(uartBuf, upcoming, opens, 0)'
    <3>1. CASE uartBuf = <<>>
      <4>1. opens + 1 \in Nat /\ opens + 1 >= 1 BY <1>0
      <4>2. Synced(<<>>, upcoming', opens + 1, 0) BY <1>3, <4>1, EmptySynced
      <4>3. Synced(uartBuf', upcoming', opens', 0) BY <1>0, <1>3, <3>1, <4>2
      <4> QED BY <4>3 DEF Synced, FirstPos, FirstOpening
    <3>2. CASE uartBuf # <<>>
      <4>1. opens > 0 BY <1>0, <3>2 DEF IInv
      <4>2. CASE Synced(uartBuf, upcoming, opens, 0)
        BY <1>0, <3>2, <4>2 DEF Synced, FirstPos, FirstOpening
      <4>3. CASE Cut(uartBuf, upcoming, opens, 0)
        <5>1. 1 \in 1..Len(uartBuf) BY <1>0, <3>2
        <5>2. uartBuf[1].opening < opens + 1 BY <1>0, <2>2, <5>1
        <5> QED BY <1>0, <1>3, <4>3, <5>2 DEF Cut
      <4> QED BY <2>4, <4>1, <4>2, <4>3 DEF IInv
    <3> QED BY <3>1, <3>2
  <2> QED BY <1>0, <1>1, <1>2, <1>3, <2>1, <2>3, <2>4 DEF IInv
<1>4. CASE status' = "DISCONNECTED" /\ UNCHANGED <<isOpen, upcoming, opens>>
  <2>1. TypeOK'
    <3>1. <<>> \in Seq(Bytes) /\ Len(<<>>) = 0 OBVIOUS
    <3> QED BY <1>0, <1>4, <3>1 DEF TypeOK, Statuses
  <2> QED
    BY <1>0, <1>1, <1>2, <1>4, <2>1
    DEF IInv, LeadsTo, Synced, Cut, FirstPos, FirstOpening
<1> QED BY <1>3, <1>4 DEF InitUart

LEMMA ReadTimeoutIInv == IInv /\ ReadTimeout => IInv'
<1> SUFFICES ASSUME IInv, ReadTimeout PROVE IInv' OBVIOUS
<1>0. /\ TypeOK /\ sample' = <<>> /\ uartBuf' = uartBuf /\ upcoming' = upcoming
      /\ opens' = opens /\ isOpen' = FALSE /\ status' = "DISCONNECTED"
  BY DEF IInv, ReadTimeout
<1>1. TypeOK'
  <2>1. <<>> \in Seq(Bytes) /\ Len(<<>>) = 0 OBVIOUS
  <2> QED BY <1>0, <2>1 DEF TypeOK, Statuses
<1> QED
  BY <1>0, <1>1
  DEF IInv, SampleWhole, Contiguous, LeadsTo, Synced, Cut, FirstPos, FirstOpening

\* What a pass finds in the buffer once the bytes read are appended.
LEMMA ReadBuffer ==
    ASSUME IInv, NEW n \in MinChunk..MaxChunk, isOpen
    PROVE  LET b  == uartBuf \o Received(n)
               up == (upcoming + n) % FrameLen
           IN  /\ b \in Seq(Bytes) /\ Len(b) >= 1 /\ up \in Positions
               /\ opens \in Nat /\ opens >= 1
               /\ Contiguous(b) /\ LeadsTo(b, up, opens)
               /\ MaxChunk <= FrameLen =>
                     Synced(b, up, opens, MaxChunk) \/ Cut(b, up, opens, MaxChunk)
<1> DEFINE b == uartBuf \o Received(n)
           L == Len(uartBuf)
           up == (upcoming + n) % FrameLen
<1>0. /\ TypeOK /\ opens \in Nat /\ opens >= 1 /\ n \in Nat /\ n >= 1 /\ n <= MaxChunk
      /\ uartBuf \in Seq(Bytes) /\ L \in Nat /\ upcoming \in Positions /\ MaxChunk \in Nat
      /\ FrameLen \in Nat
  BY ConsoleAssumption DEF IInv, TypeOK
<1>1. /\ b \in Seq(Bytes) /\ Len(b) = L + n
      /\ \A i \in 1..Len(b) :
            b[i] = IF i <= L THEN uartBuf[i]
                   ELSE [pos |-> (upcoming + (i - L - 1)) % FrameLen, opening |-> opens]
  BY <1>0, ReceivedBytes
<1>2. up \in Positions
  <2>1. upcoming + n \in Int BY <1>0, FrameLenType DEF Positions
  <2> QED BY <2>1, DivMod, FrameLenType DEF Positions
<1>3. Contiguous(uartBuf) /\ LeadsTo(uartBuf, upcoming, opens) BY DEF IInv
<1> HIDE DEF b, L
<1>4. Contiguous(b) /\ LeadsTo(b, (upcoming + n) % FrameLen, opens)
  <2>1. L = Len(uartBuf) BY DEF L
  <2> QED BY <1>0, <1>1, <1>3, <2>1, AppendKeeps
<1>5. /\ FirstPos(b, up) = FirstPos(uartBuf, upcoming)
      /\ FirstOpening(b, opens) = FirstOpening(uartBuf, opens)
  <2>1. b # <<>> /\ 1 \in 1..Len(b) BY <1>0, <1>1
  <2>2. CASE uartBuf = <<>>
    <3>1. L = 0 BY <2>2 DEF L
    <3>2. ~ 1 <= L /\ upcoming + (1 - L - 1) = upcoming BY <1>0, <3>1, FrameLenType DEF Positions
    <3>3. upcoming % FrameLen = upcoming BY <1>0, FrameLenType, ModSmall DEF Positions
    <3>4. b[1] = [pos |-> upcoming, opening |-> opens] BY <1>1, <2>1, <3>2, <3>3
    <3> QED BY <2>1, <2>2, <3>4 DEF FirstPos, FirstOpening
  <2>3. CASE uartBuf # <<>>
    <3>1. 1 <= L BY <1>0, <2>3 DEF L
    <3>2. b[1] = uartBuf[1] BY <1>1, <2>1, <3>1
    <3> QED BY <2>1, <2>3, <3>2 DEF FirstPos, FirstOpening
  <2> QED BY <2>2, <2>3
<1>6. ASSUME MaxChunk <= FrameLen
      PROVE  Synced(b, up, opens, MaxChunk) \/ Cut(b, up, opens, MaxChunk)
  <2>1. CASE Synced(uartBuf, upcoming, opens, 0)
    <3> DEFINE bound == Backlog(Earlier(FirstOpening(uartBuf, opens)) + FrameLen - 1
                                - Left(FirstPos(uartBuf, upcoming)))
    <3>1. L <= bound + 0 BY <2>1 DEF Synced, L
    <3>2. Synced(b, up, opens, MaxChunk) <=> Len(b) <= bound + MaxChunk
      BY <1>5 DEF Synced
    <3>3. bound \in Int
      <4>1. FirstOpening(uartBuf, opens) \in Nat /\ FirstPos(uartBuf, upcoming) \in Positions
            /\ FirstOpening(uartBuf, opens) >= 1
        <5>1. uartBuf # <<>> => 1 \in 1..Len(uartBuf) BY <1>0
        <5> QED BY <1>0, <5>1, ByteType, ConsoleAssumption DEF FirstOpening, FirstPos
      <4> DEFINE d == Earlier(FirstOpening(uartBuf, opens)) + FrameLen - 1
                      - Left(FirstPos(uartBuf, upcoming))
      <4>2. Earlier(FirstOpening(uartBuf, opens)) \in Nat BY <4>1, EarlierGrows
      <4>3. Left(FirstPos(uartBuf, upcoming)) \in Nat
            /\ Left(FirstPos(uartBuf, upcoming)) <= FrameLen - 1
        BY <4>1, LeftType
      <4>4. d \in Nat BY <1>0, <4>2, <4>3
      <4> HIDE DEF d
      <4>5. Backlog(d) \in Nat BY <4>4, BacklogGrows, MaxChunkType
      <4> QED BY <4>5 DEF d
    <3> HIDE DEF bound
    <3> QED BY <1>0, <1>1, <3>1, <3>2, <3>3
  <2>2. CASE Cut(uartBuf, upcoming, opens, 0)
    <3> DEFINE bound == Backlog(Earlier(uartBuf[1].opening) + 2 * FrameLen - 1
                                - Left(uartBuf[1].pos))
    <3>0. uartBuf # <<>> /\ 1 \in 1..Len(uartBuf) /\ 1 <= L
      BY <1>0, <2>2 DEF Cut, L
    <3>1. b # <<>> /\ b[1] = uartBuf[1]
      BY <1>0, <1>1, <3>0
    <3>2. L <= bound + 0 /\ uartBuf[1].opening < opens BY <2>2 DEF Cut, L
    <3>3. ASSUME NEW i \in 1..Len(b), b[i].opening = b[1].opening
          PROVE  i < Left(b[1].pos)
      <4>1. CASE i <= L
        <5>1. i \in 1..Len(uartBuf) /\ b[i] = uartBuf[i] BY <1>0, <1>1, <4>1 DEF L
        <5> QED BY <2>2, <3>1, <3>3, <5>1 DEF Cut
      <4>2. CASE ~ i <= L
        <5>1. b[i].opening = opens BY <1>1, <4>2
        <5>2. uartBuf[1].opening # opens BY <1>0, <3>0, <3>2, ByteType
        <5> QED BY <3>1, <3>3, <5>1, <5>2
      <4> QED BY <4>1, <4>2
    <3>4. bound \in Int
      <4>1. uartBuf[1].opening \in Nat /\ uartBuf[1].pos \in Positions
            /\ uartBuf[1].opening >= 1
        BY <1>0, <3>0, ByteType, ConsoleAssumption
      <4> DEFINE d == Earlier(uartBuf[1].opening) + 2 * FrameLen - 1 - Left(uartBuf[1].pos)
      <4>2. Earlier(uartBuf[1].opening) \in Nat BY <4>1, EarlierGrows
      <4>3. Left(uartBuf[1].pos) \in Nat /\ Left(uartBuf[1].pos) <= FrameLen - 1
        BY <4>1, LeftType
      <4>4. d \in Nat BY <1>0, <4>2, <4>3
      <4> HIDE DEF d
      <4>5. Backlog(d) \in Nat BY <4>4, BacklogGrows, MaxChunkType
      <4> QED BY <4>5 DEF d
    <3>5. Cut(b, up, opens, MaxChunk) <=> Len(b) <= bound + MaxChunk
      BY <3>1, <3>2, <3>3 DEF Cut
    <3> HIDE DEF bound
    <3> QED BY <1>0, <1>1, <3>2, <3>4, <3>5
  <2> QED BY <1>0, <1>6, <2>1, <2>2 DEF IInv
<1>7. Len(b) >= 1 BY <1>0, <1>1
<1> QED BY <1>0, <1>1, <1>2, <1>4, <1>6, <1>7 DEF b

LEMMA HandleUartDataIInv ==
    ASSUME IInv, NEW n \in MinChunk..MaxChunk, HandleUartData(n)
    PROVE  IInv'
<1> DEFINE b == uartBuf \o Received(n)
           up == (upcoming + n) % FrameLen
<1>1. /\ isOpen /\ isOpen' = isOpen /\ opens' = opens /\ upcoming' = up
  BY DEF HandleUartData
<1>2. /\ b \in Seq(Bytes) /\ Len(b) >= 1 /\ up \in Positions
      /\ opens \in Nat /\ opens >= 1
      /\ Contiguous(b) /\ LeadsTo(b, up, opens)
      /\ MaxChunk <= FrameLen =>
            Synced(b, up, opens, MaxChunk) \/ Cut(b, up, opens, MaxChunk)
  BY <1>1, ReadBuffer
<1>3. \/ /\ HasFrame(b) /\ status' = "CONNECTED_DATA"
         /\ sample' = FrameOf(b) /\ uartBuf' = RemoveFrame(b)
      \/ /\ ~ HasFrame(b) /\ status' = status
         /\ sample' = <<>> /\ uartBuf' = SkipByte(b)
  BY DEF HandleUartData
<1> HIDE DEF b, up
<1>4. MaxChunk \in Nat /\ MaxChunk >= 1 /\ FrameLen \in Nat /\ FrameLen >= 3
  BY MaxChunkType, FrameLenType
<1>5. ASSUME uartBuf' \in Seq(Bytes), sample' \in Seq(Bytes),
             Len(sample') \in {0, FrameLen}, status' \in Statuses,
             Contiguous(uartBuf'), LeadsTo(uartBuf', up, opens),
             MaxChunk <= FrameLen =>
                \/ Synced(uartBuf', up, opens, 0)
                \/ Cut(uartBuf', up, opens, 0),
             SampleWhole'
      PROVE  IInv'
  <2>1. isOpen \in BOOLEAN /\ opens \in 0..MaxOpens BY DEF IInv, TypeOK
  <2>2. TypeOK' BY <1>1, <1>2, <1>5, <2>1 DEF TypeOK
  <2>3. Contiguous(uartBuf)' BY <1>5 DEF Contiguous
  <2>4. LeadsTo(uartBuf, upcoming, opens)' BY <1>1, <1>5 DEF LeadsTo
  <2>5. MaxChunk <= FrameLen =>
           Synced(uartBuf, upcoming, opens, 0)' \/ Cut(uartBuf, upcoming, opens, 0)'
    BY <1>1, <1>5 DEF Synced, Cut, FirstPos, FirstOpening
  <2>6. opens' # 0 BY <1>1, <1>2
  <2> QED BY <1>5, <2>2, <2>3, <2>4, <2>5, <2>6 DEF IInv
<1>6. CASE /\ HasFrame(b) /\ status' = "CONNECTED_DATA"
           /\ sample' = FrameOf(b) /\ uartBuf' = RemoveFrame(b)
  <2>1. Len(b) >= FrameLen /\ FrameLen \in 1..Len(b) /\ 1 \in 1..Len(b)
        /\ b[1].pos = 0 /\ b[FrameLen].pos = FrameLen - 1
    BY <1>2, <1>4, <1>6 DEF HasFrame, HasHeader
  <2>2. Suffix(b, FrameLen, RemoveFrame(b)) BY <1>2, <2>1, FrameSuffix
  <2>3. Contiguous(RemoveFrame(b)) /\ LeadsTo(RemoveFrame(b), up, opens)
    BY <1>2, <1>4, <2>2, SuffixKeeps
  <2>4. MaxChunk <= FrameLen => Synced(RemoveFrame(b), up, opens, 0)
    BY <1>2, <1>4, <1>6, <2>2, FrameKeepsBound
  <2>5. /\ sample' \in Seq(Bytes) /\ Len(sample') = FrameLen
        /\ \A i \in 1..FrameLen : sample'[i] = b[i]
    <3>1. \A i \in 1..FrameLen : b[i] \in Bytes BY <1>2, <1>4, <2>1
    <3>2. /\ SubSeq(b, 1, FrameLen) \in Seq(Bytes)
          /\ Len(SubSeq(b, 1, FrameLen)) = IF 1 <= FrameLen THEN FrameLen - 1 + 1 ELSE 0
          /\ \A i \in 1..(FrameLen - 1 + 1) : SubSeq(b, 1, FrameLen)[i] = b[1 + i - 1]
      BY <1>4, <3>1, SubSeqProperties
    <3>3. sample' = SubSeq(b, 1, FrameLen) BY <1>6 DEF FrameOf
    <3>4. /\ FrameLen - 1 + 1 = FrameLen /\ 1 <= FrameLen
          /\ \A i \in 1..FrameLen : 1 + i - 1 = i
      BY <1>4
    <3> QED BY <3>2, <3>3, <3>4
  <2>6. SampleWhole'
    <3>1. ASSUME NEW i \in 1..(FrameLen - 1)
          PROVE  \/ sample'[i + 1].pos = (sample'[i].pos + 1) % FrameLen
                 \/ sample'[i + 1].opening > sample'[i].opening
      <4>1. i \in 1..Len(b) /\ i + 1 \in 1..Len(b) /\ i \in 1..FrameLen /\ i + 1 \in 1..FrameLen
            /\ i <= i + 1 /\ (i + 1) - i = 1
        BY <1>4, <2>1
      <4>2. /\ b[i].opening <= b[i + 1].opening
            /\ b[i].opening = b[i + 1].opening =>
                  b[i + 1].pos = (b[i].pos + ((i + 1) - i)) % FrameLen
        BY <1>2, <4>1 DEF Contiguous
      <4>3. b[i].opening \in Nat /\ b[i + 1].opening \in Nat BY <1>2, <4>1, ByteType
      <4> QED BY <2>5, <4>1, <4>2, <4>3
    <3>2. sample'[1].pos = 0 /\ sample'[FrameLen].pos = FrameLen - 1
      BY <1>4, <2>1, <2>5
    <3> QED BY <3>1, <3>2 DEF SampleWhole
  <2>7. RemoveFrame(b) \in Seq(Bytes) BY <2>2 DEF Suffix
  <2> QED BY <1>5, <1>6, <2>3, <2>4, <2>5, <2>6, <2>7 DEF Statuses
<1>7. CASE /\ ~ HasFrame(b) /\ status' = status
           /\ sample' = <<>> /\ uartBuf' = SkipByte(b)
  <2>1. Suffix(b, 1, SkipByte(b)) BY <1>2, TailSuffix
  <2>2. Contiguous(SkipByte(b)) /\ LeadsTo(SkipByte(b), up, opens)
    BY <1>2, <2>1, SuffixKeeps
  <2>3. MaxChunk <= FrameLen =>
           Synced(SkipByte(b), up, opens, 0) \/ Cut(SkipByte(b), up, opens, 0)
    BY <1>2, <1>4, <1>7, <2>1, DropKeepsBound
  <2>4. SampleWhole' BY <1>7 DEF SampleWhole
  <2>5. SkipByte(b) \in Seq(Bytes) BY <2>1 DEF Suffix
  <2>6. <<>> \in Seq(Bytes) /\ Len(<<>>) = 0 OBVIOUS
  <2>7. status \in Statuses BY DEF IInv, TypeOK
  <2> QED BY <1>5, <1>7, <2>2, <2>3, <2>4, <2>5, <2>6, <2>7
<1> QED BY <1>3, <1>6, <1>7

\* The bound of the property is the largest one the invariant allows.
LEMMA InvBacklog == IInv => BacklogBound
<1> SUFFICES ASSUME IInv, opens > 0, MaxChunk <= FrameLen
             PROVE  Len(uartBuf) <= FrameLen - 2
                        + (2 * opens - 1) * (FrameLen - 1) * (MaxChunk - 1)
  BY DEF BacklogBound
<1>0. /\ opens \in Nat /\ opens >= 1 /\ uartBuf \in Seq(Bytes) /\ upcoming \in Positions
      /\ FrameLen \in Nat /\ FrameLen >= 3 /\ MaxChunk \in Nat /\ MaxChunk >= 1
  BY FrameLenType, MaxChunkType, ConsoleAssumption DEF IInv, TypeOK
<1> DEFINE most == Earlier(opens) + FrameLen - 1
<1>1. most = (2 * opens - 1) * (FrameLen - 1)
  <2> DEFINE f == FrameLen - 1
  <2>1. f \in Nat BY <1>0
  <2>2. Earlier(opens) = (2 * f) * (opens - 1) BY DEF Earlier
  <2> HIDE DEF f
  <2>3. (2 * f) * (opens - 1) + f = (2 * opens - 1) * f BY <1>0, <2>1
  <2>4. Earlier(opens) + FrameLen - 1 = Earlier(opens) + f
    <3>1. Earlier(opens) \in Nat BY <1>0, EarlierGrows
    <3> QED BY <1>0, <3>1 DEF f
  <2> QED BY <2>2, <2>3, <2>4 DEF f
<1>2. most \in Nat BY <1>0, EarlierGrows
<1>3. ASSUME NEW e \in Nat, e >= 1, e <= opens
      PROVE  /\ Earlier(e) \in Nat /\ Earlier(e) <= Earlier(opens)
             /\ e < opens => Earlier(e) + 2 * (FrameLen - 1) <= Earlier(opens)
  <2>1. /\ Earlier(e) \in Nat /\ Earlier(opens) \in Nat
        /\ opens > e => Earlier(opens) >= Earlier(e) + 2 * (FrameLen - 1)
    BY <1>0, <1>3, EarlierGrows
  <2>2. CASE e = opens BY <1>0, <2>1, <2>2
  <2>3. CASE e < opens BY <1>0, <2>1, <2>3
  <2> QED BY <1>0, <1>3, <2>2, <2>3
<1>4. \E drops \in Nat : drops <= most /\ Len(uartBuf) <= Backlog(drops)
  <2>1. ASSUME uartBuf # <<>>
        PROVE  /\ 1 \in 1..Len(uartBuf)
               /\ uartBuf[1].opening \in Nat /\ uartBuf[1].opening >= 1
               /\ uartBuf[1].opening <= opens /\ uartBuf[1].pos \in Positions
    <3>1. 1 \in 1..Len(uartBuf) BY <1>0, <2>1
    <3> QED BY <1>0, <3>1, ByteType, ConsoleAssumption DEF IInv, LeadsTo
  <2>2. CASE Synced(uartBuf, upcoming, opens, 0)
    <3> DEFINE e == FirstOpening(uartBuf, opens)
               p == FirstPos(uartBuf, upcoming)
               drops == Earlier(e) + FrameLen - 1 - Left(p)
    <3>1. e \in Nat /\ e >= 1 /\ e <= opens /\ p \in Positions
      BY <1>0, <2>1 DEF FirstOpening, FirstPos
    <3>2. Len(uartBuf) <= Backlog(drops) + 0 BY <2>2 DEF Synced
    <3> HIDE DEF e, p
    <3>3. Left(p) \in Nat /\ Left(p) <= FrameLen - 1 BY <3>1, LeftType
    <3>4. drops \in Nat /\ drops <= most BY <1>0, <1>2, <1>3, <3>1, <3>3
    <3> HIDE DEF drops, most
    <3>5. Backlog(drops) \in Nat BY <1>0, <3>4, BacklogGrows
    <3> QED BY <3>2, <3>4, <3>5
  <2>3. CASE Cut(uartBuf, upcoming, opens, 0)
    <3> DEFINE e == uartBuf[1].opening
               p == uartBuf[1].pos
               drops == Earlier(e) + 2 * FrameLen - 1 - Left(p)
    <3>1. /\ 1 \in 1..Len(uartBuf) /\ e \in Nat /\ e >= 1 /\ e < opens /\ p \in Positions
          /\ Len(uartBuf) <= Backlog(drops) + 0 /\ 1 < Left(p)
      BY <2>1, <2>3 DEF Cut
    <3> HIDE DEF e, p
    <3>2. Left(p) \in Nat /\ Left(p) <= FrameLen - 1 BY <3>1, LeftType
    <3>3. Earlier(e) \in Nat /\ Earlier(e) + 2 * (FrameLen - 1) <= Earlier(opens)
      BY <1>0, <1>3, <3>1
    <3>4. drops \in Nat /\ drops <= most
      <4>1. Earlier(opens) \in Nat BY <1>0, EarlierGrows
      <4> QED BY <1>0, <3>1, <3>2, <3>3, <4>1
    <3> HIDE DEF drops, most
    <3>5. Backlog(drops) \in Nat BY <1>0, <3>4, BacklogGrows
    <3> QED BY <3>1, <3>4, <3>5
  <2> QED BY <2>2, <2>3 DEF IInv
<1> HIDE DEF most
<1>5. PICK drops \in Nat : drops <= most /\ Len(uartBuf) <= Backlog(drops)
  BY <1>4
<1>6. Backlog(drops) <= Backlog(most) /\ Backlog(drops) \in Nat /\ Backlog(most) \in Nat
  BY <1>0, <1>2, <1>5, BacklogGrows
<1>7. Len(uartBuf) <= Backlog(most) BY <1>0, <1>5, <1>6
<1>8. Backlog(most) = FrameLen - 2 + most * (MaxChunk - 1) BY DEF Backlog
<1> QED BY <1>1, <1>7, <1>8

-----------------------------------------------------------------------------
\* The invariant is inductive: it holds in every state of the reading thread.
THEOREM Invariance == Spec => []IInv
<1>1. IInv /\ [Next]_vars => IInv'
  <2> SUFFICES ASSUME IInv, [Next]_vars PROVE IInv' OBVIOUS
  <2>1. CASE InitUart BY <2>1, InitUartIInv
  <2>2. CASE Read BY <2>2, HandleUartDataIInv DEF Read
  <2>3. CASE ReadTimeout BY <2>3, ReadTimeoutIInv
  <2>4. CASE UNCHANGED vars
    <3>1. TypeOK' /\ SampleWhole' BY <2>4 DEF IInv, vars, TypeOK, SampleWhole
    <3> QED
      BY <2>4, <3>1
      DEF IInv, vars, Contiguous, LeadsTo, Synced, Cut, FirstPos, FirstOpening
  <2> QED BY <2>1, <2>2, <2>3, <2>4 DEF Next
<1> QED BY InitIInv, <1>1, PTL DEF Spec

\* Buffer, status and samples have their types; a sample is a frame long.
THEOREM TypeCorrect == Spec => []TypeOK
<1>1. IInv => TypeOK BY DEF IInv
<1> QED BY Invariance, <1>1, PTL

\* No control sample is put together from two frames of one opening.
THEOREM SamplesWhole == Spec => []SampleWhole
<1>1. IInv => SampleWhole BY DEF IInv
<1> QED BY Invariance, <1>1, PTL

\* However often the thread loses and finds the frames, the bytes it leaves
\* waiting are bounded by the number of openings of the port.
THEOREM BacklogBounded == Spec => []BacklogBound
<1> QED BY Invariance, InvBacklog, PTL

==============================================================================
