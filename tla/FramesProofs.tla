----------------------------- MODULE FramesProofs -----------------------------
(***************************************************************************)
(* Proofs about Frames, for every set of ids and of bytes, every length of *)
(* a body and number of messages, and every way the stream may be cut:     *)
(* what is encoded is decoded to itself, a message that arrives in one     *)
(* piece is handled in its turn, and nothing else is once the reading      *)
(* starts and ends between two messages.                                   *)
(*                                                                         *)
(* enCodeMsg, deCodeMsg and ReadDataFromDev compute along their data, as   *)
(* recursive functions and as a fold.  What they compute is shown by       *)
(* induction over sets of numbers (Least, Induction), in three steps:      *)
(*                                                                         *)
(*   such a computation exists and is unique (ForwardRecursion,            *)
(*   BackwardRecursion, BackwardUnique), and FlattenSeq is one             *)
(*   (FlattenJoins, JoinUnique);                                           *)
(*                                                                         *)
(*   each piece of what is put together has its place in the whole         *)
(*   (JoinPlaces, LineLayout, StreamLayout);                               *)
(*                                                                         *)
(*   read from there, each piece comes back (DecodePiece, DecodeLine), and *)
(*   a part of one does no harm (DecodePieceType, ReadWindow).             *)
(***************************************************************************)
EXTENDS Frames, SequenceTheorems, FiniteSetTheorems, WellFoundedInduction, TLAPS

-----------------------------------------------------------------------------
(* Induction and recursion *)

\* A set of numbers has a least one.
LEMMA Least ==
    ASSUME NEW T, T \subseteq Nat, T # {}
    PROVE  \E x \in T : \A y \in T : x <= y
<1> DEFINE R == {ss \in Nat \X Nat : ss[1] < ss[2]}
<1>1. IsWellFoundedOn(R, Nat)
  BY NatLessThanWellFounded DEF OpToRel
<1>2. \A x, y \in Nat : <<y, x>> \in R <=> y < x
  OBVIOUS
<1> HIDE DEF R
<1>3. PICK x \in T : \A y \in T : ~ (<<y, x>> \in R)
  BY <1>1, WFMin
<1>4. x \in Nat /\ \A y \in T : y \in Nat
  OBVIOUS
<1>5. \A y \in T : ~ (y < x)
  BY <1>2, <1>3, <1>4
<1>6. \A y \in T : x <= y
  BY <1>4, <1>5
<1> QED
  BY <1>6

\* Induction over the numbers, with a set for the predicate.
LEMMA Induction ==
    ASSUME NEW T, 0 \in T, \A n \in Nat : n \in T => n + 1 \in T
    PROVE  \A n \in Nat : n \in T
<1> SUFFICES ASSUME NEW m \in Nat, m \notin T PROVE FALSE
  OBVIOUS
<1> DEFINE U == {n \in Nat : n \notin T}
<1>1. PICK x \in U : \A y \in U : x <= y
  <2>1. U \subseteq Nat /\ U # {}
    OBVIOUS
  <2> HIDE DEF U
  <2> QED
    BY <2>1, Least
<1>2. x # 0 /\ x - 1 \in Nat /\ (x - 1) + 1 = x
  OBVIOUS
<1>3. x - 1 \in T
  BY <1>1, <1>2
<1> QED
  BY <1>2, <1>3, <1>1

\* Running results: f[i] is what step i makes of f[i-1].
Steps(S, n) == [1..n -> [S -> S]]
IsRun(f, S, n, base, step) ==
    /\ f \in [0..n -> S]
    /\ f[0] = base
    /\ \A i \in 1..n : f[i] = step[i][f[i-1]]

\* Running results exist, one step after the other.
LEMMA ForwardRecursion ==
    ASSUME NEW S, NEW n \in Nat, NEW base \in S, NEW step \in Steps(S, n)
    PROVE  \E f : IsRun(f, S, n, base, step)
<1> USE DEF IsRun, Steps
<1> DEFINE T == {m \in Nat : m <= n =>
                    \E f \in [0..m -> S] :
                        /\ f[0] = base
                        /\ \A i \in 1..m : f[i] = step[i][f[i-1]]}
<1>1. 0 \in T
  <2> DEFINE f == [i \in 0..0 |-> base]
  <2>1. f \in [0..0 -> S] /\ f[0] = base /\ \A i \in 1..0 : f[i] = step[i][f[i-1]]
    OBVIOUS
  <2> HIDE DEF f
  <2> QED
    BY <2>1
<1>2. ASSUME NEW m \in Nat, m \in T PROVE m + 1 \in T
  <2> SUFFICES ASSUME m + 1 <= n
               PROVE  \E f \in [0..(m+1) -> S] :
                        /\ f[0] = base
                        /\ \A i \in 1..(m+1) : f[i] = step[i][f[i-1]]
    OBVIOUS
  <2>1. PICK f \in [0..m -> S] : f[0] = base /\ \A i \in 1..m : f[i] = step[i][f[i-1]]
    BY <1>2
  <2> DEFINE g == [i \in 0..(m+1) |-> IF i = m+1 THEN step[m+1][f[m]] ELSE f[i]]
  <2>2. step[m+1][f[m]] \in S
    <3>1. m + 1 \in 1..n /\ f[m] \in S
      OBVIOUS
    <3>2. step[m+1] \in [S -> S]
      BY <3>1
    <3> QED
      BY <3>1, <3>2
  <2>3. g \in [0..(m+1) -> S] /\ g[0] = base
    BY <2>1, <2>2
  <2>4. ASSUME NEW i \in 1..(m+1) PROVE g[i] = step[i][g[i-1]]
    BY <2>1
  <2> QED
    BY <2>3, <2>4
<1>3. n \in T
  <2> HIDE DEF T
  <2> QED
    BY <1>1, <1>2, Induction
<1> QED
  BY <1>3

\* The same from the end: f[i] puts a piece before f of a later place.
Later(n) == {next \in [1..n -> 1..(n+1)] : \A i \in 1..n : next[i] > i}
IsRest(f, S, n, piece, next) ==
    /\ f \in [1..(n+1) -> Seq(S)]
    /\ f[n+1] = <<>>
    /\ \A i \in 1..n : f[i] = piece[i] \o f[next[i]]

\* What is put together from the back to the front exists: each place has its
\* piece, and names the later place that follows it.
LEMMA BackwardRecursion ==
    ASSUME NEW S, NEW n \in Nat, NEW next \in Later(n),
           NEW piece \in [1..n -> Seq(S)]
    PROVE  \E f : IsRest(f, S, n, piece, next)
<1> USE DEF IsRest, Later
<1> DEFINE From(lo) == \E f \in [lo..(n+1) -> Seq(S)] :
                          /\ f[n+1] = <<>>
                          /\ \A i \in lo..n : f[i] = piece[i] \o f[next[i]]
           T == {m \in Nat : m <= n => From(n+1-m)}
<1>1. 0 \in T
  <2> DEFINE f == [i \in (n+1)..(n+1) |-> <<>>]
  <2>1. <<>> \in Seq(S)
    BY EmptySeq
  <2>2. f \in [(n+1)..(n+1) -> Seq(S)] /\ f[n+1] = <<>>
    BY <2>1
  <2>3. \A i \in (n+1)..n : f[i] = piece[i] \o f[next[i]]
    OBVIOUS
  <2> HIDE DEF f
  <2>4. From(n+1)
    BY <2>2, <2>3
  <2>5. n + 1 - 0 = n + 1
    OBVIOUS
  <2> HIDE DEF From
  <2> QED
    BY <2>4, <2>5
<1>2. ASSUME NEW m \in Nat, m \in T PROVE m + 1 \in T
  <2> DEFINE lo == n - m
  <2>0. n + 1 - (m + 1) = lo /\ n + 1 - m = lo + 1
    OBVIOUS
  <2> SUFFICES ASSUME m + 1 <= n PROVE From(lo)
    <3> HIDE DEF From
    <3> QED
      BY <2>0
  <2>00. From(lo+1)
    <3> HIDE DEF From
    <3> QED
      BY <1>2, <2>0
  <2>1. PICK f \in [(lo+1)..(n+1) -> Seq(S)] :
            f[n+1] = <<>> /\ \A i \in (lo+1)..n : f[i] = piece[i] \o f[next[i]]
    BY <2>00
  <2>2. lo \in 1..n /\ next[lo] \in (lo+1)..(n+1)
    OBVIOUS
  <2> DEFINE new == piece[lo] \o f[next[lo]]
             g == [i \in lo..(n+1) |-> IF i = lo THEN new ELSE f[i]]
  <2>3. new \in Seq(S)
    <3>1. piece[lo] \in Seq(S) /\ f[next[lo]] \in Seq(S)
      BY <2>1, <2>2
    <3> QED
      BY <3>1, ConcatProperties
  <2> HIDE DEF new
  <2>4. g \in [lo..(n+1) -> Seq(S)] /\ g[n+1] = <<>>
    BY <2>1, <2>2, <2>3
  <2>5. ASSUME NEW i \in lo..n PROVE g[i] = piece[i] \o g[next[i]]
    <3>1. CASE i = lo
      <4>0. /\ lo \in lo..(n+1) /\ next[lo] \in lo..(n+1)
            /\ next[lo] # lo
        <5>1. lo \in Nat /\ n \in Nat /\ lo <= n
          BY <2>2
        <5> HIDE DEF lo, From, T
        <5> QED
          BY <5>1, <2>2
      <4> HIDE DEF lo, From, T
      <4>1. g[i] = new /\ g[next[i]] = f[next[lo]]
        BY <3>1, <4>0
      <4> QED
        BY <4>1, <3>1 DEF new
    <3>2. CASE i # lo
      <4>1. lo \in Nat /\ n \in Nat
        BY <2>2
      <4> HIDE DEF lo, From, T
      <4>11. i \in 1..n
        BY <2>2
      <4>12. next[i] \in 1..(n+1) /\ next[i] > i
        BY <4>11
      <4>2. i \in (lo+1)..n /\ next[i] \in (lo+1)..(n+1) /\ next[i] # lo
        BY <4>1, <3>2
      <4>3. i \in lo..(n+1) /\ next[i] \in lo..(n+1)
        BY <4>1, <4>2
      <4>4. g[i] = f[i] /\ g[next[i]] = f[next[i]]
        BY <4>2, <4>3, <3>2
      <4> QED
        BY <4>2, <4>4, <2>1
    <3> QED
      BY <3>1, <3>2
  <2> QED
    BY <2>4, <2>5
<1>3. n \in T
  <2> HIDE DEF T
  <2> QED
    BY <1>1, <1>2, Induction
<1>4. From(n + 1 - n)
  <2> HIDE DEF From
  <2> QED
    BY <1>3
<1>5. n + 1 - n = 1
  OBVIOUS
<1> QED
  BY <1>4, <1>5

Follows(g, n, piece, next) ==
    /\ g[n+1] = <<>>
    /\ \A i \in 1..n : g[i] = piece[i] \o g[next[i]]

\* Whatever follows the same recursion is the same.
LEMMA BackwardUnique ==
    ASSUME NEW S, NEW n \in Nat, NEW next \in Later(n), NEW piece \in [1..n -> Seq(S)],
           NEW f, IsRest(f, S, n, piece, next), NEW g, Follows(g, n, piece, next)
    PROVE  \A i \in 1..(n+1) : g[i] = f[i]
<1> USE DEF Follows
<1> SUFFICES ASSUME NEW i \in 1..(n+1), g[i] # f[i] PROVE FALSE
  OBVIOUS
<1> DEFINE U == {m \in Nat : m <= n /\ g[n+1-m] # f[n+1-m]}
<1>1. n + 1 - i \in U
  <2>1. n + 1 - (n + 1 - i) = i /\ n + 1 - i \in Nat /\ n + 1 - i <= n
    OBVIOUS
  <2> QED
    BY <2>1
<1>2. PICK m \in U : \A k \in U : m <= k
  <2>1. U \subseteq Nat /\ U # {}
    BY <1>1
  <2> HIDE DEF U
  <2> QED
    BY <2>1, Least
<1>3. m # 0
  <2>1. n + 1 - 0 = n + 1
    OBVIOUS
  <2> QED
    BY <2>1 DEF IsRest
<1> DEFINE j == n + 1 - m
<1>4. j \in 1..n /\ g[j] # f[j]
  BY <1>2, <1>3
<1>5. next[j] \in 1..(n+1) /\ next[j] > j
  BY <1>4 DEF Later
<1>6. n + 1 - next[j] \in Nat /\ ~ (m <= n + 1 - next[j]) /\ n + 1 - next[j] <= n
      /\ n + 1 - (n + 1 - next[j]) = next[j]
  BY <1>2, <1>4, <1>5
<1>7. g[next[j]] = f[next[j]]
  BY <1>2, <1>6
<1> QED
  BY <1>4, <1>7 DEF IsRest

-----------------------------------------------------------------------------
(* Sequences of pieces, joined *)

\* f[i] is the first i pieces of ss, joined.
IsJoin(f, ss, S) ==
    /\ f \in [0..Len(ss) -> Seq(S)]
    /\ f[0] = <<>>
    /\ \A i \in 1..Len(ss) : f[i] = f[i-1] \o ss[i]

\* What FlattenSeq returns, piece by piece.
LEMMA FlattenJoins ==
    ASSUME NEW S, NEW ss \in Seq(Seq(S))
    PROVE  \E f : IsJoin(f, ss, S) /\ FlattenSeq(ss) = f[Len(ss)]
<1> USE DEF IsJoin
<1> DEFINE n == Len(ss)
           step == [i \in 1..n |-> [s \in Seq(S) |-> s \o ss[i]]]
<1>0. n \in Nat /\ <<>> \in Seq(S) /\ \A i \in 1..n : ss[i] \in Seq(S)
  BY LenProperties, ElementOfSeq, EmptySeq
<1>1. step \in [1..n -> [Seq(S) -> Seq(S)]]
  BY <1>0, ConcatProperties
<1>2. PICK g \in [0..n -> Seq(S)] :
          g[0] = <<>> /\ \A i \in 1..n : g[i] = step[i][g[i-1]]
  <2>1. n \in Nat /\ <<>> \in Seq(S)
    BY <1>0
  <2>2. step \in Steps(Seq(S), n)
    BY <1>1 DEF Steps
  <2> HIDE DEF step, n
  <2>3. \E g : IsRun(g, Seq(S), n, <<>>, step)
    BY <2>1, <2>2, ForwardRecursion
  <2> QED
    BY <2>3 DEF IsRun
<1>3. \A i \in 1..n : g[i] = g[i-1] \o ss[i]
  <2> SUFFICES ASSUME NEW i \in 1..n PROVE g[i] = g[i-1] \o ss[i]
    OBVIOUS
  <2>1. i - 1 \in 0..n
    BY <1>0
  <2>2. g[i-1] \in Seq(S)
    BY <2>1
  <2> QED
    BY <1>2, <2>2
<1> HIDE DEF step, n
<1>4. FlattenSeq(ss) = g[n]
  <2>1. CASE n = 0
    BY <2>1, <1>2, EmptySeq DEF FlattenSeq, n
  <2>2. CASE n # 0
    <3> DEFINE flatten == CHOOSE f : f = [i \in 1..n |->
                              IF i = 1 THEN ss[i] ELSE f[i-1] \o ss[i]]
               h == [i \in 1..n |-> g[i]]
    <3>1. h = [i \in 1..n |-> IF i = 1 THEN ss[i] ELSE h[i-1] \o ss[i]]
      <4>1. ASSUME NEW i \in 1..n
            PROVE  g[i] = IF i = 1 THEN ss[i] ELSE h[i-1] \o ss[i]
        <5>1. CASE i = 1
          <6>0. 1 - 1 = 0 /\ 1 \in 1..n
            BY <5>1
          <6>1. g[1] = <<>> \o ss[1] /\ ss[1] \in Seq(S)
            BY <6>0, <1>2, <1>3, <1>0
          <6> QED
            BY <6>1, <5>1, ConcatEmptySeq
        <5>2. CASE i # 1
          <6>1. i - 1 \in 1..n
            BY <5>2, <1>0
          <6> QED
            BY <6>1, <5>2, <1>3
        <5> QED
          BY <5>1, <5>2
      <4> QED
        BY <4>1
    <3>2. flatten = [i \in 1..n |-> IF i = 1 THEN ss[i] ELSE flatten[i-1] \o ss[i]]
      <4> HIDE DEF h
      <4> QED
        BY <3>1
    <3>3. FlattenSeq(ss) = flatten[n]
      BY <2>2 DEF FlattenSeq, n
    <3> HIDE DEF flatten, h
    <3> DEFINE T == {i \in Nat : i + 1 \in 1..n => flatten[i+1] = g[i+1]}
    <3>4. 0 \in T
      <4> SUFFICES ASSUME 1 \in 1..n PROVE flatten[1] = g[1]
        OBVIOUS
      <4>0. 1 - 1 = 0
        OBVIOUS
      <4>1. g[1] = <<>> \o ss[1] /\ ss[1] \in Seq(S)
        BY <4>0, <1>2, <1>3, <1>0
      <4>2. flatten[1] = ss[1]
        BY <3>2
      <4> QED
        BY <4>1, <4>2, ConcatEmptySeq
    <3>5. ASSUME NEW i \in Nat, i \in T PROVE i + 1 \in T
      <4> SUFFICES ASSUME i + 2 \in 1..n PROVE flatten[i+2] = g[i+2]
        OBVIOUS
      <4>0. i + 1 \in 1..n /\ (i + 2) - 1 = i + 1 /\ i + 2 # 1
        BY <1>0
      <4>1. flatten[i+1] = g[i+1]
        BY <4>0, <3>5
      <4>2. flatten[i+2] = flatten[i+1] \o ss[i+2]
        BY <3>2, <4>0
      <4>3. g[i+2] = g[i+1] \o ss[i+2]
        BY <1>3, <4>0
      <4> QED
        BY <4>1, <4>2, <4>3
    <3>6. n - 1 \in T
      <4>1. n - 1 \in Nat
        BY <1>0, <2>2
      <4> HIDE DEF T
      <4> QED
        BY <4>1, <3>4, <3>5, Induction
    <3> QED
      BY <3>3, <3>6, <2>2, <1>0
  <2> QED
    BY <2>1, <2>2
<1> QED
  BY <1>2, <1>3, <1>4 DEF n

\* The join is the only sequence made of the pieces in this way.
LEMMA JoinUnique ==
    ASSUME NEW S, NEW ss \in Seq(Seq(S)), NEW tt \in Seq(Seq(S)), NEW f, NEW g,
           IsJoin(f, ss, S), IsJoin(g, tt, S), NEW m \in Nat,
           m <= Len(ss), m <= Len(tt), \A i \in 1..m : ss[i] = tt[i]
    PROVE  f[m] = g[m]
<1> DEFINE T == {i \in Nat : i <= m => f[i] = g[i]}
<1>0. Len(ss) \in Nat /\ Len(tt) \in Nat
  BY LenProperties
<1>1. 0 \in T
  BY DEF IsJoin
<1>2. ASSUME NEW i \in Nat, i \in T PROVE i + 1 \in T
  <2> SUFFICES ASSUME i + 1 <= m PROVE f[i+1] = g[i+1]
    OBVIOUS
  <2>1. /\ i + 1 \in 1..m /\ i + 1 \in 1..Len(ss) /\ i + 1 \in 1..Len(tt)
        /\ (i + 1) - 1 = i
    BY <1>0
  <2>2. f[i] = g[i]
    BY <1>2
  <2>3. f[i+1] = f[i] \o ss[i+1] /\ g[i+1] = g[i] \o tt[i+1]
    BY <2>1 DEF IsJoin
  <2> QED
    BY <2>1, <2>2, <2>3
<1>3. m \in T
  <2> HIDE DEF T
  <2> QED
    BY <1>1, <1>2, Induction
<1> QED
  BY <1>3

\* The first i pieces, joined by FlattenSeq, are f[i].
LEMMA FlattenPrefix ==
    ASSUME NEW S, NEW ss \in Seq(Seq(S)), NEW f, IsJoin(f, ss, S),
           NEW i \in 0..Len(ss)
    PROVE  FlattenSeq(SubSeq(ss, 1, i)) = f[i]
<1> DEFINE tt == SubSeq(ss, 1, i)
<1>0. Len(ss) \in Nat /\ i \in Nat
  BY LenProperties
<1>1. /\ tt \in Seq(Seq(S))
      /\ Len(tt) = i
      /\ \A j \in 1..i : tt[j] = ss[j]
  <2>1. \A j \in 1..i : ss[j] \in Seq(S)
    BY <1>0, ElementOfSeq
  <2> QED
    BY <1>0, <2>1, SubSeqProperties
<1> HIDE DEF tt
<1>2. PICK g : IsJoin(g, tt, S) /\ FlattenSeq(tt) = g[Len(tt)]
  BY <1>1, FlattenJoins
<1>3. g[i] = f[i]
  BY <1>0, <1>1, <1>2, JoinUnique
<1> QED
  BY <1>1, <1>2, <1>3 DEF tt

\* Where the pieces are in what they are joined to.
ArePlaced(f, ss, S) ==
    /\ Len(f[0]) = 0
    /\ \A i \in 0..Len(ss) : f[i] \in Seq(S) /\ Len(f[i]) \in Nat
    /\ \A i \in 1..Len(ss) : Len(f[i]) = Len(f[i-1]) + Len(ss[i])
    /\ \A j \in 0..Len(ss) : \A i \in 0..j : Len(f[i]) <= Len(f[j])
    /\ \A j \in 0..Len(ss) : \A i \in 1..j : \A x \in 1..Len(ss[i]) :
          f[j][Len(f[i-1]) + x] = ss[i][x]

\* Each piece stands in the join where the ones before it end.
LEMMA JoinPlaces ==
    ASSUME NEW S, NEW ss \in Seq(Seq(S)), NEW f, IsJoin(f, ss, S)
    PROVE  ArePlaced(f, ss, S)
<1> DEFINE n == Len(ss)
           E(i) == Len(f[i])
           L(i) == Len(ss[i])
<1>0. n \in Nat /\ \A i \in 1..n : ss[i] \in Seq(S) /\ L(i) \in Nat
  BY LenProperties, ElementOfSeq
<1>1. /\ f \in [0..n -> Seq(S)] /\ E(0) = 0
      /\ \A i \in 1..n : f[i] = f[i-1] \o ss[i]
  BY EmptySeq DEF IsJoin
<1>2. \A i \in 0..n : f[i] \in Seq(S) /\ E(i) \in Nat
  BY LenProperties DEF IsJoin
<1> HIDE DEF n
<1>3. \A i \in 1..n : /\ i - 1 \in 0..n
                      /\ E(i) = E(i-1) + L(i)
                      /\ \A x \in 1..E(i) :
                            f[i][x] = IF x <= E(i-1) THEN f[i-1][x] ELSE ss[i][x - E(i-1)]
  <2> SUFFICES ASSUME NEW i \in 1..n
               PROVE  /\ i - 1 \in 0..n
                      /\ E(i) = E(i-1) + L(i)
                      /\ \A x \in 1..E(i) :
                            f[i][x] = IF x <= E(i-1) THEN f[i-1][x] ELSE ss[i][x - E(i-1)]
    OBVIOUS
  <2>1. i - 1 \in 0..n
    BY <1>0
  <2>2. f[i-1] \in Seq(S) /\ ss[i] \in Seq(S) /\ f[i] = f[i-1] \o ss[i]
    BY <2>1, <1>2, <1>0, <1>1
  <2> DEFINE a == f[i-1]
             b == ss[i]
  <2>3. /\ Len(f[i]) = Len(a) + Len(b)
        /\ \A x \in 1..(Len(a) + Len(b)) :
              f[i][x] = IF x <= Len(a) THEN a[x] ELSE b[x - Len(a)]
    <3>1. a \in Seq(S) /\ b \in Seq(S) /\ f[i] = a \o b
      BY <2>2
    <3> HIDE DEF a, b
    <3> QED
      BY <3>1, ConcatProperties
  <2> QED
    BY <2>1, <2>3
<1> HIDE DEF E, L
<1> DEFINE Placed(j) ==
              /\ \A i \in 0..j : E(i) <= E(j)
              /\ \A i \in 1..j : \A x \in 1..L(i) : f[j][E(i-1) + x] = ss[i][x]
           T == {j \in Nat : j <= n => Placed(j)}
<1>4. 0 \in T
  <2>1. \A i \in 0..0 : i = 0
    OBVIOUS
  <2> QED
    BY <1>1, <2>1
<1>5. ASSUME NEW j \in Nat, j \in T PROVE j + 1 \in T
  <2> DEFINE k == j + 1
  <2> SUFFICES ASSUME k <= n PROVE Placed(k)
    OBVIOUS
  <2>1. Placed(j) /\ j \in 0..n /\ k \in 1..n /\ k \in Nat /\ k - 1 = j
    BY <1>0, <1>5
  <2>2. \A i \in 0..k : i = k \/ i \in 0..j
    OBVIOUS
  <2> HIDE DEF k
  <2>3. E(k) = E(j) + L(k) /\ E(j) \in Nat /\ L(k) \in Nat
    BY <2>1, <1>0, <1>2, <1>3
  <2>4. \A i \in 0..k : E(i) <= E(k)
    <3> SUFFICES ASSUME NEW i \in 0..k PROVE E(i) <= E(k)
      OBVIOUS
    <3>1. CASE i = k
      BY <3>1, <2>3
    <3>2. CASE i \in 0..j
      <4>1. E(i) <= E(j) /\ E(i) \in Nat
        BY <3>2, <2>1, <1>2, <1>0
      <4> QED
        BY <4>1, <2>3
    <3> QED
      BY <3>1, <3>2, <2>2
  <2>5. ASSUME NEW i \in 1..k, NEW x \in 1..L(i)
        PROVE  f[k][E(i-1) + x] = ss[i][x]
    <3>1. i \in 1..n /\ i \in 0..n /\ i \in 0..k /\ i - 1 \in 0..n
      BY <2>1, <1>0
    <3>2. E(i) = E(i-1) + L(i) /\ E(i-1) \in Nat /\ L(i) \in Nat
      BY <3>1, <1>0, <1>2, <1>3
    <3> DEFINE y == E(i-1) + x
    <3>3. y \in 1..E(i) /\ y \in Nat
      BY <3>2
    <3>4. E(i) <= E(k)
      BY <3>1, <2>4
    <3>5. y \in 1..E(k)
      BY <3>3, <3>4, <3>2, <2>3
    <3>6. y - E(i-1) = x
      BY <3>2
    <3> HIDE DEF y
    <3>7. f[k][y] = IF y <= E(j) THEN f[j][y] ELSE ss[k][y - E(j)]
      BY <3>5, <2>1, <1>3
    <3>8. CASE i = k
      <4>1. ~ (y <= E(j)) /\ y - E(j) = x
        BY <3>8, <3>6, <3>3, <3>2, <2>1, <2>3 DEF y
      <4> QED
        BY <4>1, <3>7, <3>8 DEF y
    <3>9. CASE i \in 1..j
      <4>1. E(i) <= E(j)
        BY <3>9, <2>1
      <4>2. y <= E(j)
        BY <4>1, <3>3, <3>2, <2>3
      <4>3. f[j][y] = ss[i][x]
        BY <3>9, <2>1 DEF y
      <4> QED
        BY <4>2, <4>3, <3>7 DEF y
    <3> QED
      BY <3>8, <3>9, <3>1, <2>2
  <2> QED
    BY <2>4, <2>5
<1>6. \A j \in Nat : j \in T
  <2> HIDE DEF T
  <2> QED
    BY <1>4, <1>5, Induction
<1>7. \A j \in 0..n : Placed(j)
  <2> SUFFICES ASSUME NEW j \in 0..n PROVE Placed(j)
    OBVIOUS
  <2>1. j \in T /\ j \in Nat /\ j <= n
    BY <1>6, <1>0
  <2> HIDE DEF Placed
  <2> QED
    BY <2>1
<1> QED
  BY <1>1, <1>2, <1>3, <1>7 DEF E, L, n, ArePlaced

\* Every place is in one of the pieces.
LEMMA PlaceOf ==
    ASSUME NEW S, NEW ss \in Seq(Seq(S)), NEW f, IsJoin(f, ss, S),
           NEW p \in Nat \ {0}, p <= Len(f[Len(ss)])
    PROVE  \E i \in 1..Len(ss) : Len(f[i-1]) < p /\ p <= Len(f[i])
<1> DEFINE n == Len(ss)
           T == {i \in 0..n : p <= Len(f[i])}
<1>0. n \in Nat
  BY LenProperties
<1>1. T \subseteq Nat /\ T # {}
  BY <1>0
<1>2. PICK i \in T : \A j \in T : i <= j
  <2> HIDE DEF T
  <2> QED
    BY <1>1, Least
<1>3. i # 0
  <2>1. Len(f[0]) = 0
    BY JoinPlaces DEF ArePlaced
  <2> QED
    BY <2>1
<1>4. i \in 1..n /\ i - 1 \in 0..n /\ ~ (i <= i - 1)
  BY <1>0, <1>3
<1>5. ~ (p <= Len(f[i-1]))
  BY <1>2, <1>4
<1>6. Len(f[i-1]) \in Nat
  BY <1>4, JoinPlaces DEF ArePlaced
<1> QED
  BY <1>4, <1>5, <1>6

-----------------------------------------------------------------------------
(* The codec *)

Bytes == 0..255

\* The bits of two bytes that differ make a byte.
LEMMA XorByte == \A a, b : Xor(a, b) \in Bytes
<1> SUFFICES ASSUME NEW a, NEW b PROVE Xor(a, b) \in Bytes
  OBVIOUS
<1> DEFINE Bit(w) == IF (a \div w) % 2 = (b \div w) % 2 THEN 0 ELSE w
<1>1. /\ Bit(1) \in {0, 1} /\ Bit(2) \in {0, 2} /\ Bit(4) \in {0, 4}
      /\ Bit(8) \in {0, 8} /\ Bit(16) \in {0, 16} /\ Bit(32) \in {0, 32}
      /\ Bit(64) \in {0, 64} /\ Bit(128) \in {0, 128}
  OBVIOUS
<1>2. Xor(a, b) = Bit(1) + Bit(2) + Bit(4) + Bit(8) + Bit(16) + Bit(32) + Bit(64) + Bit(128)
  BY DEF Xor
<1> HIDE DEF Bit
<1> QED
  BY <1>1, <1>2 DEF Bytes

\* The checksum is a byte.
LEMMA CheckSumByte ==
    ASSUME NEW data \in Seq(Bytes)
    PROVE  checkSum(data) \in Bytes
<1> DEFINE n == Len(data)
           step == [i \in 1..n |-> [sum \in Bytes |-> Xor(sum, data[i])]]
           Sum == CHOOSE f : f = [i \in 0..n |->
                                     IF i = 0 THEN 0 ELSE Xor(f[i-1], data[i])]
<1>0. n \in Nat
  BY LenProperties
<1>1. step \in Steps(Bytes, n)
  BY XorByte DEF Steps
<1>2. checkSum(data) = Sum[n]
  BY DEF checkSum
<1> HIDE DEF n
<1>3. PICK f : IsRun(f, Bytes, n, 0, step)
  <2>1. 0 \in Bytes
    BY DEF Bytes
  <2> HIDE DEF step
  <2> QED
    BY <2>1, <1>0, <1>1, ForwardRecursion
<1>4. f = [i \in 0..n |-> IF i = 0 THEN 0 ELSE Xor(f[i-1], data[i])]
  <2>1. ASSUME NEW i \in 1..n PROVE f[i] = Xor(f[i-1], data[i])
    <3>1. i - 1 \in 0..n
      BY <1>0
    <3> QED
      BY <3>1, <1>3 DEF IsRun
  <2> QED
    BY <2>1, <1>3 DEF IsRun
<1>5. Sum = [i \in 0..n |-> IF i = 0 THEN 0 ELSE Xor(Sum[i-1], data[i])]
  BY <1>4
<1> HIDE DEF Sum
<1>6. Sum[n] = 0 \/ Sum[n] = Xor(Sum[n-1], data[n])
  BY <1>0, <1>5
<1> QED
  BY <1>2, <1>6, XorByte DEF Bytes

\* How a byte is escaped: no line feed in it, and it can be read back.
LEMMA EscapeForm ==
    ASSUME NEW b \in Bytes
    PROVE  /\ Escape(b) \in Seq(Bytes)
           /\ \A x \in 1..Len(Escape(b)) : Escape(b)[x] # LF
           /\ \/ Escape(b) = <<b>> /\ b \notin Escapes
              \/ /\ Len(Escape(b)) = 2
                 /\ Escape(b)[1] \in Escapes /\ Escape(b)[2] \notin Escapes
                 /\ Unescaped(Escape(b)[1], Escape(b)[2]) = b
<1> USE DEF CR, LF, Bytes
<1>1. CASE b = CR
  <2>1. Escape(b) = <<CR, 1>>
    BY <1>1 DEF Escape
  <2> QED
    BY <2>1, <1>1 DEF Escapes, Unescaped
<1>2. CASE b = LF
  <2>1. Escape(b) = <<CR, 2>>
    BY <1>2 DEF Escape
  <2> QED
    BY <2>1, <1>2 DEF Escapes, Unescaped
<1>3. CASE type = "cloud" /\ b \in {62, 26}
  <2>1. Escape(b) = <<b - 1, 2>>
    BY <1>3 DEF Escape
  <2>2. b - 1 \in {61, 25} /\ (b - 1) + 1 = b
    BY <1>3
  <2> QED
    BY <2>1, <2>2, <1>3 DEF Escapes, Unescaped
<1>4. CASE type = "cloud" /\ b \in {61, 25}
  <2>1. Escape(b) = <<b, 1>>
    BY <1>4 DEF Escape
  <2> QED
    BY <2>1, <1>4 DEF Escapes, Unescaped
<1>5. CASE /\ b # CR /\ b # LF
           /\ ~ (type = "cloud" /\ b \in {62, 26})
           /\ ~ (type = "cloud" /\ b \in {61, 25})
  <2>1. Escape(b) = <<b>>
    BY <1>5 DEF Escape
  <2> QED
    BY <2>1, <1>5 DEF Escapes, Unescaped
<1> QED
  BY <1>1, <1>2, <1>3, <1>4, <1>5

\* What is unescaped is a byte.
LEMMA UnescapedByte ==
    ASSUME NEW b \in Escapes, NEW next
    PROVE  Unescaped(b, next) \in Bytes
BY DEF Escapes, Unescaped, CR, LF, Bytes

\* What reverseDecode makes of the bytes from i on.
IsDecoding(f, data) ==
    /\ f \in [1..(Len(data) + 1) -> Seq(Bytes)]
    /\ \A i \in 1..(Len(data) + 1) :
          f[i] = IF i + 2 > Len(data) THEN <<>>
                 ELSE IF data[i] \in Escapes
                      THEN <<Unescaped(data[i], data[i+1])>> \o f[i+2]
                      ELSE <<data[i]>> \o f[i+1]

\* reverseDecode puts together what it makes of each byte.
LEMMA DecodeRuns ==
    ASSUME NEW data \in Seq(Bytes)
    PROVE  \E f : IsDecoding(f, data) /\ reverseDecode(data) = f[1]
<1> DEFINE n == Len(data)
           piece == [i \in 1..n |->
                        IF i + 2 > n THEN <<>>
                        ELSE IF data[i] \in Escapes
                             THEN <<Unescaped(data[i], data[i+1])>> ELSE <<data[i]>>]
           next == [i \in 1..n |->
                        IF i + 2 > n THEN n + 1
                        ELSE IF data[i] \in Escapes THEN i + 2 ELSE i + 1]
           From == CHOOSE f : f = [i \in 1..(n+1) |->
                        IF i + 2 > n THEN <<>>
                        ELSE IF data[i] \in Escapes
                             THEN <<Unescaped(data[i], data[i+1])>> \o f[i+2]
                             ELSE <<data[i]>> \o f[i+1]]
<1>0. n \in Nat /\ \A i \in 1..n : data[i] \in Bytes
  BY LenProperties, ElementOfSeq
<1>1. reverseDecode(data) = From[1]
  BY DEF reverseDecode
<1> HIDE DEF n
<1>2. piece \in [1..n -> Seq(Bytes)]
  <2> SUFFICES ASSUME NEW i \in 1..n PROVE piece[i] \in Seq(Bytes)
    OBVIOUS
  <2>1. data[i] \in Bytes /\ (data[i] \in Escapes => Unescaped(data[i], data[i+1]) \in Bytes)
    BY <1>0, UnescapedByte
  <2>2. \A b \in Bytes : <<b>> \in Seq(Bytes)
    OBVIOUS
  <2> QED
    BY <2>1, <2>2, EmptySeq
<1>3. next \in Later(n)
  BY <1>0 DEF Later
<1>4. PICK f : IsRest(f, Bytes, n, piece, next)
  <2> HIDE DEF piece, next
  <2> QED
    BY <1>0, <1>2, <1>3, BackwardRecursion
<1>5. ASSUME NEW i \in 1..(n+1)
      PROVE  f[i] = IF i + 2 > n THEN <<>>
                    ELSE IF data[i] \in Escapes
                         THEN <<Unescaped(data[i], data[i+1])>> \o f[i+2]
                         ELSE <<data[i]>> \o f[i+1]
  <2>1. CASE i = n + 1
    BY <2>1, <1>0, <1>4 DEF IsRest
  <2>2. CASE i \in 1..n /\ i + 2 > n
    <3>1. f[i] = <<>> \o f[n+1] /\ f[n+1] = <<>>
      BY <2>2, <1>0, <1>4 DEF IsRest
    <3>2. <<>> \o <<>> = <<>>
      OBVIOUS
    <3> QED
      BY <3>1, <3>2, <2>2
  <2>3. CASE i \in 1..n /\ ~ (i + 2 > n)
    BY <2>3, <1>0, <1>4 DEF IsRest
  <2> QED
    BY <2>1, <2>2, <2>3, <1>0
<1>6. f = [i \in 1..(n+1) |->
              IF i + 2 > n THEN <<>>
              ELSE IF data[i] \in Escapes
                   THEN <<Unescaped(data[i], data[i+1])>> \o f[i+2]
                   ELSE <<data[i]>> \o f[i+1]]
  BY <1>4, <1>5 DEF IsRest
<1>7. From = [i \in 1..(n+1) |->
              IF i + 2 > n THEN <<>>
              ELSE IF data[i] \in Escapes
                   THEN <<Unescaped(data[i], data[i+1])>> \o From[i+2]
                   ELSE <<data[i]>> \o From[i+1]]
  BY <1>6
<1> HIDE DEF From
<1>8. From[n+1] = <<>>
  BY <1>7, <1>0
<1>9. ASSUME NEW i \in 1..n PROVE From[i] = piece[i] \o From[next[i]]
  <2>1. CASE i + 2 > n
    <3>1. From[i] = <<>> /\ piece[i] = <<>> /\ next[i] = n + 1
      BY <2>1, <1>7, <1>0
    <3>2. <<>> \o <<>> = <<>>
      OBVIOUS
    <3> QED
      BY <3>1, <3>2, <1>8
  <2>2. CASE ~ (i + 2 > n) /\ data[i] \in Escapes
    <3>1. /\ piece[i] = <<Unescaped(data[i], data[i+1])>> /\ next[i] = i + 2
          /\ i \in 1..(n+1)
      BY <2>2, <1>0
    <3> HIDE DEF piece, next
    <3> QED
      BY <3>1, <2>2, <1>7
  <2>3. CASE ~ (i + 2 > n) /\ data[i] \notin Escapes
    <3>1. piece[i] = <<data[i]>> /\ next[i] = i + 1 /\ i \in 1..(n+1)
      BY <2>3, <1>0
    <3> HIDE DEF piece, next
    <3> QED
      BY <3>1, <2>3, <1>7
  <2> QED
    BY <2>1, <2>2, <2>3
<1>10. \A i \in 1..(n+1) : From[i] = f[i]
  <2> HIDE DEF piece, next
  <2>1. Follows(From, n, piece, next)
    BY <1>8, <1>9 DEF Follows
  <2>2. n \in Nat
    BY <1>0
  <2> QED
    BY <2>2, <1>2, <1>3, <1>4, <2>1, BackwardUnique
<1>11. IsDecoding(f, data)
  BY <1>4, <1>5 DEF IsDecoding, IsRest, n
<1>12. reverseDecode(data) = f[1]
  BY <1>0, <1>1, <1>10
<1> QED
  BY <1>11, <1>12

\* Where what is left of each byte ends in an encoded line.
IsLayout(E, data, line) ==
    LET n == Len(data)
    IN  /\ E \in [0..n -> Nat]
        /\ E[0] = 0
        /\ \A i \in 1..n : E[i] = E[i-1] + Len(Escape(data[i]))
        /\ \A i \in 0..n : E[i] <= E[n]
        /\ \A i \in 1..n : \A x \in 1..Len(Escape(data[i])) :
              line[E[i-1] + x] = Escape(data[i])[x]
        /\ \A p \in 1..E[n] : \E i \in 1..n : E[i-1] < p /\ p <= E[i]
        /\ line \in Seq(Bytes)
        /\ Len(line) = E[n] + 2
        /\ line[E[n] + 1] = CR /\ line[E[n] + 2] = LF

\* Each byte of a message has its place in the line made of it.
LEMMA LineLayout ==
    ASSUME NEW data \in Seq(Bytes)
    PROVE  \E E : IsLayout(E, data, reverseEncode(data))
<1> DEFINE n == Len(data)
           ss == [i \in DOMAIN data |-> Escape(data[i])]
           line == reverseEncode(data)
<1>0. n \in Nat /\ DOMAIN data = 1..n /\ \A i \in 1..n : data[i] \in Bytes
  BY LenProperties, ElementOfSeq
<1>1. ss \in Seq(Seq(Bytes)) /\ Len(ss) = n /\ \A i \in 1..n : ss[i] = Escape(data[i])
  BY <1>0, EscapeForm
<1> HIDE DEF n
<1>2. PICK f : IsJoin(f, ss, Bytes) /\ FlattenSeq(ss) = f[Len(ss)]
  <2> HIDE DEF ss
  <2> QED
    BY <1>1, FlattenJoins
<1>3. line = f[n] \o <<CR, LF>>
  BY <1>1, <1>2 DEF reverseEncode
<1> HIDE DEF ss, line
<1> DEFINE E == [i \in 0..n |-> Len(f[i])]
<1>4. /\ Len(f[0]) = 0
      /\ \A i \in 0..n : f[i] \in Seq(Bytes) /\ Len(f[i]) \in Nat
      /\ \A i \in 1..n : Len(f[i]) = Len(f[i-1]) + Len(Escape(data[i]))
      /\ \A i \in 0..n : Len(f[i]) <= Len(f[n])
      /\ \A i \in 1..n : \A x \in 1..Len(Escape(data[i])) :
            f[n][Len(f[i-1]) + x] = Escape(data[i])[x]
  <2>1. n \in 0..n
    BY <1>0
  <2>2. /\ Len(f[0]) = 0
        /\ \A i \in 0..n : f[i] \in Seq(Bytes) /\ Len(f[i]) \in Nat
        /\ \A i \in 1..n : Len(f[i]) = Len(f[i-1]) + Len(ss[i])
        /\ \A j \in 0..n : \A i \in 0..j : Len(f[i]) <= Len(f[j])
        /\ \A j \in 0..n : \A i \in 1..j : \A x \in 1..Len(ss[i]) :
              f[j][Len(f[i-1]) + x] = ss[i][x]
    <3>1. Len(ss) = n /\ ss \in Seq(Seq(Bytes)) /\ IsJoin(f, ss, Bytes)
      BY <1>1, <1>2
    <3> DEFINE k == Len(ss)
    <3>2. /\ Len(f[0]) = 0
          /\ \A i \in 0..k : f[i] \in Seq(Bytes) /\ Len(f[i]) \in Nat
          /\ \A i \in 1..k : Len(f[i]) = Len(f[i-1]) + Len(ss[i])
          /\ \A j \in 0..k : \A i \in 0..j : Len(f[i]) <= Len(f[j])
          /\ \A j \in 0..k : \A i \in 1..j : \A x \in 1..Len(ss[i]) :
                f[j][Len(f[i-1]) + x] = ss[i][x]
      <4>1. ArePlaced(f, ss, Bytes)
        BY <3>1, JoinPlaces
      <4> QED
        BY <4>1 DEF ArePlaced
    <3>3. k = n
      BY <3>1
    <3> HIDE DEF k
    <3> QED
      BY <3>2, <3>3
  <2>3. \A i \in 1..n : Len(f[i]) = Len(f[i-1]) + Len(Escape(data[i]))
    BY <2>2, <1>1
  <2>4. \A i \in 0..n : Len(f[i]) <= Len(f[n])
    BY <2>1, <2>2
  <2>5. \A i \in 1..n : \A x \in 1..Len(ss[i]) : f[n][Len(f[i-1]) + x] = ss[i][x]
    <3>1. \A j \in 0..n : \A i \in 1..j : \A x \in 1..Len(ss[i]) :
              f[j][Len(f[i-1]) + x] = ss[i][x]
      BY <2>2
    <3> QED
      BY <2>1, <3>1
  <2>6. \A i \in 1..n : \A x \in 1..Len(Escape(data[i])) :
            f[n][Len(f[i-1]) + x] = Escape(data[i])[x]
    <3> SUFFICES ASSUME NEW i \in 1..n, NEW x \in 1..Len(Escape(data[i]))
                 PROVE  f[n][Len(f[i-1]) + x] = Escape(data[i])[x]
      OBVIOUS
    <3>1. ss[i] = Escape(data[i])
      BY <1>1
    <3>2. \A y \in 1..Len(ss[i]) : f[n][Len(f[i-1]) + y] = ss[i][y]
      BY <2>5
    <3> QED
      BY <3>1, <3>2
  <2> QED
    BY <2>2, <2>3, <2>4, <2>6
<1>5. \A p \in 1..Len(f[n]) : \E i \in 1..n : Len(f[i-1]) < p /\ p <= Len(f[i])
  <2> SUFFICES ASSUME NEW p \in 1..Len(f[n])
               PROVE  \E i \in 1..n : Len(f[i-1]) < p /\ p <= Len(f[i])
    OBVIOUS
  <2>1. Len(f[n]) \in Nat
    BY <1>0, <1>4
  <2>2. p \in Nat \ {0} /\ p <= Len(f[Len(ss)])
    BY <2>1, <1>1
  <2> QED
    BY <2>2, <1>1, <1>2, PlaceOf
<1>6. /\ line \in Seq(Bytes)
      /\ Len(line) = Len(f[n]) + 2
      /\ line[Len(f[n]) + 1] = CR
      /\ line[Len(f[n]) + 2] = LF
      /\ \A x \in 1..Len(f[n]) : line[x] = f[n][x]
  <2> DEFINE a == f[n]
             b == <<CR, LF>>
  <2>1. a \in Seq(Bytes) /\ Len(a) \in Nat
    BY <1>0, <1>4
  <2>2. b \in Seq(Bytes) /\ Len(b) = 2 /\ b[1] = CR /\ b[2] = LF
    BY DEF CR, LF, Bytes
  <2>3. line = a \o b
    BY <1>3
  <2> HIDE DEF a, b
  <2>4. /\ line \in Seq(Bytes) /\ Len(line) = Len(a) + 2
        /\ \A x \in 1..(Len(a) + 2) :
              line[x] = IF x <= Len(a) THEN a[x] ELSE b[x - Len(a)]
    <3>1. b \in Seq(Bytes) /\ Len(b) = 2
      BY <2>2
    <3>2. /\ a \o b \in Seq(Bytes) /\ Len(a \o b) = Len(a) + Len(b)
          /\ \A x \in 1..(Len(a) + Len(b)) :
                (a \o b)[x] = IF x <= Len(a) THEN a[x] ELSE b[x - Len(a)]
      BY <2>1, <3>1, ConcatProperties
    <3> QED
      BY <2>3, <3>1, <3>2
  <2>5. /\ line[Len(a) + 1] = CR /\ line[Len(a) + 2] = LF
        /\ \A x \in 1..Len(a) : line[x] = a[x]
    <3> DEFINE k == Len(a)
    <3>1. k \in Nat
      BY <2>1
    <3>2. \A x \in 1..(k + 2) : line[x] = IF x <= k THEN a[x] ELSE b[x - k]
      BY <2>4
    <3> HIDE DEF k
    <3>3. /\ line[k + 1] = b[1] /\ line[k + 2] = b[2]
          /\ \A x \in 1..k : line[x] = a[x]
      BY <3>1, <3>2
    <3> QED
      BY <2>2, <3>3 DEF k
  <2> QED
    BY <2>4, <2>5 DEF a
<1>7. \A i \in 1..n : i - 1 \in 0..n /\ i \in 0..n
  BY <1>0
<1>8. n \in 0..n /\ 0 \in 0..n
  BY <1>0
<1>9. E \in [0..n -> Nat] /\ \A i \in 0..n : E[i] = Len(f[i])
  BY <1>4
<1> HIDE DEF E
<1>10. \A i \in 1..n : \A x \in 1..Len(Escape(data[i])) :
          line[E[i-1] + x] = Escape(data[i])[x]
  <2> SUFFICES ASSUME NEW i \in 1..n, NEW x \in 1..Len(Escape(data[i]))
               PROVE  line[E[i-1] + x] = Escape(data[i])[x]
    OBVIOUS
  <2>1. /\ Len(f[i]) = Len(f[i-1]) + Len(Escape(data[i]))
        /\ Len(f[i]) \in Nat /\ Len(f[i-1]) \in Nat /\ Len(f[n]) \in Nat
        /\ Len(f[i]) <= Len(f[n])
    BY <1>4, <1>7, <1>8
  <2>2. Len(Escape(data[i])) \in Nat
    BY <1>0, EscapeForm, LenProperties
  <2>3. Len(f[i-1]) + x \in 1..Len(f[n])
    <3> DEFINE a == Len(f[i-1])
               b == Len(f[i])
               c == Len(f[n])
               l == Len(Escape(data[i]))
    <3>1. /\ a \in Nat /\ b \in Nat /\ c \in Nat /\ l \in Nat
          /\ b = a + l /\ b <= c /\ x \in 1..l
      BY <2>1, <2>2
    <3> HIDE DEF a, b, c, l
    <3>2. a + x \in 1..c
      BY <3>1
    <3> QED
      BY <3>2 DEF a, c
  <2> QED
    BY <2>3, <1>4, <1>6, <1>7, <1>9
<1>11. IsLayout(E, data, line)
  <2>1. E[0] = 0 /\ E[n] = Len(f[n])
    BY <1>4, <1>8, <1>9
  <2>2. \A i \in 1..n : E[i] = E[i-1] + Len(Escape(data[i]))
    BY <1>4, <1>7, <1>9
  <2>3. \A i \in 0..n : E[i] <= E[n]
    BY <1>4, <1>8, <1>9
  <2>4. \A p \in 1..E[n] : \E i \in 1..n : E[i-1] < p /\ p <= E[i]
    BY <2>1, <1>5, <1>7, <1>9
  <2> QED
    BY <2>1, <2>2, <2>3, <2>4, <1>6, <1>9, <1>10 DEF IsLayout, n
<1> QED
  BY <1>11 DEF line

\* No line feed stands in an encoded line but the last of its bytes.
LEMMA OneLineFeed ==
    ASSUME NEW data \in Seq(Bytes)
    PROVE  LET line == reverseEncode(data)
           IN  /\ line \in Seq(Bytes)
               /\ Len(line) \in Nat /\ Len(line) >= 2
               /\ \A p \in 1..Len(line) : line[p] = LF <=> p = Len(line)
<1> DEFINE line == reverseEncode(data)
           n == Len(data)
<1>1. PICK E : IsLayout(E, data, line)
  BY LineLayout
<1>2. n \in Nat /\ \A i \in 1..n : data[i] \in Bytes
  BY LenProperties, ElementOfSeq
<1>3. line \in Seq(Bytes) /\ E[n] \in Nat /\ Len(line) = E[n] + 2
  BY <1>1, <1>2 DEF IsLayout
<1>4. line[E[n] + 1] # LF /\ line[E[n] + 2] = LF
  BY <1>1 DEF IsLayout, CR, LF
<1>5. ASSUME NEW p \in 1..E[n] PROVE line[p] # LF
  <2>1. PICK i \in 1..n : E[i-1] < p /\ p <= E[i]
    BY <1>1, <1>5 DEF IsLayout
  <2>2. i - 1 \in 0..n /\ i \in 0..n
    BY <1>2
  <2>3. /\ E[i] = E[i-1] + Len(Escape(data[i]))
        /\ E[i-1] \in Nat
        /\ \A x \in 1..Len(Escape(data[i])) :
              line[E[i-1] + x] = Escape(data[i])[x]
    BY <1>1, <2>2 DEF IsLayout
  <2>4. /\ Len(Escape(data[i])) \in Nat
        /\ \A x \in 1..Len(Escape(data[i])) : Escape(data[i])[x] # LF
    BY <1>2, EscapeForm, LenProperties
  <2> DEFINE x == p - E[i-1]
  <2>5. x \in 1..Len(Escape(data[i])) /\ E[i-1] + x = p
    BY <2>1, <2>3, <2>4
  <2> HIDE DEF x
  <2> QED
    BY <2>3, <2>4, <2>5
<1> HIDE DEF line, n
<1>6. \A p \in 1..Len(line) : p \in 1..E[n] \/ p = E[n] + 1 \/ p = E[n] + 2
  BY <1>3
<1>7. \A p \in 1..Len(line) : line[p] = LF <=> p = Len(line)
  BY <1>3, <1>4, <1>5, <1>6
<1> QED
  BY <1>3, <1>7 DEF line

\* A piece of an encoded line decodes to no more bytes than the whole line,
\* wherever it is cut; and the whole line to what was encoded.
LEMMA DecodePiece ==
    ASSUME NEW data \in Seq(Bytes),
           NEW p \in 1..Len(reverseEncode(data)), NEW q \in p..Len(reverseEncode(data))
    PROVE  LET line == reverseEncode(data)
               piece == SubSeq(line, p, q)
           IN  /\ piece \in Seq(Bytes)
               /\ reverseDecode(piece) \in Seq(Bytes)
               /\ Len(reverseDecode(piece)) <= Len(data)
               /\ p = 1 /\ q = Len(line) => reverseDecode(piece) = data
<1> DEFINE line == reverseEncode(data)
           n == Len(data)
           piece == SubSeq(line, p, q)
<1>1. PICK E : IsLayout(E, data, line)
  BY LineLayout
<1>2. n \in Nat /\ \A i \in 1..n : data[i] \in Bytes
  BY LenProperties, ElementOfSeq
<1>3. /\ line \in Seq(Bytes) /\ E \in [0..n -> Nat]
      /\ E[0] = 0 /\ E[n] \in Nat /\ Len(line) = E[n] + 2
      /\ \A i \in 1..n : E[i] = E[i-1] + Len(Escape(data[i]))
      /\ \A i \in 0..n : E[i] <= E[n]
      /\ \A i \in 1..n : \A x \in 1..Len(Escape(data[i])) :
            line[E[i-1] + x] = Escape(data[i])[x]
      /\ \A x \in 1..E[n] : \E i \in 1..n : E[i-1] < x /\ x <= E[i]
  BY <1>1, <1>2 DEF IsLayout
<1>4. p \in Nat /\ q \in Nat /\ 1 <= p /\ p <= q /\ q <= E[n] + 2
  BY <1>3
<1>5. /\ piece \in Seq(Bytes)
      /\ Len(piece) = q - p + 1
      /\ \A x \in 1..(q - p + 1) : piece[x] = line[p + x - 1]
  <2>1. \A x \in p..q : line[x] \in Bytes
    BY <1>3, <1>4, ElementOfSeq
  <2> HIDE DEF line
  <2> QED
    BY <2>1, <1>4, SubSeqProperties
<1>6. PICK f : IsDecoding(f, piece) /\ reverseDecode(piece) = f[1]
  <2> HIDE DEF piece
  <2> QED
    BY <1>5, DecodeRuns
<1> DEFINE D(x) == f[x - p + 1]
<1>7. ASSUME NEW x \in p..(q+1)
      PROVE  /\ D(x) \in Seq(Bytes)
             /\ D(x) = IF x + 2 > q THEN <<>>
                       ELSE IF line[x] \in Escapes
                            THEN <<Unescaped(line[x], line[x+1])>> \o D(x+2)
                            ELSE <<line[x]>> \o D(x+1)
  <2> DEFINE y == x - p + 1
  <2>1. /\ y \in 1..(Len(piece) + 1)
        /\ y + 2 > Len(piece) <=> x + 2 > q
        /\ y + 2 = (x + 2) - p + 1 /\ y + 1 = (x + 1) - p + 1
    BY <1>4, <1>5
  <2>2. ~ (x + 2 > q) => piece[y] = line[x] /\ piece[y+1] = line[x+1]
    <3> SUFFICES ASSUME ~ (x + 2 > q) PROVE piece[y] = line[x] /\ piece[y+1] = line[x+1]
      OBVIOUS
    <3>1. /\ y \in 1..(q - p + 1) /\ y + 1 \in 1..(q - p + 1)
          /\ p + y - 1 = x /\ p + (y + 1) - 1 = x + 1
      BY <1>4
    <3> HIDE DEF y, piece, line
    <3>2. piece[y] = line[p + y - 1] /\ piece[y+1] = line[p + (y + 1) - 1]
      BY <3>1, <1>5
    <3> QED
      BY <3>1, <3>2
  <2> HIDE DEF piece, line
  <2>3. /\ f[y] \in Seq(Bytes)
        /\ f[y] = IF y + 2 > Len(piece) THEN <<>>
                  ELSE IF piece[y] \in Escapes
                       THEN <<Unescaped(piece[y], piece[y+1])>> \o f[y+2]
                       ELSE <<piece[y]>> \o f[y+1]
    <3> HIDE DEF y
    <3> QED
      BY <2>1, <1>6 DEF IsDecoding
  <2>4. D(x) = f[y] /\ D(x+1) = f[y+1] /\ D(x+2) = f[y+2]
    BY <2>1
  <2> HIDE DEF D, y
  <2>5. CASE x + 2 > q
    BY <2>1, <2>3, <2>4, <2>5
  <2>6. CASE ~ (x + 2 > q)
    BY <2>1, <2>2, <2>3, <2>4, <2>6
  <2> QED
    BY <2>5, <2>6
<1>8. D(p) = f[1]
  <2>1. p - p + 1 = 1
    BY <1>4
  <2> QED
    BY <2>1
<1> HIDE DEF D, piece, line, n
\* The line, byte by byte of what was encoded.
<1>9. ASSUME NEW i \in 1..n
      PROVE  /\ E[i-1] \in Nat /\ E[i] \in Nat /\ E[i] <= E[n] /\ data[i] \in Bytes
             /\ \/ /\ E[i] = E[i-1] + 1
                   /\ line[E[i-1] + 1] = data[i] /\ data[i] \notin Escapes
                \/ /\ E[i] = E[i-1] + 2
                   /\ line[E[i-1] + 1] \in Escapes /\ line[E[i-1] + 2] \notin Escapes
                   /\ Unescaped(line[E[i-1] + 1], line[E[i-1] + 2]) = data[i]
  <2>1. i \in 0..n /\ i - 1 \in 0..n
    BY <1>2
  <2>2. data[i] \in Bytes
    BY <1>2
  <2>3. /\ E[i] = E[i-1] + Len(Escape(data[i])) /\ E[i] <= E[n]
        /\ E[i-1] \in Nat /\ E[i] \in Nat
        /\ \A x \in 1..Len(Escape(data[i])) :
              line[E[i-1] + x] = Escape(data[i])[x]
    BY <2>1, <1>3
  <2> DEFINE e == Escape(data[i])
  <2>4. CASE e = <<data[i]>> /\ data[i] \notin Escapes
    <3>1. Len(e) = 1 /\ e[1] = data[i]
      BY <2>4
    <3> HIDE DEF e
    <3> QED
      BY <3>1, <2>2, <2>3, <2>4 DEF e
  <2>5. CASE /\ Len(e) = 2 /\ e[1] \in Escapes /\ e[2] \notin Escapes
             /\ Unescaped(e[1], e[2]) = data[i]
    <3>1. line[E[i-1] + 1] = e[1] /\ line[E[i-1] + 2] = e[2] /\ E[i] = E[i-1] + 2
      <4>1. 1 \in 1..2 /\ 2 \in 1..2
        OBVIOUS
      <4> HIDE DEF e
      <4> QED
        BY <4>1, <2>3, <2>5 DEF e
    <3> HIDE DEF e
    <3> QED
      BY <3>1, <2>2, <2>3, <2>5
  <2> QED
    BY <2>2, <2>4, <2>5, EscapeForm
<1>90. ASSUME NEW i \in 1..n
       PROVE  E[i-1] \in Nat /\ E[i] \in Nat /\ E[i-1] < E[i] /\ E[i] <= E[n]
  BY <1>9
<1> DEFINE full == p = 1 /\ q = Len(line)
           Rest(m) == \A x \in p..(q+1) : x = E[n-m] + 1 =>
                         /\ Len(D(x)) <= m
                         /\ full => D(x) = SubSeq(data, n - m + 1, n)
           T == {m \in Nat : m <= n => Rest(m)}
<1>10. \A x \in p..(q+1) : x + 2 > q => D(x) = <<>> /\ Len(D(x)) = 0
  BY <1>7, EmptySeq
\* A byte put in front of what comes later.
<1>11. ASSUME NEW b \in Bytes, NEW x \in p..(q+1)
       PROVE  <<b>> \o D(x) \in Seq(Bytes) /\ Len(<<b>> \o D(x)) = Len(D(x)) + 1
  <2>1. D(x) \in Seq(Bytes) /\ Len(D(x)) \in Nat
    BY <1>7, LenProperties
  <2>2. <<b>> \in Seq(Bytes) /\ Len(<<b>>) = 1
    OBVIOUS
  <2> QED
    BY <2>1, <2>2, ConcatProperties
<1>12. 0 \in T
  <2> SUFFICES ASSUME NEW x \in p..(q+1), x = E[n-0] + 1
               PROVE  Len(D(x)) <= 0 /\ (full => D(x) = SubSeq(data, n - 0 + 1, n))
    OBVIOUS
  <2>1. n - 0 = n /\ n < n + 1 /\ n - 0 + 1 = n + 1
    BY <1>2
  <2>2. x + 2 > q
    <3>1. x = E[n] + 1
      BY <2>1
    <3> DEFINE c == E[n]
    <3>2. c \in Nat /\ q \in Nat /\ c + 1 + 2 > q
      BY <1>3, <1>4
    <3> HIDE DEF c
    <3> QED
      BY <3>1, <3>2 DEF c
  <2>3. SubSeq(data, n - 0 + 1, n) = <<>>
    BY <2>1, <1>2, SubSeqEmpty
  <2>4. D(x) = <<>> /\ Len(D(x)) = 0
    BY <2>2, <1>10
  <2>5. Len(D(x)) <= 0
    BY <2>4
  <2>6. D(x) = SubSeq(data, n - 0 + 1, n)
    BY <2>3, <2>4
  <2> HIDE DEF full
  <2> QED
    BY <2>5, <2>6
<1>13. ASSUME NEW m \in Nat, m \in T PROVE m + 1 \in T
  <2> SUFFICES ASSUME m + 1 <= n, NEW x \in p..(q+1), x = E[n-(m+1)] + 1
               PROVE  /\ Len(D(x)) <= m + 1
                      /\ full => D(x) = SubSeq(data, n - (m+1) + 1, n)
    OBVIOUS
  <2> DEFINE i == n - m
  <2>1. i \in 1..n /\ n - (m+1) = i - 1 /\ n - (m+1) + 1 = i
    BY <1>2
  <2>2. Rest(m)
    <3> HIDE DEF Rest
    <3> QED
      BY <1>13, <1>2
  <2>3. \A y \in p..(q+1) : y = E[i] + 1 =>
            /\ Len(D(y)) <= m
            /\ full => D(y) = SubSeq(data, i + 1, n)
    BY <2>2
  <2> HIDE DEF i, Rest, T
  <2>4. x = E[i-1] + 1
    BY <2>1
  <2>5. CASE x + 2 > q
    <3>1. ~ full
      <4>1. E[i-1] \in Nat /\ E[i] \in Nat /\ E[i-1] < E[i] /\ E[i] <= E[n]
        BY <2>1, <1>90
      <4>2. SUFFICES ASSUME q = E[n] + 2 PROVE FALSE
        BY <1>3
      <4>3. E[n] \in Nat
        BY <1>3
      <4> DEFINE a == E[i-1]
                 b == E[i]
                 c == E[n]
      <4>4. /\ a \in Nat /\ b \in Nat /\ c \in Nat /\ a < b /\ b <= c
            /\ x = a + 1 /\ q = c + 2 /\ x + 2 > q
        BY <4>1, <4>2, <4>3, <2>4, <2>5
      <4> HIDE DEF a, b, c
      <4> QED
        BY <4>4
    <3> QED
      BY <3>1, <2>5, <1>10
  <2>6. CASE ~ (x + 2 > q)
    <3>1. PICK y \in p..(q+1) : y = E[i] + 1 /\ D(x) = <<data[i]>> \o D(y)
      <4>1. CASE E[i] = E[i-1] + 1 /\ line[x] = data[i] /\ data[i] \notin Escapes
        <5>1. x + 1 \in p..(q+1) /\ x + 1 = E[i] + 1
          <6>1. E[i-1] \in Nat
            BY <2>1, <1>90
          <6>2. x + 1 = E[i] + 1
            BY <6>1, <4>1, <2>4
          <6>3. p \in Int /\ q \in Int /\ x + 1 \in p..(q+1)
            BY <2>6, <1>4
          <6> QED
            BY <6>2, <6>3
        <5>2. D(x) = <<data[i]>> \o D(x+1)
          BY <4>1, <2>6, <1>7
        <5> QED
          BY <5>1, <5>2
      <4>2. CASE /\ E[i] = E[i-1] + 2 /\ line[x] \in Escapes
                 /\ Unescaped(line[x], line[x+1]) = data[i]
        <5>1. x + 2 \in p..(q+1) /\ x + 2 = E[i] + 1
          <6>1. E[i-1] \in Nat
            BY <2>1, <1>90
          <6> DEFINE a == E[i-1]
                     b == E[i]
          <6> HIDE DEF a, b
          <6>11. a \in Nat
            BY <6>1 DEF a
          <6>12. b = a + 2
            BY <4>2 DEF a, b
          <6>2. a \in Nat /\ b = a + 2 /\ x = a + 1
            BY <6>11, <6>12, <2>4 DEF a
          <6>3. p \in Int /\ q \in Int /\ p <= x /\ x <= q + 1 /\ ~ (x + 2 > q)
            BY <2>6, <1>4
          <6>4. x + 2 = b + 1
            BY <6>2
          <6>5. x + 2 \in p..(q+1)
            <7>1. x \in Int
              BY <6>2
            <7> QED
              BY <7>1, <6>3
          <6> QED
            BY <6>4, <6>5 DEF b
        <5>2. D(x) = <<data[i]>> \o D(x+2)
          BY <4>2, <2>6, <1>7
        <5> QED
          BY <5>1, <5>2
      <4>3. x + 1 = E[i-1] + 2
        BY <2>4, <2>1, <1>9
      <4> QED
        BY <4>1, <4>2, <4>3, <2>1, <2>4, <1>9
    <3>2. data[i] \in Bytes
      BY <2>1, <1>2
    <3>3. Len(D(x)) = Len(D(y)) + 1 /\ Len(D(y)) \in Nat /\ Len(D(y)) <= m
      BY <3>1, <3>2, <2>3, <1>7, <1>11, LenProperties
    <3>4. ASSUME full PROVE D(x) = SubSeq(data, i, n)
      <4>1. D(y) = SubSeq(data, i + 1, n)
        BY <3>1, <3>4, <2>3
      <4>2. i \in 1..Len(data) /\ n \in i..Len(data) /\ n = Len(data)
        BY <2>1, <1>2 DEF n
      <4>3. SubSeq(data, i, n) = <<data[i]>> \o SubSeq(data, i + 1, n)
        BY <4>2, SubSeqRecursiveFirst
      <4> QED
        BY <4>1, <4>3, <3>1
    <3> QED
      BY <3>3, <3>4, <2>1
  <2> QED
    BY <2>5, <2>6
<1>14. \A m \in 0..n : Rest(m)
  <2>1. \A m \in Nat : m \in T
    <3> HIDE DEF T
    <3> QED
      BY <1>12, <1>13, Induction
  <2> QED
    BY <2>1, <1>2
<1>15. Len(D(p)) <= n
  <2>1. p \in p..(q+1)
    BY <1>4
  <2>2. CASE p > E[n]
    <3>1. p + 2 > q
      BY <2>2, <1>3, <1>4
    <3> QED
      BY <3>1, <2>1, <1>2, <1>10
  <2>3. CASE p <= E[n]
    <3>1. PICK i \in 1..n : E[i-1] < p /\ p <= E[i]
      BY <2>3, <1>3, <1>4
    <3>2. /\ E[i-1] \in Nat /\ E[i] \in Nat /\ E[i] <= E[n]
          /\ E[i] = E[i-1] + 1 \/ (E[i] = E[i-1] + 2 /\ line[E[i-1] + 2] \notin Escapes)
      BY <1>9
    <3>3. CASE p = E[i-1] + 1
      <4>1. n - i + 1 \in 0..n /\ n - (n - i + 1) = i - 1
        BY <1>2
      <4>2. Rest(n - i + 1)
        BY <4>1, <1>14
      <4>3. Len(D(p)) <= n - i + 1
        BY <4>1, <4>2, <3>3, <2>1
      <4>4. Len(D(p)) \in Nat
        BY <2>1, <1>7, LenProperties
      <4> QED
        BY <4>1, <4>3, <4>4, <1>2
    <3>4. CASE p # E[i-1] + 1
      <4>1. p = E[i-1] + 2 /\ p = E[i] /\ line[p] \notin Escapes
        BY <3>1, <3>2, <3>4, <1>4
      <4>2. CASE p + 2 > q
        BY <4>2, <2>1, <1>2, <1>10
      <4>3. CASE ~ (p + 2 > q)
        <5>1. n - i \in 0..n /\ n - (n - i) = i /\ p + 1 \in p..(q+1)
          BY <4>3, <1>2, <1>4
        <5>2. Rest(n - i)
          BY <5>1, <1>14
        <5>3. Len(D(p+1)) <= n - i
          BY <5>1, <5>2, <4>1
        <5>4. Len(D(p+1)) \in Nat
          BY <5>1, <1>7, LenProperties
        <5>5. line[p] \in Bytes
          <6>1. p \in 1..Len(line)
            BY <2>3, <1>3, <1>4
          <6> QED
            BY <6>1, <1>3, ElementOfSeq
        <5>6. D(p) = <<line[p]>> \o D(p+1)
          BY <4>1, <4>3, <2>1, <1>7
        <5>7. Len(D(p)) = Len(D(p+1)) + 1
          BY <5>1, <5>5, <5>6, <1>11
        <5> QED
          BY <5>1, <5>3, <5>4, <5>7, <1>2
      <4> QED
        BY <4>2, <4>3
    <3> QED
      BY <3>3, <3>4
  <2> QED
    BY <2>2, <2>3, <1>3, <1>4
<1>16. ASSUME full PROVE D(p) = data
  <2>1. n \in 0..n /\ n - n = 0 /\ n - n + 1 = 1 /\ p \in p..(q+1) /\ p = E[n-n] + 1
    BY <1>16, <1>2, <1>3, <1>4
  <2>2. Rest(n)
    BY <2>1, <1>14
  <2>3. D(p) = SubSeq(data, 1, n)
    BY <2>1, <2>2, <1>16
  <2> QED
    BY <2>3, SubSeqFull DEF n
<1>17. D(p) \in Seq(Bytes)
  <2>1. p \in p..(q+1)
    BY <1>4
  <2> QED
    BY <2>1, <1>7
<1> QED
  BY <1>5, <1>6, <1>8, <1>15, <1>16, <1>17 DEF piece, line, n

-----------------------------------------------------------------------------
(* Messages *)

\* Bodies are the sequences up to a length.
LEMMA BodyForm ==
    ASSUME NEW V, NEW body
    PROVE  body \in Bodies(V) <=> body \in Seq(V) /\ Len(body) <= MaxBody
<1>0. MaxBody \in Nat
  BY FramesAssumption
<1>1. ASSUME body \in Bodies(V) PROVE body \in Seq(V) /\ Len(body) <= MaxBody
  <2>1. PICK n \in 0..MaxBody : body \in [1..n -> V]
    BY <1>1 DEF Bodies
  <2>2. n \in Nat /\ n <= MaxBody
    BY <1>0
  <2> QED
    BY <2>1, <2>2
<1>2. ASSUME body \in Seq(V), Len(body) <= MaxBody PROVE body \in Bodies(V)
  <2>1. Len(body) \in 0..MaxBody /\ body \in [1..Len(body) -> V]
    BY <1>0, <1>2, LenProperties
  <2> QED
    BY <2>1 DEF Bodies
<1> QED
  BY <1>1, <1>2

\* The bytes of a message before they are escaped.
Plain(msg) ==
    LET data == <<msg.id, Len(msg.body)>> \o msg.body
    IN  Append(data, checkSum(data))

\* Messages as a receiver may see them.
Handled == [id : Bytes, body : Bodies(Bytes)]

\* The parts of a message, found where the receiver looks for them.
LEMMA PlainForm ==
    ASSUME NEW msg \in Messages
    PROVE  LET data == Plain(msg)
               len == Len(data)
           IN  /\ data \in Seq(Bytes)
               /\ len = Len(msg.body) + HeadLen + 1 /\ Len(msg.body) \in 0..MaxBody
               /\ data[1] = msg.id /\ data[2] = Len(msg.body)
               /\ data[len] = checkSum(Front(data))
               /\ SubSeq(data, HeadLen + 1, len - 1) = msg.body
               /\ enCodeMsg(msg) = reverseEncode(data)
<1> DEFINE head == <<msg.id, Len(msg.body)>>
           body == msg.body
           data == head \o body
           all == Append(data, checkSum(data))
<1>1. MaxBody \in 0..255 /\ Ids \subseteq Bytes /\ Values \subseteq Bytes
  BY FramesAssumption DEF Bytes
<1>2. msg.id \in Bytes /\ body \in Seq(Bytes) /\ Len(body) \in 0..MaxBody
  <2>1. msg.id \in Ids /\ body \in Bodies(Values)
    BY DEF Messages
  <2>2. body \in Seq(Values) /\ Len(body) <= MaxBody
    BY <2>1, BodyForm
  <2>3. body \in Seq(Bytes)
    BY <2>2, <1>1, SeqMonotonic
  <2> QED
    BY <2>1, <2>2, <2>3, <1>1, LenProperties
<1>3. Len(body) \in Bytes /\ Len(body) \in Nat
  <2> DEFINE k == Len(body)
  <2>1. k \in 0..MaxBody /\ MaxBody \in 0..255
    BY <1>1, <1>2
  <2> HIDE DEF k, body
  <2>2. k \in 0..255 /\ k \in Nat
    BY <2>1
  <2> QED
    BY <2>2 DEF Bytes, k
<1>4. head \in Seq(Bytes) /\ Len(head) = 2 /\ head[1] = msg.id /\ head[2] = Len(body)
  BY <1>2, <1>3
<1> HIDE DEF head, body
<1>5. /\ data \in Seq(Bytes) /\ Len(data) = 2 + Len(body)
      /\ data[1] = msg.id /\ data[2] = Len(body)
      /\ \A x \in 1..Len(body) : data[2 + x] = body[x]
  <2>1. /\ data \in Seq(Bytes) /\ Len(data) = 2 + Len(body)
        /\ \A i \in 1..(2 + Len(body)) : data[i] = IF i <= 2 THEN head[i] ELSE body[i - 2]
    <3>1. /\ data \in Seq(Bytes) /\ Len(data) = Len(head) + Len(body)
          /\ \A i \in 1..(Len(head) + Len(body)) :
                data[i] = IF i <= Len(head) THEN head[i] ELSE body[i - Len(head)]
      BY <1>2, <1>4, ConcatProperties
    <3> HIDE DEF data
    <3> QED
      BY <3>1, <1>4
  <2>2. \A x \in 1..Len(body) : 2 + x \in 1..(2 + Len(body)) /\ ~ (2 + x <= 2) /\ 2 + x - 2 = x
    BY <1>3
  <2>3. 1 \in 1..(2 + Len(body)) /\ 2 \in 1..(2 + Len(body))
    BY <1>3
  <2> HIDE DEF data
  <2> QED
    BY <2>1, <2>2, <2>3, <1>4
<1> HIDE DEF data
<1>6. checkSum(data) \in Bytes
  BY <1>5, CheckSumByte
<1>7. /\ all \in Seq(Bytes) /\ Len(all) = Len(body) + 3
      /\ \A i \in 1..(2 + Len(body)) : all[i] = data[i]
      /\ all[Len(body) + 3] = checkSum(data)
  <2>1. /\ all \in Seq(Bytes) /\ Len(all) = Len(data) + 1
        /\ \A i \in 1..Len(data) : all[i] = data[i]
        /\ all[Len(data) + 1] = checkSum(data)
    BY <1>5, <1>6, AppendProperties
  <2>2. Len(data) + 1 = Len(body) + 3
    BY <1>3, <1>5
  <2> QED
    BY <2>1, <2>2, <1>5
<1>8. all[1] = msg.id /\ all[2] = Len(body)
  <2>1. 1 \in 1..(2 + Len(body)) /\ 2 \in 1..(2 + Len(body))
    BY <1>3
  <2> QED
    BY <2>1, <1>5, <1>7
<1>9. Front(all) = data
  <2>1. Front(all) = SubSeq(all, 1, Len(all) - 1)
    BY DEF Front
  <2> DEFINE k == 2 + Len(body)
  <2>2. Len(all) - 1 = k /\ k \in Nat /\ \A i \in 1..k : all[i] \in Bytes
    <3>1. k \in Nat /\ Len(all) - 1 = k /\ \A i \in 1..k : i \in 1..Len(all)
      BY <1>3, <1>7
    <3> QED
      BY <3>1, <1>7, ElementOfSeq
  <2> HIDE DEF all, k
  <2>3. /\ SubSeq(all, 1, k) \in Seq(Bytes)
        /\ Len(SubSeq(all, 1, k)) = k
        /\ \A i \in 1..k : SubSeq(all, 1, k)[i] = all[i]
    BY <2>2, SubSeqProperties
  <2>4. Len(data) = k /\ \A i \in 1..k : all[i] = data[i]
    BY <1>5, <1>7 DEF k
  <2>5. SubSeq(all, 1, k) = data
    BY <2>3, <2>4, <1>5, SeqEqual
  <2> QED
    BY <2>1, <2>2, <2>5
<1>10. SubSeq(all, 3, Len(all) - 1) = body
  <2> DEFINE k == 2 + Len(body)
             t == SubSeq(all, 3, k)
  <2>1. Len(all) - 1 = k /\ k \in Nat /\ k - 3 + 1 = Len(body)
    BY <1>3, <1>7
  <2>2. \A i \in 3..k : all[i] \in Bytes
    <3>1. \A i \in 3..k : i \in 1..Len(all)
      BY <1>3, <1>7
    <3> QED
      BY <3>1, <1>7, ElementOfSeq
  <2> HIDE DEF all
  <2>3. /\ t \in Seq(Bytes) /\ Len(t) = IF 3 <= k THEN k - 3 + 1 ELSE 0
        /\ \A i \in 1..(k - 3 + 1) : t[i] = all[3 + i - 1]
    <3> HIDE DEF k
    <3> QED
      BY <2>1, <2>2, SubSeqProperties
  <2>4. Len(t) = Len(body)
    BY <2>1, <2>3, <1>3
  <2>5. ASSUME NEW i \in 1..Len(body) PROVE t[i] = body[i]
    <3>1. i \in 1..(k - 3 + 1) /\ 3 + i - 1 = 2 + i /\ 2 + i \in 1..(2 + Len(body))
      BY <1>3, <2>1
    <3>2. t[i] = all[2 + i]
      BY <3>1, <2>3
    <3> HIDE DEF t
    <3> QED
      BY <3>1, <3>2, <1>5, <1>7
  <2> HIDE DEF t, k
  <2>6. t = body
    BY <2>3, <2>4, <2>5, <1>2, SeqEqual
  <2> QED
    BY <2>1, <2>6 DEF t
<1>11. Plain(msg) = all /\ enCodeMsg(msg) = reverseEncode(all)
  BY DEF Plain, enCodeMsg, head, body, data
<1> HIDE DEF all
<1>12. /\ HeadLen + 1 = 3 /\ Len(all) = Len(body) + HeadLen + 1
       /\ all[Len(all)] = checkSum(Front(all))
  BY <1>3, <1>7, <1>9 DEF HeadLen
<1>13. SubSeq(all, HeadLen + 1, Len(all) - 1) = body
  BY <1>10, <1>12
<1> HIDE DEF body
<1>14. /\ all \in Seq(Bytes) /\ Len(body) \in 0..MaxBody
       /\ all[1] = msg.id /\ all[2] = Len(body)
  BY <1>2, <1>7, <1>8
<1> QED
  BY <1>11, <1>12, <1>13, <1>14 DEF body

\* What is made of a message comes back from what was made of it.
LEMMA DecodeLine ==
    ASSUME NEW msg \in Messages
    PROVE  deCodeMsg(enCodeMsg(msg)) = <<msg>>
<1> DEFINE data == Plain(msg)
           line == reverseEncode(data)
           len == Len(data)
<1>1. /\ data \in Seq(Bytes)
      /\ len = Len(msg.body) + HeadLen + 1 /\ Len(msg.body) \in 0..MaxBody
      /\ data[1] = msg.id /\ data[2] = Len(msg.body)
      /\ data[len] = checkSum(Front(data))
      /\ SubSeq(data, HeadLen + 1, len - 1) = msg.body
      /\ enCodeMsg(msg) = line
  BY PlainForm
<1> HIDE DEF data
<1>2. line \in Seq(Bytes) /\ Len(line) \in Nat /\ Len(line) >= 2
  BY <1>1, OneLineFeed
<1>3. reverseDecode(line) = data
  <2>1. /\ 1 \in 1..Len(line) /\ Len(line) \in 1..Len(line)
        /\ SubSeq(line, 1, Len(line)) = line
    BY <1>2, SubSeqFull
  <2> QED
    BY <2>1, <1>1, DecodePiece
<1>4. len > HeadLen /\ len = data[2] + 1 + HeadLen
  <2>1. Len(msg.body) \in Nat
    BY <1>1, FramesAssumption
  <2> QED
    BY <2>1, <1>1 DEF HeadLen
<1>5. msg = [id |-> msg.id, body |-> msg.body]
  BY DEF Messages
<1> HIDE DEF line, len
<1>6. deCodeMsg(line) = <<[id |-> data[1], body |-> SubSeq(data, HeadLen + 1, len - 1)]>>
  BY <1>1, <1>3, <1>4 DEF deCodeMsg, len
<1> QED
  BY <1>1, <1>5, <1>6

\* Messages of any length.
AnyMessage == [id : Bytes, body : Seq(Bytes)]

\* What can be decoded at all is a message, shorter than what it came from.
LEMMA DecodeForm ==
    ASSUME NEW data \in Seq(Bytes)
    PROVE  \/ deCodeMsg(data) = <<>>
           \/ \E h \in AnyMessage : /\ deCodeMsg(data) = <<h>>
                                    /\ Len(h.body) + 3 = Len(reverseDecode(data))
<1> DEFINE temp == reverseDecode(data)
           len == Len(temp)
           body == SubSeq(temp, HeadLen + 1, len - 1)
           h == [id |-> temp[1], body |-> body]
<1>1. temp \in Seq(Bytes)
  <2>1. PICK f : IsDecoding(f, data) /\ temp = f[1]
    BY DecodeRuns
  <2>2. 1 \in 1..(Len(data) + 1)
    BY LenProperties
  <2> QED
    BY <2>1, <2>2 DEF IsDecoding
<1>2. len \in Nat
  BY <1>1, LenProperties
<1>3. \/ deCodeMsg(data) = <<>>
      \/ len > HeadLen /\ deCodeMsg(data) = <<h>>
  BY DEF deCodeMsg
<1>4. CASE len > HeadLen /\ deCodeMsg(data) = <<h>>
  <2>1. len > 2 /\ len - 1 \in Int /\ 3 \in Int
    BY <1>2, <1>4 DEF HeadLen
  <2>2. temp[1] \in Bytes /\ \A i \in 3..(len - 1) : temp[i] \in Bytes
    <3>1. 1 \in 1..len /\ \A i \in 3..(len - 1) : i \in 1..len
      BY <1>2, <2>1
    <3> QED
      BY <3>1, <1>1, ElementOfSeq
  <2>3. /\ SubSeq(temp, 3, len - 1) \in Seq(Bytes)
        /\ Len(SubSeq(temp, 3, len - 1)) = IF 3 <= len - 1 THEN (len - 1) - 3 + 1 ELSE 0
    <3> HIDE DEF temp, len
    <3> QED
      BY <2>1, <2>2, SubSeqProperties
  <2>4. body = SubSeq(temp, 3, len - 1)
    BY DEF HeadLen
  <2> HIDE DEF body
  <2>5. body \in Seq(Bytes) /\ Len(body) + 3 = len
    <3>1. Len(body) = IF 3 <= len - 1 THEN (len - 1) - 3 + 1 ELSE 0
      BY <2>3, <2>4
    <3> HIDE DEF len
    <3> QED
      BY <3>1, <2>1, <2>3, <2>4, <1>2
  <2>6. h \in AnyMessage /\ h.body = body
    BY <2>2, <2>5 DEF AnyMessage
  <2> HIDE DEF h
  <2> QED
    BY <2>5, <2>6, <1>4
<1> QED
  BY <1>3, <1>4

\* A piece of a line is refused, or taken for a message no longer than one.
LEMMA DecodePieceType ==
    ASSUME NEW msg \in Messages,
           NEW p \in 1..Len(enCodeMsg(msg)), NEW q \in p..Len(enCodeMsg(msg))
    PROVE  deCodeMsg(SubSeq(enCodeMsg(msg), p, q)) \in Seq(Handled)
<1> DEFINE data == Plain(msg)
           piece == SubSeq(enCodeMsg(msg), p, q)
           len == Len(reverseDecode(piece))
<1>1. /\ data \in Seq(Bytes) /\ enCodeMsg(msg) = reverseEncode(data)
      /\ Len(data) = Len(msg.body) + HeadLen + 1 /\ Len(msg.body) \in 0..MaxBody
  BY PlainForm
<1>2. /\ piece \in Seq(Bytes)
      /\ reverseDecode(piece) \in Seq(Bytes) /\ len <= Len(data)
  <2> HIDE DEF data
  <2> QED
    BY <1>1, DecodePiece
<1>3. len \in Nat /\ len <= MaxBody + 3 /\ MaxBody \in Nat
  <2>1. MaxBody \in Nat /\ len \in Nat
    BY <1>2, FramesAssumption, LenProperties
  <2> HIDE DEF len, data
  <2> QED
    BY <2>1, <1>1, <1>2 DEF HeadLen
<1> HIDE DEF piece
<1>4. CASE deCodeMsg(piece) = <<>>
  BY <1>4, EmptySeq DEF piece
<1>5. ASSUME NEW h \in AnyMessage, deCodeMsg(piece) = <<h>>, Len(h.body) + 3 = len
      PROVE  deCodeMsg(piece) \in Seq(Handled)
  <2>1. h.id \in Bytes /\ h.body \in Seq(Bytes) /\ h = [id |-> h.id, body |-> h.body]
    BY DEF AnyMessage
  <2>2. Len(h.body) <= MaxBody
    <3>1. Len(h.body) \in Nat
      BY <2>1, LenProperties
    <3> HIDE DEF len
    <3> QED
      BY <3>1, <1>3, <1>5
  <2>3. h.body \in Bodies(Bytes)
    BY <2>1, <2>2, BodyForm
  <2>4. h \in Handled
    BY <2>1, <2>3 DEF Handled
  <2>5. <<h>> \in Seq(Handled)
    BY <2>4
  <2> QED
    BY <2>5, <1>5
<1> QED
  BY <1>2, <1>4, <1>5, DecodeForm DEF piece

-----------------------------------------------------------------------------
(* Reading *)

\* The end of a line is there, and is the only such place.
LEMMA LineEndForm ==
    ASSUME NEW data \in Seq(Bytes), NEW i \in 1..Len(data)
    PROVE  /\ LineEnd(data, i) \in i..Len(data)
           /\ \A j \in i..Len(data) :
                 /\ data[j] = LF \/ j = Len(data)
                 /\ \A h \in i..(j - 1) : data[h] # LF
                 => LineEnd(data, i) = j
<1> DEFINE n == Len(data)
           End(j) == /\ data[j] = LF \/ j = n
                     /\ \A h \in i..(j - 1) : data[h] # LF
           U == {j \in i..n : data[j] = LF \/ j = n}
<1>0. n \in Nat /\ i \in Nat /\ 1 <= i /\ i <= n
  BY LenProperties
<1>1. LineEnd(data, i) = CHOOSE j \in i..n : End(j)
  BY DEF LineEnd
<1> HIDE DEF n
<1>2. PICK j \in U : \A h \in U : j <= h
  <2>1. U \subseteq Nat /\ n \in U
    BY <1>0
  <2> HIDE DEF U
  <2> QED
    BY <2>1, Least
<1>3. j \in i..n /\ End(j)
  <2>1. ASSUME NEW h \in i..(j - 1), data[h] = LF PROVE FALSE
    <3>1. h \in U /\ h < j
      BY <2>1, <1>0, <1>2
    <3>2. j \in Nat /\ h \in Nat /\ j <= h
      BY <3>1, <1>0, <1>2
    <3> QED
      BY <3>1, <3>2
  <2> QED
    BY <2>1, <1>2
<1>4. ASSUME NEW a \in i..n, NEW b \in i..n, End(a), End(b) PROVE a = b
  <2>1. CASE a < b
    <3>1. a \in i..(b - 1) /\ a # n
      BY <2>1, <1>0
    <3> QED
      BY <3>1, <1>4
  <2>2. CASE b < a
    <3>1. b \in i..(a - 1) /\ b # n
      BY <2>2, <1>0
    <3> QED
      BY <3>1, <1>4
  <2>3. a \in Nat /\ b \in Nat
    BY <1>0
  <2> QED
    BY <2>1, <2>2, <2>3
<1> HIDE DEF End
<1>5. LineEnd(data, i) \in i..n /\ End(LineEnd(data, i))
  BY <1>1, <1>3
<1>6. \A x \in i..n : End(x) => LineEnd(data, i) = x
  BY <1>4, <1>5
<1> QED
  BY <1>5, <1>6 DEF End, n

\* What ReadDataFromDev makes of the bytes from i on.
IsReading(f, data) ==
    /\ f \in [1..(Len(data) + 1) -> Seq(AnyMessage)]
    /\ f[Len(data) + 1] = <<>>
    /\ \A i \in 1..Len(data) :
          f[i] = deCodeMsg(SubSeq(data, i, LineEnd(data, i))) \o f[LineEnd(data, i) + 1]

\* ReadDataFromDev puts together what it makes of each line.
LEMMA ReadRuns ==
    ASSUME NEW data \in Seq(Bytes)
    PROVE  \E f : IsReading(f, data) /\ ReadDataFromDev(data) = f[1]
<1> DEFINE n == Len(data)
           piece == [i \in 1..n |-> deCodeMsg(SubSeq(data, i, LineEnd(data, i)))]
           next == [i \in 1..n |-> LineEnd(data, i) + 1]
           From == CHOOSE f : f = [i \in 1..(n+1) |->
                        IF i > n THEN <<>>
                        ELSE deCodeMsg(SubSeq(data, i, LineEnd(data, i)))
                                 \o f[LineEnd(data, i) + 1]]
<1>0. n \in Nat /\ \A i \in 1..n : data[i] \in Bytes
  BY LenProperties, ElementOfSeq
<1>1. ReadDataFromDev(data) = From[1]
  BY DEF ReadDataFromDev
<1>2. \A i \in 1..n : LineEnd(data, i) \in i..n
  BY LineEndForm
<1> HIDE DEF n
<1>3. piece \in [1..n -> Seq(AnyMessage)]
  <2> SUFFICES ASSUME NEW i \in 1..n
               PROVE  deCodeMsg(SubSeq(data, i, LineEnd(data, i))) \in Seq(AnyMessage)
    OBVIOUS
  <2> DEFINE e == LineEnd(data, i)
             w == SubSeq(data, i, e)
  <2>1. e \in i..n
    BY <1>2
  <2>2. \A x \in i..e : data[x] \in Bytes
    <3>1. \A x \in i..e : x \in 1..n
      BY <2>1, <1>0
    <3> QED
      BY <3>1, <1>0
  <2>3. w \in Seq(Bytes)
    <3>1. i \in Int /\ e \in Int
      BY <2>1, <1>0
    <3> HIDE DEF e
    <3> QED
      BY <3>1, <2>2, SubSeqProperties
  <2> HIDE DEF w
  <2>4. deCodeMsg(w) = <<>> \/ \E h \in AnyMessage : deCodeMsg(w) = <<h>>
    BY <2>3, DecodeForm
  <2>5. \A h \in AnyMessage : <<h>> \in Seq(AnyMessage)
    OBVIOUS
  <2>6. <<>> \in Seq(AnyMessage)
    BY EmptySeq
  <2> QED
    BY <2>4, <2>5, <2>6 DEF w
<1>4. next \in Later(n)
  <2>1. \A i \in 1..n : LineEnd(data, i) + 1 \in 1..(n+1) /\ LineEnd(data, i) + 1 > i
    BY <1>0, <1>2
  <2> QED
    BY <2>1 DEF Later
<1>5. PICK f : IsRest(f, AnyMessage, n, piece, next)
  <2> HIDE DEF piece, next
  <2> QED
    BY <1>0, <1>3, <1>4, BackwardRecursion
<1>6. f = [i \in 1..(n+1) |->
              IF i > n THEN <<>>
              ELSE deCodeMsg(SubSeq(data, i, LineEnd(data, i)))
                       \o f[LineEnd(data, i) + 1]]
  <2>1. \A i \in 1..(n+1) : i > n <=> i = n + 1
    BY <1>0
  <2>2. \A i \in 1..(n+1) : i # n + 1 => i \in 1..n
    BY <1>0
  <2> QED
    BY <2>1, <2>2, <1>5 DEF IsRest
<1>7. From = [i \in 1..(n+1) |->
              IF i > n THEN <<>>
              ELSE deCodeMsg(SubSeq(data, i, LineEnd(data, i)))
                       \o From[LineEnd(data, i) + 1]]
  BY <1>6
<1> HIDE DEF From
<1>8. Follows(From, n, piece, next)
  <2>1. n + 1 \in 1..(n+1) /\ n + 1 > n
    BY <1>0
  <2>2. \A i \in 1..n : i \in 1..(n+1) /\ ~ (i > n)
    BY <1>0
  <2> QED
    BY <2>1, <2>2, <1>7 DEF Follows
<1>9. \A i \in 1..(n+1) : From[i] = f[i]
  <2>1. n \in Nat
    BY <1>0
  <2> HIDE DEF piece, next
  <2> QED
    BY <2>1, <1>3, <1>4, <1>5, <1>8, BackwardUnique
<1>10. IsReading(f, data)
  BY <1>5 DEF IsReading, IsRest, n
<1>11. ReadDataFromDev(data) = f[1]
  BY <1>0, <1>1, <1>9
<1> QED
  BY <1>10, <1>11

-----------------------------------------------------------------------------
(* The stream *)

\* A line of the stream.
LEMMA LineForm ==
    ASSUME NEW msg \in Messages
    PROVE  /\ enCodeMsg(msg) \in Seq(Bytes)
           /\ Len(enCodeMsg(msg)) \in Nat /\ Len(enCodeMsg(msg)) >= 2
           /\ \A x \in 1..Len(enCodeMsg(msg)) :
                 enCodeMsg(msg)[x] = LF <=> x = Len(enCodeMsg(msg))
BY PlainForm, OneLineFeed

\* E[i] is where the i-th message ends in the stream.
IsStream(E, bytes, msgs) ==
    LET n == Len(msgs)
    IN  /\ E \in [0..n -> Nat]
        /\ E[0] = 0
        /\ \A i \in 1..n : E[i] = E[i-1] + Len(enCodeMsg(msgs[i]))
        /\ \A j \in 0..n : \A i \in 0..j : E[i] <= E[j]
        /\ \A i \in 1..n : \A x \in 1..Len(enCodeMsg(msgs[i])) :
              bytes[E[i-1] + x] = enCodeMsg(msgs[i])[x]
        /\ bytes \in Seq(Bytes)
        /\ Len(bytes) = E[n]

\* Each message in flight has its place in the stream.
LEMMA StreamLayout ==
    ASSUME flight \in Seq(Messages)
    PROVE  \E E : /\ IsStream(E, Stream(flight), flight)
                  /\ \A i \in 0..Len(flight) : EndOf(i) = E[i]
<1> DEFINE n == Len(flight)
           ss == [i \in DOMAIN flight |-> enCodeMsg(flight[i])]
<1>0. n \in Nat /\ DOMAIN flight = 1..n /\ \A i \in 1..n : flight[i] \in Messages
  BY LenProperties, ElementOfSeq
<1>1. ss \in Seq(Seq(Bytes)) /\ Len(ss) = n /\ \A i \in 1..n : ss[i] = enCodeMsg(flight[i])
  BY <1>0, LineForm
<1>2. Stream(flight) = FlattenSeq(ss)
  BY DEF Stream
\* The first messages make the first lines.
<1>3. \A i \in 0..n : Stream(SubSeq(flight, 1, i)) = FlattenSeq(SubSeq(ss, 1, i))
  <2> SUFFICES ASSUME NEW i \in 0..n
               PROVE  Stream(SubSeq(flight, 1, i)) = FlattenSeq(SubSeq(ss, 1, i))
    OBVIOUS
  <2> DEFINE m == SubSeq(flight, 1, i)
             t == SubSeq(ss, 1, i)
             u == [x \in DOMAIN m |-> enCodeMsg(m[x])]
  <2>1. i \in Nat /\ \A x \in 1..i : x \in 1..n
    BY <1>0
  <2>2. m \in Seq(Messages) /\ Len(m) = i /\ \A x \in 1..i : m[x] = flight[x]
    <3>1. \A x \in 1..i : flight[x] \in Messages
      BY <2>1, <1>0
    <3> QED
      BY <3>1, <2>1, SubSeqProperties
  <2>3. t \in Seq(Seq(Bytes)) /\ Len(t) = i /\ \A x \in 1..i : t[x] = ss[x]
    <3>1. \A x \in 1..i : ss[x] \in Seq(Bytes)
      <4> HIDE DEF ss
      <4> QED
        BY <2>1, <1>1, ElementOfSeq
    <3> HIDE DEF ss
    <3> QED
      BY <3>1, <2>1, SubSeqProperties
  <2> HIDE DEF m, t, ss
  <2>4. DOMAIN m = 1..i
    BY <2>2, LenProperties
  <2>5. \A x \in 1..i : u[x] = t[x]
    BY <2>1, <2>2, <2>3, <2>4, <1>1
  <2>6. u = [x \in 1..i |-> t[x]] /\ t = [x \in 1..i |-> t[x]]
    BY <2>3, <2>4, <2>5, LenProperties
  <2>7. u = t
    BY <2>6
  <2> QED
    BY <2>7 DEF Stream, m, t
<1> HIDE DEF n, ss
<1>4. PICK f : IsJoin(f, ss, Bytes) /\ FlattenSeq(ss) = f[Len(ss)]
  BY <1>1, FlattenJoins
<1>5. ArePlaced(f, ss, Bytes)
  BY <1>1, <1>4, JoinPlaces
<1> DEFINE E == [i \in 0..n |-> Len(f[i])]
<1>6. \A i \in 0..n : f[i] \in Seq(Bytes) /\ Len(f[i]) \in Nat /\ E[i] = Len(f[i])
  BY <1>1, <1>5 DEF ArePlaced
<1>7. E \in [0..n -> Nat]
  BY <1>6
<1> HIDE DEF E
<1>8. \A i \in 1..n : i - 1 \in 0..n /\ i \in 0..n
  BY <1>0
<1>9. n \in 0..n /\ 0 \in 0..n
  BY <1>0
<1>10. E[0] = 0 /\ Stream(flight) = f[n] /\ Stream(flight) \in Seq(Bytes)
       /\ Len(Stream(flight)) = E[n]
  BY <1>1, <1>2, <1>4, <1>5, <1>6, <1>9 DEF ArePlaced
<1>11. \A i \in 1..n : E[i] = E[i-1] + Len(enCodeMsg(flight[i]))
  BY <1>1, <1>5, <1>6, <1>8 DEF ArePlaced
<1>12. \A j \in 0..n : \A i \in 0..j : E[i] <= E[j]
  <2> SUFFICES ASSUME NEW j \in 0..n, NEW i \in 0..j PROVE E[i] <= E[j]
    OBVIOUS
  <2>1. i \in 0..n
    BY <1>0
  <2> QED
    BY <2>1, <1>1, <1>5, <1>6 DEF ArePlaced
<1>13. \A i \in 1..n : \A x \in 1..Len(enCodeMsg(flight[i])) :
          Stream(flight)[E[i-1] + x] = enCodeMsg(flight[i])[x]
  <2> SUFFICES ASSUME NEW i \in 1..n, NEW x \in 1..Len(enCodeMsg(flight[i]))
               PROVE  Stream(flight)[E[i-1] + x] = enCodeMsg(flight[i])[x]
    OBVIOUS
  <2>1. x \in 1..Len(ss[i]) /\ ss[i] = enCodeMsg(flight[i]) /\ E[i-1] = Len(f[i-1])
    BY <1>1, <1>6, <1>8
  <2>2. f[n][Len(f[i-1]) + x] = ss[i][x]
    BY <2>1, <1>1, <1>5, <1>9 DEF ArePlaced
  <2> QED
    BY <2>1, <2>2, <1>10
<1>14. IsStream(E, Stream(flight), flight)
  BY <1>7, <1>10, <1>11, <1>12, <1>13 DEF IsStream, n
<1>15. \A i \in 0..n : EndOf(i) = E[i]
  <2> SUFFICES ASSUME NEW i \in 0..n PROVE EndOf(i) = E[i]
    OBVIOUS
  <2>1. Stream(SubSeq(flight, 1, i)) = f[i]
    BY <1>1, <1>3, <1>4, FlattenPrefix
  <2> QED
    BY <2>1, <1>6 DEF EndOf
<1> QED
  BY <1>14, <1>15 DEF n

\* The bytes from c + 1 to u, where c is in the first line and the k-th line is
\* the last that has come to its end.
IsWindow(E, bytes, msgs, c, u, k) ==
    /\ msgs \in Seq(Messages) /\ msgs # <<>>
    /\ IsStream(E, bytes, msgs)
    /\ c \in Nat /\ u \in Nat /\ c < u /\ c < E[1]
    /\ k \in 0..Len(msgs) /\ E[k] <= u
    /\ k = Len(msgs) => u = E[k]
    /\ k # Len(msgs) => u < E[k+1]

\* What is read of them: the messages in between, and something before and
\* after them.
IsWindowRead(E, bytes, msgs, c, u, k, first, last) ==
    /\ ReadDataFromDev(SubSeq(bytes, c + 1, u)) =
          first \o (SubSeq(msgs, IF c = 0 THEN 1 ELSE 2, k) \o last)
    /\ c = 0 => first = <<>>
    /\ u = E[k] => last = <<>>

\* The reading of the stream from c + 1 to u handles the messages that lie in
\* between, in their order, and at most puts something before and after them:
\* before, when it starts within a message; after, when it ends within one.
LEMMA ReadWindow ==
    ASSUME NEW E, NEW bytes, NEW msgs, NEW c, NEW u, NEW k,
           IsWindow(E, bytes, msgs, c, u, k)
    PROVE  \E first, last \in Seq(Handled) :
              IsWindowRead(E, bytes, msgs, c, u, k, first, last)
<1> SUFFICES ASSUME msgs \in Seq(Messages), msgs # <<>>, IsStream(E, bytes, msgs),
                    c \in Nat, c < E[1], u \in Nat, c < u, k \in 0..Len(msgs),
                    E[k] <= u, k = Len(msgs) => u = E[k], k # Len(msgs) => u < E[k+1]
             PROVE  \E first, last \in Seq(Handled) :
                       /\ ReadDataFromDev(SubSeq(bytes, c + 1, u)) =
                             first \o (SubSeq(msgs, IF c = 0 THEN 1 ELSE 2, k) \o last)
                       /\ c = 0 => first = <<>>
                       /\ u = E[k] => last = <<>>
  BY DEF IsWindow, IsWindowRead
<1> DEFINE n == Len(msgs)
           w == SubSeq(bytes, c + 1, u)
           Line(i) == enCodeMsg(msgs[i])
<1>0. n \in Nat /\ n >= 1 /\ \A i \in 1..n : msgs[i] \in Messages
  BY LenProperties, ElementOfSeq, EmptySeq
<1>1. /\ E \in [0..n -> Nat] /\ E[0] = 0
      /\ \A i \in 1..n : E[i] = E[i-1] + Len(Line(i))
      /\ \A j \in 0..n : \A i \in 0..j : E[i] <= E[j]
      /\ \A i \in 1..n : \A x \in 1..Len(Line(i)) : bytes[E[i-1] + x] = Line(i)[x]
      /\ bytes \in Seq(Bytes) /\ Len(bytes) = E[n]
  BY DEF IsStream
<1>2. /\ k \in 0..n /\ E[k] <= u /\ (k = n => u = E[k]) /\ (k # n => u < E[k+1])
  OBVIOUS
<1> HIDE DEF n
<1>3. ASSUME NEW i \in 1..n
      PROVE  /\ i - 1 \in 0..n /\ i \in 0..n
             /\ E[i-1] \in Nat /\ E[i] \in Nat
             /\ Len(Line(i)) \in Nat /\ Len(Line(i)) >= 2
             /\ \A x \in 1..Len(Line(i)) : Line(i)[x] = LF <=> x = Len(Line(i))
             /\ Line(i) \in Seq(Bytes)
             /\ E[i] = E[i-1] + Len(Line(i))
  <2>1. i - 1 \in 0..n /\ i \in 0..n /\ msgs[i] \in Messages
    BY <1>0
  <2> QED
    BY <2>1, <1>1, LineForm
<1>4. u <= Len(bytes) /\ \A i \in 0..n : E[i] \in Nat
  <2> SUFFICES u <= Len(bytes)
    BY <1>1
  <2>1. CASE k = n
    BY <2>1, <1>1, <1>2
  <2>2. CASE k # n
    <3>1. k + 1 \in 0..n /\ n \in 0..n
      BY <2>2, <1>0, <1>2
    <3> DEFINE a == E[k+1]
               b == E[n]
    <3>2. a \in Nat /\ b \in Nat
      BY <3>1, <1>1
    <3>3. a <= b
      <4>1. k + 1 \in 0..n
        BY <3>1
      <4> QED
        BY <3>1, <4>1, <1>1
    <3>4. u < a /\ Len(bytes) = b
      BY <2>2, <1>1, <1>2
    <3> HIDE DEF a, b
    <3> QED
      BY <3>2, <3>3, <3>4
  <2> QED
    BY <2>1, <2>2
<1>5. /\ w \in Seq(Bytes) /\ Len(w) = u - c
      /\ \A x \in 1..(u - c) : w[x] = bytes[c + x]
  <2>1. \A x \in (c+1)..u : x \in 1..Len(bytes)
    BY <1>4, <1>1
  <2>2. \A x \in (c+1)..u : bytes[x] \in Bytes
    BY <2>1, <1>1, ElementOfSeq
  <2>3. /\ w \in Seq(Bytes) /\ Len(w) = IF c + 1 <= u THEN u - (c + 1) + 1 ELSE 0
        /\ \A x \in 1..(u - (c + 1) + 1) : w[x] = bytes[c + 1 + x - 1]
    BY <2>2, SubSeqProperties
  <2>4. u - (c + 1) + 1 = u - c /\ c + 1 <= u
    OBVIOUS
  <2> HIDE DEF w
  <2>5. w \in Seq(Bytes) /\ Len(w) = u - c
    BY <2>3, <2>4
  <2>6. ASSUME NEW x \in 1..(u - c) PROVE w[x] = bytes[c + x]
    <3>1. x \in 1..(u - (c + 1) + 1) /\ c + 1 + x - 1 = c + x
      OBVIOUS
    <3>2. w[x] = bytes[c + 1 + x - 1]
      BY <2>3, <3>1
    <3> QED
      BY <3>1, <3>2
  <2> QED
    BY <2>5, <2>6
<1> HIDE DEF w
<1>6. PICK f : IsReading(f, w) /\ ReadDataFromDev(w) = f[1]
  BY <1>5, ReadRuns
<1> DEFINE G(x) == f[x - c]
<1>7. \A x \in (c+1)..(u+1) : G(x) \in Seq(AnyMessage)
  <2>1. \A x \in (c+1)..(u+1) : x - c \in 1..(Len(w) + 1)
    BY <1>5
  <2> QED
    BY <2>1, <1>6 DEF IsReading
<1>8. G(u+1) = <<>> /\ G(c+1) = f[1]
  <2>1. u + 1 - c = Len(w) + 1 /\ c + 1 - c = 1
    BY <1>5
  <2> QED
    BY <2>1, <1>6 DEF IsReading
\* From within a line the rest of the line is read, or what there is of it.
<1>9. ASSUME NEW i \in 1..n, NEW x \in (c+1)..u, NEW e \in x..u, E[i-1] < x,
             e <= E[i], e = E[i] \/ e = u
      PROVE  /\ x - E[i-1] \in 1..Len(Line(i))
             /\ e - E[i-1] \in (x - E[i-1])..Len(Line(i))
             /\ G(x) = deCodeMsg(SubSeq(Line(i), x - E[i-1], e - E[i-1])) \o G(e+1)
  <2> DEFINE o == E[i-1]
             l == Len(Line(i))
             y == x - c
             z == e - c
  <2>1. o \in Nat /\ l \in Nat /\ E[i] = o + l
    BY <1>3
  <2>2. x \in Nat /\ e \in Nat /\ c < x /\ x <= e /\ e <= u
    OBVIOUS
  <2>3. x - o \in 1..l /\ e - o \in (x - o)..l /\ o < x /\ e <= o + l /\ (e = o + l \/ e = u)
    <3>1. o < x /\ e <= o + l /\ (e = o + l \/ e = u)
      BY <2>1, <1>9
    <3> HIDE DEF o, l
    <3> QED
      BY <3>1, <2>1, <2>2
  <2>4. y \in 1..Len(w) /\ z \in y..Len(w) /\ Len(w) = u - c
    BY <2>2, <1>5
  <2>5. \A h \in y..z : w[h] = Line(i)[h + c - o] /\ h + c - o \in 1..l
    <3> SUFFICES ASSUME NEW h \in y..z PROVE w[h] = Line(i)[h + c - o] /\ h + c - o \in 1..l
      OBVIOUS
    <3>1. h \in 1..(u - c) /\ h \in Nat
      BY <2>2
    <3> DEFINE v == h + c - o
    <3>2. v \in 1..l /\ o + v = c + h
      <4> HIDE DEF o, l
      <4> QED
        BY <3>1, <2>1, <2>2, <2>3
    <3>3. w[h] = bytes[c + h]
      BY <3>1, <1>5
    <3>4. bytes[o + v] = Line(i)[v]
      <4> HIDE DEF v
      <4> QED
        BY <3>2, <1>1
    <3> QED
      BY <3>2, <3>3, <3>4
  <2>6. \A v \in 1..l : Line(i)[v] = LF <=> v = l
    BY <1>3
  <2>7. \A h \in y..z : w[h] = LF <=> h + c - o = l
    BY <2>5, <2>6
  <2>8. z \in y..Len(w) /\ (w[z] = LF \/ z = Len(w)) /\ \A h \in y..(z - 1) : w[h] # LF
    <3>1. z \in y..z /\ \A h \in y..(z - 1) : h \in y..z
      BY <2>2
    <3>2. CASE e = o + l
      <4>1. z + c - o = l
        <5> HIDE DEF o, l
        <5> QED
          BY <3>2, <2>1, <2>2
      <4>2. \A h \in y..(z - 1) : h + c - o # l
        <5> SUFFICES ASSUME NEW h \in y..(z - 1) PROVE h + c - o # l
          OBVIOUS
        <5>1. h < z /\ h \in Int /\ z \in Int
          BY <2>2
        <5> HIDE DEF o, l, z, y
        <5> QED
          BY <5>1, <4>1, <2>1
      <4> QED
        BY <3>1, <4>1, <4>2, <2>4, <2>7
    <3>3. CASE e = u
      <4>1. z = Len(w)
        BY <3>3, <2>4
      <4>2. \A h \in y..(z - 1) : h + c - o # l
        <5> SUFFICES ASSUME NEW h \in y..(z - 1), h + c - o = l PROVE FALSE
          OBVIOUS
        <5>1. h + c < e
          BY <2>2
        <5>2. h \in Nat
          BY <2>2
        <5> HIDE DEF o, l, y, z
        <5> QED
          BY <5>1, <5>2, <2>1, <2>2, <2>3
      <4> QED
        BY <3>1, <4>1, <4>2, <2>4, <2>7
    <3> QED
      BY <3>2, <3>3, <2>3
  <2>9. LineEnd(w, y) = z
    <3> HIDE DEF y, z
    <3> QED
      BY <2>4, <2>8, <1>5, LineEndForm
  <2>10. f[y] = deCodeMsg(SubSeq(w, y, z)) \o f[z+1]
    <3> HIDE DEF y, z
    <3> QED
      BY <2>4, <2>9, <1>6 DEF IsReading
  <2>11. SubSeq(w, y, z) = SubSeq(Line(i), x - o, e - o)
    <3> DEFINE a == SubSeq(w, y, z)
               b == SubSeq(Line(i), x - o, e - o)
               j == e - x + 1
    <3>1. y \in Int /\ z \in Int /\ y <= z /\ z - y + 1 = j /\ j \in Nat
      BY <2>2
    <3>2. x - o \in Int /\ e - o \in Int /\ x - o <= e - o /\ (e - o) - (x - o) + 1 = j
      <4> HIDE DEF o
      <4> QED
        BY <2>1, <2>2
    <3>3. \A h \in y..z : w[h] \in Bytes
      <4>1. \A h \in y..z : h \in 1..Len(w)
        BY <2>4
      <4> QED
        BY <4>1, <1>5, ElementOfSeq
    <3>4. \A v \in (x - o)..(e - o) : Line(i)[v] \in Bytes
      <4>1. \A v \in (x - o)..(e - o) : v \in 1..l
        <5> HIDE DEF o, l
        <5> QED
          BY <2>1, <2>2, <2>3
      <4> QED
        BY <4>1, <1>3, ElementOfSeq
    <3>5. /\ a \in Seq(Bytes) /\ Len(a) = j
          /\ \A h \in 1..j : a[h] = w[y + h - 1]
      <4> HIDE DEF y, z, j
      <4>1. y \in Int /\ z \in Int
        BY <3>1
      <4>2. /\ a \in Seq(Bytes) /\ Len(a) = IF y <= z THEN z - y + 1 ELSE 0
            /\ \A h \in 1..(z - y + 1) : a[h] = w[y + h - 1]
        BY <3>3, <4>1, SubSeqProperties
      <4> HIDE DEF a
      <4> QED
        BY <3>1, <4>2
    <3>6. /\ b \in Seq(Bytes) /\ Len(b) = j
          /\ \A h \in 1..j : b[h] = Line(i)[x - o + h - 1]
      <4> DEFINE s == x - o
                 t == e - o
      <4>1. /\ s \in Int /\ t \in Int /\ s <= t /\ t - s + 1 = j /\ j \in Nat
            /\ \A v \in s..t : Line(i)[v] \in Bytes
        BY <3>1, <3>2, <3>4
      <4> HIDE DEF s, t, j, Line
      <4>2. s \in Int /\ t \in Int /\ \A v \in s..t : Line(i)[v] \in Bytes
        BY <4>1
      <4> DEFINE bb == SubSeq(Line(i), s, t)
      <4>3. /\ bb \in Seq(Bytes) /\ Len(bb) = IF s <= t THEN t - s + 1 ELSE 0
            /\ \A h \in 1..(t - s + 1) : bb[h] = Line(i)[s + h - 1]
        BY <4>2, SubSeqProperties
      <4>4. bb = b
        BY DEF s, t
      <4> HIDE DEF bb, b
      <4>5. /\ bb \in Seq(Bytes) /\ Len(bb) = j
            /\ \A h \in 1..j : bb[h] = Line(i)[s + h - 1]
        BY <4>1, <4>3
      <4> QED
        BY <4>4, <4>5 DEF s
    <3>7. ASSUME NEW h \in 1..j PROVE a[h] = b[h]
      <4>1. y + h - 1 \in y..z
        BY <2>2
      <4>2. (y + h - 1) + c - o = x - o + h - 1
        <5> HIDE DEF o
        <5> QED
          BY <2>1, <2>2
      <4>3. w[y + h - 1] = Line(i)[x - o + h - 1]
        <5> HIDE DEF o, y, z, Line
        <5> QED
          BY <4>1, <4>2, <2>5
      <4> HIDE DEF a, b, o, y, j, Line
      <4> QED
        BY <4>3, <3>5, <3>6
    <3> HIDE DEF a, b, j
    <3>8. a = b
      BY <3>5, <3>6, <3>7, SeqEqual
    <3> QED
      BY <3>8 DEF a, b
  <2>12. G(x) = f[y] /\ G(e+1) = f[z+1]
    <3>1. e + 1 - c = z + 1
      BY <2>2
    <3> QED
      BY <3>1
  <2> QED
    BY <2>3, <2>10, <2>11, <2>12
\* A line that has come whole gives its message.
<1>10. ASSUME NEW i \in 1..n, c <= E[i-1], E[i] <= u
       PROVE  G(E[i-1] + 1) = <<msgs[i]>> \o G(E[i] + 1)
  <2> DEFINE o == E[i-1]
             e == E[i]
             l == Len(Line(i))
  <2>1. o \in Nat /\ e \in Nat /\ l \in Nat /\ l >= 2 /\ e = o + l /\ c <= o /\ e <= u
    BY <1>3, <1>10
  <2>2. /\ o + 1 \in (c+1)..u /\ e \in (o+1)..u /\ o < o + 1
        /\ (o + 1) - o = 1 /\ e - o = l
    <3> HIDE DEF o, e, l
    <3> QED
      BY <2>1
  <2> DEFINE x == o + 1
  <2>3. G(x) = deCodeMsg(SubSeq(Line(i), x - o, e - o)) \o G(e + 1)
    <3>1. x \in (c+1)..u /\ e \in x..u /\ E[i-1] < x /\ e <= E[i] /\ e = E[i]
      BY <2>1, <2>2
    <3> HIDE DEF x, e, G
    <3> QED
      BY <3>1, <1>9
  <2>4. SubSeq(Line(i), x - o, e - o) = Line(i)
    <3>1. Line(i) \in Seq(Bytes)
      BY <1>3
    <3>2. SubSeq(Line(i), 1, l) = Line(i)
      <4> HIDE DEF Line
      <4> QED
        BY <3>1, SubSeqFull
    <3> QED
      BY <3>2, <2>2
  <2>5. deCodeMsg(Line(i)) = <<msgs[i]>>
    BY <1>0, DecodeLine
  <2> QED
    BY <2>3, <2>4, <2>5
\* A piece of a line gives something a receiver may see.
<1>11. ASSUME NEW i \in 1..n, NEW x \in (c+1)..u, NEW e \in x..u, E[i-1] < x,
              e <= E[i], e = E[i] \/ e = u
       PROVE  \E piece \in Seq(Handled) : G(x) = piece \o G(e+1)
  <2>1. /\ x - E[i-1] \in 1..Len(Line(i))
        /\ e - E[i-1] \in (x - E[i-1])..Len(Line(i))
        /\ G(x) = deCodeMsg(SubSeq(Line(i), x - E[i-1], e - E[i-1])) \o G(e+1)
    <3> HIDE DEF G, Line
    <3> QED
      BY <1>9, <1>11
  <2> DEFINE p == x - E[i-1]
             q == e - E[i-1]
  <2>2. p \in 1..Len(Line(i)) /\ q \in p..Len(Line(i)) /\ msgs[i] \in Messages
    BY <2>1, <1>0
  <2>3. G(x) = deCodeMsg(SubSeq(Line(i), p, q)) \o G(e+1)
    BY <2>1
  <2> HIDE DEF p, q, G
  <2>4. deCodeMsg(SubSeq(Line(i), p, q)) \in Seq(Handled)
    BY <2>2, DecodePieceType
  <2> QED
    BY <2>3, <2>4
<1>12. msgs \in Seq(Handled) /\ Handled \subseteq AnyMessage
  <2>1. Handled \subseteq AnyMessage
    BY BodyForm DEF Handled, AnyMessage
  <2>2. Messages \subseteq Handled
    <3>1. Ids \subseteq Bytes /\ Values \subseteq Bytes
      BY FramesAssumption DEF Bytes
    <3>2. Bodies(Values) \subseteq Bodies(Bytes)
      <4>1. \A m \in 0..MaxBody : [1..m -> Values] \subseteq [1..m -> Bytes]
        BY <3>1
      <4> QED
        BY <4>1 DEF Bodies
    <3> QED
      BY <3>1, <3>2 DEF Messages, Handled
  <2> QED
    BY <2>1, <2>2, SeqMonotonic
\* What is read beyond the last line that has come whole.
<1>13. ASSUME c <= E[k]
       PROVE  G(E[k] + 1) \in Seq(Handled) /\ (u = E[k] => G(E[k] + 1) = <<>>)
  <2>0. E[k] \in Nat /\ E[k] <= u /\ k \in 0..n
    BY <1>2, <1>4
  <2>1. CASE u = E[k]
    BY <2>1, <1>8, EmptySeq
  <2>2. CASE u # E[k]
    <3> DEFINE i == k + 1
               o == E[k]
    <3>1. i \in 1..n /\ i - 1 = k /\ u < E[i] /\ E[i] \in Nat
      <4>1. k # n
        BY <2>2, <1>2
      <4>2. i \in 1..n /\ i - 1 = k /\ i \in 0..n
        BY <4>1, <2>0, <1>0
      <4> QED
        BY <4>1, <4>2, <1>2, <1>4
    <3>2. o \in Nat /\ o < u /\ c <= o /\ o + 1 \in (c+1)..u /\ u \in (o+1)..u /\ o < o + 1
      <4>1. o \in Nat /\ o <= u /\ o # u /\ c <= o
        BY <2>0, <2>2, <1>13
      <4> HIDE DEF o
      <4> QED
        BY <4>1
    <3> DEFINE x == o + 1
    <3>3. PICK piece \in Seq(Handled) : G(x) = piece \o G(u+1)
      <4>1. /\ i \in 1..n /\ x \in (c+1)..u /\ u \in x..u /\ E[i-1] < x
            /\ u <= E[i]
        BY <3>1, <3>2
      <4> HIDE DEF x, i, G
      <4> QED
        BY <4>1, <1>11
    <3>4. G(x) = piece
      <4>1. G(x) = piece \o <<>>
        BY <3>3, <1>8
      <4> HIDE DEF G, x
      <4> QED
        BY <4>1, ConcatEmptySeq
    <3> QED
      BY <3>4, <2>2
  <2> QED
    BY <2>1, <2>2
\* The lines that have come whole, from the back to the front.
<1>14. ASSUME NEW i \in 1..(n+1), i <= k + 1, c <= E[i-1]
       PROVE  G(E[i-1] + 1) = SubSeq(msgs, i, k) \o G(E[k] + 1)
  <2> DEFINE last == G(E[k] + 1)
             T == {m \in Nat : m <= k - i + 1 =>
                      G(E[k-m] + 1) = SubSeq(msgs, k - m + 1, k) \o last}
  <2>0. k \in Nat /\ k <= n /\ i \in Nat /\ 1 <= i /\ n \in Nat /\ i - 1 \in 0..k
        /\ k - i + 1 \in Nat
    BY <1>0, <1>2, <1>14
  <2>1. c <= E[k]
    <3>1. E[i-1] <= E[k] /\ E[i-1] \in Nat /\ E[k] \in Nat
      <4>1. k \in 0..n /\ i - 1 \in 0..k /\ i - 1 \in 0..n
        BY <2>0
      <4> QED
        BY <4>1, <1>1
    <3> DEFINE a == E[i-1]
               b == E[k]
    <3>2. c <= a /\ a <= b /\ a \in Nat /\ b \in Nat
      BY <3>1, <1>14
    <3> HIDE DEF a, b
    <3>3. c <= b
      BY <3>2
    <3> QED
      BY <3>3 DEF b
  <2>2. last \in Seq(Handled)
    BY <2>1, <1>13
  <2>3. 0 \in T
    <3>1. k - 0 = k /\ k - 0 + 1 = k + 1 /\ 0 \in Nat
      BY <2>0
    <3>2. SubSeq(msgs, k + 1, k) = <<>>
      BY <2>0, SubSeqEmpty
    <3>3. <<>> \o last = last
      <4> HIDE DEF last
      <4> QED
        BY <2>2, ConcatEmptySeq
    <3> HIDE DEF G
    <3> QED
      BY <3>1, <3>2, <3>3
  <2>4. ASSUME NEW m \in Nat, m \in T PROVE m + 1 \in T
    <3> SUFFICES ASSUME m + 1 <= k - i + 1
                 PROVE  G(E[k-(m+1)] + 1) = SubSeq(msgs, k - (m+1) + 1, k) \o last
      <4> HIDE DEF G, last
      <4>1. m + 1 \in Nat
        OBVIOUS
      <4> QED
        BY <4>1
    <3> DEFINE j == k - m
    <3>1. /\ j \in 1..n /\ j \in 1..k /\ k \in j..n /\ k - (m+1) = j - 1 /\ k - (m+1) + 1 = j
          /\ m <= k - i + 1 /\ j - 1 \in (i-1)..n /\ j - 1 \in 0..n /\ j \in 0..n
          /\ i - 1 \in 0..(j-1) /\ j \in 0..k /\ k \in 0..n
      BY <2>0
    <3>2. G(E[j] + 1) = SubSeq(msgs, j + 1, k) \o last
      BY <2>4, <3>1
    <3>3. c <= E[j-1] /\ E[j] <= u
      <4>1. E[i-1] <= E[j-1] /\ E[j] <= E[k]
        BY <3>1, <1>1
      <4>2. E[i-1] \in Nat /\ E[j-1] \in Nat /\ E[j] \in Nat /\ E[k] \in Nat /\ i - 1 \in 0..n
        BY <3>1, <2>0, <1>4
      <4> DEFINE a == E[i-1]
                 a1 == E[j-1]
                 b == E[j]
                 b1 == E[k]
      <4>3. a \in Nat /\ a1 \in Nat /\ b \in Nat /\ b1 \in Nat /\ a <= a1 /\ b <= b1
            /\ c <= a /\ b1 <= u
        BY <4>1, <4>2, <1>14, <1>2
      <4> HIDE DEF a, a1, b, b1
      <4>4. c <= a1 /\ b <= u
        BY <4>3
      <4> QED
        BY <4>4 DEF a1, b
    <3>4. G(E[j-1] + 1) = <<msgs[j]>> \o G(E[j] + 1)
      <4> HIDE DEF G, j
      <4> QED
        BY <3>1, <3>3, <1>10
    <3>5. SubSeq(msgs, j, k) = <<msgs[j]>> \o SubSeq(msgs, j + 1, k)
      <4>1. j \in 1..Len(msgs) /\ k \in j..Len(msgs)
        BY <3>1 DEF n
      <4> HIDE DEF j
      <4> QED
        BY <4>1, SubSeqRecursiveFirst
    <3>6. <<msgs[j]>> \in Seq(Handled) /\ SubSeq(msgs, j + 1, k) \in Seq(Handled)
      <4>1. \A h \in 1..n : msgs[h] \in Handled
        BY <1>12, ElementOfSeq DEF n
      <4>2. \A h \in (j+1)..k : h \in 1..n
        BY <3>1, <2>0
      <4>3. j + 1 \in Int /\ k \in Int
        BY <3>1
      <4> HIDE DEF j
      <4>4. SubSeq(msgs, j + 1, k) \in Seq(Handled)
        BY <4>1, <4>2, <4>3, SubSeqProperties
      <4>5. msgs[j] \in Handled
        BY <3>1, <4>1
      <4> QED
        BY <4>4, <4>5
    <3> DEFINE s == <<msgs[j]>>
               t == SubSeq(msgs, j + 1, k)
    <3>7. (s \o t) \o last = s \o (t \o last)
      <4> HIDE DEF s, t, last
      <4>1. s \in Seq(Handled) /\ t \in Seq(Handled)
        BY <3>6 DEF s, t
      <4> QED
        BY <4>1, <2>2, ConcatAssociative
    <3>8. G(E[j-1] + 1) = s \o (t \o last)
      <4> HIDE DEF G
      <4> QED
        BY <3>2, <3>4
    <3> HIDE DEF G
    <3> QED
      BY <3>1, <3>5, <3>7, <3>8
  <2>5. \A m \in Nat : m \in T
    <3> HIDE DEF T
    <3> QED
      BY <2>3, <2>4, Induction
  <2>6. k - (k - i + 1) = i - 1 /\ k - (k - i + 1) + 1 = i
    BY <2>0
  <2>7. k - i + 1 \in T
    BY <2>5, <2>0
  <2>8. G(E[k - (k - i + 1)] + 1) = SubSeq(msgs, k - (k - i + 1) + 1, k) \o last
    <3> DEFINE d == k - i + 1
    <3>1. d \in T /\ d \in Nat
      BY <2>7, <2>0
    <3> HIDE DEF d, G, last
    <3>2. d <= d => G(E[k - d] + 1) = SubSeq(msgs, k - d + 1, k) \o last
      <4>1. d <= k - i + 1
        BY <3>1 DEF d
      <4> QED
        BY <3>1, <4>1
    <3> QED
      BY <3>1, <3>2 DEF d
  <2> HIDE DEF G
  <2> QED
    BY <2>6, <2>8
<1> HIDE DEF G
<1>15. ReadDataFromDev(w) = G(c+1)
  BY <1>6, <1>8
<1>16. CASE c = 0
  <2>1. 1 \in 1..(n+1) /\ 1 <= k + 1 /\ 1 - 1 = 0 /\ 0 + 1 = 1
    BY <1>0, <1>2
  <2>2. c <= E[1-1] /\ E[0] = 0 /\ c + 1 = E[1-1] + 1
    BY <2>1, <1>1, <1>16
  <2>3. G(c+1) = SubSeq(msgs, 1, k) \o G(E[k] + 1)
    BY <2>1, <2>2, <1>14
  <2>4. c <= E[k]
    BY <1>16, <1>2, <1>4
  <2> DEFINE last == G(E[k] + 1)
             mid == SubSeq(msgs, 1, k)
  <2>5. last \in Seq(Handled) /\ (u = E[k] => last = <<>>)
    BY <2>4, <1>13
  <2>6. mid \in Seq(Handled)
    <3>1. \A h \in 1..n : msgs[h] \in Handled
      BY <1>12, ElementOfSeq DEF n
    <3>2. \A h \in 1..k : h \in 1..n
      BY <1>0, <1>2
    <3>3. k \in Int /\ 1 \in Int
      BY <1>2
    <3> QED
      BY <3>1, <3>2, <3>3, SubSeqProperties
  <2>7. ReadDataFromDev(w) = <<>> \o (mid \o last)
    <3> HIDE DEF mid, last
    <3>1. mid \o last \in Seq(Handled)
      BY <2>5, <2>6, ConcatProperties
    <3>2. <<>> \o (mid \o last) = mid \o last
      BY <3>1, ConcatEmptySeq
    <3> QED
      BY <3>2, <2>3, <1>15 DEF mid, last
  <2> QED
    BY <2>5, <2>7, <1>16, EmptySeq DEF w
<1>17. CASE c # 0 /\ k >= 1
  <2>1. 1 \in 1..n /\ 1 - 1 = 0 /\ 1 \in 0..k /\ k \in 0..n /\ 1 \in 0..n
    BY <1>0, <1>2, <1>17
  <2>2. E[1] \in Nat /\ c < E[1] /\ E[1] <= E[k] /\ E[k] \in Nat /\ E[k] <= u
    BY <2>1, <1>1, <1>2, <1>4
  <2> DEFINE e == E[1]
             x == c + 1
  <2>3. e \in Nat /\ c < e /\ e <= u
    <3> DEFINE b == E[k]
    <3>1. e \in Nat /\ c < e /\ e <= b /\ b \in Nat /\ b <= u
      BY <2>2
    <3> HIDE DEF e, b
    <3> QED
      BY <3>1
  <2>4. PICK piece \in Seq(Handled) : G(x) = piece \o G(e+1)
    <3>1. x \in (c+1)..u /\ e \in x..u /\ E[1-1] < x /\ e <= E[1] /\ e = E[1]
      BY <2>1, <2>3, <1>1
    <3> HIDE DEF x, e
    <3> QED
      BY <3>1, <2>1, <1>11
  <2>5. 2 \in 1..(n+1) /\ 2 <= k + 1 /\ 2 - 1 = 1 /\ c <= E[2-1]
    BY <1>0, <1>17, <1>2, <2>2
  <2>6. G(e+1) = SubSeq(msgs, 2, k) \o G(E[k] + 1)
    BY <2>5, <1>14
  <2>7. c <= E[k]
    BY <2>2
  <2>8. G(E[k] + 1) \in Seq(Handled) /\ (u = E[k] => G(E[k] + 1) = <<>>)
    BY <2>7, <1>13
  <2>9. ReadDataFromDev(w) = piece \o (SubSeq(msgs, 2, k) \o G(E[k] + 1))
    BY <2>4, <2>6, <1>15
  <2> QED
    BY <2>8, <2>9, <1>17 DEF w
<1>18. CASE c # 0 /\ k = 0
  <2>1. 1 \in 1..n /\ 1 - 1 = 0 /\ k # n /\ 1 \in 0..n /\ 0 + 1 = 1
    BY <1>0, <1>18
  <2>2. E[1] \in Nat /\ c < E[1] /\ u < E[1] /\ u # E[k]
    BY <2>1, <1>1, <1>2, <1>4, <1>18
  <2> DEFINE x == c + 1
  <2>3. PICK piece \in Seq(Handled) : G(x) = piece \o G(u+1)
    <3>1. x \in (c+1)..u /\ u \in x..u /\ E[1-1] < x /\ u <= E[1]
      BY <2>1, <2>2, <1>1
    <3> HIDE DEF x
    <3> QED
      BY <3>1, <2>1, <1>11
  <2>4. SubSeq(msgs, 2, k) = <<>>
    BY <1>18, SubSeqEmpty
  <2>5. <<>> \o <<>> = <<>> /\ <<>> \in Seq(Handled)
    BY EmptySeq, ConcatEmptySeq
  <2>6. ReadDataFromDev(w) = piece \o (SubSeq(msgs, 2, k) \o <<>>)
    BY <2>3, <2>4, <2>5, <1>8, <1>15
  <2> QED
    BY <2>2, <2>5, <2>6, <1>18 DEF w
<1>19. k = 0 \/ k >= 1
  BY <1>2, <1>0
<1> QED
  BY <1>16, <1>17, <1>18, <1>19

\* An escape is at most two bytes, so a line is at most twice its message and
\* the line end.
LEMMA LineLength ==
    ASSUME NEW msg \in Messages
    PROVE  Len(enCodeMsg(msg)) <= 2 * (HeadLen + MaxBody + 1) + 2
<1> DEFINE data == Plain(msg)
           n == Len(data)
<1>1. /\ data \in Seq(Bytes) /\ n \in Nat /\ n <= HeadLen + MaxBody + 1
      /\ enCodeMsg(msg) = reverseEncode(data) /\ MaxBody \in Nat
  <2>1. /\ data \in Seq(Bytes) /\ n = Len(msg.body) + HeadLen + 1
        /\ Len(msg.body) \in 0..MaxBody /\ enCodeMsg(msg) = reverseEncode(data)
    BY PlainForm
  <2>2. MaxBody \in Nat
    BY FramesAssumption
  <2> HIDE DEF data
  <2> QED
    BY <2>1, <2>2 DEF HeadLen
<1> HIDE DEF data
<1>2. PICK E : IsLayout(E, data, reverseEncode(data))
  BY <1>1, LineLayout
<1> HIDE DEF n
<1>3. /\ E \in [0..n -> Nat] /\ E[0] = 0
      /\ \A i \in 1..n : E[i] = E[i-1] + Len(Escape(data[i]))
      /\ Len(reverseEncode(data)) = E[n] + 2
  BY <1>2 DEF IsLayout, n
<1>4. \A i \in 1..n : Len(Escape(data[i])) \in {1, 2}
  <2> SUFFICES ASSUME NEW i \in 1..n PROVE Len(Escape(data[i])) \in {1, 2}
    OBVIOUS
  <2>1. data[i] \in Bytes
    BY <1>1, ElementOfSeq DEF n
  <2>2. Escape(data[i]) = <<data[i]>> \/ Len(Escape(data[i])) = 2
    BY <2>1, EscapeForm
  <2> QED
    BY <2>2
<1> DEFINE T == {i \in Nat : i <= n => E[i] <= 2 * i}
<1>5. \A i \in Nat : i \in T
  <2>1. 0 \in T
    BY <1>3
  <2>2. ASSUME NEW i \in Nat, i \in T PROVE i + 1 \in T
    <3> SUFFICES ASSUME i + 1 <= n PROVE E[i+1] <= 2 * (i + 1)
      OBVIOUS
    <3> DEFINE a == E[i]
               b == E[i+1]
               l == Len(Escape(data[i+1]))
    <3>1. i + 1 \in 1..n /\ (i + 1) - 1 = i /\ i \in 0..n /\ i <= n
      BY <1>1
    <3>2. a \in Nat /\ l \in {1, 2} /\ b = a + l /\ a <= 2 * i
      BY <3>1, <2>2, <1>3, <1>4
    <3> HIDE DEF a, b, l
    <3>3. b <= 2 * (i + 1)
      BY <3>2
    <3> QED
      BY <3>3 DEF b
  <2> HIDE DEF T
  <2> QED
    BY <2>1, <2>2, Induction
<1> DEFINE e == E[n]
<1>6. e <= 2 * n /\ e \in Nat
  BY <1>1, <1>3, <1>5
<1> HIDE DEF e
<1>7. Len(reverseEncode(data)) = e + 2
  BY <1>3 DEF e
<1> QED
  BY <1>1, <1>6, <1>7 DEF HeadLen

-----------------------------------------------------------------------------
(* Sequences struck out of others *)

\* The end of a concatenation.
LEMMA Rest ==
    ASSUME NEW S, NEW s \in Seq(S), NEW t \in Seq(S)
    PROVE  SubSeq(s \o t, Len(s) + 1, Len(s \o t)) = t
<1> DEFINE a == Len(s)
           b == Len(t)
           r == s \o t
           v == SubSeq(r, a + 1, Len(r))
<1>1. a \in Nat /\ b \in Nat
  BY LenProperties
<1>2. /\ r \in Seq(S) /\ Len(r) = a + b
      /\ \A i \in 1..(a + b) : r[i] = IF i <= a THEN s[i] ELSE t[i - a]
  BY ConcatProperties
<1> HIDE DEF a, b, r
<1>3. \A i \in (a+1)..(a+b) : r[i] \in S
  <2>1. \A i \in (a+1)..(a+b) : i \in 1..Len(r)
    BY <1>1, <1>2
  <2> QED
    BY <2>1, <1>2, ElementOfSeq
<1>4. /\ v \in Seq(S) /\ Len(v) = b
      /\ \A i \in 1..b : v[i] = r[a + i]
  <2> DEFINE x == a + 1
             y == a + b
  <2>1. x \in Int /\ y \in Int /\ y = Len(r) /\ \A i \in x..y : r[i] \in S
    BY <1>1, <1>2, <1>3
  <2>2. /\ (IF x <= y THEN y - x + 1 ELSE 0) = b /\ y - x + 1 = b
        /\ \A i \in 1..b : x + i - 1 = a + i
    BY <1>1
  <2>3. v = SubSeq(r, x, y)
    BY <2>1
  <2> HIDE DEF x, y, v
  <2>4. /\ SubSeq(r, x, y) \in Seq(S)
        /\ Len(SubSeq(r, x, y)) = IF x <= y THEN y - x + 1 ELSE 0
        /\ \A i \in 1..(y - x + 1) : SubSeq(r, x, y)[i] = r[x + i - 1]
    BY <2>1, SubSeqProperties
  <2> QED
    BY <2>2, <2>3, <2>4
<1>5. \A i \in 1..b : r[a + i] = t[i]
  <2>1. \A i \in 1..b : a + i \in 1..(a + b) /\ ~ (a + i <= a) /\ (a + i) - a = i
    BY <1>1
  <2> QED
    BY <2>1, <1>2
<1> HIDE DEF v
<1>6. v = t
  BY <1>4, <1>5, SeqEqual DEF b
<1> QED
  BY <1>6 DEF v, a, r

\* What is left of t when some is struck out, and then of what is added to it.
LEMMA WithinExtends ==
    ASSUME NEW S, NEW s \in Seq(S), NEW t \in Seq(S), Within(s, t),
           NEW first \in Seq(S), NEW mid \in Seq(S), NEW last \in Seq(S)
    PROVE  Within(s \o mid, t \o (first \o (mid \o last)))
<1> DEFINE a == Len(s)
           b == Len(t)
           c == Len(first)
           d == Len(mid)
           e == Len(last)
           ml == mid \o last
           fml == first \o ml
           r == t \o fml
           sm == s \o mid
<1>1. a \in Nat /\ b \in Nat /\ c \in Nat /\ d \in Nat /\ e \in Nat
  BY LenProperties
<1>2. /\ ml \in Seq(S) /\ Len(ml) = d + e
      /\ \A i \in 1..(d + e) : ml[i] = IF i <= d THEN mid[i] ELSE last[i - d]
  BY ConcatProperties
<1> HIDE DEF ml
<1>3. /\ fml \in Seq(S) /\ Len(fml) = c + (d + e)
      /\ \A i \in 1..(c + (d + e)) : fml[i] = IF i <= c THEN first[i] ELSE ml[i - c]
  <2>1. ml \in Seq(S)
    BY <1>2
  <2>2. /\ fml \in Seq(S) /\ Len(fml) = Len(first) + Len(ml)
        /\ \A i \in 1..(Len(first) + Len(ml)) :
              fml[i] = IF i <= Len(first) THEN first[i] ELSE ml[i - Len(first)]
    BY <2>1, ConcatProperties
  <2> QED
    BY <2>2, <1>2
<1> HIDE DEF fml
<1>4. /\ r \in Seq(S) /\ Len(r) = b + (c + (d + e))
      /\ \A i \in 1..(b + (c + (d + e))) : r[i] = IF i <= b THEN t[i] ELSE fml[i - b]
  <2>1. fml \in Seq(S)
    BY <1>3
  <2>2. /\ r \in Seq(S) /\ Len(r) = Len(t) + Len(fml)
        /\ \A i \in 1..(Len(t) + Len(fml)) :
              r[i] = IF i <= Len(t) THEN t[i] ELSE fml[i - Len(t)]
    BY <2>1, ConcatProperties
  <2> QED
    BY <2>2, <1>3
<1>5. /\ sm \in Seq(S) /\ Len(sm) = a + d
      /\ \A i \in 1..(a + d) : sm[i] = IF i <= a THEN s[i] ELSE mid[i - a]
  BY ConcatProperties
<1>6. DOMAIN s = 1..a /\ DOMAIN t = 1..b /\ DOMAIN r = 1..(b + (c + (d + e))) /\ DOMAIN sm = 1..(a + d)
  BY <1>4, <1>5, LenProperties
<1>7. PICK at \in [1..a -> 1..b] :
          /\ \A i, j \in 1..a : i < j => at[i] < at[j]
          /\ \A i \in 1..a : s[i] = t[at[i]]
  <2> HIDE DEF a, b
  <2> QED
    BY <1>6 DEF Within
<1> HIDE DEF a, b, c, d, e, r, sm
<1> DEFINE to == [i \in 1..(a + d) |-> IF i <= a THEN at[i] ELSE b + c + (i - a)]
<1>8. \A i \in 1..(a + d) : \/ i \in 1..a /\ i <= a
                            \/ ~ (i <= a) /\ i - a \in 1..d
  BY <1>1
<1>9. \A i \in 1..a : at[i] \in 1..b /\ at[i] \in Nat /\ at[i] <= b
  BY <1>1, <1>7
<1>10. to \in [1..(a + d) -> 1..(b + (c + (d + e)))]
  <2> SUFFICES ASSUME NEW i \in 1..(a + d)
               PROVE  (IF i <= a THEN at[i] ELSE b + c + (i - a)) \in 1..(b + (c + (d + e)))
    OBVIOUS
  <2>1. CASE i \in 1..a /\ i <= a
    <3> DEFINE z == at[i]
    <3>1. z \in 1..b
      BY <2>1, <1>9
    <3> HIDE DEF z
    <3>2. z \in 1..(b + (c + (d + e)))
      BY <3>1, <1>1
    <3> QED
      BY <3>2, <2>1 DEF z
  <2>2. CASE ~ (i <= a) /\ i - a \in 1..d
    <3>1. b + c + (i - a) \in 1..(b + (c + (d + e)))
      BY <2>2, <1>1
    <3> QED
      BY <3>1, <2>2
  <2> QED
    BY <2>1, <2>2, <1>8
<1>11. \A i, j \in 1..(a + d) : i < j => to[i] < to[j]
  <2> SUFFICES ASSUME NEW i \in 1..(a + d), NEW j \in 1..(a + d), i < j
               PROVE  to[i] < to[j]
    OBVIOUS
  <2>0. i \in Nat /\ j \in Nat
    OBVIOUS
  <2>1. CASE j <= a
    <3>1. i \in 1..a /\ j \in 1..a /\ i <= a
      BY <2>1, <2>0, <1>1
    <3> QED
      BY <3>1, <2>1, <1>7
  <2>2. CASE ~ (j <= a) /\ i <= a
    <3> DEFINE z == at[i]
    <3>1. z \in Nat /\ z <= b
      BY <2>2, <2>0, <1>1, <1>9
    <3>2. to[i] = z /\ to[j] = b + c + (j - a)
      BY <2>2
    <3> HIDE DEF z, to
    <3> QED
      BY <3>1, <3>2, <2>2, <2>0, <1>1
  <2>3. CASE ~ (i <= a)
    <3>1. ~ (j <= a)
      BY <2>3, <2>0, <1>1
    <3>2. to[i] = b + c + (i - a) /\ to[j] = b + c + (j - a)
      BY <2>3, <3>1
    <3> HIDE DEF to
    <3> QED
      BY <3>2, <2>0, <1>1
  <2> QED
    BY <2>1, <2>2, <2>3
<1>12. \A i \in 1..(a + d) : sm[i] = r[to[i]]
  <2> SUFFICES ASSUME NEW i \in 1..(a + d) PROVE sm[i] = r[to[i]]
    OBVIOUS
  <2>1. CASE i \in 1..a /\ i <= a
    <3> DEFINE z == at[i]
    <3>1. z \in 1..b /\ to[i] = z /\ s[i] = t[z]
      BY <2>1, <1>7, <1>9
    <3> HIDE DEF z, to
    <3>2. z \in 1..(b + (c + (d + e))) /\ z <= b
      BY <3>1, <1>1
    <3>3. r[z] = t[z]
      BY <3>2, <1>4
    <3>4. sm[i] = s[i]
      BY <2>1, <1>5
    <3> QED
      BY <3>1, <3>3, <3>4
  <2>2. CASE ~ (i <= a) /\ i - a \in 1..d
    <3> DEFINE z == i - a
    <3>1. z \in 1..d /\ to[i] = b + c + z /\ sm[i] = mid[z]
      BY <2>2, <1>5
    <3> HIDE DEF z, to
    <3>2. /\ b + c + z \in 1..(b + (c + (d + e))) /\ ~ (b + c + z <= b)
          /\ (b + c + z) - b = c + z /\ c + z \in 1..(c + (d + e)) /\ ~ (c + z <= c)
          /\ (c + z) - c = z /\ z \in 1..(d + e) /\ z <= d
      BY <3>1, <1>1
    <3>3. r[b + c + z] = fml[c + z]
      BY <3>2, <1>4
    <3>4. fml[c + z] = ml[z]
      BY <3>2, <1>3
    <3>5. ml[z] = mid[z]
      BY <3>2, <1>2
    <3> QED
      BY <3>1, <3>3, <3>4, <3>5
  <2> QED
    BY <2>1, <2>2, <1>8
<1> HIDE DEF to
<1>13. Within(sm, r)
  BY <1>6, <1>10, <1>11, <1>12 DEF Within
<1> QED
  BY <1>13 DEF sm, r, fml, ml

-----------------------------------------------------------------------------
(* The steps *)

\* What has arrived of the first message in flight is not all of it.
Torn == cut # 0 => flight # <<>> /\ cut < Len(enCodeMsg(flight[1]))

\* What an arrival does: mid are the messages that came in one piece, and k
\* the number of those that have now come to their end.
Arrives(k, first, mid, last) ==
    /\ received' = received \o (first \o (mid \o last))
    /\ whole' = whole \o mid
    /\ mid = SubSeq(flight, IF cut = 0 THEN 1 ELSE 2, k)
    /\ cut = 0 => first = <<>>
    /\ cut' = 0 => last = <<>>
    /\ flight' = SubSeq(flight, k + 1, Len(flight))
    /\ cut' \in Nat
    /\ k = Len(flight) => cut' = 0
    /\ k # Len(flight) => cut' < Len(enCodeMsg(flight[k+1]))
    /\ UNCHANGED <<type, sent>>

\* An arrival handles the messages that came in one piece, and perhaps what a
\* torn one before or after them was taken for.
LEMMA ArriveForm ==
    ASSUME flight \in Seq(Messages), cut \in Nat, Torn,
           NEW n \in 1..(Len(Stream(flight)) - cut), Arrive(n)
    PROVE  \E k \in 0..Len(flight), first, last \in Seq(Handled), mid \in Seq(Messages) :
              Arrives(k, first, mid, last)
<1> DEFINE m == Len(flight)
           bytes == Stream(flight)
           u == cut + n
<1>0. m \in Nat /\ DOMAIN flight = 1..m /\ \A i \in 1..m : flight[i] \in Messages
  BY LenProperties, ElementOfSeq
<1>1. PICK E : /\ IsStream(E, bytes, flight)
               /\ \A i \in 0..m : EndOf(i) = E[i]
  BY StreamLayout
<1>2. /\ E \in [0..m -> Nat] /\ E[0] = 0
      /\ \A i \in 1..m : E[i] = E[i-1] + Len(enCodeMsg(flight[i]))
      /\ \A j \in 0..m : \A i \in 0..j : E[i] <= E[j]
      /\ Len(bytes) = E[m]
  BY <1>1 DEF IsStream
<1> HIDE DEF m, bytes
<1>3. m \in 0..m /\ E[m] \in Nat
  BY <1>0, <1>2
<1>4. u \in Nat /\ cut < u /\ u <= E[m] /\ E[m] # 0
  <2> DEFINE e == E[m]
  <2>1. n \in 1..(e - cut) /\ e \in Nat
    BY <1>2, <1>3 DEF bytes
  <2> HIDE DEF e
  <2>2. cut + n \in Nat /\ cut < cut + n /\ cut + n <= e /\ e # 0
    BY <2>1
  <2> QED
    BY <2>2 DEF e
<1>5. m >= 1 /\ 1 \in 1..m /\ 1 \in 0..m /\ 1 - 1 = 0 /\ flight # <<>>
  <2>1. m # 0
    BY <1>2, <1>4
  <2>2. m >= 1
    BY <2>1, <1>0
  <2>3. flight # <<>>
    BY <2>1, EmptySeq DEF m
  <2> QED
    BY <2>2, <2>3, <1>0
<1>6. cut < E[1]
  <2> DEFINE l == Len(enCodeMsg(flight[1]))
  <2>1. l \in Nat /\ l >= 2
    BY <1>0, <1>5, LineForm
  <2>2. E[1] = 0 + l
    BY <1>2, <1>5
  <2>3. cut = 0 \/ cut < l
    BY DEF Torn
  <2> HIDE DEF l
  <2> QED
    BY <2>1, <2>2, <2>3
\* The last message that has come to its end.
<1> DEFINE U == {x \in Nat : x <= m /\ E[m-x] <= u}
<1>7. PICK x \in U : \A y \in U : x <= y
  <2>1. U \subseteq Nat
    OBVIOUS
  <2>2. m \in U
    <3>1. m - m = 0 /\ m <= m /\ m \in Nat
      BY <1>0
    <3> QED
      BY <3>1, <1>2, <1>4
  <2> HIDE DEF U
  <2> QED
    BY <2>1, <2>2, Least
<1> DEFINE k == m - x
<1>8. k \in 0..m /\ E[k] <= u /\ E[k] \in Nat
  <2>1. x \in Nat /\ x <= m /\ E[m-x] <= u
    BY <1>7
  <2>2. k \in 0..m
    BY <2>1, <1>0
  <2> QED
    BY <2>1, <2>2, <1>2
<1>9. k # m => u < E[k+1] /\ E[k+1] \in Nat /\ k + 1 \in 1..m
  <2> SUFFICES ASSUME k # m PROVE u < E[k+1] /\ E[k+1] \in Nat /\ k + 1 \in 1..m
    OBVIOUS
  <2>1. /\ x - 1 \in Nat /\ x - 1 <= m /\ m - (x - 1) = k + 1 /\ k + 1 \in 0..m
        /\ k + 1 \in 1..m /\ ~ (x <= x - 1)
    BY <1>0, <1>7
  <2>2. x - 1 \notin U
    BY <2>1, <1>7
  <2>3. ~ (E[k+1] <= u)
    <3> HIDE DEF k, u
    <3> QED
      BY <2>1, <2>2
  <2> DEFINE e == E[k+1]
  <2>4. e \in Nat /\ ~ (e <= u)
    BY <2>1, <2>3, <1>2
  <2> HIDE DEF e, u
  <2>5. u < e
    BY <2>4, <1>4
  <2> QED
    BY <2>1, <2>4, <2>5 DEF e
<1> HIDE DEF k, U
<1>10. k = m => u = E[k]
  <2> DEFINE e == E[m]
  <2> SUFFICES ASSUME k = m PROVE u = e
    OBVIOUS
  <2>1. e \in Nat /\ e <= u /\ u <= e
    BY <1>3, <1>4, <1>8
  <2> HIDE DEF e, u
  <2> QED
    BY <2>1, <1>4
\* They are the first k.
<1>11. {i \in DOMAIN flight : EndOf(i) <= u} = 1..k
  <2>1. ASSUME NEW i \in 1..m PROVE EndOf(i) <= u <=> i \in 1..k
    <3> DEFINE a == E[i]
               b == E[k]
               d == E[k+1]
    <3>1. i \in 0..m /\ i \in Nat /\ k \in Nat /\ a \in Nat /\ b \in Nat /\ b <= u
          /\ EndOf(i) = a
      BY <1>0, <1>1, <1>2, <1>8
    <3>2. CASE i <= k
      <4>1. i \in 0..k /\ i \in 1..k
        BY <3>1, <3>2
      <4>2. a <= b
        BY <4>1, <1>2, <1>8
      <4> HIDE DEF a, b, u
      <4>3. a <= u
        BY <4>2, <3>1, <1>4
      <4> QED
        BY <3>1, <4>1, <4>3
    <3>3. CASE ~ (i <= k)
      <4>1. k # m /\ k + 1 \in 0..i /\ i \notin 1..k
        BY <3>1, <3>3, <1>0
      <4>2. d <= a /\ u < d /\ d \in Nat
        BY <4>1, <3>1, <1>2, <1>9
      <4> HIDE DEF a, d, u
      <4>3. ~ (a <= u)
        BY <4>2, <3>1, <1>4
      <4> QED
        BY <3>1, <4>1, <4>3
    <3> QED
      BY <3>2, <3>3
  <2>2. \A i \in 1..k : i \in 1..m
    BY <1>0, <1>8
  <2> HIDE DEF u
  <2> QED
    BY <2>1, <2>2, <1>0
<1>12. Cardinality({i \in DOMAIN flight : EndOf(i) <= u}) = k
  <2>1. k \in Int /\ 1 \in Int /\ (IF 1 > k THEN 0 ELSE k - 1 + 1) = k
    BY <1>8
  <2>2. Cardinality(1..k) = k
    BY <2>1, FS_Interval
  <2> QED
    BY <2>2, <1>11
<1> DEFINE mid == SubSeq(flight, IF cut = 0 THEN 1 ELSE 2, k)
<1>13. /\ received' = received \o ReadDataFromDev(SubSeq(bytes, cut + 1, u))
       /\ whole' = whole \o mid
       /\ flight' = SubSeq(flight, k + 1, Len(flight))
       /\ cut' = u - E[k]
       /\ UNCHANGED <<type, sent>>
  BY <1>12, <1>1, <1>8 DEF Arrive, bytes
<1>14. PICK first \in Seq(Handled), last \in Seq(Handled) :
          /\ ReadDataFromDev(SubSeq(bytes, cut + 1, u)) = first \o (mid \o last)
          /\ cut = 0 => first = <<>>
          /\ u = E[k] => last = <<>>
  <2>1. /\ k \in 0..Len(flight) /\ (k = Len(flight) => u = E[k])
        /\ (k # Len(flight) => u < E[k+1])
    BY <1>8, <1>9, <1>10 DEF m
  <2>2. /\ IsStream(E, bytes, flight) /\ flight # <<>> /\ cut < E[1]
        /\ u \in Nat /\ cut < u /\ E[k] <= u
    BY <1>1, <1>4, <1>5, <1>6, <1>8
  <2>3. \E first, last \in Seq(Handled) :
           IsWindowRead(E, bytes, flight, cut, u, k, first, last)
    <3>1. IsWindow(E, bytes, flight, cut, u, k)
      <4> HIDE DEF u
      <4> QED
        BY <2>1, <2>2 DEF IsWindow
    <3> HIDE DEF u
    <3> QED
      BY <3>1, ReadWindow
  <2> HIDE DEF u
  <2> QED
    BY <2>3 DEF IsWindowRead
<1>15. cut' \in Nat /\ (cut' = 0 => u = E[k]) /\ (k = m => cut' = 0)
  <2> DEFINE e == E[k]
  <2>1. cut' = u - e /\ e \in Nat /\ e <= u /\ (k = m => u = e)
    BY <1>8, <1>10, <1>13
  <2> HIDE DEF e, u
  <2>2. cut' \in Nat /\ (cut' = 0 => u = e) /\ (k = m => cut' = 0)
    BY <2>1, <1>4
  <2> QED
    BY <2>2 DEF e
<1>16. k # m => cut' < Len(enCodeMsg(flight[k+1]))
  <2> SUFFICES ASSUME k # m PROVE cut' < Len(enCodeMsg(flight[k+1]))
    OBVIOUS
  <2> DEFINE e == E[k]
             d == E[k+1]
             l == Len(enCodeMsg(flight[k+1]))
  <2>1. u < d /\ d \in Nat /\ k + 1 \in 1..m /\ (k + 1) - 1 = k
    BY <1>8, <1>9
  <2>2. d = e + l /\ l \in Nat
    BY <2>1, <1>0, <1>2, LineForm
  <2>3. cut' = u - e /\ e \in Nat
    BY <1>8, <1>13
  <2> HIDE DEF d, e, l, u
  <2>4. cut' < l
    BY <2>1, <2>2, <2>3, <1>4
  <2> QED
    BY <2>4 DEF l
<1>17. mid \in Seq(Messages)
  <2> DEFINE a == IF cut = 0 THEN 1 ELSE 2
  <2>1. a \in Int /\ k \in Int /\ \A i \in a..k : i \in 1..m
    BY <1>0, <1>8
  <2>2. \A i \in a..k : flight[i] \in Messages
    BY <2>1, <1>0
  <2> HIDE DEF a
  <2>3. SubSeq(flight, a, k) \in Seq(Messages)
    BY <2>1, <2>2, SubSeqProperties
  <2> QED
    BY <2>3 DEF a
<1> HIDE DEF mid, u
<1>18. Arrives(k, first, mid, last)
  <2>1. received' = received \o (first \o (mid \o last))
    BY <1>13, <1>14
  <2>2. mid = SubSeq(flight, IF cut = 0 THEN 1 ELSE 2, k)
    BY DEF mid
  <2> QED
    BY <2>1, <2>2, <1>13, <1>14, <1>15, <1>16 DEF Arrives, m
<1> QED
  BY <1>8, <1>14, <1>17, <1>18 DEF m

-----------------------------------------------------------------------------
(* The invariant *)

\* Without Torn a reading might start anywhere in a line, even behind its end.
IInv == TypeOK /\ Torn /\ WholeHandled

\* The invariant holds at the start.
LEMMA InitInv == Init => IInv
<1> SUFFICES ASSUME Init PROVE IInv
  OBVIOUS
<1>1. TypeOK
  <2>1. MaxBody \in Nat /\ MaxSent \in Nat
    BY FramesAssumption
  <2>2. /\ flight \in Seq(Messages) /\ whole \in Seq(Messages)
        /\ received \in Seq([id : 0..255, body : Bodies(0..255)])
    BY EmptySeq DEF Init
  <2>3. cut \in 0..(2 * (HeadLen + MaxBody + 1) + 1) /\ sent \in 0..MaxSent
    BY <2>1 DEF Init, HeadLen
  <2> QED
    BY <2>2, <2>3 DEF Init, TypeOK
<1>2. Torn
  BY DEF Init, Torn
<1>3. WholeHandled
  <2>1. DOMAIN whole = {} /\ DOMAIN received = {}
    BY DEF Init
  <2> DEFINE at == [x \in {} |-> x]
  <2>2. at \in [DOMAIN whole -> DOMAIN received]
    BY <2>1
  <2> QED
    BY <2>1, <2>2 DEF WholeHandled, Within
<1> QED
  BY <1>1, <1>2, <1>3 DEF IInv

\* Every step keeps it.
LEMMA NextInv == IInv /\ [Next]_vars => IInv'
<1> SUFFICES ASSUME IInv, [Next]_vars PROVE IInv'
  OBVIOUS
<1>0. /\ TypeOK /\ Torn /\ WholeHandled
      /\ flight \in Seq(Messages) /\ whole \in Seq(Messages)
      /\ received \in Seq(Handled) /\ cut \in Nat /\ type' = type
      /\ MaxBody \in Nat /\ MaxSent \in Nat
  <2>1. type' = type
    BY DEF Next, SendDataToDev, Arrive, vars
  <2>2. received \in Seq(Handled)
    BY DEF IInv, TypeOK, Handled, Bytes
  <2>3. MaxBody \in Nat /\ MaxSent \in Nat
    BY FramesAssumption
  <2>4. cut \in Nat
    BY <2>3 DEF IInv, TypeOK, HeadLen
  <2> QED
    BY <2>1, <2>2, <2>3, <2>4 DEF IInv, TypeOK
<1>1. ASSUME NEW msg \in Messages, SendDataToDev(msg) PROVE IInv'
  <2>1. flight' \in Seq(Messages) /\ flight' # <<>>
        /\ (flight # <<>> => flight'[1] = flight[1])
    <3>1. Len(flight) \in Nat /\ (flight # <<>> => Len(flight) # 0)
      BY <1>0, EmptySeq
    <3>2. flight' = Append(flight, msg)
      BY <1>1 DEF SendDataToDev
    <3>3. /\ flight' \in Seq(Messages) /\ flight' # <<>>
          /\ \A x \in 1..Len(flight) : flight'[x] = flight[x]
      BY <3>2, <1>0, AppendProperties
    <3>4. flight # <<>> => 1 \in 1..Len(flight)
      BY <3>1
    <3> QED
      BY <3>3, <3>4
  <2>2. TypeOK'
    <3>1. sent' \in 0..MaxSent
      <4>1. sent \in 0..MaxSent /\ sent < MaxSent /\ sent' = sent + 1
        BY <1>0, <1>1 DEF TypeOK, SendDataToDev
      <4> QED
        BY <4>1, <1>0
    <3> QED
      BY <3>1, <2>1, <1>0, <1>1 DEF TypeOK, SendDataToDev
  <2>3. Torn'
    <3>1. cut' = cut
      BY <1>1 DEF SendDataToDev
    <3> SUFFICES ASSUME cut' # 0
                 PROVE  flight' # <<>> /\ cut' < Len(enCodeMsg(flight[1])')
      BY DEF Torn
    <3>2. enCodeMsg(flight[1])' = enCodeMsg(flight'[1])
      BY <1>0 DEF enCodeMsg, reverseEncode, Escape
    <3> QED
      BY <3>1, <3>2, <2>1, <1>0 DEF Torn
  <2>4. WholeHandled'
    BY <1>0, <1>1 DEF SendDataToDev, WholeHandled, Within
  <2> QED
    BY <2>2, <2>3, <2>4 DEF IInv
<1>2. ASSUME NEW n \in 1..(Len(Stream(flight)) - cut), Arrive(n) PROVE IInv'
  <2>0. PICK k \in 0..Len(flight), first \in Seq(Handled), last \in Seq(Handled),
             mid \in Seq(Messages) : Arrives(k, first, mid, last)
    BY <1>0, <1>2, ArriveForm
  <2> DEFINE m == Len(flight)
  <2>1. m \in Nat /\ k \in 0..m /\ \A i \in 1..m : flight[i] \in Messages
    BY <1>0, LenProperties, ElementOfSeq
  <2>2. flight' \in Seq(Messages) /\ (k # m => flight' # <<>> /\ flight'[1] = flight[k+1])
    <3> DEFINE a == k + 1
               r == SubSeq(flight, a, m)
    <3>1. a \in Int /\ m \in Int /\ flight' = r /\ \A i \in a..m : i \in 1..m
      BY <2>0, <2>1 DEF Arrives
    <3>2. \A i \in a..m : flight[i] \in Messages
      BY <2>1, <3>1
    <3>3. k # m => a <= m /\ m - a + 1 # 0 /\ 1 \in 1..(m - a + 1) /\ a + 1 - 1 = a
      BY <2>1
    <3> HIDE DEF a, m
    <3>4. /\ r \in Seq(Messages) /\ Len(r) = IF a <= m THEN m - a + 1 ELSE 0
          /\ \A i \in 1..(m - a + 1) : r[i] = flight[a + i - 1]
      BY <3>1, <3>2, SubSeqProperties
    <3> HIDE DEF r
    <3>5. k # m => Len(r) # 0 /\ r[1] = flight[a]
      BY <3>3, <3>4
    <3>6. Len(<<>>) = 0
      OBVIOUS
    <3> QED
      BY <3>1, <3>4, <3>5, <3>6 DEF a
  <2>3. cut' # 0 => flight' # <<>> /\ cut' < Len(enCodeMsg(flight'[1]))
    BY <2>0, <2>2 DEF Arrives
  <2>4. Torn'
    <3> SUFFICES ASSUME cut' # 0
                 PROVE  flight' # <<>> /\ cut' < Len(enCodeMsg(flight[1])')
      BY DEF Torn
    <3>1. enCodeMsg(flight[1])' = enCodeMsg(flight'[1])
      BY <1>0 DEF enCodeMsg, reverseEncode, Escape
    <3> QED
      BY <2>3, <3>1
  <2>5. cut' \in 0..(2 * (HeadLen + MaxBody + 1) + 1)
    <3>1. CASE cut' = 0
      BY <3>1, <1>0 DEF HeadLen
    <3>2. CASE cut' # 0
      <4>1. flight'[1] \in Messages
        <5>1. Len(flight') \in Nat /\ Len(flight') # 0
          BY <3>2, <2>2, <2>3, EmptySeq
        <5>2. 1 \in 1..Len(flight')
          BY <5>1
        <5> QED
          BY <5>2, <2>2, ElementOfSeq
      <4> DEFINE l == Len(enCodeMsg(flight'[1]))
                 c == cut'
                 b == 2 * (HeadLen + MaxBody + 1) + 2
      <4>2. l <= b /\ l \in Nat /\ c < l /\ c \in Nat
        BY <4>1, <3>2, <2>0, <2>3, LineLength, LineForm DEF Arrives
      <4>3. b \in Nat /\ b - 1 = 2 * (HeadLen + MaxBody + 1) + 1
        BY <1>0 DEF HeadLen
      <4> HIDE DEF l, c, b
      <4>4. c \in 0..(b - 1)
        BY <4>2, <4>3
      <4> QED
        BY <4>3, <4>4 DEF c
    <3> QED
      BY <3>1, <3>2
  <2>6. Messages \subseteq Handled
    <3>1. Ids \subseteq Bytes /\ Values \subseteq Bytes
      BY FramesAssumption DEF Bytes
    <3>2. \A x \in 0..MaxBody : [1..x -> Values] \subseteq [1..x -> Bytes]
      BY <3>1
    <3> QED
      BY <3>1, <3>2 DEF Messages, Handled, Bodies
  <2>7. mid \in Seq(Handled) /\ whole \in Seq(Handled)
    BY <1>0, <2>6, SeqMonotonic
  <2>8. received' \in Seq(Handled) /\ whole' \in Seq(Messages)
    <3>1. mid \o last \in Seq(Handled)
      BY <2>7, ConcatProperties
    <3>2. first \o (mid \o last) \in Seq(Handled)
      BY <3>1, ConcatProperties
    <3>3. received \o (first \o (mid \o last)) \in Seq(Handled)
      BY <3>2, <1>0, ConcatProperties
    <3>4. whole \o mid \in Seq(Messages)
      BY <1>0, ConcatProperties
    <3> QED
      BY <3>3, <3>4, <2>0 DEF Arrives
  <2>9. TypeOK'
    BY <1>0, <2>0, <2>2, <2>5, <2>8 DEF TypeOK, Arrives, Handled, Bytes
  <2>10. WholeHandled'
    <3>1. Within(whole, received)
      BY <1>0 DEF WholeHandled
    <3>2. Within(whole \o mid, received \o (first \o (mid \o last)))
      BY <3>1, <1>0, <2>7, WithinExtends
    <3>3. Within(whole', received')
      BY <3>2, <2>0 DEF Arrives
    <3> QED
      BY <3>3 DEF WholeHandled, Within
  <2> QED
    BY <2>4, <2>9, <2>10 DEF IInv
<1>3. CASE UNCHANGED vars
  <2>1. TypeOK'
    BY <1>0, <1>3 DEF TypeOK, vars
  <2>2. WholeHandled'
    BY <1>0, <1>3 DEF WholeHandled, Within, vars
  <2>3. Torn'
    <3>1. enCodeMsg(flight[1])' = enCodeMsg(flight[1])
      BY <1>3 DEF enCodeMsg, reverseEncode, Escape, vars
    <3> QED
      BY <3>1, <1>0, <1>3 DEF Torn, vars
  <2> QED
    BY <2>1, <2>2, <2>3 DEF IInv
<1> QED
  BY <1>1, <1>2, <1>3 DEF Next

-----------------------------------------------------------------------------
(* The results *)

\* What is encoded is decoded to itself, whatever bytes it holds: enCodeMsg and
\* deCodeMsg, escapes, checksum and length included.
THEOREM RoundTrip == \A msg \in Messages : deCodeMsg(enCodeMsg(msg)) = <<msg>>
BY DecodeLine

\* The line of a message has one line feed, its last byte, so that readLine
\* never cuts a line short and never runs into the next.
THEOREM LineIsOne ==
    \A msg \in Messages : \A x \in 1..Len(enCodeMsg(msg)) :
        enCodeMsg(msg)[x] = LF <=> x = Len(enCodeMsg(msg))
BY LineForm

\* The types of the connection: what is handled are messages of bytes, and less
\* than a whole line of the one in flight has been taken from the stream.
THEOREM TypeCorrect == Spec => []TypeOK
<1>1. IInv => TypeOK
  BY DEF IInv
<1> QED
  BY <1>1, InitInv, NextInv, PTL DEF Spec

\* A message that arrives in one piece is handled, in its turn and as it was
\* sent, however those around it were torn by ReadDataFromDev.
THEOREM WholeAreHandled == Spec => []WholeHandled
<1>1. IInv => WholeHandled
  BY DEF IInv
<1> QED
  BY <1>1, InitInv, NextInv, PTL DEF Spec

\* A reading that starts and ends between two messages handles those that
\* arrived, and nothing else.
THEOREM NoneInvented == Spec => NothingInvented
<1> DEFINE A == cut = 0 /\ cut' = 0 =>
                   received' = received \o SubSeq(whole', Len(whole) + 1, Len(whole'))
<1>1. IInv /\ [Next]_vars => [A]_vars
  <2> SUFFICES ASSUME IInv, Next, cut = 0, cut' = 0
               PROVE  received' = received \o SubSeq(whole', Len(whole) + 1, Len(whole'))
    OBVIOUS
  <2>0. /\ Torn /\ flight \in Seq(Messages) /\ whole \in Seq(Messages)
        /\ received \in Seq(Handled) /\ cut \in Nat
    BY DEF IInv, TypeOK, Handled, Bytes
  <2>1. ASSUME NEW msg \in Messages, SendDataToDev(msg)
        PROVE  received' = received \o SubSeq(whole', Len(whole) + 1, Len(whole'))
    <3>1. received' = received /\ whole' = whole
      BY <2>1 DEF SendDataToDev
    <3>2. Len(whole) \in Nat /\ Len(whole) + 1 \in Int /\ Len(whole) < Len(whole) + 1
      BY <2>0, LenProperties
    <3>3. SubSeq(whole, Len(whole) + 1, Len(whole)) = <<>>
      BY <3>2, SubSeqEmpty
    <3>4. received \o <<>> = received
      BY <2>0, ConcatEmptySeq
    <3> QED
      BY <3>1, <3>3, <3>4
  <2>2. ASSUME NEW n \in 1..(Len(Stream(flight)) - cut), Arrive(n)
        PROVE  received' = received \o SubSeq(whole', Len(whole) + 1, Len(whole'))
    <3>1. PICK k \in 0..Len(flight), first \in Seq(Handled), last \in Seq(Handled),
               mid \in Seq(Messages) : Arrives(k, first, mid, last)
      BY <2>0, <2>2, ArriveForm
    <3>2. received' = received \o (<<>> \o (mid \o <<>>)) /\ whole' = whole \o mid
      BY <3>1 DEF Arrives
    <3>3. mid \o <<>> = mid /\ <<>> \o mid = mid
      BY ConcatEmptySeq
    <3>4. SubSeq(whole \o mid, Len(whole) + 1, Len(whole \o mid)) = mid
      BY <2>0, Rest
    <3> QED
      BY <3>2, <3>3, <3>4
  <2> QED
    BY <2>1, <2>2 DEF Next
<1> QED
  BY <1>1, InitInv, NextInv, PTL DEF Spec, NothingInvented
==============================================================================
