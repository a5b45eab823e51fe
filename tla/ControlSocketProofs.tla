------------------------- MODULE ControlSocketProofs -------------------------
(***************************************************************************)
(* Proofs about ControlSocket: what one end writes the other reads, for    *)
(* every length, and what a call that returns has done, for any clients,   *)
(* texts, sizes, patterns and schedules.                                   *)
(***************************************************************************)
EXTENDS ControlSocket, SequenceTheorems, WellFoundedInduction, TLAPS

-----------------------------------------------------------------------------
(* Induction over the naturals.                                            *)

\* A set of naturals that is not empty has a least element.
LEMMA LeastNatural ==
    ASSUME NEW T, T \subseteq Nat, T # {}
    PROVE  \E x \in T : \A y \in T : x <= y
<1> DEFINE R == OpToRel(<, Nat)
<1>1. IsWellFoundedOn(R, Nat)
  BY NatLessThanWellFounded
<1>2. \A x, y \in Nat : x < y => <<x, y>> \in R
  BY DEF OpToRel
<1> HIDE DEF R
<1>3. \E x \in T : \A y \in T : ~ (<<y, x>> \in R)
  BY <1>1, WFMin
<1>4. PICK x \in T : \A y \in T : ~ (<<y, x>> \in R)
  BY <1>3
<1>5. ASSUME NEW y \in T PROVE x <= y
  <2>1. x \in Nat /\ y \in Nat /\ ~ (y < x)
    BY <1>2, <1>4
  <2> QED BY <2>1
<1> QED BY <1>5

\* A set that has 0, and with every number below n the next one, has all up to n.
LEMMA UpTo ==
    ASSUME NEW n \in Nat, NEW T, 0 \in T, \A k \in 0 .. (n - 1) : k \in T => k + 1 \in T
    PROVE  \A k \in 0 .. n : k \in T
<1> DEFINE missing == {k \in 0 .. n : k \notin T}
<1>1. SUFFICES ASSUME missing # {} PROVE FALSE
  OBVIOUS
<1>2. missing \subseteq Nat
  OBVIOUS
<1>3. PICK m \in missing : \A y \in missing : m <= y
  BY <1>1, <1>2, LeastNatural
<1> HIDE DEF missing
<1>4. m \in 0 .. n /\ m \notin T
  BY <1>3 DEF missing
<1>5. m # 0 /\ m - 1 \in 0 .. (n - 1) /\ m - 1 \in 0 .. n
  BY <1>4
<1>6. m - 1 \notin missing
  BY <1>3, <1>4, <1>5
<1>7. m - 1 \in T /\ (m - 1) + 1 = m
  BY <1>5, <1>6 DEF missing
<1> QED BY <1>4, <1>5, <1>7

-----------------------------------------------------------------------------
(* Numbers on the wire.                                                    *)

\* over holds n without its last k bytes, for each k up to width.
IsShifted(over, n, width) ==
    over = [k \in 0 .. width |-> IF k = 0 THEN n ELSE over[k - 1] \div 256]

\* The bytes of a number can be cut off one by one.
LEMMA ShiftedExists ==
    ASSUME NEW n, NEW width \in Nat
    PROVE  \E over : IsShifted(over, n, width)
<1> DEFINE T == {m \in Nat : \E over : IsShifted(over, n, m)}
<1>1. 0 \in T
  <2> DEFINE over == [k \in 0 .. 0 |-> n]
  <2>1. over = [k \in 0 .. 0 |-> IF k = 0 THEN n ELSE over[k - 1] \div 256]
    OBVIOUS
  <2> QED BY <2>1 DEF IsShifted
<1>2. ASSUME NEW m \in Nat, m \in T PROVE m + 1 \in T
  <2>1. PICK p : p = [k \in 0 .. m |-> IF k = 0 THEN n ELSE p[k - 1] \div 256]
    BY <1>2 DEF IsShifted
  <2> DEFINE q == [k \in 0 .. (m + 1) |-> IF k = 0 THEN n ELSE p[k - 1] \div 256]
  <2>2. ASSUME NEW k \in 0 .. (m + 1), k # 0 PROVE q[k - 1] = p[k - 1]
    <3>1. k - 1 \in 0 .. m /\ k - 1 \in 0 .. (m + 1)
      BY <2>2
    <3> QED BY <2>1, <3>1
  <2>3. q = [k \in 0 .. (m + 1) |-> IF k = 0 THEN n ELSE q[k - 1] \div 256]
    BY <2>2
  <2>4. \E over : IsShifted(over, n, m + 1)
    BY <2>3 DEF IsShifted
  <2> QED BY <2>4
<1> HIDE DEF T
<1>3. \A k \in 0 .. width : k \in T
  BY <1>1, <1>2, UpTo
<1>4. width \in T
  BY <1>3
<1> QED BY <1>4 DEF T

\* Every cut takes one byte.
LEMMA ShiftedUnfolds ==
    ASSUME NEW n \in Nat, NEW width \in Nat
    PROVE  /\ Shifted(n, width)[0] = n
           /\ \A k \in 1 .. width : Shifted(n, width)[k] = Shifted(n, width)[k - 1] \div 256
           /\ \A k \in 0 .. width : Shifted(n, width)[k] \in Nat
<1> DEFINE over[k \in 0 .. width] == IF k = 0 THEN n ELSE over[k - 1] \div 256
           T == {k \in Nat : over[k] \in Nat}
<1>1. \E p : IsShifted(p, n, width)
  BY ShiftedExists
<1>2. over = [k \in 0 .. width |-> IF k = 0 THEN n ELSE over[k - 1] \div 256]
  BY <1>1 DEF IsShifted
<1>3. Shifted(n, width) = over
  BY DEF Shifted
<1> HIDE DEF over
<1>4. over[0] = n /\ \A k \in 1 .. width : over[k] = over[k - 1] \div 256
  BY <1>2
<1>5. 0 \in T
  BY <1>4
<1>6. ASSUME NEW k \in 0 .. (width - 1), k \in T PROVE k + 1 \in T
  <2>1. k + 1 \in 1 .. width /\ (k + 1) - 1 = k /\ over[k] \in Nat
    BY <1>6
  <2>2. over[k + 1] = over[k] \div 256
    BY <1>4, <2>1
  <2> QED BY <2>1, <2>2
<1>7. \A k \in 0 .. width : k \in T
  <2> HIDE DEF T
  <2> QED BY <1>5, <1>6, UpTo
<1> QED BY <1>3, <1>4, <1>7

\* upTo holds what the first i of the bytes stand for, for each i up to n.
IsNumber(upTo, bytes, n) ==
    upTo = [i \in 0 .. n |-> IF i = 0 THEN 0 ELSE upTo[i - 1] * 256 + bytes[i]]

\* Bytes can be taken up one by one.
LEMMA NumberExists ==
    ASSUME NEW bytes, NEW n \in Nat
    PROVE  \E upTo : IsNumber(upTo, bytes, n)
<1> DEFINE T == {m \in Nat : \E upTo : IsNumber(upTo, bytes, m)}
<1>1. 0 \in T
  <2> DEFINE p == [i \in 0 .. 0 |-> 0]
  <2>1. p = [i \in 0 .. 0 |-> IF i = 0 THEN 0 ELSE p[i - 1] * 256 + bytes[i]]
    OBVIOUS
  <2> QED BY <2>1 DEF IsNumber
<1>2. ASSUME NEW m \in Nat, m \in T PROVE m + 1 \in T
  <2>1. PICK p : p = [i \in 0 .. m |-> IF i = 0 THEN 0 ELSE p[i - 1] * 256 + bytes[i]]
    BY <1>2 DEF IsNumber
  <2> DEFINE q == [i \in 0 .. (m + 1) |-> IF i = 0 THEN 0 ELSE p[i - 1] * 256 + bytes[i]]
  <2>2. ASSUME NEW i \in 0 .. (m + 1), i # 0 PROVE q[i - 1] = p[i - 1]
    <3>1. i - 1 \in 0 .. m /\ i - 1 \in 0 .. (m + 1)
      BY <2>2
    <3> QED BY <2>1, <3>1
  <2>3. q = [i \in 0 .. (m + 1) |-> IF i = 0 THEN 0 ELSE q[i - 1] * 256 + bytes[i]]
    BY <2>2
  <2>4. \E upTo : IsNumber(upTo, bytes, m + 1)
    BY <2>3 DEF IsNumber
  <2> QED BY <2>4
<1> HIDE DEF T
<1>3. \A k \in 0 .. n : k \in T
  BY <1>1, <1>2, UpTo
<1>4. n \in T
  BY <1>3
<1> QED BY <1>4 DEF T

\* A number that fits a field is read from it as it was written.
LEMMA NumberOfDigits ==
    ASSUME NEW n \in Nat, NEW width \in Nat, Fits(n, width)
    PROVE  Number(Digits(n, width)) = n
<1> DEFINE d == Digits(n, width)
           s == Shifted(n, width)
           upTo[i \in 0 .. Len(d)] == IF i = 0 THEN 0 ELSE upTo[i - 1] * 256 + d[i]
           T == {i \in Nat : upTo[i] = s[width - i]}
<1>1. /\ s[0] = n
      /\ \A k \in 1 .. width : s[k] = s[k - 1] \div 256
      /\ \A k \in 0 .. width : s[k] \in Nat
  BY ShiftedUnfolds
<1>2. Len(d) = width /\ \A i \in 1 .. width : d[i] = s[width - i] % 256
  BY DEF Digits
<1>3. s[width] = 0
  BY DEF Fits
<1>4. \E p : IsNumber(p, d, Len(d))
  BY <1>2, NumberExists
<1>5. upTo = [i \in 0 .. Len(d) |-> IF i = 0 THEN 0 ELSE upTo[i - 1] * 256 + d[i]]
  BY <1>4 DEF IsNumber
<1>6. Number(d) = upTo[Len(d)]
  BY DEF Number
<1> HIDE DEF d, s, upTo
<1>7. upTo[0] = 0 /\ \A i \in 1 .. width : upTo[i] = upTo[i - 1] * 256 + d[i]
  BY <1>2, <1>5
<1>8. 0 \in T
  BY <1>3, <1>7
<1>9. ASSUME NEW i \in 0 .. (width - 1), i \in T PROVE i + 1 \in T
  <2> DEFINE j == width - (i + 1)
  <2>1. j \in 0 .. width /\ j + 1 \in 1 .. width /\ (j + 1) - 1 = j /\ width - i = j + 1
    OBVIOUS
  <2>2. upTo[i] = s[j + 1] /\ s[j + 1] = s[j] \div 256 /\ s[j] \in Nat
    BY <1>1, <1>9, <2>1
  <2>3. i + 1 \in 1 .. width /\ (i + 1) - 1 = i
    OBVIOUS
  <2>4. upTo[i + 1] = upTo[i] * 256 + d[i + 1] /\ d[i + 1] = s[j] % 256
    BY <1>2, <1>7, <2>3
  <2> HIDE DEF j
  <2>5. (s[j] \div 256) * 256 + (s[j] % 256) = s[j]
    BY <2>2
  <2>6. upTo[i + 1] = s[j]
    BY <2>2, <2>4, <2>5
  <2> QED BY <2>6 DEF j
<1>10. \A i \in 0 .. width : i \in T
  <2> HIDE DEF T
  <2> QED BY <1>8, <1>9, UpTo
<1>11. upTo[width] = s[0]
  <2>1. width \in 0 .. width /\ width - width = 0
    OBVIOUS
  <2>2. width \in T
    BY <1>10, <2>1
  <2> QED BY <2>1, <2>2
<1> QED BY <1>1, <1>2, <1>6, <1>11 DEF d
-----------------------------------------------------------------------------
(* Fields of a stream.                                                     *)

\* Digits are bytes, as many as the field is wide.
LEMMA DigitsAreBytes ==
    ASSUME NEW n \in Nat, NEW width \in Nat
    PROVE  Digits(n, width) \in Seq(U8) /\ Len(Digits(n, width)) = width
<1>1. \A i \in 1 .. width : Shifted(n, width)[width - i] % 256 \in U8
  <2>1. \A k \in 0 .. width : Shifted(n, width)[k] \in Nat
    BY ShiftedUnfolds
  <2> TAKE i \in 1 .. width
  <2>2. width - i \in 0 .. width
    OBVIOUS
  <2>3. Shifted(n, width)[width - i] \in Nat
    BY <2>1, <2>2
  <2> QED BY <2>3 DEF U8
<1> QED BY <1>1 DEF Digits

\* A number of 16 bits fits every field that is written.
LEMMA ShortFits ==
    ASSUME NEW n \in Nat, n <= 65535, NEW width \in Nat, width \in {2, 4, 8}
    PROVE  Fits(n, width)
<1> DEFINE s == Shifted(n, width)
<1>1. s[0] = n /\ \A k \in 1 .. width : s[k] = s[k - 1] \div 256
  BY ShiftedUnfolds
<1> HIDE DEF s
<1>2. s[1] = n \div 256 /\ s[2] = s[1] \div 256
  <2>1. s[1] = s[1 - 1] \div 256 /\ s[2] = s[2 - 1] \div 256
    BY <1>1
  <2> QED BY <1>1, <2>1
<1>3. s[2] = 0
  BY <1>2
<1>4. width > 2 => s[3] = 0 /\ s[4] = 0
  <2>1. width > 2 => s[3] = s[3 - 1] \div 256 /\ s[4] = s[4 - 1] \div 256
    BY <1>1
  <2> QED BY <1>3, <2>1
<1>5. width > 4 => s[5] = 0 /\ s[6] = 0 /\ s[7] = 0 /\ s[8] = 0
  <2>1. width > 4 => /\ s[5] = s[5 - 1] \div 256 /\ s[6] = s[6 - 1] \div 256
                     /\ s[7] = s[7 - 1] \div 256 /\ s[8] = s[8 - 1] \div 256
    BY <1>1
  <2> QED BY <1>4, <2>1
<1> QED BY <1>3, <1>4, <1>5 DEF Fits, s

\* The first bytes of a stream: a field that is there is the field of the stream.
LEMMA PrefixKept ==
    ASSUME NEW S, NEW s \in Seq(S), NEW n \in 1 .. Len(s)
    PROVE  LET cut == SubSeq(s, 1, n) IN
           /\ cut # <<>> /\ Len(cut) = n /\ cut[1] = s[1]
           /\ \A from \in Nat \ {0}, width \in Nat :
                 ~Short(cut, from, width) => Field(cut, from, width) = Field(s, from, width)
<1> DEFINE cut == SubSeq(s, 1, n)
<1>1. n \in Nat /\ n > 0 /\ n <= Len(s) /\ Len(s) \in Nat /\ \A i \in 1 .. n : s[i] \in S
  BY LenProperties
<1>2. cut \in Seq(S) /\ Len(cut) = n
  <2>1. /\ SubSeq(s, 1, n) \in Seq(S)
        /\ Len(SubSeq(s, 1, n)) = IF 1 <= n THEN n - 1 + 1 ELSE 0
    BY <1>1, SubSeqProperties
  <2> QED BY <1>1, <2>1
<1>3. cut[1] = s[1] /\ cut # <<>>
  <2>1. \A i \in 1 .. n - 1 + 1 : cut[i] = s[1 + i - 1]
    BY <1>1, SubSeqProperties
  <2> HIDE DEF cut
  <2> QED BY <1>1, <1>2, <2>1
<1>4. ASSUME NEW from \in Nat \ {0}, NEW width \in Nat, ~Short(cut, from, width)
      PROVE  Field(cut, from, width) = Field(s, from, width)
  <2> DEFINE last == from + width - 1
  <2>1. last <= n /\ last \in Nat
    BY <1>1, <1>2, <1>4 DEF Short
  <2> HIDE DEF cut
  <2>2. CASE width = 0
    <3>1. last < from /\ last \in Int /\ from \in Int
      BY <2>1, <2>2
    <3> HIDE DEF last
    <3>2. SubSeq(cut, from, last) = <<>> /\ SubSeq(s, from, last) = <<>>
      BY <3>1, SubSeqEmpty
    <3> QED BY <3>2 DEF Field, last
  <2>3. CASE width > 0
    <3>1. from \in 1 .. n - 1 + 1 /\ last \in 1 .. n - 1 + 1 /\ 1 \in 1 .. Len(s) /\ n \in 1 .. Len(s)
      BY <1>1, <2>1, <2>3
    <3>2. 1 + from - 1 = from /\ 1 + last - 1 = last
      BY <2>1
    <3> HIDE DEF last
    <3>3. SubSeq(SubSeq(s, 1, n), from, last) = SubSeq(s, 1 + from - 1, 1 + last - 1)
      BY <3>1, SubSeqOfSubSeq
    <3> QED BY <3>2, <3>3 DEF cut, Field, last
  <2> QED BY <2>2, <2>3
<1> HIDE DEF cut
<1> QED BY <1>2, <1>3, <1>4 DEF cut

\* The field between two parts of a stream.
LEMMA FieldBetween ==
    ASSUME NEW S, NEW a \in Seq(S), NEW b \in Seq(S), NEW c \in Seq(S)
    PROVE  Field((a \o b) \o c, Len(a) + 1, Len(b)) = b
<1> DEFINE s == (a \o b) \o c
           f == SubSeq(s, Len(a) + 1, Len(a) + 1 + Len(b) - 1)
<1>1. /\ s \in Seq(S) /\ Len(s) = Len(a) + Len(b) + Len(c)
      /\ \A i \in 1 .. Len(b) : s[Len(a) + i] = b[i]
      /\ Len(a) \in Nat /\ Len(b) \in Nat /\ Len(c) \in Nat
  OBVIOUS
<1> HIDE DEF s
<1>2. Len(f) = Len(b) /\ f \in Seq(S)
  BY <1>1
<1>3. \A i \in 1 .. Len(b) : f[i] = b[i]
  BY <1>1
<1>4. f = b
  BY <1>2, <1>3
<1> QED BY <1>4 DEF Field, s

\* The length field of a frame behind other bytes.
LEMMA FrameLength ==
    ASSUME NEW head \in Seq(U8), NEW body \in Seq(U8), NEW n \in Nat, NEW width \in Nat, Fits(n, width)
    PROVE  LET s == head \o (Digits(n, width) \o body) IN
           /\ s = (head \o Digits(n, width)) \o body
           /\ head \o Digits(n, width) \in Seq(U8)
           /\ Len(head \o Digits(n, width)) = Len(head) + width
           /\ s \in Seq(U8) /\ Len(s) = Len(head) + width + Len(body)
           /\ Number(Field(s, Len(head) + 1, width)) = n
<1> DEFINE d == Digits(n, width)
           s == head \o (d \o body)
<1>1. d \in Seq(U8)
  BY DigitsAreBytes
<1>2. Len(d) = width /\ Number(d) = n
  BY DigitsAreBytes, NumberOfDigits
<1> HIDE DEF d
<1>3. s = (head \o d) \o body
  <2>1. \A a, b, c \in Seq(U8) : (a \o b) \o c = a \o (b \o c)
    BY ConcatAssociative, SMTT(30)
  <2>2. (head \o d) \o body = head \o (d \o body)
    BY <1>1, <2>1, Zenon
  <2> QED BY <2>2
<1>4. head \o d \in Seq(U8) /\ Len(head \o d) = Len(head) + Len(d)
  BY <1>1
<1>5. s \in Seq(U8) /\ Len(s) = Len(head) + (Len(d) + Len(body))
  BY <1>1
<1>6. Field((head \o d) \o body, Len(head) + 1, Len(d)) = d
  BY <1>1, FieldBetween
<1> HIDE DEF s
<1>7. Len(head \o d) = Len(head) + width
  BY <1>2, <1>4
<1>8. Len(s) = Len(head) + width + Len(body)
  <2>1. Len(head) \in Nat /\ Len(body) \in Nat
    OBVIOUS
  <2> QED BY <1>2, <1>5, <2>1
<1>9. Number(Field(s, Len(head) + 1, width)) = n
  BY <1>2, <1>3, <1>6
<1> QED BY <1>3, <1>4, <1>5, <1>7, <1>8, <1>9 DEF s, d

\* A frame behind other bytes is read when it is within the limit, and then as
\* it was written.
LEMMA FrameIsRead ==
    ASSUME NEW head \in Seq(U8), NEW bytes \in Seq(U8), Fits(Len(bytes), 8)
    PROVE  LET s == head \o Frame(bytes) IN
           /\ FrameReadable(s, Len(head) + 1) <=> Len(bytes) <= MaximumFrameLength
           /\ FrameAt(s, Len(head) + 1) = bytes
<1> DEFINE d == Digits(Len(bytes), 8)
           s == head \o Frame(bytes)
           from == Len(head) + 1
<1>1. Len(bytes) \in Nat /\ Len(head) \in Nat /\ <<>> \in Seq(U8)
  OBVIOUS
<1>2. /\ s = (head \o d) \o bytes
      /\ head \o d \in Seq(U8)
      /\ Len(head \o d) = Len(head) + 8
      /\ s \in Seq(U8) /\ Len(s) = Len(head) + 8 + Len(bytes)
      /\ Number(Field(s, from, 8)) = Len(bytes)
  <2>1. s = head \o (d \o bytes)
    BY DEF Frame
  <2>2. PICK n \in Nat : n = Len(bytes)
    BY <1>1
  <2>3. Fits(n, 8) /\ 8 \in Nat
    BY <2>2
  <2>4. d = Digits(n, 8)
    BY <2>2
  <2> HIDE DEF s, d, from
  <2>5. LET x == head \o (Digits(n, 8) \o bytes) IN
        /\ x \in Seq(U8) /\ Len(x) = Len(head) + 8 + Len(bytes)
        /\ Number(Field(x, Len(head) + 1, 8)) = n
    BY <2>3, FrameLength
  <2>6. d \in Seq(U8)
    BY <2>3, <2>4, DigitsAreBytes
  <2>7. Len(d) = 8
    BY <2>3, <2>4, DigitsAreBytes
  <2>8. head \o (d \o bytes) = (head \o d) \o bytes
    <3>1. \A a, b, c \in Seq(U8) : (a \o b) \o c = a \o (b \o c)
      BY ConcatAssociative, SMTT(30)
    <3> QED BY <2>6, <3>1, Zenon
  <2>9. head \o d \in Seq(U8) /\ Len(head \o d) = Len(head) + Len(d)
    BY <2>6
  <2> QED BY <2>1, <2>2, <2>4, <2>5, <2>7, <2>8, <2>9 DEF from
<1>3. head \o d \in Seq(U8) /\ s \in Seq(U8)
  BY <1>2
<1>4. s \o <<>> = s
  BY <1>3, ConcatEmptySeq
<1>5. Field(((head \o d) \o bytes) \o <<>>, Len(head \o d) + 1, Len(bytes)) = bytes
  <2>1. \A a, b, c \in Seq(U8) : Field((a \o b) \o c, Len(a) + 1, Len(b)) = b
    BY FieldBetween
  <2> HIDE DEF d
  <2> QED BY <1>1, <1>3, <2>1
<1> HIDE DEF d, s
<1>6. Field(s, from + 8, Len(bytes)) = bytes
  <2>1. Len(head \o d) + 1 = from + 8
    BY <1>1, <1>2
  <2>2. ((head \o d) \o bytes) \o <<>> = s
    BY <1>2, <1>4
  <2> HIDE DEF from
  <2> QED BY <1>5, <2>1, <2>2
<1>7. ~Short(s, from, 8) /\ ~Short(s, from + 8, Len(bytes))
  BY <1>1, <1>2 DEF Short
<1> QED BY <1>2, <1>6, <1>7 DEF FrameReadable, FrameAt, s

\* A frame that is not all there is refused.
LEMMA CutFrameIsRefused ==
    ASSUME NEW head \in Seq(U8), NEW bytes \in Seq(U8), Fits(Len(bytes), 8),
           NEW n \in 1 .. Len(head \o Frame(bytes)) - 1
    PROVE  ~FrameReadable(SubSeq(head \o Frame(bytes), 1, n), Len(head) + 1)
<1> DEFINE s == head \o Frame(bytes)
           cut == SubSeq(s, 1, n)
           from == Len(head) + 1
<1>1. Len(bytes) \in Nat /\ Len(head) \in Nat /\ 8 \in Nat
  OBVIOUS
<1>2. s \in Seq(U8) /\ Len(s) = Len(head) + 8 + Len(bytes) /\ Number(Field(s, from, 8)) = Len(bytes)
  <2>1. PICK k \in Nat : k = Len(bytes)
    BY <1>1
  <2>2. s = head \o (Digits(k, 8) \o bytes) /\ Fits(k, 8)
    BY <2>1 DEF Frame
  <2> HIDE DEF s
  <2>3. LET x == head \o (Digits(k, 8) \o bytes) IN
        /\ x \in Seq(U8) /\ Len(x) = Len(head) + 8 + Len(bytes)
        /\ Number(Field(x, Len(head) + 1, 8)) = k
    BY <1>1, <2>2, FrameLength
  <2> QED BY <2>1, <2>2, <2>3
<1>3. s \in Seq(U8)
  BY <1>2
<1> HIDE DEF s
<1>4. n \in 1 .. Len(s) /\ n < from + 8 + Len(bytes) - 1 /\ from \in Nat \ {0}
  BY <1>1, <1>2 DEF s
<1>5. Len(cut) = n /\ (~Short(cut, from, 8) => Field(cut, from, 8) = Field(s, from, 8))
  <2> HIDE DEF from
  <2> QED BY <1>1, <1>3, <1>4, PrefixKept
<1>6. Short(cut, from + 8, Len(bytes))
  <2> HIDE DEF cut, from
  <2> QED BY <1>4, <1>5 DEF Short
<1> HIDE DEF cut, from
<1> QED BY <1>2, <1>5, <1>6 DEF FrameReadable, cut, from, s

-----------------------------------------------------------------------------
(* Requests on the wire.                                                   *)

Plain  == {"capture", "subscribe", "attach", "closeHumanInput", "waitExit", "workerObservation"}
Framed == {"programmaticInput", "viewerInput", "wait"}

\* A field of two bytes holds the numbers from 0 to 65535.
LEMMA U16Range == \A n : n \in U16 <=> n \in Nat /\ n <= 65535
  BY DEF U16

\* Sizes are two numbers of 16 bits.
LEMMA SizesAreShort == \A s \in Sizes : s \in U16 \X U16 /\ s[1] \in U16 /\ s[2] \in U16 /\ s = <<s[1], s[2]>>
<1>1. Sizes \subseteq U16 \X U16
  BY ControlAssumption DEF ControlAssumption
<1> QED BY <1>1

\* The shapes of a request that is on its way.
LEMMA RequestShapes ==
    ASSUME NEW c, NEW r \in Request(c)
    PROVE  \/ \E v \in Plain : r = [verb |-> v]
           \/ \E v \in Framed, b \in Payloads : r = [verb |-> v, bytes |-> b]
           \/ r = [verb |-> "openHumanInput", lease |-> 1]
           \/ \E s \in Sizes : r = Resize(s)
           \/ \E q \in Query : r = [verb |-> "signal", query |-> q]
<1>1. CASE c \in Controllers
  <2>1. r \in [verb : {"signal"}, query : Query]
    BY <1>1 DEF Request
  <2> QED BY <2>1
<1>2. CASE c \notin Controllers
  <2>1. \/ r \in [verb : {"capture"} \union (Others \ {"openHumanInput", "wait"})]
        \/ r \in [verb : {"programmaticInput", "viewerInput", "wait"}, bytes : Payloads]
        \/ r \in [verb : {"openHumanInput"}, lease : {1}]
        \/ r \in {Resize(s) : s \in Sizes}
    BY <1>2 DEF Request
  <2>2. ASSUME r \in [verb : {"capture"} \union (Others \ {"openHumanInput", "wait"})]
        PROVE  \E v \in Plain : r = [verb |-> v]
    BY <2>2 DEF Others, Plain
  <2>3. ASSUME r \in [verb : {"programmaticInput", "viewerInput", "wait"}, bytes : Payloads]
        PROVE  \E v \in Framed, b \in Payloads : r = [verb |-> v, bytes |-> b]
    BY <2>3 DEF Framed
  <2>4. ASSUME r \in [verb : {"openHumanInput"}, lease : {1}]
        PROVE  r = [verb |-> "openHumanInput", lease |-> 1]
    BY <2>4
  <2> QED BY <2>1, <2>2, <2>3, <2>4
<1> QED BY <1>1, <1>2

\* The first byte decides how a request is read.
LEMMA ReadByTag ==
    ASSUME NEW s, s # <<>>
    PROVE  /\ s[1] = CaptureRequest           => ReadRequest(s) = [verb |-> "capture"]
           /\ s[1] = SubscribeRequest         => ReadRequest(s) = [verb |-> "subscribe"]
           /\ s[1] = AttachRequest            => ReadRequest(s) = [verb |-> "attach"]
           /\ s[1] = ProgrammaticInputRequest => ReadRequest(s) = WithFrame(s, "programmaticInput")
           /\ s[1] = ViewerInputRequest       => ReadRequest(s) = WithFrame(s, "viewerInput")
           /\ s[1] = CloseHumanInputRequest   => ReadRequest(s) = [verb |-> "closeHumanInput"]
           /\ s[1] = OpenHumanInputRequest    =>
                 ReadRequest(s) = IF Short(s, 2, 8) THEN Refused
                                  ELSE [verb |-> "openHumanInput", lease |-> Number(Field(s, 2, 8))]
           /\ s[1] = ResizeRequest            =>
                 ReadRequest(s) = IF Short(s, 2, 4) THEN Refused
                                  ELSE [verb |-> "resize", rows |-> Number(Field(s, 2, 2)),
                                                           columns |-> Number(Field(s, 4, 2))]
           /\ s[1] = WaitRequest              => ReadRequest(s) = WithFrame(s, "wait")
           /\ s[1] = WaitExitRequest          => ReadRequest(s) = [verb |-> "waitExit"]
           /\ s[1] = WorkerObservationRequest => ReadRequest(s) = [verb |-> "workerObservation"]
           /\ s[1] = 0                        => ReadRequest(s) = ReadSignalRequest(s)
<1> USE DEF CaptureRequest, SubscribeRequest, AttachRequest, ProgrammaticInputRequest, ViewerInputRequest,
            CloseHumanInputRequest, OpenHumanInputRequest, ResizeRequest, WaitRequest, WaitExitRequest,
            WorkerObservationRequest
<1>1. s[1] = CaptureRequest => ReadRequest(s) = [verb |-> "capture"]
  BY DEF ReadRequest
<1>2. s[1] = SubscribeRequest => ReadRequest(s) = [verb |-> "subscribe"]
  BY DEF ReadRequest
<1>3. s[1] = AttachRequest => ReadRequest(s) = [verb |-> "attach"]
  BY DEF ReadRequest
<1>4. s[1] = ProgrammaticInputRequest => ReadRequest(s) = WithFrame(s, "programmaticInput")
  BY DEF ReadRequest
<1>5. s[1] = ViewerInputRequest => ReadRequest(s) = WithFrame(s, "viewerInput")
  BY DEF ReadRequest
<1>6. s[1] = CloseHumanInputRequest => ReadRequest(s) = [verb |-> "closeHumanInput"]
  BY DEF ReadRequest
<1>7. s[1] = OpenHumanInputRequest =>
         ReadRequest(s) = IF Short(s, 2, 8) THEN Refused
                          ELSE [verb |-> "openHumanInput", lease |-> Number(Field(s, 2, 8))]
  BY DEF ReadRequest
<1>8. s[1] = ResizeRequest =>
         ReadRequest(s) = IF Short(s, 2, 4) THEN Refused
                          ELSE [verb |-> "resize", rows |-> Number(Field(s, 2, 2)),
                                                   columns |-> Number(Field(s, 4, 2))]
  BY DEF ReadRequest
<1>9. s[1] = WaitRequest => ReadRequest(s) = WithFrame(s, "wait")
  BY DEF ReadRequest
<1>10. s[1] = WaitExitRequest => ReadRequest(s) = [verb |-> "waitExit"]
  BY DEF ReadRequest
<1>11. s[1] = WorkerObservationRequest => ReadRequest(s) = [verb |-> "workerObservation"]
  BY DEF ReadRequest
<1>12. s[1] = 0 => ReadRequest(s) = ReadSignalRequest(s)
  BY DEF ReadRequest
<1> QED BY <1>1, <1>2, <1>3, <1>4, <1>5, <1>6, <1>7, <1>8, <1>9, <1>10, <1>11, <1>12

Tags == {CaptureRequest, SubscribeRequest, AttachRequest, ProgrammaticInputRequest, ViewerInputRequest,
         CloseHumanInputRequest, OpenHumanInputRequest, ResizeRequest, WaitRequest, WaitExitRequest,
         WorkerObservationRequest}

\* Tags are bytes.
LEMMA TagsAreBytes == Tags \subseteq U8
BY DEF Tags, U8, CaptureRequest, SubscribeRequest, AttachRequest, ProgrammaticInputRequest,
       ViewerInputRequest, CloseHumanInputRequest, OpenHumanInputRequest, ResizeRequest, WaitRequest,
       WaitExitRequest, WorkerObservationRequest

\* A request that is a tag byte alone is read from it.
LEMMA PlainIsRead ==
    ASSUME NEW v \in Plain
    PROVE  \E tag \in Tags : /\ WriteRequest([verb |-> v]) = <<tag>>
                             /\ ReadRequest(<<tag>>) = [verb |-> v]
<1>1. \A tag : <<tag>> # <<>> /\ <<tag>>[1] = tag
  OBVIOUS
<1>2. CASE v = "capture"
  <2>1. WriteRequest([verb |-> v]) = <<CaptureRequest>>
    BY <1>2 DEF WriteRequest
  <2> QED BY <1>1, <1>2, <2>1, ReadByTag DEF Tags
<1>3. CASE v = "subscribe"
  <2>1. WriteRequest([verb |-> v]) = <<SubscribeRequest>>
    BY <1>3 DEF WriteRequest
  <2> QED BY <1>1, <1>3, <2>1, ReadByTag DEF Tags
<1>4. CASE v = "attach"
  <2>1. WriteRequest([verb |-> v]) = <<AttachRequest>>
    BY <1>4 DEF WriteRequest
  <2> QED BY <1>1, <1>4, <2>1, ReadByTag DEF Tags
<1>5. CASE v = "closeHumanInput"
  <2>1. WriteRequest([verb |-> v]) = <<CloseHumanInputRequest>>
    BY <1>5 DEF WriteRequest
  <2> QED BY <1>1, <1>5, <2>1, ReadByTag DEF Tags
<1>6. CASE v = "waitExit"
  <2>1. WriteRequest([verb |-> v]) = <<WaitExitRequest>>
    BY <1>6 DEF WriteRequest
  <2> QED BY <1>1, <1>6, <2>1, ReadByTag DEF Tags
<1>7. CASE v = "workerObservation"
  <2>1. WriteRequest([verb |-> v]) = <<WorkerObservationRequest>>
    BY <1>7 DEF WriteRequest
  <2> QED BY <1>1, <1>7, <2>1, ReadByTag DEF Tags
<1> QED BY <1>2, <1>3, <1>4, <1>5, <1>6, <1>7 DEF Plain

\* A framed text is written behind its tag, and what starts with that tag is
\* read as the tag and a frame.
LEMMA FramedIsRead ==
    ASSUME NEW v \in Framed, NEW b
    PROVE  \E tag \in Tags : /\ WriteRequest([verb |-> v, bytes |-> b]) = <<tag>> \o Frame(b)
                             /\ \A s : s # <<>> /\ s[1] = tag => ReadRequest(s) = WithFrame(s, v)
<1> DEFINE r == [verb |-> v, bytes |-> b]
<1>1. r.verb = v /\ r.bytes = b
  OBVIOUS
<1>2. CASE v = "programmaticInput"
  <2>1. WriteRequest(r) = <<ProgrammaticInputRequest>> \o Frame(b)
    BY <1>1, <1>2 DEF WriteRequest
  <2>2. \A s : s # <<>> /\ s[1] = ProgrammaticInputRequest => ReadRequest(s) = WithFrame(s, v)
    BY <1>2, ReadByTag
  <2> QED BY <2>1, <2>2 DEF Tags
<1>3. CASE v = "viewerInput"
  <2>1. WriteRequest(r) = <<ViewerInputRequest>> \o Frame(b)
    BY <1>1, <1>3 DEF WriteRequest
  <2>2. \A s : s # <<>> /\ s[1] = ViewerInputRequest => ReadRequest(s) = WithFrame(s, v)
    BY <1>3, ReadByTag
  <2> QED BY <2>1, <2>2 DEF Tags
<1>4. CASE v = "wait"
  <2>1. WriteRequest(r) = <<WaitRequest>> \o Frame(b)
    BY <1>1, <1>4 DEF WriteRequest
  <2>2. \A s : s # <<>> /\ s[1] = WaitRequest => ReadRequest(s) = WithFrame(s, v)
    BY <1>4, ReadByTag
  <2> QED BY <2>1, <2>2 DEF Tags
<1> QED BY <1>2, <1>3, <1>4 DEF Framed

\* A stream that begins with a tag.
LEMMA BehindTag ==
    ASSUME NEW tag \in U8, NEW body \in Seq(U8)
    PROVE  LET s == <<tag>> \o body IN
           s \in Seq(U8) /\ Len(s) = 1 + Len(body) /\ s # <<>> /\ s[1] = tag
<1>1. <<tag>> \in Seq(U8) /\ <<tag>>[1] = tag
  OBVIOUS
<1>2. Len(<<tag>>) = 1
  OBVIOUS
<1>3. <<tag>> \o body \in Seq(U8) /\ Len(<<tag>> \o body) = Len(<<tag>>) + Len(body)
  BY <1>1, ConcatProperties
<1>4. \A i \in 1 .. Len(<<tag>>) + Len(body) : (<<tag>> \o body)[i] =
         IF i <= Len(<<tag>>) THEN <<tag>>[i] ELSE body[i - Len(<<tag>>)]
  BY <1>1, ConcatProperties
<1>5. Len(body) \in Nat
  BY LenProperties
<1>6. (<<tag>> \o body)[1] = tag
  <2>1. 1 \in 1 .. Len(<<tag>>) + Len(body) /\ 1 <= Len(<<tag>>)
    BY <1>2, <1>5
  <2> QED BY <1>1, <1>4, <2>1
<1>7. <<tag>> \o body # <<>>
  BY <1>2, <1>3, <1>5
<1> QED BY <1>2, <1>3, <1>6, <1>7

\* A framed text is read as it was written, or refused when it is too long.
LEMMA FramedRoundTrip ==
    ASSUME NEW v \in Framed, NEW b \in Payloads
    PROVE  LET r == [verb |-> v, bytes |-> b]
               s == WriteRequest(r)
           IN  /\ s \in Seq(U8) /\ Len(s) \in Nat /\ Len(s) > 1
               /\ ReadRequest(s) = IF TooLong(r) THEN Refused ELSE r
               /\ \A n \in 1 .. Len(s) - 1 : ReadRequest(SubSeq(s, 1, n)) = Refused
<1> DEFINE r == [verb |-> v, bytes |-> b]
           s == WriteRequest(r)
<1>1. b \in Seq(U8) /\ Fits(Len(b), 8) /\ Len(b) \in Nat
  <2>1. Payloads \subseteq {bytes \in Seq(U8) : Fits(Len(bytes), 8)}
    BY ControlAssumption DEF ControlAssumption
  <2>2. b \in Seq(U8) /\ Fits(Len(b), 8)
    BY <2>1
  <2> QED BY <2>2, LenProperties
<1>2. PICK tag \in Tags : /\ s = <<tag>> \o Frame(b)
                          /\ \A x : x # <<>> /\ x[1] = tag => ReadRequest(x) = WithFrame(x, v)
  BY FramedIsRead
<1>3. tag \in U8 /\ <<tag>> \in Seq(U8)
  BY TagsAreBytes
<1>4. Frame(b) \in Seq(U8) /\ Len(Frame(b)) \in Nat /\ Len(Frame(b)) > 0
  <2>1. 8 \in Nat
    OBVIOUS
  <2>2. Digits(Len(b), 8) \in Seq(U8) /\ Len(Digits(Len(b), 8)) = 8
    BY <1>1, <2>1, DigitsAreBytes
  <2>3. Frame(b) \in Seq(U8)
    BY <1>1, <2>2, ConcatProperties DEF Frame
  <2>4. Len(Frame(b)) = Len(Digits(Len(b), 8)) + Len(b)
    BY <1>1, <2>2, ConcatProperties DEF Frame
  <2>5. Len(Frame(b)) = 8 + Len(b)
    BY <2>2, <2>4
  <2>6. Len(Frame(b)) \in Nat /\ Len(Frame(b)) > 0
    BY <1>1, <2>5
  <2> QED BY <2>3, <2>6
<1>5. s \in Seq(U8) /\ Len(s) = 1 + Len(Frame(b)) /\ s # <<>> /\ s[1] = tag
  BY <1>2, <1>3, <1>4, BehindTag
<1>6. r.verb = v /\ r.bytes = b /\ "bytes" \in DOMAIN r
  OBVIOUS
<1>7. Len(<<tag>>) + 1 = 2
  OBVIOUS
<1> HIDE DEF r, s
<1>8. TooLong(r) <=> Len(b) > MaximumFrameLength
  BY <1>6 DEF TooLong
<1>9. ReadRequest(s) = IF TooLong(r) THEN Refused ELSE r
  <2>1. /\ FrameReadable(s, 2) <=> Len(b) <= MaximumFrameLength
        /\ FrameAt(s, 2) = b
    <3>1. FrameReadable(s, Len(<<tag>>) + 1) <=> Len(b) <= MaximumFrameLength
      BY <1>1, <1>2, <1>3, FrameIsRead
    <3>2. FrameAt(s, Len(<<tag>>) + 1) = b
      BY <1>1, <1>2, <1>3, FrameIsRead
    <3> QED BY <1>7, <3>1, <3>2
  <2>2. ReadRequest(s) = IF FrameReadable(s, 2) THEN [verb |-> v, bytes |-> FrameAt(s, 2)] ELSE Refused
    BY <1>2, <1>5 DEF WithFrame
  <2>3. TooLong(r) <=> ~ FrameReadable(s, 2)
    BY <1>1, <1>8, <2>1, WireAssumption DEF WireAssumption
  <2> QED BY <2>1, <2>2, <2>3 DEF r
<1>10. ASSUME NEW n \in 1 .. Len(s) - 1 PROVE ReadRequest(SubSeq(s, 1, n)) = Refused
  <2> DEFINE cut == SubSeq(s, 1, n)
  <2>1. s \in Seq(U8) /\ n \in 1 .. Len(s)
    BY <1>4, <1>5
  <2>2. cut # <<>> /\ cut[1] = tag
    BY <1>5, <2>1, PrefixKept
  <2>3. ~FrameReadable(cut, 2)
    <3>1. ~FrameReadable(cut, Len(<<tag>>) + 1)
      BY <1>1, <1>2, <1>3, CutFrameIsRefused
    <3> QED BY <1>7, <3>1
  <2> HIDE DEF cut
  <2>4. ReadRequest(cut) = Refused
    BY <1>2, <2>2, <2>3 DEF WithFrame
  <2> QED BY <2>4 DEF cut
<1>11. Len(s) \in Nat /\ Len(s) > 1
  BY <1>4, <1>5
<1> QED BY <1>5, <1>9, <1>10, <1>11 DEF s, r

\* A lease is read as it was written.
LEMMA LeaseRoundTrip ==
    LET r == [verb |-> "openHumanInput", lease |-> 1]
        s == WriteRequest(r)
    IN  /\ s \in Seq(U8) /\ Len(s) \in Nat /\ Len(s) > 1
        /\ ReadRequest(s) = r
        /\ \A n \in 1 .. Len(s) - 1 : ReadRequest(SubSeq(s, 1, n)) = Refused
<1> DEFINE r == [verb |-> "openHumanInput", lease |-> 1]
           d == Digits(1, 8)
           s == <<OpenHumanInputRequest>> \o d
<1>1. WriteRequest(r) = s
  BY DEF WriteRequest
<1>2. OpenHumanInputRequest \in U8 /\ <<OpenHumanInputRequest>> \in Seq(U8)
  BY TagsAreBytes DEF Tags
<1>3. 1 \in Nat /\ 1 <= 65535 /\ 8 \in Nat /\ 8 \in {2, 4, 8}
  OBVIOUS
<1>4. Fits(1, 8)
  BY <1>3, ShortFits
<1>5. d \in Seq(U8)
  BY <1>3, DigitsAreBytes
<1>6. Len(d) = 8 /\ Number(d) = 1
  <2>1. Len(d) = 8
    <3>1. 1 \in Nat /\ 8 \in Nat
      OBVIOUS
    <3> QED BY <3>1, DigitsAreBytes
  <2>2. Number(d) = 1
    BY <1>3, <1>4, NumberOfDigits
  <2> QED BY <2>1, <2>2
<1> HIDE DEF d
<1>7. s \in Seq(U8) /\ Len(s) = 1 + Len(d) /\ s # <<>> /\ s[1] = OpenHumanInputRequest
  BY <1>2, <1>5, BehindTag
<1>8. Field((<<OpenHumanInputRequest>> \o d) \o <<>>, Len(<<OpenHumanInputRequest>>) + 1, Len(d)) = d
  <2>1. <<>> \in Seq(U8)
    OBVIOUS
  <2> QED BY <1>2, <1>5, <2>1, FieldBetween
<1>9. s \in Seq(U8) /\ s \o <<>> = s
  BY <1>7, ConcatEmptySeq
<1>10. Len(<<OpenHumanInputRequest>>) + 1 = 2
  OBVIOUS
<1>13. Field(s, 2, 8) = d
  <2> HIDE DEF s
  <2>1. Field(s, 2, Len(d)) = d
    BY <1>8, <1>9, <1>10 DEF s
  <2> QED BY <1>6, <2>1
<1> HIDE DEF s
<1>14. ReadRequest(s) = r
  <2>1. ~Short(s, 2, 8)
    BY <1>6, <1>7 DEF Short
  <2> QED BY <1>6, <1>7, <1>13, <2>1, ReadByTag
<1>15. ASSUME NEW n \in 1 .. Len(s) - 1 PROVE ReadRequest(SubSeq(s, 1, n)) = Refused
  <2>1. s \in Seq(U8) /\ n \in 1 .. Len(s) /\ n < 9
    BY <1>6, <1>7
  <2> DEFINE cut == SubSeq(s, 1, n)
  <2>2. cut # <<>> /\ cut[1] = OpenHumanInputRequest /\ Len(cut) = n
    BY <1>7, <2>1, PrefixKept
  <2> HIDE DEF cut
  <2>3. Short(cut, 2, 8)
    BY <2>1, <2>2 DEF Short
  <2>4. ReadRequest(cut) = Refused
    BY <2>2, <2>3, ReadByTag
  <2> QED BY <2>4 DEF cut
<1>16. Len(s) \in Nat /\ Len(s) > 1
  BY <1>6, <1>7
<1> QED BY <1>1, <1>7, <1>14, <1>15, <1>16

\* A size is read as it was written.
LEMMA ResizeRoundTrip ==
    ASSUME NEW rows \in U16, NEW columns \in U16
    PROVE  LET r == [verb |-> "resize", rows |-> rows, columns |-> columns]
               s == WriteRequest(r)
           IN  /\ s \in Seq(U8) /\ Len(s) \in Nat /\ Len(s) > 1
               /\ ReadRequest(s) = r
               /\ \A n \in 1 .. Len(s) - 1 : ReadRequest(SubSeq(s, 1, n)) = Refused
<1> DEFINE r == [verb |-> "resize", rows |-> rows, columns |-> columns]
           tag == ResizeRequest
           a == Digits(rows, 2)
           b == Digits(columns, 2)
           s == (<<tag>> \o a) \o b
<1>1. WriteRequest(r) = s
  BY DEF WriteRequest
<1>2. tag \in U8 /\ <<tag>> \in Seq(U8)
  BY TagsAreBytes DEF Tags
<1>3. rows \in Nat /\ columns \in Nat /\ Fits(rows, 2) /\ Fits(columns, 2) /\ 2 \in Nat
  <2>1. rows \in Nat /\ rows <= 65535 /\ columns \in Nat /\ columns <= 65535
    BY U16Range
  <2>2. 2 \in Nat /\ 2 \in {2, 4, 8}
    OBVIOUS
  <2>3. Fits(rows, 2)
    BY <2>1, <2>2, ShortFits
  <2>4. Fits(columns, 2)
    BY <2>1, <2>2, ShortFits
  <2> QED BY <2>1, <2>2, <2>3, <2>4
<1>4. a \in Seq(U8) /\ b \in Seq(U8)
  BY <1>3, DigitsAreBytes
<1>5. Len(a) = 2 /\ Len(b) = 2
  BY <1>3, DigitsAreBytes
<1>6. Number(a) = rows
  BY <1>3, NumberOfDigits
<1>7. Number(b) = columns
  BY <1>3, NumberOfDigits
<1> HIDE DEF tag, a, b
<1>8. <<tag>> \o a \in Seq(U8) /\ Len(<<tag>> \o a) = Len(<<tag>>) + Len(a)
  BY <1>2, <1>4, ConcatProperties
<1>9. Len(<<tag>>) = 1
  OBVIOUS
<1>10. <<tag>> \o a \in Seq(U8)
  BY <1>8
<1>11. Len(<<tag>> \o a) = 3
  BY <1>5, <1>8, <1>9
<1>12. s \in Seq(U8) /\ Len(s) = Len(<<tag>> \o a) + Len(b)
  BY <1>4, <1>10, ConcatProperties
<1>13. s \in Seq(U8)
  BY <1>12
<1>14. Len(s) = 5
  BY <1>5, <1>11, <1>12
<1>15. Field(s, Len(<<tag>>) + 1, Len(a)) = a
  BY <1>2, <1>4, FieldBetween
<1>16. Field(s \o <<>>, Len(<<tag>> \o a) + 1, Len(b)) = b /\ s \o <<>> = s
  <2>1. <<>> \in Seq(U8)
    OBVIOUS
  <2>2. s \o <<>> = s
    BY <1>13, ConcatEmptySeq
  <2> QED BY <1>4, <1>10, <2>1, <2>2, FieldBetween
<1>20. s = <<tag>> \o (a \o b)
  BY <1>2, <1>4, ConcatAssociative
<1>21. a \o b \in Seq(U8)
  BY <1>4
<1>22. s # <<>> /\ s[1] = tag
  BY <1>2, <1>20, <1>21, BehindTag
<1> HIDE DEF s
<1>25. Field(s, 2, 2) = a /\ Field(s, 4, 2) = b
  <2>1. Field(s, 2, 2) = a
    BY <1>5, <1>9, <1>15 DEF s
  <2>2. Field(s, 4, 2) = b
    BY <1>5, <1>11, <1>16
  <2> QED BY <2>1, <2>2
<1>26. ReadRequest(s) = r
  <2>1. ~Short(s, 2, 4)
    BY <1>14 DEF Short
  <2> QED BY <1>6, <1>7, <1>22, <1>25, <2>1, ReadByTag DEF tag
<1>27. ASSUME NEW n \in 1 .. Len(s) - 1 PROVE ReadRequest(SubSeq(s, 1, n)) = Refused
  <2>1. n \in 1 .. Len(s) /\ n < 5
    BY <1>14
  <2> DEFINE cut == SubSeq(s, 1, n)
  <2>2. cut # <<>> /\ cut[1] = tag /\ Len(cut) = n
    BY <1>13, <1>22, <2>1, PrefixKept
  <2> HIDE DEF cut
  <2>3. Short(cut, 2, 4)
    BY <2>1, <2>2 DEF Short
  <2>4. ReadRequest(cut) = Refused
    BY <2>2, <2>3, ReadByTag DEF tag
  <2> QED BY <2>4 DEF cut
<1>28. Len(s) \in Nat /\ Len(s) > 1
  BY <1>14
<1> QED BY <1>1, <1>13, <1>26, <1>27, <1>28 DEF s

\* An archive is read behind its length.
LEMMA ArchiveIsRead ==
    ASSUME NEW x
    PROVE  LET s == Digits(1, 4) \o <<x>> IN
           /\ s \in Seq(U8 \union {x}) /\ Len(s) = 5 /\ s # <<>>
           /\ s[1] = 0 /\ s[5] = x
           /\ Number(Field(s, 1, 4)) = 1 /\ SignalReadable(s)
<1> DEFINE d == Digits(1, 4)
           s == d \o <<x>>
           E == U8 \union {x}
<1>2. 1 \in Nat /\ 4 \in Nat /\ Fits(1, 4)
  <2>1. 1 \in Nat /\ 1 <= 65535 /\ 4 \in Nat /\ 4 \in {2, 4, 8}
    OBVIOUS
  <2> QED BY <2>1, ShortFits
<1>3. U8 \subseteq E /\ <<x>> \in Seq(E) /\ <<>> \in Seq(E)
  OBVIOUS
<1>4. d \in Seq(U8) /\ Number(d) = 1
  BY <1>2, DigitsAreBytes, NumberOfDigits
<1>5. Len(d) = 4
  BY <1>2, DigitsAreBytes
<1>6. d[1] = 0
  <2> DEFINE z == Shifted(1, 4)
  <2>1. z[0] = 1 /\ \A k \in 1 .. 4 : z[k] = z[k - 1] \div 256
    BY <1>2, ShiftedUnfolds
  <2>2. d[1] = z[4 - 1] % 256
    BY DEF Digits
  <2> HIDE DEF z, d
  <2>3. z[1] = z[1 - 1] \div 256 /\ z[2] = z[2 - 1] \div 256 /\ z[3] = z[3 - 1] \div 256
    BY <2>1
  <2>4. z[1] = 0
    BY <2>1, <2>3
  <2>5. z[2] = 0
    BY <2>4, <2>3
  <2>6. z[3] = 0
    BY <2>5, <2>3
  <2> QED BY <2>2, <2>6
<1>7. d \in Seq(E)
  BY <1>3, <1>4, SeqMonotonic
<1> HIDE DEF d, E
<1>8. s \in Seq(E) /\ Len(s) = Len(d) + Len(<<x>>)
  BY <1>3, <1>7, ConcatProperties
<1>9. \A i \in 1 .. Len(d) + Len(<<x>>) : s[i] = IF i <= Len(d) THEN d[i] ELSE <<x>>[i - Len(d)]
  BY <1>3, <1>7, ConcatProperties
<1>10. Len(<<x>>) = 1 /\ <<x>>[1] = x
  OBVIOUS
<1>11. Len(s) = 5
  BY <1>5, <1>8, <1>10
<1>12. s[1] = 0 /\ s[5] = x
  <2>1. 1 \in 1 .. Len(d) + Len(<<x>>) /\ 5 \in 1 .. Len(d) + Len(<<x>>) /\ 1 <= Len(d) /\ ~(5 <= Len(d))
    BY <1>5, <1>10
  <2>2. s[1] = d[1] /\ s[5] = <<x>>[5 - Len(d)]
    BY <1>9, <2>1
  <2>3. s[1] = 0
    BY <1>6, <2>2
  <2>4. 5 - Len(d) = 1
    BY <1>5
  <2>5. s[5] = x
    BY <1>10, <2>2, <2>4
  <2> QED BY <2>3, <2>5
<1>13. Field(s, 1, 4) = d
  <2>1. Field((<<>> \o d) \o <<x>>, Len(<<>>) + 1, Len(d)) = d
    BY <1>3, <1>7, FieldBetween
  <2>2. <<>> \o d = d /\ Len(<<>>) + 1 = 1
    BY <1>7, ConcatEmptySeq
  <2> QED BY <1>5, <2>1, <2>2
<1>14. s \in Seq(E)
  BY <1>8
<1> HIDE DEF s
<1>15. SignalReadable(s)
  <2>1. ~Short(s, 1, 4) /\ ~Short(s, 5, 1)
    BY <1>11 DEF Short
  <2>2. 1 <= MaximumFrameLength
    BY WireAssumption DEF WireAssumption
  <2> QED BY <1>4, <1>13, <2>1, <2>2 DEF SignalReadable
<1>16. s # <<>>
  BY <1>11
<1>17. Number(Field(s, 1, 4)) = 1
  BY <1>4, <1>13
<1> QED BY <1>11, <1>12, <1>14, <1>15, <1>16, <1>17 DEF s, d, E

\* A Signal request is read as it was written.
LEMMA SignalRoundTrip ==
    ASSUME NEW q
    PROVE  LET r == [verb |-> "signal", query |-> q]
               s == WriteRequest(r)
           IN  /\ s # <<>> /\ Len(s) \in Nat /\ Len(s) > 1
               /\ ReadRequest(s) = r
               /\ \A n \in 1 .. Len(s) - 1 : ReadRequest(SubSeq(s, 1, n)) = Refused
<1> DEFINE r == [verb |-> "signal", query |-> q]
           d == Digits(1, 4)
           s == d \o <<q>>
           E == U8 \union {q}
<1>1. WriteRequest(r) = s
  <2>1. r.verb = "signal" /\ r.query = q /\ Len(Archive(q)) = 1
    BY DEF Archive
  <2> QED BY <2>1 DEF WriteRequest, Archive
<1>2. s \in Seq(E) /\ s[1] = 0 /\ s[5] = q /\ SignalReadable(s) /\ s # <<>>
  BY ArchiveIsRead
<1>3. Len(s) = 5
  BY ArchiveIsRead
<1>4. Number(Field(s, 1, 4)) = 1
  BY ArchiveIsRead
<1> HIDE DEF s
<1>6. ReadRequest(s) = r
  BY <1>2, ReadByTag DEF ReadSignalRequest
<1>7. s \in Seq(E)
  BY <1>2
<1>9. ASSUME NEW n \in 1 .. Len(s) - 1 PROVE ReadRequest(SubSeq(s, 1, n)) = Refused
  <2>1. n \in 1 .. Len(s) /\ n < 5
    BY <1>3
  <2> DEFINE cut == SubSeq(s, 1, n)
  <2>2. cut # <<>> /\ cut[1] = 0 /\ Len(cut) = n
        /\ (~Short(cut, 1, 4) => Field(cut, 1, 4) = Field(s, 1, 4))
    <3> HIDE DEF E
    <3>1. 1 \in Nat \ {0} /\ 4 \in Nat
      OBVIOUS
    <3> QED BY <1>2, <1>7, <2>1, <3>1, PrefixKept
  <2> HIDE DEF cut
  <2>3. Short(cut, 5, 1)
    BY <2>1, <2>2 DEF Short
  <2>4. ~SignalReadable(cut)
    BY <1>4, <2>2, <2>3 DEF SignalReadable
  <2>5. ReadRequest(cut) = Refused
    BY <2>2, <2>4, ReadByTag DEF ReadSignalRequest
  <2> QED BY <2>5 DEF cut
<1>10. Len(s) \in Nat /\ Len(s) > 1
  BY <1>3
<1> QED BY <1>1, <1>2, <1>6, <1>9, <1>10

\* The daemon's thread reads from the whole of a request the request itself,
\* unless its frame is above the limit: then it refuses it.
THEOREM RequestRoundTrip ==
    ASSUME NEW c, NEW r \in Request(c)
    PROVE  ReadRequest(WriteRequest(r)) = IF TooLong(r) THEN Refused ELSE r
<1>1. CASE \E v \in Plain : r = [verb |-> v]
  <2>1. PICK v \in Plain : r = [verb |-> v]
    BY <1>1
  <2>2. ReadRequest(WriteRequest(r)) = r
    BY <2>1, PlainIsRead
  <2>3. ~TooLong(r)
    BY <2>1 DEF TooLong
  <2> QED BY <2>2, <2>3
<1>2. CASE \E v \in Framed, b \in Payloads : r = [verb |-> v, bytes |-> b]
  BY <1>2, FramedRoundTrip
<1>3. CASE r = [verb |-> "openHumanInput", lease |-> 1]
  <2>1. ~TooLong(r)
    BY <1>3 DEF TooLong
  <2> QED BY <1>3, <2>1, LeaseRoundTrip
<1>4. CASE \E s \in Sizes : r = Resize(s)
  <2>1. PICK s \in Sizes : r = Resize(s)
    BY <1>4
  <2>2. s[1] \in U16 /\ s[2] \in U16
    BY SizesAreShort
  <2>3. r = [verb |-> "resize", rows |-> s[1], columns |-> s[2]]
    BY <2>1 DEF Resize
  <2>4. ~TooLong(r)
    BY <2>3 DEF TooLong
  <2>5. ReadRequest(WriteRequest(r)) = r
    BY <2>2, <2>3, ResizeRoundTrip
  <2> QED BY <2>4, <2>5
<1>5. CASE \E q \in Query : r = [verb |-> "signal", query |-> q]
  <2>1. PICK q \in Query : r = [verb |-> "signal", query |-> q]
    BY <1>5
  <2>2. ~TooLong(r)
    BY <2>1 DEF TooLong
  <2>3. ReadRequest(WriteRequest(r)) = r
    BY <2>1, SignalRoundTrip
  <2> QED BY <2>2, <2>3
<1> QED BY <1>1, <1>2, <1>3, <1>4, <1>5, RequestShapes

\* Of a request that the client did not write to the last byte, nothing is
\* handled, wherever it broke off.
THEOREM CutRequestIsRefused ==
    ASSUME NEW c, NEW r \in Request(c), NEW length \in 0 .. Len(WriteRequest(r)) - 1
    PROVE  ReadRequest(SubSeq(WriteRequest(r), 1, length)) = Refused
<1> DEFINE s == WriteRequest(r)
<1>1. ReadRequest(SubSeq(s, 1, 0)) = Refused
  <2> HIDE DEF s
  <2>1. SubSeq(s, 1, 0) = <<>>
    BY SubSeqEmpty
  <2> QED BY <2>1 DEF ReadRequest
<1>2. length = 0 \/ length \in 1 .. Len(s) - 1
  OBVIOUS
<1>3. SUFFICES \A n \in 1 .. Len(s) - 1 : ReadRequest(SubSeq(s, 1, n)) = Refused
  <2> HIDE DEF s
  <2>1. ReadRequest(SubSeq(s, 1, length)) = Refused
    BY <1>1, <1>2, <1>3
  <2> QED BY <2>1 DEF s
<1>4. CASE \E v \in Plain : r = [verb |-> v]
  <2>1. PICK tag : s = <<tag>>
    BY <1>4, PlainIsRead
  <2>2. 1 .. Len(s) - 1 = {}
    <3> HIDE DEF s
    <3> QED BY <2>1
  <2> QED BY <2>2
<1>5. CASE \E v \in Framed, b \in Payloads : r = [verb |-> v, bytes |-> b]
  BY <1>5, FramedRoundTrip
<1>6. CASE r = [verb |-> "openHumanInput", lease |-> 1]
  BY <1>6, LeaseRoundTrip
<1>7. CASE \E z \in Sizes : r = Resize(z)
  <2>1. PICK z \in Sizes : r = Resize(z)
    BY <1>7
  <2>2. z[1] \in U16 /\ z[2] \in U16
    BY SizesAreShort
  <2>3. r = [verb |-> "resize", rows |-> z[1], columns |-> z[2]]
    BY <2>1 DEF Resize
  <2> QED BY <2>2, <2>3, ResizeRoundTrip
<1>8. CASE \E q \in Query : r = [verb |-> "signal", query |-> q]
  BY <1>8, SignalRoundTrip
<1> QED BY <1>4, <1>5, <1>6, <1>7, <1>8, RequestShapes

-----------------------------------------------------------------------------
(* The invariant: what is known of a call at each of its stages.           *)

\* Where a call can be.
Stages == {"idle", "sent", "serving", "looking", "replied"}

\* k has the fields of a call.
IsCall(k) ==
    k = [stage |-> k.stage, request |-> k.request, stream |-> k.stream, since |-> k.since,
         arrived |-> k.arrived, pattern |-> k.pattern, effect |-> k.effect]

\* What a snapshot was, when the transcript is t now, at some moment of the call k.
MomentsOf(k, t) == {Window(SubSeq(t, 1, n)) : n \in k.since .. Len(t)}

\* The count is right for the pattern, or for none, on the snapshot m.
RightVerdict(pattern, count, m) ==
    IF pattern = NoPattern THEN count = Len(m) ELSE RightCount(pattern, count, m)

\* The event e tells what the call k of a Signal verb has done.
TrueEvent(k, e, t) ==
    LET q == k.request.query IN
    /\ q.query = "capture" => e.bytes \in MomentsOf(k, t)
    /\ q.query = "resize"  => k.effect = Resized(<<ToU16(q.rows), ToU16(q.columns)>>)
    /\ q.query = "input"   =>
          k.effect = Accepted("Programmatic", [i \in DOMAIN q.bytes |-> ToByte(q.bytes[i])])
    /\ e.event = "acquired" /\ e.prompt.state # "NotChecked" =>
          \E m \in MomentsOf(k, t) : RightVerdict(k.pattern, Trailing(e.prompt), m)

\* What is on the connection of an answered call, and what the call has done.
Answered(k, t) ==
    LET r == k.request IN
    /\ r.verb = "capture" => \E m \in MomentsOf(k, t) : k.stream = Frame(m)
    /\ r.verb = "resize"  => k.effect = Resized(<<r.rows, r.columns>>)
    /\ r.verb = "programmaticInput" => k.effect = Accepted("Programmatic", r.bytes)
    /\ r.verb = "viewerInput"       => k.effect = Accepted("Viewer", r.bytes)
    /\ r.verb = "signal" => k.stream = Digits(1, 4) \o <<k.stream[5]>> /\ TrueEvent(k, k.stream[5], t)

\* What is known of the call k of the client c when the transcript is t.
GoodCall(c, k, t) ==
    /\ IsCall(k)
    /\ k.stage \in Stages
    /\ k.since \in 0 .. Len(t)
    /\ k.pattern \in Patterns \union {NoPattern}
    /\ k.effect \in Effect
    /\ k.request = Idle.request \/ k.request \in Request(c)
    /\ k.stage = "sent" =>
          IF k.request = Idle.request THEN ReadRequest(k.stream) = Refused
                                      ELSE k.stream = WriteRequest(k.request)
    /\ k.stage = "serving" => k.request \in Request(c) /\ k.arrived = k.request /\ ~TooLong(k.request)
    /\ k.stage = "looking" =>
          k.request \in Request(c) /\ k.request.verb = "signal" /\ k.request.query.query = "acquire"
    /\ k.stage = "replied" => Answered(k, t)

\* Every call is one, and good.
CallsInv ==
    /\ call = [c \in Callers |-> call[c]]
    /\ \A c \in Callers : GoodCall(c, call[c], transcript)

\* The registry: what was given out has an identifier below the next one.
RegistryInv ==
    /\ nextPattern \in Nat \ {0}
    /\ \A g \in given : g.id \in 1 .. nextPattern - 1 /\ g.pattern \in Patterns
    /\ PatternsForLife

\* The cell's transcript and size, and the viewer.
CellInv ==
    /\ transcript \in Seq(U8)
    /\ size \in U16 \X U16
    /\ window \in Sizes
    /\ viewer = [stage |-> viewer.stage, registered |-> viewer.registered, last |-> viewer.last]
    /\ viewer.stage \in {"absent", "reading", "asking", "resting", "ended"}

\* Together these are inductive.
SocketInv == CallsInv /\ RegistryInv /\ CellInv

-----------------------------------------------------------------------------
(* Requests and calls by their fields.                                     *)

\* What the fields of a query are.
LEMMA QueryFields ==
    ASSUME NEW q \in Query
    PROVE  /\ q.query \in {"register", "unregister", "acquire", "resize", "input", "list", "capture", "fixed"}
           /\ q.query = "register" => q.pattern \in Patterns
           /\ q.query = "unregister" => q.id \in Nat
           /\ q.query = "acquire" => q.id \in Nat
           /\ q.query = "resize" => q.rows \in Int /\ q.columns \in Int
           /\ q.query = "input" => q.bytes \in Seq(Int)
<1>1. CASE q \in [query : {"register"}, pattern : Patterns]
  BY <1>1
<1>2. CASE q \in [query : {"unregister"}, id : Identifiers]
  <2>1. Identifiers \subseteq Nat
    BY ControlAssumption DEF ControlAssumption
  <2> QED BY <1>2, <2>1
<1>3. CASE q \in [query : {"acquire"}, id : Identifiers \union {0}]
  <2>1. Identifiers \subseteq Nat
    BY ControlAssumption DEF ControlAssumption
  <2>2. q.query = "acquire" /\ q.id \in Identifiers \union {0}
    BY <1>3
  <2>3. \A id \in Identifiers \union {0} : id \in Nat
    BY <2>1
  <2>4. q.id \in Nat
    BY <2>2, <2>3
  <2> QED BY <2>2, <2>4
<1>4. CASE q \in {[query |-> "resize", rows |-> s[1], columns |-> s[2]] : s \in SignalSizes}
  <2>1. PICK s \in SignalSizes : q = [query |-> "resize", rows |-> s[1], columns |-> s[2]]
    BY <1>4
  <2>2. s \in Int \X Int
    BY ControlAssumption DEF ControlAssumption
  <2> QED BY <2>1, <2>2
<1>5. CASE q \in [query : {"input"}, bytes : SignalInputs]
  <2>1. SignalInputs \subseteq Seq(Int)
    BY ControlAssumption DEF ControlAssumption
  <2> QED BY <1>5, <2>1
<1>6. CASE q \in [query : {"list", "capture", "fixed"}]
  BY <1>6
<1> QED BY <1>1, <1>2, <1>3, <1>4, <1>5, <1>6 DEF Query

\* What the fields of a request are.
LEMMA RequestFields ==
    ASSUME NEW c, NEW r \in Request(c)
    PROVE  /\ r.verb # "none" /\ r # Idle.request
           /\ r.verb = "resize" => r.rows \in U16 /\ r.columns \in U16
           /\ r.verb \in {"programmaticInput", "viewerInput"} => r.bytes \in Seq(U8)
           /\ r.verb = "signal" => r.query \in Query
           /\ c \in Controllers => r.verb = "signal"
<1>0. c \in Controllers => r.verb = "signal"
  BY DEF Request
<1>i. Idle.request = [verb |-> "none"]
  BY DEF Idle
<1>1. CASE \E v \in Plain : r = [verb |-> v]
  BY <1>0, <1>i, <1>1 DEF Plain
<1>2. CASE \E v \in Framed, b \in Payloads : r = [verb |-> v, bytes |-> b]
  <2>1. Payloads \subseteq {bytes \in Seq(U8) : Fits(Len(bytes), 8)}
    BY ControlAssumption DEF ControlAssumption
  <2>2. PICK v \in Framed, b \in Payloads : r = [verb |-> v, bytes |-> b]
    BY <1>2
  <2>3. b \in Seq(U8)
    BY <2>1
  <2> QED BY <1>0, <1>i, <2>2, <2>3 DEF Framed
<1>3. CASE r = [verb |-> "openHumanInput", lease |-> 1]
  BY <1>0, <1>i, <1>3
<1>4. CASE \E s \in Sizes : r = Resize(s)
  <2>1. PICK s \in Sizes : r = [verb |-> "resize", rows |-> s[1], columns |-> s[2]]
    BY <1>4 DEF Resize
  <2>2. s[1] \in U16 /\ s[2] \in U16
    BY SizesAreShort
  <2> QED BY <1>0, <1>i, <2>1, <2>2
<1>5. CASE \E q \in Query : r = [verb |-> "signal", query |-> q]
  BY <1>0, <1>i, <1>5
<1> QED BY <1>1, <1>2, <1>3, <1>4, <1>5, RequestShapes

\* The fields of no call.
LEMMA IdleFields ==
    /\ IsCall(Idle) /\ Idle.stage = "idle" /\ Idle.request = [verb |-> "none"] /\ Idle.stream = <<>>
    /\ Idle.since = 0 /\ Idle.arrived = [verb |-> "none"] /\ Idle.pattern = NoPattern /\ Idle.effect = NoEffect
BY DEF Idle, IsCall

\* A moment of a call stays one when the transcript grows.
LEMMA MomentsStay ==
    ASSUME NEW k, NEW t \in Seq(U8), NEW b \in Seq(U8), k.since \in 0 .. Len(t)
    PROVE  MomentsOf(k, t) \subseteq MomentsOf(k, t \o b)
<1>1. ASSUME NEW n \in k.since .. Len(t) PROVE Window(SubSeq(t, 1, n)) = Window(SubSeq(t \o b, 1, n))
  <2>1. n \in Nat /\ Len(t) \in Nat /\ n <= Len(t)
    BY LenProperties
  <2>2. CASE n = 0
    <3>1. n \in Int /\ n < 1 /\ 1 \in Int
      BY <2>2
    <3>2. SubSeq(t, 1, n) = SubSeq(t \o b, 1, n)
      BY <3>1, SubSeqEmpty
    <3> QED BY <3>2
  <2>3. CASE n > 0
    <3>1. n \in 1 .. Len(t) /\ 1 \in 1 .. Len(t)
      BY <2>1, <2>3
    <3>2. SubSeq(t, 1, n) = SubSeq(t \o b, 1, n)
      BY <3>1, SubSeqOfConcat1
    <3> QED BY <3>2
  <2> QED BY <2>1, <2>2, <2>3
<1>2. k.since .. Len(t) \subseteq k.since .. Len(t \o b)
  <2>1. Len(t \o b) = Len(t) + Len(b)
    BY ConcatProperties
  <2>2. Len(t) \in Nat /\ Len(b) \in Nat
    BY LenProperties
  <2> QED BY <2>1, <2>2
<1> QED BY <1>1, <1>2 DEF MomentsOf

\* What a snapshot is now is one of a moment of every call.
LEMMA NowIsMoment ==
    ASSUME NEW k, NEW t \in Seq(U8), k.since \in 0 .. Len(t)
    PROVE  Window(t) \in MomentsOf(k, t)
<1>1. Len(t) \in k.since .. Len(t)
  <2>1. Len(t) \in Nat
    BY LenProperties
  <2> QED BY <2>1
<1>2. SubSeq(t, 1, Len(t)) = t
  BY SubSeqFull
<1> QED BY <1>1, <1>2 DEF MomentsOf

\* What is known of a call stays true when the transcript grows.
LEMMA GoodCallStays ==
    ASSUME NEW c, NEW k, NEW t \in Seq(U8), NEW b \in Seq(U8), GoodCall(c, k, t)
    PROVE  GoodCall(c, k, t \o b)
<1>1. k.since \in 0 .. Len(t)
  BY DEF GoodCall
<1>2. MomentsOf(k, t) \subseteq MomentsOf(k, t \o b)
  BY <1>1, MomentsStay
<1>3. k.since \in 0 .. Len(t \o b)
  <2>1. Len(t \o b) = Len(t) + Len(b)
    BY ConcatProperties
  <2>2. Len(t) \in Nat /\ Len(b) \in Nat
    BY LenProperties
  <2> QED BY <1>1, <2>1, <2>2
<1>4. ASSUME NEW e, TrueEvent(k, e, t) PROVE TrueEvent(k, e, t \o b)
  BY <1>2, <1>4 DEF TrueEvent
<1>5. Answered(k, t) => Answered(k, t \o b)
  BY <1>2, <1>4 DEF Answered
<1> QED BY <1>3, <1>5 DEF GoodCall

-----------------------------------------------------------------------------
(* A step changes one call.                                                *)

\* k when its thread has answered it.
Done(k, stream, effect) ==
    [stage |-> "replied", request |-> k.request, stream |-> stream, since |-> k.since,
     arrived |-> [verb |-> "none"], pattern |-> k.pattern, effect |-> effect]

\* k when its connection is closed without a reply.
Closed == [Idle EXCEPT !.stage = "replied"]

\* If the new call is good and the transcript stays, all calls are.
LEMMA OneCallChanges ==
    ASSUME CallsInv, NEW c \in Callers, NEW k, GoodCall(c, k, transcript),
           call' = [call EXCEPT ![c] = k], transcript' = transcript
    PROVE  CallsInv'
<1>1. call = [d \in Callers |-> call[d]] /\ \A d \in Callers : GoodCall(d, call[d], transcript)
  BY DEF CallsInv
<1>2. call' = [d \in Callers |-> IF d = c THEN k ELSE call[d]]
  BY <1>1
<1>3. call' = [d \in Callers |-> call'[d]]
  BY <1>2
<1>4. ASSUME NEW d \in Callers PROVE GoodCall(d, call'[d], transcript')
  <2>1. call'[d] = IF d = c THEN k ELSE call[d]
    BY <1>2
  <2>2. CASE d = c
    <3>1. call'[d] = k
      BY <2>1, <2>2
    <3> QED BY <2>2, <3>1
  <2>3. CASE d # c
    <3>1. call'[d] = call[d]
      BY <2>1, <2>3
    <3> QED BY <1>1, <3>1
  <2> QED BY <2>2, <2>3
<1> QED BY <1>3, <1>4 DEF CallsInv

\* No call and a closed one are good.
LEMMA IdleIsGood ==
    ASSUME NEW c, NEW t \in Seq(U8)
    PROVE  GoodCall(c, Idle, t) /\ GoodCall(c, Closed, t)
<1>1. Len(t) \in Nat
  BY LenProperties
<1>2. NoEffect \in Effect
  BY DEF Effect
<1>3. 0 \in 0 .. Len(t)
  BY <1>1
<1>4. GoodCall(c, Idle, t)
  BY <1>2, <1>3, IdleFields DEF GoodCall, Stages
<1>5. /\ Closed.stage = "replied" /\ Closed.request = [verb |-> "none"] /\ Closed.stream = <<>>
      /\ Closed.since = 0 /\ Closed.arrived = [verb |-> "none"] /\ Closed.pattern = NoPattern
      /\ Closed.effect = NoEffect /\ IsCall(Closed)
  BY DEF Closed, Idle, IsCall
<1>6. Answered(Closed, t)
  BY <1>5 DEF Answered
<1>7. GoodCall(c, Closed, t)
  BY <1>2, <1>3, <1>5, <1>6, IdleFields DEF GoodCall, Stages
<1> QED BY <1>4, <1>7

\* The fields of a call that begins.
LEMMA NewFields ==
    ASSUME NEW r, NEW n, NEW w
    PROVE  [Idle EXCEPT !.stage = "sent", !.request = r, !.since = n, !.stream = w]
                 = [stage |-> "sent", request |-> r, stream |-> w, since |-> n,
                    arrived |-> [verb |-> "none"], pattern |-> NoPattern, effect |-> NoEffect]
<1> DEFINE a == [Idle EXCEPT !.stage = "sent"]
           b == [a EXCEPT !.request = r]
           c == [b EXCEPT !.since = n]
<1>1. a = [stage |-> "sent", request |-> [verb |-> "none"], stream |-> <<>>, since |-> 0,
           arrived |-> [verb |-> "none"], pattern |-> NoPattern, effect |-> NoEffect]
  BY DEF Idle
<1>2. [Idle EXCEPT !.stage = "sent", !.request = r, !.since = n, !.stream = w] = [c EXCEPT !.stream = w]
  OBVIOUS
<1> HIDE DEF a
<1>3. b = [stage |-> "sent", request |-> r, stream |-> <<>>, since |-> 0,
           arrived |-> [verb |-> "none"], pattern |-> NoPattern, effect |-> NoEffect]
  BY <1>1
<1> HIDE DEF b
<1>4. c = [stage |-> "sent", request |-> r, stream |-> <<>>, since |-> n,
           arrived |-> [verb |-> "none"], pattern |-> NoPattern, effect |-> NoEffect]
  BY <1>3
<1> HIDE DEF c
<1>5. [c EXCEPT !.stream = w]
         = [stage |-> "sent", request |-> r, stream |-> w, since |-> n,
            arrived |-> [verb |-> "none"], pattern |-> NoPattern, effect |-> NoEffect]
  BY <1>4
<1> QED BY <1>2, <1>5 DEF a, b, c

\* The fields of a call that breaks off.
LEMMA BrokenFields ==
    ASSUME NEW w
    PROVE  [Idle EXCEPT !.stage = "sent", !.stream = w]
                 = [stage |-> "sent", request |-> [verb |-> "none"], stream |-> w, since |-> 0,
                    arrived |-> [verb |-> "none"], pattern |-> NoPattern, effect |-> NoEffect]
<1> DEFINE a == [Idle EXCEPT !.stage = "sent"]
<1>1. a = [stage |-> "sent", request |-> [verb |-> "none"], stream |-> <<>>, since |-> 0,
           arrived |-> [verb |-> "none"], pattern |-> NoPattern, effect |-> NoEffect]
  BY DEF Idle
<1>2. [Idle EXCEPT !.stage = "sent", !.stream = w] = [a EXCEPT !.stream = w]
  OBVIOUS
<1> HIDE DEF a
<1>3. [a EXCEPT !.stream = w]
         = [stage |-> "sent", request |-> [verb |-> "none"], stream |-> w, since |-> 0,
            arrived |-> [verb |-> "none"], pattern |-> NoPattern, effect |-> NoEffect]
  BY <1>1
<1> QED BY <1>2, <1>3 DEF a

\* A call that a client makes is good, also when the client breaks off.
LEMMA SentIsGood ==
    ASSUME NEW c, NEW r \in Request(c), transcript \in Seq(U8)
    PROVE  /\ GoodCall(c, Sent(r), transcript)
           /\ \A length \in 0 .. Len(WriteRequest(r)) - 1 : GoodCall(c, Broken(r, length), transcript)
<1>1. Len(transcript) \in Nat
  BY LenProperties
<1>2. NoEffect \in Effect
  BY DEF Effect
<1>3. 0 \in 0 .. Len(transcript) /\ Len(transcript) \in 0 .. Len(transcript)
  BY <1>1
<1>4. r # Idle.request
  BY RequestFields
<1>5. /\ Sent(r).stage = "sent" /\ Sent(r).request = r /\ Sent(r).stream = WriteRequest(r)
      /\ Sent(r).since = Len(transcript) /\ Sent(r).arrived = [verb |-> "none"]
      /\ Sent(r).pattern = NoPattern /\ Sent(r).effect = NoEffect /\ IsCall(Sent(r))
  <2>1. Sent(r) = [stage |-> "sent", request |-> r, stream |-> WriteRequest(r), since |-> Len(transcript),
                   arrived |-> [verb |-> "none"], pattern |-> NoPattern, effect |-> NoEffect]
    BY NewFields DEF Sent
  <2> QED BY <2>1 DEF IsCall
<1>6. GoodCall(c, Sent(r), transcript)
  BY <1>2, <1>3, <1>4, <1>5 DEF GoodCall, Stages
<1>7. ASSUME NEW length \in 0 .. Len(WriteRequest(r)) - 1
      PROVE  GoodCall(c, Broken(r, length), transcript)
  <2> DEFINE k == Broken(r, length)
  <2>1. /\ k.stage = "sent" /\ k.request = [verb |-> "none"] /\ k.stream = SubSeq(WriteRequest(r), 1, length)
        /\ k.since = 0 /\ k.arrived = [verb |-> "none"]
        /\ k.pattern = NoPattern /\ k.effect = NoEffect /\ IsCall(k)
    <3>1. k = [stage |-> "sent", request |-> [verb |-> "none"], stream |-> SubSeq(WriteRequest(r), 1, length),
               since |-> 0, arrived |-> [verb |-> "none"], pattern |-> NoPattern, effect |-> NoEffect]
      BY BrokenFields DEF Broken
    <3> HIDE DEF k
    <3> QED BY <3>1 DEF IsCall
  <2> HIDE DEF k
  <2>2. ReadRequest(k.stream) = Refused
    BY <2>1, CutRequestIsRefused
  <2>3. GoodCall(c, k, transcript)
    BY <1>2, <1>3, <2>1, <2>2, IdleFields DEF GoodCall, Stages
  <2> QED BY <2>3 DEF k
<1> QED BY <1>6, <1>7

\* An answer is good that is one.
LEMMA DoneIsGood ==
    ASSUME NEW c, NEW k, NEW t, GoodCall(c, k, t), NEW stream, NEW effect \in Effect,
           Answered(Done(k, stream, effect), t)
    PROVE  GoodCall(c, Done(k, stream, effect), t)
<1> DEFINE d == Done(k, stream, effect)
<1>1. /\ d.stage = "replied" /\ d.request = k.request /\ d.stream = stream /\ d.since = k.since
      /\ d.arrived = [verb |-> "none"] /\ d.pattern = k.pattern /\ d.effect = effect /\ IsCall(d)
  BY DEF Done, IsCall
<1> HIDE DEF d
<1>2. Answered(d, t)
  BY DEF d
<1>3. GoodCall(c, d, t)
  BY <1>1, <1>2 DEF GoodCall, Stages
<1> QED BY <1>3 DEF d

\* What Reply and ReplyAfter leave of a call.
LEMMA RepliedIsDone ==
    ASSUME NEW c, IsCall(call[c]), NEW reply, NEW effect
    PROVE  /\ Replied(c, reply) = Done(call[c], WriteReply(reply), call[c].effect)
           /\ [Replied(c, reply) EXCEPT !.effect = effect] = Done(call[c], WriteReply(reply), effect)
<1> DEFINE k == call[c]
<1>1. k = [stage |-> k.stage, request |-> k.request, stream |-> k.stream, since |-> k.since,
           arrived |-> k.arrived, pattern |-> k.pattern, effect |-> k.effect]
  BY DEF IsCall
<1>2. Replied(c, reply) = [k EXCEPT !.stage = "replied", !.arrived = [verb |-> "none"], !.stream = WriteReply(reply)]
  BY IdleFields DEF Replied
<1> HIDE DEF k
<1>3. Replied(c, reply) = Done(k, WriteReply(reply), k.effect)
  BY <1>1, <1>2 DEF Done
<1>4. [Replied(c, reply) EXCEPT !.effect = effect] = Done(k, WriteReply(reply), effect)
  BY <1>3 DEF Done
<1> QED BY <1>3, <1>4 DEF k

\* The reply to a call that is answered as it should be leaves all calls good.
LEMMA ReplySteps ==
    ASSUME CallsInv, NEW c \in Callers, transcript' = transcript, NEW reply, NEW effect \in Effect,
           Answered(Done(call[c], WriteReply(reply), effect), transcript),
           \/ Reply(c, reply) /\ effect = call[c].effect
           \/ ReplyAfter(c, effect, reply)
    PROVE  CallsInv'
<1>1. GoodCall(c, call[c], transcript) /\ IsCall(call[c])
  BY DEF CallsInv, GoodCall
<1> DEFINE k == Done(call[c], WriteReply(reply), effect)
<1>2. GoodCall(c, k, transcript)
  BY <1>1, DoneIsGood
<1>3. call' = [call EXCEPT ![c] = k]
  <2>1. CASE Reply(c, reply) /\ effect = call[c].effect
    <3>1. Replied(c, reply) = k
      BY <1>1, <2>1, RepliedIsDone
    <3> HIDE DEF k
    <3> QED BY <2>1, <3>1 DEF Reply
  <2>2. CASE ReplyAfter(c, effect, reply)
    <3>1. [Replied(c, reply) EXCEPT !.effect = effect] = k
      BY <1>1, RepliedIsDone
    <3> HIDE DEF k
    <3> QED BY <2>2, <3>1 DEF ReplyAfter
  <2> QED BY <2>1, <2>2
<1> HIDE DEF k
<1> QED BY <1>2, <1>3, OneCallChanges

\* Closing a connection leaves all calls good.
LEMMA CloseSteps ==
    ASSUME CallsInv, transcript \in Seq(U8), NEW c \in Callers, transcript' = transcript, Close(c)
    PROVE  CallsInv'
<1>1. call' = [call EXCEPT ![c] = Closed]
  BY DEF Close, Closed
<1>2. GoodCall(c, Closed, transcript)
  BY IdleIsGood
<1> QED BY <1>1, <1>2, OneCallChanges

\* What the daemon's thread has read is what the client asked for.
LEMMA ServingFields ==
    ASSUME CallsInv, NEW c \in Callers, call[c].stage = "serving"
    PROVE  call[c].request \in Request(c) /\ Arrived(c) = call[c].request /\ GoodCall(c, call[c], transcript)
BY DEF CallsInv, GoodCall, Arrived

\* Only calls change.
LEMMA RestStays ==
    ASSUME RegistryInv, CellInv, UNCHANGED <<session, watcher>>
    PROVE  RegistryInv' /\ CellInv' /\ transcript' = transcript
<1>1. /\ transcript' = transcript /\ size' = size /\ patterns' = patterns /\ nextPattern' = nextPattern
      /\ given' = given /\ window' = window /\ viewer' = viewer
  BY DEF session, registry, watcher
<1> QED BY <1>1 DEF RegistryInv, CellInv, PatternsForLife

\* The fields of an answered call.
LEMMA DoneFields ==
    ASSUME NEW k, NEW stream, NEW effect
    PROVE  LET d == Done(k, stream, effect) IN
           /\ d.stage = "replied" /\ d.request = k.request /\ d.stream = stream /\ d.since = k.since
           /\ d.pattern = k.pattern /\ d.effect = effect
BY DEF Done

\* What is on the connection when the reply to a Signal request is written.
LEMMA EventReply ==
    ASSUME NEW e
    PROVE  LET s == WriteReply([kind |-> "event", event |-> e]) IN s = Digits(1, 4) \o <<s[5]>> /\ s[5] = e
<1> DEFINE s == Digits(1, 4) \o <<e>>
<1>1. Len(Archive(e)) = 1 /\ Archive(e) = <<e>>
  BY DEF Archive
<1>2. WriteReply([kind |-> "event", event |-> e]) = s
  <2> DEFINE reply == [kind |-> "event", event |-> e]
  <2>1. reply.kind = "event" /\ reply.event = e
    OBVIOUS
  <2> HIDE DEF reply
  <2>2. WriteReply(reply) = Digits(Len(Archive(e)), 4) \o Archive(e)
    BY <2>1 DEF WriteReply
  <2> QED BY <1>1, <2>2 DEF reply
<1>3. s[5] = e
  BY ArchiveIsRead
<1> HIDE DEF s
<1>4. s = Digits(1, 4) \o <<s[5]>>
  BY <1>3 DEF s
<1> QED BY <1>2, <1>3, <1>4

\* A true event as the reply to a Signal request leaves all calls good.
LEMMA AnswerSteps ==
    ASSUME CallsInv, NEW c \in Callers, transcript' = transcript, NEW e, NEW effect \in Effect,
           call[c].request.verb = "signal",
           TrueEvent(Done(call[c], WriteReply([kind |-> "event", event |-> e]), effect), e, transcript),
           \/ Answer(c, e) /\ effect = call[c].effect
           \/ ReplyAfter(c, effect, [kind |-> "event", event |-> e])
    PROVE  CallsInv'
<1> DEFINE reply == [kind |-> "event", event |-> e]
           w == WriteReply(reply)
           k == Done(call[c], w, effect)
<1>1. w = Digits(1, 4) \o <<w[5]>> /\ w[5] = e
  BY EventReply
<1>2. k.stream = w /\ k.request = call[c].request
  BY DoneFields
<1>3. TrueEvent(k, e, transcript)
  OBVIOUS
<1>4. \/ Reply(c, reply) /\ effect = call[c].effect
      \/ ReplyAfter(c, effect, reply)
  BY DEF Answer
<1> HIDE DEF reply, w
<1>5. Answered(k, transcript)
  <2> HIDE DEF k
  <2> QED BY <1>1, <1>2, <1>3 DEF Answered
<1>6. Answered(Done(call[c], WriteReply(reply), effect), transcript)
  BY <1>5 DEF w
<1> QED BY <1>4, <1>6, ReplySteps

\* Receive: what is read is what was written, or nothing is handled.
LEMMA ReceiveSteps ==
    ASSUME CallsInv, transcript \in Seq(U8), NEW c \in Callers, Receive(c), transcript' = transcript
    PROVE  CallsInv'
<1> DEFINE k == call[c]
           r == ReadRequest(k.stream)
<1>1. k.stage = "sent" /\ GoodCall(c, k, transcript)
  BY DEF Receive, CallsInv
<1>2. CASE r = Refused
  <2>1. Close(c)
    BY <1>2 DEF Receive
  <2> QED BY <2>1, CloseSteps
<1>3. CASE r # Refused
  <2>1. k.request \in Request(c) /\ k.stream = WriteRequest(k.request)
    BY <1>1, <1>3 DEF GoodCall
  <2>2. ReadRequest(WriteRequest(k.request)) = IF TooLong(k.request) THEN Refused ELSE k.request
    BY <2>1, RequestRoundTrip
  <2>3. r = k.request /\ ~TooLong(k.request)
    BY <1>3, <2>1, <2>2
  <2> DEFINE n == [k EXCEPT !.stage = "serving", !.stream = <<>>, !.arrived = r]
  <2>4. call' = [call EXCEPT ![c] = n]
    BY <1>3 DEF Receive
  <2> HIDE DEF r
  <2>5. IsCall(k)
    BY <1>1 DEF GoodCall
  <2>6. k = [stage |-> k.stage, request |-> k.request, stream |-> k.stream, since |-> k.since,
             arrived |-> k.arrived, pattern |-> k.pattern, effect |-> k.effect]
    BY <2>5 DEF IsCall
  <2> DEFINE m == [k EXCEPT !.stage = "serving"]
             o == [m EXCEPT !.stream = <<>>]
  <2>n. n = [o EXCEPT !.arrived = r]
    OBVIOUS
  <2> HIDE DEF k, n
  <2>m. m = [stage |-> "serving", request |-> k.request, stream |-> k.stream, since |-> k.since,
             arrived |-> k.arrived, pattern |-> k.pattern, effect |-> k.effect]
    BY <2>6
  <2> HIDE DEF m
  <2>o. o = [stage |-> "serving", request |-> k.request, stream |-> <<>>, since |-> k.since,
             arrived |-> k.arrived, pattern |-> k.pattern, effect |-> k.effect]
    BY <2>m
  <2> HIDE DEF o
  <2>7. n = [stage |-> "serving", request |-> k.request, stream |-> <<>>, since |-> k.since,
             arrived |-> r, pattern |-> k.pattern, effect |-> k.effect]
    BY <2>n, <2>o
  <2>8. /\ n.stage = "serving" /\ n.request = k.request /\ n.since = k.since /\ n.arrived = r
        /\ n.pattern = k.pattern /\ n.effect = k.effect /\ IsCall(n)
    BY <2>7 DEF IsCall
  <2>9. GoodCall(c, n, transcript)
    BY <1>1, <2>1, <2>3, <2>8 DEF GoodCall, Stages
  <2> QED BY <2>4, <2>9, OneCallChanges
<1> QED BY <1>2, <1>3

\* The reply to a call whose verb AnswersTrue says nothing about leaves all calls good.
LEMMA OtherReplySteps ==
    ASSUME CallsInv, NEW c \in Callers, transcript' = transcript, NEW reply, Reply(c, reply),
           call[c].request.verb \notin {"capture", "resize", "programmaticInput", "viewerInput", "signal"}
    PROVE  CallsInv'
<1> DEFINE k == Done(call[c], WriteReply(reply), call[c].effect)
<1>1. k.request = call[c].request
  BY DoneFields
<1>2. Answered(k, transcript)
  <2> HIDE DEF k
  <2> QED BY <1>1 DEF Answered
<1>3. call[c].effect \in Effect
  BY DEF CallsInv, GoodCall
<1> QED BY <1>2, <1>3, ReplySteps

\* WriteSnapshot: the reply holds what the actor keeps now.
LEMMA WriteSnapshotSteps ==
    ASSUME CallsInv, transcript \in Seq(U8), NEW c \in Callers, WriteSnapshot(c), transcript' = transcript
    PROVE  CallsInv'
<1> DEFINE reply == [kind |-> "frame", bytes |-> Snapshot]
           k == Done(call[c], WriteReply(reply), call[c].effect)
<1>1. call[c].stage = "serving" /\ Arrived(c).verb = "capture" /\ Reply(c, reply)
  BY DEF WriteSnapshot, Serving
<1>2. call[c].request.verb = "capture" /\ call[c].effect \in Effect /\ call[c].since \in 0 .. Len(transcript)
  BY <1>1, ServingFields DEF GoodCall
<1>3. WriteReply(reply) = Frame(Snapshot)
  <2>1. reply.kind = "frame" /\ reply.bytes = Snapshot
    OBVIOUS
  <2> HIDE DEF reply
  <2> QED BY <2>1 DEF WriteReply
<1>4. k.request = call[c].request /\ k.stream = Frame(Snapshot) /\ k.since = call[c].since
  BY <1>3, DoneFields
<1> HIDE DEF reply
<1>5. Answered(k, transcript)
  <2> HIDE DEF k
  <2>1. Snapshot \in MomentsOf(k, transcript)
    BY <1>2, <1>4, NowIsMoment DEF Snapshot
  <2> QED BY <1>2, <1>4, <2>1 DEF Answered
<1> QED BY <1>1, <1>2, <1>5, ReplySteps

\* WriteInput: the call has handed the bytes of its request to the input port.
LEMMA WriteInputSteps ==
    ASSUME CallsInv, NEW c \in Callers, WriteInput(c), transcript' = transcript
    PROVE  CallsInv'
<1> DEFINE reply == [kind |-> "acceptance"]
<1>1. PICK source \in {"Programmatic", "Viewer"} :
         /\ Serving(c, IF source = "Viewer" THEN "viewerInput" ELSE "programmaticInput")
         /\ ReplyAfter(c, Accepted(source, Arrived(c).bytes), reply)
  BY DEF WriteInput
<1>2. /\ call[c].stage = "serving"
      /\ Arrived(c).verb = IF source = "Viewer" THEN "viewerInput" ELSE "programmaticInput"
  BY <1>1 DEF Serving
<1>3. Arrived(c) = call[c].request /\ call[c].request \in Request(c)
  BY <1>2, ServingFields
<1> DEFINE r == call[c].request
           effect == Accepted(source, r.bytes)
           k == Done(call[c], WriteReply(reply), effect)
<1>4. r.verb = (IF source = "Viewer" THEN "viewerInput" ELSE "programmaticInput") /\ r.bytes \in Seq(U8)
  <2>1. r.verb = IF source = "Viewer" THEN "viewerInput" ELSE "programmaticInput"
    BY <1>2, <1>3
  <2>2. r.verb \in {"programmaticInput", "viewerInput"}
    BY <2>1
  <2>3. r.bytes \in Seq(U8)
    BY <1>3, <2>2, RequestFields
  <2> QED BY <2>1, <2>3
<1>5. effect \in Effect
  <2> HIDE DEF r
  <2> QED BY <1>4 DEF Accepted, Effect
<1>6. k.request = r /\ k.effect = effect
  BY DoneFields
<1>7. ReplyAfter(c, effect, reply)
  BY <1>1, <1>3
<1> HIDE DEF reply
<1>8. Answered(k, transcript)
  <2> HIDE DEF k, r
  <2>1. source = "Viewer" \/ source = "Programmatic"
    OBVIOUS
  <2>2. CASE source = "Viewer"
    BY <1>4, <1>6, <2>2 DEF Answered
  <2>3. CASE source = "Programmatic"
    BY <1>4, <1>6, <2>3 DEF Answered
  <2> QED BY <2>1, <2>2, <2>3
<1> HIDE DEF effect
<1> QED BY <1>5, <1>7, <1>8, ReplySteps

\* WriteResize: the call has set the size of its request.
LEMMA WriteResizeSteps ==
    ASSUME CallsInv, NEW c \in Callers, WriteResize(c), transcript' = transcript
    PROVE  CallsInv' /\ size' \in U16 \X U16
<1> DEFINE reply == [kind |-> "acceptance"]
           r == call[c].request
           effect == Resized(<<r.rows, r.columns>>)
           k == Done(call[c], WriteReply(reply), effect)
<1>1. call[c].stage = "serving" /\ Arrived(c).verb = "resize"
  BY DEF WriteResize, Serving
<1>2. Arrived(c) = r /\ r \in Request(c)
  BY <1>1, ServingFields
<1>3. r.verb = "resize" /\ r.rows \in U16 /\ r.columns \in U16
  BY <1>1, <1>2, RequestFields
<1>4. size' = <<r.rows, r.columns>> /\ ReplyAfter(c, effect, reply)
  BY <1>2 DEF WriteResize
<1>5. effect \in Effect
  <2> HIDE DEF r
  <2> QED BY <1>3 DEF Resized, Effect
<1>6. k.request = r /\ k.effect = effect
  BY DoneFields
<1> HIDE DEF reply
<1>7. Answered(k, transcript)
  <2> HIDE DEF k, r
  <2> QED BY <1>3, <1>6 DEF Answered
<1>8. CallsInv'
  <2> HIDE DEF effect
  <2> QED BY <1>4, <1>5, <1>7, ReplySteps
<1> HIDE DEF r
<1> QED BY <1>3, <1>4, <1>8

\* RejectAttach and the answers of the other modules.
LEMMA ElsewhereSteps ==
    ASSUME CallsInv, transcript \in Seq(U8), NEW c \in Callers, RejectAttach(c) \/ AnsweredElsewhere(c),
           transcript' = transcript
    PROVE  CallsInv'
<1>1. CASE \E verb \in Others : \E reply : Serving(c, verb) /\ Reply(c, reply)
  <2>0. PICK verb \in Others : \E reply : Serving(c, verb) /\ Reply(c, reply)
    BY <1>1
  <2>1. PICK reply : Serving(c, verb) /\ Reply(c, reply)
    BY <2>0
  <2>2. call[c].request.verb = verb
    BY <2>1, ServingFields DEF Serving
  <2>3. verb \notin {"capture", "resize", "programmaticInput", "viewerInput", "signal"}
    BY DEF Others
  <2> QED BY <2>1, <2>2, <2>3, OtherReplySteps
<1>2. CASE Close(c)
  BY <1>2, CloseSteps
<1> QED BY <1>1, <1>2 DEF RejectAttach, AnsweredElsewhere, Others

\* The thread of a Signal request and its query.
LEMMA AskingFields ==
    ASSUME CallsInv, NEW c \in Callers, NEW query, Asking(c, query)
    PROVE  /\ call[c].request.verb = "signal" /\ call[c].request \in Request(c)
           /\ call[c].request.query \in Query /\ call[c].request.query.query = query
           /\ Arrived(c) = call[c].request /\ GoodCall(c, call[c], transcript)
           /\ call[c].effect \in Effect /\ call[c].since \in 0 .. Len(transcript)
<1>1. call[c].stage = "serving" /\ Arrived(c).verb = "signal" /\ Arrived(c).query.query = query
  BY DEF Asking, Serving
<1>2. call[c].request \in Request(c) /\ Arrived(c) = call[c].request /\ GoodCall(c, call[c], transcript)
  BY <1>1, ServingFields
<1>3. call[c].request.query \in Query
  BY <1>1, <1>2, RequestFields
<1> QED BY <1>1, <1>2, <1>3 DEF GoodCall

\* `as` keeps what fits.
LEMMA CutToWidth == \A n \in Int : ToByte(n) \in U8 /\ ToU16(n) \in U16
<1> TAKE n \in Int
<1>1. ToByte(n) \in U8
  BY DEF ToByte, U8
<1>2. ToU16(n) \in U16
  <2>1. n % 65536 \in Nat /\ n % 65536 <= 65535
    OBVIOUS
  <2> QED BY <2>1, U16Range DEF ToU16
<1> QED BY <1>1, <1>2

\* SignalInput: the call has handed the low bytes of its request to the input port.
LEMMA SignalInputSteps ==
    ASSUME CallsInv, NEW c \in Callers, SignalInput(c), transcript' = transcript
    PROVE  CallsInv'
<1> DEFINE q == call[c].request.query
           bytes == q.bytes
           low == [i \in DOMAIN bytes |-> ToByte(bytes[i])]
           effect == Accepted("Programmatic", low)
           e == [event |-> "inputAccepted"]
           reply == [kind |-> "event", event |-> e]
           k == Done(call[c], WriteReply(reply), effect)
<1>1. Asking(c, "input")
  BY DEF SignalInput
<1>2. /\ call[c].request.verb = "signal" /\ q \in Query /\ q.query = "input"
      /\ Arrived(c) = call[c].request
  BY <1>1, AskingFields
<1>3. bytes \in Seq(Int)
  <2> HIDE DEF q
  <2> QED BY <1>2, QueryFields
<1>4. low \in Seq(U8)
  <2> HIDE DEF q
  <2>1. \A i \in 1 .. Len(bytes) : bytes[i] \in Int
    BY <1>3
  <2>2. \A i \in 1 .. Len(bytes) : ToByte(bytes[i]) \in U8
    BY <2>1, CutToWidth
  <2>3. DOMAIN bytes = 1 .. Len(bytes) /\ Len(bytes) \in Nat
    BY <1>3
  <2> HIDE DEF bytes
  <2>4. low = [i \in 1 .. Len(bytes) |-> ToByte(bytes[i])]
    BY <2>3
  <2> QED BY <2>2, <2>3, <2>4
<1>5. ReplyAfter(c, effect, reply)
  BY <1>2 DEF SignalInput
<1>6. effect \in Effect
  <2> HIDE DEF low
  <2> QED BY <1>4 DEF Accepted, Effect
<1>7. k.request.query = q /\ k.effect = effect
  BY DoneFields
<1>8. TrueEvent(k, e, transcript)
  <2>1. e.event # "acquired"
    OBVIOUS
  <2>2. k.effect = Accepted("Programmatic", [i \in DOMAIN k.request.query.bytes |-> ToByte(k.request.query.bytes[i])])
    BY <1>7
  <2>3. k.request.query.query = "input"
    BY <1>2, <1>7
  <2> HIDE DEF k, e
  <2> QED BY <2>1, <2>2, <2>3 DEF TrueEvent
<1> HIDE DEF effect, e
<1> QED BY <1>2, <1>5, <1>6, <1>8, AnswerSteps

\* SignalResize: the call has set the low 16 bits of the numbers of its request.
LEMMA SignalResizeSteps ==
    ASSUME CallsInv, NEW c \in Callers, SignalResize(c), transcript' = transcript
    PROVE  CallsInv' /\ size' \in U16 \X U16
<1> DEFINE q == call[c].request.query
           s == <<ToU16(q.rows), ToU16(q.columns)>>
           effect == Resized(s)
           e == [event |-> "resized", rows |-> q.rows, columns |-> q.columns]
           reply == [kind |-> "event", event |-> e]
           k == Done(call[c], WriteReply(reply), effect)
<1>1. Asking(c, "resize")
  BY DEF SignalResize
<1>2. /\ call[c].request.verb = "signal" /\ q \in Query /\ q.query = "resize"
      /\ Arrived(c) = call[c].request
  BY <1>1, AskingFields
<1>3. q.rows \in Int /\ q.columns \in Int
  <2> HIDE DEF q
  <2> QED BY <1>2, QueryFields
<1>4. s \in U16 \X U16
  <2> HIDE DEF q
  <2> QED BY <1>3, CutToWidth
<1>5. size' = s /\ ReplyAfter(c, effect, reply)
  BY <1>2 DEF SignalResize
<1>6. effect \in Effect
  <2> HIDE DEF s
  <2> QED BY <1>4 DEF Resized, Effect
<1>7. k.request.query = q /\ k.effect = effect
  BY DoneFields
<1>8. TrueEvent(k, e, transcript)
  <2>1. e.event # "acquired"
    OBVIOUS
  <2>2. k.effect = Resized(<<ToU16(k.request.query.rows), ToU16(k.request.query.columns)>>)
    BY <1>7
  <2>3. k.request.query.query = "resize"
    BY <1>2, <1>7
  <2> HIDE DEF k, e
  <2> QED BY <2>1, <2>2, <2>3 DEF TrueEvent
<1>9. CallsInv'
  <2> HIDE DEF effect, e
  <2> QED BY <1>2, <1>5, <1>6, <1>8, AnswerSteps
<1> HIDE DEF s
<1> QED BY <1>4, <1>5, <1>9

\* SignalCapture: the event holds what the actor keeps now.
LEMMA SignalCaptureSteps ==
    ASSUME CallsInv, transcript \in Seq(U8), NEW c \in Callers, SignalCapture(c), transcript' = transcript
    PROVE  CallsInv'
<1> DEFINE q == call[c].request.query
           e == [event |-> "captured", bytes |-> Snapshot]
           k == Done(call[c], WriteReply([kind |-> "event", event |-> e]), call[c].effect)
<1>1. Asking(c, "capture") /\ Answer(c, e)
  BY DEF SignalCapture
<1>2. /\ call[c].request.verb = "signal" /\ q.query = "capture" /\ call[c].effect \in Effect
      /\ call[c].since \in 0 .. Len(transcript)
  BY <1>1, AskingFields
<1>3. k.request.query = q /\ k.since = call[c].since
  BY DoneFields
<1>4. TrueEvent(k, e, transcript)
  <2>1. e.event # "acquired" /\ e.bytes = Snapshot
    OBVIOUS
  <2> HIDE DEF k, e
  <2>2. Snapshot \in MomentsOf(k, transcript)
    BY <1>2, <1>3, NowIsMoment DEF Snapshot
  <2>3. k.request.query.query = "capture"
    BY <1>2, <1>3
  <2> QED BY <2>1, <2>2, <2>3 DEF TrueEvent
<1> HIDE DEF e
<1> QED BY <1>1, <1>2, <1>4, AnswerSteps

\* Answers to queries about which AnswersTrue says nothing.
LEMMA OtherAnswerSteps ==
    ASSUME CallsInv, NEW c \in Callers, transcript' = transcript, NEW e, Answer(c, e),
           call[c].request.verb = "signal", call[c].request.query.query \notin {"capture", "resize", "input"},
           e.event = "acquired" /\ e.prompt.state # "NotChecked" =>
              \E m \in MomentsOf(call[c], transcript) : RightVerdict(call[c].pattern, Trailing(e.prompt), m)
    PROVE  CallsInv'
<1> DEFINE k == Done(call[c], WriteReply([kind |-> "event", event |-> e]), call[c].effect)
<1>1. k.request = call[c].request /\ k.since = call[c].since /\ k.pattern = call[c].pattern
  BY DoneFields
<1>2. MomentsOf(k, transcript) = MomentsOf(call[c], transcript)
  <2> HIDE DEF k
  <2> QED BY <1>1 DEF MomentsOf
<1>3. TrueEvent(k, e, transcript)
  <2> HIDE DEF k
  <2> QED BY <1>1, <1>2 DEF TrueEvent
<1>4. call[c].effect \in Effect
  BY DEF CallsInv, GoodCall
<1> QED BY <1>3, <1>4, AnswerSteps

\* The gate is taken, is held by another, or cannot be reached.
LEMMA CloseGateSteps ==
    ASSUME CallsInv, transcript \in Seq(U8), NEW c \in Callers, transcript' = transcript, NEW prompt,
           CloseGate(c, prompt), call[c].request.verb = "signal", call[c].request.query.query = "acquire",
           prompt.state # "NotChecked" =>
              \E m \in MomentsOf(call[c], transcript) : RightVerdict(call[c].pattern, Trailing(prompt), m)
    PROVE  CallsInv'
<1>1. CASE Answer(c, [event |-> "acquired", prompt |-> prompt])
  <2> DEFINE e == [event |-> "acquired", prompt |-> prompt]
  <2>1. e.prompt = prompt
    OBVIOUS
  <2> HIDE DEF e
  <2> QED BY <1>1, <2>1, OtherAnswerSteps DEF e
<1>2. CASE Answer(c, [event |-> "busy"])
  <2> DEFINE e == [event |-> "busy"]
  <2>1. e.event # "acquired"
    OBVIOUS
  <2> HIDE DEF e
  <2> QED BY <1>2, <2>1, OtherAnswerSteps DEF e
<1>3. CASE Close(c)
  BY <1>3, CloseSteps
<1> QED BY <1>1, <1>2, <1>3 DEF CloseGate

\* SignalFixed and ListPromptPatterns change nothing but the call.
LEMMA FixedAndListSteps ==
    ASSUME CallsInv, NEW c \in Callers, SignalFixed(c) \/ ListPromptPatterns(c), transcript' = transcript
    PROVE  CallsInv'
<1>0. PICK query \in {"fixed", "list"} : \E e : Asking(c, query) /\ Answer(c, e) /\ e.event # "acquired"
  <2>1. CASE SignalFixed(c)
    <3> DEFINE e == [event |-> "fixed"]
    <3>1. e.event # "acquired"
      OBVIOUS
    <3>2. Asking(c, "fixed") /\ Answer(c, e)
      BY <2>1 DEF SignalFixed
    <3> QED BY <3>1, <3>2
  <2>2. CASE ListPromptPatterns(c)
    <3> DEFINE e == [event |-> "patterns", entries |-> patterns]
    <3>1. e.event # "acquired"
      OBVIOUS
    <3>2. Asking(c, "list") /\ Answer(c, e)
      BY <2>2 DEF ListPromptPatterns
    <3> QED BY <3>1, <3>2
  <2> QED BY <2>1, <2>2
<1>1. PICK e : Asking(c, query) /\ Answer(c, e) /\ e.event # "acquired"
  BY <1>0
<1>2. call[c].request.verb = "signal" /\ call[c].request.query.query = query
  BY <1>1, AskingFields
<1> QED BY <1>1, <1>2, OtherAnswerSteps

\* RegisterPromptPattern: the identifier has not been given out before.
LEMMA RegisterSteps ==
    ASSUME CallsInv, RegistryInv, NEW c \in Callers, RegisterPromptPattern(c), transcript' = transcript
    PROVE  CallsInv' /\ RegistryInv'
<1> DEFINE pattern == call[c].request.query.pattern
           e == [event |-> "registered", id |-> nextPattern]
           new == [id |-> nextPattern, pattern |-> pattern]
<1>1. Asking(c, "register")
  BY DEF RegisterPromptPattern
<1>2. /\ call[c].request.verb = "signal" /\ call[c].request.query \in Query
      /\ call[c].request.query.query = "register" /\ Arrived(c) = call[c].request
  BY <1>1, AskingFields
<1>3. pattern \in Patterns
  BY <1>2, QueryFields
<1>4. /\ Answer(c, e)
      /\ patterns' = [i \in DOMAIN patterns \union {nextPattern} |-> IF i = nextPattern THEN pattern ELSE patterns[i]]
      /\ given' = given \union {new}
      /\ nextPattern' = nextPattern + 1
  BY <1>2 DEF RegisterPromptPattern, Registered
<1>5. CallsInv'
  <2>1. e.event # "acquired"
    OBVIOUS
  <2> HIDE DEF e
  <2> QED BY <1>2, <1>4, <2>1, OtherAnswerSteps
<1> HIDE DEF pattern, e
<1>6. new.id = nextPattern /\ new.pattern = pattern
  OBVIOUS
<1>7. /\ nextPattern \in Nat \ {0}
      /\ \A g \in given : g.id \in 1 .. nextPattern - 1 /\ g.pattern \in Patterns
      /\ \A g, h \in given : g.id = h.id => g.pattern = h.pattern
      /\ \A id \in DOMAIN patterns : [id |-> id, pattern |-> patterns[id]] \in given
  BY DEF RegistryInv, PatternsForLife
<1>8. nextPattern' \in Nat \ {0}
  BY <1>4, <1>7
<1>9. ASSUME NEW g \in given' PROVE g.id \in 1 .. nextPattern' - 1 /\ g.pattern \in Patterns
  <2> HIDE DEF new
  <2>1. CASE g = new
    BY <1>3, <1>4, <1>6, <1>7, <2>1
  <2>2. CASE g \in given
    BY <1>4, <1>7, <2>2
  <2> QED BY <1>4, <2>1, <2>2
<1>10. ASSUME NEW g \in given', NEW h \in given', g.id = h.id PROVE g.pattern = h.pattern
  <2> HIDE DEF new
  <2>1. \A f \in given : f.id # nextPattern
    BY <1>7
  <2>2. g = new <=> h = new
    BY <1>4, <1>6, <1>10, <2>1
  <2> QED BY <1>4, <1>7, <1>10, <2>2
<1>11. ASSUME NEW id \in DOMAIN patterns' PROVE [id |-> id, pattern |-> patterns'[id]] \in given'
  <2>1. CASE id = nextPattern
    <3>1. patterns'[id] = pattern
      BY <1>4, <2>1
    <3> QED BY <1>4, <2>1, <3>1
  <2>2. CASE id # nextPattern
    <3>1. id \in DOMAIN patterns /\ patterns'[id] = patterns[id]
      BY <1>4, <2>2
    <3> QED BY <1>4, <1>7, <3>1
  <2> QED BY <2>1, <2>2
<1>12. RegistryInv'
  BY <1>8, <1>9, <1>10, <1>11 DEF RegistryInv, PatternsForLife
<1> QED BY <1>5, <1>12

\* UnregisterPromptPattern: what was given out stays on record.
LEMMA UnregisterSteps ==
    ASSUME CallsInv, RegistryInv, NEW c \in Callers, UnregisterPromptPattern(c), transcript' = transcript
    PROVE  CallsInv' /\ RegistryInv'
<1> DEFINE id == Arrived(c).query.id
           e == [event |-> "unregistered", id |-> id]
<1>1. /\ Asking(c, "unregister") /\ Answer(c, e)
      /\ patterns' = [i \in DOMAIN patterns \ {id} |-> patterns[i]]
      /\ nextPattern' = nextPattern /\ given' = given
  BY DEF UnregisterPromptPattern
<1>2. call[c].request.verb = "signal" /\ call[c].request.query.query = "unregister"
  BY <1>1, AskingFields
<1>3. CallsInv'
  <2>1. e.event # "acquired"
    OBVIOUS
  <2> HIDE DEF e
  <2> QED BY <1>1, <1>2, <2>1, OtherAnswerSteps
<1> HIDE DEF id, e
<1>4. RegistryInv'
  <2>1. \A i \in DOMAIN patterns' : i \in DOMAIN patterns /\ patterns'[i] = patterns[i]
    BY <1>1
  <2>2. \A i \in DOMAIN patterns' : [id |-> i, pattern |-> patterns'[i]] \in given'
    BY <1>1, <2>1 DEF RegistryInv, PatternsForLife
  <2> QED BY <1>1, <2>2 DEF RegistryInv, PatternsForLife
<1> QED BY <1>3, <1>4

\* LookUpPattern: the pattern a thread goes on with is registered, or none.
LEMMA LookUpSteps ==
    ASSUME CallsInv, RegistryInv, transcript \in Seq(U8), NEW c \in Callers, LookUpPattern(c),
           transcript' = transcript
    PROVE  CallsInv'
<1> DEFINE k == call[c]
           id == Arrived(c).query.id
<1>1. Asking(c, "acquire")
  BY DEF LookUpPattern
<1>2. /\ k.request.verb = "signal" /\ k.request.query.query = "acquire" /\ k.request \in Request(c)
      /\ GoodCall(c, k, transcript)
  BY <1>1, AskingFields
<1>3. CASE id = 0
  <2> DEFINE prompt == [state |-> "NotChecked"]
  <2>1. CloseGate(c, prompt)
    BY <1>3 DEF LookUpPattern
  <2>2. prompt.state = "NotChecked"
    OBVIOUS
  <2> HIDE DEF prompt
  <2> QED BY <1>2, <2>1, <2>2, CloseGateSteps
<1>4. CASE id # 0
  <2> DEFINE found == IF id \in DOMAIN patterns THEN patterns[id] ELSE NoPattern
             m == [k EXCEPT !.stage = "looking"]
             o == [m EXCEPT !.arrived = [verb |-> "none"]]
             n == [o EXCEPT !.pattern = found]
  <2>1. call' = [call EXCEPT ![c] = n]
    BY <1>4, IdleFields DEF LookUpPattern
  <2>2. found \in Patterns \union {NoPattern}
    <3>1. ASSUME id \in DOMAIN patterns PROVE patterns[id] \in Patterns
      <4> DEFINE g == [id |-> id, pattern |-> patterns[id]]
      <4>1. g \in given
        BY <3>1 DEF RegistryInv, PatternsForLife
      <4>2. g.pattern = patterns[id]
        OBVIOUS
      <4> HIDE DEF g
      <4> QED BY <4>1, <4>2 DEF RegistryInv
    <3> QED BY <3>1
  <2>3. k = [stage |-> k.stage, request |-> k.request, stream |-> k.stream, since |-> k.since,
             arrived |-> k.arrived, pattern |-> k.pattern, effect |-> k.effect]
    BY <1>2 DEF GoodCall, IsCall
  <2> HIDE DEF k, found, id, n
  <2>4. m = [stage |-> "looking", request |-> k.request, stream |-> k.stream, since |-> k.since,
             arrived |-> k.arrived, pattern |-> k.pattern, effect |-> k.effect]
    BY <2>3
  <2> HIDE DEF m
  <2>5. o = [stage |-> "looking", request |-> k.request, stream |-> k.stream, since |-> k.since,
             arrived |-> [verb |-> "none"], pattern |-> k.pattern, effect |-> k.effect]
    BY <2>4
  <2> HIDE DEF o
  <2>6. n = [stage |-> "looking", request |-> k.request, stream |-> k.stream, since |-> k.since,
             arrived |-> [verb |-> "none"], pattern |-> found, effect |-> k.effect]
    BY <2>5 DEF n
  <2>7. /\ n.stage = "looking" /\ n.request = k.request /\ n.since = k.since
        /\ n.pattern = found /\ n.effect = k.effect /\ IsCall(n)
    BY <2>6 DEF IsCall
  <2>8. GoodCall(c, n, transcript)
    BY <1>2, <2>2, <2>7 DEF GoodCall, Stages
  <2> QED BY <2>1, <2>8, OneCallChanges
<1> QED BY <1>3, <1>4

-----------------------------------------------------------------------------
(* Where a pattern occurs.                                                 *)

\* A subsequence within a sequence.
LEMMA Within ==
    ASSUME NEW S, NEW t \in Seq(S), NEW m \in Nat, m >= 1, NEW n \in Nat, m + n - 1 <= Len(t)
    PROVE  LET part == SubSeq(t, m, m + n - 1) IN
           part \in Seq(S) /\ Len(part) = n /\ \A i \in 1 .. n : part[i] = t[m + i - 1]
<1> DEFINE last == m + n - 1
<1>1. m \in Int /\ last \in Int /\ Len(t) \in Nat
  BY LenProperties
<1>2. \A i \in m .. last : t[i] \in S
  <2> TAKE i \in m .. last
  <2>1. i \in 1 .. Len(t)
    BY <1>1
  <2> QED BY <2>1, ElementOfSeq
<1>3. (IF m <= last THEN last - m + 1 ELSE 0) = n /\ last - m + 1 = n
  OBVIOUS
<1> HIDE DEF last
<1>4. /\ SubSeq(t, m, last) \in Seq(S)
      /\ Len(SubSeq(t, m, last)) = IF m <= last THEN last - m + 1 ELSE 0
      /\ \A i \in 1 .. last - m + 1 : SubSeq(t, m, last)[i] = t[m + i - 1]
  BY <1>1, <1>2, SubSeqProperties
<1> QED BY <1>3, <1>4 DEF last

\* What the actor keeps are bytes, no more than there is room for.
LEMMA WindowOf ==
    ASSUME NEW t \in Seq(U8)
    PROVE  Window(t) \in Seq(U8) /\ Len(Window(t)) <= ByteCapacity
<1>1. Len(t) \in Nat /\ ByteCapacity \in Nat /\ ByteCapacity >= 1
  BY LenProperties, WireAssumption, ControlAssumption DEF WireAssumption, ControlAssumption
<1>2. CASE Len(t) <= ByteCapacity
  BY <1>2 DEF Window
<1>3. CASE ~(Len(t) <= ByteCapacity)
  <2> DEFINE m == Len(t) - ByteCapacity + 1
  <2>1. m \in Nat /\ m >= 1 /\ m + ByteCapacity - 1 = Len(t)
    BY <1>1, <1>3
  <2> HIDE DEF m
  <2>2. SubSeq(t, m, m + ByteCapacity - 1) \in Seq(U8) /\ Len(SubSeq(t, m, m + ByteCapacity - 1)) = ByteCapacity
    BY <1>1, <2>1, Within
  <2>3. Window(t) = SubSeq(t, m, m + ByteCapacity - 1)
    BY <1>3, <2>1 DEF Window, m
  <2> QED BY <1>1, <2>2, <2>3
<1> QED BY <1>2, <1>3

\* The bytes are those of the transcript from a position on.
Here(t, bytes, position) == \A i \in 1 .. Len(bytes) : t[position + i - 1] = bytes[i]

\* The bytes occur in the transcript and end at e.
Occurs(t, bytes, e) == e \in 0 .. Len(t) /\ Len(bytes) <= e /\ Here(t, bytes, e - Len(bytes) + 1)

\* Sequences are equal that have the same elements.
LEMMA SameSequence ==
    ASSUME NEW S, NEW a \in Seq(S), NEW b \in Seq(S), Len(a) = Len(b), \A i \in 1 .. Len(a) : a[i] = b[i]
    PROVE  a = b
OBVIOUS

\* A match is an occurrence.
LEMMA MatchIsHere ==
    ASSUME NEW S, NEW t \in Seq(S), NEW b \in Seq(S), NEW p \in Nat, p >= 1
    PROVE  MatchesAt(t, b, p) <=> Occurs(t, b, p + Len(b) - 1)
<1> DEFINE part == SubSeq(t, p, p + Len(b) - 1)
           e == p + Len(b) - 1
<1>1. Len(t) \in Nat /\ Len(b) \in Nat
  BY LenProperties
<1>2. Len(b) <= e /\ e \in Nat /\ e - Len(b) + 1 = p
  BY <1>1
<1>3. Occurs(t, b, e) <=> e <= Len(t) /\ Here(t, b, p)
  <2> HIDE DEF e
  <2> QED BY <1>1, <1>2 DEF Occurs
<1>4. ASSUME e <= Len(t) PROVE part = b <=> Here(t, b, p)
  <2>1. part \in Seq(S) /\ Len(part) = Len(b) /\ \A i \in 1 .. Len(b) : part[i] = t[p + i - 1]
    BY <1>1, <1>4, Within
  <2> HIDE DEF part
  <2>2. (\A i \in 1 .. Len(b) : part[i] = b[i]) => part = b
    BY <2>1, SameSequence
  <2> QED BY <2>1, <2>2 DEF Here
<1>5. MatchesAt(t, b, p) <=> e <= Len(t) /\ part = b
  BY DEF MatchesAt
<1> QED BY <1>3, <1>4, <1>5

\* A suffix is an occurrence at the end.
LEMMA SuffixIsHere ==
    ASSUME NEW S, NEW t \in Seq(S), NEW b \in Seq(S)
    PROVE  IsSuffix(b, t) <=> Len(b) <= Len(t) /\ Here(t, b, Len(t) - Len(b) + 1)
<1> DEFINE x == Reverse(b)
           y == Reverse(t)
<1>1. Len(t) \in Nat /\ Len(b) \in Nat
  BY LenProperties
<1>2. ASSUME NEW s \in Seq(S)
      PROVE  /\ Reverse(s) \in Seq(S) /\ Len(Reverse(s)) = Len(s)
             /\ \A i \in 1 .. Len(s) : Reverse(s)[i] = s[(Len(s) - i) + 1]
  <2>1. Len(s) \in Nat /\ \A i \in 1 .. Len(s) : (Len(s) - i) + 1 \in 1 .. Len(s)
    BY LenProperties
  <2>2. \A i \in 1 .. Len(s) : s[(Len(s) - i) + 1] \in S
    BY <2>1, ElementOfSeq
  <2> QED BY <2>1, <2>2 DEF Reverse
<1>3. x \in Seq(S) /\ Len(x) = Len(b) /\ \A i \in 1 .. Len(b) : x[i] = b[(Len(b) - i) + 1]
  BY <1>2
<1>4. y \in Seq(S) /\ Len(y) = Len(t) /\ \A i \in 1 .. Len(t) : y[i] = t[(Len(t) - i) + 1]
  BY <1>2
<1>5. IsSuffix(b, t) <=> Len(x) <= Len(y) /\ SubSeq(x, 1, Len(x)) = SubSeq(y, 1, Len(x))
  BY DEF IsSuffix, IsPrefix
<1> HIDE DEF x, y
<1>6. SubSeq(x, 1, Len(x)) = x
  BY <1>3, SubSeqFull
<1>7. ASSUME Len(b) <= Len(t)
      PROVE  x = SubSeq(y, 1, Len(x)) <=> Here(t, b, Len(t) - Len(b) + 1)
  <2> DEFINE n == Len(b)
             part == SubSeq(y, 1, 1 + n - 1)
  <2>1. n \in Nat /\ 1 \in Nat /\ 1 >= 1 /\ 1 + n - 1 <= Len(y) /\ 1 + n - 1 = Len(x)
    BY <1>1, <1>3, <1>4, <1>7
  <2> HIDE DEF n
  <2>2. part \in Seq(S) /\ Len(part) = n /\ \A i \in 1 .. n : part[i] = y[1 + i - 1]
    BY <1>4, <2>1, Within
  <2>3. SubSeq(y, 1, Len(x)) = part
    BY <2>1
  <2> HIDE DEF part
  <2>4. x = part <=> \A i \in 1 .. n : x[i] = part[i]
    <3>1. (\A i \in 1 .. Len(x) : x[i] = part[i]) => x = part
      BY <1>3, <2>1, <2>2, SameSequence
    <3>2. Len(x) = n
      BY <2>1
    <3> QED BY <3>1, <3>2
  <2>5. \A i \in 1 .. n : x[i] = part[i] <=> b[(n - i) + 1] = t[(Len(t) - i) + 1]
    <3> TAKE i \in 1 .. n
    <3>1. i \in 1 .. Len(b) /\ i \in 1 .. Len(t) /\ 1 + i - 1 = i
      BY <1>1, <1>7 DEF n
    <3>2. x[i] = b[(n - i) + 1]
      BY <1>3, <3>1 DEF n
    <3>3. part[i] = t[(Len(t) - i) + 1]
      BY <1>4, <2>2, <3>1
    <3> QED BY <3>2, <3>3
  <2>6. ASSUME NEW j \in 1 .. n
        PROVE  /\ (n - j) + 1 \in 1 .. n /\ (n - ((n - j) + 1)) + 1 = j
               /\ (Len(t) - ((n - j) + 1)) + 1 = Len(t) - n + 1 + j - 1
    BY <1>1, <2>1
  <2>7. ASSUME NEW i \in 1 .. n
        PROVE  (n - i) + 1 \in 1 .. n /\ Len(t) - n + 1 + ((n - i) + 1) - 1 = (Len(t) - i) + 1
    BY <1>1, <2>1
  <2>8. Here(t, b, Len(t) - n + 1) <=> \A j \in 1 .. n : t[Len(t) - n + 1 + j - 1] = b[j]
    BY DEF Here, n
  <2>9. ASSUME \A i \in 1 .. n : b[(n - i) + 1] = t[(Len(t) - i) + 1], NEW j \in 1 .. n
        PROVE  t[Len(t) - n + 1 + j - 1] = b[j]
    <3> DEFINE i == (n - j) + 1
    <3>1. i \in 1 .. n /\ (n - i) + 1 = j /\ (Len(t) - i) + 1 = Len(t) - n + 1 + j - 1
      BY <2>6
    <3> HIDE DEF i
    <3> QED BY <2>9, <3>1
  <2>10. ASSUME \A j \in 1 .. n : t[Len(t) - n + 1 + j - 1] = b[j], NEW i \in 1 .. n
         PROVE  b[(n - i) + 1] = t[(Len(t) - i) + 1]
    <3> DEFINE j == (n - i) + 1
    <3>1. j \in 1 .. n /\ Len(t) - n + 1 + j - 1 = (Len(t) - i) + 1
      BY <2>7
    <3>2. t[Len(t) - n + 1 + j - 1] = b[j]
      BY <2>10, <3>1
    <3> QED BY <3>1, <3>2
  <2>11. Here(t, b, Len(t) - n + 1) <=> x = part
    BY <2>4, <2>5, <2>8, <2>9, <2>10
  <2> QED BY <2>3, <2>11 DEF n
<1> QED BY <1>3, <1>4, <1>5, <1>6, <1>7

\* A suffix of the first e bytes is an occurrence that ends there.
LEMMA EndIsHere ==
    ASSUME NEW S, NEW t \in Seq(S), NEW b \in Seq(S), NEW e \in 0 .. Len(t)
    PROVE  IsSuffix(b, SubSeq(t, 1, e)) <=> Occurs(t, b, e)
<1> DEFINE part == SubSeq(t, 1, 1 + e - 1)
<1>1. Len(t) \in Nat /\ Len(b) \in Nat
  BY LenProperties
<1>2. e \in Nat /\ e <= Len(t) /\ 1 \in Nat /\ 1 >= 1 /\ 1 + e - 1 <= Len(t) /\ 1 + e - 1 = e
  BY <1>1
<1>3. part \in Seq(S) /\ Len(part) = e /\ \A i \in 1 .. e : part[i] = t[1 + i - 1]
  BY <1>2, Within
<1>4. SubSeq(t, 1, e) = part
  BY <1>2
<1> HIDE DEF part
<1>5. IsSuffix(b, part) <=> Len(b) <= e /\ Here(part, b, e - Len(b) + 1)
  BY <1>3, SuffixIsHere
<1>6. ASSUME Len(b) <= e
      PROVE  Here(part, b, e - Len(b) + 1) <=> Here(t, b, e - Len(b) + 1)
  <2>1. ASSUME NEW i \in 1 .. Len(b)
        PROVE  part[e - Len(b) + 1 + i - 1] = t[e - Len(b) + 1 + i - 1]
    <3> DEFINE j == e - Len(b) + 1 + i - 1
    <3>1. j \in 1 .. e /\ 1 + j - 1 = j
      BY <1>1, <1>2, <1>6
    <3> HIDE DEF j
    <3>2. part[j] = t[j]
      BY <1>3, <3>1
    <3> QED BY <3>2 DEF j
  <2> QED BY <2>1 DEF Here
<1> QED BY <1>4, <1>5, <1>6 DEF Occurs

\* An occurrence begins at a match.
LEMMA OccursAtMatch ==
    ASSUME NEW S, NEW t \in Seq(S), NEW b \in Seq(S), NEW e, Occurs(t, b, e)
    PROVE  LET p == e - Len(b) + 1 IN p \in 1 .. Len(t) + 1 /\ MatchesAt(t, b, p) /\ e = p + Len(b) - 1
<1> DEFINE p == e - Len(b) + 1
<1>1. Len(t) \in Nat /\ Len(b) \in Nat
  BY LenProperties
<1>2. e \in 0 .. Len(t) /\ Len(b) <= e
  BY DEF Occurs
<1>3. p \in 1 .. Len(t) + 1 /\ p \in Nat /\ p >= 1 /\ e = p + Len(b) - 1
  BY <1>1, <1>2
<1> HIDE DEF p
<1>4. MatchesAt(t, b, p)
  BY <1>3, MatchIsHere
<1> QED BY <1>3, <1>4 DEF p

\* The minimum is the least element.
LEMMA MinIs ==
    ASSUME NEW T, T \subseteq Nat, T # {}
    PROVE  Min(T) \in T
<1>1. PICK x \in T : \A y \in T : x <= y
  BY LeastNatural
<1> QED BY <1>1 DEF Min

\* The maximum is the greatest element.
LEMMA MaxIs ==
    ASSUME NEW n \in Nat, NEW T, T \subseteq 1 .. n, T # {}
    PROVE  Max(T) \in T /\ \A y \in T : Max(T) >= y
<1> DEFINE gaps == {n - x : x \in T}
<1>1. gaps \subseteq Nat /\ gaps # {}
  <2>1. \A x \in T : n - x \in Nat
    OBVIOUS
  <2>2. gaps # {}
    OBVIOUS
  <2> QED BY <2>1, <2>2
<1>2. PICK g \in gaps : \A h \in gaps : g <= h
  <2> HIDE DEF gaps
  <2> QED BY <1>1, LeastNatural
<1>3. PICK x \in T : g = n - x
  OBVIOUS
<1>4. ASSUME NEW y \in T PROVE x >= y
  <2>1. n - x <= n - y
    BY <1>2, <1>3
  <2>2. x \in Int /\ y \in Int
    OBVIOUS
  <2> QED BY <2>1, <2>2
<1> HIDE DEF gaps
<1> QED BY <1>4 DEF Max

\* A literal pattern is found at its last occurrence.
LEMMA LiteralIsLast ==
    ASSUME NEW S, NEW t \in Seq(S), NEW b \in Seq(S)
    PROVE  LET end == Len(t) - LiteralSuffixGap(t, b) IN
           /\ end = 0 \/ Occurs(t, b, end)
           /\ \A e : Occurs(t, b, e) => e <= end
<1> DEFINE end == Len(t) - LiteralSuffixGap(t, b)
           matches == Matches(t, b)
<1>1. Len(t) \in Nat /\ Len(b) \in Nat
  BY LenProperties
<1>2. \A p : p \in matches <=> p \in 1 .. Len(t) + 1 /\ MatchesAt(t, b, p)
  BY DEF Matches
<1>3. CASE b = <<>> \/ IsSuffix(b, t)
  <2>1. end = Len(t)
    <3>1. LiteralSuffixGap(t, b) = 0
      BY <1>3 DEF LiteralSuffixGap
    <3> QED BY <1>1, <3>1
  <2>2. Occurs(t, b, Len(t))
    <3>1. CASE b = <<>>
      <4>1. Len(b) = 0
        BY <3>1
      <4> QED BY <1>1, <4>1 DEF Occurs, Here
    <3>2. CASE IsSuffix(b, t)
      <4>1. Len(b) <= Len(t) /\ Here(t, b, Len(t) - Len(b) + 1)
        BY <3>2, SuffixIsHere
      <4> QED BY <1>1, <4>1 DEF Occurs
    <3> QED BY <1>3, <3>1, <3>2
  <2>3. \A e : Occurs(t, b, e) => e <= Len(t)
    BY <1>1 DEF Occurs
  <2> HIDE DEF end
  <2> QED BY <2>1, <2>2, <2>3 DEF end
<1>4. CASE ~(b = <<>> \/ IsSuffix(b, t)) /\ matches = {}
  <2>1. end = 0
    <3>1. LiteralSuffixGap(t, b) = Len(t)
      BY <1>4 DEF LiteralSuffixGap
    <3> QED BY <1>1, <3>1
  <2>2. \A e : ~Occurs(t, b, e)
    BY <1>2, <1>4, OccursAtMatch
  <2> HIDE DEF end
  <2> QED BY <2>1, <2>2 DEF end
<1>5. CASE ~(b = <<>> \/ IsSuffix(b, t)) /\ matches # {}
  <2> DEFINE last == Max(matches)
  <2>1. last \in matches /\ \A p \in matches : last >= p
    <3>1. Len(t) + 1 \in Nat /\ matches \subseteq 1 .. Len(t) + 1
      BY <1>1, <1>2
    <3> HIDE DEF matches
    <3> QED BY <1>5, <3>1, MaxIs
  <2>2. LiteralSuffixGap(t, b) = Len(t) - (last - 1) - Len(b)
    BY <1>5 DEF LiteralSuffixGap
  <2> HIDE DEF last, matches
  <2>3. last \in Nat /\ last >= 1 /\ MatchesAt(t, b, last)
    BY <1>1, <1>2, <2>1
  <2>4. end = last + Len(b) - 1
    BY <1>1, <2>2, <2>3
  <2> HIDE DEF end
  <2>5. Occurs(t, b, end)
    BY <2>3, <2>4, MatchIsHere
  <2>6. ASSUME NEW e, Occurs(t, b, e) PROVE e <= end
    <3> DEFINE p == e - Len(b) + 1
    <3>1. p \in 1 .. Len(t) + 1 /\ MatchesAt(t, b, p) /\ e = p + Len(b) - 1
      BY <2>6, OccursAtMatch
    <3> HIDE DEF p
    <3>2. last >= p /\ p \in Nat
      BY <1>1, <1>2, <2>1, <3>1
    <3> QED BY <1>1, <2>3, <2>4, <3>1, <3>2
  <2> QED BY <2>5, <2>6 DEF end
<1> QED BY <1>3, <1>4, <1>5

\* r is a regular expression over the elements of S.
IsRegex(r, S) == r.words \in Seq(Seq(S)) /\ r.atEnd \in BOOLEAN

\* The length of the match at a position, and where the search goes on behind it.
Length(t, r, from) == Len(r.words[Min(WordsAt(t, r, from))])
GoesOn(t, r, from) == IF Length(t, r, from) = 0 THEN from + 1 ELSE from + Length(t, r, from)

\* A search goes on behind a match, and within the transcript.
LEMMA MatchGoesOn ==
    ASSUME NEW S, NEW t \in Seq(S), NEW r, IsRegex(r, S), NEW from \in 1 .. Len(t) + 1,
           WordsAt(t, r, from) # {}
    PROVE  /\ Min(WordsAt(t, r, from)) \in WordsAt(t, r, from)
           /\ Length(t, r, from) \in Nat /\ from + Length(t, r, from) - 1 <= Len(t)
           /\ GoesOn(t, r, from) \in from + 1 .. Len(t) + 2
<1> DEFINE i == Min(WordsAt(t, r, from))
           l == Length(t, r, from)
<1>1. DOMAIN r.words \subseteq Nat /\ \A j \in DOMAIN r.words : r.words[j] \in Seq(S)
  BY DEF IsRegex
<1>2. WordsAt(t, r, from) \subseteq DOMAIN r.words
  BY DEF WordsAt
<1>3. i \in WordsAt(t, r, from)
  <2>1. WordsAt(t, r, from) \subseteq Nat
    BY <1>1, <1>2
  <2> QED BY <2>1, MinIs
<1>4. l = Len(r.words[i])
  BY DEF Length
<1> HIDE DEF i, l
<1>5. r.words[i] \in Seq(S)
  BY <1>1, <1>2, <1>3
<1>6. l \in Nat /\ from + l - 1 <= Len(t) /\ Len(t) \in Nat
  <2>1. MatchesAt(t, r.words[i], from)
    BY <1>3 DEF WordsAt
  <2>2. from + Len(r.words[i]) - 1 <= Len(t)
    BY <2>1 DEF MatchesAt
  <2> QED BY <1>4, <1>5, <2>2, LenProperties
<1>7. GoesOn(t, r, from) = IF l = 0 THEN from + 1 ELSE from + l
  BY DEF GoesOn, l
<1>8. GoesOn(t, r, from) \in from + 1 .. Len(t) + 2
  BY <1>6, <1>7
<1> QED BY <1>3, <1>6, <1>8 DEF i, l

\* What a search from a position finds, when end holds what those behind it find.
Found(end, t, r, from) ==
    IF from > Len(t) + 1 THEN 0
    ELSE IF WordsAt(t, r, from) = {} THEN end[from + 1]
    ELSE IF end[GoesOn(t, r, from)] = 0 THEN from + Length(t, r, from) - 1
    ELSE end[GoesOn(t, r, from)]

\* end holds, for each position from low on, where the last match of a search
\* from there ends.
IsSearch(end, t, r, low) == end = [from \in low .. Len(t) + 2 |-> Found(end, t, r, from)]

\* A search can be continued to the left.
LEMMA SearchExists ==
    ASSUME NEW S, NEW t \in Seq(S), NEW r, IsRegex(r, S)
    PROVE  \E end : IsSearch(end, t, r, 1)
<1> DEFINE L == Len(t)
           T == {m \in Nat : \E end : IsSearch(end, t, r, L + 2 - m)}
<1>0. L \in Nat
  BY LenProperties
<1>1. 0 \in T
  <2> DEFINE p == [from \in (L + 2 - 0) .. (L + 2) |-> 0]
  <2>1. \A from \in (L + 2 - 0) .. (L + 2) : Found(p, t, r, from) = 0
    <3> TAKE from \in (L + 2 - 0) .. (L + 2)
    <3>1. from > L + 1
      BY <1>0
    <3> HIDE DEF p
    <3> QED BY <3>1 DEF Found
  <2>2. p = [from \in (L + 2 - 0) .. (L + 2) |-> Found(p, t, r, from)]
    BY <2>1
  <2> HIDE DEF p
  <2>3. \E end : IsSearch(end, t, r, L + 2 - 0)
    BY <2>2 DEF IsSearch
  <2> QED BY <2>3
<1>2. ASSUME NEW m \in 0 .. L, m \in T PROVE m + 1 \in T
  <2> DEFINE low == L + 2 - m
             less == L + 2 - (m + 1)
  <2>1. low \in Int /\ less \in Int /\ less >= 1 /\ less + 1 = low /\ low <= L + 2
    BY <1>0
  <2>2. PICK p : IsSearch(p, t, r, low)
    BY <1>2
  <2> HIDE DEF low, less
  <2>3. p = [from \in low .. L + 2 |-> Found(p, t, r, from)]
    BY <2>2 DEF IsSearch
  <2> HIDE DEF L
  <2> DEFINE q == [from \in less .. L + 2 |-> Found(p, t, r, from)]
  <2>4. \A from \in low .. L + 2 : q[from] = p[from]
    <3> TAKE from \in low .. L + 2
    <3>1. from \in less .. L + 2
      BY <2>1
    <3>2. q[from] = Found(p, t, r, from)
      BY <3>1
    <3>3. p[from] = Found(p, t, r, from)
      BY <2>3
    <3> QED BY <3>2, <3>3
  <2> HIDE DEF q
  <2>5. ASSUME NEW from \in less .. L + 2 PROVE Found(p, t, r, from) = Found(q, t, r, from)
    <3>1. CASE from > L + 1
      BY <3>1 DEF Found, L
    <3>2. CASE ~(from > L + 1) /\ WordsAt(t, r, from) = {}
      <4>1. from + 1 \in low .. L + 2
        BY <1>0, <2>1, <3>2
      <4>2. q[from + 1] = p[from + 1]
        BY <2>4, <4>1
      <4> QED BY <3>2, <4>2 DEF Found, L
    <3>3. CASE ~(from > L + 1) /\ WordsAt(t, r, from) # {}
      <4> DEFINE on == GoesOn(t, r, from)
      <4>1. from \in 1 .. Len(t) + 1
        BY <1>0, <2>1, <3>3 DEF L
      <4>2. on \in from + 1 .. Len(t) + 2
        BY <3>3, <4>1, MatchGoesOn
      <4> HIDE DEF on
      <4>3. on \in low .. L + 2
        BY <1>0, <2>1, <4>2 DEF L
      <4>4. q[on] = p[on]
        BY <2>4, <4>3
      <4> QED BY <3>3, <4>4 DEF Found, L, on
    <3> QED BY <3>1, <3>2, <3>3
  <2>6. q = [from \in less .. L + 2 |-> Found(q, t, r, from)]
    <3>1. q = [from \in less .. L + 2 |-> Found(p, t, r, from)]
      BY DEF q
    <3> QED BY <2>5, <3>1
  <2>7. \E end : IsSearch(end, t, r, less)
    BY <2>6 DEF IsSearch, L
  <2> QED BY <2>7 DEF less
<1>3. L + 1 \in T
  <2>1. \A k \in 0 .. L + 1 : k \in T
    <3>1. L + 1 \in Nat /\ \A m \in 0 .. (L + 1) - 1 : m \in T => m + 1 \in T
      <4> HIDE DEF T
      <4> QED BY <1>0, <1>2
    <3> HIDE DEF T, L
    <3> QED BY <1>1, <3>1, UpTo
  <2>2. L + 1 \in 0 .. L + 1
    BY <1>0
  <2> HIDE DEF T
  <2> QED BY <2>1, <2>2
<1>4. L + 2 - (L + 1) = 1
  BY <1>0
<1> QED BY <1>3, <1>4 DEF T

\* end says what a search from the position finds: nothing, and then there is
\* no match from there on; or the end of a match, behind which there is none.
RightSearch(end, t, r, from) ==
    /\ \/ end = 0
       \/ \E q \in 1 .. Len(t) + 1 : \E i \in WordsAt(t, r, q) : end = q + Len(r.words[i]) - 1 /\ end >= from - 1
    /\ \A q \in 1 .. Len(t) + 1 : \A i \in WordsAt(t, r, q) :
          q >= from /\ q >= end + 1 => q + Len(r.words[i]) - 1 <= end

\* What is found from a position is right if what is found behind it is.
LEMMA FoundIsRight ==
    ASSUME NEW S, NEW t \in Seq(S), NEW r, IsRegex(r, S), NEW end, NEW from \in 1 .. Len(t) + 2,
           \A next \in from + 1 .. Len(t) + 2 : RightSearch(end[next], t, r, next),
           end[from] = Found(end, t, r, from)
    PROVE  RightSearch(end[from], t, r, from)
<1>0. Len(t) \in Nat
  BY LenProperties
<1>1. ASSUME NEW q \in 1 .. Len(t) + 1, NEW i \in WordsAt(t, r, q)
      PROVE  /\ Len(r.words[i]) \in Nat /\ MatchesAt(t, r.words[i], q)
             /\ r.atEnd => q + Len(r.words[i]) - 1 = Len(t)
  <2>1. i \in DOMAIN r.words /\ MatchesAt(t, r.words[i], q) /\ (r.atEnd => q + Len(r.words[i]) - 1 = Len(t))
    BY DEF WordsAt
  <2>2. r.words[i] \in Seq(S)
    BY <2>1 DEF IsRegex
  <2> QED BY <2>1, <2>2, LenProperties
<1>2. CASE from > Len(t) + 1
  <2>1. end[from] = 0
    BY <1>2 DEF Found
  <2>2. \A q \in 1 .. Len(t) + 1 : ~(q >= from)
    BY <1>0, <1>2
  <2> QED BY <2>1, <2>2 DEF RightSearch
<1>3. CASE ~(from > Len(t) + 1) /\ WordsAt(t, r, from) = {}
  <2> DEFINE later == end[from + 1]
  <2>1. end[from] = later
    BY <1>3 DEF Found
  <2>2. from + 1 \in from + 1 .. Len(t) + 2
    BY <1>0, <1>3
  <2>3. RightSearch(later, t, r, from + 1)
    BY <2>2
  <2> HIDE DEF later
  <2>4. ASSUME NEW q \in 1 .. Len(t) + 1, NEW i \in WordsAt(t, r, q), q >= from PROVE q >= from + 1
    <3>1. q # from
      BY <1>3
    <3> QED BY <1>0, <2>4, <3>1
  <2>5. later = 0 \/ \E q \in 1 .. Len(t) + 1 : \E i \in WordsAt(t, r, q) :
                        later = q + Len(r.words[i]) - 1 /\ later >= from - 1
    <3>1. ASSUME NEW q \in 1 .. Len(t) + 1, NEW i \in WordsAt(t, r, q), later = q + Len(r.words[i]) - 1,
                 later >= from + 1 - 1
          PROVE  later >= from - 1
      <4>1. later \in Int
        BY <1>1, <3>1
      <4> QED BY <3>1, <4>1
    <3> QED BY <2>3, <3>1 DEF RightSearch
  <2>6. \A q \in 1 .. Len(t) + 1 : \A i \in WordsAt(t, r, q) :
           q >= from /\ q >= later + 1 => q + Len(r.words[i]) - 1 <= later
    BY <2>3, <2>4 DEF RightSearch
  <2> QED BY <2>1, <2>5, <2>6 DEF RightSearch
<1>4. CASE ~(from > Len(t) + 1) /\ WordsAt(t, r, from) # {}
  <2> DEFINE i == Min(WordsAt(t, r, from))
             l == Length(t, r, from)
             on == GoesOn(t, r, from)
             later == end[on]
  <2>1. from \in 1 .. Len(t) + 1
    BY <1>0, <1>4
  <2>2. i \in WordsAt(t, r, from) /\ l \in Nat /\ from + l - 1 <= Len(t) /\ on \in from + 1 .. Len(t) + 2
    BY <1>4, <2>1, MatchGoesOn
  <2>3. l = Len(r.words[i]) /\ on = IF l = 0 THEN from + 1 ELSE from + l
    BY DEF Length, GoesOn
  <2>4. RightSearch(later, t, r, on)
    BY <2>2
  <2>5. end[from] = IF later = 0 THEN from + l - 1 ELSE later
    BY <1>4 DEF Found
  <2> HIDE DEF i, l, on, later
  <2>6. CASE later = 0
    <3>1. \A q \in 1 .. Len(t) + 1 : q >= on => WordsAt(t, r, q) = {}
      <4> SUFFICES ASSUME NEW q \in 1 .. Len(t) + 1, q >= on, NEW j \in WordsAt(t, r, q) PROVE FALSE
        OBVIOUS
      <4>1. q + Len(r.words[j]) - 1 <= 0
        <5>1. q >= later + 1
          BY <2>6
        <5> QED BY <2>4, <2>6, <5>1 DEF RightSearch
      <4>2. q >= 2 /\ Len(r.words[j]) \in Nat
        BY <1>1, <2>2
      <4> QED BY <4>1, <4>2
    <3>2. ASSUME l = 0 PROVE from = Len(t) + 1
      <4> SUFFICES ASSUME from # Len(t) + 1 PROVE FALSE
        OBVIOUS
      <4>1. from + 1 \in 1 .. Len(t) + 1 /\ on = from + 1
        BY <1>0, <2>1, <2>3, <3>2
      <4>2. i \in DOMAIN r.words /\ MatchesAt(t, r.words[i], from) /\ ~r.atEnd
        <5>1. from + l - 1 # Len(t)
          BY <1>0, <2>1, <3>2
        <5>2. r.atEnd => from + Len(r.words[i]) - 1 = Len(t)
          BY <1>1, <2>1, <2>2
        <5> QED BY <1>1, <2>1, <2>2, <2>3, <5>1, <5>2 DEF WordsAt
      <4>3. r.words[i] \in Seq(S) /\ Len(r.words[i]) = 0
        BY <2>3, <3>2, <4>2 DEF IsRegex
      <4>4. MatchesAt(t, r.words[i], from + 1)
        <5> DEFINE w == r.words[i]
        <5>1. from + 1 \in Nat /\ from + 1 >= 1 /\ (from + 1) + Len(w) - 1 = from /\ from \in 0 .. Len(t)
          BY <1>0, <2>1, <4>1, <4>3
        <5>2. Occurs(t, w, from)
          BY <4>3, <5>1 DEF Occurs, Here
        <5>3. w \in Seq(S)
          BY <4>3
        <5> HIDE DEF w
        <5>4. MatchesAt(t, w, from + 1) <=> Occurs(t, w, (from + 1) + Len(w) - 1)
          BY <5>1, <5>3, MatchIsHere
        <5>5. MatchesAt(t, w, from + 1)
          BY <5>1, <5>2, <5>4
        <5> QED BY <5>5 DEF w
      <4>5. i \in WordsAt(t, r, from + 1)
        BY <4>2, <4>4 DEF WordsAt
      <4>6. from + 1 >= on
        BY <4>1
      <4> QED BY <3>1, <4>1, <4>5, <4>6
    <3> DEFINE e == from + l - 1
    <3>3. end[from] = e
      BY <2>5, <2>6
    <3>4. e = from + Len(r.words[i]) - 1 /\ e >= from - 1
      BY <2>1, <2>2, <2>3
    <3>5. ASSUME NEW q \in 1 .. Len(t) + 1, NEW j \in WordsAt(t, r, q), q >= from, q >= e + 1
          PROVE  q + Len(r.words[j]) - 1 <= e
      <4>1. ~(q >= on)
        BY <3>1
      <4>2. l = 0 /\ q = from
        BY <2>1, <2>2, <2>3, <3>5, <4>1
      <4>3. from = Len(t) + 1 /\ e = Len(t)
        BY <1>0, <3>2, <4>2
      <4>4. q + Len(r.words[j]) - 1 <= Len(t)
        BY <1>1 DEF MatchesAt
      <4> QED BY <4>3, <4>4
    <3> HIDE DEF e
    <3>6. \/ e = 0
          \/ \E q \in 1 .. Len(t) + 1 : \E j \in WordsAt(t, r, q) : e = q + Len(r.words[j]) - 1 /\ e >= from - 1
      BY <2>1, <2>2, <3>4
    <3>7. RightSearch(e, t, r, from)
      BY <3>5, <3>6 DEF RightSearch
    <3> QED BY <3>3, <3>7
  <2>7. CASE later # 0
    <3>1. end[from] = later
      BY <2>5, <2>7
    <3>2. PICK q \in 1 .. Len(t) + 1 : \E j \in WordsAt(t, r, q) :
                  later = q + Len(r.words[j]) - 1 /\ later >= on - 1
      BY <2>4, <2>7 DEF RightSearch
    <3>3. PICK j \in WordsAt(t, r, q) : later = q + Len(r.words[j]) - 1 /\ later >= on - 1
      BY <3>2
    <3>4. later \in Int /\ later >= from - 1 /\ later + 1 >= on
      <4>1. later \in Int
        BY <1>1, <3>3
      <4> QED BY <2>1, <2>2, <3>3, <4>1
    <3>5. ASSUME NEW p \in 1 .. Len(t) + 1, NEW k \in WordsAt(t, r, p), p >= later + 1
          PROVE  p + Len(r.words[k]) - 1 <= later
      <4>1. p >= on
        BY <2>2, <3>4, <3>5
      <4> QED BY <2>4, <3>5, <4>1 DEF RightSearch
    <3>6. RightSearch(later, t, r, from)
      BY <3>3, <3>4, <3>5 DEF RightSearch
    <3> QED BY <3>1, <3>6
  <2> QED BY <2>6, <2>7
<1> QED BY <1>2, <1>3, <1>4

\* A search from the beginning ends behind the last match.
LEMMA SearchIsRight ==
    ASSUME NEW S, NEW t \in Seq(S), NEW r, IsRegex(r, S)
    PROVE  RightSearch(LastMatchEnd(t, r), t, r, 1)
<1> DEFINE L == Len(t)
           end[from \in 1 .. Len(t) + 2] ==
              IF from > Len(t) + 1 THEN 0
              ELSE IF WordsAt(t, r, from) = {} THEN end[from + 1]
              ELSE LET length == Len(r.words[Min(WordsAt(t, r, from))])
                       later  == end[IF length = 0 THEN from + 1 ELSE from + length]
                   IN  IF later = 0 THEN from + length - 1 ELSE later
           T == {m \in Nat : \A from \in (L + 2 - m) .. (L + 2) : RightSearch(end[from], t, r, from)}
<1>1. L \in Nat
  BY LenProperties
<1>2. \E p : IsSearch(p, t, r, 1)
  BY SearchExists
<1>3. IsSearch(end, t, r, 1)
  BY <1>2 DEF IsSearch, Found, GoesOn, Length
<1>4. LastMatchEnd(t, r) = end[1]
  BY DEF LastMatchEnd
<1> HIDE DEF end, L
<1>5. \A from \in 1 .. L + 2 : end[from] = Found(end, t, r, from)
  BY <1>3 DEF IsSearch, L
<1>6. 0 \in T
  <2> SUFFICES ASSUME NEW from \in (L + 2 - 0) .. (L + 2) PROVE RightSearch(end[from], t, r, from)
    OBVIOUS
  <2>1. from \in 1 .. L + 2 /\ from + 1 .. L + 2 = {}
    BY <1>1
  <2> QED BY <1>5, <2>1, FoundIsRight DEF L
<1>7. ASSUME NEW m \in 0 .. L, m \in T PROVE m + 1 \in T
  <2> DEFINE low == L + 2 - m
             less == L + 2 - (m + 1)
  <2>1. low \in Int /\ less \in 1 .. L + 2 /\ less + 1 = low /\ low <= L + 2
    BY <1>1
  <2>2. \A from \in low .. L + 2 : RightSearch(end[from], t, r, from)
    BY <1>7
  <2> HIDE DEF low, less
  <2>3. RightSearch(end[less], t, r, less)
    <3>1. \A next \in less + 1 .. L + 2 : RightSearch(end[next], t, r, next)
      BY <2>1, <2>2
    <3> QED BY <1>5, <2>1, <3>1, FoundIsRight DEF L
  <2>4. \A from \in less .. L + 2 : from = less \/ from \in low .. L + 2
    BY <2>1
  <2>5. \A from \in less .. L + 2 : RightSearch(end[from], t, r, from)
    BY <2>2, <2>3, <2>4
  <2> QED BY <2>5 DEF less
<1>8. L + 1 \in T
  <2>1. \A k \in 0 .. L + 1 : k \in T
    <3>1. L + 1 \in Nat /\ \A m \in 0 .. (L + 1) - 1 : m \in T => m + 1 \in T
      <4> HIDE DEF T
      <4> QED BY <1>1, <1>7
    <3> HIDE DEF T
    <3> QED BY <1>6, <3>1, UpTo
  <2>2. L + 1 \in 0 .. L + 1
    BY <1>1
  <2> HIDE DEF T
  <2> QED BY <2>1, <2>2
<1>9. RightSearch(end[1], t, r, 1)
  <2>1. L + 2 - (L + 1) = 1 /\ 1 \in 1 .. (L + 2)
    BY <1>1
  <2> QED BY <1>8, <2>1
<1> QED BY <1>4, <1>9

\* The count is right for a pattern of either kind.
LEMMA CountIsRight ==
    ASSUME NEW pattern \in Patterns, pattern.kind # "invalid", NEW t \in Seq(U8)
    PROVE  RightCount(pattern, PromptSuffixTrailingCount(pattern, t), t)
<1> DEFINE count == PromptSuffixTrailingCount(pattern, t)
<1>0. Len(t) \in Nat
  BY LenProperties
<1>1. \/ pattern.kind = "literal" /\ pattern.bytes \in Seq(U8)
      \/ pattern.kind = "regex" /\ IsRegex(pattern, U8)
  <2>1. pattern \in [kind : {"literal"}, bytes : Seq(U8)]
                       \union [kind : {"regex"}, words : Seq(Seq(U8)), atEnd : BOOLEAN]
                       \union {[kind |-> "invalid"]}
    BY ControlAssumption DEF ControlAssumption
  <2>2. CASE pattern \in [kind : {"literal"}, bytes : Seq(U8)]
    BY <2>2
  <2>3. CASE pattern \in [kind : {"regex"}, words : Seq(Seq(U8)), atEnd : BOOLEAN]
    BY <2>3 DEF IsRegex
  <2> QED BY <2>1, <2>2, <2>3
<1>2. CASE pattern.kind = "literal"
  <2> DEFINE b == pattern.bytes
             end == Len(t) - LiteralSuffixGap(t, b)
  <2>1. b \in Seq(U8)
    BY <1>1, <1>2
  <2>2. Words(pattern) = {b}
    BY <1>2 DEF Words
  <2>3. count = LiteralSuffixGap(t, b)
    BY <1>2 DEF PromptSuffixTrailingCount
  <2> HIDE DEF b, count
  <2>4. end = 0 \/ Occurs(t, b, end)
    BY <2>1, LiteralIsLast
  <2>5. \A e : Occurs(t, b, e) => e <= end
    BY <2>1, LiteralIsLast
  <2>6. \A e : e \in Ends(t, pattern, 1) <=> e \in 0 .. Len(t) /\ 1 + Len(b) - 1 <= e /\ IsSuffix(b, SubSeq(t, 1, e))
    BY <1>2, <2>2 DEF Ends
  <2>7. \A e : e \in Ends(t, pattern, 1) <=> Occurs(t, b, e)
    <3> TAKE e
    <3>1. CASE e \in 0 .. Len(t)
      <4>1. IsSuffix(b, SubSeq(t, 1, e)) <=> Occurs(t, b, e)
        BY <2>1, <3>1, EndIsHere
      <4>2. Occurs(t, b, e) => 1 + Len(b) - 1 <= e
        <5>1. Len(b) \in Nat
          BY <2>1, LenProperties
        <5> QED BY <3>1, <5>1 DEF Occurs
      <4> QED BY <2>6, <3>1, <4>1, <4>2
    <3>2. CASE e \notin 0 .. Len(t)
      BY <2>6, <3>2 DEF Occurs
    <3> QED BY <3>1, <3>2
  <2>8. Len(t) - count = end
    BY <2>3
  <2> HIDE DEF end
  <2>9. RightCount(pattern, count, t)
    BY <1>2, <2>4, <2>5, <2>7, <2>8 DEF RightCount
  <2> QED BY <2>9 DEF count
<1>3. CASE pattern.kind = "regex"
  <2> DEFINE end == LastMatchEnd(t, pattern)
  <2>1. IsRegex(pattern, U8)
    BY <1>1, <1>3
  <2>2. RightSearch(end, t, pattern, 1)
    BY <2>1, SearchIsRight
  <2>3. count = Len(t) - end
    BY <1>3 DEF PromptSuffixTrailingCount
  <2> HIDE DEF end, count
  <2>w. Words(pattern) = {pattern.words[i] : i \in DOMAIN pattern.words}
    BY <1>3 DEF Words, Range
  <2>4. ASSUME NEW i \in DOMAIN pattern.words PROVE pattern.words[i] \in Seq(U8) /\ Len(pattern.words[i]) \in Nat
    <3>1. pattern.words[i] \in Seq(U8)
      BY <2>1 DEF IsRegex
    <3> QED BY <3>1, LenProperties
  <2>5. end = 0 \/ end \in Ends(t, pattern, 1)
    <3> SUFFICES ASSUME NEW q \in 1 .. Len(t) + 1, NEW i \in WordsAt(t, pattern, q),
                        end = q + Len(pattern.words[i]) - 1
                 PROVE  end \in Ends(t, pattern, 1)
      BY <2>2 DEF RightSearch
    <3> DEFINE w == pattern.words[i]
    <3>1. i \in DOMAIN pattern.words /\ MatchesAt(t, w, q) /\ (pattern.atEnd => end = Len(t))
      BY DEF WordsAt
    <3>2. w \in Words(pattern) /\ w \in Seq(U8) /\ Len(w) \in Nat
      BY <2>w, <2>4, <3>1
    <3>e. end = q + Len(w) - 1
      OBVIOUS
    <3> HIDE DEF w
    <3>3. Occurs(t, w, end)
      <4>1. q \in Nat /\ q >= 1
        BY <1>0
      <4> QED BY <3>1, <3>2, <3>e, <4>1, MatchIsHere
    <3>4. end \in 0 .. Len(t) /\ 1 + Len(w) - 1 <= end
      BY <3>2, <3>3 DEF Occurs
    <3>5. IsSuffix(w, SubSeq(t, 1, end))
      BY <3>2, <3>3, <3>4, EndIsHere
    <3> QED BY <3>1, <3>2, <3>4, <3>5 DEF Ends
  <2>i. end \in Nat
    BY <1>0, <2>5 DEF Ends
  <2>6. ASSUME NEW e \in Ends(t, pattern, end + 1) PROVE e <= end
    <3>1. e \in 0 .. Len(t) /\ (pattern.atEnd => e = Len(t))
      BY <1>3 DEF Ends
    <3>2. PICK w \in Words(pattern) : end + 1 + Len(w) - 1 <= e /\ IsSuffix(w, SubSeq(t, 1, e))
      BY DEF Ends
    <3>3. PICK i \in DOMAIN pattern.words : w = pattern.words[i]
      BY <2>w, <3>2
    <3>4. w \in Seq(U8) /\ Len(w) \in Nat
      BY <2>4, <3>3
    <3>5. Occurs(t, w, e)
      BY <3>1, <3>2, <3>4, EndIsHere
    <3> DEFINE q == e - Len(w) + 1
    <3>6. q \in 1 .. Len(t) + 1 /\ MatchesAt(t, w, q) /\ e = q + Len(w) - 1
      BY <3>4, <3>5, OccursAtMatch
    <3>7. q >= 1 /\ q >= end + 1
      BY <1>0, <2>i, <3>1, <3>2, <3>4
    <3> HIDE DEF q
    <3>8. i \in WordsAt(t, pattern, q)
      BY <3>1, <3>3, <3>6 DEF WordsAt
    <3>9. q + Len(pattern.words[i]) - 1 <= end
      BY <2>2, <3>6, <3>7, <3>8 DEF RightSearch
    <3> QED BY <3>3, <3>6, <3>9
  <2>7. Len(t) - count = end
    BY <1>0, <2>3, <2>i
  <2>8. RightCount(pattern, count, t)
    BY <1>3, <2>5, <2>6, <2>7 DEF RightCount
  <2> QED BY <2>8 DEF count
<1> QED BY <1>1, <1>2, <1>3

-----------------------------------------------------------------------------
(* The other steps, and the invariant.                                     *)

\* CheckPrompt: the count is right for what a snapshot is now.
LEMMA CheckPromptSteps ==
    ASSUME CallsInv, transcript \in Seq(U8), NEW c \in Callers, CheckPrompt(c), transcript' = transcript
    PROVE  CallsInv'
<1> DEFINE k == call[c]
           pattern == k.pattern
           count == PromptSuffixTrailingCount(pattern, Snapshot)
           prompt == IF pattern = NoPattern THEN [state |-> "Dirty", count |-> Len(Snapshot)]
                                            ELSE PromptState(count)
<1>1. k.stage = "looking" /\ IF pattern.kind = "invalid" THEN Close(c) ELSE CloseGate(c, prompt)
  BY DEF CheckPrompt
<1>2. GoodCall(c, k, transcript)
  BY DEF CallsInv
<1>3. /\ k.request.verb = "signal" /\ k.request.query.query = "acquire" /\ k.since \in 0 .. Len(transcript)
      /\ pattern \in Patterns \union {NoPattern}
  BY <1>1, <1>2 DEF GoodCall
<1>s. Snapshot \in Seq(U8)
  BY WindowOf DEF Snapshot
<1>4. CASE pattern.kind = "invalid"
  BY <1>1, <1>4, CloseSteps
<1>5. CASE pattern.kind # "invalid"
  <2>1. RightVerdict(pattern, Trailing(prompt), Snapshot)
    <3>1. CASE pattern = NoPattern
      <4>1. prompt = [state |-> "Dirty", count |-> Len(Snapshot)]
        BY <3>1
      <4>2. prompt.state = "Dirty" /\ prompt.count = Len(Snapshot)
        BY <4>1
      <4> HIDE DEF prompt, pattern
      <4>3. Trailing(prompt) = Len(Snapshot)
        BY <4>2 DEF Trailing
      <4> QED BY <3>1, <4>3 DEF RightVerdict
    <3>2. CASE pattern # NoPattern
      <4>1. prompt = PromptState(count)
        BY <3>2
      <4>2. RightCount(pattern, count, Snapshot)
        <5> HIDE DEF pattern
        <5> QED BY <1>3, <1>5, <1>s, <3>2, CountIsRight
      <4> HIDE DEF prompt, count
      <4>3. Trailing(prompt) = count
        <5>1. CASE count = 0
          <6>1. prompt.state = "Clean"
            BY <4>1, <5>1 DEF PromptState
          <6> QED BY <5>1, <6>1 DEF Trailing
        <5>2. CASE count # 0
          <6>1. prompt.state = "Dirty" /\ prompt.count = count
            BY <4>1, <5>2 DEF PromptState
          <6> QED BY <6>1 DEF Trailing
        <5> QED BY <5>1, <5>2
      <4> QED BY <3>2, <4>2, <4>3 DEF RightVerdict
    <3> QED BY <3>1, <3>2
  <2>2. Snapshot \in MomentsOf(k, transcript)
    <3> HIDE DEF k
    <3> QED BY <1>3, NowIsMoment DEF Snapshot
  <2>3. CloseGate(c, prompt)
    BY <1>1, <1>5
  <2> HIDE DEF prompt
  <2> QED BY <1>3, <2>1, <2>2, <2>3, CloseGateSteps
<1> QED BY <1>4, <1>5

\* A step of a thread of the daemon.
LEMMA ServeSteps ==
    ASSUME SocketInv, NEW c \in Callers, Serve(c) \/ AnsweredElsewhere(c)
    PROVE  SocketInv'
<1>0. CallsInv /\ RegistryInv /\ CellInv /\ transcript \in Seq(U8)
  BY DEF SocketInv, CellInv
<1>1. CASE /\ UNCHANGED <<session, watcher>>
           /\ \/ Receive(c) \/ WriteSnapshot(c) \/ WriteInput(c) \/ RequestFails(c) \/ RejectAttach(c)
              \/ SignalInput(c) \/ SignalCapture(c) \/ SignalFixed(c) \/ ListPromptPatterns(c)
              \/ LookUpPattern(c) \/ CheckPrompt(c) \/ AnsweredElsewhere(c)
  <2>1. RegistryInv' /\ CellInv' /\ transcript' = transcript
    BY <1>0, <1>1, RestStays
  <2>2. CallsInv'
    <3>1. CASE Receive(c)
      BY <1>0, <2>1, <3>1, ReceiveSteps
    <3>2. CASE WriteSnapshot(c)
      BY <1>0, <2>1, <3>2, WriteSnapshotSteps
    <3>3. CASE WriteInput(c)
      BY <1>0, <2>1, <3>3, WriteInputSteps
    <3>4. CASE RequestFails(c)
      <4>1. Close(c)
        BY <3>4 DEF RequestFails
      <4> QED BY <1>0, <2>1, <4>1, CloseSteps
    <3>5. CASE RejectAttach(c) \/ AnsweredElsewhere(c)
      BY <1>0, <2>1, <3>5, ElsewhereSteps
    <3>6. CASE SignalInput(c)
      BY <1>0, <2>1, <3>6, SignalInputSteps
    <3>7. CASE SignalCapture(c)
      BY <1>0, <2>1, <3>7, SignalCaptureSteps
    <3>8. CASE SignalFixed(c) \/ ListPromptPatterns(c)
      BY <1>0, <2>1, <3>8, FixedAndListSteps
    <3>9. CASE LookUpPattern(c)
      BY <1>0, <2>1, <3>9, LookUpSteps
    <3>10. CASE CheckPrompt(c)
      BY <1>0, <2>1, <3>10, CheckPromptSteps
    <3> QED BY <1>1, <3>1, <3>2, <3>3, <3>4, <3>5, <3>6, <3>7, <3>8, <3>9, <3>10
  <2> QED BY <2>1, <2>2 DEF SocketInv
<1>2. CASE WriteResize(c) \/ SignalResize(c)
  <2>1. transcript' = transcript /\ UNCHANGED <<registry, watcher>>
    BY <1>2 DEF WriteResize, SignalResize
  <2>2. CallsInv' /\ size' \in U16 \X U16
    <3>1. CASE WriteResize(c)
      BY <1>0, <2>1, <3>1, WriteResizeSteps
    <3>2. CASE SignalResize(c)
      BY <1>0, <2>1, <3>2, SignalResizeSteps
    <3> QED BY <1>2, <3>1, <3>2
  <2>3. /\ patterns' = patterns /\ nextPattern' = nextPattern /\ given' = given
        /\ window' = window /\ viewer' = viewer
    BY <2>1 DEF registry, watcher
  <2>4. RegistryInv'
    BY <1>0, <2>3 DEF RegistryInv, PatternsForLife
  <2>5. CellInv'
    BY <1>0, <2>1, <2>2, <2>3 DEF CellInv
  <2> QED BY <2>2, <2>4, <2>5 DEF SocketInv
<1>3. CASE RegisterPromptPattern(c) \/ UnregisterPromptPattern(c)
  <2>1. transcript' = transcript /\ size' = size /\ UNCHANGED watcher
    BY <1>3 DEF RegisterPromptPattern, UnregisterPromptPattern
  <2>2. CallsInv' /\ RegistryInv'
    BY <1>0, <1>3, <2>1, RegisterSteps, UnregisterSteps
  <2>3. window' = window /\ viewer' = viewer
    BY <2>1 DEF watcher
  <2>4. CellInv'
    BY <1>0, <2>1, <2>3 DEF CellInv
  <2> QED BY <2>2, <2>4 DEF SocketInv
<1>4. \/ UNCHANGED <<session, watcher>>
         /\ (\/ Receive(c) \/ WriteSnapshot(c) \/ WriteInput(c) \/ RequestFails(c) \/ RejectAttach(c)
             \/ SignalInput(c) \/ SignalCapture(c) \/ SignalFixed(c) \/ ListPromptPatterns(c)
             \/ LookUpPattern(c) \/ CheckPrompt(c) \/ AnsweredElsewhere(c))
      \/ WriteResize(c) \/ SignalResize(c)
      \/ RegisterPromptPattern(c) \/ UnregisterPromptPattern(c)
  <2>1. /\ Receive(c) => UNCHANGED <<session, watcher>>
        /\ WriteSnapshot(c) => UNCHANGED <<session, watcher>>
        /\ WriteInput(c) => UNCHANGED <<session, watcher>>
        /\ RequestFails(c) => UNCHANGED <<session, watcher>>
        /\ RejectAttach(c) => UNCHANGED <<session, watcher>>
        /\ AnsweredElsewhere(c) => UNCHANGED <<session, watcher>>
    BY DEF Receive, WriteSnapshot, WriteInput, RequestFails, RejectAttach, AnsweredElsewhere
  <2>2. /\ SignalInput(c) => UNCHANGED <<session, watcher>>
        /\ SignalCapture(c) => UNCHANGED <<session, watcher>>
        /\ SignalFixed(c) => UNCHANGED <<session, watcher>>
        /\ ListPromptPatterns(c) => UNCHANGED <<session, watcher>>
        /\ LookUpPattern(c) => UNCHANGED <<session, watcher>>
        /\ CheckPrompt(c) => UNCHANGED <<session, watcher>>
    BY DEF SignalInput, SignalCapture, SignalFixed, ListPromptPatterns, LookUpPattern, CheckPrompt
  <2> QED BY <2>1, <2>2 DEF Serve
<1> QED BY <1>1, <1>2, <1>3, <1>4

\* Call, CallBreaks and Return.
LEMMA ClientSteps ==
    ASSUME SocketInv, NEW c \in Clients \union Controllers,
           (\E r \in Request(c) : Call(c, r) \/ CallBreaks(c, r)) \/ Return(c)
    PROVE  SocketInv'
<1>0. CallsInv /\ RegistryInv /\ CellInv /\ transcript \in Seq(U8) /\ c \in Callers
  BY DEF SocketInv, CellInv, Callers
<1>1. PICK k : GoodCall(c, k, transcript) /\ call' = [call EXCEPT ![c] = k]
  <2>1. CASE \E r \in Request(c) : Call(c, r) \/ CallBreaks(c, r)
    <3>1. PICK r \in Request(c) : Call(c, r) \/ CallBreaks(c, r)
      BY <2>1
    <3>2. CASE Call(c, r)
      BY <1>0, <3>2, SentIsGood DEF Call
    <3>3. CASE CallBreaks(c, r)
      <4>1. PICK length \in 0 .. Len(WriteRequest(r)) - 1 : call' = [call EXCEPT ![c] = Broken(r, length)]
        BY <3>3 DEF CallBreaks
      <4>2. GoodCall(c, Broken(r, length), transcript)
        BY <1>0, SentIsGood
      <4> QED BY <4>1, <4>2
    <3> QED BY <3>1, <3>2, <3>3
  <2>2. CASE Return(c)
    BY <1>0, <2>2, IdleIsGood DEF Return
  <2> QED BY <2>1, <2>2
<1>2. UNCHANGED <<session, watcher>>
  BY DEF Call, CallBreaks, Return
<1>3. RegistryInv' /\ CellInv' /\ transcript' = transcript
  BY <1>0, <1>2, RestStays
<1>4. CallsInv'
  BY <1>0, <1>1, <1>3, OneCallChanges
<1> QED BY <1>3, <1>4 DEF SocketInv

\* Output: what the calls have seen of the transcript stays a part of it.
LEMMA OutputSteps ==
    ASSUME SocketInv, NEW bytes \in Chunks, Output(bytes)
    PROVE  SocketInv'
<1>0. CallsInv /\ RegistryInv /\ CellInv /\ transcript \in Seq(U8)
  BY DEF SocketInv, CellInv
<1>1. /\ transcript' = transcript \o bytes
      /\ call' = call /\ size' = size /\ patterns' = patterns /\ nextPattern' = nextPattern
      /\ given' = given /\ window' = window /\ viewer' = viewer
  BY DEF Output, registry, watcher
<1>2. bytes \in Seq(U8)
  BY ControlAssumption DEF ControlAssumption
<1>3. transcript' \in Seq(U8)
  BY <1>0, <1>1, <1>2, ConcatProperties
<1>4. CallsInv'
  <2>1. \A c \in Callers : GoodCall(c, call[c], transcript \o bytes)
    BY <1>0, <1>2, GoodCallStays DEF CallsInv
  <2> QED BY <1>0, <1>1, <2>1 DEF CallsInv
<1>5. RegistryInv'
  BY <1>0, <1>1 DEF RegistryInv, PatternsForLife
<1>6. CellInv'
  BY <1>0, <1>1, <1>3 DEF CellInv
<1> QED BY <1>4, <1>5, <1>6 DEF SocketInv

\* The steps of the viewer and of its window.
LEMMA ViewerSteps ==
    ASSUME SocketInv, ViewerStarts \/ (\E s \in Sizes : WindowChanges(s)) \/ Watcher
    PROVE  SocketInv'
<1>0. CallsInv /\ RegistryInv /\ CellInv /\ transcript \in Seq(U8) /\ Viewer \in Callers
  BY DEF SocketInv, CellInv, Callers
<1>1. transcript' = transcript /\ size' = size /\ patterns' = patterns /\ nextPattern' = nextPattern /\ given' = given
  <2>1. UNCHANGED session
    BY DEF ViewerStarts, WindowChanges, Watcher, ResizeNow, ResizeAnswered, RegisterSignals, TakeSignal
  <2> QED BY <2>1 DEF session, registry
<1>2. window' \in Sizes
  BY <1>0 DEF CellInv, ViewerStarts, WindowChanges, Watcher, ResizeNow, ResizeAnswered, RegisterSignals,
              TakeSignal
<1>v. /\ viewer = [stage |-> viewer.stage, registered |-> viewer.registered, last |-> viewer.last]
      /\ viewer.stage \in {"absent", "reading", "asking", "resting", "ended"}
  BY <1>0 DEF CellInv
<1> DEFINE IsViewer(v) == /\ v = [stage |-> v.stage, registered |-> v.registered, last |-> v.last]
                          /\ v.stage \in {"absent", "reading", "asking", "resting", "ended"}
<1>3. \A stage \in {"absent", "reading", "asking", "resting", "ended"} : IsViewer([viewer EXCEPT !.stage = stage])
  <2> TAKE stage \in {"absent", "reading", "asking", "resting", "ended"}
  <2> DEFINE v == [viewer EXCEPT !.stage = stage]
  <2>1. v = [stage |-> stage, registered |-> viewer.registered, last |-> viewer.last]
    BY <1>v
  <2> HIDE DEF v
  <2>2. IsViewer(v)
    BY <2>1
  <2> QED BY <2>2 DEF v
<1>4. \A x : IsViewer([viewer EXCEPT !.registered = x])
  <2> TAKE x
  <2> DEFINE v == [viewer EXCEPT !.registered = x]
  <2>1. v = [stage |-> viewer.stage, registered |-> x, last |-> viewer.last]
    BY <1>v
  <2> HIDE DEF v
  <2>2. IsViewer(v)
    BY <1>v, <2>1
  <2> QED BY <2>2 DEF v
<1>5. \A l : IsViewer([viewer EXCEPT !.stage = "resting", !.last = l])
  <2> TAKE l
  <2> DEFINE u == [viewer EXCEPT !.stage = "resting"]
             v == [u EXCEPT !.last = l]
  <2>1. u = [stage |-> "resting", registered |-> viewer.registered, last |-> viewer.last]
    BY <1>v
  <2>2. [viewer EXCEPT !.stage = "resting", !.last = l] = v
    OBVIOUS
  <2> HIDE DEF u
  <2>3. v = [stage |-> "resting", registered |-> viewer.registered, last |-> l]
    BY <2>1
  <2> HIDE DEF v
  <2>4. IsViewer(v)
    BY <2>3
  <2> HIDE DEF IsViewer
  <2> QED BY <2>2, <2>4
<1>6. IsViewer(viewer')
  <2> HIDE DEF IsViewer
  <2>0. IsViewer(viewer)
    BY <1>v DEF IsViewer
  <2>1. CASE ViewerStarts \/ TakeSignal
    BY <1>3, <2>1 DEF ViewerStarts, TakeSignal
  <2>2. CASE \E s \in Sizes : WindowChanges(s)
    BY <2>0, <2>2 DEF WindowChanges
  <2>3. CASE ResizeNow
    BY <1>3, <2>3 DEF ResizeNow
  <2>4. CASE ResizeAnswered
    <3>1. CASE Result(Viewer) = NoReply
      BY <1>3, <2>4, <3>1 DEF ResizeAnswered
    <3>2. CASE Result(Viewer) # NoReply
      BY <1>5, <2>4, <3>2 DEF ResizeAnswered
    <3> QED BY <3>1, <3>2
  <2>5. CASE RegisterSignals
    BY <1>4, <2>5 DEF RegisterSignals
  <2> QED BY <2>1, <2>2, <2>3, <2>4, <2>5 DEF Watcher
<1>7. CellInv'
  BY <1>0, <1>1, <1>2, <1>6 DEF CellInv
<1>8. RegistryInv'
  BY <1>0, <1>1 DEF RegistryInv, PatternsForLife
<1>9. CallsInv'
  <2>1. CASE call' = call
    BY <1>0, <1>1, <2>1 DEF CallsInv
  <2>2. CASE ResizeNow /\ call' # call
    <3>1. call' = [call EXCEPT ![Viewer] = Sent(Resize(window))]
      BY <2>2 DEF ResizeNow
    <3>2. Resize(window) \in Request(Viewer)
      <4>1. Viewer \notin Controllers
        BY ControlAssumption DEF ControlAssumption
      <4>2. window \in Sizes
        BY <1>0 DEF CellInv
      <4>3. Resize(window) \in {Resize(s) : s \in Sizes}
        BY <4>2
      <4> QED BY <4>1, <4>3 DEF Request
    <3>3. GoodCall(Viewer, Sent(Resize(window)), transcript)
      BY <1>0, <3>2, SentIsGood
    <3> QED BY <1>0, <1>1, <3>1, <3>3, OneCallChanges
  <2>3. CASE ResizeAnswered
    <3>1. call' = [call EXCEPT ![Viewer] = Idle]
      BY <2>3 DEF ResizeAnswered
    <3>2. GoodCall(Viewer, Idle, transcript)
      BY <1>0, IdleIsGood
    <3> QED BY <1>0, <1>1, <3>1, <3>2, OneCallChanges
  <2>4. call' = call \/ (ResizeNow /\ call' # call) \/ ResizeAnswered
    BY DEF ViewerStarts, WindowChanges, Watcher, RegisterSignals, TakeSignal
  <2> QED BY <2>1, <2>2, <2>3, <2>4
<1> QED BY <1>7, <1>8, <1>9 DEF SocketInv

\* Nothing has been asked yet.
LEMMA InitSocketInv == Init => SocketInv
<1> SUFFICES ASSUME Init PROVE SocketInv
  OBVIOUS
<1>1. /\ call = [c \in Callers |-> Idle] /\ transcript = <<>> /\ size = <<24, 80>>
      /\ patterns = [id \in {} |-> NoPattern] /\ nextPattern = 1 /\ given = {} /\ window \in Sizes
      /\ viewer = [stage |-> "absent", registered |-> FALSE, last |-> <<>>]
  BY DEF Init
<1>2. transcript \in Seq(U8) /\ Len(transcript) = 0
  BY <1>1
<1>3. CallsInv
  <2>1. \A c \in Callers : call[c] = Idle
    BY <1>1
  <2>2. call = [c \in Callers |-> call[c]]
    BY <1>1
  <2> QED BY <1>2, <2>1, <2>2, IdleIsGood DEF CallsInv
<1>4. RegistryInv
  BY <1>1 DEF RegistryInv, PatternsForLife
<1>5. CellInv
  <2>1. size \in U16 \X U16
    <3>1. 24 \in U16 /\ 80 \in U16
      BY DEF U16
    <3> QED BY <1>1, <3>1
  <2>2. viewer.stage = "absent" /\ viewer = [stage |-> viewer.stage, registered |-> viewer.registered, last |-> viewer.last]
    BY <1>1
  <2> QED BY <1>1, <1>2, <2>1, <2>2 DEF CellInv
<1> QED BY <1>3, <1>4, <1>5 DEF SocketInv

\* The pattern that the daemon's thread has looked up was given out under the
\* identifier of the request.
LookedUp ==
    \A c \in Callers : call[c].pattern # NoPattern =>
        [id |-> call[c].request.query.id, pattern |-> call[c].pattern] \in given

\* One call changes, and goes on with its pattern or without one.
LEMMA PatternStays ==
    ASSUME CallsInv, LookedUp, NEW c \in Callers, NEW k, call' = [call EXCEPT ![c] = k],
           given \subseteq given',
           \/ k.pattern = NoPattern
           \/ k.pattern = call[c].pattern /\ k.request = call[c].request
           \/ [id |-> k.request.query.id, pattern |-> k.pattern] \in given
    PROVE  LookedUp'
<1>1. call' = [d \in Callers |-> IF d = c THEN k ELSE call[d]]
  BY DEF CallsInv
<1> SUFFICES ASSUME NEW d \in Callers, call'[d].pattern # NoPattern
             PROVE  [id |-> call'[d].request.query.id, pattern |-> call'[d].pattern] \in given'
  BY DEF LookedUp
<1>2. CASE d = c
  <2>1. call'[d] = k
    BY <1>1, <1>2
  <2>2. [id |-> k.request.query.id, pattern |-> k.pattern] \in given
    BY <2>1 DEF LookedUp
  <2> QED BY <2>1, <2>2
<1>3. CASE d # c
  <2>1. call'[d] = call[d]
    BY <1>1, <1>3
  <2>2. [id |-> call[d].request.query.id, pattern |-> call[d].pattern] \in given
    BY <2>1 DEF LookedUp
  <2> QED BY <2>1, <2>2
<1> QED BY <1>2, <1>3

\* A reply and a closed connection leave what was looked up.
LEMMA PatternAnswered ==
    ASSUME CallsInv, LookedUp, NEW c \in Callers, given \subseteq given',
           \/ \E reply : Reply(c, reply)
           \/ \E effect, reply : ReplyAfter(c, effect, reply)
           \/ Close(c)
    PROVE  LookedUp'
<1>0. IsCall(call[c])
  BY DEF CallsInv, GoodCall
<1>1. ASSUME NEW stream, NEW effect, call' = [call EXCEPT ![c] = Done(call[c], stream, effect)] PROVE LookedUp'
  <2> DEFINE k == Done(call[c], stream, effect)
  <2>1. k.pattern = call[c].pattern /\ k.request = call[c].request
    BY DoneFields
  <2>2. call' = [call EXCEPT ![c] = k]
    BY <1>1
  <2> HIDE DEF k
  <2> QED BY <2>1, <2>2, PatternStays
<1>2. CASE \E reply : Reply(c, reply)
  <2>1. PICK reply : call' = [call EXCEPT ![c] = Replied(c, reply)]
    BY <1>2 DEF Reply
  <2>2. Replied(c, reply) = Done(call[c], WriteReply(reply), call[c].effect)
    BY <1>0, RepliedIsDone
  <2> QED BY <1>1, <2>1, <2>2
<1>3. CASE \E effect, reply : ReplyAfter(c, effect, reply)
  <2>1. PICK effect, reply : call' = [call EXCEPT ![c] = [Replied(c, reply) EXCEPT !.effect = effect]]
    BY <1>3 DEF ReplyAfter
  <2>2. [Replied(c, reply) EXCEPT !.effect = effect] = Done(call[c], WriteReply(reply), effect)
    BY <1>0, RepliedIsDone
  <2> QED BY <1>1, <2>1, <2>2
<1>4. CASE Close(c)
  <2>1. call' = [call EXCEPT ![c] = Closed]
    BY <1>4 DEF Close, Closed
  <2>2. Closed.pattern = NoPattern
    BY DEF Closed, Idle
  <2> QED BY <2>1, <2>2, PatternStays
<1> QED BY <1>2, <1>3, <1>4

\* The fields of a call whose request has been read, and of one whose pattern
\* has been looked up.
LEMMA ReadFields ==
    ASSUME NEW k, IsCall(k), NEW w, NEW r
    PROVE  LET n == [k EXCEPT !.stage = "serving", !.stream = w, !.arrived = r] IN
           n.request = k.request /\ n.pattern = k.pattern
<1> DEFINE m == [k EXCEPT !.stage = "serving"]
           o == [m EXCEPT !.stream = w]
           n == [o EXCEPT !.arrived = r]
<1>1. k = [stage |-> k.stage, request |-> k.request, stream |-> k.stream, since |-> k.since,
           arrived |-> k.arrived, pattern |-> k.pattern, effect |-> k.effect]
  BY DEF IsCall
<1>2. [k EXCEPT !.stage = "serving", !.stream = w, !.arrived = r] = n
  OBVIOUS
<1> HIDE DEF n
<1>3. m = [stage |-> "serving", request |-> k.request, stream |-> k.stream, since |-> k.since,
           arrived |-> k.arrived, pattern |-> k.pattern, effect |-> k.effect]
  BY <1>1
<1> HIDE DEF m
<1>4. o = [stage |-> "serving", request |-> k.request, stream |-> w, since |-> k.since,
           arrived |-> k.arrived, pattern |-> k.pattern, effect |-> k.effect]
  BY <1>3
<1> HIDE DEF o
<1>5. n = [stage |-> "serving", request |-> k.request, stream |-> w, since |-> k.since,
           arrived |-> r, pattern |-> k.pattern, effect |-> k.effect]
  BY <1>4 DEF n
<1> QED BY <1>2, <1>5

LEMMA LookedUpFields ==
    ASSUME NEW k, IsCall(k), NEW r, NEW p
    PROVE  LET n == [k EXCEPT !.stage = "looking", !.arrived = r, !.pattern = p] IN
           n.request = k.request /\ n.pattern = p
<1> DEFINE m == [k EXCEPT !.stage = "looking"]
           o == [m EXCEPT !.arrived = r]
           n == [o EXCEPT !.pattern = p]
<1>1. k = [stage |-> k.stage, request |-> k.request, stream |-> k.stream, since |-> k.since,
           arrived |-> k.arrived, pattern |-> k.pattern, effect |-> k.effect]
  BY DEF IsCall
<1>2. [k EXCEPT !.stage = "looking", !.arrived = r, !.pattern = p] = n
  OBVIOUS
<1> HIDE DEF n
<1>3. m = [stage |-> "looking", request |-> k.request, stream |-> k.stream, since |-> k.since,
           arrived |-> k.arrived, pattern |-> k.pattern, effect |-> k.effect]
  BY <1>1
<1> HIDE DEF m
<1>4. o = [stage |-> "looking", request |-> k.request, stream |-> k.stream, since |-> k.since,
           arrived |-> r, pattern |-> k.pattern, effect |-> k.effect]
  BY <1>3
<1> HIDE DEF o
<1>5. n = [stage |-> "looking", request |-> k.request, stream |-> k.stream, since |-> k.since,
           arrived |-> r, pattern |-> p, effect |-> k.effect]
  BY <1>4 DEF n
<1> QED BY <1>2, <1>5

\* LookUpPattern: what is registered under an identifier was given out under it.
LEMMA LookUpFinds ==
    ASSUME CallsInv, RegistryInv, LookedUp, NEW c \in Callers, LookUpPattern(c), given' = given
    PROVE  LookedUp'
<1> DEFINE id == Arrived(c).query.id
           found == IF id \in DOMAIN patterns THEN patterns[id] ELSE NoPattern
           n == [call[c] EXCEPT !.stage = "looking", !.arrived = Idle.arrived, !.pattern = found]
<1>1. Asking(c, "acquire")
  BY DEF LookUpPattern
<1>2. Arrived(c) = call[c].request /\ IsCall(call[c])
  BY <1>1, AskingFields DEF GoodCall
<1>3. CASE id = 0
  <2>1. CloseGate(c, [state |-> "NotChecked"])
    BY <1>3 DEF LookUpPattern
  <2>2. (\E reply : Reply(c, reply)) \/ Close(c)
    BY <2>1 DEF CloseGate, Answer
  <2> QED BY <2>2, PatternAnswered
<1>4. CASE id # 0
  <2>1. call' = [call EXCEPT ![c] = n]
    BY <1>4 DEF LookUpPattern
  <2>2. id = call[c].request.query.id
    BY <1>2
  <2> HIDE DEF id
  <2>3. id \in DOMAIN patterns => [id |-> id, pattern |-> patterns[id]] \in given
    BY DEF RegistryInv, PatternsForLife
  <2>4. found = NoPattern \/ [id |-> id, pattern |-> found] \in given
    BY <2>3
  <2> HIDE DEF found
  <2>5. n.request = call[c].request /\ n.pattern = found
    BY <1>2, LookedUpFields
  <2> HIDE DEF n
  <2> QED BY <2>1, <2>2, <2>4, <2>5, PatternStays
<1> QED BY <1>3, <1>4

\* A step of a thread of the daemon.
LEMMA ServeLooksUp ==
    ASSUME CallsInv, RegistryInv, LookedUp, NEW c \in Callers, Serve(c) \/ AnsweredElsewhere(c)
    PROVE  LookedUp'
<1>1. CASE \/ WriteSnapshot(c) \/ WriteInput(c) \/ RequestFails(c) \/ RejectAttach(c) \/ AnsweredElsewhere(c)
           \/ SignalInput(c) \/ SignalCapture(c) \/ SignalFixed(c) \/ ListPromptPatterns(c) \/ CheckPrompt(c)
  <2>1. given' = given
    BY <1>1 DEF WriteSnapshot, WriteInput, RequestFails, RejectAttach, AnsweredElsewhere, SignalInput,
                SignalCapture, SignalFixed, ListPromptPatterns, CheckPrompt, session, registry
  <2>2. (\E reply : Reply(c, reply)) \/ (\E effect, reply : ReplyAfter(c, effect, reply)) \/ Close(c)
    <3>1. CASE WriteSnapshot(c) \/ WriteInput(c) \/ RequestFails(c) \/ RejectAttach(c)
      BY <3>1 DEF WriteSnapshot, WriteInput, RequestFails, RejectAttach
    <3>2. CASE AnsweredElsewhere(c)
      BY <3>2 DEF AnsweredElsewhere
    <3>3. CASE SignalInput(c) \/ SignalCapture(c) \/ SignalFixed(c) \/ ListPromptPatterns(c)
      BY <3>3 DEF SignalInput, SignalCapture, SignalFixed, ListPromptPatterns, Answer
    <3>4. CASE CheckPrompt(c)
      <4>1. Close(c) \/ \E prompt : CloseGate(c, prompt)
        BY <3>4 DEF CheckPrompt
      <4> QED BY <4>1 DEF CloseGate, Answer
    <3> QED BY <1>1, <3>1, <3>2, <3>3, <3>4
  <2> QED BY <2>1, <2>2, PatternAnswered
<1>2. CASE WriteResize(c) \/ SignalResize(c)
  <2>1. given' = given
    BY <1>2 DEF WriteResize, SignalResize, registry
  <2>2. \E effect, reply : ReplyAfter(c, effect, reply)
    BY <1>2 DEF WriteResize, SignalResize
  <2> QED BY <2>1, <2>2, PatternAnswered
<1>3. CASE RegisterPromptPattern(c) \/ UnregisterPromptPattern(c)
  <2>1. given \subseteq given'
    BY <1>3 DEF RegisterPromptPattern, UnregisterPromptPattern, Registered
  <2>2. \E reply : Reply(c, reply)
    BY <1>3 DEF RegisterPromptPattern, UnregisterPromptPattern, Registered, Answer
  <2> QED BY <2>1, <2>2, PatternAnswered
<1>4. CASE Receive(c)
  <2>1. given' = given
    BY <1>4 DEF Receive, session, registry
  <2> DEFINE r == ReadRequest(call[c].stream)
             n == [call[c] EXCEPT !.stage = "serving", !.stream = <<>>, !.arrived = r]
  <2>2. Close(c) \/ call' = [call EXCEPT ![c] = n]
    BY <1>4 DEF Receive
  <2>3. IsCall(call[c])
    BY DEF CallsInv, GoodCall
  <2> HIDE DEF r
  <2>4. n.request = call[c].request /\ n.pattern = call[c].pattern
    BY <2>3, ReadFields
  <2> HIDE DEF n
  <2> QED BY <2>1, <2>2, <2>4, PatternAnswered, PatternStays
<1>5. CASE LookUpPattern(c)
  <2>1. given' = given
    BY <1>5 DEF LookUpPattern, session, registry
  <2> QED BY <1>5, <2>1, LookUpFinds
<1> QED BY <1>1, <1>2, <1>3, <1>4, <1>5 DEF Serve

\* What is looked up was given out, at every step.
LEMMA LookedUpSteps ==
    ASSUME SocketInv, LookedUp, [Next]_vars
    PROVE  LookedUp'
<1>0. CallsInv /\ RegistryInv /\ Viewer \in Callers /\ Clients \union Controllers \subseteq Callers
  BY DEF SocketInv, Callers
<1>1. ASSUME NEW c \in Clients \union Controllers,
             (\E r \in Request(c) : Call(c, r) \/ CallBreaks(c, r)) \/ Return(c)
      PROVE  LookedUp'
  <2>1. given' = given
    BY <1>1 DEF Call, CallBreaks, Return, session, registry
  <2>2. PICK k : k.pattern = NoPattern /\ call' = [call EXCEPT ![c] = k]
    <3>1. CASE \E r \in Request(c) : Call(c, r)
      <4>1. PICK r \in Request(c) : call' = [call EXCEPT ![c] = Sent(r)]
        BY <3>1 DEF Call
      <4>2. Sent(r).pattern = NoPattern
        BY NewFields DEF Sent
      <4> QED BY <4>1, <4>2
    <3>2. CASE \E r \in Request(c) : CallBreaks(c, r)
      <4>1. PICK r \in Request(c) : CallBreaks(c, r)
        BY <3>2
      <4>2. PICK length \in 0 .. Len(WriteRequest(r)) - 1 : call' = [call EXCEPT ![c] = Broken(r, length)]
        BY <4>1 DEF CallBreaks
      <4>3. Broken(r, length).pattern = NoPattern
        BY BrokenFields DEF Broken
      <4> QED BY <4>2, <4>3
    <3>3. CASE Return(c)
      BY <3>3, IdleFields DEF Return
    <3> QED BY <1>1, <3>1, <3>2, <3>3
  <2>3. c \in Callers
    BY <1>0
  <2> QED BY <1>0, <2>1, <2>2, <2>3, PatternStays
<1>2. ASSUME NEW c \in Callers, Serve(c) \/ AnsweredElsewhere(c) PROVE LookedUp'
  BY <1>0, <1>2, ServeLooksUp
<1>3. ASSUME (\E bytes \in Chunks : Output(bytes)) \/ ViewerStarts \/ (\E s \in Sizes : WindowChanges(s)) \/ Watcher
      PROVE  LookedUp'
  <2>1. given' = given
    BY <1>3 DEF Output, ViewerStarts, WindowChanges, Watcher, ResizeNow, ResizeAnswered, RegisterSignals,
                TakeSignal, session, registry
  <2>2. CASE call' = call
    BY <2>1, <2>2 DEF LookedUp
  <2>3. CASE ResizeNow /\ call' # call
    <3>1. call' = [call EXCEPT ![Viewer] = Sent(Resize(window))]
      BY <2>3 DEF ResizeNow
    <3>2. Sent(Resize(window)).pattern = NoPattern
      BY NewFields DEF Sent
    <3> QED BY <1>0, <2>1, <3>1, <3>2, PatternStays
  <2>4. CASE ResizeAnswered
    <3>1. call' = [call EXCEPT ![Viewer] = Idle]
      BY <2>4 DEF ResizeAnswered
    <3> QED BY <1>0, <2>1, <3>1, IdleFields, PatternStays
  <2>5. call' = call \/ (ResizeNow /\ call' # call) \/ ResizeAnswered
    BY <1>3 DEF Output, ViewerStarts, WindowChanges, Watcher, RegisterSignals, TakeSignal
  <2> QED BY <2>2, <2>3, <2>4, <2>5
<1>4. CASE UNCHANGED vars
  <2>1. call' = call /\ given' = given
    BY <1>4 DEF vars
  <2> QED BY <2>1 DEF LookedUp
<1> QED BY <1>1, <1>2, <1>3, <1>4 DEF Next

\* What is known of calls, registry and cell stays true.
LEMMA SocketInvariant == Spec => []SocketInv
<1>1. Init => SocketInv
  BY InitSocketInv
<1>2. SocketInv /\ [Next]_vars => SocketInv'
  <2> SUFFICES ASSUME SocketInv, [Next]_vars PROVE SocketInv'
    OBVIOUS
  <2>1. ASSUME NEW c \in Clients \union Controllers,
               (\E r \in Request(c) : Call(c, r) \/ CallBreaks(c, r)) \/ Return(c)
        PROVE  SocketInv'
    BY <2>1, ClientSteps
  <2>2. ASSUME NEW c \in Callers, Serve(c) \/ AnsweredElsewhere(c) PROVE SocketInv'
    BY <2>2, ServeSteps
  <2>3. ASSUME NEW bytes \in Chunks, Output(bytes) PROVE SocketInv'
    BY <2>3, OutputSteps
  <2>4. ASSUME ViewerStarts \/ (\E s \in Sizes : WindowChanges(s)) \/ Watcher PROVE SocketInv'
    BY <2>4, ViewerSteps
  <2>5. CASE UNCHANGED vars
    <3>1. call' = call /\ transcript' = transcript /\ UNCHANGED <<session, watcher>>
      BY <2>5 DEF vars, session, registry, watcher
    <3>2. RegistryInv' /\ CellInv'
      BY <3>1, RestStays DEF SocketInv
    <3>3. CallsInv'
      BY <3>1 DEF SocketInv, CallsInv
    <3> QED BY <3>2, <3>3 DEF SocketInv
  <2> QED BY <2>1, <2>2, <2>3, <2>4, <2>5 DEF Next
<1> QED BY <1>1, <1>2, PTL DEF Spec

\* What is looked up was given out.
LEMMA LookedUpInvariant == Spec => []LookedUp
<1>1. Init => LookedUp
  <2> SUFFICES ASSUME Init PROVE LookedUp
    OBVIOUS
  <2>1. \A c \in Callers : call[c] = Idle
    BY DEF Init
  <2> QED BY <2>1, IdleFields DEF LookedUp
<1>2. SocketInv /\ LookedUp /\ [Next]_vars => LookedUp'
  BY LookedUpSteps
<1> QED BY <1>1, <1>2, SocketInvariant, PTL DEF Spec

-----------------------------------------------------------------------------
(* What follows.                                                           *)

\* Every identifier in use is below the one given out next, every pattern that
\* a thread goes on with is a registered one, and the fields have their types.
THEOREM SocketTypeCorrect == Spec => []TypeOK
<1>1. SocketInv => TypeOK
  <2> SUFFICES ASSUME SocketInv PROVE TypeOK
    OBVIOUS
  <2>1. CallsInv /\ RegistryInv /\ CellInv
    BY DEF SocketInv
  <2>2. DOMAIN patterns \subseteq 1 .. nextPattern - 1
    <3> SUFFICES ASSUME NEW id \in DOMAIN patterns PROVE id \in 1 .. nextPattern - 1
      OBVIOUS
    <3> DEFINE g == [id |-> id, pattern |-> patterns[id]]
    <3>1. g \in given
      BY <2>1 DEF RegistryInv, PatternsForLife
    <3>2. g.id = id
      OBVIOUS
    <3> HIDE DEF g
    <3> QED BY <2>1, <3>1, <3>2 DEF RegistryInv
  <2>3. \A c \in Callers :
           /\ call[c].stage \in {"idle", "sent", "serving", "looking", "replied"}
           /\ call[c].pattern \in Patterns \union {NoPattern}
           /\ call[c].effect \in Effect
    BY <2>1 DEF CallsInv, GoodCall, Stages
  <2> QED BY <2>1, <2>2, <2>3 DEF TypeOK, CellInv
<1> QED BY <1>1, SocketInvariant, PTL

\* An identifier names the pattern it was given out for, or nothing any more.
THEOREM PatternsNeverReused == Spec => []PatternsForLife
<1>1. SocketInv => PatternsForLife
  BY DEF SocketInv, RegistryInv
<1> QED BY <1>1, SocketInvariant, PTL

\* The daemon handles the request the client wrote, whole and within the limit,
\* and nothing in its place otherwise.
THEOREM RequestsFaithful == Spec => []RequestFaithful
<1>1. SocketInv => RequestFaithful
  <2> SUFFICES ASSUME SocketInv, NEW c \in Callers
               PROVE  LET r == call[c].request IN
                      /\ call[c].stage = "sent" /\ r # Idle.request /\ ~TooLong(r) => ReadRequest(call[c].stream) = r
                      /\ call[c].stage = "serving" => call[c].arrived = r /\ ~TooLong(r)
    BY DEF RequestFaithful
  <2>1. GoodCall(c, call[c], transcript)
    BY DEF SocketInv, CallsInv
  <2>2. ASSUME call[c].stage = "sent", call[c].request # Idle.request, ~TooLong(call[c].request)
        PROVE  ReadRequest(call[c].stream) = call[c].request
    <3>1. call[c].request \in Request(c) /\ call[c].stream = WriteRequest(call[c].request)
      BY <2>1, <2>2 DEF GoodCall
    <3>2. ReadRequest(WriteRequest(call[c].request))
             = IF TooLong(call[c].request) THEN Refused ELSE call[c].request
      BY <3>1, RequestRoundTrip
    <3> QED BY <2>2, <3>1, <3>2
  <2>3. call[c].stage = "serving" => call[c].arrived = call[c].request /\ ~TooLong(call[c].request)
    BY <2>1 DEF GoodCall
  <2> QED BY <2>2, <2>3
<1> QED BY <1>1, SocketInvariant, PTL

\* A smaller number needs no more bytes.
LEMMA FitsBelow ==
    ASSUME NEW m \in Nat, NEW n \in 0 .. m, NEW width \in Nat, Fits(m, width)
    PROVE  Fits(n, width)
<1> DEFINE s == Shifted(m, width)
           z == Shifted(n, width)
           T == {k \in Nat : z[k] <= s[k]}
<1>0. n \in Nat
  OBVIOUS
<1>1. /\ s[0] = m /\ \A k \in 1 .. width : s[k] = s[k - 1] \div 256
      /\ \A k \in 0 .. width : s[k] \in Nat
  BY ShiftedUnfolds
<1>2. /\ z[0] = n /\ \A k \in 1 .. width : z[k] = z[k - 1] \div 256
      /\ \A k \in 0 .. width : z[k] \in Nat
  BY <1>0, ShiftedUnfolds
<1>3. s[width] = 0
  BY DEF Fits
<1> HIDE DEF s, z
<1>4. 0 \in T
  BY <1>1, <1>2
<1>5. ASSUME NEW k \in 0 .. (width - 1), k \in T PROVE k + 1 \in T
  <2>1. k \in 0 .. width /\ k + 1 \in 1 .. width /\ (k + 1) - 1 = k
    OBVIOUS
  <2>2. s[k + 1] = s[k] \div 256 /\ z[k + 1] = z[k] \div 256
    BY <1>1, <1>2, <2>1
  <2>3. s[k] \in Nat /\ z[k] \in Nat /\ z[k] <= s[k]
    BY <1>1, <1>2, <1>5, <2>1
  <2>4. z[k] \div 256 <= s[k] \div 256
    BY <2>3
  <2> QED BY <2>1, <2>2, <2>4
<1>6. width \in T
  <2>1. \A k \in 0 .. width : k \in T
    <3> HIDE DEF T
    <3> QED BY <1>4, <1>5, UpTo
  <2>2. width \in 0 .. width
    OBVIOUS
  <2> HIDE DEF T
  <2> QED BY <2>1, <2>2
<1>7. z[width] <= 0 /\ z[width] \in Nat
  <2>1. width \in 0 .. width
    OBVIOUS
  <2> QED BY <1>2, <1>3, <1>6, <2>1
<1> QED BY <1>7 DEF Fits, z

\* What a client reads of a frame is what was written.
LEMMA FrameReplyIsRead ==
    ASSUME NEW m \in Seq(U8), Fits(Len(m), 8), ReadReply("capture", Frame(m)) # NoReply
    PROVE  ReadReply("capture", Frame(m)).bytes = m
<1> DEFINE s == Frame(m)
<1>1. <<>> \in Seq(U8) /\ Len(<<>>) + 1 = 1
  OBVIOUS
<1>2. FrameAt(<<>> \o s, Len(<<>>) + 1) = m
  BY <1>1, FrameIsRead
<1>3. s \in Seq(U8)
  <2>1. Len(m) \in Nat /\ 8 \in Nat
    BY LenProperties
  <2>2. Digits(Len(m), 8) \in Seq(U8)
    BY <2>1, DigitsAreBytes
  <2> QED BY <2>2, ConcatProperties DEF Frame
<1>4. <<>> \o s = s
  BY <1>3, ConcatEmptySeq
<1>5. FrameAt(s, 1) = m
  BY <1>1, <1>2, <1>4
<1> HIDE DEF s
<1>6. CASE FrameReadable(s, 1)
  <2>1. ReadReply("capture", s) = [kind |-> "frame", bytes |-> FrameAt(s, 1)]
    BY <1>6 DEF ReadReply
  <2> QED BY <1>5, <2>1 DEF s
<1>7. CASE ~FrameReadable(s, 1)
  <2>1. ReadReply("capture", s) = NoReply
    BY <1>7 DEF ReadReply
  <2> QED BY <2>1 DEF s
<1> QED BY <1>6, <1>7

\* What a client reads of a Signal reply is the event.
LEMMA EventIsRead ==
    ASSUME NEW s, s = Digits(1, 4) \o <<s[5]>>
    PROVE  ReadReply("signal", s) = [kind |-> "event", event |-> s[5]]
<1>1. SignalReadable(s)
  BY ArchiveIsRead
<1> QED BY <1>1 DEF ReadReply

\* What `as` keeps differs from the number by a multiple of the width.
LEMMA CutDifference ==
    \A n \in Int : (ToU16(n) - n) % 65536 = 0 /\ (n - ToByte(n)) % 256 = 0
<1> TAKE n \in Int
<1>1. PICK p \in Int : n = 65536 * p + (n % 65536)
  <2>1. n \div 65536 \in Int /\ n = 65536 * (n \div 65536) + (n % 65536)
    OBVIOUS
  <2> QED BY <2>1
<1>2. PICK q \in Int : n = 256 * q + (n % 256)
  <2>1. n \div 256 \in Int /\ n = 256 * (n \div 256) + (n % 256)
    OBVIOUS
  <2> QED BY <2>1
<1>3. (n % 65536) - n = 65536 * (-p)
  BY <1>1
<1>4. n - (n % 256) = 256 * q
  BY <1>2
<1>5. (65536 * (-p)) % 65536 = 0 /\ (256 * q) % 256 = 0
  OBVIOUS
<1> QED BY <1>3, <1>4, <1>5 DEF ToU16, ToByte

\* A call that returns without an error had its effect while it was under way:
\* the input was accepted, the size was set, the capture is of a moment of it.
THEOREM AnswersAreTrue == Spec => []AnswersTrue
<1>1. SocketInv => AnswersTrue
  <2> SUFFICES ASSUME SocketInv, NEW c \in Callers, call[c].stage = "replied", Result(c) # NoReply
               PROVE  LET r == call[c].request
                          result == Result(c)
                          Resize16(rows, columns) ==
                              /\ call[c].effect.effect = "resize"
                              /\ (call[c].effect.size[1] - rows) % 65536 = 0
                              /\ (call[c].effect.size[2] - columns) % 65536 = 0
                      IN  /\ r.verb = "capture" => result.bytes \in Moments(c)
                          /\ r.verb = "resize" => call[c].effect = Resized(<<r.rows, r.columns>>)
                          /\ r.verb = "programmaticInput" => call[c].effect = Accepted("Programmatic", r.bytes)
                          /\ r.verb = "viewerInput" => call[c].effect = Accepted("Viewer", r.bytes)
                          /\ r.verb = "signal" =>
                                /\ r.query.query = "capture" => result.event.bytes \in Moments(c)
                                /\ r.query.query = "resize" => Resize16(r.query.rows, r.query.columns)
                                /\ r.query.query = "input" =>
                                      /\ call[c].effect.effect = "input"
                                      /\ call[c].effect.source = "Programmatic"
                                      /\ [i \in DOMAIN r.query.bytes |->
                                             (r.query.bytes[i] - call[c].effect.bytes[i]) % 256]
                                            = [i \in DOMAIN call[c].effect.bytes |-> 0]
    BY DEF AnswersTrue
  <2> DEFINE k == call[c]
             r == k.request
             q == r.query
  <2>1. GoodCall(c, k, transcript) /\ transcript \in Seq(U8)
    BY DEF SocketInv, CallsInv, CellInv
  <2>2. Answered(k, transcript) /\ k.since \in 0 .. Len(transcript)
    BY <2>1 DEF GoodCall
  <2>3. Moments(c) = MomentsOf(k, transcript)
    BY DEF Moments, MomentsOf
  <2>4. Result(c) = ReadReply(r.verb, k.stream)
    BY DEF Result
  <2>5. ASSUME r.verb = "capture" PROVE Result(c).bytes \in Moments(c)
    <3>1. PICK n \in k.since .. Len(transcript) : k.stream = Frame(Window(SubSeq(transcript, 1, n)))
      BY <2>2, <2>5 DEF Answered, MomentsOf
    <3> DEFINE m == Window(SubSeq(transcript, 1, n))
    <3>2. SubSeq(transcript, 1, n) \in Seq(U8)
      <4>0. Len(transcript) \in Nat /\ n \in 0 .. Len(transcript)
        BY <2>1, <2>2, LenProperties
      <4>1. n \in Nat /\ 1 \in Nat /\ 1 >= 1 /\ 1 + n - 1 <= Len(transcript) /\ 1 + n - 1 = n
        BY <4>0
      <4>2. SubSeq(transcript, 1, 1 + n - 1) \in Seq(U8)
        BY <2>1, <4>1, Within
      <4> QED BY <4>1, <4>2
    <3>3. m \in Seq(U8) /\ Len(m) <= ByteCapacity
      BY <3>2, WindowOf
    <3>4. Fits(Len(m), 8)
      <4>1. ByteCapacity \in Nat /\ Fits(ByteCapacity, 8) /\ 8 \in Nat
        BY WireAssumption, ControlAssumption DEF WireAssumption, ControlAssumption
      <4> HIDE DEF m
      <4>2. Len(m) \in 0 .. ByteCapacity
        BY <3>3, <4>1, LenProperties
      <4> QED BY <4>1, <4>2, FitsBelow
    <3>5. m \in MomentsOf(k, transcript)
      BY DEF MomentsOf
    <3> HIDE DEF m
    <3>6. k.stream = Frame(m)
      BY <3>1 DEF m
    <3>7. Result(c) = ReadReply("capture", Frame(m))
      BY <2>4, <2>5, <3>6
    <3>8. Result(c).bytes = m
      BY <3>3, <3>4, <3>7, FrameReplyIsRead
    <3> QED BY <2>3, <3>5, <3>8
  <2>6. /\ r.verb = "resize" => k.effect = Resized(<<r.rows, r.columns>>)
        /\ r.verb = "programmaticInput" => k.effect = Accepted("Programmatic", r.bytes)
        /\ r.verb = "viewerInput" => k.effect = Accepted("Viewer", r.bytes)
    BY <2>2 DEF Answered
  <2>7. ASSUME r.verb = "signal"
        PROVE  Result(c).event = k.stream[5] /\ TrueEvent(k, k.stream[5], transcript) /\ q \in Query
    <3>1. k.stream = Digits(1, 4) \o <<k.stream[5]>> /\ TrueEvent(k, k.stream[5], transcript)
      BY <2>2, <2>7 DEF Answered
    <3>2. Result(c) = [kind |-> "event", event |-> k.stream[5]]
      BY <2>4, <2>7, <3>1, EventIsRead
    <3>3. r \in Request(c)
      BY <2>1, <2>7, IdleFields DEF GoodCall
    <3>4. q \in Query
      BY <2>7, <3>3, RequestFields
    <3> QED BY <3>1, <3>2, <3>4
  <2>8. ASSUME r.verb = "signal", q.query = "capture" PROVE Result(c).event.bytes \in Moments(c)
    BY <2>3, <2>7, <2>8 DEF TrueEvent
  <2>9. ASSUME r.verb = "signal", q.query = "resize"
        PROVE  /\ k.effect.effect = "resize"
               /\ (k.effect.size[1] - q.rows) % 65536 = 0
               /\ (k.effect.size[2] - q.columns) % 65536 = 0
    <3>1. k.effect = Resized(<<ToU16(q.rows), ToU16(q.columns)>>)
      BY <2>7, <2>9 DEF TrueEvent
    <3>2. q.rows \in Int /\ q.columns \in Int
      <4>1. q \in Query
        BY <2>7, <2>9
      <4> HIDE DEF q
      <4> QED BY <2>9, <4>1, QueryFields
    <3> HIDE DEF k, q
    <3>3. k.effect.effect = "resize" /\ k.effect.size = <<ToU16(q.rows), ToU16(q.columns)>>
      BY <3>1 DEF Resized
    <3>4. k.effect.size[1] = ToU16(q.rows) /\ k.effect.size[2] = ToU16(q.columns)
      BY <3>3
    <3>5. (ToU16(q.rows) - q.rows) % 65536 = 0 /\ (ToU16(q.columns) - q.columns) % 65536 = 0
      BY <3>2, CutDifference
    <3> QED BY <3>3, <3>4, <3>5
  <2>10. ASSUME r.verb = "signal", q.query = "input"
         PROVE  /\ k.effect.effect = "input" /\ k.effect.source = "Programmatic"
                /\ [i \in DOMAIN q.bytes |-> (q.bytes[i] - k.effect.bytes[i]) % 256]
                      = [i \in DOMAIN k.effect.bytes |-> 0]
    <3> DEFINE low == [i \in DOMAIN q.bytes |-> ToByte(q.bytes[i])]
    <3>1. k.effect = Accepted("Programmatic", low)
      BY <2>7, <2>10 DEF TrueEvent
    <3>2. q.bytes \in Seq(Int)
      <4>1. q \in Query
        BY <2>7, <2>10
      <4> HIDE DEF q
      <4> QED BY <2>10, <4>1, QueryFields
    <3> HIDE DEF k, q
    <3>3. DOMAIN low = DOMAIN q.bytes /\ \A i \in DOMAIN q.bytes : low[i] = ToByte(q.bytes[i])
      OBVIOUS
    <3> HIDE DEF low
    <3>4. k.effect.effect = "input" /\ k.effect.source = "Programmatic" /\ k.effect.bytes = low
      BY <3>1 DEF Accepted
    <3>5. \A i \in DOMAIN q.bytes : (q.bytes[i] - low[i]) % 256 = 0
      <4> TAKE i \in DOMAIN q.bytes
      <4>1. q.bytes[i] \in Int
        BY <3>2
      <4> QED BY <3>3, <4>1, CutDifference
    <3>6. [i \in DOMAIN q.bytes |-> (q.bytes[i] - low[i]) % 256] = [i \in DOMAIN low |-> 0]
      BY <3>3, <3>5
    <3> QED BY <3>4, <3>6
  <2> QED BY <2>5, <2>6, <2>8, <2>9, <2>10
<1> QED BY <1>1, SocketInvariant, PTL

\* A prompt is judged by the pattern that was given out under the identifier of
\* the request, and the trailing bytes are those that a snapshot of the call had
\* behind the last occurrence of a literal, or behind a match of a regular
\* expression that no other match follows.
THEOREM PromptsAreJudged == Spec => []PromptVerdict
<1>1. SocketInv /\ LookedUp => PromptVerdict
  <2> SUFFICES ASSUME SocketInv, LookedUp, NEW c \in Controllers, Acquired(c)
               PROVE  LET pattern == call[c].pattern
                          count   == Trailing(Result(c).event.prompt)
                      IN  IF pattern = NoPattern
                          THEN \E t \in Moments(c) : count = Len(t)
                          ELSE /\ [id |-> call[c].request.query.id, pattern |-> pattern] \in given
                               /\ \E t \in Moments(c) : RightCount(pattern, count, t)
    BY DEF PromptVerdict
  <2> DEFINE k == call[c]
  <2>1. /\ k.stage = "replied" /\ Result(c).kind = "event" /\ Result(c).event.event = "acquired"
        /\ Result(c).event.prompt.state # "NotChecked"
    BY DEF Acquired
  <2>c. c \in Callers
    BY DEF Callers
  <2>2. GoodCall(c, k, transcript)
    BY <2>c DEF SocketInv, CallsInv
  <2>3. Answered(k, transcript) /\ (k.request = Idle.request \/ k.request \in Request(c))
    BY <2>1, <2>2 DEF GoodCall
  <2>4. k.request.verb = "signal"
    <3>1. CASE k.request = Idle.request
      <4>1. k.request.verb = "none"
        BY <3>1, IdleFields
      <4>2. Result(c) = NoReply
        BY <4>1 DEF Result, ReadReply
      <4>3. Result(c).kind = "error"
        BY <4>2 DEF NoReply
      <4> QED BY <2>1, <4>3
    <3>2. CASE k.request \in Request(c)
      BY <3>2, RequestFields
    <3> QED BY <2>3, <3>1, <3>2
  <2>5. k.stream = Digits(1, 4) \o <<k.stream[5]>> /\ TrueEvent(k, k.stream[5], transcript)
    BY <2>3, <2>4 DEF Answered
  <2>6. Result(c) = [kind |-> "event", event |-> k.stream[5]]
    BY <2>4, <2>5, EventIsRead DEF Result
  <2> DEFINE e == k.stream[5]
  <2>7. Result(c).event = e
    BY <2>6
  <2>8. Moments(c) = MomentsOf(k, transcript)
    BY DEF Moments, MomentsOf
  <2>l. k.pattern # NoPattern => [id |-> k.request.query.id, pattern |-> k.pattern] \in given
    BY <2>c DEF LookedUp
  <2> HIDE DEF k
  <2>9. \E m \in MomentsOf(k, transcript) : RightVerdict(k.pattern, Trailing(e.prompt), m)
    BY <2>1, <2>5, <2>7 DEF TrueEvent
  <2>10. k.pattern = NoPattern => \E m \in MomentsOf(k, transcript) : Trailing(e.prompt) = Len(m)
    BY <2>9 DEF RightVerdict
  <2>11. k.pattern # NoPattern => \E m \in MomentsOf(k, transcript) : RightCount(k.pattern, Trailing(e.prompt), m)
    BY <2>9 DEF RightVerdict
  <2> QED BY <2>7, <2>8, <2>10, <2>11, <2>l DEF k
<1> QED BY <1>1, SocketInvariant, LookedUpInvariant, PTL

=============================================================================
