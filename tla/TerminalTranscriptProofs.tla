---------------------- MODULE TerminalTranscriptProofs ----------------------
(***************************************************************************)
(* Proofs about the scrollback's operators, for every byte budget, every   *)
(* scrollback and every delta: what the loop of reclaim_scrollback leaves. *)
(***************************************************************************)
EXTENDS TerminalTranscript, FiniteSets, FiniteSetTheorems, WellFoundedInduction, TLAPS

Delta == [sequence: Nat, from: Nat, to: Nat]

-----------------------------------------------------------------------------
(* The loop as a sequence of passes.                                       *)

\* A set of naturals that is not empty has a least element.
LEMMA NatMin ==
    ASSUME NEW T, T \subseteq Nat, T # {}
    PROVE  \E x \in T : \A y \in T : x <= y
<1> DEFINE R == OpToRel(<, Nat)
<1>1. IsWellFoundedOn(R, Nat)
  BY NatLessThanWellFounded
<1>2. \A x, y \in Nat : x < y => <<x, y>> \in R
  BY DEF OpToRel
<1> HIDE DEF R
<1>3. \E x \in T : \A y \in T : ~ (<<y, x>> \in R)
  BY <1>1, WFMin
<1>4. PICK x \in T : \A y \in T : ~ (<<y, x>> \in R)
  BY <1>3
<1>5. ASSUME NEW y \in T PROVE x <= y
  <2>1. x \in Nat /\ y \in Nat /\ ~(y < x)
    BY <1>2, <1>4
  <2> QED BY <2>1
<1> QED BY <1>5

\* p holds the scrollback after each of n passes through the loop.
IsPasses(p, t, capacity, n) ==
    p = [k \in 0 .. n |-> IF k = 0 THEN t ELSE ReclaimPass(p[k - 1], capacity)]

\* The loop can be run for any number of passes (by induction on their number).
LEMMA PassesExist ==
    ASSUME NEW t, NEW capacity, NEW n \in Nat
    PROVE  \E p : IsPasses(p, t, capacity, n)
<1> DEFINE Defined(m) == \E p : IsPasses(p, t, capacity, m)
           undefined == {m \in Nat : ~Defined(m)}
<1>1. Defined(0)
  <2> DEFINE p == [k \in 0 .. 0 |-> t]
  <2>1. p = [k \in 0 .. 0 |-> IF k = 0 THEN t ELSE ReclaimPass(p[k - 1], capacity)]
    OBVIOUS
  <2> QED BY <2>1 DEF IsPasses
<1>2. ASSUME NEW m \in Nat, Defined(m) PROVE Defined(m + 1)
  <2>1. PICK p : p = [k \in 0 .. m |-> IF k = 0 THEN t ELSE ReclaimPass(p[k - 1], capacity)]
    BY <1>2 DEF IsPasses
  <2> DEFINE q == [k \in 0 .. (m + 1) |-> IF k = 0 THEN t ELSE ReclaimPass(p[k - 1], capacity)]
  <2>2. ASSUME NEW k \in 0 .. (m + 1), k # 0 PROVE q[k - 1] = p[k - 1]
    <3>1. k - 1 \in 0 .. m /\ k - 1 \in 0 .. (m + 1)
      BY <2>2
    <3> QED BY <2>1, <3>1
  <2>3. q = [k \in 0 .. (m + 1) |-> IF k = 0 THEN t ELSE ReclaimPass(q[k - 1], capacity)]
    BY <2>2
  <2> QED BY <2>3 DEF IsPasses
<1> HIDE DEF Defined
<1>3. undefined = {}
  <2> SUFFICES ASSUME undefined # {} PROVE FALSE
    OBVIOUS
  <2>1. PICK m \in undefined : \A y \in undefined : m <= y
    BY NatMin
  <2>2. m # 0 /\ m - 1 \in Nat /\ m - 1 \notin undefined
    BY <2>1, <1>1
  <2> QED BY <2>2, <1>2
<1>4. Defined(n)
  BY <1>3
<1> QED BY <1>4 DEF Defined

\* ReclaimScrollback is what the last of the passes leaves.
LEMMA ReclaimUnfolds ==
    ASSUME NEW t, NEW capacity, Len(t.deltas) \in Nat
    PROVE  \E p : /\ p[0] = t
                  /\ \A k \in 1 .. Len(t.deltas) : p[k] = ReclaimPass(p[k - 1], capacity)
                  /\ ReclaimScrollback(t, capacity) = p[Len(t.deltas)]
<1> DEFINE n == Len(t.deltas)
           passes[k \in 0 .. n] == IF k = 0 THEN t ELSE ReclaimPass(passes[k - 1], capacity)
<1>0. n \in Nat
  OBVIOUS
<1> HIDE DEF n
<1>1. \E p : IsPasses(p, t, capacity, n)
  BY <1>0, PassesExist
<1>2. passes = [k \in 0 .. n |-> IF k = 0 THEN t ELSE ReclaimPass(passes[k - 1], capacity)]
  BY <1>1 DEF IsPasses
<1>3. ReclaimScrollback(t, capacity) = passes[n]
  BY DEF ReclaimScrollback, n
<1> HIDE DEF passes, n
<1>4. passes[0] = t /\ \A k \in 1 .. n : passes[k] = ReclaimPass(passes[k - 1], capacity)
  BY <1>2 DEF n
<1> QED BY <1>3, <1>4 DEF n
-----------------------------------------------------------------------------
(* What every pass keeps.                                                  *)

\* The deltas hold bytes that were appended, in order and each byte once.
Ordered(deltas) ==
    /\ \A i \in DOMAIN deltas : 1 <= deltas[i].from /\ deltas[i].from <= deltas[i].to
    /\ \A i, j \in DOMAIN deltas : i < j => deltas[i].to < deltas[j].from

\* The scrollback t is the newest bytes, t.retained of them, of the total bytes
\* appended so far, in deltas numbered without gaps up to last.
IsWindow(t, total, last) ==
    /\ t \in [deltas: Seq(Delta), retained: Nat]
    /\ t.retained <= total
    /\ Ordered(t.deltas)
    /\ RetainedBytes(t.deltas) = (total - t.retained + 1) .. total
    /\ \A i \in DOMAIN t.deltas : t.deltas[i].sequence + Len(t.deltas) = last + i

\* Membership in the retained bytes, in terms of positions.
LEMMA RetainedAt ==
    ASSUME NEW deltas, NEW b
    PROVE  b \in RetainedBytes(deltas) <=> \E i \in DOMAIN deltas : b \in deltas[i].from .. deltas[i].to
BY DEF RetainedBytes

\* The oldest delta starts where the window does.
LEMMA OldestStarts ==
    ASSUME NEW t, NEW total \in Nat, NEW last \in Nat, IsWindow(t, total, last), t.deltas # <<>>
    PROVE  /\ Head(t.deltas) = t.deltas[1] /\ 1 \in DOMAIN t.deltas /\ t.deltas[1] \in Delta
           /\ t.deltas[1].from = total - t.retained + 1
           /\ t.deltas[1].to <= total
           /\ Size(Head(t.deltas)) \in 1 .. t.retained
<1> DEFINE s == t.deltas
<1>1. /\ s \in Seq(Delta) /\ t.retained \in Nat /\ t.retained <= total /\ Ordered(s)
      /\ RetainedBytes(s) = (total - t.retained + 1) .. total
  BY DEF IsWindow
<1> HIDE DEF s
<1>2. 1 \in DOMAIN s /\ Head(s) = s[1] /\ s[1] \in Delta /\ DOMAIN s = 1 .. Len(s) /\ Len(s) \in Nat
  BY <1>1 DEF s
<1>3. s[1].from \in Nat /\ s[1].to \in Nat /\ 1 <= s[1].from /\ s[1].from <= s[1].to
  BY <1>1, <1>2 DEF Delta, Ordered
<1>4. s[1].from \in RetainedBytes(s) /\ s[1].to \in RetainedBytes(s)
  BY <1>2, <1>3, RetainedAt
<1>5. total - t.retained + 1 <= s[1].from /\ s[1].to <= total
  BY <1>1, <1>3, <1>4
<1>6. total - t.retained + 1 \in RetainedBytes(s)
  BY <1>1, <1>3, <1>5
<1>7. PICK i \in DOMAIN s : total - t.retained + 1 \in s[i].from .. s[i].to
  BY <1>6, RetainedAt
<1>8. i = 1 \/ s[1].to < s[i].from
  BY <1>1, <1>2 DEF Ordered
<1>9. s[i] \in Delta /\ s[i].from \in Nat /\ s[i].to \in Nat
  <2>1. s[i] \in Delta
    BY <1>1, <1>2
  <2> QED BY <2>1 DEF Delta
<1>10. s[1].from = total - t.retained + 1
  <2>1. CASE i = 1
    BY <1>1, <1>3, <1>5, <1>7, <2>1
  <2>2. CASE s[1].to < s[i].from
    BY <1>1, <1>3, <1>5, <1>7, <1>9, <2>2
  <2> QED BY <1>8, <2>1, <2>2
<1>11. Size(Head(s)) = s[1].to - s[1].from + 1
  BY <1>2 DEF Size
<1>12. s[1].to - s[1].from + 1 \in 1 .. t.retained
  <2>1. s[1].to - s[1].from + 1 <= t.retained /\ s[1].to - s[1].from + 1 >= 1
    BY <1>1, <1>3, <1>5, <1>10
  <2> QED BY <1>1, <1>3, <2>1
<1>13. Size(Head(s)) \in 1 .. t.retained
  BY <1>11, <1>12
<1>14. s[1].from = total - t.retained + 1 /\ s[1].to <= total /\ Size(Head(s)) \in 1 .. t.retained
  BY <1>5, <1>10, <1>13
<1> QED BY <1>2, <1>14, Zenon DEF s

\* A pass keeps the window; one that has something to do takes a delta out or
\* meets the budget exactly, and none goes below the budget.
LEMMA PassKeepsWindow ==
    ASSUME NEW t, NEW total \in Nat, NEW last \in Nat, NEW capacity \in Nat \ {0},
           IsWindow(t, total, last)
    PROVE  LET u == ReclaimPass(t, capacity) IN
           /\ IsWindow(u, total, last)
           /\ t.retained <= capacity => u = t
           /\ t.retained > capacity =>
                /\ u.retained >= capacity
                /\ u.retained = capacity \/ Len(u.deltas) = Len(t.deltas) - 1
<1> DEFINE s == t.deltas
           u == ReclaimPass(t, capacity)
           r == t.retained
           excess == r - capacity
<1>1. /\ s \in Seq(Delta) /\ r \in Nat /\ r <= total /\ Ordered(s)
      /\ RetainedBytes(s) = (total - r + 1) .. total
      /\ \A i \in DOMAIN s : s[i].sequence + Len(s) = last + i
  BY DEF IsWindow
<1>d. u = IF r <= capacity \/ s = <<>> THEN t
          ELSE IF Size(Head(s)) > excess
          THEN [deltas |-> <<[Head(s) EXCEPT !.from = @ + excess]>> \o Tail(s), retained |-> r - excess]
          ELSE [deltas |-> Tail(s), retained |-> r - Size(Head(s))]
  BY DEF ReclaimPass
<1> SUFFICES /\ IsWindow(u, total, last)
             /\ r <= capacity => u = t
             /\ r > capacity => /\ u.retained >= capacity
                                /\ u.retained = capacity \/ Len(u.deltas) = Len(s) - 1
  OBVIOUS
<1> HIDE DEF u
<1>2. CASE r <= capacity
  BY <1>2, <1>1, <1>d
<1>3. CASE r > capacity
  <2>1. s # <<>>
    <3>1. total \in RetainedBytes(s)
      BY <1>1, <1>3
    <3> QED BY <3>1, RetainedAt
  <2>2. /\ Head(s) = s[1] /\ 1 \in DOMAIN s /\ s[1] \in Delta
        /\ s[1].from = total - r + 1 /\ s[1].to <= total
        /\ Size(s[1]) \in 1 .. r
    BY <2>1, OldestStarts
  <2> HIDE DEF s, r
  <2>a. DOMAIN s = 1 .. Len(s) /\ Len(s) \in Nat \ {0} /\ \A i \in DOMAIN s : s[i] \in Delta
    BY <1>1, <2>1
  <2>b. excess \in Nat /\ excess > 0 /\ r - excess = capacity
    BY <1>1, <1>3
  <2>c. u = IF Size(s[1]) > excess
            THEN [deltas |-> <<[s[1] EXCEPT !.from = @ + excess]>> \o Tail(s), retained |-> capacity]
            ELSE [deltas |-> Tail(s), retained |-> r - Size(s[1])]
    <3>1. ~(r <= capacity \/ s = <<>>)
      BY <1>1, <1>3, <2>1
    <3>2. u = IF Size(Head(s)) > excess
              THEN [deltas |-> <<[Head(s) EXCEPT !.from = @ + excess]>> \o Tail(s), retained |-> r - excess]
              ELSE [deltas |-> Tail(s), retained |-> r - Size(Head(s))]
      BY <1>d, <3>1, Zenon
    <3> HIDE DEF excess
    <3> QED BY <3>2, <2>2, <2>b, Zenon
  <2>3. /\ s[1].from \in Nat /\ s[1].to \in Nat /\ s[1].sequence \in Nat
        /\ 1 <= s[1].from /\ s[1].from <= s[1].to
        /\ Size(s[1]) = s[1].to - s[1].from + 1
    BY <1>1, <2>2 DEF Delta, Ordered, Size
  <2> DEFINE from == s[1].from
             to == s[1].to
             size == Size(s[1])
  <2>e. /\ from \in Nat /\ to \in Nat /\ 1 <= from /\ from <= to /\ to <= total
        /\ from = total - r + 1 /\ size = to - from + 1 /\ size \in 1 .. r
    BY <2>2, <2>3
  <2> HIDE DEF from, to, size
  <2>4. /\ Tail(s) \in Seq(Delta) /\ Len(Tail(s)) = Len(s) - 1
        /\ \A i \in 1 .. (Len(s) - 1) : Tail(s)[i] = s[i + 1]
        /\ DOMAIN Tail(s) = 1 .. (Len(s) - 1)
    BY <1>1, <2>1
  <2>5. CASE Size(s[1]) > excess
    <3> DEFINE cut == [s[1] EXCEPT !.from = @ + excess]
               v == <<cut>> \o Tail(s)
    <3>1. u = [deltas |-> v, retained |-> capacity]
      BY <2>c, <2>5
    <3> HIDE DEF excess
    <3>2. /\ cut \in Delta /\ cut.from = s[1].from + excess /\ cut.to = s[1].to
          /\ cut.sequence = s[1].sequence
      BY <2>2, <2>3, <2>b DEF Delta
    <3>2a. cut.from <= cut.to /\ cut.from = total - capacity + 1 /\ cut.from \in Nat /\ 1 <= cut.from
      <4>1. size > excess
        BY <2>5 DEF size
      <4>2. from + excess <= to /\ from + excess = total - capacity + 1 /\ from + excess \in Nat
              /\ 1 <= from + excess
        BY <4>1, <1>1, <2>b, <2>e
      <4> QED BY <4>2, <3>2 DEF from, to
    <3> HIDE DEF cut
    <3>3. /\ v \in Seq(Delta) /\ Len(v) = Len(s) /\ DOMAIN v = 1 .. Len(s) /\ v[1] = cut
          /\ \A i \in 2 .. Len(s) : v[i] = s[i]
      BY <2>a, <2>4, <3>2
    <3>4. u.retained = capacity /\ u.deltas = v
      BY <3>1
    <3> HIDE DEF v
    <3>5. \A i \in DOMAIN v : i \in DOMAIN s /\ (i = 1 \/ (i \in 2 .. Len(s) /\ v[i] = s[i]))
      BY <2>a, <3>3
    <3>6. Ordered(v)
      <4>1. ASSUME NEW i \in DOMAIN v PROVE 1 <= v[i].from /\ v[i].from <= v[i].to
        <5>1. CASE i = 1
          BY <5>1, <3>2, <3>2a, <3>3
        <5>2. CASE i # 1
          BY <5>2, <3>5, <1>1 DEF Ordered
        <5> QED BY <5>1, <5>2
      <4>2. ASSUME NEW i \in DOMAIN v, NEW j \in DOMAIN v, i < j PROVE v[i].to < v[j].from
        <5>1. v[i].to = s[i].to
          BY <3>2, <3>3, <3>5
        <5>2. v[j] = s[j]
          BY <4>2, <3>3, <3>5
        <5> QED BY <4>2, <5>1, <5>2, <3>5, <1>1 DEF Ordered
      <4> QED BY <4>1, <4>2 DEF Ordered
    <3>7. \A b : b \in RetainedBytes(v) <=> b \in (total - capacity + 1) .. total
      <4>1. ASSUME NEW b \in RetainedBytes(v) PROVE b \in (total - capacity + 1) .. total
        <5>1. PICK i \in DOMAIN v : b \in v[i].from .. v[i].to
          BY <4>1, RetainedAt
        <5>2. CASE i = 1
          <6>1. b \in cut.from .. s[1].to
            BY <5>1, <5>2, <3>2, <3>3
          <6> QED BY <6>1, <3>2a, <2>2, <2>3
        <5>3. CASE i # 1
          <6>1. v[i] = s[i] /\ i \in DOMAIN s /\ s[i] \in Delta /\ 1 < i
            BY <5>3, <3>5, <2>a
          <6>2. b \in RetainedBytes(s)
            BY <6>1, <5>1, RetainedAt
          <6>3. s[1].to < s[i].from
            BY <6>1, <2>2, <1>1 DEF Ordered
          <6>4. b > s[1].to /\ b \in Int
            BY <6>1, <6>3, <5>1, <2>3 DEF Delta
          <6>5. b <= total
            BY <6>2, <1>1
          <6> QED BY <6>4, <6>5, <3>2, <3>2a, <2>3
        <5> QED BY <5>2, <5>3
      <4>2. ASSUME NEW b \in (total - capacity + 1) .. total PROVE b \in RetainedBytes(v)
        <5>1. b \in RetainedBytes(s)
          BY <1>1, <1>3
        <5>2. PICK i \in DOMAIN s : b \in s[i].from .. s[i].to
          BY <5>1, RetainedAt
        <5>3. CASE i = 1
          <6>1. b \in cut.from .. s[1].to
            BY <5>2, <5>3, <3>2a, <2>3
          <6>2. b \in v[1].from .. v[1].to /\ 1 \in DOMAIN v
            BY <6>1, <3>2, <3>3, <2>a
          <6> QED BY <6>2, RetainedAt
        <5>4. CASE i # 1
          <6>1. i \in DOMAIN v /\ v[i] = s[i]
            BY <5>4, <2>a, <3>3
          <6> QED BY <6>1, <5>2, RetainedAt
        <5> QED BY <5>3, <5>4
      <4> QED BY <4>1, <4>2
    <3>8. \A i \in DOMAIN v : v[i].sequence + Len(v) = last + i
      BY <1>1, <3>2, <3>3, <3>5
    <3>9. IsWindow(u, total, last)
      <4>1. u \in [deltas: Seq(Delta), retained: Nat]
        BY <3>1, <3>3
      <4>2. RetainedBytes(u.deltas) = (total - u.retained + 1) .. total
        BY <3>4, <3>7
      <4> QED BY <4>1, <4>2, <3>4, <3>6, <3>8, <1>1, <1>3 DEF IsWindow
    <3> QED BY <1>1, <1>3, <3>4, <3>9
  <2>6. CASE ~(Size(s[1]) > excess)
    <3> DEFINE v == Tail(s)
    <3>1. u = [deltas |-> v, retained |-> r - Size(s[1])]
      BY <2>c, <2>6
    <3>2. /\ u.deltas = v /\ u.retained = r - Size(s[1]) /\ u.retained \in Nat
          /\ u.retained >= capacity /\ u.retained <= total
          /\ total - u.retained + 1 = s[1].to + 1
      <4>1. u.deltas = v /\ u.retained = r - Size(s[1])
        BY <3>1
      <4>2. ~(size > excess)
        BY <2>6 DEF size
      <4>3. r - size \in Nat /\ r - size >= capacity /\ r - size <= total
        BY <4>2, <1>1, <2>b, <2>e
      <4>4. total - (r - size) + 1 = to + 1
        BY <1>1, <2>e
      <4> QED BY <4>1, <4>3, <4>4 DEF size, to
    <3> HIDE DEF v
    <3>3. \A i \in DOMAIN v : /\ i \in DOMAIN s /\ i + 1 \in DOMAIN s /\ 1 < i + 1 /\ v[i] = s[i + 1]
                               /\ i \in Nat
      BY <2>a, <2>4 DEF v
    <3>4. Ordered(v)
      <4>1. \A i, j \in DOMAIN v : i < j => i + 1 < j + 1
        BY <3>3
      <4> QED BY <4>1, <3>3, <1>1 DEF Ordered
    <3>5. \A b : b \in RetainedBytes(v) <=> b \in (s[1].to + 1) .. total
      <4>1. ASSUME NEW b \in RetainedBytes(v) PROVE b \in (s[1].to + 1) .. total
        <5>1. PICK i \in DOMAIN v : b \in v[i].from .. v[i].to
          BY <4>1, RetainedAt
        <5>2. i + 1 \in DOMAIN s /\ b \in s[i + 1].from .. s[i + 1].to /\ s[i + 1] \in Delta
          BY <5>1, <3>3, <2>a
        <5>3. b \in RetainedBytes(s)
          BY <5>2, RetainedAt
        <5>4. s[1].to < s[i + 1].from
          BY <5>2, <3>3, <2>2, <1>1 DEF Ordered
        <5>5. b \in Int /\ b <= total
          BY <5>3, <1>1
        <5> QED BY <5>2, <5>4, <5>5, <2>3 DEF Delta
      <4>2. ASSUME NEW b \in (s[1].to + 1) .. total PROVE b \in RetainedBytes(v)
        <5>1. b \in RetainedBytes(s)
          BY <1>1, <2>2, <2>3
        <5>2. PICK i \in DOMAIN s : b \in s[i].from .. s[i].to
          BY <5>1, RetainedAt
        <5>3. i # 1
          BY <5>2, <2>3
        <5>4. i - 1 \in DOMAIN v /\ v[i - 1] = s[i]
          BY <5>3, <2>a, <2>4 DEF v
        <5> QED BY <5>2, <5>4, RetainedAt
      <4> QED BY <4>1, <4>2
    <3>6. \A i \in DOMAIN v : v[i].sequence + Len(v) = last + i
      <4> SUFFICES ASSUME NEW i \in DOMAIN v PROVE v[i].sequence + Len(v) = last + i
        OBVIOUS
      <4>1. s[i + 1] \in Delta /\ s[i + 1].sequence + Len(s) = last + (i + 1)
        BY <3>3, <2>a, <1>1
      <4>2. s[i + 1].sequence \in Nat
        BY <4>1 DEF Delta
      <4>3. Len(v) = Len(s) - 1 /\ i \in Nat /\ v[i].sequence = s[i + 1].sequence
        BY <3>3, <2>4 DEF v
      <4> DEFINE number == s[i + 1].sequence
      <4>4. number + Len(s) = last + (i + 1) /\ number \in Nat
        BY <4>1, <4>2
      <4> HIDE DEF number
      <4>5. number + (Len(s) - 1) = last + i
        BY <4>3, <4>4, <2>a
      <4> QED BY <4>3, <4>5 DEF number
    <3>7. IsWindow(u, total, last)
      <4>1. u \in [deltas: Seq(Delta), retained: Nat]
        BY <3>1, <3>2, <2>4 DEF v
      <4>2. RetainedBytes(u.deltas) = (total - u.retained + 1) .. total
        BY <3>2, <3>5
      <4> QED BY <4>1, <4>2, <3>2, <3>4, <3>6 DEF IsWindow
    <3> QED BY <1>1, <1>3, <2>4, <3>2, <3>7 DEF v
  <2> QED BY <2>5, <2>6
<1> QED BY <1>1, <1>2, <1>3

-----------------------------------------------------------------------------
(* What the whole loop leaves.                                             *)

\* As many passes as there are deltas meet the budget, and take out no more
\* bytes than that needs (by induction on the number of passes).
LEMMA ReclaimMeetsBudget ==
    ASSUME NEW t, NEW total \in Nat, NEW last \in Nat, NEW capacity \in Nat \ {0},
           IsWindow(t, total, last)
    PROVE  LET u == ReclaimScrollback(t, capacity) IN
           /\ IsWindow(u, total, last)
           /\ u.retained = IF t.retained <= capacity THEN t.retained ELSE capacity
<1> DEFINE n == Len(t.deltas)
<1>1. n \in Nat /\ t.retained \in Nat
  BY DEF IsWindow
<1>2. PICK p : /\ p[0] = t
               /\ \A k \in 1 .. n : p[k] = ReclaimPass(p[k - 1], capacity)
               /\ ReclaimScrollback(t, capacity) = p[n]
  BY <1>1, ReclaimUnfolds
<1> HIDE DEF n
<1> DEFINE Reached(k) ==
             /\ IsWindow(p[k], total, last)
             /\ t.retained <= capacity => p[k] = t
             /\ t.retained > capacity =>
                  /\ p[k].retained >= capacity
                  /\ p[k].retained = capacity \/ Len(p[k].deltas) = n - k
           missed == {k \in 0 .. n : ~Reached(k)}
<1>3. Reached(0)
  BY <1>1, <1>2 DEF n
<1>4. ASSUME NEW k \in 1 .. n, Reached(k - 1) PROVE Reached(k)
  <2> DEFINE q == p[k - 1]
             u == ReclaimPass(q, capacity)
  <2>1. p[k] = u
    BY <1>2
  <2>2. /\ IsWindow(u, total, last)
        /\ q.retained <= capacity => u = q
        /\ q.retained > capacity =>
             /\ u.retained >= capacity
             /\ u.retained = capacity \/ Len(u.deltas) = Len(q.deltas) - 1
    BY <1>4, PassKeepsWindow
  <2>3. q.retained \in Nat /\ Len(q.deltas) \in Nat
    BY <1>4 DEF IsWindow
  <2>4. /\ t.retained <= capacity => q = t
        /\ t.retained > capacity =>
             /\ q.retained >= capacity
             /\ q.retained = capacity \/ Len(q.deltas) = n - (k - 1)
    BY <1>4
  <2> HIDE DEF q, u
  <2>5. t.retained <= capacity => u = t
    BY <2>2, <2>4
  <2>6. t.retained > capacity => u.retained >= capacity /\ (u.retained = capacity \/ Len(u.deltas) = n - k)
    BY <1>1, <2>2, <2>3, <2>4
  <2> QED BY <2>1, <2>2, <2>5, <2>6
<1> HIDE DEF Reached
<1>5. missed = {}
  <2> SUFFICES ASSUME missed # {} PROVE FALSE
    OBVIOUS
  <2>1. PICK k \in missed : \A j \in missed : k <= j
    <3>1. missed \subseteq Nat
      BY <1>1
    <3> QED BY <3>1, NatMin
  <2>2. k \in 1 .. n /\ k - 1 \in 0 .. n /\ k - 1 \notin missed
    BY <1>1, <1>3, <2>1
  <2> QED BY <1>4, <2>1, <2>2
<1>6. Reached(n)
  BY <1>1, <1>5
<1> DEFINE u == p[n]
<1>7. /\ IsWindow(u, total, last)
      /\ t.retained <= capacity => u = t
      /\ t.retained > capacity => u.retained = capacity \/ Len(u.deltas) = 0
      /\ t.retained > capacity => u.retained >= capacity
  BY <1>1, <1>6 DEF Reached
<1> HIDE DEF u
<1>8. ASSUME t.retained > capacity, Len(u.deltas) = 0 PROVE FALSE
  <2>1. u.retained \in Nat /\ u.retained >= capacity /\ u.deltas \in Seq(Delta) /\ u.retained <= total
          /\ RetainedBytes(u.deltas) = (total - u.retained + 1) .. total
    BY <1>7, <1>8 DEF IsWindow
  <2>2. DOMAIN u.deltas = {}
    BY <1>8, <2>1
  <2>3. total \in RetainedBytes(u.deltas)
    BY <2>1
  <2> QED BY <2>2, <2>3, RetainedAt
<1>9. ReclaimScrollback(t, capacity) = u
  BY <1>2 DEF u
<1> QED BY <1>1, <1>7, <1>8, <1>9

\* The scrollback is as full as the budget allows.
Budgeted(t, total, capacity) == t.retained = IF total <= capacity THEN total ELSE capacity

\* append keeps the scrollback the newest bytes within the budget, all of them,
\* whatever the sizes of the deltas: reclaim_scrollback's loop drops and trims
\* exactly as much as the new delta is over the budget.
THEOREM AppendKeepsNewest ==
    ASSUME NEW t, NEW total \in Nat, NEW last \in Nat, NEW capacity \in Nat \ {0},
           NEW size \in Nat \ {0}, IsWindow(t, total, last), Budgeted(t, total, capacity)
    PROVE  LET delta == [sequence |-> last + 1, from |-> total + 1, to |-> total + size]
               u == AppendDelta(t, delta, capacity)
           IN  IsWindow(u, total + size, last + 1) /\ Budgeted(u, total + size, capacity)
<1> DEFINE delta == [sequence |-> last + 1, from |-> total + 1, to |-> total + size]
           s == t.deltas
           n == Len(s)
           v == Append(s, delta)
           w == [deltas |-> v, retained |-> t.retained + Size(delta)]
<1>1. /\ s \in Seq(Delta) /\ t.retained \in Nat /\ t.retained <= total /\ Ordered(s)
      /\ RetainedBytes(s) = (total - t.retained + 1) .. total
      /\ \A i \in DOMAIN s : s[i].sequence + Len(s) = last + i
  BY DEF IsWindow
<1>2. /\ delta \in Delta /\ Size(delta) = size /\ delta.from = total + 1 /\ delta.to = total + size
      /\ delta.sequence = last + 1
  BY DEF Delta, Size
<1>3. AppendDelta(t, delta, capacity) = ReclaimScrollback(w, capacity)
  BY DEF AppendDelta
<1> HIDE DEF delta, s
<1>4. /\ v \in Seq(Delta) /\ Len(v) = n + 1 /\ DOMAIN v = 1 .. (n + 1) /\ v[n + 1] = delta
      /\ \A i \in 1 .. n : v[i] = s[i]
      /\ n \in Nat /\ DOMAIN s = 1 .. n /\ \A i \in 1 .. n : s[i] \in Delta
  BY <1>1, <1>2
<1>5. w.deltas = v /\ w.retained = t.retained + size /\ w \in [deltas: Seq(Delta), retained: Nat]
  BY <1>1, <1>2, <1>4
<1> HIDE DEF v, w, n
<1>6. \A i \in DOMAIN v : (i \in DOMAIN s /\ v[i] = s[i]) \/ (i = n + 1 /\ v[i] = delta)
  BY <1>4
<1>7. \A i \in DOMAIN s : i \in DOMAIN v /\ s[i].to \in Nat /\ s[i].to <= total
  <2> SUFFICES ASSUME NEW i \in DOMAIN s PROVE i \in DOMAIN v /\ s[i].to \in Nat /\ s[i].to <= total
    OBVIOUS
  <2>1. s[i].from \in Nat /\ s[i].to \in Nat /\ s[i].from <= s[i].to
    BY <1>1, <1>4 DEF Delta, Ordered
  <2>2. s[i].to \in RetainedBytes(s)
    BY <2>1, RetainedAt
  <2> QED BY <1>1, <1>4, <2>1, <2>2
<1>8. Ordered(v)
  <2>1. ASSUME NEW i \in DOMAIN v PROVE 1 <= v[i].from /\ v[i].from <= v[i].to
    BY <1>1, <1>2, <1>6 DEF Ordered
  <2>2. ASSUME NEW i \in DOMAIN v, NEW j \in DOMAIN v, i < j PROVE v[i].to < v[j].from
    <3>1. i \in DOMAIN s /\ v[i] = s[i]
      BY <1>4, <2>2
    <3>2. CASE j \in DOMAIN s /\ v[j] = s[j]
      BY <1>1, <2>2, <3>1, <3>2 DEF Ordered
    <3>3. CASE v[j] = delta
      BY <1>2, <1>7, <3>1, <3>3
    <3> QED BY <1>6, <3>2, <3>3
  <2> QED BY <2>1, <2>2 DEF Ordered
<1>9. \A b : b \in RetainedBytes(v) <=> b \in (total - t.retained + 1) .. (total + size)
  <2>1. \A b : b \in RetainedBytes(v) <=> b \in RetainedBytes(s) \/ b \in delta.from .. delta.to
    <3>1. n + 1 \in DOMAIN v /\ v[n + 1] = delta
      BY <1>4
    <3> QED BY <1>4, <1>6, <1>7, <3>1, RetainedAt
  <2>2. RetainedBytes(s) = (total - t.retained + 1) .. total /\ delta.from .. delta.to = (total + 1) .. (total + size)
    BY <1>1, <1>2
  <2>3. \A b : b \in (total - t.retained + 1) .. (total + size)
                <=> b \in (total - t.retained + 1) .. total \/ b \in (total + 1) .. (total + size)
    BY <1>1
  <2> QED BY <2>1, <2>2, <2>3
<1>10. \A i \in DOMAIN v : v[i].sequence + Len(v) = (last + 1) + i
  <2> SUFFICES ASSUME NEW i \in DOMAIN v PROVE v[i].sequence + Len(v) = (last + 1) + i
    OBVIOUS
  <2>1. CASE i \in DOMAIN s /\ v[i] = s[i]
    <3> DEFINE number == s[i].sequence
    <3>1. number \in Nat /\ number + n = last + i /\ i \in Nat
      BY <1>1, <1>4, <2>1 DEF Delta, n
    <3> HIDE DEF number
    <3>2. number + (n + 1) = (last + 1) + i
      BY <1>4, <3>1
    <3> QED BY <1>4, <2>1, <3>2 DEF number
  <2>2. CASE i = n + 1 /\ v[i] = delta
    BY <1>2, <1>4, <2>2
  <2> QED BY <1>6, <2>1, <2>2
<1>11. IsWindow(w, total + size, last + 1)
  <2>1. (total + size) - (t.retained + size) + 1 = total - t.retained + 1
    BY <1>1
  <2>2. RetainedBytes(w.deltas) = ((total + size) - w.retained + 1) .. (total + size)
    BY <1>5, <1>9, <2>1
  <2> QED BY <1>1, <1>5, <1>8, <1>10, <2>2 DEF IsWindow
<1>12. /\ IsWindow(ReclaimScrollback(w, capacity), total + size, last + 1)
       /\ ReclaimScrollback(w, capacity).retained =
            IF t.retained + size <= capacity THEN t.retained + size ELSE capacity
  <2>1. total + size \in Nat /\ last + 1 \in Nat
    OBVIOUS
  <2>2. /\ IsWindow(ReclaimScrollback(w, capacity), total + size, last + 1)
        /\ ReclaimScrollback(w, capacity).retained =
             IF w.retained <= capacity THEN w.retained ELSE capacity
    BY <1>11, <2>1, ReclaimMeetsBudget
  <2> QED BY <1>5, <2>2
<1>13. (IF t.retained + size <= capacity THEN t.retained + size ELSE capacity)
         = IF total + size <= capacity THEN total + size ELSE capacity
  BY <1>1 DEF Budgeted
<1> QED BY <1>3, <1>12, <1>13 DEF Budgeted, delta

\* Such a scrollback is what NewestBytes says, and its byte count is right.
LEMMA WindowIsNewest ==
    ASSUME NEW t, NEW total \in Nat, NEW last \in Nat, NEW capacity \in Nat \ {0},
           IsWindow(t, total, last), Budgeted(t, total, capacity)
    PROVE  /\ RetainedBytes(t.deltas) = NewestBytes(total, capacity)
           /\ t.retained = Cardinality(RetainedBytes(t.deltas))
<1> DEFINE r == t.retained
<1>1. r \in Nat /\ r <= total /\ RetainedBytes(t.deltas) = (total - r + 1) .. total
        /\ r = IF total <= capacity THEN total ELSE capacity
  BY DEF IsWindow, Budgeted
<1> HIDE DEF r
<1>2. (total - r + 1) .. total = NewestBytes(total, capacity)
  BY <1>1 DEF NewestBytes
<1>3. Cardinality((total - r + 1) .. total) = r
  <2>1. Cardinality((total - r + 1) .. total) =
            IF total - r + 1 > total THEN 0 ELSE total - (total - r + 1) + 1
    <3>1. total - r + 1 \in Int /\ total \in Int
      BY <1>1
    <3> QED BY <3>1, FS_Interval
  <2> QED BY <1>1, <2>1
<1> QED BY <1>1, <1>2, <1>3 DEF r

-----------------------------------------------------------------------------
(* Replay.                                                                 *)

\* k holds what replay_after has picked from the first i deltas, i up to n.
IsKept(k, s, sequence, n) ==
    k = [i \in 0 .. n |-> IF i = 0 THEN <<>>
                          ELSE IF s[i].sequence > sequence THEN Append(k[i - 1], s[i])
                          ELSE k[i - 1]]

\* Picking can go on for any number of deltas (by induction on it).
LEMMA KeptExists ==
    ASSUME NEW s, NEW sequence, NEW n \in Nat
    PROVE  \E k : IsKept(k, s, sequence, n)
<1> DEFINE Defined(m) == \E k : IsKept(k, s, sequence, m)
           undefined == {m \in Nat : ~Defined(m)}
<1>1. Defined(0)
  <2> DEFINE k == [i \in 0 .. 0 |-> <<>>]
  <2>1. k = [i \in 0 .. 0 |-> IF i = 0 THEN <<>>
                              ELSE IF s[i].sequence > sequence THEN Append(k[i - 1], s[i])
                              ELSE k[i - 1]]
    OBVIOUS
  <2> QED BY <2>1 DEF IsKept
<1>2. ASSUME NEW m \in Nat, Defined(m) PROVE Defined(m + 1)
  <2>1. PICK k : k = [i \in 0 .. m |-> IF i = 0 THEN <<>>
                                       ELSE IF s[i].sequence > sequence THEN Append(k[i - 1], s[i])
                                       ELSE k[i - 1]]
    BY <1>2 DEF IsKept
  <2> DEFINE q == [i \in 0 .. (m + 1) |-> IF i = 0 THEN <<>>
                                          ELSE IF s[i].sequence > sequence THEN Append(k[i - 1], s[i])
                                          ELSE k[i - 1]]
  <2>2. ASSUME NEW i \in 0 .. (m + 1), i # 0 PROVE q[i - 1] = k[i - 1]
    <3>1. i - 1 \in 0 .. m /\ i - 1 \in 0 .. (m + 1)
      BY <2>2
    <3> QED BY <2>1, <3>1
  <2>3. q = [i \in 0 .. (m + 1) |-> IF i = 0 THEN <<>>
                                    ELSE IF s[i].sequence > sequence THEN Append(q[i - 1], s[i])
                                    ELSE q[i - 1]]
    BY <2>2
  <2> QED BY <2>3 DEF IsKept
<1> HIDE DEF Defined
<1>3. undefined = {}
  <2> SUFFICES ASSUME undefined # {} PROVE FALSE
    OBVIOUS
  <2>1. PICK m \in undefined : \A y \in undefined : m <= y
    BY NatMin
  <2>2. m # 0 /\ m - 1 \in Nat /\ m - 1 \notin undefined
    BY <2>1, <1>1
  <2> QED BY <2>2, <1>2
<1>4. Defined(n)
  BY <1>3
<1> QED BY <1>4 DEF Defined

\* u is a run of deltas with consecutive sequence numbers.
IsRun(u) ==
    /\ u \in Seq(Delta)
    /\ \A i \in 1 .. (Len(u) - 1) : u[i + 1].sequence = u[i].sequence + 1

\* Another delta, the next in number, makes the run longer.
LEMMA AppendRun ==
    ASSUME NEW u, IsRun(u), NEW d \in Delta, u # <<>> => d.sequence = u[Len(u)].sequence + 1
    PROVE  IsRun(Append(u, d)) /\ Append(u, d) # <<>> /\ Append(u, d)[Len(Append(u, d))] = d
<1> DEFINE v == Append(u, d)
           n == Len(u)
<1>1. u \in Seq(Delta) /\ \A i \in 1 .. (n - 1) : u[i + 1].sequence = u[i].sequence + 1
  BY DEF IsRun
<1>2. /\ v \in Seq(Delta) /\ Len(v) = n + 1 /\ v[n + 1] = d /\ n \in Nat /\ v # <<>>
      /\ \A i \in 1 .. n : v[i] = u[i]
      /\ n > 0 => u # <<>>
  <2>1. v \in Seq(Delta) /\ Len(v) = n + 1 /\ v[n + 1] = d /\ n \in Nat
    BY <1>1
  <2>2. \A i \in 1 .. n : v[i] = u[i]
    BY <1>1
  <2>3. v # <<>> /\ (n > 0 => u # <<>>)
    BY <1>1, <2>1
  <2> QED BY <2>1, <2>2, <2>3
<1> HIDE DEF v
<1>3. ASSUME NEW i \in 1 .. n PROVE v[i + 1].sequence = v[i].sequence + 1
  <2>1. CASE i = n
    BY <1>2, <2>1
  <2>2. CASE i # n
    <3>1. i \in 1 .. (n - 1) /\ i + 1 \in 1 .. n
      BY <1>2, <2>2
    <3> QED BY <1>1, <1>2, <3>1
  <2> QED BY <2>1, <2>2
<1>4. IsRun(v) /\ v # <<>> /\ v[Len(v)] = d
  BY <1>2, <1>3 DEF IsRun
<1> QED BY <1>4 DEF v

\* A replay out of a scrollback numbered without gaps has no gap either, and ends
\* with the scrollback (by induction on the number of deltas looked at).
LEMMA ReplayIsRun ==
    ASSUME NEW s \in Seq(Delta), NEW last \in Nat, NEW sequence \in Nat,
           \A i \in DOMAIN s : s[i].sequence + Len(s) = last + i
    PROVE  LET u == ReplayAfter(s, sequence) IN
           IsRun(u) /\ (u # <<>> => u[Len(u)].sequence = last)
<1> DEFINE n == Len(s)
           kept[i \in 0 .. n] ==
             IF i = 0 THEN <<>>
             ELSE IF s[i].sequence > sequence THEN Append(kept[i - 1], s[i])
             ELSE kept[i - 1]
<1>0. n \in Nat /\ DOMAIN s = 1 .. n /\ \A i \in 1 .. n : s[i] \in Delta /\ s[i].sequence + n = last + i
  OBVIOUS
<1>r. ReplayAfter(s, sequence) = kept[n]
  BY DEF ReplayAfter
<1> HIDE DEF n
<1>1. \E k : IsKept(k, s, sequence, n)
  BY <1>0, KeptExists
<1>2. kept = [i \in 0 .. n |-> IF i = 0 THEN <<>>
                               ELSE IF s[i].sequence > sequence THEN Append(kept[i - 1], s[i])
                               ELSE kept[i - 1]]
  BY <1>1 DEF IsKept
<1> HIDE DEF kept
<1>3. /\ kept[0] = <<>>
      /\ \A i \in 1 .. n : kept[i] = IF s[i].sequence > sequence THEN Append(kept[i - 1], s[i])
                                     ELSE kept[i - 1]
  <2>1. 0 \in 0 .. n /\ \A i \in 1 .. n : i \in 0 .. n /\ i # 0
    BY <1>0
  <2>2. \A i \in 0 .. n : kept[i] = IF i = 0 THEN <<>>
                                     ELSE IF s[i].sequence > sequence THEN Append(kept[i - 1], s[i])
                                     ELSE kept[i - 1]
    BY <1>2, Zenon
  <2> QED BY <2>1, <2>2, Zenon
<1>4. \A i \in 1 .. n : s[i].sequence \in Nat
  BY <1>0 DEF Delta
<1> DEFINE Picked(i) ==
             /\ IsRun(kept[i])
             /\ kept[i] # <<>> => /\ i > 0 /\ kept[i][Len(kept[i])] = s[i]
                                  /\ s[i].sequence > sequence
           missed == {i \in 0 .. n : ~Picked(i)}
<1>5. Picked(0)
  BY <1>3 DEF IsRun
<1>6. ASSUME NEW i \in 1 .. n, Picked(i - 1) PROVE Picked(i)
  <2> DEFINE u == kept[i - 1]
  <2>1. CASE u = <<>>
    <3>1. IsRun(Append(u, s[i])) /\ Append(u, s[i])[Len(Append(u, s[i]))] = s[i]
      BY <1>0, <1>6, <2>1, AppendRun
    <3> HIDE DEF u
    <3>2. CASE s[i].sequence > sequence
      <4>1. kept[i] = Append(u, s[i])
        BY <1>3, <3>2 DEF u
      <4> QED BY <3>1, <3>2, <4>1
    <3>3. CASE ~(s[i].sequence > sequence)
      <4>1. kept[i] = u
        BY <1>3, <3>3 DEF u
      <4> QED BY <1>6, <2>1, <4>1 DEF u
    <3> QED BY <3>2, <3>3
  <2>2. CASE u # <<>>
    <3>1. /\ i - 1 \in 1 .. n /\ u[Len(u)] = s[i - 1] /\ s[i - 1].sequence > sequence
      BY <1>0, <1>6, <2>2
    <3>2. s[i].sequence = s[i - 1].sequence + 1
      <4> DEFINE a == s[i].sequence
                 b == s[i - 1].sequence
      <4>1. a \in Nat /\ b \in Nat /\ a + n = last + i /\ b + n = last + (i - 1)
        BY <1>0, <1>4, <3>1
      <4> HIDE DEF a, b
      <4>2. a = b + 1
        BY <1>0, <4>1
      <4> QED BY <4>2 DEF a, b
    <3>3. s[i].sequence > sequence
      BY <1>4, <3>1, <3>2
    <3>4. kept[i] = Append(u, s[i])
      BY <1>3, <3>3
    <3>5. IsRun(u)
      BY <1>6
    <3> HIDE DEF u
    <3>6. IsRun(Append(u, s[i])) /\ Append(u, s[i])[Len(Append(u, s[i]))] = s[i]
      BY <1>0, <2>2, <3>1, <3>2, <3>5, AppendRun
    <3> QED BY <3>3, <3>4, <3>6
  <2> QED BY <2>1, <2>2
<1> HIDE DEF Picked
<1>7. missed = {}
  <2> SUFFICES ASSUME missed # {} PROVE FALSE
    OBVIOUS
  <2>1. PICK i \in missed : \A j \in missed : i <= j
    <3>1. missed \subseteq Nat
      BY <1>0
    <3> QED BY <3>1, NatMin
  <2>2. i \in 1 .. n /\ i - 1 \in 0 .. n /\ i - 1 \notin missed
    BY <1>0, <1>5, <2>1
  <2> QED BY <1>6, <2>1, <2>2
<1>8. Picked(n)
  BY <1>0, <1>7
<1>9. kept[n] # <<>> => kept[n][Len(kept[n])].sequence = last
  <2> SUFFICES ASSUME kept[n] # <<>> PROVE kept[n][Len(kept[n])].sequence = last
    OBVIOUS
  <2>1. n \in 1 .. n /\ kept[n][Len(kept[n])] = s[n]
    BY <1>0, <1>8 DEF Picked
  <2>2. s[n].sequence + n = last + n /\ s[n].sequence \in Nat
    BY <1>0, <1>4, <2>1
  <2> QED BY <1>0, <2>1, <2>2
<1> QED BY <1>r, <1>8, <1>9 DEF Picked
=============================================================================
