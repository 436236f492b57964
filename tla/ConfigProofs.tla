---------------------------- MODULE ConfigProofs -----------------------------
(***************************************************************************)
(* What is proved about the configuration readers for files of any length: *)
(* where each setting, entry and field stands among the events, that each  *)
(* function stops exactly where its caller goes on, and hence that a       *)
(* sensible file is read as it is meant.                                   *)
(***************************************************************************)
EXTENDS Config, SequenceTheorems, WellFoundedInduction, TLAPS

(* What induction is for sets: there is a least number that is different. *)
LEMMA LeastNumber ==
    ASSUME NEW T, T \subseteq Nat, T # {}
    PROVE  \E n \in T : \A k \in T : n <= k
<1> DEFINE Below == {ss \in Nat \X Nat : ss[1] < ss[2]}
<1>1. IsWellFoundedOn(Below, Nat)
  BY NatLessThanWellFounded DEF OpToRel
<1> HIDE DEF Below
<1>2. PICK n \in T : \A k \in T : <<k, n>> \notin Below
  BY <1>1, WFMin
<1>3. \A k \in T : ~(k < n)
  BY <1>2 DEF Below
<1>4. QED
  BY <1>3

----------------------------------------------------------------------------
(* What FlattenSeq gives at each place. *)

(* g[i] is what the first i sequences of s are together. *)
Joined(s, n, g) == g = [i \in 1..n |-> IF i = 1 THEN s[i] ELSE g[i - 1] \o s[i]]

LEMMA JoinedExists ==
    ASSUME NEW s, NEW n \in Nat
    PROVE  \E g : Joined(s, n, g)
<1> DEFINE T == {i \in Nat : ~ \E g : Joined(s, i, g)}
<1> SUFFICES ASSUME T # {} PROVE FALSE
  OBVIOUS
<1>1. PICK i \in T : \A k \in T : i <= k
  <2>1. T \subseteq Nat
    OBVIOUS
  <2> HIDE DEF T
  <2>2. QED
    BY <2>1, LeastNumber
<1>2. i # 0
  <2> DEFINE g == [k \in 1..0 |-> k]
  <2>1. Joined(s, 0, g)
    BY DEF Joined
  <2>2. QED
    BY <1>1, <2>1
<1>3. i - 1 \in Nat /\ ~(i <= i - 1)
  BY <1>2
<1>4. PICK h : Joined(s, i - 1, h)
  BY <1>1, <1>3
<1> DEFINE g == [k \in 1..i |-> IF k = 1 THEN s[k] ELSE h[k - 1] \o s[k]]
<1>5. i \in Nat
  BY <1>1
<1>6. \A k \in 1..(i - 1) : h[k] = IF k = 1 THEN s[k] ELSE h[k - 1] \o s[k]
  BY <1>4 DEF Joined
<1>7. \A k \in 1..(i - 1) : k \in 1..i
  BY <1>5
<1>8. \A k \in 1..i : g[k] = IF k = 1 THEN s[k] ELSE h[k - 1] \o s[k]
  OBVIOUS
<1>9. \A k \in 1..i : k # 1 => k - 1 \in 1..(i - 1)
  BY <1>5
<1>10. \A k \in 1..(i - 1) : g[k] = h[k]
  <2> HIDE DEF g
  <2>1. QED
    BY <1>6, <1>7, <1>8
<1>11. \A k \in 1..i : k # 1 => k - 1 \in 1..(i - 1) /\ g[k] = h[k - 1] \o s[k]
  <2> HIDE DEF g
  <2>1. QED
    BY <1>8, <1>9
<1>12. \A k \in 1..i : k # 1 => g[k] = g[k - 1] \o s[k]
  <2> HIDE DEF g
  <2>1. QED
    BY <1>10, <1>11
<1>13. \A k \in 1..i : k = 1 => g[k] = s[k]
  OBVIOUS
<1>14. \A k \in 1..i : g[k] = IF k = 1 THEN s[k] ELSE g[k - 1] \o s[k]
  BY <1>12, <1>13
<1>15. g = [k \in 1..i |-> g[k]]
  OBVIOUS
<1> HIDE DEF g
<1>16. Joined(s, i, g)
  BY <1>14, <1>15 DEF Joined
<1>17. QED
  BY <1>1, <1>16

LEMMA FlattenIsJoined ==
    ASSUME NEW s, NEW n \in Nat, Len(s) = n, n # 0
    PROVE  \E g : Joined(s, n, g) /\ FlattenSeq(s) = g[n]
<1> DEFINE g == CHOOSE h : Joined(s, n, h)
<1>1. Joined(s, n, g)
  BY JoinedExists
<1>2. FlattenSeq(s) = (CHOOSE h : Joined(s, Len(s), h))[Len(s)]
  BY DEF FlattenSeq, Joined
<1>3. QED
  BY <1>1, <1>2

(* w is the sequences of s one after another: the i-th ends with place off[i]. *)
Laid(s, off, w) ==
    /\ off \in [0..Len(s) -> Nat] /\ off[0] = 0
    /\ \A i \in 1..Len(s) : off[i] = off[i - 1] + Len(s[i])
    /\ Len(w) = off[Len(s)]
    /\ \A i \in 1..Len(s) : \A k \in 1..Len(s[i]) :
          off[i - 1] + k \in 1..Len(w) /\ w[off[i - 1] + k] = s[i][k]

LEMMA FlattenLaid ==
    ASSUME NEW E, NEW s \in Seq(Seq(E))
    PROVE  FlattenSeq(s) \in Seq(E) /\ \E off : Laid(s, off, FlattenSeq(s))
<1>1. PICK n \in Nat : n = Len(s)
  BY LenProperties
<1>2. CASE n = 0
  <2>1. s = << >> /\ FlattenSeq(s) = << >>
    BY <1>1, <1>2, EmptySeq DEF FlattenSeq
  <2> DEFINE off == [i \in 0..0 |-> 0]
  <2>2. Laid(s, off, << >>)
    BY <1>1, <1>2, <2>1 DEF Laid
  <2>3. QED
    BY <2>1, <2>2
<1>3. CASE n # 0
  <2>1. PICK g : Joined(s, n, g) /\ FlattenSeq(s) = g[n]
    BY <1>1, <1>3, FlattenIsJoined
  <2>2. g[1] = s[1] /\ \A i \in 1..n : i # 1 => g[i] = g[i - 1] \o s[i]
    <3>1. \A i \in 1..n : g[i] = IF i = 1 THEN s[i] ELSE g[i - 1] \o s[i]
      BY <2>1 DEF Joined
    <3>2. 1 \in 1..n
      BY <1>1, <1>3
    <3>3. QED
      BY <3>1, <3>2
  <2>3. \A i \in 1..n : s[i] \in Seq(E) /\ Len(s[i]) \in Nat
    <3>1. \A i \in 1..n : s[i] \in Seq(E)
      BY <1>1, ElementOfSeq
    <3>2. QED
      BY <3>1, LenProperties
  <2>4. \A i \in 1..n : g[i] \in Seq(E)
    <3> DEFINE T == {i \in 1..n : g[i] \notin Seq(E)}
    <3> SUFFICES ASSUME T # {} PROVE FALSE
      OBVIOUS
    <3>1. PICK i \in T : \A k \in T : i <= k
      <4>1. T \subseteq Nat
        OBVIOUS
      <4> HIDE DEF T
      <4>2. QED
        BY <4>1, LeastNumber
    <3>2. CASE i = 1
      BY <2>2, <2>3, <3>1, <3>2
    <3>3. CASE i # 1
      <4>1. i - 1 \in 1..n /\ ~(i <= i - 1)
        <5>1. i \in 1..n
          BY <3>1
        <5> HIDE DEF T
        <5>2. QED
          BY <5>1, <3>3
      <4>2. g[i - 1] \in Seq(E)
        <5>1. i - 1 \notin T
          BY <3>1, <4>1
        <5>2. QED
          BY <4>1, <5>1
      <4>3. g[i] = g[i - 1] \o s[i] /\ s[i] \in Seq(E)
        BY <2>2, <2>3, <3>1, <3>3
      <4>4. g[i] \in Seq(E)
        BY <4>2, <4>3, ConcatProperties
      <4>5. QED
        BY <3>1, <4>4
    <3>4. QED
      BY <3>2, <3>3
  <2> DEFINE o == [i \in 0..n |-> IF i = 0 THEN 0 ELSE Len(g[i])]
  <2>5. \A i \in 1..n : Len(g[i]) \in Nat
    BY <2>4, LenProperties
  <2>6. o \in [0..n -> Nat] /\ o[0] = 0 /\ \A i \in 1..n : o[i] = Len(g[i])
    BY <2>5
  <2> HIDE DEF o
  <2>7. ASSUME NEW i \in 1..n, i # 1
        PROVE  /\ o[i] = o[i - 1] + Len(s[i])
               /\ \A x \in 1..o[i - 1] : g[i][x] = g[i - 1][x]
               /\ \A k \in 1..Len(s[i]) : g[i][o[i - 1] + k] = s[i][k]
    <3>1. i - 1 \in 1..n
      BY <2>7
    <3>2. PICK a, b : a = g[i - 1] /\ b = s[i]
      OBVIOUS
    <3>3. g[i] = a \o b /\ a \in Seq(E) /\ b \in Seq(E)
      BY <2>2, <2>3, <2>4, <2>7, <3>1, <3>2
    <3>4. o[i] = Len(a \o b) /\ o[i - 1] = Len(a)
      BY <2>6, <3>1, <3>2, <3>3
    <3>5. Len(a) \in Nat /\ Len(b) \in Nat
      BY <3>3, LenProperties
    <3>6. /\ Len(a \o b) = Len(a) + Len(b)
          /\ \A x \in 1..(Len(a) + Len(b)) :
                (a \o b)[x] = IF x <= Len(a) THEN a[x] ELSE b[x - Len(a)]
      BY <3>3, ConcatProperties
    <3>7. \A x \in 1..Len(a) : (a \o b)[x] = a[x]
      BY <3>5, <3>6
    <3>8. ASSUME NEW k \in 1..Len(b) PROVE (a \o b)[Len(a) + k] = b[k]
      <4>1. /\ Len(a) + k \in 1..(Len(a) + Len(b))
            /\ ~(Len(a) + k <= Len(a)) /\ Len(a) + k - Len(a) = k
        BY <3>5
      <4>2. QED
        BY <3>6, <4>1
    <3>9. QED
      BY <3>2, <3>3, <3>4, <3>6, <3>7, <3>8
  <2>8. \A i \in 1..n : o[i] = o[i - 1] + Len(s[i])
    <3>1. ASSUME NEW i \in 1..n, i = 1 PROVE o[i] = o[i - 1] + Len(s[i])
      <4>1. o[1] = Len(s[1]) /\ o[1 - 1] = 0 /\ Len(s[1]) \in Nat
        BY <2>2, <2>3, <2>6, <3>1
      <4>2. QED
        BY <3>1, <4>1
    <3>2. QED
      BY <2>7, <3>1
  <2>9. \A i \in 1..n : \A j \in 1..i : \A k \in 1..Len(s[j]) :
            o[j - 1] + k \in 1..o[i] /\ g[i][o[j - 1] + k] = s[j][k]
    <3> DEFINE Q(i) == \A j \in 1..i : \A k \in 1..Len(s[j]) :
                          o[j - 1] + k \in 1..o[i] /\ g[i][o[j - 1] + k] = s[j][k]
               T == {i \in 1..n : ~Q(i)}
    <3> SUFFICES ASSUME T # {} PROVE FALSE
      OBVIOUS
    <3>1. PICK i \in T : \A k \in T : i <= k
      <4>1. T \subseteq Nat
        OBVIOUS
      <4> HIDE DEF T
      <4>2. QED
        BY <4>1, LeastNumber
    <3>2. i \in 1..n /\ ~Q(i)
      BY <3>1
    <3>3. ASSUME NEW k \in 1..Len(s[i])
          PROVE  o[i - 1] + k \in 1..o[i] /\ g[i][o[i - 1] + k] = s[i][k]
      <4>1. i \in 1..n
        BY <3>2
      <4>2. o[i - 1] \in Nat /\ Len(s[i]) \in Nat
        <5> HIDE DEF T, Q
        <5>1. i - 1 \in 0..n
          BY <4>1
        <5>2. QED
          BY <5>1, <2>3, <2>6, <4>1
      <4>3. o[i - 1] + k \in 1..o[i]
        <5> HIDE DEF T, Q
        <5>1. o[i] = o[i - 1] + Len(s[i])
          BY <2>8, <4>1
        <5>2. QED
          BY <4>2, <5>1
      <4>4. CASE i = 1
        <5>1. o[i - 1] = 0 /\ g[i] = s[i]
          BY <2>2, <2>6, <4>4
        <5>2. o[i - 1] + k = k
          BY <5>1
        <5>3. QED
          BY <4>3, <5>1, <5>2
      <4>5. CASE i # 1
        BY <2>7, <3>2, <4>3, <4>5
      <4>6. QED
        BY <4>4, <4>5
    <3>4. ASSUME NEW j \in 1..i, j # i, NEW k \in 1..Len(s[j])
          PROVE  o[j - 1] + k \in 1..o[i] /\ g[i][o[j - 1] + k] = s[j][k]
      <4>1. i # 1 /\ i - 1 \in 1..n /\ ~(i <= i - 1) /\ j \in 1..(i - 1)
        <5>1. i \in 1..n
          BY <3>2
        <5> HIDE DEF T, Q
        <5>2. QED
          BY <5>1, <3>4
      <4>2. Q(i - 1)
        <5> HIDE DEF Q
        <5>1. i - 1 \notin T
          BY <3>1, <4>1
        <5>2. QED
          BY <4>1, <5>1
      <4>3. o[j - 1] + k \in 1..o[i - 1] /\ g[i - 1][o[j - 1] + k] = s[j][k]
        BY <4>1, <4>2
      <4>4. g[i][o[j - 1] + k] = s[j][k]
        BY <2>7, <3>2, <4>1, <4>3
      <4>5. o[i] = o[i - 1] + Len(s[i]) /\ o[i - 1] \in Nat /\ Len(s[i]) \in Nat
        <5>1. i \in 1..n
          BY <3>2
        <5> HIDE DEF T, Q
        <5>2. i - 1 \in 0..n
          BY <5>1
        <5>3. QED
          BY <5>1, <5>2, <2>3, <2>6, <2>8
      <4>6. o[j - 1] + k \in 1..o[i]
        <5>1. PICK a \in Nat, b \in Nat : a = o[i - 1] /\ b = Len(s[i])
          BY <4>5
        <5>2. PICK x \in 1..a : x = o[j - 1] + k
          BY <4>3, <5>1
        <5>3. x \in 1..(a + b) /\ o[i] = a + b
          BY <4>5, <5>1
        <5>4. QED
          BY <5>2, <5>3
      <4>7. QED
        BY <4>4, <4>6
    <3>5. Q(i)
      BY <3>3, <3>4
    <3>6. QED
      BY <3>2, <3>5
  <2>10. n \in 1..n /\ Len(g[n]) = o[n]
    BY <1>3, <2>6
  <2>11. \A i \in 1..n : \A k \in 1..Len(s[i]) :
            o[i - 1] + k \in 1..Len(g[n]) /\ g[n][o[i - 1] + k] = s[i][k]
    BY <2>9, <2>10
  <2>12. Laid(s, o, g[n])
    BY <1>1, <2>6, <2>8, <2>10, <2>11 DEF Laid
  <2>13. QED
    BY <2>1, <2>4, <2>10, <2>12
<1>4. QED
  BY <1>2, <1>3

----------------------------------------------------------------------------
(* What stands where among the events. *)

Types == {"scalar", "map", "mapEnd", "seq", "seqEnd",
          "start", "document", "documentEnd", "end"}
EventSet == [type : Types, value : STRING \cup {""}]

(* m stands in w after place p; e is what is in place q. *)
At(w, p, m) == \A k \in 1..Len(m) : p + k \in 1..Len(w) /\ w[p + k] = m[k]
Is(w, q, e) == q \in 1..Len(w) /\ w[q] = e

LEMMA AtInner ==
    ASSUME NEW w, NEW m, NEW x, NEW p \in Nat, NEW q \in Nat, At(w, p, m), At(m, q, x)
    PROVE  At(w, p + q, x)
<1> SUFFICES ASSUME NEW k \in 1..Len(x)
             PROVE  (p + q) + k \in 1..Len(w) /\ w[(p + q) + k] = x[k]
  BY DEF At
<1>1. q + k \in 1..Len(m) /\ m[q + k] = x[k]
  BY DEF At
<1>2. p + (q + k) \in 1..Len(w) /\ w[p + (q + k)] = m[q + k]
  BY <1>1 DEF At
<1>3. k \in Int
  OBVIOUS
<1>4. (p + q) + k = p + (q + k)
  BY <1>3
<1>5. QED
  BY <1>1, <1>2, <1>4

LEMMA AtPlace ==
    ASSUME NEW w, NEW m, NEW p \in Nat, NEW k, NEW e, At(w, p, m), Is(m, k, e)
    PROVE  Is(w, p + k, e)
BY DEF At, Is

LEMMA AtConcat ==
    ASSUME NEW E, NEW a \in Seq(E), NEW b \in Seq(E)
    PROVE  /\ a \o b \in Seq(E) /\ Len(a \o b) = Len(a) + Len(b)
           /\ At(a \o b, 0, a) /\ At(a \o b, Len(a), b)
<1>1. Len(a) \in Nat /\ Len(b) \in Nat
  BY LenProperties
<1>2. /\ a \o b \in Seq(E) /\ Len(a \o b) = Len(a) + Len(b)
      /\ \A x \in 1..(Len(a) + Len(b)) :
            (a \o b)[x] = IF x <= Len(a) THEN a[x] ELSE b[x - Len(a)]
  BY ConcatProperties
<1>3. ASSUME NEW k \in 1..Len(a)
      PROVE  0 + k \in 1..(Len(a) + Len(b)) /\ (a \o b)[0 + k] = a[k]
  <2>1. 0 + k = k /\ k \in 1..(Len(a) + Len(b)) /\ k <= Len(a)
    BY <1>1
  <2>2. QED
    BY <1>2, <2>1
<1>4. ASSUME NEW k \in 1..Len(b)
      PROVE  Len(a) + k \in 1..(Len(a) + Len(b)) /\ (a \o b)[Len(a) + k] = b[k]
  <2>1. /\ Len(a) + k \in 1..(Len(a) + Len(b))
        /\ ~(Len(a) + k <= Len(a)) /\ (Len(a) + k) - Len(a) = k
    BY <1>1
  <2>2. QED
    BY <1>2, <2>1
<1>5. QED
  BY <1>2, <1>3, <1>4 DEF At

(* Three sequences, one after another. *)
LEMMA AtThree ==
    ASSUME NEW E, NEW a \in Seq(E), NEW b \in Seq(E), NEW c \in Seq(E)
    PROVE  /\ a \o b \o c \in Seq(E)
           /\ Len(a \o b \o c) = Len(a) + Len(b) + Len(c)
           /\ At(a \o b \o c, 0, a) /\ At(a \o b \o c, Len(a), b)
           /\ At(a \o b \o c, Len(a) + Len(b), c)
<1> DEFINE ab == a \o b
           w == ab \o c
<1>1. /\ ab \in Seq(E) /\ Len(ab) = Len(a) + Len(b)
      /\ At(ab, 0, a) /\ At(ab, Len(a), b)
  BY AtConcat
<1>2. Len(a) \in Nat /\ Len(b) \in Nat
  BY LenProperties
<1> HIDE DEF ab
<1>3. /\ w \in Seq(E) /\ Len(w) = Len(ab) + Len(c)
      /\ At(w, 0, ab) /\ At(w, Len(ab), c)
  BY <1>1, AtConcat
<1> HIDE DEF w
<1>4. At(w, 0 + 0, a)
  BY <1>1, <1>3, AtInner
<1>5. At(w, 0 + Len(a), b)
  BY <1>1, <1>2, <1>3, AtInner
<1>6. 0 + 0 = 0 /\ 0 + Len(a) = Len(a)
  BY <1>2
<1>7. QED
  BY <1>1, <1>3, <1>4, <1>5, <1>6 DEF w, ab

(* The sequences of s, with what FlattenSeq puts between them. *)
Off(s) == CHOOSE off : Laid(s, off, FlattenSeq(s))

LEMMA OffLaid ==
    ASSUME NEW E, NEW s \in Seq(Seq(E))
    PROVE  /\ FlattenSeq(s) \in Seq(E)
           /\ Off(s) \in [0..Len(s) -> Nat] /\ Off(s)[0] = 0
           /\ Len(FlattenSeq(s)) = Off(s)[Len(s)]
           /\ \A i \in 1..Len(s) : /\ Off(s)[i] = Off(s)[i - 1] + Len(s[i])
                                   /\ At(FlattenSeq(s), Off(s)[i - 1], s[i])
<1>1. FlattenSeq(s) \in Seq(E) /\ \E off : Laid(s, off, FlattenSeq(s))
  BY FlattenLaid
<1> DEFINE w == FlattenSeq(s)
<1> HIDE DEF w
<1>2. Laid(s, Off(s), w)
  BY <1>1 DEF Off, w
<1> DEFINE o == Off(s)
<1> HIDE DEF o
<1>3. Laid(s, o, w)
  BY <1>2 DEF o
<1>4. QED
  BY <1>1, <1>3 DEF Laid, At, o, w

Twos(pairs) == [k \in DOMAIN pairs |-> <<Scalar(pairs[k].key), Scalar(pairs[k].value)>>]

LEMMA ScalarsAreEvents ==
    ASSUME NEW x \in KeyScalar
    PROVE  /\ Scalar(x.key) \in EventSet /\ Scalar(x.value) \in EventSet
           /\ x.key \in STRING /\ x.value \in STRING
BY DEF KeyScalar, Scalar, EventSet, Types

LEMMA MarksAreEvents ==
    ASSUME NEW t \in Types
    PROVE  Mark(t) \in EventSet
BY DEF Mark, EventSet

LEMMA OneMark ==
    ASSUME NEW t \in Types
    PROVE  /\ <<Mark(t)>> \in Seq(EventSet) /\ Len(<<Mark(t)>>) = 1
           /\ Is(<<Mark(t)>>, 1, Mark(t))
<1>1. PICK x : x = Mark(t)
  OBVIOUS
<1>2. x \in EventSet
  BY <1>1, MarksAreEvents
<1>3. <<x>> \in Seq(EventSet) /\ Len(<<x>>) = 1 /\ Is(<<x>>, 1, x)
  BY <1>2 DEF Is
<1>4. QED
  BY <1>1, <1>3

(* A key and a value are two events, so that the k-th pair comes after 2(k-1). *)
LEMMA TwosLaid ==
    ASSUME NEW pairs \in Seq(KeyScalar), NEW m \in Nat, m = Len(pairs)
    PROVE  /\ FlattenSeq(Twos(pairs)) \in Seq(EventSet)
           /\ Len(FlattenSeq(Twos(pairs))) = 2 * m
           /\ \A k \in 1..m :
                 /\ Is(FlattenSeq(Twos(pairs)), 2 * k - 1, Scalar(pairs[k].key))
                 /\ Is(FlattenSeq(Twos(pairs)), 2 * k, Scalar(pairs[k].value))
<1> DEFINE s == Twos(pairs)
           w == FlattenSeq(s)
           o == Off(s)
<1>1. DOMAIN pairs = 1..m /\ \A k \in 1..m : pairs[k] \in KeyScalar
  BY ElementOfSeq, LenProperties
<1>2. \A k \in 1..m : s[k] = <<Scalar(pairs[k].key), Scalar(pairs[k].value)>>
  BY <1>1 DEF Twos
<1>3. \A k \in 1..m : Scalar(pairs[k].key) \in EventSet /\ Scalar(pairs[k].value) \in EventSet
  BY <1>1, ScalarsAreEvents
<1>4. s \in Seq(Seq(EventSet)) /\ Len(s) = m
  <2>1. s = [k \in 1..m |-> s[k]]
    BY <1>1 DEF Twos
  <2> HIDE DEF s
  <2>2. ASSUME NEW k \in 1..m PROVE s[k] \in Seq(EventSet)
    <3>1. PICK x, y : x = Scalar(pairs[k].key) /\ y = Scalar(pairs[k].value)
      OBVIOUS
    <3>2. s[k] = <<x, y>> /\ x \in EventSet /\ y \in EventSet
      BY <1>2, <1>3, <3>1
    <3>3. QED
      BY <3>2
  <2>3. s \in [1..m -> Seq(EventSet)]
    BY <2>1, <2>2
  <2>4. QED
    BY <2>3, IsASeq, LenProperties
<1> HIDE DEF s
<1>5. /\ w \in Seq(EventSet) /\ o \in [0..m -> Nat] /\ o[0] = 0 /\ Len(w) = o[m]
      /\ \A k \in 1..m : o[k] = o[k - 1] + Len(s[k]) /\ At(w, o[k - 1], s[k])
  BY <1>4, OffLaid
<1> HIDE DEF w, o
<1>6. ASSUME NEW k \in 1..m PROVE Len(s[k]) = 2
  <2>1. PICK x, y : x = Scalar(pairs[k].key) /\ y = Scalar(pairs[k].value)
    OBVIOUS
  <2>2. s[k] = <<x, y>>
    BY <1>2, <2>1
  <2>3. QED
    BY <2>2
<1>7. \A k \in 0..m : o[k] = 2 * k
  <2> DEFINE T == {k \in 0..m : o[k] # 2 * k}
  <2> SUFFICES ASSUME T # {} PROVE FALSE
    OBVIOUS
  <2>1. PICK k \in T : \A x \in T : k <= x
    <3>1. T \subseteq Nat
      OBVIOUS
    <3> HIDE DEF T
    <3>2. QED
      BY <3>1, LeastNumber
  <2>2. k \in 0..m /\ o[k] # 2 * k
    BY <2>1
  <2>3. k # 0
    BY <2>2, <1>5
  <2>4. k - 1 \in 0..m /\ k \in 1..m /\ ~(k <= k - 1)
    BY <2>2, <2>3
  <2>5. o[k - 1] = 2 * (k - 1)
    <3>1. k - 1 \notin T
      BY <2>1, <2>4
    <3>2. QED
      BY <2>4, <3>1
  <2>6. o[k] = o[k - 1] + 2
    BY <2>4, <1>5, <1>6
  <2>7. QED
    BY <2>2, <2>5, <2>6
<1>8. ASSUME NEW k \in 1..m
      PROVE  /\ Is(w, 2 * k - 1, Scalar(pairs[k].key))
             /\ Is(w, 2 * k, Scalar(pairs[k].value))
  <2>1. o[k - 1] = 2 * (k - 1)
    <3>1. k - 1 \in 0..m
      OBVIOUS
    <3>2. QED
      BY <3>1, <1>7
  <2>2. PICK x, y : x = Scalar(pairs[k].key) /\ y = Scalar(pairs[k].value)
    OBVIOUS
  <2>3. s[k] = <<x, y>>
    BY <1>2, <2>2
  <2>4. At(w, 2 * (k - 1), <<x, y>>)
    BY <1>5, <2>1, <2>3
  <2>5. Is(<<x, y>>, 1, x) /\ Is(<<x, y>>, 2, y)
    BY DEF Is
  <2>6. 2 * (k - 1) \in Nat
    OBVIOUS
  <2>7. Is(w, 2 * (k - 1) + 1, x) /\ Is(w, 2 * (k - 1) + 2, y)
    BY <2>4, <2>5, <2>6, AtPlace
  <2>8. 2 * (k - 1) + 1 = 2 * k - 1 /\ 2 * (k - 1) + 2 = 2 * k
    OBVIOUS
  <2>9. QED
    BY <2>2, <2>7, <2>8
<1>9. Len(w) = 2 * m
  <2>1. m \in 0..m
    OBVIOUS
  <2>2. QED
    BY <2>1, <1>5, <1>7
<1>10. QED
  BY <1>5, <1>8, <1>9 DEF w, s

(* What is where in a mapping of m keys. *)
IsMapping(w, pairs, m) ==
    /\ w \in Seq(EventSet) /\ Len(w) = 2 * m + 2
    /\ Is(w, 1, Mark("map")) /\ Is(w, 2 * m + 2, Mark("mapEnd"))
    /\ \A k \in 1..m : /\ Is(w, 2 * k, Scalar(pairs[k].key))
                       /\ Is(w, 2 * k + 1, Scalar(pairs[k].value))

LEMMA MappingLaid ==
    ASSUME NEW pairs \in Seq(KeyScalar), NEW m \in Nat, m = Len(pairs)
    PROVE  IsMapping(Mapping(pairs), pairs, m)
<1> DEFINE t == FlattenSeq(Twos(pairs))
           a == <<Mark("map")>>
           c == <<Mark("mapEnd")>>
           w == a \o t \o c
<1>1. /\ t \in Seq(EventSet) /\ Len(t) = 2 * m
      /\ \A k \in 1..m : /\ Is(t, 2 * k - 1, Scalar(pairs[k].key))
                         /\ Is(t, 2 * k, Scalar(pairs[k].value))
  BY TwosLaid
<1>2. Mapping(pairs) = w
  BY DEF Mapping, Twos
<1>3. /\ a \in Seq(EventSet) /\ c \in Seq(EventSet) /\ Len(a) = 1 /\ Len(c) = 1
      /\ Is(a, 1, Mark("map")) /\ Is(c, 1, Mark("mapEnd"))
  BY OneMark DEF Types
<1> HIDE DEF t, a, c
<1>4. /\ w \in Seq(EventSet) /\ Len(w) = Len(a) + Len(t) + Len(c)
      /\ At(w, 0, a) /\ At(w, Len(a), t) /\ At(w, Len(a) + Len(t), c)
  <2>1. t \in Seq(EventSet) /\ a \in Seq(EventSet) /\ c \in Seq(EventSet)
    BY <1>1, <1>3
  <2>2. QED
    BY <2>1, AtThree
<1> HIDE DEF w
<1>5. At(w, 1, t) /\ At(w, 1 + 2 * m, c) /\ Len(w) = 1 + 2 * m + 1 /\ 1 + 2 * m \in Nat
  BY <1>1, <1>3, <1>4
<1>6. Is(w, 0 + 1, Mark("map"))
  BY <1>3, <1>4, AtPlace
<1>7. Is(w, (1 + 2 * m) + 1, Mark("mapEnd"))
  BY <1>3, <1>5, AtPlace
<1>8. ASSUME NEW k \in 1..m
      PROVE  Is(w, 2 * k, Scalar(pairs[k].key)) /\ Is(w, 2 * k + 1, Scalar(pairs[k].value))
  <2>1. Is(w, 1 + (2 * k - 1), Scalar(pairs[k].key)) /\ Is(w, 1 + 2 * k, Scalar(pairs[k].value))
    BY <1>1, <1>5, AtPlace
  <2>2. 1 + (2 * k - 1) = 2 * k /\ 1 + 2 * k = 2 * k + 1
    OBVIOUS
  <2>3. QED
    BY <2>1, <2>2
<1>9. 0 + 1 = 1 /\ (1 + 2 * m) + 1 = 2 * m + 2
  OBVIOUS
<1>10. IsMapping(w, pairs, m)
  BY <1>4, <1>5, <1>6, <1>7, <1>8, <1>9 DEF IsMapping
<1>11. QED
  BY <1>2, <1>10

LEMMA ScalarItemLaid ==
    ASSUME NEW item \in KeyScalar
    PROVE  /\ ItemEvents(item) \in Seq(EventSet) /\ Len(ItemEvents(item)) = 2
           /\ Is(ItemEvents(item), 1, Scalar(item.key))
           /\ Is(ItemEvents(item), 2, Scalar(item.value))
<1>1. PICK x, y : x = Scalar(item.key) /\ y = Scalar(item.value)
  OBVIOUS
<1>2. x \in EventSet /\ y \in EventSet
  BY <1>1, ScalarsAreEvents
<1>3. item.kind = "scalar"
  BY DEF KeyScalar
<1>4. ItemEvents(item) = <<x>> \o <<y>>
  BY <1>1, <1>3 DEF ItemEvents
<1> DEFINE a == <<x>>
           b == <<y>>
           w == a \o b
<1>5. /\ a \in Seq(EventSet) /\ Len(a) = 1 /\ Is(a, 1, x)
      /\ b \in Seq(EventSet) /\ Len(b) = 1 /\ Is(b, 1, y)
  BY <1>2 DEF Is
<1> HIDE DEF a, b
<1>6. /\ w \in Seq(EventSet) /\ Len(w) = Len(a) + Len(b)
      /\ At(w, 0, a) /\ At(w, Len(a), b)
  <2>1. a \in Seq(EventSet) /\ b \in Seq(EventSet)
    BY <1>5
  <2>2. QED
    BY <2>1, AtConcat
<1> HIDE DEF w
<1>7. Len(w) = 2 /\ At(w, 1, b)
  BY <1>5, <1>6
<1>8. Is(w, 0 + 1, x) /\ Is(w, 1 + 1, y)
  BY <1>5, <1>6, <1>7, AtPlace
<1>9. 0 + 1 = 1 /\ 1 + 1 = 2
  OBVIOUS
<1>10. QED
  BY <1>1, <1>4, <1>6, <1>7, <1>8, <1>9 DEF w, a, b

EntriesItem == [key : STRING, kind : {"entries"}, value : Seq(Seq(KeyScalar))]

Mappings(v) == [j \in DOMAIN v |-> Mapping(v[j])]

(* What is where in the events of an item with the entries v. *)
IsEntries(w, item, v, o) ==
    /\ w \in Seq(EventSet) /\ Len(w) = 3 + o[Len(v)]
    /\ Is(w, 1, Scalar(item.key)) /\ Is(w, 2, Mark("seq"))
    /\ Is(w, 3 + o[Len(v)], Mark("seqEnd"))
    /\ o \in [0..Len(v) -> Nat] /\ o[0] = 0
    /\ \A j \in 1..Len(v) : /\ o[j] = o[j - 1] + (2 * Len(v[j]) + 2)
                            /\ At(w, 2 + o[j - 1], Mapping(v[j]))

LEMMA MappingsAreEvents ==
    ASSUME NEW v \in Seq(Seq(KeyScalar)), NEW J \in Nat, J = Len(v)
    PROVE  /\ Mappings(v) \in Seq(Seq(EventSet)) /\ Len(Mappings(v)) = J
           /\ \A j \in 1..J : /\ Mappings(v)[j] = Mapping(v[j])
                              /\ Len(Mapping(v[j])) = 2 * Len(v[j]) + 2
<1>1. DOMAIN v = 1..J /\ \A j \in 1..J : v[j] \in Seq(KeyScalar)
  BY ElementOfSeq, LenProperties
<1>2. ASSUME NEW j \in 1..J
      PROVE  Mapping(v[j]) \in Seq(EventSet) /\ Len(Mapping(v[j])) = 2 * Len(v[j]) + 2
  <2>1. PICK x : x = v[j]
    OBVIOUS
  <2>2. x \in Seq(KeyScalar)
    BY <1>1, <2>1
  <2>3. Len(x) \in Nat
    BY <2>2, LenProperties
  <2>4. IsMapping(Mapping(x), x, Len(x))
    BY <2>2, <2>3, MappingLaid
  <2>5. QED
    BY <2>1, <2>4 DEF IsMapping
<1>3. \A j \in 1..J : Mappings(v)[j] = Mapping(v[j])
  BY <1>1 DEF Mappings
<1>4. Mappings(v) \in [1..J -> Seq(EventSet)]
  <2>1. Mappings(v) = [j \in 1..J |-> Mapping(v[j])]
    BY <1>1 DEF Mappings
  <2>2. QED
    BY <1>2, <2>1
<1>5. QED
  BY <1>2, <1>3, <1>4, IsASeq, LenProperties

LEMMA EntriesItemLaid ==
    ASSUME NEW item \in EntriesItem
    PROVE  IsEntries(ItemEvents(item), item, item.value, Off(Mappings(item.value)))
<1>1. PICK v \in Seq(Seq(KeyScalar)) : v = item.value
  BY DEF EntriesItem
<1>2. PICK J \in Nat : J = Len(v)
  BY LenProperties
<1> DEFINE s == Mappings(v)
           t == FlattenSeq(s)
           o == Off(s)
           h == <<Scalar(item.key)>>
           a == <<Mark("seq")>>
           c == <<Mark("seqEnd")>>
           b == a \o t \o c
           w == h \o b
<1>3. /\ s \in Seq(Seq(EventSet)) /\ Len(s) = J
      /\ \A j \in 1..J : s[j] = Mapping(v[j]) /\ Len(s[j]) = 2 * Len(v[j]) + 2
  <2>1. /\ Mappings(v) \in Seq(Seq(EventSet)) /\ Len(Mappings(v)) = J
        /\ \A j \in 1..J : /\ Mappings(v)[j] = Mapping(v[j])
                           /\ Len(Mapping(v[j])) = 2 * Len(v[j]) + 2
    BY <1>2, MappingsAreEvents
  <2>2. s = Mappings(v)
    OBVIOUS
  <2> HIDE DEF s
  <2>3. \A j \in 1..J : s[j] = Mapping(v[j]) /\ Len(s[j]) = 2 * Len(v[j]) + 2
    BY <2>1, <2>2
  <2>4. QED
    BY <2>1, <2>2, <2>3
<1> HIDE DEF s
<1>4. /\ t \in Seq(EventSet) /\ o \in [0..J -> Nat] /\ o[0] = 0 /\ Len(t) = o[J]
      /\ \A j \in 1..J : o[j] = o[j - 1] + Len(s[j]) /\ At(t, o[j - 1], s[j])
  BY <1>3, OffLaid
<1> HIDE DEF t, o
<1>5. /\ a \in Seq(EventSet) /\ c \in Seq(EventSet) /\ Len(a) = 1 /\ Len(c) = 1
      /\ Is(a, 1, Mark("seq")) /\ Is(c, 1, Mark("seqEnd"))
  BY OneMark DEF Types
<1>6. h \in Seq(EventSet) /\ Len(h) = 1 /\ Is(h, 1, Scalar(item.key))
  <2>1. PICK x : x = Scalar(item.key)
    OBVIOUS
  <2>2. x \in EventSet
    <3>1. item.key \in STRING
      BY DEF EntriesItem
    <3>2. QED
      BY <2>1, <3>1 DEF Scalar, EventSet, Types
  <2>3. <<x>> \in Seq(EventSet) /\ Len(<<x>>) = 1 /\ Is(<<x>>, 1, x)
    BY <2>2 DEF Is
  <2>4. QED
    BY <2>1, <2>3
<1> HIDE DEF a, c, h
<1>7. J \in 0..J /\ o[J] \in Nat
  BY <1>4
<1>8. /\ b \in Seq(EventSet) /\ Len(b) = Len(a) + Len(t) + Len(c)
      /\ At(b, 0, a) /\ At(b, Len(a), t) /\ At(b, Len(a) + Len(t), c)
  <2>1. t \in Seq(EventSet) /\ a \in Seq(EventSet) /\ c \in Seq(EventSet)
    BY <1>4, <1>5
  <2>2. QED
    BY <2>1, AtThree
<1> HIDE DEF b
<1>9. /\ w \in Seq(EventSet) /\ Len(w) = Len(h) + Len(b)
      /\ At(w, 0, h) /\ At(w, Len(h), b)
  <2>1. h \in Seq(EventSet) /\ b \in Seq(EventSet)
    BY <1>6, <1>8
  <2>2. QED
    BY <2>1, AtConcat
<1> HIDE DEF w
<1>10. At(b, 0, a) /\ At(b, 1, t) /\ At(b, 1 + o[J], c) /\ Len(b) = 1 + o[J] + 1 /\ At(w, 1, b)
       /\ 1 + o[J] \in Nat /\ Len(w) = 1 + (1 + o[J] + 1)
  BY <1>4, <1>5, <1>6, <1>7, <1>8, <1>9
<1>11. At(w, 1 + 0, a) /\ At(w, 1 + 1, t) /\ At(w, 1 + (1 + o[J]), c)
  BY <1>10, AtInner
<1>12. 1 + 0 = 1 /\ 1 + 1 = 2 /\ 1 + (1 + o[J]) = 2 + o[J] /\ 1 + (1 + o[J] + 1) = 3 + o[J]
       /\ 2 + o[J] \in Nat /\ (2 + o[J]) + 1 = 3 + o[J]
  BY <1>7
<1>13. Is(w, 0 + 1, Scalar(item.key)) /\ 0 + 1 = 1
  BY <1>6, <1>9, AtPlace
<1>14. At(w, 1, a) /\ At(w, 2 + o[J], c) /\ At(w, 2, t)
  BY <1>11, <1>12
<1>15. Is(w, 1 + 1, Mark("seq")) /\ Is(w, (2 + o[J]) + 1, Mark("seqEnd"))
  BY <1>5, <1>12, <1>14, AtPlace
<1>16. ASSUME NEW j \in 1..J
       PROVE  /\ o[j] = o[j - 1] + (2 * Len(v[j]) + 2)
              /\ At(w, 2 + o[j - 1], Mapping(v[j]))
  <2>1. j - 1 \in 0..J
    BY <1>2
  <2>2. o[j - 1] \in Nat
    BY <1>4, <2>1
  <2>3. At(t, o[j - 1], Mapping(v[j]))
    BY <1>3, <1>4
  <2>4. At(w, 2 + o[j - 1], Mapping(v[j]))
    BY <1>14, <2>2, <2>3, AtInner
  <2>5. QED
    BY <1>3, <1>4, <2>4
<1>17. item.kind = "entries"
  BY DEF EntriesItem
<1>18. ItemEvents(item) = w
  BY <1>1, <1>17 DEF ItemEvents, Mappings, w, b, h, a, c, t, s
<1>19. Len(w) = 3 + o[J] /\ Is(w, 2, Mark("seq")) /\ Is(w, 3 + o[J], Mark("seqEnd"))
  BY <1>10, <1>12, <1>15
<1>20. IsEntries(w, item, v, o)
  BY <1>2, <1>4, <1>9, <1>13, <1>16, <1>19 DEF IsEntries
<1>21. QED
  BY <1>1, <1>18, <1>20 DEF o, s

(* The files that a sensible one is among. *)
Plain(f) == f \in Seq(KeyScalar \cup EntriesItem)

ItemSeqs(f) == [i \in DOMAIN f |-> ItemEvents(f[i])]

(* The place before item i, or, after the last, before the end. *)
ItemAt(f, i) == 3 + Off(ItemSeqs(f))[i - 1]

(* What is where among the events of a file of n items. *)
IsStream(w, f, n) ==
    /\ ItemAt(f, 1) = 3 /\ \A i \in 1..(n + 1) : ItemAt(f, i) \in Nat
    /\ Len(w) = ItemAt(f, n + 1) + 3
    /\ Is(w, 1, Mark("start")) /\ Is(w, 2, Mark("document")) /\ Is(w, 3, Mark("map"))
    /\ Is(w, ItemAt(f, n + 1) + 1, Mark("mapEnd"))
    /\ Is(w, ItemAt(f, n + 1) + 2, Mark("documentEnd"))
    /\ Is(w, ItemAt(f, n + 1) + 3, Mark("end"))
    /\ \A i \in 1..n : /\ ItemAt(f, i + 1) = ItemAt(f, i) + Len(ItemEvents(f[i]))
                       /\ At(w, ItemAt(f, i), ItemEvents(f[i]))

LEMMA ItemSeqsAreEvents ==
    ASSUME NEW f, Plain(f), NEW n \in Nat, n = Len(f)
    PROVE  /\ ItemSeqs(f) \in Seq(Seq(EventSet)) /\ Len(ItemSeqs(f)) = n
           /\ \A i \in 1..n : ItemSeqs(f)[i] = ItemEvents(f[i])
<1>1. DOMAIN f = 1..n /\ \A i \in 1..n : f[i] \in KeyScalar \cup EntriesItem
  BY ElementOfSeq, LenProperties DEF Plain
<1>2. ASSUME NEW i \in 1..n PROVE ItemEvents(f[i]) \in Seq(EventSet)
  <2>1. PICK x : x = f[i]
    OBVIOUS
  <2>2. CASE x \in KeyScalar
    BY <2>1, <2>2, ScalarItemLaid
  <2>3. CASE x \in EntriesItem
    <3>1. IsEntries(ItemEvents(x), x, x.value, Off(Mappings(x.value)))
      BY <2>3, EntriesItemLaid
    <3>2. QED
      BY <2>1, <3>1 DEF IsEntries
  <2>4. QED
    BY <1>1, <2>1, <2>2, <2>3
<1>3. \A i \in 1..n : ItemSeqs(f)[i] = ItemEvents(f[i])
  BY <1>1 DEF ItemSeqs
<1>4. ItemSeqs(f) \in [1..n -> Seq(EventSet)]
  <2>1. ItemSeqs(f) = [i \in 1..n |-> ItemEvents(f[i])]
    BY <1>1 DEF ItemSeqs
  <2>2. QED
    BY <1>2, <2>1
<1>5. QED
  BY <1>3, <1>4, IsASeq, LenProperties

LEMMA ThreeMarks ==
    ASSUME NEW t1 \in Types, NEW t2 \in Types, NEW t3 \in Types
    PROVE  LET m == <<Mark(t1), Mark(t2), Mark(t3)>> IN
               /\ m \in Seq(EventSet) /\ Len(m) = 3
               /\ Is(m, 1, Mark(t1)) /\ Is(m, 2, Mark(t2)) /\ Is(m, 3, Mark(t3))
<1>1. PICK x, y, z : x = Mark(t1) /\ y = Mark(t2) /\ z = Mark(t3)
  OBVIOUS
<1>2. x \in EventSet /\ y \in EventSet /\ z \in EventSet
  BY <1>1, MarksAreEvents
<1>3. /\ <<x, y, z>> \in Seq(EventSet) /\ Len(<<x, y, z>>) = 3
      /\ Is(<<x, y, z>>, 1, x) /\ Is(<<x, y, z>>, 2, y) /\ Is(<<x, y, z>>, 3, z)
  BY <1>2 DEF Is
<1>4. QED
  BY <1>1, <1>3

LEMMA StreamLaid ==
    ASSUME NEW f, Plain(f), NEW n \in Nat, n = Len(f)
    PROVE  IsStream(Events(f), f, n)
<1> DEFINE s == ItemSeqs(f)
           t == FlattenSeq(s)
           o == Off(s)
           a == <<Mark("start"), Mark("document"), Mark("map")>>
           c == <<Mark("mapEnd"), Mark("documentEnd"), Mark("end")>>
           w == a \o t \o c
<1>1. /\ s \in Seq(Seq(EventSet)) /\ Len(s) = n
      /\ \A i \in 1..n : s[i] = ItemEvents(f[i])
  BY ItemSeqsAreEvents
<1> HIDE DEF s
<1>2. /\ t \in Seq(EventSet) /\ o \in [0..n -> Nat] /\ o[0] = 0 /\ Len(t) = o[n]
      /\ \A i \in 1..n : o[i] = o[i - 1] + Len(s[i]) /\ At(t, o[i - 1], s[i])
  BY <1>1, OffLaid
<1> HIDE DEF t, o
<1>3. /\ a \in Seq(EventSet) /\ Len(a) = 3
      /\ Is(a, 1, Mark("start")) /\ Is(a, 2, Mark("document")) /\ Is(a, 3, Mark("map"))
  BY ThreeMarks DEF Types
<1>4. /\ c \in Seq(EventSet) /\ Len(c) = 3
      /\ Is(c, 1, Mark("mapEnd")) /\ Is(c, 2, Mark("documentEnd")) /\ Is(c, 3, Mark("end"))
  BY ThreeMarks DEF Types
<1> HIDE DEF a, c
<1>5. /\ w \in Seq(EventSet) /\ Len(w) = Len(a) + Len(t) + Len(c)
      /\ At(w, 0, a) /\ At(w, Len(a), t) /\ At(w, Len(a) + Len(t), c)
  <2>1. t \in Seq(EventSet) /\ a \in Seq(EventSet) /\ c \in Seq(EventSet)
    BY <1>2, <1>3, <1>4
  <2>2. QED
    BY <2>1, AtThree
<1> HIDE DEF w
<1>6. n \in 0..n /\ o[n] \in Nat /\ 3 + o[n] \in Nat
  BY <1>2
<1>7. At(w, 3, t) /\ At(w, 3 + o[n], c) /\ Len(w) = 3 + o[n] + 3
  BY <1>2, <1>3, <1>4, <1>5, <1>6
<1>8. ASSUME NEW i \in 1..(n + 1)
      PROVE  ItemAt(f, i) = 3 + o[i - 1] /\ ItemAt(f, i) \in Nat
  <2>1. i - 1 \in 0..n
    OBVIOUS
  <2>2. o[i - 1] \in Nat
    BY <1>2, <2>1
  <2>3. ItemAt(f, i) = 3 + o[i - 1]
    BY DEF ItemAt, o, s
  <2>4. QED
    BY <2>2, <2>3
<1>9. ItemAt(f, 1) = 3 /\ ItemAt(f, n + 1) = 3 + o[n]
  <2>1. 1 \in 1..(n + 1) /\ n + 1 \in 1..(n + 1) /\ 1 - 1 = 0 /\ (n + 1) - 1 = n
    OBVIOUS
  <2>2. ItemAt(f, 1) = 3 + o[0] /\ ItemAt(f, n + 1) = 3 + o[n]
    BY <1>8, <2>1
  <2>3. QED
    BY <1>2, <2>2
<1>10. Is(w, 0 + 1, Mark("start")) /\ Is(w, 0 + 2, Mark("document")) /\ Is(w, 0 + 3, Mark("map"))
  BY <1>3, <1>5, AtPlace
<1>11. /\ Is(w, (3 + o[n]) + 1, Mark("mapEnd")) /\ Is(w, (3 + o[n]) + 2, Mark("documentEnd"))
       /\ Is(w, (3 + o[n]) + 3, Mark("end"))
  BY <1>4, <1>6, <1>7, AtPlace
<1>12. ASSUME NEW i \in 1..n
       PROVE  /\ ItemAt(f, i + 1) = ItemAt(f, i) + Len(ItemEvents(f[i]))
              /\ At(w, ItemAt(f, i), ItemEvents(f[i]))
  <2>1. i \in 1..(n + 1) /\ i + 1 \in 1..(n + 1) /\ (i + 1) - 1 = i /\ i - 1 \in 0..n
    OBVIOUS
  <2>2. o[i - 1] \in Nat
    BY <1>2, <2>1
  <2>3. ItemAt(f, i) = 3 + o[i - 1]
    BY <1>8, <2>1
  <2>4. ItemAt(f, i + 1) = 3 + o[i]
    BY <1>8, <2>1
  <2>5. PICK m : m = ItemEvents(f[i])
    OBVIOUS
  <2>6. o[i] = o[i - 1] + Len(m) /\ At(t, o[i - 1], m)
    BY <1>1, <1>2, <2>5
  <2>7. At(w, 3 + o[i - 1], m)
    BY <1>7, <2>2, <2>6, AtInner
  <2>8. m \in Seq(EventSet)
    BY <1>1, <2>5, ElementOfSeq
  <2>9. Len(m) \in Nat
    BY <2>8, LenProperties
  <2>10. 3 + o[i] = 3 + o[i - 1] + Len(m)
    BY <2>2, <2>6, <2>9
  <2>11. QED
    BY <2>3, <2>4, <2>5, <2>7, <2>10
<1>13. Events(f) = w
  BY DEF Events, w, a, c, t, s, ItemSeqs
<1>14. 0 + 1 = 1 /\ 0 + 2 = 2 /\ 0 + 3 = 3
  OBVIOUS
<1>15. IsStream(w, f, n)
  BY <1>7, <1>8, <1>9, <1>10, <1>11, <1>12, <1>14 DEF IsStream
<1>16. QED
  BY <1>13, <1>15

----------------------------------------------------------------------------
(* What a sequence of keys and values means, place by place. *)

(* x is a setting of k, and one that counts. *)
Sets(x, k) == Setting(x.key) = k /\ (k = "mode" => x.value \in Modes)

SetLast(pairs, i, n, k) == Sets(pairs[i], k) /\ \A j \in 1..n : i < j => ~Sets(pairs[j], k)

(* e is what d has become with the first n of the pairs. *)
ReadTo(e, pairs, n, d) ==
    /\ e = [k \in DOMAIN d |-> e[k]]
    /\ \A k \in DOMAIN d :
          \/ (\A i \in 1..n : ~Sets(pairs[i], k)) /\ e[k] = d[k]
          \/ \E i \in 1..n : SetLast(pairs, i, n, k) /\ e[k] = MeantValue(k, pairs[i].value)

LEMMA ReadNone ==
    ASSUME NEW d, d = [k \in DOMAIN d |-> d[k]], NEW pairs
    PROVE  ReadTo(d, pairs, 0, d)
BY DEF ReadTo

LEMMA ReadOne ==
    ASSUME NEW e, NEW pairs, NEW n \in Nat, NEW m, m = n + 1, NEW d, ReadTo(e, pairs, n, d),
           NEW f, f = [k \in DOMAIN d |-> f[k]],
           \A k \in DOMAIN d :
              f[k] = IF Sets(pairs[m], k) THEN MeantValue(k, pairs[m].value) ELSE e[k]
    PROVE  ReadTo(f, pairs, m, d)
<1> SUFFICES ASSUME NEW k \in DOMAIN d
             PROVE  \/ (\A i \in 1..m : ~Sets(pairs[i], k)) /\ f[k] = d[k]
                    \/ \E i \in 1..m : SetLast(pairs, i, m, k)
                                       /\ f[k] = MeantValue(k, pairs[i].value)
  BY DEF ReadTo
<1>1. m \in 1..m /\ \A j \in 1..m : ~(m < j) /\ (j \in 1..n \/ j = m)
  OBVIOUS
<1>2. CASE Sets(pairs[m], k)
  <2>1. SetLast(pairs, m, m, k)
    BY <1>1, <1>2 DEF SetLast
  <2>2. QED
    BY <1>1, <1>2, <2>1
<1>3. CASE ~Sets(pairs[m], k)
  <2>1. f[k] = e[k]
    BY <1>3
  <2>2. CASE (\A i \in 1..n : ~Sets(pairs[i], k)) /\ e[k] = d[k]
    BY <1>1, <1>3, <2>1, <2>2
  <2>3. CASE \E i \in 1..n : SetLast(pairs, i, n, k) /\ e[k] = MeantValue(k, pairs[i].value)
    <3>1. PICK i \in 1..n : SetLast(pairs, i, n, k) /\ e[k] = MeantValue(k, pairs[i].value)
      BY <2>3
    <3>2. i \in 1..m
      OBVIOUS
    <3>3. SetLast(pairs, i, m, k)
      BY <1>1, <1>3, <3>1 DEF SetLast
    <3>4. QED
      BY <2>1, <3>1, <3>2, <3>3
  <2>4. QED
    BY <2>2, <2>3 DEF ReadTo
<1>4. QED
  BY <1>2, <1>3

LEMMA ReadAll ==
    ASSUME NEW e, NEW pairs, NEW n \in Nat, n = Len(pairs), NEW d, ReadTo(e, pairs, n, d)
    PROVE  e = Meant(pairs, d, MeantValue)
<1> DEFINE I(k) == {i \in 1..n : Sets(pairs[i], k)}
           i(k) == IF I(k) # {} THEN CHOOSE x \in I(k) : \A y \in I(k) : x >= y ELSE 0
           V(k) == IF i(k) = 0 THEN d[k] ELSE MeantValue(k, pairs[i(k)].value)
<1>1. Meant(pairs, d, MeantValue) = [k \in DOMAIN d |-> V(k)]
  BY DEF Meant, SelectLastInSeq, Max, Sets
<1>2. ASSUME NEW k \in DOMAIN d PROVE V(k) = e[k]
  <2>1. CASE (\A j \in 1..n : ~Sets(pairs[j], k)) /\ e[k] = d[k]
    <3>1. I(k) = {}
      BY <2>1
    <3>2. QED
      BY <2>1, <3>1
  <2>2. CASE \E j \in 1..n : SetLast(pairs, j, n, k) /\ e[k] = MeantValue(k, pairs[j].value)
    <3>1. PICK j \in 1..n : SetLast(pairs, j, n, k) /\ e[k] = MeantValue(k, pairs[j].value)
      BY <2>2
    <3>2. j \in I(k) /\ \A y \in I(k) : y \in 1..n /\ ~(j < y)
      BY <3>1 DEF SetLast
    <3>3. \A y \in I(k) : j >= y
      BY <3>2
    <3>4. \A x \in I(k) : (\A y \in I(k) : x >= y) => x = j
      BY <3>2, <3>3
    <3>5. i(k) = j
      <4> HIDE DEF I
      <4>1. QED
        BY <3>2, <3>3, <3>4
    <3>6. j # 0
      OBVIOUS
    <3>7. V(k) = MeantValue(k, pairs[j].value)
      <4> HIDE DEF i
      <4>1. QED
        BY <3>5, <3>6
    <3> HIDE DEF V
    <3>8. QED
      BY <3>1, <3>7
  <2>3. QED
    <3> HIDE DEF V
    <3>1. QED
      BY <2>1, <2>2 DEF ReadTo
<1>3. e = [k \in DOMAIN d |-> e[k]]
  BY DEF ReadTo
<1> HIDE DEF V
<1>4. QED
  BY <1>1, <1>2, <1>3

----------------------------------------------------------------------------
(* One key with its value. *)

LEMMA Put ==
    ASSUME NEW D, NEW e, e = [k \in D |-> e[k]], NEW c \in D, NEW x
    PROVE  /\ [e EXCEPT ![c] = x] = [k \in D |-> [e EXCEPT ![c] = x][k]]
           /\ \A k \in D : [e EXCEPT ![c] = x][k] = IF k = c THEN x ELSE e[k]
<1>1. DOMAIN e = D
  OBVIOUS
<1>2. [e EXCEPT ![c] = x] = [k \in D |-> IF k = c THEN x ELSE e[k]]
  BY <1>1
<1>3. QED
  BY <1>2

LEMMA DefaultNames ==
    ASSUME NEW p \in Programs
    PROVE  /\ DOMAIN NewEntry(p) = Fields(p)
           /\ NewEntry(p) = [k \in DOMAIN NewEntry(p) |-> NewEntry(p)[k]]
           /\ DOMAIN Defaults(p) = Settings(p) \ {"waiting"}
           /\ Defaults(p) = [k \in DOMAIN Defaults(p) |-> Defaults(p)[k]]
<1>1. CASE p = "follower"
  <2>1. /\ DOMAIN FollowerEntry = Fields(p)
        /\ FollowerEntry = [k \in DOMAIN FollowerEntry |-> FollowerEntry[k]]
    BY <1>1 DEF FollowerEntry, Fields
  <2>2. /\ DOMAIN FollowerDefaults = Settings(p) \ {"waiting"}
        /\ FollowerDefaults = [k \in DOMAIN FollowerDefaults |-> FollowerDefaults[k]]
    BY <1>1 DEF FollowerDefaults, Settings
  <2>3. NewEntry(p) = FollowerEntry /\ Defaults(p) = FollowerDefaults
    BY <1>1 DEF NewEntry, Defaults
  <2>4. QED
    BY <2>1, <2>2, <2>3
<1>2. CASE p = "aggregator"
  <2>1. /\ DOMAIN AggregatorEntry = Fields(p)
        /\ AggregatorEntry = [k \in DOMAIN AggregatorEntry |-> AggregatorEntry[k]]
    BY <1>2 DEF AggregatorEntry, Fields
  <2>2. /\ DOMAIN AggregatorDefaults = Settings(p) \ {"waiting"}
        /\ AggregatorDefaults = [k \in DOMAIN AggregatorDefaults |-> AggregatorDefaults[k]]
    BY <1>2 DEF AggregatorDefaults, Settings
  <2>3. NewEntry(p) = AggregatorEntry /\ Defaults(p) = AggregatorDefaults
    BY <1>2 DEF NewEntry, Defaults
  <2>4. QED
    BY <2>1, <2>2, <2>3
<1>3. QED
  BY <1>1, <1>2 DEF Programs

LEMMA FieldRead ==
    ASSUME NEW p \in Programs, NEW e, NEW pairs, NEW n \in Nat, NEW m, m = n + 1,
           ReadTo(e, pairs, n, NewEntry(p)), NEW f,
           f = IF pairs[m].key \in Fields(p)
               THEN Field(p, e, pairs[m].key, pairs[m].value) ELSE e
    PROVE  ReadTo(f, pairs, m, NewEntry(p))
<1> DEFINE d == NewEntry(p)
<1>1. PICK key, v : key = pairs[m].key /\ v = pairs[m].value
  OBVIOUS
<1>2. DOMAIN d = Fields(p)
  BY DefaultNames
<1> HIDE DEF d
<1>3. e = [k \in Fields(p) |-> e[k]]
  BY <1>2 DEF ReadTo, d
<1>4. \A k \in Fields(p) : Sets(pairs[m], k) <=> key = k /\ (k = "mode" => v \in Modes)
  BY <1>1 DEF Sets, Setting, Fields
<1>5. ASSUME key \in Fields(p)
      PROVE  /\ f = [k \in Fields(p) |-> f[k]]
             /\ \A k \in Fields(p) :
                   f[k] = IF k = key THEN IF key = "mode" /\ v \notin Modes THEN e[key]
                                          ELSE MeantValue(key, v)
                          ELSE e[k]
  <2>1. PICK x : x = IF key = "mode" /\ v \notin Modes THEN e[key] ELSE MeantValue(key, v)
    OBVIOUS
  <2>2. f = [e EXCEPT ![key] = x]
    <3>1. f = Field(p, e, key, v)
      BY <1>1, <1>5
    <3>2. CASE p = "follower"
      <4>1. f = [e EXCEPT ![key] = IF key \in {"rotate", "timestamp"} THEN Flag(v) ELSE v]
        BY <3>1, <3>2 DEF Field, FollowerField
      <4>2. x = IF key \in {"rotate", "timestamp"} THEN Flag(v) ELSE v
        BY <1>5, <2>1, <3>2 DEF Fields, MeantValue
      <4>3. QED
        BY <4>1, <4>2
    <3>3. CASE p = "aggregator"
      <4>1. p # "follower"
        BY <3>3
      <4>2. f = [e EXCEPT ![key] = IF key \in {"rotate", "timestamp"} THEN Flag(v)
                                   ELSE IF key = "mode" /\ v \notin Modes THEN e[key] ELSE v]
        BY <3>1, <4>1 DEF Field, AggregatorField
      <4>3. x = IF key \in {"rotate", "timestamp"} THEN Flag(v)
                ELSE IF key = "mode" /\ v \notin Modes THEN e[key] ELSE v
        BY <1>5, <2>1, <4>1 DEF Fields, MeantValue
      <4>4. QED
        BY <4>2, <4>3
    <3>4. QED
      BY <3>2, <3>3 DEF Programs
  <2>3. /\ [e EXCEPT ![key] = x] = [k \in Fields(p) |-> [e EXCEPT ![key] = x][k]]
        /\ \A k \in Fields(p) : [e EXCEPT ![key] = x][k] = IF k = key THEN x ELSE e[k]
    BY <1>3, <1>5, Put
  <2>4. QED
    BY <2>1, <2>2, <2>3
<1>6. CASE key \in Fields(p)
  <2>1. \A k \in Fields(p) :
           f[k] = IF Sets(pairs[m], k) THEN MeantValue(k, pairs[m].value) ELSE e[k]
    BY <1>1, <1>4, <1>5, <1>6
  <2>2. f = [k \in DOMAIN d |-> f[k]]
    BY <1>2, <1>5, <1>6
  <2>3. ReadTo(e, pairs, n, d)
    BY DEF d
  <2>4. \A k \in DOMAIN d :
           f[k] = IF Sets(pairs[m], k) THEN MeantValue(k, pairs[m].value) ELSE e[k]
    BY <1>2, <2>1
  <2>5. ReadTo(f, pairs, m, d)
    BY <2>2, <2>3, <2>4, ReadOne
  <2>6. QED
    BY <2>5 DEF d
<1>7. CASE key \notin Fields(p)
  <2>1. f = e /\ \A k \in Fields(p) : ~Sets(pairs[m], k)
    BY <1>1, <1>4, <1>7
  <2>2. \A k \in DOMAIN d :
           f[k] = IF Sets(pairs[m], k) THEN MeantValue(k, pairs[m].value) ELSE e[k]
    BY <1>2, <2>1
  <2>3. f = [k \in DOMAIN d |-> f[k]]
    BY <1>2, <1>3, <2>1
  <2>4. ReadTo(e, pairs, n, d)
    BY DEF d
  <2>5. ReadTo(f, pairs, m, d)
    BY <2>2, <2>3, <2>4, ReadOne
  <2>6. QED
    BY <2>5 DEF d
<1>8. QED
  BY <1>6, <1>7

(* What the settings are on top of. *)
Base(p) == Chosen(args, Defaults(p))

LEMMA BaseNames ==
    ASSUME NEW p \in Programs
    PROVE  DOMAIN Base(p) = Settings(p) \ {"waiting"} /\ Base(p) = [k \in DOMAIN Base(p) |-> Base(p)[k]]
BY DefaultNames DEF Base, Chosen

LEMMA NoSetting ==
    ASSUME NEW p \in Programs, NEW x, x.key \notin Settings(p)
    PROVE  \A k \in Settings(p) \ {"waiting"} : ~Sets(x, k)
<1>1. PICK key : key = x.key
  OBVIOUS
<1>2. \A k \in Settings(p) \ {"waiting"} : Setting(key) # k
  BY <1>1 DEF Setting, Settings, Programs
<1>3. QED
  BY <1>1, <1>2 DEF Sets

(* A key that the program does not know leaves the settings alone. *)
LEMMA UnknownRead ==
    ASSUME NEW p \in Programs, NEW pairs, NEW n \in Nat, NEW m, m = n + 1,
           ReadTo(set, pairs, n, Base(p)), pairs[m].key \notin Settings(p)
    PROVE  ReadTo(set, pairs, m, Base(p))
<1> DEFINE d == Base(p)
<1>1. DOMAIN d = Settings(p) \ {"waiting"}
  BY BaseNames
<1>2. ReadTo(set, pairs, n, d)
  OBVIOUS
<1> HIDE DEF d
<1>3. PICK x : x = pairs[m]
  OBVIOUS
<1>4. \A k \in DOMAIN d : ~Sets(pairs[m], k)
  BY <1>1, <1>3, NoSetting
<1>5. set = [k \in DOMAIN d |-> set[k]]
  BY <1>2 DEF ReadTo
<1>6. \A k \in DOMAIN d :
         set[k] = IF Sets(pairs[m], k) THEN MeantValue(k, pairs[m].value) ELSE set[k]
  BY <1>4
<1>7. ReadTo(set, pairs, m, d)
  BY <1>2, <1>5, <1>6, ReadOne
<1>8. QED
  BY <1>7 DEF d

LEMMA SettingRead ==
    ASSUME NEW p \in Programs, NEW pairs, NEW n \in Nat, NEW m, m = n + 1,
           ReadTo(set, pairs, n, Base(p)), pairs[m].key \in Settings(p)
    PROVE  ReadTo(Assigned(p, pairs[m].key, pairs[m].value), pairs, m, Base(p))
<1> DEFINE d == Base(p)
           D == Settings(p) \ {"waiting"}
<1>1. DOMAIN d = D
  BY BaseNames
<1>2. ReadTo(set, pairs, n, d)
  OBVIOUS
<1> HIDE DEF d
<1>3. PICK key, v : key = pairs[m].key /\ v = pairs[m].value
  OBVIOUS
<1>4. PICK c, x : c = Setting(key) /\ x = MeantValue(c, v)
  OBVIOUS
<1>5. c \in D
  BY <1>3, <1>4 DEF Setting, Settings, Programs
<1>6. Assigned(p, key, v) = [set EXCEPT ![c] = x]
  <2>1. CASE p = "follower"
    <3>1. x = v
      BY <1>4, <1>5, <2>1 DEF MeantValue, Settings
    <3>2. QED
      BY <1>4, <2>1, <3>1 DEF Assigned, FollowerSetting
  <2>2. CASE p = "aggregator"
    <3>1. c = key /\ p # "follower"
      BY <1>3, <1>4, <2>2 DEF Setting, Settings
    <3>2. x = IF key = "hostnameLookups" THEN Flag(v) ELSE v
      BY <1>4, <1>5, <2>2, <3>1 DEF MeantValue, Settings
    <3>3. QED
      BY <3>1, <3>2 DEF Assigned, AggregatorSetting
  <2>3. QED
    BY <2>1, <2>2 DEF Programs
<1>7. set = [k \in D |-> set[k]]
  BY <1>1, <1>2 DEF ReadTo
<1> DEFINE f == [set EXCEPT ![c] = x]
<1>8. f = [k \in D |-> f[k]] /\ \A k \in D : f[k] = IF k = c THEN x ELSE set[k]
  <2> HIDE DEF D
  <2>1. QED
    BY <1>5, <1>7, Put
<1> HIDE DEF f
<1>9. \A k \in D : Sets(pairs[m], k) <=> k = c
  BY <1>3, <1>4 DEF Sets, Settings
<1>10. \A k \in DOMAIN d :
          f[k] = IF Sets(pairs[m], k) THEN MeantValue(k, pairs[m].value) ELSE set[k]
  <2> HIDE DEF D
  <2>1. QED
    BY <1>1, <1>3, <1>4, <1>8, <1>9
<1>11. f = [k \in DOMAIN d |-> f[k]]
  BY <1>1, <1>8
<1>12. ReadTo(f, pairs, m, d)
  BY <1>2, <1>10, <1>11, ReadOne
<1>13. QED
  BY <1>3, <1>6, <1>12 DEF f, d

----------------------------------------------------------------------------
(* The list of entries. *)

EntryMeant(p, v, j) == Meant(v[j], NewEntry(p), MeantValue)

(* What the first j entries of v are in the list that is being made. *)
Collected(p, v, j) == [x \in 1..j |-> EntryMeant(p, v, j + 1 - x)]

MeantOf(p, v) == [j \in DOMAIN v |-> EntryMeant(p, v, j)]

LEMMA CollectNone ==
    ASSUME NEW p, NEW v
    PROVE  Collected(p, v, 0) = << >>
BY DEF Collected

LEMMA CollectOne ==
    ASSUME NEW p, NEW v, NEW j \in Nat, NEW m, m = j + 1
    PROVE  <<EntryMeant(p, v, m)>> \o Collected(p, v, j) = Collected(p, v, m)
<1> DEFINE E == {EntryMeant(p, v, x) : x \in 1..m}
           l == Collected(p, v, j)
           r == Collected(p, v, m)
<1>1. PICK e : e = EntryMeant(p, v, m)
  OBVIOUS
<1> DEFINE h == <<e>>
<1>2. \A x \in 1..j : l[x] = EntryMeant(p, v, j + 1 - x) /\ j + 1 - x \in 1..m
  BY DEF Collected
<1>3. \A x \in 1..m : r[x] = EntryMeant(p, v, m + 1 - x) /\ m + 1 - x \in 1..m
  BY DEF Collected
<1>4. l \in [1..j -> E] /\ r \in [1..m -> E]
  <2>1. l = [x \in 1..j |-> l[x]] /\ r = [x \in 1..m |-> r[x]]
    BY DEF Collected
  <2>2. (\A x \in 1..j : l[x] \in E) /\ \A x \in 1..m : r[x] \in E
    <3> HIDE DEF l, r
    <3>1. QED
      BY <1>2, <1>3
  <2> HIDE DEF l, r, E
  <2>3. QED
    BY <2>1, <2>2
<1>5. m \in Nat /\ m \in 1..m /\ m # 0
  OBVIOUS
<1>6. e \in E
  BY <1>1, <1>5
<1>7. h \in Seq(E) /\ Len(h) = 1 /\ h[1] = e
  <2> HIDE DEF E
  <2>1. QED
    BY <1>6
<1>8. l \in Seq(E) /\ Len(l) = j /\ r \in Seq(E) /\ Len(r) = m
  <2> HIDE DEF l, r, E
  <2>1. QED
    BY <1>4, <1>5, IsASeq, LenProperties
<1> HIDE DEF l, r, h, E
<1>9. /\ h \o l \in Seq(E) /\ Len(h \o l) = Len(h) + Len(l)
      /\ \A x \in 1..(Len(h) + Len(l)) :
            (h \o l)[x] = IF x <= Len(h) THEN h[x] ELSE l[x - Len(h)]
  BY <1>7, <1>8, ConcatProperties
<1>10. Len(h \o l) = m
  BY <1>7, <1>8, <1>9
<1>11. ASSUME NEW x \in 1..m PROVE (h \o l)[x] = r[x]
  <2>1. (h \o l)[x] = IF x <= 1 THEN h[x] ELSE l[x - 1]
    BY <1>7, <1>8, <1>9
  <2>2. CASE x = 1
    <3>1. m + 1 - x = m
      BY <2>2
    <3>2. QED
      BY <1>1, <1>3, <1>7, <2>1, <2>2, <3>1
  <2>3. CASE x # 1
    <3>1. ~(x <= 1) /\ x - 1 \in 1..j /\ j + 1 - (x - 1) = m + 1 - x
      BY <2>3
    <3>2. l[x - 1] = EntryMeant(p, v, j + 1 - (x - 1))
      BY <1>2, <3>1
    <3>3. QED
      BY <1>3, <2>1, <3>1, <3>2
  <2>4. QED
    BY <2>2, <2>3
<1>12. h \o l = r
  BY <1>8, <1>9, <1>10, <1>11, SeqEqual
<1>13. QED
  BY <1>1, <1>12 DEF h, l, r

(* The follower's list holds the entries, the aggregator's in their order. *)
LEMMA CollectAll ==
    ASSUME NEW p \in Programs, NEW v, NEW J \in Nat, J = Len(v), DOMAIN v = 1..J
    PROVE  /\ Range(ListOf(p, Collected(p, v, J))) = Range(MeantOf(p, v))
           /\ p = "aggregator" => ListOf(p, Collected(p, v, J)) = MeantOf(p, v)
<1> DEFINE l == Collected(p, v, J)
           r == MeantOf(p, v)
<1>1. l = [x \in 1..J |-> EntryMeant(p, v, J + 1 - x)] /\ r = [x \in 1..J |-> EntryMeant(p, v, x)]
  BY DEF Collected, MeantOf
<1>2. Len(l) = J /\ DOMAIN l = 1..J /\ DOMAIN r = 1..J
  <2> HIDE DEF l, r
  <2>1. QED
    BY <1>1
<1>3. \A x \in 1..J : J + 1 - x \in 1..J /\ J + 1 - (J + 1 - x) = x /\ J - x + 1 = J + 1 - x
  OBVIOUS
<1>4. \A x \in 1..J : l[x] = r[J + 1 - x] /\ l[J + 1 - x] = r[x]
  <2> HIDE DEF l, r
  <2>1. QED
    BY <1>1, <1>3
<1> HIDE DEF l, r
<1>5. Range(l) = Range(r)
  BY <1>2, <1>3, <1>4 DEF Range
<1>6. Reverse(l) = r
  <2>1. Reverse(l) = [x \in 1..J |-> l[(J - x) + 1]]
    BY <1>2 DEF Reverse
  <2>2. \A x \in 1..J : l[(J - x) + 1] = r[x]
    BY <1>3, <1>4
  <2>3. r = [x \in 1..J |-> r[x]]
    BY <1>1, <1>2
  <2>4. QED
    BY <2>1, <2>2, <2>3
<1>7. CASE p = "follower"
  BY <1>5, <1>7 DEF ListOf, FollowerList, l, r
<1>8. CASE p = "aggregator"
  <2>1. ListOf(p, l) = r
    BY <1>6, <1>8 DEF ListOf, AggregatorList
  <2>2. QED
    BY <2>1 DEF l, r
<1>9. QED
  BY <1>7, <1>8 DEF Programs

(* l is the list that the first n items of the file make. *)
Held(l, n) ==
    \/ (\A i \in 1..n : file[i].key # "patterns") /\ l = << >>
    \/ \E i \in 1..n :
          /\ file[i].key = "patterns"
          /\ l = ListOf(prog, Collected(prog, file[i].value, Len(file[i].value)))

LEMMA MeantEntriesFound ==
    ASSUME NEW n \in Nat, n = Len(file), DOMAIN file = 1..n, Sensible
    PROVE  /\ (\A i \in 1..n : file[i].key # "patterns") => MeantEntries = << >>
           /\ \A i \in 1..n : file[i].key = "patterns" => MeantEntries = MeantOf(prog, file[i].value)
<1> DEFINE I == {i \in 1..n : file[i].key = "patterns"}
           s == IF I # {} THEN CHOOSE x \in I : \A y \in I : x =< y ELSE 0
<1>1. MeantEntries = IF s = 0 THEN << >> ELSE MeantOf(prog, file[s].value)
  BY DEF MeantEntries, SelectInSeq, Min, MeantOf, EntryMeant
<1>2. ASSUME \A i \in 1..n : file[i].key # "patterns" PROVE MeantEntries = << >>
  <2>1. I = {}
    BY <1>2
  <2>2. s = 0
    BY <2>1
  <2> HIDE DEF s
  <2>3. QED
    BY <1>1, <2>2
<1>3. ASSUME NEW i \in 1..n, file[i].key = "patterns"
      PROVE  MeantEntries = MeantOf(prog, file[i].value)
  <2>1. \A j \in 1..n : file[j].key = "patterns" => j = i
    BY <1>3 DEF Sensible
  <2>2. I = {i}
    BY <1>3, <2>1
  <2>3. s = i
    <3> HIDE DEF I
    <3>1. i =< i /\ i # 0
      OBVIOUS
    <3>2. QED
      BY <2>2, <3>1
  <2> HIDE DEF s
  <2>4. i # 0
    OBVIOUS
  <2>5. QED
    BY <1>1, <2>3, <2>4
<1>4. QED
  BY <1>2, <1>3

----------------------------------------------------------------------------
(* What is where in a plain file, counted from the places of its parts. *)

(* The place before entry j of item i, or, after the last, before the end. *)
EntryAt(f, i, j) == ItemAt(f, i) + 2 + Off(Mappings(f[i].value))[j - 1]

LEMMA PlainItems ==
    ASSUME NEW f, Plain(f), NEW n \in Nat, n = Len(f)
    PROVE  DOMAIN f = 1..n /\ \A i \in 1..n : f[i] \in KeyScalar \cup EntriesItem
BY ElementOfSeq, LenProperties DEF Plain

LEMMA ScalarHere ==
    ASSUME NEW f, Plain(f), NEW n \in Nat, n = Len(f), NEW w, IsStream(w, f, n),
           NEW i \in 1..n, f[i].kind = "scalar"
    PROVE  /\ Is(w, ItemAt(f, i) + 1, Scalar(f[i].key))
           /\ Is(w, ItemAt(f, i) + 2, Scalar(f[i].value))
           /\ ItemAt(f, i) \in Nat /\ ItemAt(f, i + 1) = ItemAt(f, i) + 2
<1>1. PICK x : x = f[i]
  OBVIOUS
<1>2. x \in KeyScalar
  <2>1. x \in KeyScalar \cup EntriesItem
    BY <1>1, PlainItems
  <2>2. x \notin EntriesItem
    BY <1>1 DEF EntriesItem
  <2>3. QED
    BY <2>1, <2>2
<1>3. /\ Len(ItemEvents(x)) = 2
      /\ Is(ItemEvents(x), 1, Scalar(x.key)) /\ Is(ItemEvents(x), 2, Scalar(x.value))
  BY <1>2, ScalarItemLaid
<1>4. PICK p : p = ItemAt(f, i)
  OBVIOUS
<1>5. p \in Nat /\ At(w, p, ItemEvents(x)) /\ ItemAt(f, i + 1) = p + Len(ItemEvents(x))
  <2>1. i \in 1..(n + 1)
    OBVIOUS
  <2>2. QED
    BY <1>1, <1>4, <2>1 DEF IsStream
<1>6. Is(w, p + 1, Scalar(x.key)) /\ Is(w, p + 2, Scalar(x.value))
  BY <1>3, <1>5, AtPlace
<1>7. QED
  BY <1>1, <1>3, <1>4, <1>5, <1>6

LEMMA EntriesHere ==
    ASSUME NEW f, Plain(f), NEW n \in Nat, n = Len(f), NEW w, IsStream(w, f, n),
           NEW i \in 1..n, f[i].kind = "entries"
    PROVE  \E v \in Seq(Seq(KeyScalar)) : \E J \in Nat :
               /\ v = f[i].value /\ J = Len(v) /\ DOMAIN v = 1..J
               /\ Is(w, ItemAt(f, i) + 1, Scalar(f[i].key))
               /\ Is(w, ItemAt(f, i) + 2, Mark("seq"))
               /\ ItemAt(f, i) \in Nat /\ EntryAt(f, i, 1) = ItemAt(f, i) + 2
               /\ \A j \in 1..(J + 1) : EntryAt(f, i, j) \in Nat
               /\ Is(w, EntryAt(f, i, J + 1) + 1, Mark("seqEnd"))
               /\ ItemAt(f, i + 1) = EntryAt(f, i, J + 1) + 1
               /\ \A j \in 1..J :
                     /\ EntryAt(f, i, j + 1) = EntryAt(f, i, j) + (2 * Len(v[j]) + 2)
                     /\ At(w, EntryAt(f, i, j), Mapping(v[j]))
<1>1. PICK x : x = f[i]
  OBVIOUS
<1>2. x \in EntriesItem
  <2>1. x \in KeyScalar \cup EntriesItem
    BY <1>1, PlainItems
  <2>2. x \notin KeyScalar
    BY <1>1 DEF KeyScalar
  <2>3. QED
    BY <2>1, <2>2
<1>3. PICK v \in Seq(Seq(KeyScalar)) : v = x.value
  BY <1>2 DEF EntriesItem
<1>4. PICK J \in Nat : J = Len(v) /\ DOMAIN v = 1..J
  BY LenProperties
<1>5. PICK o : o = Off(Mappings(v))
  OBVIOUS
<1>6. PICK e : e = ItemEvents(x)
  OBVIOUS
<1>7. IsEntries(e, x, v, o)
  BY <1>2, <1>3, <1>5, <1>6, EntriesItemLaid
<1>8. PICK p : p = ItemAt(f, i)
  OBVIOUS
<1>9. p \in Nat /\ At(w, p, e) /\ ItemAt(f, i + 1) = p + Len(e)
  <2>1. i \in 1..(n + 1)
    OBVIOUS
  <2>2. QED
    BY <1>1, <1>6, <1>8, <2>1 DEF IsStream
<1>10. /\ Len(e) = 3 + o[J] /\ Is(e, 1, Scalar(x.key)) /\ Is(e, 2, Mark("seq"))
       /\ Is(e, 3 + o[J], Mark("seqEnd")) /\ o \in [0..J -> Nat] /\ o[0] = 0
       /\ \A j \in 1..J : /\ o[j] = o[j - 1] + (2 * Len(v[j]) + 2)
                          /\ At(e, 2 + o[j - 1], Mapping(v[j]))
  BY <1>4, <1>7 DEF IsEntries
<1>11. \A j \in 1..(J + 1) : EntryAt(f, i, j) = p + 2 + o[j - 1]
  BY <1>1, <1>3, <1>5, <1>8 DEF EntryAt
<1>12. J \in 0..J /\ o[J] \in Nat
  BY <1>10
<1>13. EntryAt(f, i, 1) = p + 2 /\ EntryAt(f, i, J + 1) = p + 2 + o[J]
  <2>1. 1 \in 1..(J + 1) /\ J + 1 \in 1..(J + 1) /\ 1 - 1 = 0 /\ (J + 1) - 1 = J
    OBVIOUS
  <2>2. EntryAt(f, i, 1) = p + 2 + o[0] /\ EntryAt(f, i, J + 1) = p + 2 + o[J]
    BY <1>11, <2>1
  <2>3. QED
    BY <1>9, <1>10, <2>2
<1>14. ASSUME NEW j \in 1..(J + 1) PROVE EntryAt(f, i, j) \in Nat
  <2>1. j - 1 \in 0..J
    OBVIOUS
  <2>2. o[j - 1] \in Nat
    BY <1>10, <2>1
  <2>3. QED
    BY <1>9, <1>11, <2>2
<1>15. Is(w, p + 1, Scalar(x.key)) /\ Is(w, p + 2, Mark("seq")) /\ Is(w, p + (3 + o[J]), Mark("seqEnd"))
  BY <1>9, <1>10, AtPlace
<1>16. /\ p + (3 + o[J]) = EntryAt(f, i, J + 1) + 1
       /\ ItemAt(f, i + 1) = EntryAt(f, i, J + 1) + 1
  BY <1>9, <1>10, <1>12, <1>13
<1>17. ASSUME NEW j \in 1..J
       PROVE  /\ EntryAt(f, i, j + 1) = EntryAt(f, i, j) + (2 * Len(v[j]) + 2)
              /\ At(w, EntryAt(f, i, j), Mapping(v[j]))
  <2>1. j \in 1..(J + 1) /\ j + 1 \in 1..(J + 1) /\ (j + 1) - 1 = j /\ j - 1 \in 0..J /\ j \in 0..J
    OBVIOUS
  <2>2. o[j - 1] \in Nat /\ o[j] \in Nat
    BY <1>10, <2>1
  <2>3. EntryAt(f, i, j) = p + 2 + o[j - 1] /\ EntryAt(f, i, j + 1) = p + 2 + o[j]
    BY <1>11, <2>1
  <2>4. PICK y : y = 2 * Len(v[j]) + 2
    OBVIOUS
  <2>5. o[j] = o[j - 1] + y
    BY <1>10, <2>4
  <2>6. y \in Nat
    <3>1. Len(v[j]) \in Nat
      <4>1. v[j] \in Seq(KeyScalar)
        BY <1>4, ElementOfSeq
      <4>2. QED
        BY <4>1, LenProperties
    <3>2. QED
      BY <2>4, <3>1
  <2>7. p + 2 + o[j] = p + 2 + o[j - 1] + y
    BY <1>9, <2>2, <2>5, <2>6
  <2>8. PICK z \in Nat : z = o[j - 1]
    BY <2>2
  <2>9. At(e, 2 + z, Mapping(v[j]))
    BY <1>10, <2>8
  <2>10. 2 + z \in Nat /\ p + (2 + z) = p + 2 + z
    BY <1>9
  <2>11. At(w, p + (2 + z), Mapping(v[j]))
    BY <1>9, <2>9, <2>10, AtInner
  <2>12. QED
    BY <2>3, <2>4, <2>7, <2>8, <2>10, <2>11
<1>18. QED
  BY <1>1, <1>3, <1>4, <1>8, <1>9, <1>13, <1>14, <1>15, <1>16, <1>17

(* An entry of M keys, after place p. *)
LEMMA EntryHere ==
    ASSUME NEW w, NEW p \in Nat, NEW pairs \in Seq(KeyScalar), NEW M \in Nat, M = Len(pairs),
           At(w, p, Mapping(pairs))
    PROVE  /\ Is(w, p + 1, Mark("map")) /\ Is(w, p + (2 * M + 2), Mark("mapEnd"))
           /\ \A k \in 1..M : /\ Is(w, p + 2 * k, Scalar(pairs[k].key))
                              /\ Is(w, p + (2 * k + 1), Scalar(pairs[k].value))
<1>1. IsMapping(Mapping(pairs), pairs, M)
  BY MappingLaid
<1>2. Is(w, p + 1, Mark("map")) /\ Is(w, p + (2 * M + 2), Mark("mapEnd"))
  BY <1>1, AtPlace DEF IsMapping
<1>3. ASSUME NEW k \in 1..M
      PROVE  /\ Is(w, p + 2 * k, Scalar(pairs[k].key))
             /\ Is(w, p + (2 * k + 1), Scalar(pairs[k].value))
  BY <1>1, AtPlace DEF IsMapping
<1>4. QED
  BY <1>2, <1>3

----------------------------------------------------------------------------
(* Where a function stands when it is reading a sensible file, and what has  *)
(* been read then. c, q, s, l, a and e are to be pc, pos, set, list, li and  *)
(* entry, before a step or after it.                                         *)

SetTo(s, n) == ReadTo(s, file, n, Base(prog))

AllRead(s, l) == SetTo(s, Len(file)) /\ Held(l, Len(file))

InMain(q, s, l) == q = 0 /\ s = Defaults(prog) /\ l = << >>

(* Before the mapping of settings, or after it. *)
InLoad(q, s, l) ==
    \/ q \in 0..2 /\ s = Base(prog) /\ l = << >>
    \/ AllRead(s, l) /\ \/ q = ItemAt(file, Len(file) + 1) + 1
                        \/ q = ItemAt(file, Len(file) + 1) + 2

(* Before item i, or before the value of an item that is not known. *)
InGlobal(q, s, l, i) ==
    /\ SetTo(s, i - 1) /\ Held(l, i - 1)
    /\ \/ q = ItemAt(file, i)
       \/ /\ q = ItemAt(file, i) + 1 /\ i \in 1..Len(file)
          /\ file[i].key \notin Settings(prog) \cup {"patterns"}

(* Before entry j of the patterns, item i, or before the first of its events. *)
InPatterns(q, s, l, a, i, j) ==
    /\ file[i].key = "patterns" /\ SetTo(s, i - 1) /\ l = << >>
    /\ a = Collected(prog, file[i].value, j - 1)
    /\ \/ q = EntryAt(file, i, j)
       \/ q = ItemAt(file, i) + 1 /\ j = 1

(* Before key k of that entry. *)
InEntry(q, s, l, a, e, i, j, k) ==
    /\ file[i].key = "patterns" /\ SetTo(s, i - 1) /\ l = << >>
    /\ a = Collected(prog, file[i].value, j - 1)
    /\ q = EntryAt(file, i, j) + (2 * k - 1)
    /\ ReadTo(e, file[i].value[j], k - 1, NewEntry(prog))

Stands(c, q, s, l, a, e) ==
    /\ c \in {"main", "load", "loaded", "global", "patterns", "entry", "done", "exited"}
    /\ c = "main" => InMain(q, s, l)
    /\ c = "load" => InLoad(q, s, l)
    /\ c \in {"loaded", "done", "exited"} => q = 0 \/ AllRead(s, l)
    /\ c = "global" => \E i \in 1..(Len(file) + 1) : InGlobal(q, s, l, i)
    /\ c = "patterns" =>
           \E i \in 1..Len(file) : \E j \in 1..(Len(file[i].value) + 1) :
               InPatterns(q, s, l, a, i, j)
    /\ c = "entry" =>
           \E i \in 1..Len(file) : \E j \in 1..Len(file[i].value) :
           \E k \in 1..(Len(file[i].value[j]) + 1) :
               InEntry(q, s, l, a, e, i, j, k)

InputOK == prog \in Programs /\ file \in Files /\ (good => stream = Events(file))

(* The inductive invariant. *)
ConfigInv == InputOK /\ (Sensible /\ good => Stands(pc, pos, set, list, li, entry))

(* What a step of a reader of a sensible file starts from. *)
Reading == InputOK /\ Sensible /\ good

LEMMA ReadingFacts ==
    ASSUME Reading
    PROVE  \E n \in Nat :
               /\ n = Len(file) /\ DOMAIN file = 1..n /\ Plain(file)
               /\ IsStream(stream, file, n) /\ prog \in Programs
               /\ \A i \in 1..n :
                     IF file[i].key = "patterns" THEN file[i].kind = "entries"
                     ELSE /\ file[i].kind = "scalar"
                          /\ \/ file[i].key \in Settings(prog)
                             \/ file[i].value \notin Settings(prog) \cup {"patterns"}
<1>1. file \in Seq(FileItem)
  BY FilesAssumption DEF Reading, InputOK
<1>2. PICK n \in Nat : n = Len(file) /\ DOMAIN file = 1..n
  BY <1>1, LenProperties
<1>3. \A i \in 1..n :
         IF file[i].key = "patterns" THEN file[i].kind = "entries"
         ELSE /\ file[i].kind = "scalar"
              /\ \/ file[i].key \in Settings(prog)
                 \/ file[i].value \notin Settings(prog) \cup {"patterns"}
  BY <1>2 DEF Reading, Sensible
<1>4. ASSUME NEW i \in 1..n PROVE file[i] \in KeyScalar \cup EntriesItem
  <2>1. PICK x : x = file[i]
    OBVIOUS
  <2>2. x \in FileItem
    BY <1>1, <1>2, <2>1, ElementOfSeq
  <2>3. x.kind = "entries" \/ x.kind = "scalar"
    BY <1>3, <2>1
  <2>4. x \in KeyScalar \cup EntriesItem
    BY <2>2, <2>3 DEF FileItem, KeyScalar, EntriesItem
  <2>5. QED
    BY <2>1, <2>4
<1>5. Plain(file)
  <2>1. file = [i \in 1..n |-> file[i]]
    BY <1>1, <1>2
  <2>2. file \in [1..n -> KeyScalar \cup EntriesItem]
    BY <1>4, <2>1
  <2>3. QED
    BY <2>2, IsASeq DEF Plain
<1>6. IsStream(stream, file, n)
  <2>1. stream = Events(file)
    BY DEF Reading, InputOK
  <2>2. QED
    BY <1>2, <1>5, <2>1, StreamLaid
<1>7. QED
  BY <1>2, <1>3, <1>5, <1>6 DEF Reading, InputOK

LEMMA EventIs ==
    ASSUME NEW n \in Nat, IsStream(stream, file, n), NEW k, NEW e, Is(stream, pos + k, e)
    PROVE  Event(k) = e /\ (Reads(k) => pos' = pos + k)
<1>1. Len(stream) \in Nat
  <2>1. n + 1 \in 1..(n + 1)
    OBVIOUS
  <2>2. ItemAt(file, n + 1) \in Nat /\ Len(stream) = ItemAt(file, n + 1) + 3
    BY <2>1 DEF IsStream
  <2>3. QED
    BY <2>2
<1>2. pos + k <= Len(stream) /\ stream[pos + k] = e
  BY <1>1 DEF Is
<1>3. QED
  BY <1>2 DEF Event, Reads

LEMMA Marked ==
    ASSUME NEW t, NEW e, e = Mark(t)
    PROVE  e.type = t
BY DEF Mark

LEMMA Scaled ==
    ASSUME NEW v, NEW e, e = Scalar(v)
    PROVE  e.type = "scalar" /\ e.value = v
BY DEF Scalar

LEMMA StandsMainTo ==
    ASSUME NEW q, NEW s, NEW l, NEW a, NEW e
    PROVE  /\ InLoad(q, s, l) => Stands("load", q, s, l, a, e)
           /\ \A c \in {"loaded", "done", "exited"} :
                 q = 0 \/ AllRead(s, l) => Stands(c, q, s, l, a, e)
           /\ \A i \in 1..(Len(file) + 1) :
                 InGlobal(q, s, l, i) => Stands("global", q, s, l, a, e)
BY DEF Stands

LEMMA StandsPatternsTo ==
    ASSUME NEW q, NEW s, NEW l, NEW a, NEW e, NEW i \in 1..Len(file)
    PROVE  /\ \A j \in 1..(Len(file[i].value) + 1) :
                 InPatterns(q, s, l, a, i, j) => Stands("patterns", q, s, l, a, e)
           /\ \A j \in 1..Len(file[i].value) : \A k \in 1..(Len(file[i].value[j]) + 1) :
                 InEntry(q, s, l, a, e, i, j, k) => Stands("entry", q, s, l, a, e)
BY DEF Stands

----------------------------------------------------------------------------
(* main and load_config_file. *)

LEMMA StepReadOptions ==
    ASSUME Reading, Stands(pc, pos, set, list, li, entry), NEW p, ReadOptions(p)
    PROVE  Stands(pc', pos', set', list', li', entry')
<1>1. InMain(pos, set, list)
  BY DEF ReadOptions, Stands
<1>2. pos' = 0 /\ set' = Base(prog) /\ list' = << >> /\ pc' \in {"load", "loaded"}
  BY <1>1 DEF ReadOptions, InMain, Base
<1>3. InLoad(pos', set', list')
  BY <1>2 DEF InLoad
<1>4. QED
  BY <1>2, <1>3, StandsMainTo

LEMMA StepStartUp ==
    ASSUME Reading, Stands(pc, pos, set, list, li, entry), NEW p, StartUp(p)
    PROVE  Stands(pc', pos', set', list', li', entry')
<1>1. pos = 0 \/ AllRead(set, list)
  BY DEF StartUp, Stands
<1>2. pos' = pos /\ set' = set /\ list' = list /\ pc' \in {"loaded", "done", "exited"}
  BY DEF StartUp
<1>3. pos' = 0 \/ AllRead(set', list')
  BY <1>1, <1>2 DEF AllRead, SetTo, Held
<1>4. QED
  BY <1>2, <1>3, StandsMainTo

LEMMA StepLoad ==
    ASSUME Reading, Stands(pc, pos, set, list, li, entry), NEW p, LoadConfigFile(p)
    PROVE  Stands(pc', pos', set', list', li', entry')
<1>1. PICK n \in Nat : n = Len(file) /\ IsStream(stream, file, n) /\ prog \in Programs
  BY ReadingFacts
<1>2. /\ InLoad(pos, set, list) /\ Reads(1) /\ set' = set /\ list' = list
      /\ pc' = CASE Event(1).type \in {"failure", "end"} -> "loaded"
                 [] Event(1).type = "map" -> "global"
                 [] OTHER -> "load"
  BY DEF LoadConfigFile, Stands
<1>3. /\ Is(stream, 1, Mark("start")) /\ Is(stream, 2, Mark("document"))
      /\ Is(stream, 3, Mark("map")) /\ ItemAt(file, 1) = 3
  BY <1>1 DEF IsStream
<1>4. PICK z \in Nat : z = ItemAt(file, n + 1)
  <2>1. n + 1 \in 1..(n + 1)
    OBVIOUS
  <2>2. QED
    BY <1>1, <2>1 DEF IsStream
<1>5. Is(stream, z + 2, Mark("documentEnd")) /\ Is(stream, z + 3, Mark("end"))
  BY <1>1, <1>4 DEF IsStream
<1>6. ASSUME pos \in {0, 1}, set = Base(prog), list = << >>
      PROVE  Stands(pc', pos', set', list', li', entry')
  <2>1. Is(stream, pos + 1, Mark("start")) \/ Is(stream, pos + 1, Mark("document"))
    BY <1>3, <1>6
  <2>2. (Event(1) = Mark("start") \/ Event(1) = Mark("document")) /\ pos' = pos + 1
    BY <1>1, <1>2, <2>1, EventIs
  <2>3. Event(1).type \in {"start", "document"} /\ pos' = pos + 1
    BY <2>2, Marked
  <2>4. pc' = "load" /\ pos' \in 0..2
    BY <1>2, <1>6, <2>3
  <2>5. InLoad(pos', set', list')
    BY <1>2, <1>6, <2>4 DEF InLoad
  <2>6. QED
    BY <2>4, <2>5, StandsMainTo
<1>7. ASSUME pos = 2, set = Base(prog), list = << >>
      PROVE  Stands(pc', pos', set', list', li', entry')
  <2>1. Is(stream, pos + 1, Mark("map"))
    BY <1>3, <1>7
  <2>2. Event(1) = Mark("map") /\ pos' = pos + 1
    BY <1>1, <1>2, <2>1, EventIs
  <2>3. pos' = 3
    BY <1>7, <2>2
  <2>4. Event(1).type = "map" /\ pos' = 3
    BY <2>2, <2>3, Marked
  <2>5. pc' = "global" /\ pos' = ItemAt(file, 1)
    BY <1>2, <1>3, <2>4
  <2>6. SetTo(set', 0)
    BY <1>1, <1>2, <1>7, BaseNames, ReadNone DEF SetTo
  <2>7. Held(list', 0)
    BY <1>2, <1>7 DEF Held
  <2>8. InGlobal(pos', set', list', 1)
    BY <2>5, <2>6, <2>7 DEF InGlobal
  <2>9. 1 \in 1..(Len(file) + 1)
    BY <1>1
  <2>10. QED
    BY <2>5, <2>8, <2>9, StandsMainTo
<1>8. ASSUME AllRead(set, list), pos = z + 1
      PROVE  Stands(pc', pos', set', list', li', entry')
  <2>1. pos + 1 = z + 2
    BY <1>8
  <2>2. Event(1) = Mark("documentEnd") /\ pos' = z + 2
    BY <1>1, <1>2, <1>5, <2>1, EventIs
  <2>3. Event(1).type = "documentEnd"
    BY <2>2, Marked
  <2>4. pc' = "load"
    BY <1>2, <2>3
  <2>5. InLoad(pos', set', list')
    BY <1>1, <1>2, <1>4, <1>8, <2>2 DEF InLoad, AllRead, SetTo, Held
  <2>6. QED
    BY <2>4, <2>5, StandsMainTo
<1>9. ASSUME AllRead(set, list), pos = z + 2
      PROVE  Stands(pc', pos', set', list', li', entry')
  <2>1. pos + 1 = z + 3
    BY <1>9
  <2>2. Event(1) = Mark("end")
    BY <1>1, <1>5, <2>1, EventIs
  <2>3. Event(1).type = "end"
    BY <2>2, Marked
  <2>4. pc' = "loaded"
    BY <1>2, <2>3
  <2>5. AllRead(set', list')
    BY <1>2, <1>9 DEF AllRead, SetTo, Held
  <2>6. QED
    BY <2>4, <2>5, StandsMainTo
<1>10. \/ pos \in {0, 1} /\ set = Base(prog) /\ list = << >>
       \/ pos = 2 /\ set = Base(prog) /\ list = << >>
       \/ AllRead(set, list) /\ pos = z + 1
       \/ AllRead(set, list) /\ pos = z + 2
  BY <1>1, <1>2, <1>4 DEF InLoad
<1>11. QED
  BY <1>6, <1>7, <1>8, <1>9, <1>10

----------------------------------------------------------------------------
(* _pick_global. *)

(* What it sees: the end of the mapping, or the key of item i, or the value  *)
(* of an item it does not know.                                              *)
SeesEnd(n) ==
    /\ Event(1).type = "mapEnd"
    /\ Reads(1) => pos' = ItemAt(file, n + 1) + 1
SeesKey(i) ==
    /\ pos = ItemAt(file, i)
    /\ Event(1).type = "scalar" /\ Event(1).value = file[i].key
    /\ Reads(1) => pos' = ItemAt(file, i) + 1
    /\ file[i].key # "patterns" =>
           /\ Event(2).type = "scalar" /\ Event(2).value = file[i].value
           /\ Reads(2) => pos' = ItemAt(file, i + 1)
SeesValue(i) ==
    /\ file[i].key \notin Settings(prog) \cup {"patterns"}
    /\ Event(1).type = "scalar" /\ Event(1).value \notin Settings(prog) \cup {"patterns"}
    /\ Reads(1) => pos' = ItemAt(file, i + 1)

LEMMA GlobalSees ==
    ASSUME Reading, NEW n \in Nat, n = Len(file), NEW i \in 1..(n + 1),
           InGlobal(pos, set, list, i)
    PROVE  \/ i = n + 1 /\ SeesEnd(n)
           \/ i \in 1..n /\ (SeesKey(i) \/ SeesValue(i))
<1>1. /\ Plain(file) /\ IsStream(stream, file, n)
      /\ \A x \in 1..n :
            IF file[x].key = "patterns" THEN file[x].kind = "entries"
            ELSE /\ file[x].kind = "scalar"
                 /\ \/ file[x].key \in Settings(prog)
                    \/ file[x].value \notin Settings(prog) \cup {"patterns"}
  BY ReadingFacts
<1>2. PICK z \in Nat : z = ItemAt(file, i)
  BY <1>1 DEF IsStream
<1>3. CASE i = n + 1
  <2>1. pos = z
    <3>1. ~(i \in 1..n)
      BY <1>3
    <3>2. QED
      BY <1>2, <3>1 DEF InGlobal
  <2>2. Is(stream, pos + 1, Mark("mapEnd"))
    BY <1>1, <1>2, <1>3, <2>1 DEF IsStream
  <2>3. Event(1) = Mark("mapEnd") /\ (Reads(1) => pos' = pos + 1)
    BY <1>1, <2>2, EventIs
  <2>4. Event(1).type = "mapEnd"
    BY <2>3, Marked
  <2>5. QED
    BY <1>2, <1>3, <2>1, <2>3, <2>4 DEF SeesEnd
<1>4. CASE i \in 1..n /\ pos = z
  <2>1. PICK k, v : k = file[i].key /\ v = file[i].value
    OBVIOUS
  <2>2. Is(stream, z + 1, Scalar(k))
    <3>1. CASE file[i].kind = "scalar"
      BY <1>1, <1>2, <1>4, <2>1, <3>1, ScalarHere
    <3>2. CASE file[i].kind = "entries"
      BY <1>1, <1>2, <1>4, <2>1, <3>2, EntriesHere
    <3>3. QED
      BY <1>1, <1>4, <3>1, <3>2
  <2>3. Event(1) = Scalar(k) /\ (Reads(1) => pos' = pos + 1)
    BY <1>1, <1>4, <2>2, EventIs
  <2>4. Event(1).type = "scalar" /\ Event(1).value = k
    BY <2>3, Scaled
  <2>5. ASSUME k # "patterns"
        PROVE  /\ Event(2).type = "scalar" /\ Event(2).value = v
               /\ Reads(2) => pos' = ItemAt(file, i + 1)
    <3>1. file[i].kind = "scalar"
      BY <1>1, <1>4, <2>1, <2>5
    <3>2. Is(stream, z + 2, Scalar(v)) /\ ItemAt(file, i + 1) = z + 2
      BY <1>1, <1>2, <1>4, <2>1, <3>1, ScalarHere
    <3>3. Event(2) = Scalar(v) /\ (Reads(2) => pos' = pos + 2)
      BY <1>1, <1>4, <3>2, EventIs
    <3>4. Event(2).type = "scalar" /\ Event(2).value = v
      BY <3>3, Scaled
    <3>5. QED
      BY <1>4, <3>2, <3>3, <3>4
  <2>6. SeesKey(i)
    BY <1>2, <1>4, <2>1, <2>3, <2>4, <2>5 DEF SeesKey
  <2>7. QED
    BY <1>4, <2>6
<1>5. CASE i \in 1..n /\ pos # z
  <2>1. pos = z + 1 /\ file[i].key \notin Settings(prog) \cup {"patterns"}
    BY <1>2, <1>5 DEF InGlobal
  <2>2. file[i].kind = "scalar" /\ file[i].value \notin Settings(prog) \cup {"patterns"}
    BY <1>1, <1>5, <2>1
  <2>3. PICK v : v = file[i].value
    OBVIOUS
  <2>4. Is(stream, z + 2, Scalar(v)) /\ ItemAt(file, i + 1) = z + 2
    BY <1>1, <1>2, <1>5, <2>2, <2>3, ScalarHere
  <2>5. pos + 1 = z + 2
    BY <2>1
  <2>6. Event(1) = Scalar(v) /\ (Reads(1) => pos' = z + 2)
    BY <1>1, <2>4, <2>5, EventIs
  <2>7. Event(1).type = "scalar" /\ Event(1).value = v
    BY <2>6, Scaled
  <2>8. SeesValue(i)
    BY <2>1, <2>2, <2>3, <2>4, <2>6, <2>7 DEF SeesValue
  <2>9. QED
    BY <1>5, <2>8
<1>6. i = n + 1 \/ i \in 1..n
  OBVIOUS
<1>7. QED
  BY <1>3, <1>4, <1>5, <1>6

(* An item that is not the patterns leaves the list alone. *)
LEMMA HeldOn ==
    ASSUME NEW n \in Nat, NEW m, m = n + 1, NEW l, Held(l, n), file[m].key # "patterns"
    PROVE  Held(l, m)
<1>1. \A i \in 1..m : i \in 1..n \/ i = m
  OBVIOUS
<1>2. \A i \in 1..n : i \in 1..m
  OBVIOUS
<1>3. CASE (\A i \in 1..n : file[i].key # "patterns") /\ l = << >>
  BY <1>1, <1>3 DEF Held
<1>4. CASE \E i \in 1..n :
              /\ file[i].key = "patterns"
              /\ l = ListOf(prog, Collected(prog, file[i].value, Len(file[i].value)))
  BY <1>2, <1>4 DEF Held
<1>5. QED
  BY <1>3, <1>4 DEF Held

LEMMA GlobalAt ==
    ASSUME Reading, Stands(pc, pos, set, list, li, entry), pc = "global"
    PROVE  \E n, i \in Nat :
               /\ i \in 1..(n + 1) /\ n = Len(file) /\ prog \in Programs /\ InGlobal(pos, set, list, i)
               /\ \/ i = n + 1 /\ SeesEnd(n)
                  \/ i \in 1..n /\ (SeesKey(i) \/ SeesValue(i))
<1>1. PICK n \in Nat : n = Len(file) /\ prog \in Programs
  BY ReadingFacts
<1>2. PICK i \in 1..(n + 1) : InGlobal(pos, set, list, i)
  BY <1>1 DEF Stands
<1>3. \/ i = n + 1 /\ SeesEnd(n)
      \/ i \in 1..n /\ (SeesKey(i) \/ SeesValue(i))
  BY <1>1, <1>2, GlobalSees
<1>4. QED
  BY <1>1, <1>2, <1>3

LEMMA StepLeaveGlobal ==
    ASSUME Reading, Stands(pc, pos, set, list, li, entry), NEW p, LeaveGlobal(p)
    PROVE  Stands(pc', pos', set', list', li', entry')
<1>1. /\ pc = "global" /\ Event(1).type # "scalar" /\ pc' = "load" /\ Reads(1)
      /\ set' = set /\ list' = list
  BY DEF LeaveGlobal
<1>2. PICK n \in Nat, i \in Nat :
         /\ i \in 1..(n + 1) /\ n = Len(file) /\ prog \in Programs /\ InGlobal(pos, set, list, i)
         /\ \/ i = n + 1 /\ SeesEnd(n)
            \/ i \in 1..n /\ (SeesKey(i) \/ SeesValue(i))
  BY <1>1, GlobalAt
<1>3. i = n + 1 /\ SeesEnd(n)
  BY <1>1, <1>2 DEF SeesKey, SeesValue
<1>4. pos' = ItemAt(file, n + 1) + 1
  BY <1>1, <1>3 DEF SeesEnd
<1>5. i - 1 = n
  BY <1>3
<1>6. SetTo(set, n) /\ Held(list, n)
  BY <1>2, <1>5 DEF InGlobal
<1>7. AllRead(set', list')
  BY <1>1, <1>2, <1>6 DEF AllRead
<1>8. InLoad(pos', set', list')
  BY <1>2, <1>4, <1>7 DEF InLoad
<1>9. QED
  BY <1>1, <1>8, StandsMainTo

(* An item that is read leaves the reader before the next one. *)
LEMMA GlobalNext ==
    ASSUME NEW n \in Nat, n = Len(file), NEW i \in 1..n, NEW q, q = ItemAt(file, i + 1),
           NEW s, SetTo(s, i), NEW l, Held(l, i), NEW a, NEW e
    PROVE  Stands("global", q, s, l, a, e)
<1>1. PICK m : m = i + 1
  OBVIOUS
<1>2. m \in 1..(Len(file) + 1) /\ m - 1 = i
  BY <1>1
<1>3. InGlobal(q, s, l, m)
  BY <1>1, <1>2 DEF InGlobal
<1>4. QED
  BY <1>2, <1>3, StandsMainTo

LEMMA StepPickSetting ==
    ASSUME Reading, Stands(pc, pos, set, list, li, entry), NEW p, PickSetting(p)
    PROVE  Stands(pc', pos', set', list', li', entry')
<1>1. /\ pc = "global" /\ prog = p
      /\ Event(1).type = "scalar" /\ Event(1).value \in Settings(prog)
      /\ Reads(2) /\ list' = list
      /\ Event(2).type = "scalar" =>
            pc' = "global" /\ set' = Assigned(prog, Event(1).value, Event(2).value)
  BY DEF PickSetting
<1>2. PICK n \in Nat, i \in Nat :
         /\ i \in 1..(n + 1) /\ n = Len(file) /\ prog \in Programs /\ InGlobal(pos, set, list, i)
         /\ \/ i = n + 1 /\ SeesEnd(n)
            \/ i \in 1..n /\ (SeesKey(i) \/ SeesValue(i))
  BY <1>1, GlobalAt
<1>3. i \in 1..n /\ SeesKey(i)
  BY <1>1, <1>2 DEF SeesEnd, SeesValue
<1>4. file[i].key \in Settings(prog)
  BY <1>1, <1>3 DEF SeesKey
<1>5. file[i].key # "patterns"
  BY <1>2, <1>4 DEF Settings, Programs
<1>6. /\ pc' = "global" /\ pos' = ItemAt(file, i + 1)
      /\ set' = Assigned(prog, file[i].key, file[i].value)
  BY <1>1, <1>3, <1>5 DEF SeesKey
<1>7. PICK m \in Nat : m = i - 1 /\ i = m + 1
  <2>1. i - 1 \in Nat /\ i = (i - 1) + 1
    BY <1>3
  <2>2. QED
    BY <2>1
<1>8. ReadTo(set, file, m, Base(prog)) /\ Held(list, m)
  BY <1>2, <1>7 DEF InGlobal, SetTo
<1>9. SetTo(set', i)
  BY <1>2, <1>4, <1>6, <1>7, <1>8, SettingRead DEF SetTo
<1>10. Held(list', i)
  BY <1>1, <1>5, <1>7, <1>8, HeldOn
<1>11. QED
  BY <1>2, <1>3, <1>6, <1>9, <1>10, GlobalNext

LEMMA StepPickUnknown ==
    ASSUME Reading, Stands(pc, pos, set, list, li, entry), NEW p, PickUnknown(p)
    PROVE  Stands(pc', pos', set', list', li', entry')
<1>1. /\ pc = "global" /\ Event(1).type = "scalar"
      /\ Event(1).value \notin Settings(prog) \cup {"patterns"}
      /\ Reads(1) /\ list' = list /\ pc' = "global" /\ set' = set
  BY DEF PickUnknown
<1>2. PICK n \in Nat, i \in Nat :
         /\ i \in 1..(n + 1) /\ n = Len(file) /\ prog \in Programs /\ InGlobal(pos, set, list, i)
         /\ \/ i = n + 1 /\ SeesEnd(n)
            \/ i \in 1..n /\ (SeesKey(i) \/ SeesValue(i))
  BY <1>1, GlobalAt
<1>3. i \in 1..n /\ (SeesKey(i) \/ SeesValue(i))
  BY <1>1, <1>2 DEF SeesEnd
<1>4. file[i].key \notin Settings(prog) \cup {"patterns"}
  BY <1>1, <1>3 DEF SeesKey, SeesValue
<1>5. CASE SeesKey(i)
  <2>1. pos' = ItemAt(file, i) + 1
    BY <1>1, <1>5 DEF SeesKey
  <2>2. InGlobal(pos', set', list', i)
    BY <1>1, <1>2, <1>3, <1>4, <2>1 DEF InGlobal
  <2>3. QED
    BY <1>1, <1>2, <2>2, StandsMainTo
<1>6. CASE SeesValue(i)
  <2>1. pos' = ItemAt(file, i + 1)
    BY <1>1, <1>6 DEF SeesValue
  <2>2. PICK m \in Nat : m = i - 1 /\ i = m + 1
    <3>1. i - 1 \in Nat /\ i = (i - 1) + 1
      BY <1>3
    <3>2. QED
      BY <3>1
  <2>3. ReadTo(set, file, m, Base(prog)) /\ Held(list, m)
    BY <1>2, <2>2 DEF InGlobal, SetTo
  <2>4. file[i].key \notin Settings(prog) /\ file[i].key # "patterns"
    BY <1>4
  <2>5. SetTo(set', i)
    BY <1>1, <1>2, <2>2, <2>3, <2>4, UnknownRead DEF SetTo
  <2>6. Held(list', i)
    BY <1>1, <2>2, <2>3, <2>4, HeldOn
  <2>7. QED
    BY <1>1, <1>2, <1>3, <2>1, <2>5, <2>6, GlobalNext
<1>7. QED
  BY <1>3, <1>5, <1>6

(* The patterns come once: nothing is in the list before them. *)
LEMMA StepStartPatterns ==
    ASSUME Reading, Stands(pc, pos, set, list, li, entry), NEW p, NEW may,
           list = << >> => may, StartPatterns(p, may)
    PROVE  Stands(pc', pos', set', list', li', entry')
<1>1. /\ pc = "global" /\ Event(1) = Scalar("patterns") /\ Reads(1)
      /\ pc' = (IF may THEN "patterns" ELSE "crashed")
      /\ li' = << >> /\ set' = set /\ list' = list
  BY DEF StartPatterns
<1>2. Event(1).type = "scalar" /\ Event(1).value = "patterns"
  BY <1>1, Scaled
<1>3. PICK n \in Nat, i \in Nat :
         /\ i \in 1..(n + 1) /\ n = Len(file) /\ prog \in Programs /\ InGlobal(pos, set, list, i)
         /\ \/ i = n + 1 /\ SeesEnd(n)
            \/ i \in 1..n /\ (SeesKey(i) \/ SeesValue(i))
  BY <1>1, GlobalAt
<1>4. i \in 1..n /\ SeesKey(i)
  BY <1>2, <1>3 DEF SeesEnd, SeesValue
<1>5. file[i].key = "patterns" /\ pos' = ItemAt(file, i) + 1
  BY <1>1, <1>2, <1>4 DEF SeesKey
<1>6. SetTo(set, i - 1) /\ Held(list, i - 1)
  BY <1>3 DEF InGlobal
<1>7. \A x \in 1..(i - 1) : file[x].key # "patterns"
  <2>1. \A x \in 1..(i - 1) : x \in 1..n /\ x # i
    BY <1>4
  <2>2. DOMAIN file = 1..n
    BY <1>3, ReadingFacts
  <2>3. \A x \in 1..n : file[x].key = "patterns" => x = i
    BY <1>4, <1>5, <2>2 DEF Reading, Sensible
  <2>4. QED
    BY <2>1, <2>3
<1>8. list = << >>
  BY <1>6, <1>7 DEF Held
<1>9. pc' = "patterns"
  BY <1>1, <1>8
<1>10. li' = Collected(prog, file[i].value, 1 - 1)
  BY <1>1, CollectNone
<1>11. InPatterns(pos', set', list', li', i, 1)
  BY <1>1, <1>5, <1>6, <1>8, <1>10 DEF InPatterns
<1>12. 1 \in 1..(Len(file[i].value) + 1)
  <2>1. file[i].kind = "entries"
    BY <1>3, <1>4, <1>5, ReadingFacts
  <2>2. PICK J \in Nat : J = Len(file[i].value)
    BY <1>3, <1>4, <2>1, EntriesHere, ReadingFacts
  <2>3. QED
    BY <2>2
<1>13. i \in 1..Len(file)
  BY <1>3, <1>4
<1>14. QED
  BY <1>9, <1>11, <1>12, <1>13, StandsPatternsTo

----------------------------------------------------------------------------
(* _pick_patterns and the readers of an entry. *)

(* The item of the patterns, its J entries, and what stands before them. *)
HasEntries(i, v, J) ==
    /\ i \in 1..Len(file) /\ v \in Seq(Seq(KeyScalar)) /\ J \in Nat
    /\ v = file[i].value /\ J = Len(v) /\ DOMAIN v = 1..J
    /\ Is(stream, ItemAt(file, i) + 2, Mark("seq"))
    /\ ItemAt(file, i) \in Nat /\ EntryAt(file, i, 1) = ItemAt(file, i) + 2
    /\ \A j \in 1..(J + 1) : EntryAt(file, i, j) \in Nat
    /\ Is(stream, EntryAt(file, i, J + 1) + 1, Mark("seqEnd"))
    /\ ItemAt(file, i + 1) = EntryAt(file, i, J + 1) + 1
    /\ \A j \in 1..J :
          /\ EntryAt(file, i, j + 1) = EntryAt(file, i, j) + (2 * Len(v[j]) + 2)
          /\ At(stream, EntryAt(file, i, j), Mapping(v[j]))

LEMMA PatternsHere ==
    ASSUME Reading, NEW i \in 1..Len(file), file[i].key = "patterns"
    PROVE  \E v, J : HasEntries(i, v, J)
<1>1. PICK n \in Nat : /\ n = Len(file) /\ Plain(file) /\ IsStream(stream, file, n)
                       /\ \A x \in 1..n : file[x].key = "patterns" => file[x].kind = "entries"
  BY ReadingFacts
<1>2. i \in 1..n /\ file[i].kind = "entries"
  BY <1>1
<1>3. QED
  BY <1>1, <1>2, EntriesHere DEF HasEntries

LEMMA StepPickPatterns ==
    ASSUME Reading, Stands(pc, pos, set, list, li, entry), NEW p, PickPatterns(p)
    PROVE  Stands(pc', pos', set', list', li', entry')
<1>1. /\ pc = "patterns" /\ Reads(1) /\ set' = set /\ li' = li
      /\ Event(1).type \in {"failure", "seqEnd"} => list' = ListOf(prog, li) /\ pc' = "global"
      /\ Event(1).type = "map" =>
            entry' = NewEntry(prog) /\ pc' = "entry" /\ list' = list
      /\ Event(1).type \notin {"failure", "seqEnd", "map"} =>
            list' = list /\ pc' = "patterns" /\ entry' = entry
  BY DEF PickPatterns
<1>2. PICK i, j : /\ i \in 1..Len(file) /\ j \in 1..(Len(file[i].value) + 1)
                 /\ InPatterns(pos, set, list, li, i, j)
  BY <1>1 DEF Stands
<1>3. /\ file[i].key = "patterns" /\ SetTo(set, i - 1) /\ list = << >>
      /\ li = Collected(prog, file[i].value, j - 1)
      /\ \/ pos = EntryAt(file, i, j)
         \/ pos = ItemAt(file, i) + 1 /\ j = 1
  BY <1>2 DEF InPatterns
<1>4. PICK v, J : HasEntries(i, v, J)
  BY <1>2, <1>3, PatternsHere
<1>5. v = file[i].value /\ J = Len(v) /\ J \in Nat /\ j \in 1..(J + 1)
  BY <1>2, <1>4 DEF HasEntries
<1>6. PICK n \in Nat : n = Len(file) /\ IsStream(stream, file, n) /\ prog \in Programs
  BY ReadingFacts
<1>7. CASE pos = ItemAt(file, i) + 1 /\ j = 1
  <2>1. PICK z \in Nat : z = ItemAt(file, i)
    BY <1>4 DEF HasEntries
  <2>2. pos + 1 = z + 2
    BY <1>7, <2>1
  <2>3. Is(stream, pos + 1, Mark("seq")) /\ EntryAt(file, i, 1) = z + 2
    BY <1>4, <2>1, <2>2 DEF HasEntries
  <2>4. Event(1) = Mark("seq") /\ pos' = z + 2
    BY <1>1, <1>6, <2>2, <2>3, EventIs
  <2>5. Event(1).type = "seq"
    BY <2>4, Marked
  <2>6. list' = list /\ pc' = "patterns" /\ entry' = entry
    BY <1>1, <2>5
  <2>7. pos' = EntryAt(file, i, j)
    BY <1>7, <2>3, <2>4
  <2>8. InPatterns(pos', set', list', li', i, j)
    BY <1>1, <1>3, <2>6, <2>7 DEF InPatterns
  <2>9. QED
    BY <1>2, <2>6, <2>8, StandsPatternsTo
<1>8. CASE pos = EntryAt(file, i, j) /\ j \in 1..J
  <2>1. PICK z \in Nat : z = EntryAt(file, i, j)
    BY <1>4, <1>5 DEF HasEntries
  <2>2. PICK pairs : pairs = v[j]
    OBVIOUS
  <2>3. pairs \in Seq(KeyScalar) /\ At(stream, z, Mapping(pairs))
    BY <1>4, <1>5, <1>8, <2>1, <2>2, ElementOfSeq DEF HasEntries
  <2>4. PICK M \in Nat : M = Len(pairs)
    BY <2>3, LenProperties
  <2>5. Is(stream, z + 1, Mark("map"))
    BY <2>3, <2>4, EntryHere
  <2>6. Event(1) = Mark("map") /\ pos' = z + 1
    BY <1>1, <1>6, <1>8, <2>1, <2>5, EventIs
  <2>7. Event(1).type = "map"
    BY <2>6, Marked
  <2>8. entry' = NewEntry(prog) /\ pc' = "entry" /\ list' = list
    BY <1>1, <2>7
  <2>9. z + 1 = z + (2 * 1 - 1)
    OBVIOUS
  <2>10. ReadTo(entry', file[i].value[j], 1 - 1, NewEntry(prog))
    <3>1. PICK d : d = NewEntry(prog)
      OBVIOUS
    <3>2. d = [x \in DOMAIN d |-> d[x]]
      BY <1>6, <3>1, DefaultNames
    <3>3. ReadTo(d, file[i].value[j], 0, d) /\ 1 - 1 = 0
      BY <3>2, ReadNone
    <3>4. QED
      BY <2>8, <3>1, <3>3
  <2>11. InEntry(pos', set', list', li', entry', i, j, 1)
    BY <1>1, <1>3, <2>1, <2>6, <2>8, <2>9, <2>10 DEF InEntry
  <2>12. 1 \in 1..(Len(file[i].value[j]) + 1)
    BY <1>5, <2>2, <2>4
  <2>13. j \in 1..Len(file[i].value)
    BY <1>5, <1>8
  <2>14. QED
    BY <1>2, <2>8, <2>11, <2>12, <2>13, StandsPatternsTo
<1>9. CASE pos = EntryAt(file, i, j) /\ j = J + 1
  <2>1. PICK z \in Nat : z = EntryAt(file, i, j)
    BY <1>4, <1>5 DEF HasEntries
  <2>2. Is(stream, z + 1, Mark("seqEnd")) /\ ItemAt(file, i + 1) = z + 1
    BY <1>4, <1>9, <2>1 DEF HasEntries
  <2>3. Event(1) = Mark("seqEnd") /\ pos' = z + 1
    BY <1>1, <1>6, <1>9, <2>1, <2>2, EventIs
  <2>4. Event(1).type = "seqEnd"
    BY <2>3, Marked
  <2>5. list' = ListOf(prog, li) /\ pc' = "global"
    BY <1>1, <2>4
  <2>6. j - 1 = J
    BY <1>5, <1>9
  <2>7. list' = ListOf(prog, Collected(prog, file[i].value, Len(file[i].value)))
    BY <1>3, <1>5, <2>5, <2>6
  <2>8. i \in 1..n /\ i \in 1..i
    BY <1>2, <1>6
  <2>9. Held(list', i)
    BY <1>3, <2>7, <2>8 DEF Held
  <2>10. PICK m \in Nat : m = i - 1 /\ i = m + 1
    <3>1. i - 1 \in Nat /\ i = (i - 1) + 1
      BY <2>8
    <3>2. QED
      BY <3>1
  <2>11. file[i].key \notin Settings(prog)
    BY <1>3 DEF Settings
  <2>12. ReadTo(set, file, m, Base(prog))
    BY <1>3, <2>10 DEF SetTo
  <2>13. SetTo(set', i)
    BY <1>1, <1>6, <2>10, <2>11, <2>12, UnknownRead DEF SetTo
  <2>14. pos' = ItemAt(file, i + 1)
    BY <2>2, <2>3
  <2>15. QED
    BY <1>6, <2>5, <2>8, <2>9, <2>13, <2>14, GlobalNext
<1>10. j \in 1..J \/ j = J + 1
  BY <1>5
<1>11. QED
  BY <1>3, <1>7, <1>8, <1>9, <1>10

(* What a reader of an entry of M keys sees: key k with its value, or the end. *)
SeesField(i, v, j, k) ==
    /\ Event(1).type = "scalar" /\ Event(1).value = v[j][k].key
    /\ Event(2).type = "scalar" /\ Event(2).value = v[j][k].value
    /\ Reads(2) => pos' = EntryAt(file, i, j) + (2 * (k + 1) - 1)
SeesEntryEnd(i, j) ==
    /\ Event(1).type = "mapEnd"
    /\ Reads(1) => pos' = EntryAt(file, i, j + 1)

LEMMA EntrySees ==
    ASSUME Reading, Stands(pc, pos, set, list, li, entry), pc = "entry"
    PROVE  \E i, v, J, j, M, k :
               /\ HasEntries(i, v, J) /\ j \in 1..J /\ M \in Nat /\ M = Len(v[j])
               /\ k \in 1..(M + 1) /\ InEntry(pos, set, list, li, entry, i, j, k)
               /\ \/ k \in 1..M /\ SeesField(i, v, j, k)
                  \/ k = M + 1 /\ SeesEntryEnd(i, j)
<1>1. PICK i, j, k :
         /\ i \in 1..Len(file) /\ j \in 1..Len(file[i].value) /\ k \in 1..(Len(file[i].value[j]) + 1)
         /\ InEntry(pos, set, list, li, entry, i, j, k)
  BY DEF Stands
<1>2. file[i].key = "patterns" /\ pos = EntryAt(file, i, j) + (2 * k - 1)
  BY <1>1 DEF InEntry
<1>3. PICK v, J : HasEntries(i, v, J)
  BY <1>1, <1>2, PatternsHere
<1>4. v = file[i].value /\ J = Len(v) /\ J \in Nat /\ j \in 1..J
  BY <1>1, <1>3 DEF HasEntries
<1>5. PICK n \in Nat : n = Len(file) /\ IsStream(stream, file, n)
  BY ReadingFacts
<1>6. PICK pairs : pairs = v[j]
  OBVIOUS
<1>7. pairs \in Seq(KeyScalar)
  BY <1>3, <1>4, <1>6, ElementOfSeq DEF HasEntries
<1>8. PICK M \in Nat : M = Len(pairs)
  BY <1>7, LenProperties
<1>9. PICK z \in Nat : z = EntryAt(file, i, j)
  <2>1. j \in 1..(J + 1)
    BY <1>4
  <2>2. QED
    BY <1>3, <2>1 DEF HasEntries
<1>10. At(stream, z, Mapping(pairs)) /\ EntryAt(file, i, j + 1) = z + (2 * M + 2)
  BY <1>3, <1>4, <1>6, <1>8, <1>9 DEF HasEntries
<1>11. k \in 1..(M + 1)
  BY <1>1, <1>4, <1>6, <1>8
<1>12. pos = z + (2 * k - 1)
  BY <1>2, <1>9
<1>13. CASE k \in 1..M
  <2>1. PICK key, x : key = pairs[k].key /\ x = pairs[k].value
    OBVIOUS
  <2>2. Is(stream, z + 2 * k, Scalar(key)) /\ Is(stream, z + (2 * k + 1), Scalar(x))
    BY <1>7, <1>8, <1>10, <1>13, <2>1, EntryHere
  <2>3. pos + 1 = z + 2 * k /\ pos + 2 = z + (2 * k + 1) /\ pos + 2 = z + (2 * (k + 1) - 1)
    BY <1>11, <1>12
  <2>4. /\ Event(1) = Scalar(key)
        /\ Event(2) = Scalar(x) /\ (Reads(2) => pos' = pos + 2)
    BY <1>5, <2>2, <2>3, EventIs
  <2>5. /\ Event(1).type = "scalar" /\ Event(1).value = key
        /\ Event(2).type = "scalar" /\ Event(2).value = x
    BY <2>4, Scaled
  <2>6. SeesField(i, v, j, k)
    BY <1>6, <1>9, <2>1, <2>3, <2>4, <2>5 DEF SeesField
  <2>7. QED
    BY <1>1, <1>3, <1>4, <1>6, <1>8, <1>11, <1>13, <2>6
<1>14. CASE k = M + 1
  <2>1. Is(stream, z + (2 * M + 2), Mark("mapEnd"))
    BY <1>7, <1>8, <1>10, EntryHere
  <2>2. pos + 1 = z + (2 * M + 2)
    BY <1>12, <1>14
  <2>3. Event(1) = Mark("mapEnd") /\ (Reads(1) => pos' = pos + 1)
    BY <1>5, <2>1, <2>2, EventIs
  <2>4. Event(1).type = "mapEnd"
    BY <2>3, Marked
  <2>5. SeesEntryEnd(i, j)
    BY <1>10, <2>2, <2>3, <2>4 DEF SeesEntryEnd
  <2>6. QED
    BY <1>1, <1>3, <1>4, <1>6, <1>8, <1>11, <1>14, <2>5
<1>15. QED
  BY <1>11, <1>13, <1>14

LEMMA StepPickField ==
    ASSUME Reading, Stands(pc, pos, set, list, li, entry), NEW p, PickField(p)
    PROVE  Stands(pc', pos', set', list', li', entry')
<1>1. /\ pc = "entry" /\ Event(1).type = "scalar" /\ Reads(2)
      /\ entry' = IF Event(1).value \in Fields(prog)
                  THEN Field(prog, entry, Event(1).value, Event(2).value) ELSE entry
      /\ pc' = pc /\ set' = set /\ list' = list /\ li' = li
  BY DEF PickField
<1>2. PICK i, v, J, j, M, k :
         /\ HasEntries(i, v, J) /\ j \in 1..J /\ M \in Nat /\ M = Len(v[j])
         /\ k \in 1..(M + 1) /\ InEntry(pos, set, list, li, entry, i, j, k)
         /\ \/ k \in 1..M /\ SeesField(i, v, j, k)
            \/ k = M + 1 /\ SeesEntryEnd(i, j)
  BY <1>1, EntrySees
<1>3. k \in 1..M /\ SeesField(i, v, j, k)
  BY <1>1, <1>2 DEF SeesEntryEnd
<1>4. PICK pairs : pairs = v[j]
  OBVIOUS
<1>5. /\ pos' = EntryAt(file, i, j) + (2 * (k + 1) - 1)
      /\ entry' = IF pairs[k].key \in Fields(prog)
                  THEN Field(prog, entry, pairs[k].key, pairs[k].value) ELSE entry
  BY <1>1, <1>3, <1>4 DEF SeesField
<1>6. v = file[i].value /\ i \in 1..Len(file) /\ J = Len(v)
  BY <1>2 DEF HasEntries
<1>7. PICK m \in Nat : m = k - 1 /\ k = m + 1
  <2>1. k - 1 \in Nat /\ k = (k - 1) + 1
    BY <1>2
  <2>2. QED
    BY <2>1
<1>8. ReadTo(entry, pairs, m, NewEntry(prog))
  BY <1>2, <1>4, <1>6, <1>7 DEF InEntry
<1>9. ReadTo(entry', pairs, k, NewEntry(prog))
  <2>1. prog \in Programs
    BY DEF Reading, InputOK
  <2>2. QED
    BY <1>5, <1>7, <1>8, <2>1, FieldRead
<1>10. PICK x : x = k + 1
  OBVIOUS
<1>11. x - 1 = k /\ x \in 1..(M + 1)
  BY <1>2, <1>3, <1>10
<1>12. InEntry(pos', set', list', li', entry', i, j, x)
  BY <1>1, <1>2, <1>4, <1>5, <1>6, <1>9, <1>10, <1>11 DEF InEntry
<1>13. j \in 1..Len(file[i].value) /\ x \in 1..(Len(file[i].value[j]) + 1)
  BY <1>2, <1>6, <1>11
<1>14. QED
  BY <1>1, <1>6, <1>12, <1>13, StandsPatternsTo

LEMMA StepEndEntry ==
    ASSUME Reading, Stands(pc, pos, set, list, li, entry), NEW p, EndEntry(p)
    PROVE  Stands(pc', pos', set', list', li', entry')
<1>1. /\ pc = "entry" /\ pc' = "patterns" /\ li' = <<entry>> \o li
      /\ set' = set /\ list' = list
      /\ Event(1).type = "scalar" => Event(2).type = "failure"
      /\ Event(1).type # "scalar" => Reads(1)
  BY DEF EndEntry
<1>2. PICK i, v, J, j, M, k :
         /\ HasEntries(i, v, J) /\ j \in 1..J /\ M \in Nat /\ M = Len(v[j])
         /\ k \in 1..(M + 1) /\ InEntry(pos, set, list, li, entry, i, j, k)
         /\ \/ k \in 1..M /\ SeesField(i, v, j, k)
            \/ k = M + 1 /\ SeesEntryEnd(i, j)
  BY <1>1, EntrySees
<1>3. k = M + 1 /\ SeesEntryEnd(i, j)
  BY <1>1, <1>2 DEF SeesField
<1>4. pos' = EntryAt(file, i, j + 1)
  BY <1>1, <1>3 DEF SeesEntryEnd
<1>5. v = file[i].value /\ i \in 1..Len(file) /\ J = Len(v) /\ J \in Nat
  BY <1>2 DEF HasEntries
<1>6. k - 1 = M
  BY <1>2, <1>3
<1>7. PICK pairs : pairs = v[j]
  OBVIOUS
<1>8. M \in Nat /\ M = Len(pairs) /\ ReadTo(entry, pairs, M, NewEntry(prog))
  BY <1>2, <1>5, <1>6, <1>7 DEF InEntry
<1>9. entry = EntryMeant(prog, v, j)
  BY <1>7, <1>8, ReadAll DEF EntryMeant
<1>10. PICK m \in Nat : m = j - 1 /\ j = m + 1
  <2>1. j - 1 \in Nat /\ j = (j - 1) + 1
    BY <1>2, <1>5
  <2>2. QED
    BY <2>1
<1>11. li = Collected(prog, v, m)
  BY <1>2, <1>5, <1>10 DEF InEntry
<1>12. li' = Collected(prog, v, j)
  BY <1>1, <1>9, <1>10, <1>11, CollectOne
<1>13. PICK x : x = j + 1
  OBVIOUS
<1>14. x - 1 = j /\ x \in 1..(J + 1)
  BY <1>2, <1>5, <1>13
<1>15. InPatterns(pos', set', list', li', i, x)
  BY <1>1, <1>2, <1>4, <1>5, <1>12, <1>13, <1>14 DEF InPatterns, InEntry
<1>16. QED
  BY <1>1, <1>5, <1>14, <1>15, StandsPatternsTo

----------------------------------------------------------------------------
(* The invariant, and what it says at the end. *)

LEMMA ConfigInit == Init => ConfigInv
<1> SUFFICES ASSUME Init PROVE ConfigInv
  OBVIOUS
<1>1. InputOK
  BY DEF Init, InputOK
<1>2. pc = "main" /\ InMain(pos, set, list)
  BY DEF Init, InMain
<1>3. Stands(pc, pos, set, list, li, entry)
  BY <1>2 DEF Stands
<1>4. QED
  BY <1>1, <1>3 DEF ConfigInv

(* Each action of a program, for either of them. *)
LEMMA StepStands ==
    ASSUME Reading, Stands(pc, pos, set, list, li, entry), Next
    PROVE  Stands(pc', pos', set', list', li', entry')
<1>1. PICK p, may :
         /\ list = << >> => may
         /\ \/ ReadOptions(p) \/ LoadConfigFile(p)
            \/ PickSetting(p) \/ PickUnknown(p) \/ LeaveGlobal(p)
            \/ StartPatterns(p, may) \/ PickPatterns(p)
            \/ PickField(p) \/ EndEntry(p)
            \/ StartUp(p)
  <2>1. CASE FollowerNext
    BY <2>1 DEF FollowerNext
  <2>2. CASE AggregatorNext
    BY <2>2 DEF AggregatorNext
  <2>3. QED
    BY <2>1, <2>2 DEF Next
<1>2. CASE ReadOptions(p)
  BY <1>2, StepReadOptions
<1>3. CASE LoadConfigFile(p)
  BY <1>3, StepLoad
<1>4. CASE PickSetting(p)
  BY <1>4, StepPickSetting
<1>5. CASE PickUnknown(p)
  BY <1>5, StepPickUnknown
<1>6. CASE LeaveGlobal(p)
  BY <1>6, StepLeaveGlobal
<1>7. CASE StartPatterns(p, may)
  BY <1>1, <1>7, StepStartPatterns
<1>8. CASE PickPatterns(p)
  BY <1>8, StepPickPatterns
<1>9. CASE PickField(p)
  BY <1>9, StepPickField
<1>10. CASE EndEntry(p)
  BY <1>10, StepEndEntry
<1>11. CASE StartUp(p)
  BY <1>11, StepStartUp
<1>12. QED
  BY <1>1, <1>2, <1>3, <1>4, <1>5, <1>6, <1>7, <1>8, <1>9, <1>10, <1>11

(* The input never changes, so what is said of it before a step is said after. *)
LEMMA InputStays ==
    ASSUME Next
    PROVE  UNCHANGED input
BY DEF Next, FollowerNext, AggregatorNext, ReadOptions, LoadConfigFile, PickSetting,
       PickUnknown, LeaveGlobal, StartPatterns, PickPatterns, PickField, EndEntry, StartUp

LEMMA StandsAfter ==
    ASSUME UNCHANGED input, Stands(pc', pos', set', list', li', entry')
    PROVE  Stands(pc, pos, set, list, li, entry)'
BY DEF input, Stands, InMain, InLoad, AllRead, InGlobal, InPatterns, InEntry, SetTo, Held,
       Base, ReadTo

LEMMA ConfigStep == ConfigInv /\ [Next]_vars => ConfigInv'
<1> SUFFICES ASSUME ConfigInv, [Next]_vars PROVE ConfigInv'
  OBVIOUS
<1>1. CASE Next
  <2>1. UNCHANGED input
    BY <1>1, InputStays
  <2>2. InputOK'
    BY <2>1 DEF ConfigInv, InputOK, input
  <2>3. ASSUME Sensible', good' PROVE Stands(pc, pos, set, list, li, entry)'
    <3>1. Sensible /\ good
      BY <2>1, <2>3 DEF Sensible, input
    <3>2. Reading /\ Stands(pc, pos, set, list, li, entry)
      BY <3>1 DEF ConfigInv, Reading
    <3>3. Stands(pc', pos', set', list', li', entry')
      BY <1>1, <3>2, StepStands
    <3>4. QED
      BY <2>1, <3>3, StandsAfter
  <2>4. QED
    BY <2>2, <2>3 DEF ConfigInv
<1>2. CASE UNCHANGED vars
  <2>1. /\ UNCHANGED input
        /\ pc' = pc /\ pos' = pos /\ set' = set /\ list' = list /\ li' = li /\ entry' = entry
    BY <1>2 DEF vars
  <2>2. InputOK'
    BY <2>1 DEF ConfigInv, InputOK, input
  <2>3. ASSUME Sensible', good' PROVE Stands(pc, pos, set, list, li, entry)'
    <3>1. Sensible /\ good
      BY <2>1, <2>3 DEF Sensible, input
    <3>2. Stands(pc', pos', set', list', li', entry')
      BY <2>1, <3>1 DEF ConfigInv
    <3>3. QED
      BY <2>1, <3>2, StandsAfter
  <2>4. QED
    BY <2>2, <2>3 DEF ConfigInv
<1>3. QED
  BY <1>1, <1>2

(* While a sensible file is read, each function stands at a key or a mark of *)
(* its own part of the file, with all that comes before it read as it is     *)
(* meant: no function of load_config_file, _pick_global, _pick_patterns and  *)
(* the readers of an entry leaves its caller in the middle of something.     *)
THEOREM ConfigInvariant == Spec => []ConfigInv
<1>1. QED
  BY ConfigInit, ConfigStep, PTL DEF Spec

(* At the end of the reading, all is as the file means it. *)
LEMMA ReadInTheEnd ==
    ASSUME Reading, AllRead(set, list)
    PROVE  /\ set = Meant(file, Chosen(args, Defaults(prog)), MeantValue)
           /\ Range(list) = Range(MeantEntries)
           /\ prog = "aggregator" => list = MeantEntries
<1>1. PICK n \in Nat :
         /\ n = Len(file) /\ DOMAIN file = 1..n /\ prog \in Programs
         /\ Plain(file) /\ IsStream(stream, file, n)
         /\ \A i \in 1..n : file[i].key = "patterns" => file[i].kind = "entries"
  BY ReadingFacts
<1>2. set = Meant(file, Chosen(args, Defaults(prog)), MeantValue)
  <2>1. PICK d : d = Base(prog)
    OBVIOUS
  <2>2. ReadTo(set, file, n, d)
    BY <1>1, <2>1 DEF AllRead, SetTo
  <2>3. set = Meant(file, d, MeantValue)
    BY <1>1, <2>2, ReadAll
  <2>4. QED
    BY <2>1, <2>3 DEF Base
<1>3. Held(list, n) /\ Sensible
  BY <1>1 DEF AllRead, Reading
<1>4. CASE (\A i \in 1..n : file[i].key # "patterns") /\ list = << >>
  <2>1. MeantEntries = << >>
    BY <1>1, <1>3, <1>4, MeantEntriesFound
  <2>2. QED
    BY <1>2, <1>4, <2>1
<1>5. CASE \E i \in 1..n :
              /\ file[i].key = "patterns"
              /\ list = ListOf(prog, Collected(prog, file[i].value, Len(file[i].value)))
  <2>1. PICK i \in 1..n :
           /\ file[i].key = "patterns"
           /\ list = ListOf(prog, Collected(prog, file[i].value, Len(file[i].value)))
    BY <1>5
  <2>2. MeantEntries = MeantOf(prog, file[i].value)
    BY <1>1, <1>3, <2>1, MeantEntriesFound
  <2>3. i \in 1..Len(file)
    BY <1>1
  <2>4. PICK v, J : HasEntries(i, v, J)
    BY <2>1, <2>3, PatternsHere
  <2>5. v = file[i].value /\ J \in Nat /\ J = Len(v) /\ DOMAIN v = 1..J
    BY <2>4 DEF HasEntries
  <2>6. /\ Range(ListOf(prog, Collected(prog, v, J))) = Range(MeantOf(prog, v))
        /\ prog = "aggregator" => ListOf(prog, Collected(prog, v, J)) = MeantOf(prog, v)
    BY <1>1, <2>5, CollectAll
  <2>7. QED
    BY <1>2, <2>1, <2>2, <2>5, <2>6
<1>6. QED
  BY <1>3, <1>4, <1>5 DEF Held

LEMMA ConfigMeans == ConfigInv => ReadsAsMeant
<1> SUFFICES ASSUME ConfigInv, pc \in Ended, pos > 0, Sensible, good
             PROVE  /\ set = Meant(file, Chosen(args, Defaults(prog)), MeantValue)
                    /\ Range(list) = Range(MeantEntries)
                    /\ prog = "aggregator" =>
                          \A m \in Matches :
                             FindContext(list, m[2]) = FindContext(MeantEntries, m[2])
  BY DEF ReadsAsMeant
<1>1. Reading /\ Stands(pc, pos, set, list, li, entry)
  BY DEF ConfigInv, Reading
<1>2. pos # 0
  OBVIOUS
<1>3. pc \in {"done", "exited"}
  BY <1>1 DEF Stands, Ended
<1>4. AllRead(set, list)
  BY <1>1, <1>2, <1>3 DEF Stands
<1>5. /\ set = Meant(file, Chosen(args, Defaults(prog)), MeantValue)
      /\ Range(list) = Range(MeantEntries)
      /\ prog = "aggregator" => list = MeantEntries
  BY <1>1, <1>4, ReadInTheEnd
<1>6. QED
  BY <1>5

(* A sensible file of any length, with entries of any number and length, is  *)
(* read as it is meant: the settings over the options, every entry with its  *)
(* own fields, the aggregator's in their order.                              *)
THEOREM ReadsAsMeantHolds == Spec => []ReadsAsMeant
<1>1. QED
  BY ConfigInvariant, ConfigMeans, PTL

=============================================================================
