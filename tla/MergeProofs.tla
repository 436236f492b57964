----------------------------- MODULE MergeProofs ------------------------------
(***************************************************************************)
(* What is proved about the merged file, and about the separate file in    *)
(* every configuration of the aggregator.                                  *)
(*                                                                         *)
(* Two hypotheses are kept apart, and no theorem takes one it does not     *)
(* need.  InOrder: what an abandoned connection left behind is read before *)
(* newer connections are; then the bytes of the separate file are in       *)
(* order, failing writes included.  Merging: the aggregator writes the     *)
(* merged file and its opens succeed; then every record of that file is    *)
(* the beginning of one line and no line is missing, in whatever order     *)
(* connections are served.                                                 *)
(*                                                                         *)
(* The invariant MergeInv says of the connection the follower speaks on    *)
(* how far its text got: At(c, n) holds when everything up to byte n of    *)
(* the log was handed to connection c.                                     *)
(***************************************************************************)
EXTENDS CopyProofs

Merging == FMerge /\ ~MayFail

(* An increasing sequence of offsets none of which is past n. *)
Ascends(s, n) == /\ \A i \in 1..Len(s) : s[i] <= n
                 /\ \A i \in 1..(Len(s) - 1) : s[i] < s[i + 1]

(* No line ends between the two offsets. *)
Unbroken(lo, hi) == \A j \in Nat : lo < j /\ j <= hi => j \notin LineEnds

(* The beginning of a line, up to byte n, that has not ended yet. *)
LineHeld(t, n) ==
    \E k \in Nat : /\ k <= n
                   /\ t = Iota(k, n)
                   /\ k \in LineEnds \union {0}
                   /\ Unbroken(k, n)

(* What _sc_follow_context_read_line puts in a DATA: text of one line. *)
LinePiece(m) == /\ m.lo < m.hi
                /\ m.eol = (m.hi \in LineEnds)
                /\ Unbroken(m.lo, m.hi - 1)

(* Connection c was handed the log up to byte n. *)
Follows(c, n) == InOrder => Ascends(sep \o chans[c], n)

Holds(c, n) == Merging => LineHeld(chans[c], n)

Covers(c, n) == Merging => 1..n \subseteq Merged \union Range(chans[c])

At(c, n) == Follows(c, n) /\ Holds(c, n) /\ Covers(c, n)

PendingAt ==
    \A c \in Conn : req[c] # << >> /\ Head(req[c]).code = "DATA" =>
        LinePiece(Head(req[c])) /\ At(c, Head(req[c]).lo)

(* The handler at work, by the write it stands before. *)
MergeTextAt ==
    /\ FMerge
    /\ Follows(agg.conn, agg.msg.lo)
    /\ Merging => /\ chans[agg.conn] = << >>
                  /\ LineHeld(mrg[Len(mrg)], agg.msg.lo)
                  /\ 1..agg.msg.lo \subseteq Merged

AppendAt(n) ==
    /\ Follows(agg.conn, n)
    /\ Merging => chans[agg.conn] = << >> /\ 1..agg.msg.hi \subseteq Merged

HandlerAt ==
    agg.pc # "idle" =>
        /\ LinePiece(agg.msg) /\ agg.msg.eol
        /\ agg.pc = "merge buffer" => FMerge /\ At(agg.conn, agg.msg.lo)
        /\ agg.pc = "merge text" => MergeTextAt
        /\ agg.pc = "append buffer" => AppendAt(agg.msg.lo)
        /\ agg.pc = "append text" => AppendAt(agg.msg.lo) /\ chans[agg.conn] = << >>
        /\ agg.pc = "answer" => AppendAt(agg.msg.hi)

(* The last byte ends a line. *)
EndsLine(s) == s # << >> => s[Len(s)] \in LineEnds

Known(s) == Merging => EndsLine(s) /\ Range(s) \subseteq Merged

FilesRight ==
    /\ InOrder => NewestSpeaks /\ SepIncreasing
    /\ Merging => MergedRecords
    /\ FMerge \/ mrg = << >>
    /\ Known(sep)

(* The buffer is empty when an INIT sets the file offset, and the file offset *)
(* is where the buffer ends.                                                  *)
Buffered == /\ ~opened \/ pc = "init" => buf.lo >= buf.hi
            /\ up # {} /\ buf.lo < buf.hi => fpos = buf.hi

(* How far the text of live connection c got, by the follower's control. *)
ReadAt(c) == pc = "read" \/ (pc = "run" /\ opened) => At(c, Unread)

SendAt(c) == pc = "send" => /\ LinePiece(msgbuf)
                            /\ At(c, msgbuf.lo)
                            /\ msgbuf.hi = Unread

InitAt(c) == pc = "init" =>
                 /\ ~Busy(c)
                 /\ req[c] # << >> => Head(req[c]).code = "INIT"
                 /\ resp[c] # << >> => /\ chans[c] = << >>
                                       /\ Known(Head(resp[c]).hash)
                                       /\ InOrder => Head(resp[c]).hash = sep

DataAt(c) == pc = "data" =>
                 /\ msgbuf.hi = Unread
                 /\ req[c] # << >> => Head(req[c]) = msgbuf
                 /\ Busy(c) => agg.msg = msgbuf
                 /\ resp[c] # << >> => At(c, Unread)

FollowerAt == \A c \in up : ReadAt(c) /\ SendAt(c) /\ InitAt(c) /\ DataAt(c)

MergeInv == FilesRight /\ PendingAt /\ HandlerAt /\ Buffered /\ FollowerAt

----------------------------------------------------------------------------
(* Increasing sequences. *)

LEMMA AscendsMore ==
    ASSUME NEW s \in Seq(Nat), NEW a \in Nat, NEW b \in Nat, a <= b, Ascends(s, a)
    PROVE  Ascends(s, b)
<1>1. \A i \in 1..Len(s) : s[i] \in Nat
  BY LenProperties
<1>2. QED
  BY <1>1 DEF Ascends

LEMMA AscendsEmpty ==
    ASSUME NEW n \in Nat
    PROVE  Ascends(<< >>, n)
BY DEF Ascends

LEMMA AscendsIota ==
    ASSUME NEW n \in Nat
    PROVE  Ascends(Iota(0, n), n)
<1>1. Len(Iota(0, n)) = n
  BY IotaLen
<1>2. \A i \in 1..n : Iota(0, n)[i] = i
  BY DEF Iota
<1>3. QED
  BY <1>1, <1>2 DEF Ascends

LEMMA AscendsPrefix ==
    ASSUME NEW s \in Seq(Nat), NEW t \in Seq(Nat), NEW n \in Nat,
           Ascends(s \o t, n)
    PROVE  Ascends(s, n)
<1>1. /\ Len(s) \in Nat /\ Len(t) \in Nat
      /\ Len(s \o t) = Len(s) + Len(t)
      /\ \A i \in 1..Len(s) : (s \o t)[i] = s[i]
  BY ConcatProperties, LenProperties
<1>2. ASSUME NEW i \in 1..Len(s)
      PROVE  s[i] <= n
  BY <1>1 DEF Ascends
<1>3. ASSUME NEW i \in 1..(Len(s) - 1)
      PROVE  s[i] < s[i + 1]
  <2>1. i \in 1..(Len(s \o t) - 1) /\ i \in 1..Len(s) /\ i + 1 \in 1..Len(s)
    BY <1>1
  <2>2. (s \o t)[i] < (s \o t)[i + 1]
    BY <2>1 DEF Ascends
  <2>3. QED
    BY <1>1, <2>1, <2>2
<1>4. QED
  BY <1>2, <1>3 DEF Ascends

LEMMA AscendsExtend ==
    ASSUME NEW s \in Seq(Nat), NEW a \in Nat, NEW b \in Nat, a <= b,
           Ascends(s, a)
    PROVE  Ascends(s \o Iota(a, b), b)
<1> DEFINE t == Iota(a, b)
           u == s \o t
           n == Len(s)
<1>1. t \in Seq(Nat) /\ Len(t) = b - a
  BY IotaType, IotaLen
<1>2. \A i \in 1..(b - a) : t[i] = a + i
  BY DEF Iota
<1> HIDE DEF t
<1>3. /\ n \in Nat
      /\ Len(u) = n + (b - a)
      /\ \A i \in 1..(n + (b - a)) : u[i] = IF i <= n THEN s[i] ELSE t[i - n]
  BY <1>1, ConcatProperties, LenProperties
<1>4. /\ \A i \in 1..n : s[i] \in Nat /\ s[i] <= a
      /\ \A i \in 1..(n - 1) : s[i] < s[i + 1]
  BY LenProperties DEF Ascends
<1> HIDE DEF u, n
<1>5. \A i \in 1..(n + (b - a)) :
         /\ i <= n => u[i] = s[i]
         /\ i > n => u[i] = a + (i - n)
  <2> TAKE i \in 1..(n + (b - a))
  <2>1. i > n => i - n \in 1..(b - a)
    BY <1>3
  <2>2. QED
    BY <1>2, <1>3, <2>1
<1>6. ASSUME NEW i \in 1..(n + (b - a))
      PROVE  u[i] <= b
  <2>1. CASE i <= n
    <3>1. u[i] = s[i] /\ s[i] \in Nat /\ s[i] <= a
      BY <1>3, <1>4, <1>5, <2>1
    <3>2. QED
      BY <3>1
  <2>2. CASE i > n
    BY <1>3, <1>5, <2>2
  <2>3. QED
    BY <1>3, <2>1, <2>2
<1>7. ASSUME NEW i \in 1..(n + (b - a) - 1)
      PROVE  u[i] < u[i + 1]
  <2>1. i \in 1..(n + (b - a)) /\ i + 1 \in 1..(n + (b - a))
    BY <1>3
  <2>2. CASE i + 1 <= n
    <3>1. u[i] = s[i] /\ u[i + 1] = s[i + 1]
      BY <1>3, <1>5, <2>1, <2>2
    <3>2. i \in 1..(n - 1)
      BY <1>3, <2>2
    <3>3. QED
      BY <1>4, <3>1, <3>2
  <2>3. CASE i = n
    <3>1. u[i] = s[i] /\ u[i + 1] = a + (n + 1 - n)
      BY <1>3, <1>5, <2>1, <2>3
    <3>2. s[i] \in Nat /\ s[i] <= a
      BY <1>3, <1>4, <2>3
    <3>3. QED
      BY <1>3, <3>1, <3>2
  <2>4. CASE i > n
    <3>1. u[i] = a + (i - n) /\ u[i + 1] = a + (i + 1 - n)
      BY <1>3, <1>5, <2>1, <2>4
    <3>2. QED
      BY <1>3, <3>1
  <2>5. QED
    BY <1>3, <2>2, <2>3, <2>4
<1>8. Ascends(u, b)
  BY <1>3, <1>6, <1>7 DEF Ascends
<1>9. QED
  BY <1>8 DEF u, t
----------------------------------------------------------------------------
(* Lines and what a file holds. *)

LEMMA RangeConcat ==
    ASSUME NEW S, NEW s \in Seq(S), NEW t \in Seq(S)
    PROVE  Range(s \o t) = Range(s) \union Range(t)
<1>1. /\ Len(s) \in Nat /\ Len(t) \in Nat
      /\ DOMAIN s = 1..Len(s) /\ DOMAIN t = 1..Len(t)
      /\ DOMAIN (s \o t) = 1..(Len(s) + Len(t))
      /\ \A i \in 1..(Len(s) + Len(t)) :
            (s \o t)[i] = IF i <= Len(s) THEN s[i] ELSE t[i - Len(s)]
  BY ConcatProperties, LenProperties
<1>2. ASSUME NEW i \in DOMAIN (s \o t)
      PROVE  (s \o t)[i] \in Range(s) \union Range(t)
  <2>1. CASE i <= Len(s)
    <3>1. i \in DOMAIN s /\ (s \o t)[i] = s[i]
      BY <1>1, <2>1
    <3>2. QED
      BY <3>1 DEF Range
  <2>2. CASE ~(i <= Len(s))
    <3>1. i - Len(s) \in DOMAIN t /\ (s \o t)[i] = t[i - Len(s)]
      BY <1>1, <2>2
    <3>2. QED
      BY <3>1 DEF Range
  <2>3. QED
    BY <2>1, <2>2
<1>3. ASSUME NEW i \in DOMAIN s
      PROVE  s[i] \in Range(s \o t)
  <2>1. i \in DOMAIN (s \o t) /\ (s \o t)[i] = s[i]
    BY <1>1
  <2>2. QED
    BY <2>1 DEF Range
<1>4. ASSUME NEW i \in DOMAIN t
      PROVE  t[i] \in Range(s \o t)
  <2>1. /\ i + Len(s) \in DOMAIN (s \o t)
        /\ ~(i + Len(s) <= Len(s))
        /\ (i + Len(s)) - Len(s) = i
    BY <1>1
  <2>2. (s \o t)[i + Len(s)] = t[i]
    BY <1>1, <2>1
  <2>3. QED
    BY <2>1, <2>2 DEF Range
<1>5. QED
  BY <1>2, <1>3, <1>4 DEF Range

LEMMA RangeIota ==
    ASSUME NEW a \in Nat, NEW b \in Nat
    PROVE  Range(Iota(a, b)) = (a + 1)..b
<1>1. ASSUME NEW i \in 1..(b - a)
      PROVE  Iota(a, b)[i] \in (a + 1)..b
  BY DEF Iota
<1>2. ASSUME NEW x \in (a + 1)..b
      PROVE  x - a \in 1..(b - a) /\ Iota(a, b)[x - a] = x
  BY DEF Iota
<1>3. DOMAIN Iota(a, b) = 1..(b - a)
  BY DEF Iota
<1>4. QED
  BY <1>1, <1>2, <1>3 DEF Range

LEMMA LineStarts ==
    ASSUME NEW n \in Nat, n \in LineEnds \union {0}
    PROVE  LineHeld(<< >>, n)
<1>1. Iota(n, n) = << >>
  BY IotaEmpty
<1>2. Unbroken(n, n)
  BY DEF Unbroken
<1>3. n <= n
  OBVIOUS
<1>4. QED
  BY <1>1, <1>2, <1>3 DEF LineHeld

(* A piece that continues the line held back. *)
LEMMA LineGrows ==
    ASSUME NEW t, NEW m \in Request, LinePiece(m), ~m.eol, LineHeld(t, m.lo)
    PROVE  LineHeld(t \o Iota(m.lo, m.hi), m.hi)
<1> DEFINE a == m.lo
           b == m.hi
<1>1. a \in Nat /\ b \in Nat
  BY DEF Request
<1>2. a < b /\ b \notin LineEnds /\ Unbroken(a, b - 1)
  BY DEF LinePiece
<1>3. PICK k \in Nat : /\ k <= a /\ t = Iota(k, a) /\ k \in LineEnds \union {0}
                       /\ Unbroken(k, a)
  BY DEF LineHeld
<1> SUFFICES LineHeld(t \o Iota(a, b), b)
  OBVIOUS
<1> HIDE DEF a, b
<1>4. t \o Iota(a, b) = Iota(k, b)
  <2>1. a <= b
    BY <1>1, <1>2
  <2>2. QED
    BY <1>1, <1>3, <2>1, IotaConcat
<1>5. Unbroken(k, b)
  BY <1>1, <1>2, <1>3 DEF Unbroken
<1>6. k <= b
  BY <1>1, <1>2, <1>3
<1>7. QED
  BY <1>3, <1>4, <1>5, <1>6 DEF LineHeld

LEMMA OneLineIota ==
    ASSUME NEW k \in Nat, NEW n \in Nat, k <= n, k \in LineEnds \union {0},
           Unbroken(k, n - 1)
    PROVE  OneLine(Iota(k, n))
<1> DEFINE t == Iota(k, n)
<1>1. Len(t) = n - k
  BY IotaLen
<1>2. \A i \in 1..(n - k) : t[i] = k + i
  BY DEF Iota
<1>3. t # << >> => k < n
  <2>1. k = n => t = << >>
    BY IotaEmpty
  <2>2. QED
    BY <2>1
<1> SUFFICES OneLine(t)
  OBVIOUS
<1>4. t = Iota(k, k + (n - k))
  OBVIOUS
<1> HIDE DEF t
<1>5. ASSUME t # << >>
      PROVE  /\ t = Iota(t[1] - 1, t[1] - 1 + Len(t))
             /\ t[1] - 1 \in LineEnds \union {0}
             /\ \A i \in 1..(Len(t) - 1) : t[i] \notin LineEnds
  <2>1. t[1] - 1 = k
    BY <1>2, <1>3, <1>5
  <2>2. ASSUME NEW i \in 1..(n - k - 1)
        PROVE  t[i] \notin LineEnds
    <3>1. t[i] = k + i
      BY <1>2
    <3>2. QED
      BY <3>1 DEF Unbroken
  <2>3. QED
    BY <1>1, <1>4, <2>1, <2>2
<1>6. QED
  BY <1>5 DEF OneLine

LEMMA HeldIsOneLine ==
    ASSUME NEW n \in Nat, NEW t, LineHeld(t, n)
    PROVE  OneLine(t)
<1>1. PICK k \in Nat : /\ k <= n /\ t = Iota(k, n) /\ k \in LineEnds \union {0}
                       /\ Unbroken(k, n)
  BY DEF LineHeld
<1>2. Unbroken(k, n - 1)
  BY <1>1 DEF Unbroken
<1>3. QED
  BY <1>1, <1>2, OneLineIota

LEMMA LineCompleted ==
    ASSUME NEW m \in Request, LinePiece(m), NEW t, LineHeld(t, m.lo)
    PROVE  OneLine(t \o Iota(m.lo, m.hi))
<1> DEFINE a == m.lo
           b == m.hi
<1>1. a \in Nat /\ b \in Nat
  BY DEF Request
<1>2. a < b /\ Unbroken(a, b - 1)
  BY DEF LinePiece
<1>3. PICK k \in Nat : /\ k <= a /\ t = Iota(k, a) /\ k \in LineEnds \union {0}
                       /\ Unbroken(k, a)
  BY DEF LineHeld
<1> SUFFICES OneLine(t \o Iota(a, b))
  OBVIOUS
<1> HIDE DEF a, b
<1>4. t \o Iota(a, b) = Iota(k, b)
  <2>1. a <= b
    BY <1>1, <1>2
  <2>2. QED
    BY <1>1, <1>3, <2>1, IotaConcat
<1>5. Unbroken(k, b - 1)
  BY <1>1, <1>2, <1>3 DEF Unbroken
<1>6. k <= b
  BY <1>1, <1>2, <1>3
<1>7. QED
  BY <1>1, <1>3, <1>4, <1>5, <1>6, OneLineIota

----------------------------------------------------------------------------
(* What a step leaves alone. *)

LEMMA MergedAppend ==
    ASSUME NEW t \in Seq(Nat), mrg \in Seq(Seq(Nat)), mrg' = Append(mrg, t)
    PROVE  /\ Merged' = Merged \union Range(t)
           /\ mrg' # << >>
           /\ mrg'[Len(mrg')] = t
           /\ \A i \in DOMAIN mrg' : mrg'[i] = t \/ (i \in DOMAIN mrg /\ mrg'[i] = mrg[i])
<1>1. /\ Len(mrg) \in Nat
      /\ DOMAIN mrg = 1..Len(mrg) /\ DOMAIN mrg' = 1..(Len(mrg) + 1)
      /\ Len(mrg') = Len(mrg) + 1
      /\ mrg'[Len(mrg) + 1] = t
      /\ \A i \in 1..Len(mrg) : mrg'[i] = mrg[i]
  BY AppendProperties, LenProperties
<1>2. \A i \in DOMAIN mrg' : mrg'[i] = t \/ (i \in DOMAIN mrg /\ mrg'[i] = mrg[i])
  BY <1>1
<1>3. \A i \in DOMAIN mrg : i \in DOMAIN mrg' /\ mrg'[i] = mrg[i]
  BY <1>1
<1>4. Len(mrg) + 1 \in DOMAIN mrg' /\ mrg'[Len(mrg) + 1] = t
  BY <1>1
<1>5. Merged' = UNION {Range(mrg'[i]) : i \in DOMAIN mrg'}
  BY DEF Merged
<1>6. Merged' \subseteq Merged \union Range(t)
  BY <1>2, <1>5 DEF Merged
<1>7. Merged \subseteq Merged'
  BY <1>3, <1>5 DEF Merged
<1>8. Range(t) \subseteq Merged'
  BY <1>4, <1>5
<1>9. mrg' # << >>
  BY <1>1
<1>10. QED
  BY <1>1, <1>2, <1>6, <1>7, <1>8, <1>9

LEMMA MergedGrow ==
    ASSUME NEW t \in Seq(Nat), mrg \in Seq(Seq(Nat)), mrg # << >>,
           mrg' = [mrg EXCEPT ![Len(mrg)] = @ \o t]
    PROVE  /\ Merged' = Merged \union Range(t)
           /\ \A i \in DOMAIN mrg' :
                 \/ mrg'[i] = mrg[Len(mrg)] \o t
                 \/ i \in DOMAIN mrg /\ mrg'[i] = mrg[i]
<1> DEFINE n == Len(mrg)
<1>1. n \in Nat /\ n # 0 /\ DOMAIN mrg = 1..n
  BY LenProperties, EmptySeq
<1>2. mrg[n] \in Seq(Nat)
  BY <1>1, LenProperties
<1>3. /\ n \in DOMAIN mrg /\ DOMAIN mrg' = DOMAIN mrg
      /\ mrg'[n] = mrg[n] \o t
      /\ \A i \in DOMAIN mrg : i # n => mrg'[i] = mrg[i]
  BY <1>1
<1> HIDE DEF n
<1>4. Range(mrg'[n]) = Range(mrg[n]) \union Range(t)
  <2>1. Range(mrg[n] \o t) = Range(mrg[n]) \union Range(t)
    BY <1>2, RangeConcat
  <2>2. QED
    BY <1>3, <2>1
<1>5. Merged' = UNION {Range(mrg'[i]) : i \in DOMAIN mrg'}
  BY DEF Merged
<1>6. \A i \in DOMAIN mrg : Range(mrg'[i]) \subseteq Merged \union Range(t)
  BY <1>3, <1>4 DEF Merged
<1>7. \A i \in DOMAIN mrg : Range(mrg[i]) \subseteq Merged'
  <2> TAKE i \in DOMAIN mrg
  <2>1. Range(mrg[i]) \subseteq Range(mrg'[i])
    BY <1>3, <1>4
  <2>2. QED
    BY <1>3, <1>5, <2>1
<1>8. Range(t) \subseteq Merged'
  BY <1>3, <1>4, <1>5
<1>9. Merged' \subseteq Merged \union Range(t)
  BY <1>3, <1>5, <1>6
<1>10. Merged \subseteq Merged'
  BY <1>7 DEF Merged
<1>11. \A i \in DOMAIN mrg' :
          \/ mrg'[i] = mrg[Len(mrg)] \o t
          \/ i \in DOMAIN mrg /\ mrg'[i] = mrg[i]
  BY <1>3 DEF n
<1>12. QED
  BY <1>8, <1>9, <1>10, <1>11

LEMMA MergingKept ==
    ASSUME mode' = mode
    PROVE  (Merging' = Merging) /\ (FMerge' = FMerge) /\ (FSeparate' = FSeparate)
BY DEF Merging, FMerge, FSeparate

(* Merged only grows, so the text of a connection stays where it is. *)
LEMMA AtKept ==
    ASSUME NEW c, mode' = mode, Merging => Merged \subseteq Merged',
           chans'[c] = chans[c], InOrder => sep' = sep
    PROVE  \A n : At(c, n) => At(c, n)'
<1> TAKE n
<1>1. Follows(c, n) => Follows(c, n)'
  BY DEF Follows
<1>2. Holds(c, n) => Holds(c, n)'
  BY MergingKept DEF Holds
<1>3. Covers(c, n) => Covers(c, n)'
  BY MergingKept DEF Covers
<1>4. QED
  BY <1>1, <1>2, <1>3 DEF At

LEMMA AtSame ==
    ASSUME UNCHANGED <<chans, sep, mrg, mode>>
    PROVE  \A c, n : At(c, n) => At(c, n)'
<1> TAKE c, n
<1>1. Merged' = Merged
  BY DEF Merged
<1>2. QED
  BY <1>1, AtKept

LEMMA KnownKept ==
    ASSUME mode' = mode, Merging => Merged \subseteq Merged'
    PROVE  \A s : Known(s) => Known(s)'
BY MergingKept DEF Known

LEMMA PendingSame ==
    ASSUME PendingAt, UNCHANGED <<chans, sep, mrg, mode>>,
           \A c \in Conn : req'[c] # << >> => req'[c] = req[c]
    PROVE  PendingAt'
<1> SUFFICES ASSUME NEW c \in Conn, req'[c] # << >>, Head(req'[c]).code = "DATA"
             PROVE  LinePiece(Head(req'[c])) /\ At(c, Head(req[c]).lo)'
  BY DEF PendingAt, LinePiece, Unbroken
<1> DEFINE n == Head(req[c]).lo
<1>1. req'[c] = req[c]
  OBVIOUS
<1>2. LinePiece(Head(req[c])) /\ At(c, n)
  BY <1>1 DEF PendingAt
<1> HIDE DEF n
<1>3. PICK k : k = n
  OBVIOUS
<1>4. At(c, k)'
  BY <1>2, <1>3, AtSame
<1>5. n' = k
  BY <1>1, <1>3 DEF n
<1>6. At(c, n)'
  BY <1>4, <1>5 DEF At, Follows, Holds, Covers
<1>7. QED
  BY <1>1, <1>2, <1>6 DEF n

LEMMA HandlerSame ==
    ASSUME HandlerAt, UNCHANGED <<chans, sep, mrg, mode, agg>>
    PROVE  HandlerAt'
<1>1. Merged' = Merged /\ (Merging' = Merging) /\ (FMerge' = FMerge)
  BY MergingKept DEF Merged
<1>2. QED
  BY <1>1 DEF HandlerAt, MergeTextAt, AppendAt, At, Follows, Holds, Covers,
              LinePiece, Unbroken

LEMMA FilesSame ==
    ASSUME FilesRight, UNCHANGED <<sep, mrg, mode>>, InOrder => NewestSpeaks'
    PROVE  FilesRight'
<1>1. Merged' = Merged /\ (Merging' = Merging) /\ (FMerge' = FMerge)
  BY MergingKept DEF Merged
<1>2. QED
  BY <1>1 DEF FilesRight, SepIncreasing, MergedRecords, Known

(* Nobody starts to speak and no channel is opened. *)
LEMMA FewerSpeak ==
    ASSUME NewestSpeaks,
           \A c \in Conn : /\ req'[c] # << >> \/ Busy(c)' => req[c] # << >> \/ Busy(c)
                           /\ HasChannel(c)' => HasChannel(c)
    PROVE  NewestSpeaks'
BY DEF NewestSpeaks, Busy, HasChannel

(* The aggregator stands still and nothing is sent to it. *)
LEMMA AggregatorStill ==
    ASSUME MergeInv, UNCHANGED <<chans, agg, sep, mrg, mode>>,
           \A c \in Conn : req'[c] # << >> => req'[c] = req[c]
    PROVE  FilesRight' /\ PendingAt' /\ HandlerAt'
<1>1. NewestSpeaks => NewestSpeaks'
  BY FewerSpeak DEF Busy, HasChannel
<1>2. QED
  BY <1>1, FilesSame, PendingSame, HandlerSame DEF MergeInv, FilesRight

(* A message is sent. *)
LEMMA SentRight ==
    ASSUME ProtocolInv, MergeInv, \A c \in up : Quiet(c),
           NEW m \in Request, SendSucceeds(m),
           m.code = "DATA" => \A c \in up : LinePiece(m) /\ At(c, m.lo),
           UNCHANGED <<chans, agg, sep, mrg, mode>>
    PROVE  FilesRight' /\ PendingAt' /\ HandlerAt'
<1>1. TypeOK /\ OneConnection /\ ChannelOwned
  BY DEF ProtocolInv
<1>2. \A c \in Conn : \/ req'[c] = req[c]
                      \/ c \in up /\ req'[c] # << >> /\ Head(req'[c]) = m
  BY <1>1, SendEffect
<1>3. NewestSpeaks => NewestSpeaks'
  <2> SUFFICES ASSUME NewestSpeaks, NEW c \in Conn, NEW d \in Conn, c < d,
                      HasChannel(d)'
               PROVE  req'[c] = << >> /\ ~Busy(c)'
    BY DEF NewestSpeaks
  <2>1. HasChannel(d)
    BY DEF HasChannel
  <2>2. req[c] = << >> /\ ~Busy(c)
    BY <2>1 DEF NewestSpeaks
  <2>3. c \notin up
    <3>1. nconn \in Nat /\ conns \subseteq 1..nconn
      BY <1>1, ConnTypes
    <3>2. d \in 1..nconn
      BY <1>1, <2>1, <3>1 DEF ChannelOwned, HasChannel
    <3>3. c \in up => c = nconn
      BY LiveConnection
    <3>4. QED
      BY <3>1, <3>2, <3>3
  <2>4. QED
    BY <1>2, <2>2, <2>3 DEF Busy
<1>4. PendingAt'
  <2> SUFFICES ASSUME NEW c \in Conn, req'[c] # << >>, Head(req'[c]).code = "DATA"
               PROVE  LinePiece(Head(req'[c])) /\ At(c, Head(req[c]).lo)'
    BY DEF PendingAt, LinePiece, Unbroken
  <2> DEFINE n == Head(req[c]).lo
  <2>1. PICK k : k = Head(req'[c]).lo
    OBVIOUS
  <2>2. LinePiece(Head(req'[c])) /\ At(c, k)
    BY <1>2, <2>1 DEF PendingAt, MergeInv
  <2>3. At(c, k)'
    BY <2>2, AtSame
  <2>4. n' = k
    BY <2>1
  <2> HIDE DEF n
  <2>5. At(c, n)'
    BY <2>3, <2>4 DEF At, Follows, Holds, Covers
  <2>6. QED
    BY <2>2, <2>5 DEF n
<1>5. QED
  BY <1>3, <1>4, FilesSame, HandlerSame DEF MergeInv, FilesRight

----------------------------------------------------------------------------
(* The invariant survives each step of the application and the follower. *)

(* A step that leaves the connections dead, or the follower without a file. *)
LEMMA NothingToSay ==
    ASSUME up' = {} \/ (pc' = "run" /\ ~opened') \/ pc' \in {"reconnect", "exited"}
    PROVE  FollowerAt'
BY DEF FollowerAt, ReadAt, SendAt, InitAt, DataAt

LEMMA WriteMerge ==
    ASSUME ProtocolInv, MergeInv, Write
    PROVE  MergeInv'
<1>1. /\ UNCHANGED <<pc, opened, fpos, buf, msgbuf, up, req, resp>>
      /\ UNCHANGED <<chans, agg, sep, mrg, mode>>
  BY DEF Write, follower, network, memory, disk
<1>2. FilesRight' /\ PendingAt' /\ HandlerAt'
  BY <1>1, AggregatorStill
<1>3. Buffered'
  BY <1>1 DEF MergeInv, Buffered
<1>4. Merged' = Merged /\ (Merging' = Merging) /\ Unread' = Unread
  BY <1>1, MergingKept DEF Merged, Unread
<1>5. FollowerAt'
  BY <1>1, <1>4 DEF MergeInv, FollowerAt, ReadAt, SendAt, InitAt, DataAt, At,
                Follows, Holds, Covers, LinePiece, Unbroken, Known, Busy
<1>6. QED
  BY <1>2, <1>3, <1>5 DEF MergeInv

LEMMA ReconnectMerge ==
    ASSUME ProtocolInv, MergeInv, Reconnect \/ ReconnectFails
    PROVE  MergeInv'
<1>1. /\ ResetContext
      /\ UNCHANGED <<req, resp, chans, agg, sep, mrg, mode>>
  BY DEF Reconnect, ReconnectFails, network, memory, disk
<1>2. FilesRight' /\ PendingAt' /\ HandlerAt'
  BY <1>1, AggregatorStill
<1>3. Buffered'
  BY <1>1 DEF Buffered, ResetContext
<1>4. FollowerAt'
  BY <1>1, NothingToSay DEF ResetContext
<1>5. QED
  BY <1>2, <1>3, <1>4 DEF MergeInv

LEMMA MustReconnectMerge ==
    ASSUME ProtocolInv, MergeInv, MustReconnect
    PROVE  MergeInv'
<1>1. /\ UNCHANGED <<opened, fpos, buf, up, req>>
      /\ UNCHANGED <<chans, agg, sep, mrg, mode>>
      /\ pc' = "reconnect"
  BY DEF MustReconnect, network, memory, disk
<1>2. FilesRight' /\ PendingAt' /\ HandlerAt'
  BY <1>1, AggregatorStill
<1>3. Buffered'
  BY <1>1 DEF MergeInv, Buffered
<1>4. FollowerAt'
  BY <1>1, NothingToSay
<1>5. QED
  BY <1>2, <1>3, <1>4 DEF MergeInv

LEMMA OpenFileMerge ==
    ASSUME ProtocolInv, MergeInv, OpenFile
    PROVE  MergeInv'
<1>1. /\ pc = "run" /\ sock # 0 /\ ~opened /\ opened' /\ fpos' = 0
      /\ UNCHANGED <<buf, msgbuf, up, resp>>
      /\ UNCHANGED <<chans, agg, sep, mrg, mode>>
  BY DEF OpenFile, memory, disk
<1>2. \A c \in up : Quiet(c)
  BY <1>1 DEF ProtocolInv, LiveControl
<1>3. Buffered'
  <2>1. buf.lo \in Nat /\ buf.hi \in Nat
    BY DEF ProtocolInv, TypeOK, FollowerType
  <2>2. buf.lo >= buf.hi
    BY <1>1 DEF MergeInv, Buffered
  <2>3. ~(buf.lo < buf.hi)
    BY <2>1, <2>2
  <2>4. buf' = buf
    BY <1>1
  <2>5. QED
    BY <2>2, <2>3, <2>4 DEF Buffered
<1>4. CASE SendSucceeds(InitMessage) /\ pc' = "init"
  <2>1. InitMessage \in Request /\ InitMessage.code = "INIT"
    BY DEF InitMessage, Request
  <2>2. FilesRight' /\ PendingAt' /\ HandlerAt'
    BY <1>1, <1>2, <1>4, <2>1, SentRight
  <2>3. FollowerAt'
    <3> SUFFICES ASSUME NEW c \in up
                 PROVE  InitAt(c)'
      BY <1>1, <1>4 DEF FollowerAt, ReadAt, SendAt, DataAt
    <3>1. TypeOK /\ OneConnection /\ c \in Conn
      BY LiveConnection DEF ProtocolInv
    <3>2. req'[c] = req[c] \/ Head(req'[c]) = InitMessage
      BY <1>2, <1>4, <2>1, <3>1, SendEffect
    <3>3. Quiet(c)
      BY <1>2
    <3>4. ~Busy(c)' /\ resp'[c] = << >>
      BY <1>1, <3>3 DEF Quiet, Busy
    <3>5. QED
      BY <2>1, <3>2, <3>3, <3>4 DEF InitAt, Quiet
  <2>4. QED
    BY <1>3, <2>2, <2>3 DEF MergeInv
<1>5. CASE SendFails /\ pc' = "read"
  <2>1. up = {} /\ req' = req
    BY <1>5, LiveConnection DEF SendFails
  <2>2. FilesRight' /\ PendingAt' /\ HandlerAt'
    BY <1>1, <2>1, AggregatorStill
  <2>3. FollowerAt'
    BY <1>1, <2>1, NothingToSay
  <2>4. QED
    BY <1>3, <2>2, <2>3 DEF MergeInv
<1>6. QED
  BY <1>4, <1>5 DEF OpenFile

(* The answer to an INIT: the digest matched, so the follower goes on where *)
(* the separate file ends, and everything before is merged.                 *)
LEMMA ResumeAt ==
    ASSUME ProtocolInv, MergeInv, NEW c \in up, pc = "init", resp[c] # << >>,
           HashMatches(Head(resp[c]))
    PROVE  At(c, Head(resp[c]).pos)
<1> DEFINE r == Head(resp[c])
           n == r.pos
<1>1. c \in Conn
  BY LiveConnection
<1>2. r \in Reply
  BY <1>1, TakeOne DEF ProtocolInv, TypeOK, NetworkType, OneMessage
<1>3. n \in Nat /\ r.hash = Iota(0, n)
  BY <1>2 DEF HashMatches, Reply
<1>4. InitAt(c)
  BY DEF MergeInv, FollowerAt
<1>5. /\ chans[c] = << >>
      /\ Known(r.hash)
      /\ InOrder => r.hash = sep
  BY <1>4 DEF InitAt
<1> HIDE DEF n
<1>6. Follows(c, n)
  <2> SUFFICES ASSUME InOrder
               PROVE  Ascends(sep \o chans[c], n)
    BY DEF Follows
  <2>1. sep = Iota(0, n) /\ sep \in Seq(Nat)
    BY <1>3, <1>5 DEF ProtocolInv, TypeOK, DiskType
  <2>2. sep \o chans[c] = sep
    BY <1>5, <2>1, ConcatEmptySeq
  <2>3. QED
    BY <1>3, <2>1, <2>2, AscendsIota
<1>7. Holds(c, n)
  <2> SUFFICES ASSUME Merging
               PROVE  LineHeld(chans[c], n)
    BY DEF Holds
  <2>1. EndsLine(Iota(0, n))
    BY <1>3, <1>5 DEF Known
  <2>2. Len(Iota(0, n)) = n /\ (n # 0 => Iota(0, n)[n] = n)
    BY <1>3, IotaLen DEF Iota
  <2>3. n # 0 => Iota(0, n) # << >>
    BY <1>3, <2>2, EmptySeq
  <2>4. n \in LineEnds \union {0}
    BY <2>1, <2>2, <2>3 DEF EndsLine
  <2>5. QED
    BY <1>3, <1>5, <2>4, LineStarts
<1>8. Covers(c, n)
  <2> SUFFICES ASSUME Merging
               PROVE  1..n \subseteq Merged
    BY DEF Covers
  <2>1. Range(Iota(0, n)) = (0 + 1)..n
    BY <1>3, RangeIota
  <2>2. Range(Iota(0, n)) \subseteq Merged
    BY <1>3, <1>5 DEF Known
  <2>3. (0 + 1)..n = 1..n
    BY <1>3
  <2>4. QED
    BY <2>1, <2>2, <2>3
<1>9. QED
  BY <1>6, <1>7, <1>8 DEF At, n

LEMMA InitAnsweredMerge ==
    ASSUME ProtocolInv, MergeInv, InitAnswered
    PROVE  MergeInv'
<1>1. /\ pc \in {"init", "init again"} /\ sock # 0 /\ resp[sock] # << >>
      /\ HashMatches(Head(resp[sock]))
      /\ fpos' = Head(resp[sock]).pos
      /\ pc' = AfterInit
      /\ UNCHANGED <<opened, buf, up, req>>
      /\ UNCHANGED <<chans, agg, sep, mrg, mode>>
  BY DEF InitAnswered, memory, disk
<1>2. pc' \in {"read", "send"} /\ (pc' = "read" => pc = "init")
  BY <1>1 DEF AfterInit
<1>3. FilesRight' /\ PendingAt' /\ HandlerAt'
  BY <1>1, AggregatorStill
<1>4. pc = "init again" => up = {}
  BY DEF ProtocolInv, OneConnection
<1>5. buf.lo \in Nat /\ buf.hi \in Nat
  BY DEF ProtocolInv, TypeOK, FollowerType
<1>6. up # {} => ~(buf.lo < buf.hi)
  <2>1. up # {} => buf.lo >= buf.hi
    BY <1>1, <1>4 DEF MergeInv, Buffered
  <2>2. QED
    BY <1>5, <2>1
<1>7. Buffered'
  <2>1. opened' /\ pc' # "init"
    BY <1>1, <1>2 DEF ProtocolInv, Control
  <2>2. up' = up /\ buf' = buf
    BY <1>1
  <2>3. QED
    BY <1>6, <2>1, <2>2 DEF Buffered
<1>8. FollowerAt'
  <2> SUFFICES ASSUME NEW c \in up
               PROVE  ReadAt(c)' /\ pc' = "read"
    BY <1>1 DEF FollowerAt, SendAt, InitAt, DataAt
  <2>1. pc = "init" /\ c = sock
    BY <1>1, <1>4, LiveConnection
  <2>2. PICK k : k = Head(resp[c]).pos
    OBVIOUS
  <2>3. At(c, k)
    BY <1>1, <2>1, <2>2, ResumeAt
  <2>4. At(c, k)'
    BY <1>1, <2>3, AtSame
  <2>5. Unread' = k
    BY <1>1, <1>6, <2>1, <2>2 DEF Unread
  <2>6. At(c, Unread)'
    BY <2>4, <2>5 DEF At, Follows, Holds, Covers
  <2>7. QED
    BY <1>1, <2>1, <2>6 DEF ReadAt, AfterInit
<1>9. QED
  BY <1>3, <1>7, <1>8 DEF MergeInv

LEMMA HashInvalidMerge ==
    ASSUME ProtocolInv, MergeInv, HashInvalid
    PROVE  MergeInv'
<1>1. /\ pc' = "exited" /\ up' = up \ {sock}
      /\ pc \in {"init", "init again"}
      /\ UNCHANGED <<opened, fpos, buf, req>>
      /\ UNCHANGED <<chans, agg, sep, mrg, mode>>
  BY DEF HashInvalid, memory, disk
<1>2. up' = {}
  BY <1>1 DEF ProtocolInv, OneConnection
<1>3. FilesRight' /\ PendingAt' /\ HandlerAt'
  BY <1>1, AggregatorStill
<1>4. Buffered'
  BY <1>1, <1>2 DEF MergeInv, Buffered
<1>5. FollowerAt'
  BY <1>1, NothingToSay
<1>6. QED
  BY <1>3, <1>4, <1>5 DEF MergeInv

(* An answer that does not come means that the connection is dead. *)
LEMMA FailsMerge ==
    ASSUME ProtocolInv, MergeInv, InitFails \/ DataFails
    PROVE  MergeInv'
<1>1. /\ UNCHANGED <<opened, fpos, buf, up, req>>
      /\ UNCHANGED <<chans, agg, sep, mrg, mode>>
      /\ pc' \in {"read", "send", "reconnect"}
      /\ sock \notin up
  BY DEF InitFails, DataFails, ReceiveFails, AfterInit, network, memory, disk
<1>2. up = {}
  BY <1>1, LiveConnection
<1>3. FilesRight' /\ PendingAt' /\ HandlerAt'
  BY <1>1, AggregatorStill
<1>4. Buffered'
  BY <1>1, <1>2 DEF MergeInv, Buffered
<1>5. FollowerAt'
  BY <1>1, <1>2, NothingToSay
<1>6. QED
  BY <1>3, <1>4, <1>5 DEF MergeInv

LEMMA NothingToReadMerge ==
    ASSUME ProtocolInv, MergeInv, NothingToRead
    PROVE  MergeInv'
<1>1. /\ UNCHANGED <<opened, fpos, buf, msgbuf, up, req, resp>>
      /\ UNCHANGED <<chans, agg, sep, mrg, mode>>
      /\ pc = "read" /\ pc' = "run"
  BY DEF NothingToRead, network, memory, disk
<1>2. FilesRight' /\ PendingAt' /\ HandlerAt'
  BY <1>1, AggregatorStill
<1>3. Buffered'
  BY <1>1 DEF MergeInv, Buffered
<1>4. Merged' = Merged /\ (Merging' = Merging) /\ Unread' = Unread
  BY <1>1, MergingKept DEF Merged, Unread
<1>5. FollowerAt'
  BY <1>1, <1>4 DEF MergeInv, FollowerAt, ReadAt, SendAt, InitAt, DataAt, At,
                Follows, Holds, Covers
<1>6. QED
  BY <1>2, <1>3, <1>5 DEF MergeInv

(* The piece read is the next one, and text of one line. *)
LEMMA ReadLinePiece ==
    ASSUME ProtocolInv, MergeInv, ReadLine
    PROVE  /\ up # {} => Unread = msgbuf'.lo
           /\ LinePiece(msgbuf')
           /\ up # {} => Unread' = msgbuf'.hi
           /\ up # {} /\ buf'.lo < buf'.hi => fpos' = buf'.hi
<1>1. TypeOK /\ Buffered
  BY DEF ProtocolInv, MergeInv
<1>2. buf \in [lo : Nat, hi : Nat] /\ fpos \in Nat
  BY <1>1 DEF TypeOK, FollowerType
<1>3. Fetched \in [lo : Nat, hi : Nat]
  BY <1>1, FetchedType
<1> DEFINE f == Fetched
<1>4. f.lo = Unread
  BY DEF Fetched, Unread
<1>5. fpos' = IF buf.lo < buf.hi THEN fpos ELSE f.hi
  BY DEF ReadLine
<1>6. up # {} => fpos' = f.hi
  BY <1>1, <1>5 DEF Fetched, Buffered
<1>7. PICK e \in (f.lo + 1)..f.hi :
          /\ EndsPiece(e, f.lo, f.hi)
          /\ buf' = [f EXCEPT !.lo = e]
          /\ msgbuf' = [code |-> "DATA", channel |-> chan,
                        lo |-> f.lo, hi |-> e, eol |-> e \in LineEnds]
  BY DEF ReadLine
<1> HIDE DEF f
<1>8. f \in [lo : Nat, hi : Nat]
  BY <1>3 DEF f
<1>9. e \in Nat /\ f.lo \in Nat /\ f.hi \in Nat /\ f.lo < e /\ e <= f.hi
  BY <1>8
<1>10. buf' \in [lo : Nat, hi : Nat] /\ buf'.lo = e /\ buf'.hi = f.hi
  BY <1>7, <1>8, <1>9
<1>11. msgbuf'.lo = f.lo /\ msgbuf'.hi = e /\ msgbuf'.eol = (e \in LineEnds)
  BY <1>7
<1>12. Unbroken(f.lo, e - 1)
  <2>1. \A k \in (f.lo + 1)..(e - 1) : k \notin LineEnds
    BY <1>7 DEF EndsPiece
  <2>2. QED
    BY <1>9, <2>1 DEF Unbroken
<1>13. LinePiece(msgbuf')
  BY <1>9, <1>11, <1>12 DEF LinePiece
<1>14. up # {} => Unread' = e
  <2>1. Unread' = IF buf'.lo < buf'.hi THEN buf'.lo ELSE fpos'
    BY DEF Unread
  <2>2. QED
    BY <1>6, <1>9, <1>10, <2>1
<1>15. QED
  BY <1>4, <1>6, <1>10, <1>11, <1>13, <1>14

LEMMA ReadLineMerge ==
    ASSUME ProtocolInv, MergeInv, ReadLine
    PROVE  MergeInv'
<1>1. /\ AtRead
      /\ UNCHANGED <<opened, chan, up, resp>>
      /\ UNCHANGED <<chans, agg, sep, mrg, mode>>
  BY DEF ReadLine, memory, disk
<1>2. \/ chan # 0 /\ pc' = "send" /\ UNCHANGED <<sock, req>>
      \/ chan = 0 /\ SendSucceeds(InitMessage) /\ pc' = "init again"
      \/ chan = 0 /\ SendFails /\ pc' = "send"
  BY DEF ReadLine
<1>3. pc \in {"read", "run"} /\ opened /\ (pc = "run" => opened)
  BY <1>1 DEF AtRead, ProtocolInv, Control
<1>4. \A c \in up : Quiet(c) /\ chan # 0
  BY <1>3 DEF ProtocolInv, LiveControl
<1>5. FilesRight' /\ PendingAt' /\ HandlerAt'
  <2>1. CASE UNCHANGED req
    BY <1>1, <2>1, AggregatorStill
  <2>2. CASE SendSucceeds(InitMessage)
    <3>1. InitMessage \in Request /\ InitMessage.code # "DATA"
      BY DEF InitMessage, Request
    <3>2. QED
      BY <1>1, <1>4, <2>2, <3>1, SentRight
  <2>3. QED
    BY <1>2, <2>1, <2>2 DEF SendFails
<1>6. Buffered'
  <2>1. opened' /\ pc' # "init" /\ up' = up
    BY <1>1, <1>2, <1>3
  <2>2. QED
    BY <2>1, ReadLinePiece DEF Buffered
<1>7. FollowerAt'
  <2> SUFFICES ASSUME NEW c \in up
               PROVE  SendAt(c)' /\ pc' = "send"
    BY <1>1 DEF FollowerAt, ReadAt, InitAt, DataAt
  <2>1. pc' = "send"
    BY <1>2, <1>4
  <2>2. At(c, Unread)
    BY <1>3 DEF MergeInv, FollowerAt, ReadAt
  <2>3. PICK k : k = Unread
    OBVIOUS
  <2>4. At(c, k)'
    BY <1>1, <2>2, <2>3, AtSame
  <2>5. msgbuf'.lo = k /\ LinePiece(msgbuf') /\ msgbuf'.hi = Unread'
    BY <2>3, ReadLinePiece
  <2>6. At(c, msgbuf.lo)'
    BY <2>4, <2>5 DEF At, Follows, Holds, Covers
  <2>7. LinePiece(msgbuf)'
    BY <2>5 DEF LinePiece, Unbroken
  <2>8. QED
    BY <2>1, <2>5, <2>6, <2>7 DEF SendAt
<1>8. QED
  BY <1>5, <1>6, <1>7 DEF MergeInv

LEMMA SendDataMerge ==
    ASSUME ProtocolInv, MergeInv, SendData
    PROVE  MergeInv'
<1> DEFINE m == [msgbuf EXCEPT !.channel = chan]
<1>1. /\ pc = "send"
      /\ msgbuf' = m
      /\ UNCHANGED <<opened, fpos, buf, chan, up, resp>>
      /\ UNCHANGED <<chans, agg, sep, mrg, mode>>
  BY DEF SendData, memory, disk
<1>2. \/ SendSucceeds(m) /\ pc' = "data"
      \/ SendFails /\ pc' = "reconnect"
  BY DEF SendData
<1>3. msgbuf \in Request /\ opened /\ chan \in Nat
  BY <1>1 DEF ProtocolInv, Control, TypeOK, FollowerType
<1>4. m \in Request /\ m.lo = msgbuf.lo /\ m.hi = msgbuf.hi /\ m.eol = msgbuf.eol
  BY <1>3 DEF Request
<1> HIDE DEF m
<1>5. \A c \in up : Quiet(c) /\ SendAt(c)
  BY <1>1 DEF ProtocolInv, LiveControl, MergeInv, FollowerAt
<1>6. \A c \in up : LinePiece(m) /\ At(c, m.lo) /\ m.hi = Unread
  BY <1>1, <1>4, <1>5 DEF SendAt, LinePiece
<1>7. Buffered'
  BY <1>1, <1>2, <1>3 DEF MergeInv, Buffered
<1>8. CASE SendSucceeds(m) /\ pc' = "data"
  <2>1. FilesRight' /\ PendingAt' /\ HandlerAt'
    BY <1>1, <1>4, <1>5, <1>6, <1>8, SentRight
  <2>2. FollowerAt'
    <3> SUFFICES ASSUME NEW c \in up
                 PROVE  DataAt(c)'
      BY <1>1, <1>8 DEF FollowerAt, ReadAt, SendAt, InitAt
    <3>1. m.hi = Unread' /\ Quiet(c)
      BY <1>1, <1>5, <1>6 DEF Unread
    <3>2. req'[c] # << >> => Head(req'[c]) = m
      <4>1. TypeOK /\ OneConnection /\ c \in Conn
        BY LiveConnection DEF ProtocolInv
      <4>2. req[c] = << >>
        BY <3>1 DEF Quiet
      <4>3. \/ req'[c] = req[c]
            \/ Head(req'[c]) = m
        BY <1>4, <1>5, <1>8, <4>1, SendEffect
      <4>4. QED
        BY <4>2, <4>3
    <3>3. QED
      BY <1>1, <3>1, <3>2 DEF DataAt, Quiet, Busy
  <2>3. QED
    BY <1>7, <2>1, <2>2 DEF MergeInv
<1>9. CASE SendFails /\ pc' = "reconnect"
  <2>1. req' = req
    BY <1>9 DEF SendFails
  <2>2. FilesRight' /\ PendingAt' /\ HandlerAt'
    BY <1>1, <2>1, AggregatorStill
  <2>3. FollowerAt'
    BY <1>9, NothingToSay
  <2>4. QED
    BY <1>7, <2>2, <2>3 DEF MergeInv
<1>10. QED
  BY <1>2, <1>8, <1>9

LEMMA DataAnsweredMerge ==
    ASSUME ProtocolInv, MergeInv, DataAnswered
    PROVE  MergeInv'
<1>1. /\ pc = "data" /\ sock # 0 /\ resp[sock] # << >>
      /\ pc' = "run"
      /\ UNCHANGED <<opened, fpos, buf, chan, up, req>>
      /\ UNCHANGED <<chans, agg, sep, mrg, mode>>
  BY DEF DataAnswered, memory, disk
<1>2. FilesRight' /\ PendingAt' /\ HandlerAt'
  BY <1>1, AggregatorStill
<1>3. Buffered'
  <2>1. opened' /\ pc' # "init"
    BY <1>1 DEF ProtocolInv, Control
  <2>2. up' = up /\ buf' = buf /\ fpos' = fpos
    BY <1>1
  <2>3. QED
    BY <2>1, <2>2 DEF MergeInv, Buffered
<1>4. FollowerAt'
  <2> SUFFICES ASSUME NEW c \in up
               PROVE  At(c, Unread)'
    BY <1>1 DEF FollowerAt, ReadAt, SendAt, InitAt, DataAt
  <2>1. c = sock
    BY LiveConnection
  <2>2. DataAt(c)
    BY DEF MergeInv, FollowerAt
  <2>3. PICK k : k = Unread
    OBVIOUS
  <2>4. At(c, k)
    BY <1>1, <2>1, <2>2, <2>3 DEF DataAt
  <2>5. At(c, k)' /\ Unread' = k
    BY <1>1, <2>3, <2>4, AtSame DEF Unread
  <2>6. QED
    BY <2>5 DEF At, Follows, Holds, Covers
<1>5. QED
  BY <1>2, <1>3, <1>4 DEF MergeInv

----------------------------------------------------------------------------
(* The invariant survives each step of the aggregator. *)

(* What the step does not touch stays right for a live connection. *)
LEMMA LiveKept ==
    ASSUME ProtocolInv, MergeInv, NEW c \in up,
           UNCHANGED <<pc, opened, fpos, buf, msgbuf>>,
           mode' = mode, Merging => Merged \subseteq Merged',
           HasChannel(c) => chans'[c] = chans[c] /\ (InOrder => sep' = sep),
           req'[c] = req[c], resp'[c] = resp[c],
           Busy(c)' => Busy(c) /\ agg'.msg = agg.msg
    PROVE  ReadAt(c)' /\ SendAt(c)' /\ InitAt(c)' /\ DataAt(c)'
<1>1. ReadAt(c) /\ SendAt(c) /\ InitAt(c) /\ DataAt(c)
  BY DEF MergeInv, FollowerAt
<1>2. Unread' = Unread
  BY DEF Unread
<1>3. CASE HasChannel(c)
  <2>1. \A n : At(c, n) => At(c, n)'
    BY <1>3, AtKept
  <2>2. PICK k : k = Unread
    OBVIOUS
  <2>3. At(c, k)' => At(c, Unread)'
    BY <1>2, <2>2 DEF At, Follows, Holds, Covers
  <2>4. At(c, Unread) => At(c, Unread)'
    BY <2>1, <2>2, <2>3
  <2>5. PICK l : l = msgbuf.lo
    OBVIOUS
  <2>6. At(c, l)' => At(c, msgbuf.lo)'
    BY <2>5 DEF At, Follows, Holds, Covers
  <2>7. At(c, msgbuf.lo) => At(c, msgbuf.lo)'
    BY <2>1, <2>5, <2>6
  <2>8. LinePiece(msgbuf) => LinePiece(msgbuf)'
    BY DEF LinePiece, Unbroken
  <2>9. ReadAt(c)'
    BY <1>1, <2>4 DEF ReadAt
  <2>10. SendAt(c)'
    BY <1>1, <1>2, <2>7, <2>8 DEF SendAt
  <2>11. InitAt(c)'
    <3>1. Known(Head(resp[c]).hash) => Known(Head(resp[c]).hash)'
      BY MergingKept DEF Known
    <3>2. QED
      BY <1>1, <1>3, <3>1 DEF InitAt
  <2>12. DataAt(c)'
    BY <1>1, <1>2, <2>4 DEF DataAt
  <2>13. QED
    BY <2>9, <2>10, <2>11, <2>12
<1>4. CASE ~HasChannel(c)
  <2>1. /\ pc \notin {"read", "send", "data"}
        /\ ~(pc = "run" /\ opened)
        /\ pc = "init" => resp[c] = << >>
    BY <1>4, LiveChannel
  <2>2. ReadAt(c)' /\ SendAt(c)' /\ DataAt(c)'
    BY <2>1 DEF ReadAt, SendAt, DataAt
  <2>3. InitAt(c)'
    BY <1>1, <2>1 DEF InitAt
  <2>4. QED
    BY <2>2, <2>3
<1>5. QED
  BY <1>3, <1>4

(* The follower waits for the answer to the DATA that is read or worked on. *)
LEMMA WaitsMerge ==
    ASSUME ProtocolInv, MergeInv, NEW c \in up,
           \/ req[c] # << >> /\ Head(req[c]).code = "DATA"
           \/ Busy(c)
    PROVE  /\ pc = "data"
           /\ msgbuf.hi = Unread
           /\ req[c] # << >> => Head(req[c]) = msgbuf
           /\ Busy(c) => agg.msg = msgbuf
<1>1. InitAt(c) /\ DataAt(c)
  BY DEF MergeInv, FollowerAt
<1>2. pc # "init"
  BY <1>1 DEF InitAt
<1>3. pc = "data"
  BY <1>2, LiveChannel
<1>4. QED
  BY <1>1, <1>3 DEF DataAt

(* While a handler works, nobody else has a channel and something to say. *)
LEMMA WorksAlone ==
    ASSUME ProtocolInv, MergeInv, agg.pc # "idle",
           NEW c \in Conn, c # agg.conn, HasChannel(c),
           c \in up \/ req[c] # << >>
    PROVE  ~InOrder
<1> SUFFICES ASSUME InOrder
             PROVE  FALSE
  OBVIOUS
<1>1. NewestSpeaks
  BY DEF MergeInv, FilesRight
<1>2. agg.conn \in Conn /\ HasChannel(agg.conn) /\ Busy(agg.conn)
  BY HandlerAtWork DEF Busy
<1>3. ~(agg.conn < c)
  BY <1>1, <1>2 DEF NewestSpeaks
<1>4. c < agg.conn => req[c] = << >>
  BY <1>1, <1>2 DEF NewestSpeaks
<1>5. c \in up => c = nconn
  BY LiveConnection
<1>6. agg.conn \in 1..nconn /\ nconn \in Nat /\ MaxConn \in Nat
  BY <1>2, ConnTypes DEF ProtocolInv, ChannelOwned, Busy
<1>7. c \in Int /\ agg.conn \in Int
  BY <1>6 DEF Conn
<1>8. c < agg.conn
  BY <1>3, <1>7
<1>9. QED
  BY <1>4, <1>5, <1>6, <1>7, <1>8

(* The follower stands still. *)
LEMMA BufferedSame ==
    ASSUME Buffered, UNCHANGED <<pc, opened, fpos, buf, up>>
    PROVE  Buffered'
BY DEF Buffered

LEMMA AcceptMerge ==
    ASSUME ProtocolInv, MergeInv, NEW d \in Conn, Accept(d) \/ CloseConnection(d)
    PROVE  MergeInv'
<1>1. /\ UNCHANGED <<up, req, resp, agg, sep, mrg, mode>>
      /\ UNCHANGED <<pc, opened, fpos, buf, msgbuf>>
      /\ agg.pc = "idle"
      /\ chans' = [chans EXCEPT ![d] = NoChannel]
      /\ d \notin conns \/ (d \notin up /\ req[d] = << >>)
  BY DEF Accept, CloseConnection, network, disk, follower
<1>2. chans \in [Conn -> Seq(Nat) \union {NoChannel}]
  BY DEF ProtocolInv, TypeOK, MemoryType
<1>3. \A c \in Conn : /\ c # d => chans'[c] = chans[c]
                      /\ HasChannel(c)' => HasChannel(c)
  BY <1>1, <1>2 DEF HasChannel
<1>4. d \notin conns => ~HasChannel(d)
  BY DEF ProtocolInv, ChannelOwned, HasChannel
<1>5. Merged' = Merged
  BY <1>1 DEF Merged
<1>6. FilesRight'
  <2>1. NewestSpeaks => NewestSpeaks'
    BY <1>1, <1>3, FewerSpeak DEF Busy
  <2>2. QED
    BY <1>1, <2>1, FilesSame DEF MergeInv, FilesRight
<1>7. PendingAt'
  <2> SUFFICES ASSUME NEW c \in Conn, req[c] # << >>, Head(req[c]).code = "DATA"
               PROVE  LinePiece(Head(req[c])) /\ At(c, Head(req[c]).lo)'
    BY <1>1 DEF PendingAt, LinePiece, Unbroken
  <2>1. HasChannel(c)
    BY DEF ProtocolInv, RequestsKnown
  <2>2. c # d
    BY <1>1, <1>4, <2>1
  <2>3. chans'[c] = chans[c]
    BY <1>3, <2>2
  <2>4. PICK k : k = Head(req[c]).lo
    OBVIOUS
  <2>5. LinePiece(Head(req[c])) /\ At(c, k)
    BY <2>4 DEF MergeInv, PendingAt
  <2>6. At(c, k)'
    BY <1>1, <1>5, <2>3, <2>5, AtKept
  <2>7. QED
    BY <1>1, <2>4, <2>5, <2>6 DEF At, Follows, Holds, Covers
<1>8. HandlerAt'
  BY <1>1 DEF HandlerAt
<1>9. Buffered'
  BY <1>1, BufferedSame DEF MergeInv
<1>10. FollowerAt'
  <2> SUFFICES ASSUME NEW c \in up
               PROVE  ReadAt(c)' /\ SendAt(c)' /\ InitAt(c)' /\ DataAt(c)'
    BY <1>1 DEF FollowerAt
  <2>1. c \in Conn
    BY LiveConnection
  <2>2. HasChannel(c) => chans'[c] = chans[c]
    BY <1>1, <1>3, <1>4, <2>1
  <2>3. QED
    BY <1>1, <1>5, <2>2, LiveKept DEF Busy
<1>11. QED
  BY <1>6, <1>7, <1>8, <1>9, <1>10 DEF MergeInv

LEMMA HandlerInitMerge ==
    ASSUME ProtocolInv, MergeInv, NEW d \in Conn, HandlerInit(d)
    PROVE  MergeInv'
<1>1. /\ UNCHANGED <<up, agg, sep, mrg, mode>>
      /\ UNCHANGED <<pc, opened, fpos, buf, msgbuf>>
      /\ agg.pc = "idle" /\ req[d] # << >> /\ Head(req[d]).code = "INIT"
      /\ InOrder => \A c \in 1..(d - 1) : req[c] = << >>
      /\ req' = [req EXCEPT ![d] = Tail(@)]
      /\ chans' = [chans EXCEPT ![d] = << >>]
      /\ Answer(d, InitReply(1))
  BY DEF HandlerInit, Receives, disk, follower
<1>2. TypeOK /\ OneMessage
  BY DEF ProtocolInv
<1>3. /\ req' = [req EXCEPT ![d] = << >>]
      /\ resp[d] = << >>
  BY <1>1, <1>2, TakeRequestEffect
<1>4. ~HasChannel(d)
  BY <1>1 DEF ProtocolInv, RequestsKnown
<1>5. /\ chans \in [Conn -> Seq(Nat) \union {NoChannel}]
      /\ req \in [Conn -> Seq(Request)]
  BY <1>2 DEF TypeOK, MemoryType, NetworkType
<1>6. /\ chans'[d] = << >> /\ req'[d] = << >>
      /\ \A c \in Conn : c # d => chans'[c] = chans[c] /\ req'[c] = req[c]
  BY <1>1, <1>3, <1>5
<1>7. /\ \A c \in Conn : c # d => resp'[c] = resp[c]
      /\ resp'[d] # << >> => Head(resp'[d]) = InitReply(1)
  <2>1. InitReply(1) \in Reply
    <3>1. sep \in Seq(Nat) /\ Len(sep) \in Nat
      BY <1>2, LenProperties DEF TypeOK, DiskType
    <3>2. QED
      BY <3>1 DEF InitReply, Reply
  <2>2. QED
    BY <1>1, <1>2, <1>3, <2>1, AnswerEffect
<1>8. Merged' = Merged
  BY <1>1 DEF Merged
<1>9. FilesRight'
  <2>1. InOrder /\ NewestSpeaks => NewestSpeaks'
    <3> SUFFICES ASSUME InOrder, NewestSpeaks, NEW b \in Conn, NEW c \in Conn,
                        b < c, HasChannel(c)'
                 PROVE  req'[b] = << >> /\ ~Busy(b)'
      BY DEF NewestSpeaks
    <3>1. ~Busy(b)'
      BY <1>1 DEF Busy
    <3>2. CASE c = d
      <4>1. b \in 1..(d - 1) /\ b # d
        BY <1>2, <3>2, ConnTypes DEF Conn
      <4>2. QED
        BY <1>1, <1>6, <3>1, <4>1
    <3>3. CASE c # d
      <4>1. HasChannel(c)
        BY <1>6, <3>3 DEF HasChannel
      <4>2. req[b] = << >>
        BY <4>1 DEF NewestSpeaks
      <4>3. QED
        BY <1>6, <3>1, <4>2
    <3>4. QED
      BY <3>2, <3>3
  <2>2. QED
    BY <1>1, <2>1, FilesSame DEF MergeInv, FilesRight
<1>10. PendingAt'
  <2> SUFFICES ASSUME NEW c \in Conn, req'[c] # << >>, Head(req'[c]).code = "DATA"
               PROVE  LinePiece(Head(req'[c])) /\ At(c, Head(req[c]).lo)'
    BY DEF PendingAt, LinePiece, Unbroken
  <2>1. req'[c] = req[c] /\ chans'[c] = chans[c]
    BY <1>6
  <2>2. PICK k : k = Head(req[c]).lo
    OBVIOUS
  <2>3. LinePiece(Head(req[c])) /\ At(c, k)
    BY <2>1, <2>2 DEF MergeInv, PendingAt
  <2>4. At(c, k)'
    BY <1>1, <1>8, <2>1, <2>3, AtKept
  <2>5. QED
    BY <2>1, <2>2, <2>3, <2>4 DEF At, Follows, Holds, Covers
<1>11. HandlerAt'
  BY <1>1 DEF HandlerAt
<1>12. Buffered'
  BY <1>1, BufferedSame DEF MergeInv
<1>13. FollowerAt'
  <2> SUFFICES ASSUME NEW c \in up
               PROVE  ReadAt(c)' /\ SendAt(c)' /\ InitAt(c)' /\ DataAt(c)'
    BY <1>1 DEF FollowerAt
  <2>1. c \in Conn
    BY LiveConnection
  <2>2. CASE c # d
    <3>1. chans'[c] = chans[c] /\ req'[c] = req[c] /\ resp'[c] = resp[c]
      BY <1>6, <1>7, <2>1, <2>2
    <3>2. QED
      BY <1>1, <1>8, <3>1, LiveKept DEF Busy
  <2>3. CASE c = d
    <3>1. /\ pc \notin {"read", "send", "data"}
          /\ ~(pc = "run" /\ opened)
      BY <1>4, <2>3, LiveChannel
    <3>2. ReadAt(c)' /\ SendAt(c)' /\ DataAt(c)'
      BY <1>1, <3>1 DEF ReadAt, SendAt, DataAt
    <3>3. InitReply(1).hash = sep
      BY DEF InitReply
    <3>4. Known(sep)'
      BY <1>9 DEF FilesRight
    <3>5. ~Busy(c)'
      BY <1>1 DEF Busy
    <3>6. resp'[c] # << >> => Head(resp'[c]).hash = sep /\ sep' = sep
      BY <1>1, <1>7, <2>3, <3>3
    <3>7. resp'[c] # << >> => Known(Head(resp[c]).hash)'
      BY <3>4, <3>6 DEF Known
    <3>8. InitAt(c)'
      BY <1>6, <2>3, <3>5, <3>6, <3>7 DEF InitAt
    <3>9. QED
      BY <3>2, <3>8
  <2>4. QED
    BY <2>2, <2>3
<1>14. QED
  BY <1>9, <1>10, <1>11, <1>12, <1>13 DEF MergeInv

LEMMA JoinAssociative ==
    ASSUME NEW s \in Seq(Nat), NEW t \in Seq(Nat), NEW u \in Seq(Nat)
    PROVE  (s \o t) \o u = s \o (t \o u)
  BY ConcatAssociative, SMTT(30)

(* Text that continues the channel's buffer. *)
LEMMA PieceHeld ==
    ASSUME TypeOK, NEW d \in Conn, HasChannel(d),
           NEW m \in Request, LinePiece(m), ~m.eol, At(d, m.lo),
           chans'[d] = chans[d] \o Iota(m.lo, m.hi),
           UNCHANGED <<sep, mrg, mode>>
    PROVE  At(d, m.hi)'
<1> DEFINE a == m.lo
           b == m.hi
           s == chans[d]
<1>1. a \in Nat /\ b \in Nat
  BY DEF Request
<1>2. a < b
  BY DEF LinePiece
<1>3. s \in Seq(Nat) /\ sep \in Seq(Nat) /\ Iota(a, b) \in Seq(Nat)
  BY <1>1, ChannelText, IotaType DEF TypeOK, DiskType
<1>4. Merged' = Merged /\ (Merging' = Merging)
  BY MergingKept DEF Merged
<1>5. Follows(d, a) /\ Holds(d, a) /\ Covers(d, a)
  BY DEF At
<1>6. Merging => LineHeld(s, a)
  BY <1>5 DEF Holds
<1>7. Merging => LineHeld(s \o Iota(a, b), b)
  BY <1>6, LineGrows
<1> HIDE DEF a, b, s
<1>8. chans'[d] = s \o Iota(a, b)
  BY DEF s, a, b
<1>9. InOrder => Ascends(sep' \o chans'[d], b)
  <2> SUFFICES ASSUME InOrder
               PROVE  Ascends(sep \o (s \o Iota(a, b)), b)
    BY <1>8
  <2>1. Ascends(sep \o s, a)
    BY <1>5 DEF Follows, s
  <2>2. sep \o s \in Seq(Nat) /\ a <= b
    BY <1>1, <1>2, <1>3, ConcatProperties
  <2>3. Ascends((sep \o s) \o Iota(a, b), b)
    BY <1>1, <2>1, <2>2, AscendsExtend
  <2>4. (sep \o s) \o Iota(a, b) = sep \o (s \o Iota(a, b))
    BY <1>3, JoinAssociative
  <2>5. QED
    BY <2>3, <2>4
<1>10. Merging => 1..b \subseteq Merged \union Range(chans'[d])
  <2> SUFFICES ASSUME Merging, NEW x \in 1..b, x \notin Merged
               PROVE  x \in Range(s \o Iota(a, b))
    BY <1>8
  <2>1. Range(s \o Iota(a, b)) = Range(s) \union ((a + 1)..b)
    <3>1. Range(s \o Iota(a, b)) = Range(s) \union Range(Iota(a, b))
      BY <1>3, RangeConcat
    <3>2. Range(Iota(a, b)) = (a + 1)..b
      BY <1>1, RangeIota
    <3>3. QED
      BY <3>1, <3>2
  <2>2. 1..a \subseteq Merged \union Range(s)
    BY <1>5 DEF Covers, s
  <2>3. x \in 1..a \/ x \in (a + 1)..b
    BY <1>1
  <2>4. QED
    BY <2>1, <2>2, <2>3
<1>11. Follows(d, m.hi)'
  BY <1>9 DEF Follows, b
<1>12. Holds(d, m.hi)'
  BY <1>4, <1>7, <1>8 DEF Holds, b
<1>13. Covers(d, m.hi)'
  BY <1>4, <1>10 DEF Covers, b
<1>14. QED
  BY <1>11, <1>12, <1>13 DEF At

LEMMA HandlerDataPartMerge ==
    ASSUME ProtocolInv, MergeInv, NEW d \in Conn, HandlerDataPart(d)
    PROVE  MergeInv'
<1> DEFINE m == Head(req[d])
           s == chans[d] \o Iota(m.lo, m.hi)
<1>1. /\ UNCHANGED <<up, agg, sep, mrg, mode>>
      /\ UNCHANGED <<pc, opened, fpos, buf, msgbuf>>
      /\ agg.pc = "idle" /\ req[d] # << >> /\ m.code = "DATA" /\ ~m.eol
      /\ req' = [req EXCEPT ![d] = Tail(@)]
      /\ chans' = [chans EXCEPT ![d] = s]
      /\ Answer(d, DataReply(m.channel))
  BY DEF HandlerDataPart, Receives, disk, follower
<1>2. TypeOK /\ OneMessage
  BY DEF ProtocolInv
<1>3. /\ req' = [req EXCEPT ![d] = << >>]
      /\ resp[d] = << >>
      /\ m \in Request
  BY <1>1, <1>2, TakeRequestEffect
<1>4. HasChannel(d)
  BY <1>1 DEF ProtocolInv, RequestsKnown
<1>5. LinePiece(m) /\ At(d, m.lo)
  BY <1>1 DEF MergeInv, PendingAt
<1>6. m.lo \in Nat /\ m.hi \in Nat /\ m.channel \in Nat
  BY <1>3 DEF Request
<1>7. /\ chans \in [Conn -> Seq(Nat) \union {NoChannel}]
      /\ req \in [Conn -> Seq(Request)]
  BY <1>2 DEF TypeOK, MemoryType, NetworkType
<1>8. /\ chans'[d] = s /\ req'[d] = << >>
      /\ \A c \in Conn : c # d => chans'[c] = chans[c] /\ req'[c] = req[c]
  BY <1>1, <1>3, <1>7
<1>9. PICK k : k = m
  OBVIOUS
<1>10. At(d, k.hi)'
  <2>1. chans'[d] = chans[d] \o Iota(k.lo, k.hi)
    BY <1>8, <1>9
  <2>2. k \in Request /\ LinePiece(k) /\ ~k.eol /\ At(d, k.lo)
    BY <1>1, <1>3, <1>5, <1>9
  <2> HIDE DEF m, s
  <2>3. QED
    BY <1>1, <1>2, <1>4, <2>1, <2>2, PieceHeld
<1> HIDE DEF m, s
<1>11. \A c \in Conn : c # d => resp'[c] = resp[c]
  <2>1. DataReply(m.channel) \in Reply
    BY <1>6, EmptySeq DEF DataReply, Reply
  <2>2. QED
    BY <1>1, <1>2, <1>3, <2>1, AnswerEffect
<1>12. Merged' = Merged
  BY <1>1 DEF Merged
<1>13. FilesRight'
  <2>1. NewestSpeaks => NewestSpeaks'
    <3>1. \A c \in Conn : HasChannel(c)' => HasChannel(c)
      BY <1>4, <1>8 DEF HasChannel
    <3>2. \A c \in Conn : req'[c] # << >> \/ Busy(c)' => req[c] # << >> \/ Busy(c)
      BY <1>1, <1>8 DEF Busy
    <3>3. QED
      BY <3>1, <3>2, FewerSpeak
  <2>2. QED
    BY <1>1, <2>1, FilesSame DEF MergeInv, FilesRight
<1>14. PendingAt'
  <2> SUFFICES ASSUME NEW c \in Conn, req'[c] # << >>, Head(req'[c]).code = "DATA"
               PROVE  LinePiece(Head(req'[c])) /\ At(c, Head(req[c]).lo)'
    BY DEF PendingAt, LinePiece, Unbroken
  <2>1. req'[c] = req[c] /\ chans'[c] = chans[c]
    BY <1>8
  <2>2. PICK l : l = Head(req[c]).lo
    OBVIOUS
  <2>3. LinePiece(Head(req[c])) /\ At(c, l)
    BY <2>1, <2>2 DEF MergeInv, PendingAt
  <2>4. At(c, l)'
    BY <1>1, <1>12, <2>1, <2>3, AtKept
  <2>5. QED
    BY <2>1, <2>2, <2>3, <2>4 DEF At, Follows, Holds, Covers
<1>15. HandlerAt'
  BY <1>1 DEF HandlerAt
<1>16. Buffered'
  BY <1>1, BufferedSame DEF MergeInv
<1>17. FollowerAt'
  <2> SUFFICES ASSUME NEW c \in up
               PROVE  ReadAt(c)' /\ SendAt(c)' /\ InitAt(c)' /\ DataAt(c)'
    BY <1>1 DEF FollowerAt
  <2>1. c \in Conn
    BY LiveConnection
  <2>2. CASE c # d
    <3>1. chans'[c] = chans[c] /\ req'[c] = req[c] /\ resp'[c] = resp[c]
      BY <1>8, <1>11, <2>1, <2>2
    <3>2. QED
      BY <1>1, <1>12, <3>1, LiveKept DEF Busy
  <2>3. CASE c = d
    <3>1. pc = "data" /\ msgbuf.hi = Unread /\ m = msgbuf
      BY <1>1, <2>3, WaitsMerge DEF m
    <3>2. Unread' = k.hi
      BY <1>1, <1>9, <3>1 DEF Unread, m
    <3>3. At(c, Unread)'
      BY <1>10, <2>3, <3>2 DEF At, Follows, Holds, Covers
    <3>4. ~Busy(c)' /\ req'[c] = << >> /\ msgbuf'.hi = Unread'
      BY <1>1, <1>8, <2>3, <3>1 DEF Busy, Unread
    <3>5. DataAt(c)'
      BY <3>3, <3>4 DEF DataAt
    <3>6. QED
      BY <1>1, <3>1, <3>5 DEF ReadAt, SendAt, InitAt
  <2>4. QED
    BY <2>2, <2>3
<1>18. QED
  BY <1>13, <1>14, <1>15, <1>16, <1>17 DEF MergeInv

LEMMA HandlerDataLineMerge ==
    ASSUME ProtocolInv, MergeInv, NEW d \in Conn, HandlerDataLine(d)
    PROVE  MergeInv'
<1> DEFINE m == Head(req[d])
<1>1. /\ UNCHANGED <<up, resp, chans, sep, mrg, mode>>
      /\ UNCHANGED <<pc, opened, fpos, buf, msgbuf>>
      /\ agg.pc = "idle" /\ req[d] # << >> /\ m.code = "DATA" /\ m.eol
      /\ req' = [req EXCEPT ![d] = Tail(@)]
      /\ agg' = [pc |-> IF FMerge THEN "merge buffer" ELSE "append buffer",
                 conn |-> d, msg |-> m]
  BY DEF HandlerDataLine, Receives, disk, follower
<1>2. TypeOK /\ OneMessage
  BY DEF ProtocolInv
<1>3. req' = [req EXCEPT ![d] = << >>]
  BY <1>1, <1>2, TakeRequestEffect
<1>4. req \in [Conn -> Seq(Request)]
  BY <1>2 DEF TypeOK, NetworkType
<1>5. /\ req'[d] = << >>
      /\ \A c \in Conn : c # d => req'[c] = req[c]
  BY <1>3, <1>4
<1>6. LinePiece(m) /\ At(d, m.lo)
  BY <1>1 DEF MergeInv, PendingAt
<1>7. /\ agg'.pc = IF FMerge THEN "merge buffer" ELSE "append buffer"
      /\ agg'.conn = d /\ agg'.msg = m
  BY <1>1
<1>8. FilesRight'
  <2>1. NewestSpeaks => NewestSpeaks'
    <3> SUFFICES ASSUME NewestSpeaks, NEW b \in Conn, NEW c \in Conn, b < c,
                        HasChannel(c)'
                 PROVE  req'[b] = << >> /\ ~Busy(b)'
      BY DEF NewestSpeaks
    <3>1. req[b] = << >>
      BY <1>1 DEF NewestSpeaks, HasChannel
    <3>2. b # d
      BY <1>1, <3>1
    <3>3. QED
      BY <1>5, <1>7, <3>1, <3>2 DEF Busy
  <2>2. QED
    BY <1>1, <2>1, FilesSame DEF MergeInv, FilesRight
<1>9. PendingAt'
  <2>1. \A c \in Conn : req'[c] # << >> => req'[c] = req[c]
    BY <1>5
  <2>2. QED
    BY <1>1, <2>1, PendingSame DEF MergeInv
<1>10. HandlerAt'
  <2>1. PICK k : k = m
    OBVIOUS
  <2>2. LinePiece(k) /\ k.eol /\ At(d, k.lo)
    BY <1>1, <1>6, <2>1
  <2>3. At(d, k.lo)'
    BY <1>1, <2>2, AtSame
  <2>4. agg'.conn = d /\ agg'.msg = k
    BY <1>7, <2>1
  <2> HIDE DEF m
  <2>5. (Merging' => FMerge) /\ (FMerge' = FMerge)
    BY <1>1, MergingKept DEF Merging
  <2>6. CASE FMerge
    <3>1. agg'.pc = "merge buffer"
      BY <1>7, <2>6
    <3>2. QED
      BY <2>2, <2>3, <2>4, <2>5, <2>6, <3>1
         DEF HandlerAt, At, Follows, Holds, Covers, LinePiece, Unbroken
  <2>7. CASE ~FMerge
    <3>1. agg'.pc = "append buffer"
      BY <1>7, <2>7
    <3>2. QED
      BY <2>2, <2>3, <2>4, <2>5, <2>7, <3>1
         DEF HandlerAt, AppendAt, At, Follows, LinePiece, Unbroken
  <2>8. QED
    BY <2>6, <2>7
<1>11. Buffered'
  BY <1>1, BufferedSame DEF MergeInv
<1>12. FollowerAt'
  <2> SUFFICES ASSUME NEW c \in up
               PROVE  ReadAt(c)' /\ SendAt(c)' /\ InitAt(c)' /\ DataAt(c)'
    BY <1>1 DEF FollowerAt
  <2>1. c \in Conn
    BY LiveConnection
  <2>2. CASE c # d
    <3>1. req'[c] = req[c] /\ ~Busy(c)'
      BY <1>5, <1>7, <2>1, <2>2 DEF Busy
    <3>2. Merged' = Merged
      BY <1>1 DEF Merged
    <3>3. QED
      BY <1>1, <3>1, <3>2, LiveKept
  <2>3. CASE c = d
    <3>1. pc = "data" /\ msgbuf.hi = Unread /\ m = msgbuf
      BY <1>1, <2>3, WaitsMerge
    <3>2. Unread' = Unread
      BY <1>1 DEF Unread
    <3>3. resp'[c] = << >>
      BY <1>1, <2>1, <2>3 DEF ProtocolInv, OneMessage
    <3>4. agg'.msg = m
      BY <1>7
    <3> HIDE DEF m
    <3>5. DataAt(c)'
      BY <1>1, <1>5, <2>3, <3>1, <3>2, <3>3, <3>4 DEF DataAt
    <3>6. QED
      BY <1>1, <3>1, <3>5 DEF ReadAt, SendAt, InitAt
  <2>4. QED
    BY <2>2, <2>3
<1>13. QED
  BY <1>8, <1>9, <1>10, <1>11, <1>12 DEF MergeInv

(* What every write of a handler leaves as it was. *)
LEMMA WorkKeeps ==
    ASSUME ProtocolInv, MergeInv, agg.pc # "idle",
           UNCHANGED <<pc, opened, fpos, buf, msgbuf>>,
           UNCHANGED <<up, req, resp, mode>>,
           agg'.conn = agg.conn, agg'.msg = agg.msg,
           Merging => Merged \subseteq Merged',
           \A c \in Conn : c # agg.conn => chans'[c] = chans[c]
    PROVE  /\ NewestSpeaks => NewestSpeaks'
           /\ PendingAt'
           /\ Buffered'
           /\ FollowerAt'
<1> DEFINE d == agg.conn
<1>1. d \in Conn /\ HasChannel(d) /\ Busy(d)
  BY HandlerAtWork DEF Busy
<1>2. req[d] = << >> /\ resp[d] = << >>
  BY HandlerAtWork
<1>3. NewestSpeaks => NewestSpeaks'
  <2>1. \A c \in Conn : HasChannel(c)' => HasChannel(c)
    BY <1>1 DEF HasChannel
  <2>2. \A c \in Conn : Busy(c)' => Busy(c)
    BY DEF Busy
  <2>3. QED
    BY <2>1, <2>2, FewerSpeak
<1>4. PendingAt'
  <2> SUFFICES ASSUME NEW c \in Conn, req[c] # << >>, Head(req[c]).code = "DATA"
               PROVE  LinePiece(Head(req[c])) /\ At(c, Head(req[c]).lo)'
    BY DEF PendingAt, LinePiece, Unbroken
  <2>1. c # d /\ HasChannel(c)
    BY <1>2 DEF ProtocolInv, RequestsKnown
  <2>2. ~InOrder /\ chans'[c] = chans[c]
    BY <2>1, WorksAlone
  <2>3. PICK k : k = Head(req[c]).lo
    OBVIOUS
  <2>4. LinePiece(Head(req[c])) /\ At(c, k)
    BY <2>3 DEF MergeInv, PendingAt
  <2>5. At(c, k)'
    BY <2>2, <2>4, AtKept
  <2>6. QED
    BY <2>3, <2>4, <2>5 DEF At, Follows, Holds, Covers
<1>5. Buffered'
  BY BufferedSame DEF MergeInv
<1>6. FollowerAt'
  <2> SUFFICES ASSUME NEW c \in up
               PROVE  ReadAt(c)' /\ SendAt(c)' /\ InitAt(c)' /\ DataAt(c)'
    BY DEF FollowerAt
  <2>1. c \in Conn
    BY LiveConnection
  <2>2. CASE c # d
    <3>1. HasChannel(c) => ~InOrder
      BY <2>1, <2>2, WorksAlone
    <3>2. ~Busy(c)' /\ chans'[c] = chans[c]
      BY <2>1, <2>2 DEF Busy
    <3>3. QED
      BY <3>1, <3>2, LiveKept
  <2>3. CASE c = d
    <3>1. pc = "data" /\ msgbuf.hi = Unread /\ agg.msg = msgbuf
      BY <1>1, <2>3, WaitsMerge
    <3>2. Unread' = Unread
      BY DEF Unread
    <3>3. DataAt(c)'
      BY <1>2, <2>3, <3>1, <3>2 DEF DataAt
    <3>4. QED
      BY <3>1, <3>3 DEF ReadAt, SendAt, InitAt
  <2>4. QED
    BY <2>2, <2>3
<1>7. QED
  BY <1>3, <1>4, <1>5, <1>6

LEMMA FollowsMore ==
    ASSUME TypeOK, NEW d \in Conn, HasChannel(d), NEW a \in Nat, NEW b \in Nat,
           a <= b, Follows(d, a)
    PROVE  Follows(d, b)
<1>1. sep \in Seq(Nat) /\ chans[d] \in Seq(Nat)
  BY ChannelText DEF TypeOK, DiskType
<1>2. sep \o chans[d] \in Seq(Nat)
  BY <1>1, ConcatProperties
<1>3. QED
  BY <1>2, AscendsMore DEF Follows

(* The message the handler works on. *)
LEMMA WorkedPiece ==
    ASSUME ProtocolInv, MergeInv, agg.pc # "idle"
    PROVE  /\ TypeOK /\ agg.conn \in Conn /\ HasChannel(agg.conn)
           /\ chans[agg.conn] \in Seq(Nat)
           /\ agg.msg \in Request /\ agg.msg.lo \in Nat /\ agg.msg.hi \in Nat
           /\ agg.msg.lo < agg.msg.hi
           /\ LinePiece(agg.msg) /\ agg.msg.eol
           /\ Text = Iota(agg.msg.lo, agg.msg.hi) /\ Text \in Seq(Nat)
           /\ Range(Text) = (agg.msg.lo + 1)..agg.msg.hi
<1>1. TypeOK /\ agg.conn \in Conn /\ HasChannel(agg.conn) /\ agg.msg \in Request
  BY HandlerAtWork DEF ProtocolInv
<1>2. chans[agg.conn] \in Seq(Nat)
  BY <1>1, ChannelText
<1>3. agg.msg.lo \in Nat /\ agg.msg.hi \in Nat
  BY <1>1 DEF Request
<1>4. LinePiece(agg.msg) /\ agg.msg.eol
  BY DEF MergeInv, HandlerAt
<1>5. agg.msg.lo < agg.msg.hi
  BY <1>4 DEF LinePiece
<1>6. Text = Iota(agg.msg.lo, agg.msg.hi)
  BY DEF Text
<1>7. Text \in Seq(Nat) /\ Range(Text) = (agg.msg.lo + 1)..agg.msg.hi
  BY <1>3, <1>6, IotaType, RangeIota
<1>8. QED
  BY <1>1, <1>2, <1>3, <1>4, <1>5, <1>6, <1>7

LEMMA MergeBufferMerge ==
    ASSUME ProtocolInv, MergeInv, MergeBuffer
    PROVE  MergeInv'
<1> DEFINE d == agg.conn
           m == agg.msg
           t == chans[d]
<1>1. /\ agg.pc = "merge buffer"
      /\ UNCHANGED <<pc, opened, fpos, buf, msgbuf>>
      /\ UNCHANGED <<up, req, resp, mode>>
      /\ sep' = sep
      /\ mrg' = Append(mrg, t)
      /\ chans' = [chans EXCEPT ![d] = << >>]
      /\ agg' = [agg EXCEPT !.pc = "merge text"]
  BY DEF MergeBuffer, follower, network
<1>2. /\ TypeOK /\ d \in Conn /\ t \in Seq(Nat)
      /\ m.lo \in Nat /\ LinePiece(m) /\ m.eol
  BY <1>1, WorkedPiece
<1>3. /\ chans'[d] = << >>
      /\ \A c \in Conn : c # d => chans'[c] = chans[c]
  BY <1>1, <1>2 DEF TypeOK, MemoryType
<1>4. agg'.pc = "merge text" /\ agg'.conn = d /\ agg'.msg = m
  BY <1>1, <1>2 DEF TypeOK, MemoryType
<1>5. FMerge /\ At(d, m.lo)
  BY <1>1 DEF MergeInv, HandlerAt
<1>6. /\ Merged' = Merged \union Range(t)
      /\ mrg'[Len(mrg')] = t
      /\ \A i \in DOMAIN mrg' : mrg'[i] = t \/ (i \in DOMAIN mrg /\ mrg'[i] = mrg[i])
  <2>1. mrg \in Seq(Seq(Nat))
    BY <1>2 DEF TypeOK, DiskType
  <2> HIDE DEF t
  <2>2. QED
    BY <1>1, <1>2, <2>1, MergedAppend
<1>7. (Merging' = Merging) /\ (FMerge' = FMerge)
  BY <1>1, MergingKept
<1>8. Merging => LineHeld(t, m.lo)
  BY <1>5 DEF At, Holds
<1>9. Merging => 1..m.lo \subseteq Merged \union Range(t)
  BY <1>5 DEF At, Covers
<1>10. InOrder => Ascends(sep \o << >>, m.lo)
  <2> SUFFICES ASSUME InOrder
               PROVE  Ascends(sep \o << >>, m.lo)
    OBVIOUS
  <2>1. sep \in Seq(Nat) /\ sep \o << >> = sep
    BY <1>2, ConcatEmptySeq DEF TypeOK, DiskType
  <2>2. Ascends(sep \o t, m.lo)
    BY <1>5 DEF At, Follows
  <2> HIDE DEF t, m
  <2>3. Ascends(sep, m.lo)
    BY <1>2, <2>1, <2>2, AscendsPrefix
  <2>4. QED
    BY <2>1, <2>3
<1> HIDE DEF t
<1>11. FilesRight /\ FilesRight'
  <2>1. FilesRight
    BY DEF MergeInv
  <2>2. NewestSpeaks => NewestSpeaks'
    BY <1>1, <1>3, <1>4, <1>6, WorkKeeps
  <2>3. InOrder => NewestSpeaks' /\ SepIncreasing'
    BY <1>1, <2>1, <2>2 DEF FilesRight, SepIncreasing
  <2>4. Merging => MergedRecords'
    <3> SUFFICES ASSUME Merging, NEW i \in DOMAIN mrg'
                 PROVE  OneLine(mrg'[i])
      BY DEF MergedRecords, OneLine
    <3>1. OneLine(t)
      BY <1>2, <1>8, HeldIsOneLine
    <3>2. MergedRecords
      BY <2>1 DEF FilesRight
    <3>3. QED
      BY <1>6, <3>1, <3>2 DEF MergedRecords
  <2>5. Known(sep)'
    BY <1>1, <1>6, <1>7, <2>1 DEF FilesRight, Known
  <2>6. QED
    BY <1>5, <1>7, <2>1, <2>3, <2>4, <2>5 DEF FilesRight
<1>12. HandlerAt'
  <2> SUFFICES /\ LinePiece(m) /\ m.eol
               /\ MergeTextAt'
    BY <1>4 DEF HandlerAt, LinePiece, Unbroken
  <2>1. Follows(agg.conn, agg.msg.lo)'
    BY <1>1, <1>3, <1>4, <1>10 DEF Follows
  <2>2. FMerge'
    BY <1>5, <1>7
  <2>3. Merging' => /\ chans'[agg'.conn] = << >>
                    /\ LineHeld(mrg'[Len(mrg')], agg'.msg.lo)
                    /\ 1..agg'.msg.lo \subseteq Merged'
    BY <1>3, <1>4, <1>6, <1>7, <1>8, <1>9
  <2>4. MergeTextAt'
    BY <2>1, <2>2, <2>3 DEF MergeTextAt
  <2>5. QED
    BY <1>2, <2>4
<1>13. PendingAt' /\ Buffered' /\ FollowerAt'
  BY <1>1, <1>3, <1>4, <1>6, WorkKeeps
<1>14. QED
  BY <1>11, <1>12, <1>13 DEF MergeInv

LEMMA MergeTextMerge ==
    ASSUME ProtocolInv, MergeInv, MergeText
    PROVE  MergeInv'
<1> DEFINE d == agg.conn
           m == agg.msg
           t == mrg[Len(mrg)]
<1>1. /\ agg.pc = "merge text"
      /\ UNCHANGED <<pc, opened, fpos, buf, msgbuf>>
      /\ UNCHANGED <<up, req, resp, mode>>
      /\ UNCHANGED <<sep, chans>>
      /\ mrg' = [mrg EXCEPT ![Len(mrg)] = @ \o Text]
      /\ agg' = [agg EXCEPT !.pc = AfterMerge]
  BY DEF MergeText, follower, network
<1>2. /\ TypeOK /\ d \in Conn /\ HasChannel(d) /\ m \in Request
      /\ m.lo \in Nat /\ m.hi \in Nat /\ m.lo < m.hi /\ LinePiece(m) /\ m.eol
      /\ Text = Iota(m.lo, m.hi) /\ Text \in Seq(Nat)
      /\ Range(Text) = (m.lo + 1)..m.hi
  BY <1>1, WorkedPiece
<1>3. agg'.pc = AfterMerge /\ agg'.conn = d /\ agg'.msg = m
  BY <1>1, <1>2 DEF TypeOK, MemoryType
<1>4. MergeTextAt
  BY <1>1 DEF MergeInv, HandlerAt
<1>5. /\ Merged' = Merged \union Range(Text)
      /\ \A i \in DOMAIN mrg' : \/ mrg'[i] = t \o Text
                                \/ i \in DOMAIN mrg /\ mrg'[i] = mrg[i]
  <2>1. mrg \in Seq(Seq(Nat)) /\ mrg # << >>
    BY <1>1, <1>2 DEF TypeOK, DiskType, ProtocolInv, ChannelOwned
  <2>2. QED
    BY <1>1, <1>2, <2>1, MergedGrow
<1>6. (Merging' = Merging) /\ (FMerge' = FMerge)
  BY <1>1, MergingKept
<1>7. Merging => /\ chans[d] = << >>
                 /\ LineHeld(t, m.lo)
                 /\ 1..m.hi \subseteq Merged'
  <2> SUFFICES ASSUME Merging
               PROVE  /\ chans[d] = << >>
                      /\ LineHeld(t, m.lo)
                      /\ 1..m.hi \subseteq Merged'
    OBVIOUS
  <2>1. chans[d] = << >> /\ LineHeld(t, m.lo) /\ 1..m.lo \subseteq Merged
    BY <1>4 DEF MergeTextAt
  <2> HIDE DEF m, t, d
  <2>2. Merged' = Merged \union ((m.lo + 1)..m.hi)
    BY <1>2, <1>5
  <2>3. \A x \in 1..m.hi : x \in 1..m.lo \/ x \in (m.lo + 1)..m.hi
    BY <1>2
  <2>4. QED
    BY <2>1, <2>2, <2>3
<1>8. FilesRight'
  <2>1. FilesRight
    BY DEF MergeInv
  <2>2. NewestSpeaks => NewestSpeaks'
    BY <1>1, <1>3, <1>5, WorkKeeps
  <2>3. InOrder => NewestSpeaks' /\ SepIncreasing'
    BY <1>1, <2>1, <2>2 DEF FilesRight, SepIncreasing
  <2>4. Merging => MergedRecords'
    <3> SUFFICES ASSUME Merging, NEW i \in DOMAIN mrg'
                 PROVE  OneLine(mrg'[i])
      BY DEF MergedRecords, OneLine
    <3>1. OneLine(t \o Text)
      <4>1. LineHeld(t, m.lo)
        BY <1>7
      <4> HIDE DEF m, t
      <4>2. OneLine(t \o Iota(m.lo, m.hi))
        BY <1>2, <4>1, LineCompleted
      <4>3. QED
        BY <1>2, <4>2
    <3>2. MergedRecords
      BY <2>1 DEF FilesRight
    <3>3. QED
      BY <1>5, <3>1, <3>2 DEF MergedRecords
  <2>5. Known(sep)'
    BY <1>1, <1>5, <1>6, <2>1 DEF FilesRight, Known
  <2>6. FMerge'
    BY <1>4, <1>6 DEF MergeTextAt
  <2>7. QED
    BY <1>6, <2>3, <2>4, <2>5, <2>6 DEF FilesRight
<1>9. HandlerAt'
  <2>1. Follows(d, m.lo)
    BY <1>4 DEF MergeTextAt
  <2> HIDE DEF m, d
  <2>2. Follows(d, m.hi)
    BY <1>2, <2>1, FollowsMore
  <2>3. /\ InOrder => Ascends(sep' \o chans'[d], m.lo)
        /\ InOrder => Ascends(sep' \o chans'[d], m.hi)
    BY <1>1, <2>1, <2>2 DEF Follows
  <2>4. Merging' => chans'[d] = << >> /\ 1..m.hi \subseteq Merged'
    BY <1>1, <1>6, <1>7
  <2>5. CASE agg'.pc = "append buffer"
    BY <1>2, <1>3, <2>3, <2>4, <2>5 DEF HandlerAt, AppendAt, Follows, LinePiece, Unbroken
  <2>6. CASE agg'.pc = "answer"
    BY <1>2, <1>3, <2>3, <2>4, <2>6 DEF HandlerAt, AppendAt, Follows, LinePiece, Unbroken
  <2>7. QED
    BY <1>3, <2>5, <2>6 DEF AfterMerge
<1>10. PendingAt' /\ Buffered' /\ FollowerAt'
  BY <1>1, <1>3, <1>5, WorkKeeps
<1>11. QED
  BY <1>8, <1>9, <1>10 DEF MergeInv

LEMMA AppendBufferMerge ==
    ASSUME ProtocolInv, MergeInv, AppendBuffer
    PROVE  MergeInv'
<1> DEFINE d == agg.conn
           m == agg.msg
           t == chans[d]
<1>1. /\ agg.pc = "append buffer"
      /\ UNCHANGED <<pc, opened, fpos, buf, msgbuf>>
      /\ UNCHANGED <<up, req, resp, mode>>
      /\ mrg' = mrg
      /\ sep' = sep \o t
      /\ chans' = [chans EXCEPT ![d] = << >>]
      /\ agg' = [agg EXCEPT !.pc = "append text"]
  BY DEF AppendBuffer, follower, network
<1>2. /\ TypeOK /\ d \in Conn /\ t \in Seq(Nat)
      /\ m.lo \in Nat /\ LinePiece(m) /\ m.eol
  BY <1>1, WorkedPiece
<1>3. /\ chans'[d] = << >>
      /\ \A c \in Conn : c # d => chans'[c] = chans[c]
  BY <1>1, <1>2 DEF TypeOK, MemoryType
<1>4. agg'.pc = "append text" /\ agg'.conn = d /\ agg'.msg = m
  BY <1>1, <1>2 DEF TypeOK, MemoryType
<1>5. AppendAt(m.lo)
  BY <1>1 DEF MergeInv, HandlerAt
<1>6. Merged' = Merged /\ (Merging' = Merging) /\ (FMerge' = FMerge)
  BY <1>1, MergingKept DEF Merged
<1>7. sep \in Seq(Nat)
  BY <1>2 DEF TypeOK, DiskType
<1>8. Merging => sep' = sep
  BY <1>1, <1>5, <1>7, ConcatEmptySeq DEF AppendAt
<1>9. InOrder => Ascends(sep', m.lo)
  BY <1>1, <1>5 DEF AppendAt, Follows
<1>10. sep' \o << >> = sep'
  <2>1. sep \o t \in Seq(Nat)
    BY <1>2, <1>7, ConcatProperties
  <2> HIDE DEF t
  <2>2. QED
    BY <1>1, <2>1, ConcatEmptySeq
<1> HIDE DEF t
<1>11. FilesRight'
  <2>1. FilesRight
    BY DEF MergeInv
  <2>2. NewestSpeaks => NewestSpeaks'
    BY <1>1, <1>3, <1>4, <1>6, WorkKeeps
  <2>3. InOrder => NewestSpeaks' /\ SepIncreasing'
    BY <1>9, <2>1, <2>2 DEF FilesRight, SepIncreasing, Ascends
  <2>4. Merging => MergedRecords'
    BY <1>1, <2>1 DEF FilesRight, MergedRecords
  <2>5. Known(sep)'
    BY <1>6, <1>8, <2>1 DEF FilesRight, Known
  <2>6. QED
    BY <1>1, <1>6, <2>1, <2>3, <2>4, <2>5 DEF FilesRight
<1>12. HandlerAt'
  <2>1. InOrder => Ascends(sep' \o chans'[d], m.lo)
    BY <1>3, <1>9, <1>10
  <2>2. Merging' => chans'[d] = << >> /\ 1..m.hi \subseteq Merged'
    BY <1>3, <1>5, <1>6 DEF AppendAt
  <2> HIDE DEF m, d
  <2>3. QED
    BY <1>2, <1>3, <1>4, <2>1, <2>2 DEF HandlerAt, AppendAt, Follows, LinePiece, Unbroken
<1>13. PendingAt' /\ Buffered' /\ FollowerAt'
  BY <1>1, <1>3, <1>4, <1>6, WorkKeeps
<1>14. QED
  BY <1>11, <1>12, <1>13 DEF MergeInv

(* A text is the end of a line. *)
LEMMA TextEndsLine ==
    ASSUME NEW s \in Seq(Nat), NEW m \in Request, LinePiece(m), m.eol
    PROVE  EndsLine(s \o Iota(m.lo, m.hi))
<1> DEFINE a == m.lo
           b == m.hi
           t == Iota(a, b)
<1>1. a \in Nat /\ b \in Nat /\ a < b /\ b \in LineEnds
  BY DEF Request, LinePiece
<1>2. t \in Seq(Nat) /\ Len(t) = b - a /\ t[b - a] = b
  <2> HIDE DEF a, b
  <2>1. t \in Seq(Nat) /\ Len(t) = b - a
    <3>1. a <= b
      BY <1>1
    <3>2. Iota(a, b) \in Seq(Nat)
      BY <1>1, IotaType
    <3>3. Len(Iota(a, b)) = b - a
      BY <1>1, <3>1, IotaLen
    <3>4. QED
      BY <3>2, <3>3
  <2>2. Iota(a, b)[b - a] = b
    BY <1>1 DEF Iota
  <2>3. QED
    BY <2>1, <2>2
<1> SUFFICES EndsLine(s \o t)
  OBVIOUS
<1> HIDE DEF a, b, t
<1>3. /\ Len(s) \in Nat
      /\ Len(s \o t) = Len(s) + (b - a)
      /\ \A i \in 1..(Len(s) + Len(t)) :
            (s \o t)[i] = IF i <= Len(s) THEN s[i] ELSE t[i - Len(s)]
  <2>1. Len(s \o t) = Len(s) + Len(t)
        /\ \A i \in 1..(Len(s) + Len(t)) :
               (s \o t)[i] = IF i <= Len(s) THEN s[i] ELSE t[i - Len(s)]
    BY <1>2, ConcatProperties
  <2>2. Len(s) \in Nat
    BY <1>2, LenProperties
  <2>3. QED
    BY <1>2, <2>1, <2>2
<1> DEFINE i == Len(s) + (b - a)
<1>4. i \in 1..(Len(s) + Len(t)) /\ ~(i <= Len(s)) /\ i - Len(s) = b - a
  BY <1>1, <1>2, <1>3
<1>5. (s \o t)[i] = b
  <2> HIDE DEF i
  <2>1. QED
    BY <1>2, <1>3, <1>4
<1>6. QED
  BY <1>1, <1>3, <1>5 DEF EndsLine

LEMMA AppendTextMerge ==
    ASSUME ProtocolInv, MergeInv, AppendText
    PROVE  MergeInv'
<1> DEFINE d == agg.conn
           m == agg.msg
<1>1. /\ agg.pc = "append text"
      /\ UNCHANGED <<pc, opened, fpos, buf, msgbuf>>
      /\ UNCHANGED <<up, req, resp, mode>>
      /\ UNCHANGED <<mrg, chans>>
      /\ sep' = sep \o Text
      /\ agg' = [agg EXCEPT !.pc = "answer"]
  BY DEF AppendText, follower, network
<1>2. /\ TypeOK /\ d \in Conn /\ m \in Request
      /\ m.lo \in Nat /\ m.hi \in Nat /\ m.lo < m.hi /\ LinePiece(m) /\ m.eol
      /\ Text = Iota(m.lo, m.hi) /\ Text \in Seq(Nat)
      /\ Range(Text) = (m.lo + 1)..m.hi
  BY <1>1, WorkedPiece
<1>3. agg'.pc = "answer" /\ agg'.conn = d /\ agg'.msg = m
  BY <1>1, <1>2 DEF TypeOK, MemoryType
<1>4. AppendAt(m.lo) /\ chans[d] = << >>
  BY <1>1 DEF MergeInv, HandlerAt
<1>5. Merged' = Merged /\ (Merging' = Merging) /\ (FMerge' = FMerge)
  BY <1>1, MergingKept DEF Merged
<1>6. sep \in Seq(Nat) /\ sep \o << >> = sep
  BY <1>2, ConcatEmptySeq DEF TypeOK, DiskType
<1>7. Merging => 1..m.hi \subseteq Merged
  BY <1>4 DEF AppendAt
<1>8. InOrder => Ascends(sep, m.lo)
  BY <1>4, <1>6 DEF AppendAt, Follows
<1> HIDE DEF m, d
<1>9. sep' = sep \o Iota(m.lo, m.hi)
  BY <1>1, <1>2
<1>10. InOrder => Ascends(sep', m.hi)
  <2>1. m.lo <= m.hi
    BY <1>2
  <2>2. QED
    BY <1>2, <1>6, <1>8, <1>9, <2>1, AscendsExtend
<1>11. sep' \o << >> = sep'
  <2>1. sep \o Text \in Seq(Nat)
    BY <1>2, <1>6, ConcatProperties
  <2>2. QED
    BY <1>1, <2>1, ConcatEmptySeq
<1>12. FilesRight'
  <2>1. FilesRight
    BY DEF MergeInv
  <2>2. NewestSpeaks => NewestSpeaks'
    BY <1>1, <1>3, <1>5, WorkKeeps DEF m, d
  <2>3. InOrder => NewestSpeaks' /\ SepIncreasing'
    BY <1>10, <2>1, <2>2 DEF FilesRight, SepIncreasing, Ascends
  <2>4. Merging => MergedRecords'
    BY <1>1, <2>1 DEF FilesRight, MergedRecords
  <2>5. EndsLine(sep')
    BY <1>2, <1>6, <1>9, TextEndsLine
  <2>6. Merging => Range(sep') \subseteq Merged
    <3> SUFFICES ASSUME Merging
                 PROVE  Range(sep') \subseteq Merged
      OBVIOUS
    <3>1. Range(sep) \subseteq Merged
      BY <2>1 DEF FilesRight, Known
    <3>2. Range(sep') = Range(sep) \union Range(Text)
      <4>1. Range(sep \o Text) = Range(sep) \union Range(Text)
        BY <1>2, <1>6, RangeConcat
      <4>2. QED
        BY <1>1, <4>1
    <3>3. (m.lo + 1)..m.hi \subseteq 1..m.hi
      BY <1>2
    <3>4. QED
      BY <1>2, <1>7, <3>1, <3>2, <3>3
  <2>7. Known(sep)'
    BY <1>5, <2>5, <2>6 DEF Known, EndsLine
  <2>8. QED
    BY <1>1, <1>5, <2>1, <2>3, <2>4, <2>7 DEF FilesRight
<1>13. HandlerAt'
  <2>1. InOrder => Ascends(sep' \o chans'[d], m.hi)
    BY <1>1, <1>4, <1>10, <1>11
  <2>2. Merging' => chans'[d] = << >> /\ 1..m.hi \subseteq Merged'
    BY <1>1, <1>4, <1>5, <1>7
  <2>3. QED
    BY <1>2, <1>3, <2>1, <2>2 DEF HandlerAt, AppendAt, Follows, LinePiece, Unbroken
<1>14. PendingAt' /\ Buffered' /\ FollowerAt'
  BY <1>1, <1>3, <1>5, WorkKeeps DEF m, d
<1>15. QED
  BY <1>12, <1>13, <1>14 DEF MergeInv

(* An open() fails: nothing is promised of the merged file then. *)
LEMMA WriteFailsMerge ==
    ASSUME ProtocolInv, MergeInv, WriteFails
    PROVE  MergeInv'
<1> DEFINE d == agg.conn
           m == agg.msg
<1>1. /\ MayFail
      /\ agg.pc \in {"merge buffer", "append buffer"}
      /\ agg' = [agg EXCEPT !.pc = IF agg.pc = "merge buffer" THEN AfterMerge
                                   ELSE "answer"]
      /\ UNCHANGED <<pc, opened, fpos, buf, msgbuf>>
      /\ UNCHANGED <<up, req, resp, chans, sep, mrg, mode>>
  BY DEF WriteFails, follower, network, disk
<1>2. /\ TypeOK /\ d \in Conn /\ HasChannel(d)
      /\ m.lo \in Nat /\ m.hi \in Nat /\ m.lo < m.hi /\ LinePiece(m) /\ m.eol
  BY <1>1, WorkedPiece
<1>3. /\ agg'.pc \in {"append buffer", "answer"}
      /\ agg'.conn = d /\ agg'.msg = m
  BY <1>1, <1>2 DEF TypeOK, MemoryType, AfterMerge
<1>4. ~Merging /\ (Merging' = Merging) /\ Merged' = Merged
  BY <1>1, MergingKept DEF Merging, Merged
<1>5. Follows(d, m.lo)
  BY <1>1 DEF MergeInv, HandlerAt, At, AppendAt
<1>6. FilesRight'
  <2>1. NewestSpeaks => NewestSpeaks'
    BY <1>1, <1>3, <1>4, WorkKeeps
  <2>2. QED
    BY <1>1, <2>1, FilesSame DEF MergeInv, FilesRight
<1>7. HandlerAt'
  <2> HIDE DEF m, d
  <2>1. Follows(d, m.hi)
    BY <1>2, <1>5, FollowsMore
  <2>2. /\ InOrder => Ascends(sep' \o chans'[d], m.lo)
        /\ InOrder => Ascends(sep' \o chans'[d], m.hi)
    BY <1>1, <1>5, <2>1 DEF Follows
  <2>3. CASE agg'.pc = "append buffer"
    BY <1>2, <1>3, <1>4, <2>2, <2>3 DEF HandlerAt, AppendAt, Follows, LinePiece, Unbroken
  <2>4. CASE agg'.pc = "answer"
    BY <1>2, <1>3, <1>4, <2>2, <2>4 DEF HandlerAt, AppendAt, Follows, LinePiece, Unbroken
  <2>5. QED
    BY <1>3, <2>3, <2>4
<1>8. PendingAt' /\ Buffered' /\ FollowerAt'
  BY <1>1, <1>3, <1>4, WorkKeeps
<1>9. QED
  BY <1>6, <1>7, <1>8 DEF MergeInv

LEMMA AnswerDataMerge ==
    ASSUME ProtocolInv, MergeInv, AnswerData
    PROVE  MergeInv'
<1> DEFINE d == agg.conn
           m == agg.msg
<1>1. /\ agg.pc = "answer"
      /\ UNCHANGED <<pc, opened, fpos, buf, msgbuf>>
      /\ UNCHANGED <<up, req, chans, sep, mrg, mode>>
      /\ agg' = [agg EXCEPT !.pc = "idle"]
      /\ Answer(d, DataReply(m.channel))
  BY DEF AnswerData, follower, disk
<1>2. /\ TypeOK /\ OneMessage /\ d \in Conn /\ HasChannel(d)
      /\ m \in Request /\ m.hi \in Nat /\ agg.pc # "idle"
  BY <1>1, WorkedPiece DEF ProtocolInv
<1>3. agg'.pc = "idle"
  BY <1>1, <1>2 DEF TypeOK, MemoryType
<1>4. req[d] = << >> /\ resp[d] = << >>
  BY <1>2, HandlerAtWork
<1>5. \A c \in Conn : c # d => resp'[c] = resp[c]
  <2>1. DataReply(m.channel) \in Reply
    BY <1>2, EmptySeq DEF DataReply, Reply, Request
  <2>2. QED
    BY <1>1, <1>2, <1>4, <2>1, AnswerEffect
<1>6. AppendAt(m.hi)
  BY <1>1 DEF MergeInv, HandlerAt
<1>7. Merged' = Merged
  BY <1>1 DEF Merged
<1>8. FilesRight'
  <2>1. NewestSpeaks => NewestSpeaks'
    BY <1>1, <1>3, FewerSpeak DEF HasChannel, Busy
  <2>2. QED
    BY <1>1, <2>1, FilesSame DEF MergeInv, FilesRight
<1>9. PendingAt'
  BY <1>1, PendingSame DEF MergeInv
<1>10. HandlerAt'
  BY <1>3 DEF HandlerAt
<1>11. Buffered'
  BY <1>1, BufferedSame DEF MergeInv
<1>12. At(d, m.hi)
  <2>1. Merging => chans[d] = << >> /\ 1..m.hi \subseteq Merged
    BY <1>6 DEF AppendAt
  <2>2. m.hi \in LineEnds
    <3>1. LinePiece(m) /\ m.eol
      BY <1>2, WorkedPiece
    <3>2. QED
      BY <3>1 DEF LinePiece
  <2>3. LineHeld(<< >>, m.hi)
    BY <1>2, <2>2, LineStarts
  <2>4. QED
    BY <1>6, <2>1, <2>3 DEF AppendAt, At, Holds, Covers
<1>13. FollowerAt'
  <2> SUFFICES ASSUME NEW c \in up
               PROVE  ReadAt(c)' /\ SendAt(c)' /\ InitAt(c)' /\ DataAt(c)'
    BY <1>1 DEF FollowerAt
  <2>1. c \in Conn
    BY LiveConnection
  <2>2. CASE c # d
    <3>1. resp'[c] = resp[c] /\ ~Busy(c)'
      BY <1>3, <1>5, <2>1, <2>2 DEF Busy
    <3>2. QED
      BY <1>1, <1>7, <3>1, LiveKept
  <2>3. CASE c = d
    <3>1. pc = "data" /\ msgbuf.hi = Unread /\ m = msgbuf
      BY <1>2, <2>3, WaitsMerge DEF Busy
    <3>2. PICK k : k = Unread
      OBVIOUS
    <3>3. At(c, k)
      BY <1>12, <2>3, <3>1, <3>2
    <3>4. At(c, k)' /\ Unread' = k
      BY <1>1, <3>2, <3>3, AtSame DEF Unread
    <3>5. At(c, Unread)'
      BY <3>4 DEF At, Follows, Holds, Covers
    <3>6. req'[c] = << >> /\ ~Busy(c)' /\ msgbuf'.hi = Unread'
      BY <1>1, <1>3, <1>4, <2>3, <3>1, <3>2, <3>4 DEF Busy
    <3>7. DataAt(c)'
      BY <3>5, <3>6 DEF DataAt
    <3>8. QED
      BY <1>1, <3>1, <3>7 DEF ReadAt, SendAt, InitAt
  <2>4. QED
    BY <2>2, <2>3
<1>14. QED
  BY <1>8, <1>9, <1>10, <1>11, <1>13 DEF MergeInv

----------------------------------------------------------------------------
(* The invariant survives failures. *)

LEMMA BreakMerge ==
    ASSUME ProtocolInv, MergeInv, NEW b \in Conn, Break(b)
    PROVE  MergeInv'
<1>1. /\ UNCHANGED <<pc, opened, fpos, buf>>
      /\ UNCHANGED <<chans, agg, sep, mrg, mode>>
      /\ b \in up /\ up' = up \ {b}
      /\ \E l \in {<< >>, req[b]}  : req'  = [req  EXCEPT ![b] = l]
  BY DEF Break, memory, disk, follower
<1>2. up' = {}
  BY <1>1, LiveConnection
<1>3. \A c \in Conn : req'[c] # << >> => req'[c] = req[c]
  BY <1>1 DEF ProtocolInv, TypeOK, NetworkType
<1>4. FilesRight' /\ PendingAt' /\ HandlerAt'
  BY <1>1, <1>3, AggregatorStill
<1>5. Buffered'
  BY <1>1, <1>2 DEF MergeInv, Buffered
<1>6. FollowerAt'
  BY <1>2, NothingToSay
<1>7. QED
  BY <1>4, <1>5, <1>6 DEF MergeInv

LEMMA FollowerRestartsMerge ==
    ASSUME ProtocolInv, MergeInv, FollowerRestarts
    PROVE  MergeInv'
<1>1. /\ UNCHANGED <<chans, agg, sep, mrg, mode>>
      /\ pc' = "reconnect" /\ up' = {}
      /\ buf' = [lo |-> 0, hi |-> 0]
      /\ \E L \in SUBSET up : req' = [c \in Conn |-> IF c \in L THEN << >> ELSE req[c]]
  BY DEF FollowerRestarts, memory, disk
<1>2. \A c \in Conn : req'[c] # << >> => req'[c] = req[c]
  BY <1>1
<1>3. FilesRight' /\ PendingAt' /\ HandlerAt'
  BY <1>1, <1>2, AggregatorStill
<1>4. Buffered'
  BY <1>1 DEF Buffered
<1>5. FollowerAt'
  BY <1>1, NothingToSay
<1>6. QED
  BY <1>3, <1>4, <1>5 DEF MergeInv

LEMMA AggregatorRestartsMerge ==
    ASSUME ProtocolInv, MergeInv, AggregatorRestarts
    PROVE  MergeInv'
<1>1. /\ UNCHANGED <<pc, opened, fpos, buf, sep, mrg, mode>>
      /\ up' = {}
      /\ req' = [c \in Conn |-> << >>]
      /\ chans' = [c \in Conn |-> NoChannel]
      /\ agg'.pc = "idle"
  BY DEF AggregatorRestarts, disk, follower
<1>2. NewestSpeaks'
  BY <1>1 DEF NewestSpeaks, Busy
<1>3. FilesRight'
  BY <1>1, <1>2, FilesSame DEF MergeInv
<1>4. PendingAt' /\ HandlerAt'
  BY <1>1 DEF PendingAt, HandlerAt
<1>5. Buffered'
  BY <1>1 DEF MergeInv, Buffered
<1>6. FollowerAt'
  BY <1>1, NothingToSay
<1>7. QED
  BY <1>3, <1>4, <1>5, <1>6 DEF MergeInv

----------------------------------------------------------------------------
(* The theorems. *)

LEMMA MergeInit ==
    ASSUME Init
    PROVE  MergeInv
<1>1. /\ pc = "reconnect" /\ up = {}
      /\ buf = [lo |-> 0, hi |-> 0]
      /\ req = [c \in Conn |-> << >>]
      /\ chans = [c \in Conn |-> NoChannel] /\ agg.pc = "idle"
      /\ sep = << >> /\ mrg = << >>
  BY DEF Init
<1>2. NewestSpeaks /\ PendingAt /\ HandlerAt
  BY <1>1 DEF NewestSpeaks, PendingAt, HandlerAt, Busy
<1>3. SepIncreasing /\ MergedRecords
  BY <1>1 DEF SepIncreasing, MergedRecords
<1>4. Known(sep)
  BY <1>1 DEF Known, EndsLine, Range
<1>5. Buffered /\ FollowerAt
  BY <1>1 DEF Buffered, FollowerAt
<1>6. QED
  BY <1>1, <1>2, <1>3, <1>4, <1>5 DEF MergeInv, FilesRight

LEMMA MergeStep ==
    ASSUME ProtocolInv, MergeInv, [Next]_vars
    PROVE  MergeInv'
<1>1. CASE Write
  BY <1>1, WriteMerge
<1>2. CASE FollowerStep
  BY <1>2, MustReconnectMerge, OpenFileMerge, InitAnsweredMerge, FailsMerge,
     HashInvalidMerge, ReadLineMerge, NothingToReadMerge, SendDataMerge,
     DataAnsweredMerge, ReconnectMerge DEF FollowerStep
<1>3. CASE Reconnect
  BY <1>3, ReconnectMerge
<1>4. CASE HandlerStep
  BY <1>4, MergeBufferMerge, MergeTextMerge, AppendBufferMerge, AppendTextMerge,
     AnswerDataMerge DEF HandlerStep
<1>5. CASE WriteFails
  BY <1>5, WriteFailsMerge
<1>6. CASE \E c \in Conn : EventStep(c) \/ Break(c)
  <2> PICK c \in Conn : EventStep(c) \/ Break(c)
    BY <1>6
  <2>1. CASE Break(c)
    BY <2>1, BreakMerge
  <2>2. CASE EventStep(c)
    BY <2>2, AcceptMerge, HandlerInitMerge, HandlerDataPartMerge,
       HandlerDataLineMerge DEF EventStep
  <2>3. QED
    BY <2>1, <2>2
<1>7. CASE FollowerRestarts
  BY <1>7, FollowerRestartsMerge
<1>8. CASE AggregatorRestarts
  BY <1>8, AggregatorRestartsMerge
<1>9. CASE UNCHANGED vars
  <2>1. /\ UNCHANGED <<pc, opened, fpos, buf, msgbuf, up, req, resp>>
        /\ UNCHANGED <<chans, agg, sep, mrg, mode>>
    BY <1>9 DEF vars, follower, network, memory, disk
  <2>2. FilesRight' /\ PendingAt' /\ HandlerAt'
    BY <2>1, AggregatorStill
  <2>3. Buffered'
    BY <2>1, BufferedSame DEF MergeInv
  <2>4. Merged' = Merged
    BY <2>1 DEF Merged
  <2>5. FollowerAt'
    BY <2>1, <2>4, LiveKept DEF FollowerAt, Busy
  <2>6. QED
    BY <2>2, <2>3, <2>5 DEF MergeInv
<1>10. QED
  BY <1>1, <1>2, <1>3, <1>4, <1>5, <1>6, <1>7, <1>8, <1>9 DEF Next

(* The inductive invariant: how far the text of the connection the follower    *)
(* speaks on got, by the follower's control and the write of handler_data      *)
(* that comes next, in every configuration and whatever fails.                 *)
THEOREM MergeInvariant == Spec => []MergeInv
<1>1. Init => MergeInv
  BY MergeInit
<1>2. ProtocolInv /\ MergeInv /\ [Next]_vars => MergeInv'
  BY MergeStep
<1>3. QED
  BY <1>1, <1>2, ProtocolInvariant, PTL DEF Spec

(* No byte of the separate file is there twice nor out of order, when opens    *)
(* fail and when the merged file took the held back text too: handler_init's   *)
(* position is never behind what _do_append_file wrote.                        *)
THEOREM SepIncreasingHolds ==
    ASSUME InOrder
    PROVE  Spec => []SepIncreasing
<1>1. MergeInv => SepIncreasing
  BY DEF MergeInv, FilesRight
<1>2. QED
  BY <1>1, MergeInvariant, PTL

(* After each "host: " of the merged file stands the beginning of one line of  *)
(* the followed file: _do_merge_file never joins two lines nor loses a start.  *)
THEOREM MergedRecordsHolds ==
    ASSUME ~MayFail
    PROVE  Spec => []MergedRecords
<1>1. ASSUME MergeInv
      PROVE  MergedRecords
  <2>1. CASE FMerge
    BY <1>1, <2>1 DEF MergeInv, FilesRight, Merging
  <2>2. CASE ~FMerge
    <3>1. mrg = << >>
      BY <1>1, <2>2 DEF MergeInv, FilesRight
    <3>2. QED
      BY <3>1 DEF MergedRecords
  <2>3. QED
    BY <2>1, <2>2
<1>2. QED
  BY <1>1, MergeInvariant, PTL

(* What is in the separate file is in the merged file: handler_data merges     *)
(* before it appends, so a crash between the two loses nothing.                *)
THEOREM MergedCoversSepHolds ==
    ASSUME ~MayFail
    PROVE  Spec => []MergedCoversSep
<1>1. MergeInv => MergedCoversSep
  BY DEF MergeInv, FilesRight, Known, Merging, MergedCoversSep
<1>2. QED
  BY <1>1, MergeInvariant, PTL

(* While a connection lives, what the follower put behind it is in a file or   *)
(* in the channel's buffer, whichever files the aggregator writes.             *)
THEOREM AckedStoredHolds ==
    ASSUME InOrder, ~MayFail
    PROVE  Spec => []AckedStored
<1>1. ASSUME ProtocolInv, MergeInv, Copying => CopyInv
      PROVE  AckedStored
  <2>1. CASE FMerge
    <3> SUFFICES ASSUME pc = "run", opened, sock \in up, chans[sock] # NoChannel
                 PROVE  1..Unread \subseteq Merged \union Range(chans[sock])
      BY <2>1 DEF AckedStored, Stored
    <3>1. At(sock, Unread)
      BY <1>1 DEF MergeInv, FollowerAt, ReadAt
    <3>2. QED
      BY <2>1, <3>1 DEF At, Covers, Merging
  <2>2. CASE ~FMerge
    <3>1. mode = "separate"
      BY <1>1, <2>2, ModesAssumption DEF ProtocolInv, TypeOK, DiskType, FMerge
    <3>2. QED
      BY <1>1, <3>1, CopyAcked DEF Copying
  <2>3. QED
    BY <2>1, <2>2
<1>2. QED
  BY <1>1, MergeInvariant, CopyInvariant, ProtocolInvariant, PTL

(* A message of an abandoned connection is never written after a newer one got *)
(* its channel, whichever files the aggregator writes and whatever fails.      *)
THEOREM NoStaleWriteHolds ==
    ASSUME InOrder
    PROVE  Spec => NoStaleWrite
<1>1. ASSUME ProtocolInv, MergeInv, [Next]_vars, <<sep, mrg>>' # <<sep, mrg>>,
             NEW c \in Conn, c > agg.conn
      PROVE  chans[c] = NoChannel
  <2>1. agg.pc # "idle"
    <3>1. CASE HandlerStep
      BY <3>1 DEF HandlerStep, MergeBuffer, MergeText, AppendBuffer, AppendText,
                  AnswerData
    <3>2. CASE UNCHANGED <<sep, mrg>>
      BY <1>1, <3>2
    <3>3. UNCHANGED disk \/ HandlerStep
      BY <1>1 DEF Next, FollowerStep, EventStep, vars, Write, MustReconnect,
          OpenFile, InitAnswered, InitFails, HashInvalid, ReadLine,
          NothingToRead, SendData, DataAnswered, DataFails, ReconnectFails,
          Reconnect, WriteFails, Accept, CloseConnection, HandlerInit,
          HandlerDataPart, HandlerDataLine, Break, FollowerRestarts,
          AggregatorRestarts
    <3>4. QED
      BY <3>1, <3>2, <3>3 DEF disk
  <2>2. agg.conn \in Conn /\ Busy(agg.conn)
    BY <1>1, <2>1, HandlerAtWork DEF Busy
  <2>3. agg.conn < c
    BY <1>1, <2>2, ConnTypes DEF ProtocolInv, Conn
  <2>4. ~HasChannel(c)
    BY <1>1, <2>2, <2>3 DEF MergeInv, FilesRight, NewestSpeaks
  <2>5. QED
    BY <2>4 DEF HasChannel
<1>2. ProtocolInv /\ MergeInv /\ [Next]_vars =>
        [<<sep, mrg>>' # <<sep, mrg>> =>
            \A c \in Conn : c > agg.conn => chans[c] = NoChannel]_vars
  BY <1>1
<1>3. QED
  BY <1>2, MergeInvariant, ProtocolInvariant, PTL DEF Spec, NoStaleWrite
=============================================================================
