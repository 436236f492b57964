--------------------------- MODULE AzBufferProofs ----------------------------
(***************************************************************************)
(* What is proved about az_buffer for every set of bytes, texts and sizes: *)
(* the bounds of cursor and used, that only written bytes come out, and    *)
(* that the buffer is a queue.                                             *)
(***************************************************************************)
EXTENDS AzBuffer, SequenceTheorems, WellFoundedInduction, TLAPS

(* The cells from offset a up to, and without, offset b. *)
Window(mem, a, b) == [i \in 1..(b - a) |-> mem[a + i - 1]]

(* Concatenation, under a name that the provers leave as it is. *)
Cat(s, t) == s \o t

----------------------------------------------------------------------------
(* Lemmas about windows. *)

LEMMA FunctionIsSeq ==
    ASSUME NEW S, NEW n \in Nat, NEW f \in [1..n -> S]
    PROVE  f \in Seq(S) /\ Len(f) = n
<1>1. f \in Seq(S)
  BY SMT
<1>2. DOMAIN f = 1..n
  OBVIOUS
<1>3. QED
  BY <1>1, <1>2, LenProperties

LEMMA WindowType ==
    ASSUME NEW mem, NEW a \in Nat, NEW b \in Nat, a <= b,
           \A i \in a..(b - 1) : mem[i] \in Byte
    PROVE  /\ Window(mem, a, b) \in Seq(Byte)
           /\ Len(Window(mem, a, b)) = b - a
           /\ \A i \in 1..(b - a) : Window(mem, a, b)[i] = mem[a + i - 1]
<1>1. b - a \in Nat
  OBVIOUS
<1>2. \A i \in 1..(b - a) : mem[a + i - 1] \in Byte
  OBVIOUS
<1>3. Window(mem, a, b) \in [1..(b - a) -> Byte]
  BY <1>2 DEF Window
<1>4. Window(mem, a, b) \in Seq(Byte) /\ Len(Window(mem, a, b)) = b - a
  BY <1>1, <1>3, FunctionIsSeq
<1>5. QED
  BY <1>4 DEF Window

(* w is a window of bytes of mem. *)
IsWindow(mem, a, b, w) ==
    /\ a \in Nat /\ b \in Nat /\ a <= b
    /\ \A i \in a..(b - 1) : mem[i] \in Byte
    /\ w = Window(mem, a, b)

Cells(mem, a, b, w) ==
    /\ w \in Seq(Byte)
    /\ Len(w) = b - a
    /\ \A i \in 1..(b - a) : w[i] = mem[a + i - 1]

LEMMA WindowCells ==
    ASSUME NEW mem, NEW a, NEW b, NEW w, IsWindow(mem, a, b, w)
    PROVE  Cells(mem, a, b, w)
<1>1. /\ a \in Nat /\ b \in Nat /\ a <= b
      /\ \A i \in a..(b - 1) : mem[i] \in Byte
  BY DEF IsWindow
<1>2. w = Window(mem, a, b)
  BY DEF IsWindow
<1>3. /\ Window(mem, a, b) \in Seq(Byte)
      /\ Len(Window(mem, a, b)) = b - a
      /\ \A i \in 1..(b - a) : Window(mem, a, b)[i] = mem[a + i - 1]
  BY <1>1, WindowType
<1>4. QED
  BY <1>2, <1>3 DEF Cells

(* A window grows by what is stored behind it. *)
WindowGrows(old, new, a, b, s) ==
    /\ a <= b
    /\ \A i \in a..(b - 1) : old[i] \in Byte
    /\ \A i \in a..(b - 1) : new[i] = old[i]
    /\ \A i \in 1..Len(s) : new[b + i - 1] = s[i]

LEMMA WindowAppend ==
    ASSUME NEW old, NEW new, NEW a \in Nat, NEW b \in Nat, NEW s \in Seq(Byte),
           WindowGrows(old, new, a, b, s),
           NEW e \in Nat, e - b = Len(s)
    PROVE  Window(new, a, e) = Cat(Window(old, a, b), s)
<1> USE DEF WindowGrows
<1> DEFINE w == Window(old, a, b)
           v == Window(new, a, e)
<1>1. /\ Len(s) \in Nat
      /\ \A i \in 1..Len(s) : s[i] \in Byte
  BY LenProperties, ElementOfSeq
<1>2. /\ w \in Seq(Byte)
      /\ Len(w) = b - a
      /\ \A i \in 1..(b - a) : w[i] = old[a + i - 1]
  BY WindowType
<1>3. ASSUME NEW i \in a..(e - 1)
      PROVE  new[i] \in Byte
  <2>1. CASE i < b
    <3>1. i \in a..(b - 1)
      BY <2>1, <1>1
    <3>2. QED
      BY <3>1
  <2>2. CASE i >= b
    <3>1. i - b + 1 \in 1..Len(s) /\ b + (i - b + 1) - 1 = i
      BY <2>2, <1>1
    <3>2. new[i] = s[i - b + 1]
      BY <3>1
    <3>3. QED
      BY <3>1, <3>2, <1>1
  <2>3. QED
    BY <2>1, <2>2, <1>1
<1>0. a <= b
  OBVIOUS
<1>4. e \in Nat /\ a <= e /\ e - a = Len(s) + (b - a)
  BY <1>0, <1>1
<1>5. /\ v \in Seq(Byte)
      /\ Len(v) = e - a
      /\ \A i \in 1..(e - a) : v[i] = new[a + i - 1]
  <2>1. e \in Nat /\ a <= e
    BY <1>4
  <2>2. \A i \in a..(e - 1) : new[i] \in Byte
    BY <1>3
  <2> HIDE DEF WindowGrows
  <2>3. IsWindow(new, a, e, v)
    BY <2>1, <2>2 DEF IsWindow
  <2> HIDE DEF v
  <2>4. Cells(new, a, e, v)
    BY <2>3, WindowCells
  <2>5. QED
    BY <2>4 DEF Cells
<1>6. /\ w \o s \in Seq(Byte)
      /\ Len(w \o s) = Len(w) + Len(s)
      /\ \A i \in 1..(Len(w) + Len(s)) :
            (w \o s)[i] = IF i <= Len(w) THEN w[i] ELSE s[i - Len(w)]
  BY <1>2, ConcatProperties
<1> HIDE DEF w, v
<1>7. Len(v) = Len(w \o s)
  BY <1>1, <1>2, <1>4, <1>5, <1>6
<1>8. ASSUME NEW i \in 1..Len(v)
      PROVE  v[i] = (w \o s)[i]
  <2>0. i \in 1..(e - a) /\ i \in 1..(Len(w) + Len(s))
    BY <1>1, <1>2, <1>4, <1>5
  <2>1. v[i] = new[a + i - 1]
    BY <2>0, <1>5
  <2>2. (w \o s)[i] = IF i <= b - a THEN w[i] ELSE s[i - (b - a)]
    BY <2>0, <1>2, <1>6
  <2>3. CASE i <= b - a
    <3>1. a + i - 1 \in a..(b - 1) /\ i \in 1..(b - a)
      BY <2>0, <2>3, <1>1
    <3>2. QED
      BY <3>1, <2>1, <2>2, <2>3, <1>2
  <2>4. CASE i > b - a
    <3>1. i - (b - a) \in 1..Len(s) /\ b + (i - (b - a)) - 1 = a + i - 1
      BY <2>0, <2>4, <1>1, <1>2
    <3>2. new[a + i - 1] = s[i - (b - a)]
      BY <3>1
    <3>3. ~(i <= b - a)
      BY <2>0, <2>4, <1>1
    <3>4. QED
      BY <3>2, <3>3, <2>1, <2>2
  <2>5. QED
    BY <2>0, <2>3, <2>4, <1>1
<1>9. QED
  BY <1>5, <1>6, <1>7, <1>8, SeqEqual DEF w, v, Cat

(* Taking the first k bytes of a window leaves the window behind them. *)
LEMMA WindowTake ==
    ASSUME NEW mem, NEW a \in Nat, NEW b \in Nat, a <= b,
           \A i \in a..(b - 1) : mem[i] \in Byte,
           NEW k \in 0..(b - a)
    PROVE  /\ Window(mem, a + k, b) = SubSeq(Window(mem, a, b), k + 1, Len(Window(mem, a, b)))
           /\ Prefix(Window(mem, a, b), k) = SubSeq(Window(mem, a, b), 1, k)
           /\ Prefix(Window(mem, a, b), k) \in Seq(Byte)
           /\ Len(Prefix(Window(mem, a, b), k)) = k
<1> DEFINE w == Window(mem, a, b)
           v == Window(mem, a + k, b)
           p == Prefix(w, k)
<1>1. k \in Nat /\ k <= b - a /\ a + k \in Nat /\ a + k <= b /\ b - a \in Nat
  OBVIOUS
<1>2. /\ w \in Seq(Byte)
      /\ Len(w) = b - a
      /\ \A i \in 1..(b - a) : w[i] = mem[a + i - 1]
  BY WindowType
<1>3. \A i \in (a + k)..(b - 1) : mem[i] \in Byte
  BY <1>1
<1>4. /\ v \in Seq(Byte)
      /\ Len(v) = b - (a + k)
      /\ \A i \in 1..(b - (a + k)) : v[i] = mem[(a + k) + i - 1]
  <2>1. PICK from \in Nat : from = a + k
    BY <1>1
  <2>2. from \in Nat /\ from <= b /\ \A i \in from..(b - 1) : mem[i] \in Byte
    BY <1>1, <1>3, <2>1
  <2>3. v = Window(mem, from, b)
    BY <2>1
  <2> HIDE DEF v
  <2>4. IsWindow(mem, from, b, v)
    BY <2>2, <2>3 DEF IsWindow
  <2>5. Cells(mem, from, b, v)
    BY <2>4, WindowCells
  <2>6. Cells(mem, a + k, b, v)
    BY <2>1, <2>5
  <2>7. QED
    BY <2>6 DEF Cells
<1>5. p = [i \in 1..k |-> w[i]]
  BY DEF p, Prefix
<1> HIDE DEF w, v, p
<1>6. \A i \in 1..k : w[i] \in Byte
  BY <1>1, <1>2, ElementOfSeq
<1>7. p \in Seq(Byte) /\ Len(p) = k
  <2>1. p \in [1..k -> Byte]
    BY <1>5, <1>6
  <2>2. QED
    BY <1>1, <2>1, FunctionIsSeq
<1>8. p = SubSeq(w, 1, k)
  <2>1. SubSeq(w, 1, k) = [i \in 1..k |-> w[i]]
    BY <1>1, <1>2, SMT
  <2>2. QED
    BY <2>1, <1>5
<1>9. v = SubSeq(w, k + 1, Len(w))
  <2>1. k + 1 \in 1..(Len(w) + 1) /\ Len(w) \in (k + 1 - 1)..Len(w)
    BY <1>1, <1>2
  <2> DEFINE t == SubSeq(w, k + 1, Len(w))
  <2>2. /\ t \in Seq(Byte)
        /\ Len(t) = IF k + 1 <= Len(w) THEN Len(w) - (k + 1) + 1 ELSE 0
        /\ \A i \in 1..(Len(w) - (k + 1) + 1) : t[i] = w[(k + 1) + i - 1]
    BY <1>1, <1>2, <2>1, SubSeqProperties
  <2> HIDE DEF t
  <2>3. Len(t) = Len(v)
    BY <1>1, <1>2, <1>4, <2>2
  <2>4. ASSUME NEW i \in 1..Len(v)
        PROVE  v[i] = t[i]
    <3>1. i \in 1..(b - (a + k)) /\ i \in 1..(Len(w) - (k + 1) + 1)
      BY <1>1, <1>2, <1>4
    <3>2. k + i \in 1..(b - a) /\ (k + 1) + i - 1 = k + i
          /\ a + (k + i) - 1 = (a + k) + i - 1
      BY <3>1, <1>1
    <3>3. t[i] = w[k + i]
      BY <2>2, <3>1, <3>2
    <3>4. w[k + i] = mem[(a + k) + i - 1]
      BY <1>2, <3>2
    <3>5. QED
      BY <3>1, <3>3, <3>4, <1>4
  <2>5. QED
    BY <1>4, <2>2, <2>3, <2>4, SeqEqual DEF t
<1>10. QED
  BY <1>7, <1>8, <1>9 DEF w, v, p

(* A window moved elsewhere, with what is stored before it. *)
WindowFollows(old, new, a, b, c, e, s) ==
    /\ a <= b
    /\ e - c = Len(s) + (b - a)
    /\ \A i \in a..(b - 1) : old[i] \in Byte
    /\ \A i \in 1..Len(s) : new[c + i - 1] = s[i]
    /\ \A i \in 1..(b - a) : new[c + Len(s) + i - 1] = old[a + i - 1]

LEMMA WindowPrepend ==
    ASSUME NEW old, NEW new, NEW a \in Nat, NEW b \in Nat, NEW c \in Nat,
           NEW e \in Nat, NEW s \in Seq(Byte),
           WindowFollows(old, new, a, b, c, e, s)
    PROVE  /\ Window(new, c, e) = Cat(s, Window(old, a, b))
           /\ \A i \in c..(e - 1) : new[i] \in Byte
<1> DEFINE w == Window(old, a, b)
           v == Window(new, c, e)
<1>0. /\ a <= b
      /\ e - c = Len(s) + (b - a)
      /\ \A i \in a..(b - 1) : old[i] \in Byte
      /\ \A i \in 1..Len(s) : new[c + i - 1] = s[i]
      /\ \A i \in 1..(b - a) : new[c + Len(s) + i - 1] = old[a + i - 1]
  BY DEF WindowFollows
<1>1. /\ Len(s) \in Nat
      /\ \A i \in 1..Len(s) : s[i] \in Byte
  BY LenProperties, ElementOfSeq
<1>2. /\ w \in Seq(Byte)
      /\ Len(w) = b - a
      /\ \A i \in 1..(b - a) : w[i] = old[a + i - 1]
  BY <1>0, WindowType
<1>3. ASSUME NEW i \in c..(e - 1)
      PROVE  new[i] \in Byte
  <2>1. CASE i < c + Len(s)
    <3>1. i - c + 1 \in 1..Len(s) /\ c + (i - c + 1) - 1 = i
      BY <2>1, <1>0, <1>1
    <3>2. new[i] = s[i - c + 1]
      BY <1>0, <3>1
    <3>3. QED
      BY <3>1, <3>2, <1>1
  <2>2. CASE i >= c + Len(s)
    <3> DEFINE j == i - (c + Len(s)) + 1
    <3>1. j \in 1..(b - a) /\ c + Len(s) + j - 1 = i /\ a + j - 1 \in a..(b - 1)
      BY <2>2, <1>0, <1>1
    <3> HIDE DEF j
    <3>2. new[i] = old[a + j - 1]
      BY <1>0, <3>1
    <3>3. QED
      BY <1>0, <3>1, <3>2
  <2>3. QED
    BY <2>1, <2>2, <1>1
<1>4. e \in Nat /\ c <= e /\ e - c = Len(s) + (b - a)
  BY <1>0, <1>1
<1>5. /\ v \in Seq(Byte)
      /\ Len(v) = e - c
      /\ \A i \in 1..(e - c) : v[i] = new[c + i - 1]
  <2>1. \A i \in c..(e - 1) : new[i] \in Byte
    BY <1>3
  <2>2. e \in Nat /\ c <= e
    BY <1>4
  <2>3. IsWindow(new, c, e, v)
    BY <2>1, <2>2 DEF IsWindow
  <2> HIDE DEF v
  <2>4. Cells(new, c, e, v)
    BY <2>3, WindowCells
  <2>5. QED
    BY <2>4 DEF Cells
<1>6. /\ s \o w \in Seq(Byte)
      /\ Len(s \o w) = Len(s) + Len(w)
      /\ \A i \in 1..(Len(s) + Len(w)) :
            (s \o w)[i] = IF i <= Len(s) THEN s[i] ELSE w[i - Len(s)]
  BY <1>2, ConcatProperties
<1> HIDE DEF w, v
<1>7. Len(v) = Len(s \o w)
  BY <1>1, <1>2, <1>4, <1>5, <1>6
<1>8. ASSUME NEW i \in 1..Len(v)
      PROVE  v[i] = (s \o w)[i]
  <2>0. i \in 1..(e - c) /\ i \in 1..(Len(s) + Len(w))
    BY <1>1, <1>2, <1>4, <1>5
  <2>1. v[i] = new[c + i - 1]
    BY <2>0, <1>5
  <2>2. (s \o w)[i] = IF i <= Len(s) THEN s[i] ELSE w[i - Len(s)]
    BY <2>0, <1>6
  <2>3. CASE i <= Len(s)
    <3>1. i \in 1..Len(s)
      BY <2>0, <2>3, <1>1
    <3>2. QED
      BY <1>0, <3>1, <2>1, <2>2, <2>3
  <2>4. CASE ~(i <= Len(s))
    <3> DEFINE j == i - Len(s)
    <3>1. j \in 1..(b - a) /\ c + Len(s) + j - 1 = c + i - 1
      BY <2>0, <2>4, <1>1, <1>2
    <3>2. (s \o w)[i] = w[j]
      BY <2>2, <2>4
    <3> HIDE DEF j
    <3>3. new[c + i - 1] = old[a + j - 1]
      BY <1>0, <3>1
    <3>4. QED
      BY <3>1, <3>2, <3>3, <2>1, <1>2
  <2>5. QED
    BY <2>3, <2>4
<1>9. v = s \o w
  BY <1>5, <1>6, <1>7, <1>8, SeqEqual
<1>10. QED
  BY <1>3, <1>9 DEF w, v, Cat

LEMMA PrefixOfSeq ==
    ASSUME NEW s \in Seq(Byte), NEW n \in 0..Len(s)
    PROVE  /\ Prefix(s, n) \in Seq(Byte)
           /\ Len(Prefix(s, n)) = n
           /\ Prefix(s, n) = SubSeq(s, 1, n)
           /\ n = Len(s) => Prefix(s, n) = s
<1>1. /\ Len(s) \in Nat
      /\ n \in Nat
      /\ \A i \in 1..n : s[i] \in Byte
  BY LenProperties, ElementOfSeq
<1>2. Prefix(s, n) \in [1..n -> Byte]
  BY <1>1 DEF Prefix
<1>3. Prefix(s, n) \in Seq(Byte) /\ Len(Prefix(s, n)) = n
  BY <1>1, <1>2, FunctionIsSeq
<1>4. Prefix(s, n) = SubSeq(s, 1, n)
  <2>1. SubSeq(s, 1, n) = [i \in 1..n |-> s[i]]
    BY <1>1, SMT
  <2>2. QED
    BY <2>1 DEF Prefix
<1>5. ASSUME n = Len(s)
      PROVE  Prefix(s, n) = s
  <2>1. \A i \in 1..Len(s) : Prefix(s, n)[i] = s[i]
    BY <1>5 DEF Prefix
  <2>2. QED
    BY <2>1, <1>3, <1>5, SeqEqual
<1>6. QED
  BY <1>3, <1>4, <1>5

----------------------------------------------------------------------------
(* Lemmas about the allocation. *)

LEMMA ReallocKeeps ==
    ASSUME TypeOK, NEW n \in Nat
    PROVE  /\ Realloc(buffer, n) \in [0..(n - 1) -> Cell]
           /\ n >= used => \A i \in 0..(used - 1) : Realloc(buffer, n)[i] = buffer[i]
<1>1. size \in Nat /\ used \in Nat /\ used <= size
  BY DEF TypeOK
<1>2. buffer \in [0..(size - 1) -> Cell]
  BY DEF TypeOK
<1>3. Realloc(buffer, n) \in [0..(n - 1) -> Cell]
  BY <1>2 DEF Realloc, Cell
<1>4. ASSUME n >= used, NEW i \in 0..(used - 1)
      PROVE  Realloc(buffer, n)[i] = buffer[i]
  <2>1. i \in 0..(n - 1) /\ i \in 0..(size - 1)
    BY <1>1, <1>4
  <2>2. QED
    BY <2>1, <1>2 DEF Realloc
<1>5. QED
  BY <1>3, <1>4

(* What the invariant says of the unread bytes. *)
LEMMA UnreadFacts ==
    ASSUME TypeOK
    PROVE  /\ cursor \in Nat /\ used \in Nat /\ size \in Nat
           /\ cursor <= used /\ used <= size
           /\ Unread = Window(buffer, cursor, used)
           /\ \A i \in cursor..(used - 1) : buffer[i] \in Byte
           /\ Unread \in Seq(Byte)
           /\ Len(Unread) = used - cursor
           /\ \A i \in 1..(used - cursor) : Unread[i] = buffer[cursor + i - 1]
<1>1. /\ cursor \in Nat /\ used \in Nat /\ size \in Nat
      /\ cursor <= used /\ used <= size
  BY DEF TypeOK
<1>2. ASSUME NEW i \in cursor..(used - 1)
      PROVE  buffer[i] \in Byte
  <2>1. i \in 0..(size - 1)
    BY <1>1
  <2>2. buffer[i] \in Cell /\ buffer[i] # Junk
    BY <2>1 DEF TypeOK
  <2>3. QED
    BY <2>2 DEF Cell
<1>3. Unread = Window(buffer, cursor, used)
  BY DEF Unread, UnreadBytes, Window
<1>4. IsWindow(buffer, cursor, used, Unread)
  BY <1>1, <1>2, <1>3 DEF IsWindow
<1>5. Cells(buffer, cursor, used, Unread)
  BY <1>4, WindowCells
<1>6. /\ Unread \in Seq(Byte)
      /\ Len(Unread) = used - cursor
      /\ \A i \in 1..(used - cursor) : Unread[i] = buffer[cursor + i - 1]
  BY <1>5 DEF Cells
<1>7. QED
  BY <1>1, <1>2, <1>3, <1>6

(* The invariant of a state, from the bytes of its window. *)
LEMMA TypeFromWindow ==
    ASSUME size' \in Nat, used' \in Nat, cursor' \in Nat,
           cursor' <= used', used' <= size',
           buffer' \in [0..(size' - 1) -> Cell],
           io' \in Seq(Byte),
           \A i \in cursor'..(used' - 1) : buffer'[i] \in Byte
    PROVE  TypeOK'
<1>1. used' \in 0..size' /\ cursor' \in 0..used'
  OBVIOUS
<1>2. \A i \in cursor'..(used' - 1) : buffer'[i] # Junk
  BY BytesAssumption
<1>3. QED
  BY <1>1, <1>2 DEF TypeOK

(* Storing bytes at used, in this allocation or in a larger one that holds   *)
(* the same, puts them behind the unread bytes.                              *)
LEMMA Stores ==
    ASSUME TypeOK, NEW sz \in Nat, used <= sz,
           NEW mem \in [0..(sz - 1) -> Cell],
           \A i \in 0..(used - 1) : mem[i] = buffer[i],
           NEW s \in Seq(Byte), used + Len(s) <= sz,
           buffer' = Memcpy(mem, used, s),
           size' = sz, used' = used + Len(s), cursor' = cursor,
           io' \in Seq(Byte)
    PROVE  TypeOK' /\ Unread' = Cat(Unread, s)
<1> DEFINE new == Memcpy(mem, used, s)
<1>1. /\ cursor \in Nat /\ used \in Nat /\ size \in Nat
      /\ cursor <= used /\ used <= size
      /\ Unread = Window(buffer, cursor, used)
      /\ \A i \in cursor..(used - 1) : buffer[i] \in Byte
  BY UnreadFacts
<1>2. /\ Len(s) \in Nat
      /\ \A i \in 1..Len(s) : s[i] \in Byte
  BY LenProperties, ElementOfSeq
<1>3. new \in [0..(sz - 1) -> Cell]
  <2>1. DOMAIN mem = 0..(sz - 1)
    OBVIOUS
  <2>2. ASSUME NEW i \in 0..(sz - 1), i \in used..(used + Len(s) - 1)
        PROVE  s[i - used + 1] \in Cell
    <3>1. i - used + 1 \in 1..Len(s)
      BY <1>1, <1>2, <2>2
    <3>2. QED
      BY <3>1, <1>2 DEF Cell
  <2>3. QED
    BY <2>1, <2>2 DEF Memcpy
<1>4. ASSUME NEW i \in cursor..(used - 1)
      PROVE  new[i] = buffer[i]
  <2>1. i \in 0..(used - 1) /\ i \in 0..(sz - 1) /\ i \notin used..(used + Len(s) - 1)
    BY <1>1, <1>2
  <2>2. new[i] = mem[i]
    BY <2>1 DEF Memcpy
  <2>3. QED
    BY <2>1, <2>2
<1>5. ASSUME NEW i \in 1..Len(s)
      PROVE  new[used + i - 1] = s[i]
  <2>1. used + i - 1 \in 0..(sz - 1) /\ used + i - 1 \in used..(used + Len(s) - 1)
        /\ used + i - 1 - used + 1 = i
    BY <1>1, <1>2
  <2>2. QED
    BY <2>1 DEF Memcpy
<1> HIDE DEF new
<1> DEFINE top == used + Len(s)
<1>6. Window(new, cursor, top) = Cat(Unread, s)
  <2>1. \A i \in cursor..(used - 1) : new[i] = buffer[i]
    BY <1>4
  <2>2. \A i \in 1..Len(s) : new[used + i - 1] = s[i]
    BY <1>5
  <2>3. WindowGrows(buffer, new, cursor, used, s)
    BY <1>1, <2>1, <2>2 DEF WindowGrows
  <2>4. top \in Nat /\ top - used = Len(s)
    BY <1>1, <1>2
  <2> HIDE DEF top
  <2>5. QED
    BY <1>1, <2>3, <2>4, WindowAppend
<1>7. Unread' = Window(new, cursor, top)
  BY DEF Unread, UnreadBytes, Window, new
<1>8. ASSUME NEW i \in cursor'..(used' - 1)
      PROVE  buffer'[i] \in Byte
  <2>0. buffer' = new
    BY DEF new
  <2>1. CASE i \in cursor..(used - 1)
    BY <2>0, <2>1, <1>1, <1>4
  <2>2. CASE i \notin cursor..(used - 1)
    <3>1. i - used + 1 \in 1..Len(s) /\ used + (i - used + 1) - 1 = i
      BY <2>2, <1>1, <1>2
    <3>2. new[i] = s[i - used + 1]
      BY <3>1, <1>5
    <3>3. QED
      BY <2>0, <3>1, <3>2, <1>2
  <2>3. QED
    BY <2>1, <2>2
<1>9. TypeOK'
  <2>1. /\ size' \in Nat /\ used' \in Nat /\ cursor' \in Nat
        /\ cursor' <= used' /\ used' <= size'
    BY <1>1, <1>2
  <2>2. buffer' \in [0..(size' - 1) -> Cell]
    BY <1>3 DEF new
  <2>3. QED
    BY <2>1, <2>2, <1>8, TypeFromWindow
<1>10. QED
  BY <1>1, <1>6, <1>7, <1>9

----------------------------------------------------------------------------
(* One lemma for each way of changing the buffer. *)

LEMMA ReadStep ==
    ASSUME TypeOK, NEW len \in Nat, NEW dsize \in Nat, Read(len, dsize)
    PROVE  TypeOK' /\ Queue!Take
<1>1. /\ cursor \in Nat /\ used \in Nat /\ size \in Nat
      /\ cursor <= used /\ used <= size
      /\ Unread = Window(buffer, cursor, used)
      /\ \A i \in cursor..(used - 1) : buffer[i] \in Byte
  BY UnreadFacts
<1>2. /\ len \in 0..(used - cursor)
      /\ io' = Prefix(Unread, len)
      /\ cursor' = cursor + len
      /\ buffer' = buffer /\ used' = used /\ size' = size
  BY <1>1 DEF Read, UnreadBytes
<1>3. /\ Window(buffer, cursor + len, used) = SubSeq(Unread, len + 1, Len(Unread))
      /\ io' = SubSeq(Unread, 1, len)
      /\ io' \in Seq(Byte)
  BY <1>1, <1>2, WindowTake
<1>4. Unread' = Window(buffer, cursor + len, used)
  BY <1>2 DEF Unread, UnreadBytes, Window
<1>5. len \in 0..Len(Unread)
  BY <1>2, UnreadFacts
<1>6. TypeOK'
  <2>1. /\ size' \in Nat /\ used' \in Nat /\ cursor' \in Nat
        /\ cursor' <= used' /\ used' <= size'
    BY <1>1, <1>2
  <2>2. buffer' \in [0..(size' - 1) -> Cell]
    BY <1>2 DEF TypeOK
  <2>3. \A i \in cursor'..(used' - 1) : buffer'[i] \in Byte
    BY <1>1, <1>2
  <2>4. QED
    BY <2>1, <2>2, <2>3, <1>3, TypeFromWindow
<1>7. QED
  BY <1>3, <1>4, <1>5, <1>6 DEF Queue!Take

LEMMA LineLengthBound ==
    ASSUME TypeOK, UnreadBytes > 0, NEW dsize \in Nat \ {0}
    PROVE  /\ LineLength(dsize) \in 1..dsize
           /\ LineLength(dsize) <= UnreadBytes
           /\ \A i \in 1..(LineLength(dsize) - 1) : Unread[i] # NewLine
           /\ \/ Unread[LineLength(dsize)] = NewLine
              \/ LineLength(dsize) = dsize
              \/ LineLength(dsize) = UnreadBytes
<1> DEFINE len == Smaller(UnreadBytes, dsize)
           ends == {i \in 1..len : Unread[i] = NewLine}
<1>1. UnreadBytes \in Nat
  BY UnreadFacts DEF UnreadBytes
<1>2. /\ len \in 1..dsize /\ len \in 1..UnreadBytes
      /\ len = dsize \/ len = UnreadBytes
  BY <1>1 DEF Smaller
<1>3. LineLength(dsize)
          = IF ends = {} THEN len ELSE CHOOSE i \in ends : \A j \in ends : i <= j
  BY DEF LineLength
<1>4. CASE ends = {}
  <2>1. LineLength(dsize) = len
    BY <1>3, <1>4
  <2>2. \A i \in 1..len : Unread[i] # NewLine
    BY <1>4
  <2> HIDE DEF len, ends
  <2>3. QED
    BY <2>1, <2>2, <1>1, <1>2
<1>5. CASE ends # {}
  <2>1. ends \subseteq Nat
    OBVIOUS
  <2>2. PICK m \in ends : \A j \in ends : ~(<<j, m>> \in OpToRel(<, Nat))
    <3> HIDE DEF ends
    <3>1. QED
      BY <2>1, <1>5, NatLessThanWellFounded, WFMin
  <2>3. \A j \in ends : m <= j
    <3>1. ASSUME NEW j \in ends
          PROVE  m <= j
      <4>1. m \in Nat /\ j \in Nat
        BY <2>1
      <4>2. ~(j < m)
        <5> HIDE DEF ends
        <5>1. SUFFICES ASSUME j < m
                       PROVE  <<j, m>> \in OpToRel(<, Nat)
          BY <2>2, <3>1
        <5>2. <<j, m>> \in Nat \X Nat /\ <<j, m>>[1] < <<j, m>>[2]
          BY <4>1, <5>1
        <5>3. QED
          BY <5>2 DEF OpToRel
      <4> HIDE DEF ends
      <4>3. QED
        BY <4>1, <4>2
    <3>2. QED
      BY <3>1
  <2> DEFINE l == LineLength(dsize)
  <2>4. l \in ends /\ \A j \in ends : l <= j
    BY <2>3, <1>3, <1>5
  <2>5. l \in 1..len /\ Unread[l] = NewLine
    BY <2>4
  <2>6. ASSUME NEW i \in 1..(l - 1)
        PROVE  Unread[i] # NewLine
    <3>1. i \in 1..len /\ ~(l <= i)
      BY <2>5, <1>2
    <3>2. i \notin ends
      BY <3>1, <2>4
    <3>3. QED
      BY <3>1, <3>2
  <2> HIDE DEF len, ends, l
  <2>7. l \in 1..dsize /\ l <= UnreadBytes
    BY <2>5, <1>1, <1>2
  <2>8. QED
    BY <2>5, <2>6, <2>7 DEF l
<1>6. QED
  BY <1>4, <1>5

LEMMA FetchStep ==
    ASSUME TypeOK, NEW data \in Seq(Byte), FetchBytes(data)
    PROVE  TypeOK' /\ Queue!Put
<1> DEFINE n == Smaller(UnusedBytes, Len(data))
<1>1. /\ cursor \in Nat /\ used \in Nat /\ size \in Nat /\ used <= size
      /\ Len(data) \in Nat
  BY UnreadFacts, LenProperties
<1>2. n \in 0..Len(data) /\ used + n <= size
  BY <1>1 DEF Smaller, UnusedBytes
<1>3. /\ buffer' = Memcpy(buffer, used, Prefix(data, n))
      /\ used' = used + n /\ io' = data /\ cursor' = cursor /\ size' = size
  BY DEF FetchBytes
<1> HIDE DEF n
<1>4. /\ Prefix(data, n) \in Seq(Byte)
      /\ Len(Prefix(data, n)) = n
      /\ Prefix(data, n) = SubSeq(data, 1, n)
  BY <1>2, PrefixOfSeq
<1>5. buffer \in [0..(size - 1) -> Cell]
  BY DEF TypeOK
<1>6. TypeOK' /\ Unread' = Cat(Unread, Prefix(data, n))
  <2> DEFINE s == Prefix(data, n)
  <2>1. /\ s \in Seq(Byte) /\ used + Len(s) <= size
        /\ buffer' = Memcpy(buffer, used, s) /\ used' = used + Len(s)
    BY <1>2, <1>3, <1>4
  <2> HIDE DEF s
  <2>2. TypeOK' /\ Unread' = Cat(Unread, s)
    BY <2>1, <1>1, <1>3, <1>5, Stores
  <2>3. QED
    BY <2>2 DEF s
<1>7. QED
  BY <1>2, <1>3, <1>4, <1>6 DEF Queue!Put, Cat

LEMMA FetchFileStep ==
    ASSUME TypeOK, NEW data \in Seq(Byte), NEW limit \in Nat, FetchFile(data, limit)
    PROVE  TypeOK' /\ Queue!Put
<1>1. /\ cursor \in Nat /\ used \in Nat /\ size \in Nat /\ used <= size
      /\ Len(data) \in Nat
  BY UnreadFacts, LenProperties
<1>2. /\ used + Len(data) <= size
      /\ buffer' = Memcpy(buffer, used, data)
      /\ used' = used + Len(data) /\ io' = data /\ cursor' = cursor /\ size' = size
  BY <1>1 DEF FetchFile, Smaller, UnusedBytes
<1>3. buffer \in [0..(size - 1) -> Cell]
  BY DEF TypeOK
<1>4. TypeOK' /\ Unread' = Cat(Unread, data)
  BY <1>1, <1>2, <1>3, Stores
<1>5. data = SubSeq(data, 1, Len(data)) /\ Len(data) \in 0..Len(data)
  BY <1>1, PrefixOfSeq
<1>6. QED
  BY <1>2, <1>4, <1>5 DEF Queue!Put, Cat

LEMMA KeepStep ==
    ASSUME TypeOK, NEW data \in Seq(Byte), Keep(data)
    PROVE  /\ TypeOK' /\ Queue!Put
           /\ Unread' = Cat(Unread, data)
<1> DEFINE len == Len(data)
           n == IF UnusedBytes < len THEN len + size ELSE size
           mem == Realloc(buffer, n)
<1>1. /\ cursor \in Nat /\ used \in Nat /\ size \in Nat /\ used <= size
      /\ len \in Nat
  BY UnreadFacts, LenProperties
<1>2. n \in Nat /\ used <= n /\ used + len <= n /\ Smaller(n - used, len) = len
  BY <1>1 DEF Smaller, UnusedBytes
<1>3. /\ buffer' = Memcpy(mem, used, Prefix(data, Smaller(n - used, len)))
      /\ size' = n /\ used' = used + Smaller(n - used, len)
      /\ io' = data /\ cursor' = cursor
  BY DEF Keep
<1>4. len \in 0..Len(data) /\ Prefix(data, len) = data
  BY <1>1, PrefixOfSeq
<1> HIDE DEF n
<1>5. buffer' = Memcpy(mem, used, data) /\ used' = used + Len(data)
  BY <1>2, <1>3, <1>4
<1>6. /\ mem \in [0..(n - 1) -> Cell]
      /\ \A i \in 0..(used - 1) : mem[i] = buffer[i]
  BY <1>2, ReallocKeeps
<1>7. used + Len(data) <= n
  BY <1>2
<1> HIDE DEF mem, len
<1>8. TypeOK' /\ Unread' = Cat(Unread, data)
  BY <1>1, <1>2, <1>3, <1>5, <1>6, <1>7, Stores
<1>9. data = SubSeq(data, 1, Len(data)) /\ Len(data) \in 0..Len(data)
  BY <1>1, PrefixOfSeq DEF len
<1>10. QED
  BY <1>3, <1>8, <1>9 DEF Queue!Put, Cat

LEMMA ResizeStep ==
    ASSUME TypeOK, NEW n \in Nat, Resize(n)
    PROVE  TypeOK' /\ Unread' = Unread /\ io' = io
<1>1. /\ cursor \in Nat /\ used \in Nat /\ size \in Nat
      /\ cursor <= used /\ used <= size
      /\ \A i \in cursor..(used - 1) : buffer[i] \in Byte
  BY UnreadFacts
<1>2. /\ n >= used /\ buffer' = Realloc(buffer, n) /\ size' = n
      /\ cursor' = cursor /\ used' = used /\ io' = io
  BY DEF Resize
<1>3. /\ buffer' \in [0..(n - 1) -> Cell]
      /\ \A i \in 0..(used - 1) : buffer'[i] = buffer[i]
  BY <1>2, ReallocKeeps
<1>4. \A i \in cursor..(used - 1) : buffer'[i] = buffer[i]
  BY <1>1, <1>3
<1>5. io \in Seq(Byte)
  BY DEF TypeOK
<1>6. TypeOK'
  <2>1. /\ size' \in Nat /\ used' \in Nat /\ cursor' \in Nat
        /\ cursor' <= used' /\ used' <= size'
    BY <1>1, <1>2
  <2>2. buffer' \in [0..(size' - 1) -> Cell] /\ io' \in Seq(Byte)
    BY <1>2, <1>3, <1>5
  <2>3. \A i \in cursor'..(used' - 1) : buffer'[i] \in Byte
    BY <1>1, <1>2, <1>4
  <2>4. QED
    BY <2>1, <2>2, <2>3, TypeFromWindow
<1>7. \A i \in 1..(used - cursor) : buffer'[cursor + i - 1] = buffer[cursor + i - 1]
  <2>1. \A i \in 1..(used - cursor) : cursor + i - 1 \in cursor..(used - 1)
    BY <1>1
  <2>2. QED
    BY <2>1, <1>4
<1>8. Unread' = Unread
  BY <1>2, <1>7 DEF Unread, UnreadBytes
<1>9. QED
  BY <1>2, <1>6, <1>8

LEMMA ResetStep ==
    ASSUME TypeOK, Reset
    PROVE  TypeOK' /\ Queue!Clear
<1>1. size \in Nat /\ buffer \in [0..(size - 1) -> Cell] /\ io \in Seq(Byte)
  BY DEF TypeOK
<1>2. cursor' = 0 /\ used' = 0 /\ buffer' = buffer /\ size' = size /\ io' = io
  BY DEF Reset
<1>3. TypeOK'
  <2>1. \A i \in cursor'..(used' - 1) : buffer'[i] \in Byte
    BY <1>2
  <2>2. QED
    BY <1>1, <1>2, <2>1, TypeFromWindow
<1>4. Unread' = << >>
  BY <1>2, SMT DEF Unread, UnreadBytes
<1>5. QED
  BY <1>2, <1>3, <1>4 DEF Queue!Clear

LEMMA ShiftedIndex ==
    ASSUME NEW a \in Nat, NEW b \in Nat, NEW c \in Nat, NEW n \in Nat,
           NEW i \in Nat \ {0}, i <= n
    PROVE  /\ a + b + i - 1 \in (a + b)..(a + b + n - 1)
           /\ (a + b + i - 1) - (a + b) + c = c + i - 1
OBVIOUS

(* Where a byte that was moved up by ss, or copied to c, lies. *)
LEMMA StoredIndex ==
    ASSUME NEW c \in Nat, NEW ss \in Nat, NEW u \in Nat, NEW sz \in Nat, c + ss + u <= sz,
           NEW i \in 1..u
    PROVE  /\ c + ss + i - 1 \in 0..(sz - 1)
           /\ c + ss + i - 1 \notin c..(c + ss - 1)
OBVIOUS

LEMMA CopiedIndex ==
    ASSUME NEW c \in Nat, NEW ss \in Nat, NEW u \in Nat, NEW sz \in Nat, c + ss + u <= sz,
           NEW i \in 1..ss
    PROVE  c + i - 1 \in 0..(sz - 1) /\ c + i - 1 \in c..(c + ss - 1) /\ c + i - 1 - c + 1 = i
OBVIOUS

(* Where push_back puts the cursor. *)
Landing(src) == IF Len(src) > cursor THEN 0 ELSE cursor - Len(src)

(* push_back, as what it does to each cell. *)
LEMMA PushBackCells ==
    ASSUME TypeOK, NEW src \in Seq(Byte), PushBack(src),
           NEW c, c = Landing(src)
    PROVE  /\ c \in Nat
           /\ size' \in Nat
           /\ cursor' = c
           /\ used' = c + Len(src) + (used - cursor)
           /\ used' <= size'
           /\ io' = src
           /\ buffer' \in [0..(size' - 1) -> Cell]
           /\ \A i \in 1..Len(src) : buffer'[c + i - 1] = src[i]
           /\ \A i \in 1..(used - cursor) :
                 buffer'[c + Len(src) + i - 1] = buffer[cursor + i - 1]
<1> DEFINE n    == cursor
           u    == UnreadBytes
           ss   == Len(src)
           grow == ss + u > size
           mem  == IF grow THEN Realloc(buffer, size + ss * 2) ELSE buffer
           r    == IF ss > n THEN ss - n ELSE 0
           mvd  == IF used > 0 THEN Memmove(mem, cursor + r, cursor, used) ELSE mem
           r0   == IF used > 0 THEN r ELSE 0
           d    == cursor - Smaller(n, ss - r0)
           sz   == IF grow THEN size + ss * 2 ELSE size
<1>1. /\ cursor \in Nat /\ used \in Nat /\ size \in Nat
      /\ cursor <= used /\ used <= size
      /\ ss \in Nat
      /\ u = used - cursor
  BY UnreadFacts, LenProperties DEF UnreadBytes
<1>2. \A i \in 1..ss : src[i] \in Byte
  BY ElementOfSeq, LenProperties
<1>3. /\ size' = sz
      /\ buffer' = Memcpy(mvd, d, src)
      /\ cursor' = d
      /\ used' = u + Larger(ss, n)
      /\ io' = src
  BY DEF PushBack
<1>4. /\ d = c /\ c \in Nat
      /\ used > 0 => cursor + r = c + ss
      /\ r \in Nat
      /\ u + Larger(ss, n) = c + ss + u
  <2>1. CASE ss > n
    <3>1. c = 0 /\ r = ss - n
      BY <2>1 DEF Landing
    <3>2. r0 = r \/ (r0 = 0 /\ n = 0)
      BY <1>1
    <3>3. Smaller(n, ss - r0) = n
      <4>1. CASE r0 = r
        <5>1. ss - r0 = n
          BY <1>1, <3>1, <4>1
        <5> HIDE DEF r0
        <5>2. QED
          BY <5>1, <1>1 DEF Smaller
      <4>2. CASE r0 = 0 /\ n = 0
        <5> HIDE DEF r0
        <5>1. QED
          BY <1>1, <2>1, <4>2 DEF Smaller
      <4>3. QED
        BY <3>2, <4>1, <4>2
    <3>4. Larger(ss, n) = ss
      BY <1>1, <2>1 DEF Larger
    <3>5. d = 0
      BY <1>1, <3>3
    <3> HIDE DEF r, d
    <3>6. QED
      BY <1>1, <2>1, <3>1, <3>4, <3>5
  <2>2. CASE ~(ss > n)
    <3>1. c = cursor - ss /\ r = 0 /\ r0 = 0
      BY <2>2 DEF Landing
    <3>2. Smaller(n, ss - r0) = ss
      BY <1>1, <2>2, <3>1 DEF Smaller
    <3>3. Larger(ss, n) = n
      BY <1>1, <2>2 DEF Larger
    <3>4. d = cursor - ss
      BY <1>1, <3>2
    <3> HIDE DEF r, d
    <3>5. QED
      BY <1>1, <2>2, <3>1, <3>3, <3>4
  <2>3. QED
    BY <2>1, <2>2
<1>5. /\ sz \in Nat /\ used <= sz
      /\ c + ss + u <= sz
  BY <1>1 DEF Landing
<1>6. /\ mem \in [0..(sz - 1) -> Cell]
      /\ \A i \in 0..(used - 1) : mem[i] = buffer[i]
  <2>1. CASE grow
    <3>1. mem = Realloc(buffer, sz)
      BY <2>1
    <3> HIDE DEF mem, sz
    <3>2. QED
      BY <3>1, <1>1, <1>5, ReallocKeeps
  <2>2. CASE ~grow
    <3>1. mem = buffer /\ sz = size
      BY <2>2
    <3>2. buffer \in [0..(size - 1) -> Cell]
      BY DEF TypeOK
    <3> HIDE DEF mem, sz
    <3>3. QED
      BY <3>1, <3>2
  <2>3. QED
    BY <2>1, <2>2
<1> HIDE DEF mem, sz, d, grow
<1>7. mvd \in [0..(sz - 1) -> Cell]
  <2>1. CASE used > 0
    <3>1. DOMAIN mem = 0..(sz - 1)
      BY <1>6
    <3>2. ASSUME NEW i \in 0..(sz - 1), i \in (cursor + r)..(cursor + r + used - 1)
          PROVE  mem[i - (cursor + r) + cursor] \in Cell
      <4>1. i - (cursor + r) + cursor \in 0..(sz - 1)
        <5> HIDE DEF r
        <5>1. QED
          BY <3>2, <1>1, <1>4, <1>5
      <4>2. QED
        BY <4>1, <1>6
    <3>3. mvd = Memmove(mem, cursor + r, cursor, used)
      BY <2>1
    <3> HIDE DEF mvd, r
    <3>4. QED
      BY <3>1, <3>2, <3>3, <1>6 DEF Memmove
  <2>2. CASE ~(used > 0)
    BY <2>2, <1>6
  <2>3. QED
    BY <2>1, <2>2
<1>8. ASSUME NEW i \in 1..u
      PROVE  mvd[c + ss + i - 1] = buffer[cursor + i - 1]
  <2> DEFINE k == c + ss + i - 1
  <2>1. used > 0 /\ i <= used
    BY <1>1, <1>8
  <2>2. cursor + r = c + ss
    BY <2>1, <1>4
  <2>3. k \in 0..(sz - 1)
    <3>1. c \in Nat /\ ss \in Nat /\ u \in Nat /\ sz \in Nat /\ c + ss + u <= sz
      BY <1>1, <1>4, <1>5
    <3> HIDE DEF u, ss, r
    <3>2. QED
      BY <3>1, StoredIndex
  <2>4. k \in (c + ss)..(c + ss + used - 1) /\ k - (c + ss) + cursor = cursor + i - 1
    <3>1. c \in Nat /\ ss \in Nat /\ cursor \in Nat /\ used \in Nat /\ i \in Nat \ {0}
      BY <1>1, <1>4, <1>8
    <3>2. QED
      BY <3>1, <2>1, ShiftedIndex
  <2>5. mvd = Memmove(mem, c + ss, cursor, used) /\ DOMAIN mem = 0..(sz - 1)
    BY <2>1, <2>2, <1>6
  <2>6. cursor + i - 1 \in 0..(used - 1)
    BY <1>1, <1>8
  <2> HIDE DEF mvd, k
  <2>7. mvd[k] = mem[cursor + i - 1]
    BY <2>3, <2>4, <2>5 DEF Memmove
  <2>8. QED
    BY <2>6, <2>7, <1>6 DEF k
<1> HIDE DEF mvd, r, r0
<1>9. buffer' = Memcpy(mvd, c, src) /\ DOMAIN mvd = 0..(sz - 1)
  BY <1>3, <1>4, <1>7
<1>10. buffer' \in [0..(sz - 1) -> Cell]
  <2>1. ASSUME NEW i \in 0..(sz - 1), i \in c..(c + ss - 1)
        PROVE  src[i - c + 1] \in Cell
    <3>1. i - c + 1 \in 1..ss
      <4>1. c \in Nat /\ ss \in Nat
        BY <1>1, <1>4
      <4> HIDE DEF ss, sz
      <4>2. QED
        BY <2>1, <4>1
    <3>2. QED
      BY <3>1, <1>2 DEF Cell
  <2>2. QED
    BY <2>1, <1>7, <1>9 DEF Memcpy
<1>11. ASSUME NEW i \in 1..ss
       PROVE  buffer'[c + i - 1] = src[i]
  <2> DEFINE j == c + i - 1
  <2>1. j \in 0..(sz - 1) /\ j \in c..(c + ss - 1) /\ j - c + 1 = i
    <3>1. c \in Nat /\ ss \in Nat /\ u \in Nat /\ sz \in Nat /\ c + ss + u <= sz
      BY <1>1, <1>4, <1>5
    <3> HIDE DEF u, ss
    <3>2. QED
      BY <3>1, CopiedIndex
  <2> HIDE DEF j
  <2>2. buffer'[j] = src[j - c + 1]
    BY <2>1, <1>9 DEF Memcpy
  <2>3. QED
    BY <2>1, <2>2 DEF j
<1>12. ASSUME NEW i \in 1..u
       PROVE  buffer'[c + ss + i - 1] = buffer[cursor + i - 1]
  <2>1. /\ c + ss + i - 1 \in 0..(sz - 1)
        /\ c + ss + i - 1 \notin c..(c + ss - 1)
    <3>1. c \in Nat /\ ss \in Nat /\ u \in Nat /\ sz \in Nat /\ c + ss + u <= sz
      BY <1>1, <1>4, <1>5
    <3> HIDE DEF u, ss
    <3>2. QED
      BY <3>1, StoredIndex
  <2>2. buffer'[c + ss + i - 1] = mvd[c + ss + i - 1]
    BY <2>1, <1>9 DEF Memcpy
  <2>3. QED
    BY <2>2, <1>8
<1>13. used' = c + ss + (used - cursor) /\ used' <= size'
  BY <1>1, <1>3, <1>4, <1>5
<1>14. \A i \in 1..(used - cursor) : buffer'[c + ss + i - 1] = buffer[cursor + i - 1]
  BY <1>1, <1>12
<1>15. QED
  BY <1>3, <1>4, <1>5, <1>10, <1>11, <1>13, <1>14

LEMMA PushBackStep ==
    ASSUME TypeOK, NEW src \in Seq(Byte), PushBack(src)
    PROVE  TypeOK' /\ Queue!PushBack
<1> DEFINE c == Landing(src)
           ss == Len(src)
           e == c + ss + (used - cursor)
<1>1. /\ cursor \in Nat /\ used \in Nat /\ cursor <= used
      /\ Unread = Window(buffer, cursor, used)
      /\ \A i \in cursor..(used - 1) : buffer[i] \in Byte
      /\ ss \in Nat
  BY UnreadFacts, LenProperties
<1>2. c = Landing(src)
  OBVIOUS
<1> HIDE DEF c
<1>3. /\ c \in Nat /\ size' \in Nat
      /\ cursor' = c /\ used' = e /\ used' <= size' /\ io' = src
      /\ buffer' \in [0..(size' - 1) -> Cell]
      /\ \A i \in 1..Len(src) : buffer'[c + i - 1] = src[i]
      /\ \A i \in 1..(used - cursor) :
            buffer'[c + Len(src) + i - 1] = buffer[cursor + i - 1]
  BY <1>2, PushBackCells
<1>4. /\ Window(buffer', c, e) = Cat(src, Window(buffer, cursor, used))
      /\ \A i \in c..(e - 1) : buffer'[i] \in Byte
  <2>1. WindowFollows(buffer, buffer', cursor, used, c, e, src)
    <3>1. e - c = Len(src) + (used - cursor)
      BY <1>1, <1>3
    <3> HIDE DEF e
    <3>2. QED
      BY <1>1, <1>3, <3>1 DEF WindowFollows
  <2>2. e \in Nat
    BY <1>1, <1>3
  <2>3. cursor \in Nat /\ used \in Nat /\ c \in Nat
    BY <1>1, <1>3
  <2> HIDE DEF e
  <2>4. QED
    BY <2>1, <2>2, <2>3, WindowPrepend, Zenon
<1>5. Unread' = Window(buffer', c, e)
  BY <1>3 DEF Unread, UnreadBytes, Window
<1>6. e \in Nat /\ c <= e
  BY <1>1, <1>3
<1> HIDE DEF e
<1>7. TypeOK'
  BY <1>3, <1>4, <1>6, TypeFromWindow
<1>8. QED
  BY <1>1, <1>3, <1>4, <1>5, <1>7 DEF Queue!PushBack, Cat

----------------------------------------------------------------------------
(* Every step keeps the invariant and is a step of the queue, or leaves the  *)
(* queue alone.                                                              *)
LEMMA NextStep ==
    ASSUME TypeOK, [Next]_vars
    PROVE  TypeOK' /\ [Queue!Next]_(Queue!vars)
<1> USE DEF Queue!Next, Queue!vars
<1>0. /\ \A n \in Sizes : n \in Nat \ {0}
      /\ \A t \in Texts : t \in Seq(Byte)
  BY SizesAssumption, BytesAssumption
<1>1. ASSUME NEW len \in Sizes, NEW dsize \in Sizes, Read(len, dsize)
      PROVE  TypeOK' /\ [Queue!Next]_(Queue!vars)
  BY <1>0, <1>1, ReadStep
<1>2. ASSUME NEW n \in Sizes, Resize(n)
      PROVE  TypeOK' /\ [Queue!Next]_(Queue!vars)
  BY <1>0, <1>2, ResizeStep
<1>3. ASSUME NEW data \in Texts, FetchBytes(data)
      PROVE  TypeOK' /\ [Queue!Next]_(Queue!vars)
  BY <1>0, <1>3, FetchStep
<1>4. ASSUME NEW data \in Texts, NEW limit \in Sizes, FetchFile(data, limit)
      PROVE  TypeOK' /\ [Queue!Next]_(Queue!vars)
  BY <1>0, <1>4, FetchFileStep
<1>5. ASSUME NEW dsize \in Sizes, ReadLine(dsize)
      PROVE  TypeOK' /\ [Queue!Next]_(Queue!vars)
  <2>1. UnreadBytes > 0 /\ Read(LineLength(dsize), dsize)
    BY <1>5 DEF ReadLine
  <2>2. LineLength(dsize) \in Nat
    BY <1>0, <2>1, LineLengthBound
  <2>3. QED
    BY <1>0, <2>1, <2>2, ReadStep
<1>6. ASSUME NEW src \in Texts, PushBack(src)
      PROVE  TypeOK' /\ [Queue!Next]_(Queue!vars)
  BY <1>0, <1>6, PushBackStep
<1>7. ASSUME Reset
      PROVE  TypeOK' /\ [Queue!Next]_(Queue!vars)
  BY <1>7, ResetStep
<1>8. ASSUME NEW data \in Texts, Keep(data)
      PROVE  TypeOK' /\ [Queue!Next]_(Queue!vars)
  BY <1>0, <1>8, KeepStep
<1>9. ASSUME UNCHANGED vars
      PROVE  TypeOK' /\ [Queue!Next]_(Queue!vars)
  <2>1. Unread' = Unread /\ io' = io
    BY <1>9 DEF vars, Unread, UnreadBytes
  <2>2. TypeOK'
    BY <1>9 DEF vars, TypeOK
  <2>3. QED
    BY <2>1, <2>2
<1>10. QED
  BY <1>1, <1>2, <1>3, <1>4, <1>5, <1>6, <1>7, <1>8, <1>9 DEF Next

LEMMA InitStep ==
    ASSUME Init
    PROVE  TypeOK /\ Queue!Init
<1>1. size \in Nat
  BY SizesAssumption DEF Init
<1>2. io = << >> /\ io \in Seq(Byte)
  BY EmptySeq DEF Init
<1>3. buffer \in [0..(size - 1) -> Cell]
  BY DEF Init, Cell
<1>4. TypeOK
  BY <1>1, <1>2, <1>3 DEF TypeOK, Init
<1>5. Unread = << >>
  BY SMT DEF Init, Unread, UnreadBytes
<1>6. QED
  BY <1>2, <1>4, <1>5 DEF Queue!Init

(* The bounds of cursor, used and size, and that no byte is ever handed out  *)
(* that was not stored, under every sequence of calls.                       *)
THEOREM TypeCorrect == Spec => []TypeOK
<1>1. Init => TypeOK
  BY InitStep
<1>2. TypeOK /\ [Next]_vars => TypeOK'
  BY NextStep
<1>3. QED
  BY <1>1, <1>2, PTL DEF Spec

(* az_buffer is a queue: for all texts, sizes and orders of calls.           *)
THEOREM QueueImplemented == Spec => ImplementsQueue
<1>1. Init => Queue!Init
  BY InitStep
<1>2. TypeOK /\ [Next]_vars => [Queue!Next]_(Queue!vars)
  BY NextStep
<1>3. QED
  BY <1>1, <1>2, TypeCorrect, PTL DEF Spec, ImplementsQueue, Queue!Spec

(* Making room first is enough: nothing handed over is lost.                 *)
THEOREM KeepsAllHolds == Spec => KeepsAll
<1>1. TypeOK /\ [Next]_vars
          => [\A data \in Texts : Keep(data) => Unread' = Unread \o data]_vars
  <2>1. SUFFICES ASSUME TypeOK, NEW data \in Texts, Keep(data)
                 PROVE  Unread' = Unread \o data
    OBVIOUS
  <2>2. data \in Seq(Byte)
    BY BytesAssumption
  <2>3. Unread' = Cat(Unread, data)
    BY <2>1, <2>2, KeepStep
  <2>4. QED
    BY <2>3 DEF Cat
<1>2. QED
  BY <1>1, TypeCorrect, PTL DEF Spec, KeepsAll

(* Lines are cut where they end, and nowhere else unless the bytes or the    *)
(* room end.                                                                 *)
THEOREM LinesWholeHolds == Spec => LinesWhole
<1> DEFINE Whole(dsize) ==
        /\ \A i \in 1..(Len(io') - 1) : io'[i] # NewLine
        /\ \/ io'[Len(io')] = NewLine
           \/ Len(io') = dsize
           \/ UnreadBytes' = 0
<1>1. ASSUME TypeOK, NEW dsize \in Sizes, ReadLine(dsize)
      PROVE  Whole(dsize)
  <2> DEFINE l == LineLength(dsize)
  <2>1. UnreadBytes > 0 /\ Read(l, dsize) /\ dsize \in Nat \ {0}
    BY <1>1, SizesAssumption DEF ReadLine
  <2>2. /\ l \in 1..dsize
        /\ l <= UnreadBytes
        /\ \A i \in 1..(l - 1) : Unread[i] # NewLine
        /\ Unread[l] = NewLine \/ l = dsize \/ l = UnreadBytes
    BY <1>1, <2>1, LineLengthBound
  <2> HIDE DEF l
  <2>3. /\ Unread \in Seq(Byte) /\ Len(Unread) = used - cursor
        /\ used \in Nat /\ cursor \in Nat /\ cursor <= used
    BY <1>1, UnreadFacts
  <2>4. io' = Prefix(Unread, l) /\ cursor' = cursor + l /\ used' = used
    BY <2>1 DEF Read
  <2>5. l \in 0..Len(Unread)
    BY <2>1, <2>2, <2>3 DEF UnreadBytes
  <2>6. Len(io') = l
    BY <2>3, <2>4, <2>5, PrefixOfSeq
  <2>7. \A i \in 1..l : io'[i] = Unread[i]
    BY <2>4 DEF Prefix
  <2>8. \A i \in 1..(Len(io') - 1) : io'[i] # NewLine
    BY <2>1, <2>2, <2>6, <2>7
  <2>9. l = UnreadBytes => UnreadBytes' = 0
    BY <2>3, <2>4 DEF UnreadBytes
  <2>10. l \in 1..l
    BY <2>1, <2>2
  <2>11. QED
    BY <2>2, <2>6, <2>7, <2>8, <2>9, <2>10
<1>2. TypeOK /\ [Next]_vars => [\A dsize \in Sizes : ReadLine(dsize) => Whole(dsize)]_vars
  BY <1>1
<1>3. QED
  BY <1>2, TypeCorrect, PTL DEF Spec, LinesWhole
==============================================================================
