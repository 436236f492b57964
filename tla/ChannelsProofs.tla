--------------------------- MODULE ChannelsProofs ----------------------------
(***************************************************************************)
(* What is proved about Channels for any patterns, days and connections:   *)
(* types, the channel numbers, that main loop and signal handler never     *)
(* leave each other without an answer, and that no answer one takes from   *)
(* the other makes a context keep a message that was sent. Then, where the *)
(* date changes no name without the file: every text finds the channel of  *)
(* the log it was read from, wherever alarms and failures fall.            *)
(***************************************************************************)
EXTENDS Channels, SequenceTheorems, TLAPS

----------------------------------------------------------------------------
(* Lemmas about the operators. *)

LEMMA NamesType ==
    ASSUME NEW p \in Pattern, NEW d \in 0..MaxDay
    PROVE  /\ FileOf(p, d) \in Name
           /\ NameOf(p, d) \in Name
           /\ NewContext(p, d) \in Context
<1>1. FileOf(p, d) \in Name /\ NameOf(p, d) \in Name
  BY BoundsAssumption DEF FileOf, NameOf, Name
<1>2. QED
  BY <1>1 DEF NewContext, Context

(* A channel list without its i-th element. *)
Without(s, i) == SubSeq(s, 1, i - 1) \o SubSeq(s, i + 1, Len(s))

LEMMA WithoutProperties ==
    ASSUME NEW S, NEW s \in Seq(S), NEW i \in 1..Len(s)
    PROVE  /\ Without(s, i) \in Seq(S)
           /\ Len(Without(s, i)) = Len(s) - 1
           /\ \A j \in 1..(Len(s) - 1) :
                 Without(s, i)[j] = IF j < i THEN s[j] ELSE s[j + 1]
<1> DEFINE a == SubSeq(s, 1, i - 1)
           b == SubSeq(s, i + 1, Len(s))
<1>1. Len(s) \in Nat
  BY LenProperties
<1>2. /\ a \in Seq(S)
      /\ Len(a) = i - 1
      /\ \A j \in 1..(i - 1) : a[j] = s[j]
  <2>1. a \in Seq(S) /\ Len(a) = (IF 1 <= i - 1 THEN i - 1 - 1 + 1 ELSE 0)
    BY <1>1, SubSeqProperties
  <2>2. \A j \in 1..(i - 1) : a[j] = s[1 + j - 1]
    BY <1>1, SubSeqProperties
  <2>3. QED
    BY <1>1, <2>1, <2>2
<1>3. /\ b \in Seq(S)
      /\ Len(b) = Len(s) - i
      /\ \A j \in 1..(Len(s) - i) : b[j] = s[i + j]
  <2>1. /\ b \in Seq(S)
        /\ Len(b) = (IF i + 1 <= Len(s) THEN Len(s) - (i + 1) + 1 ELSE 0)
    BY <1>1, SubSeqProperties
  <2>2. \A j \in 1..(Len(s) - (i + 1) + 1) : b[j] = s[i + 1 + j - 1]
    BY <1>1, SubSeqProperties
  <2>3. QED
    BY <1>1, <2>1, <2>2
<1> HIDE DEF a, b
<1>4. /\ a \o b \in Seq(S)
      /\ Len(a \o b) = Len(a) + Len(b)
      /\ \A j \in 1..(Len(a) + Len(b)) :
            (a \o b)[j] = IF j <= Len(a) THEN a[j] ELSE b[j - Len(a)]
  BY <1>2, <1>3, ConcatProperties
<1>5. ASSUME NEW j \in 1..(Len(s) - 1)
      PROVE  (a \o b)[j] = IF j < i THEN s[j] ELSE s[j + 1]
  <2>1. (a \o b)[j] = IF j <= i - 1 THEN a[j] ELSE b[j - (i - 1)]
    BY <1>1, <1>2, <1>3, <1>4
  <2>2. CASE j < i
    BY <1>1, <1>2, <2>1, <2>2
  <2>3. CASE ~(j < i)
    <3>1. j - (i - 1) \in 1..(Len(s) - i)
      BY <1>1, <2>3
    <3>2. b[j - (i - 1)] = s[i + (j - (i - 1))]
      BY <1>3, <3>1
    <3>3. QED
      BY <1>1, <2>1, <2>3, <3>2
  <2>4. QED
    BY <2>2, <2>3
<1>6. Without(s, i) = a \o b
  BY DEF Without, a, b
<1>7. Len(a \o b) = Len(s) - 1
  BY <1>1, <1>2, <1>3, <1>4
<1>8. QED
  BY <1>4, <1>5, <1>6, <1>7

LEMMA FunctionIsSeq ==
    ASSUME NEW S, NEW n \in Nat, NEW f \in [1..n -> S]
    PROVE  f \in Seq(S)
BY SMT

----------------------------------------------------------------------------
(* The inductive invariant. *)

(* Where the main loop is at a context, there is one. *)
MainAtContext ==
    main.pc \in {"init", "init answer", "read", "init again",
                 "init again answer", "send", "data answer"} => main.k > 0

HandlerAtPattern == sig.waits => sig.p # 0

(* Each new channel is put before the others with a larger number. *)
Decreasing(t) == /\ \A i \in DOMAIN t : t[i].id >= 1
                 /\ \A i, j \in DOMAIN t : i < j => t[i].id > t[j].id

ChannelInv == /\ TypeOK
              /\ MainAtContext
              /\ HandlerAtPattern
              /\ Decreasing(table)
              /\ OneEach

LEMMA ChannelIds ==
    ASSUME NEW t \in Seq(Channel)
    PROVE  \A i \in DOMAIN t : t[i] \in Channel /\ t[i].id \in Nat
<1>1. \A i \in DOMAIN t : t[i] \in Channel
  BY LenProperties, ElementOfSeq
<1>2. \A c \in Channel : c.id \in Nat
  BY DEF Channel
<1>3. QED
  BY <1>1, <1>2

(* A channel with a number above the head's. *)
ConsDecreasing(c, t) ==
    /\ c.id >= 1
    /\ t # << >> => c.id > t[1].id

LEMMA DecreasingCons ==
    ASSUME NEW t \in Seq(Channel), NEW c \in Channel, Decreasing(t), ConsDecreasing(c, t)
    PROVE  Decreasing(<<c>> \o t)
<1> DEFINE u == <<c>> \o t
<1>1. Len(t) \in Nat /\ DOMAIN t = 1..Len(t)
  BY LenProperties
<1>2. /\ DOMAIN u = 1..(Len(t) + 1)
      /\ u[1] = c
      /\ \A i \in 2..(Len(t) + 1) : u[i] = t[i - 1] /\ i - 1 \in DOMAIN t
  BY <1>1
<1> HIDE DEF u
<1>3. c.id \in Nat /\ \A i \in DOMAIN t : t[i].id \in Nat
  BY ChannelIds DEF Channel
<1>4. \A i \in DOMAIN t : c.id > t[i].id
  <2> SUFFICES ASSUME NEW i \in DOMAIN t
               PROVE  c.id > t[i].id
    OBVIOUS
  <2>1. t # << >> /\ 1 \in DOMAIN t
    BY <1>1
  <2>2. c.id > t[1].id
    BY <2>1 DEF ConsDecreasing
  <2>3. i = 1 \/ t[1].id > t[i].id
    BY <1>1, <2>1 DEF Decreasing
  <2>4. QED
    BY <1>3, <2>1, <2>2, <2>3
<1>5. ASSUME NEW i \in DOMAIN u
      PROVE  u[i].id >= 1
  <2>1. CASE i = 1
    BY <1>2, <2>1 DEF ConsDecreasing
  <2>2. CASE i # 1
    <3>1. i \in 2..(Len(t) + 1)
      BY <1>1, <1>2, <2>2
    <3>2. QED
      BY <1>2, <3>1 DEF Decreasing
  <2>3. QED
    BY <2>1, <2>2
<1>6. ASSUME NEW i \in DOMAIN u, NEW j \in DOMAIN u, i < j
      PROVE  u[i].id > u[j].id
  <2>1. j \in 2..(Len(t) + 1)
    BY <1>1, <1>2, <1>6
  <2>2. u[j] = t[j - 1] /\ j - 1 \in DOMAIN t
    BY <1>2, <2>1
  <2>3. CASE i = 1
    BY <1>2, <1>4, <2>2, <2>3
  <2>4. CASE i # 1
    <3>1. i \in 2..(Len(t) + 1)
      BY <1>1, <1>2, <2>4
    <3>2. u[i] = t[i - 1] /\ i - 1 \in DOMAIN t
      BY <1>2, <3>1
    <3>3. i - 1 < j - 1
      BY <1>6, <2>1, <3>1
    <3>4. t[i - 1].id > t[j - 1].id
      BY <2>2, <3>2, <3>3 DEF Decreasing
    <3>5. QED
      BY <2>2, <3>2, <3>4
  <2>5. QED
    BY <2>3, <2>4
<1>7. Decreasing(u)
  BY <1>5, <1>6 DEF Decreasing
<1>8. QED
  BY <1>7 DEF u

LEMMA DecreasingWithout ==
    ASSUME NEW t \in Seq(Channel), NEW i \in DOMAIN t, Decreasing(t)
    PROVE  Without(t, i) \in Seq(Channel) /\ Decreasing(Without(t, i))
<1> DEFINE u == Without(t, i)
           At0(j) == IF j < i THEN j ELSE j + 1
<1>1. Len(t) \in Nat /\ DOMAIN t = 1..Len(t) /\ i \in 1..Len(t)
  BY LenProperties
<1>2. /\ u \in Seq(Channel)
      /\ Len(u) = Len(t) - 1
      /\ \A j \in 1..(Len(t) - 1) : u[j] = IF j < i THEN t[j] ELSE t[j + 1]
  BY <1>1, WithoutProperties
<1> HIDE DEF u
<1>3. DOMAIN u = 1..(Len(t) - 1)
  BY <1>2, LenProperties
<1>4. \A j \in DOMAIN u : At0(j) \in DOMAIN t /\ u[j] = t[At0(j)]
  BY <1>1, <1>2, <1>3
<1>5. \A j, k \in DOMAIN u : j < k => At0(j) < At0(k)
  BY <1>1, <1>3
<1> HIDE DEF At0
<1>6. Decreasing(u)
  BY <1>4, <1>5 DEF Decreasing
<1>7. QED
  BY <1>2, <1>6 DEF u

(* The number of a new channel is one more than that of the list's head. *)
LEMMA NextNumberIs ==
    ASSUME table \in Seq(Channel), Decreasing(table)
    PROVE  NextNumber = IF table = << >> THEN 1 ELSE table[1].id + 1
<1> DEFINE M == IF table = << >> THEN 0 ELSE table[1].id
           S == Numbers \cup {0}
<1>1. Len(table) \in Nat /\ DOMAIN table = 1..Len(table)
  BY LenProperties
<1>2. table # << >> => Len(table) >= 1
  BY <1>1, EmptySeq
<1>3. \A i \in DOMAIN table : table[i].id \in Nat
  BY ChannelIds
<1>4. M \in Nat /\ M \in S
  BY <1>1, <1>2, <1>3 DEF Numbers
<1>5. \A m \in S : m \in Nat
  BY <1>3 DEF Numbers
<1>6. \A m \in S : m <= M
  <2> SUFFICES ASSUME NEW m \in S
               PROVE  m <= M
    OBVIOUS
  <2>1. CASE m = 0
    BY <1>4, <2>1
  <2>2. CASE m # 0
    <3>1. PICK i \in DOMAIN table : m = table[i].id
      BY <2>2 DEF Numbers
    <3>2. table # << >> /\ 1 \in DOMAIN table
      BY <1>1, <3>1
    <3>3. i = 1 \/ 1 < i
      BY <1>1, <3>1
    <3>4. 1 < i => table[1].id > table[i].id
      BY <3>1, <3>2 DEF Decreasing
    <3>5. M = table[1].id
      BY <3>2
    <3>6. QED
      BY <1>3, <3>1, <3>2, <3>3, <3>4, <3>5
  <2>3. QED
    BY <2>1, <2>2
<1> HIDE DEF M, S
<1>7. \A x \in S : (\A m \in S : m <= x) => x = M
  BY <1>4, <1>5, <1>6
<1>8. (CHOOSE n \in S : \A m \in S : m <= n) = M
  BY <1>4, <1>6, <1>7
<1>9. NextNumber = 1 + M
  BY <1>8 DEF NextNumber, S
<1>10. QED
  BY <1>4, <1>9 DEF M

LEMMA PositionIs ==
    ASSUME table \in Seq(Channel), table # << >>, Decreasing(table), NEW n \in Nat
    PROVE  /\ Position(n) \in DOMAIN table
           /\ n \in Numbers => table[Position(n)].id = n
<1>1. Len(table) \in Nat /\ DOMAIN table = 1..Len(table) /\ Len(table) \in DOMAIN table
  BY LenProperties, EmptySeq
<1>2. CASE n \notin Numbers
  BY <1>1, <1>2 DEF Position
<1>3. CASE n \in Numbers
  <2>1. PICK i \in DOMAIN table : table[i].id = n
    BY <1>3 DEF Numbers
  <2>2. ASSUME NEW j \in 1..(i - 1)
        PROVE  table[j].id # n
    <3>1. j \in DOMAIN table /\ j < i
      BY <1>1, <2>1
    <3>2. table[j].id > table[i].id
      BY <2>1, <3>1 DEF Decreasing
    <3>3. table[j].id \in Nat /\ table[i].id \in Nat
      BY <2>1, <3>1, ChannelIds
    <3>4. QED
      BY <2>1, <3>2, <3>3
  <2>3. \E x \in DOMAIN table :
            table[x].id = n /\ \A j \in 1..(x - 1) : table[j].id # n
    BY <2>1, <2>2
  <2>4. QED
    BY <1>3, <2>3 DEF Position
<1>4. QED
  BY <1>2, <1>3

----------------------------------------------------------------------------
(* Types. *)

LEMMA InitialState == Init => ChannelInv
<1> SUFFICES ASSUME Init
             PROVE  ChannelInv
  OBVIOUS
<1>1. Len(Patterns) \in Nat /\ Len(Patterns) >= 1 /\ Pattern = 1..Len(Patterns)
  BY PatternsAssumption, LenProperties, EmptySeq DEF Pattern
<1>2. cxts \in Seq(Context) /\ Len(cxts) = Len(Patterns)
  <2>1. \A p \in 1..Len(Patterns) : NewContext(p, 0) \in Context
    BY <1>1, NamesType, BoundsAssumption
  <2>2. cxts = [p \in 1..Len(Patterns) |-> NewContext(p, 0)]
    BY <1>1 DEF Init
  <2>3. cxts \in [1..Len(Patterns) -> Context]
    BY <2>1, <2>2
  <2>4. cxts \in Seq(Context)
    BY <1>1, <2>3, FunctionIsSeq
  <2>5. QED
    BY <1>1, <2>3, <2>4, LenProperties
<1>3. TypeOK
  <2>1. /\ day \in 0..MaxDay
        /\ nconn \in 0..MaxConn
        /\ sock \in {"none", "up", "dead"}
    BY BoundsAssumption DEF Init
  <2>2. /\ main \in [pc : {"serve"}, k : {0}]
        /\ sig \in [p : {0}, day : {0}, waits : {FALSE}]
    BY DEF Init
  <2>3. rc \in BOOLEAN /\ edge \in BOOLEAN
    BY DEF Init
  <2>4. req \in Seq(Request) /\ resp \in Seq(Reply) /\ table \in Seq(Channel)
    BY DEF Init
  <2>5. 0 \in 0..Len(Patterns) /\ 0 \in 0..MaxDay /\ 0 \in 0..Len(cxts)
    BY <1>1, <1>2, BoundsAssumption
  <2>6. QED
    BY <1>2, <2>1, <2>2, <2>3, <2>4, <2>5 DEF TypeOK
<1>4. MainAtContext /\ HandlerAtPattern /\ OneEach
  BY DEF Init, MainAtContext, HandlerAtPattern, OneEach, Waiting
<1>5. Decreasing(table)
  BY DEF Init, Decreasing
<1>6. QED
  BY <1>3, <1>4, <1>5 DEF ChannelInv

(* A message of a context, and of the context the handler releases. *)
LEMMA MessageType ==
    ASSUME TypeOK, main.k > 0, NEW code \in {"INIT", "DATA"}, NEW n \in Nat
    PROVE  Message(code, n) \in Request
<1>0. main.k \in 0..Len(cxts) /\ cxts \in Seq(Context)
  BY DEF TypeOK
<1>1. main.k \in 1..Len(cxts)
  BY <1>0, LenProperties
<1>2. cxts[main.k] \in Context
  BY <1>0, <1>1, ElementOfSeq
<1>3. \A c \in Context : c.name \in Name
  BY DEF Context
<1>4. QED
  BY <1>2, <1>3 DEF Message, Request, cxt

LEMMA SendType ==
    ASSUME TypeOK, NEW m \in Request, SendSucceeds(m) \/ SendFails
    PROVE  /\ sock' \in {"none", "up", "dead"}
           /\ nconn' \in 0..MaxConn
           /\ req' \in Seq(Request)
           /\ resp' \in Seq(Reply)
           /\ edge' \in BOOLEAN
           /\ table' \in Seq(Channel)
<1>1. Append(req, m) \in Seq(Request)
  BY AppendProperties DEF TypeOK
<1>2. CASE SendSucceeds(m)
  BY <1>1, <1>2 DEF TypeOK, SendSucceeds
<1>3. CASE SendFails
  BY <1>3 DEF TypeOK, SendFails
<1>4. QED
  BY <1>2, <1>3

LEMMA ReceiveType ==
    ASSUME TypeOK, ReceiveSucceeds \/ ReceiveFails
    PROVE  /\ sock' \in {"none", "up", "dead"}
           /\ nconn' \in 0..MaxConn
           /\ req' \in Seq(Request)
           /\ resp' \in Seq(Reply)
           /\ edge' \in BOOLEAN
           /\ table' \in Seq(Channel)
<1>1. CASE ReceiveSucceeds
  BY <1>1, HeadTailProperties DEF TypeOK, ReceiveSucceeds
<1>2. CASE ReceiveFails
  BY <1>2 DEF TypeOK, ReceiveFails
<1>3. QED
  BY <1>1, <1>2

(* A field of the context at hand changes. *)
LEMMA ContextSet ==
    ASSUME NEW k \in Nat, NEW c,
           k \in DOMAIN cxts => c \in Context,
           cxts \in Seq(Context), cxts' = [cxts EXCEPT ![k] = c]
    PROVE  cxts' \in Seq(Context) /\ Len(cxts') = Len(cxts)
<1>1. Len(cxts) \in Nat /\ DOMAIN cxts = 1..Len(cxts)
  BY LenProperties
<1>2. \A i \in 1..Len(cxts) : cxts'[i] \in Context
  BY <1>1, ElementOfSeq
<1>3. cxts' \in [1..Len(cxts) -> Context]
  BY <1>1, <1>2
<1>4. cxts' \in Seq(Context)
  BY <1>1, <1>3, FunctionIsSeq
<1>5. QED
  BY <1>1, <1>3, <1>4, LenProperties

PCs == {"serve", "run", "init", "init answer", "read", "init again",
        "init again answer", "send", "data answer", "reconnect"}

(* The variables of the follower, and those of the connection. *)
FollowerType == /\ cxts \in Seq(Context)
                /\ main \in [pc : PCs, k : 0..Len(cxts)]
                /\ rc \in BOOLEAN
                /\ sig \in [p : 0..Len(Patterns), day : 0..MaxDay, waits : BOOLEAN]

ConnectionType == /\ sock \in {"none", "up", "dead"}
                  /\ nconn \in 0..MaxConn
                  /\ req \in Seq(Request)
                  /\ resp \in Seq(Reply)
                  /\ edge \in BOOLEAN
                  /\ table \in Seq(Channel)

LEMMA TypeParts == TypeOK <=> day \in 0..MaxDay /\ FollowerType /\ ConnectionType
BY Zenon DEF TypeOK, FollowerType, ConnectionType, PCs

(* The context at hand is one of the list. *)
LEMMA AtContext ==
    ASSUME FollowerType, main.k > 0
    PROVE  main.k \in 1..Len(cxts) /\ main.k \in DOMAIN cxts /\ cxt \in Context
<1>1. main.k \in 0..Len(cxts) /\ cxts \in Seq(Context)
  BY DEF FollowerType
<1>2. main.k \in 1..Len(cxts)
  BY <1>1, LenProperties
<1>3. cxts[main.k] \in Context
  BY <1>1, <1>2, ElementOfSeq
<1>4. QED
  BY <1>1, <1>2, <1>3, LenProperties DEF cxt

LEMMA ResetType ==
    ASSUME cxts \in Seq(Context), ResetContexts
    PROVE  cxts' \in Seq(Context) /\ Len(cxts') = Len(cxts)
<1>1. Len(cxts) \in Nat /\ DOMAIN cxts = 1..Len(cxts)
  BY LenProperties
<1>2. \A k \in 1..Len(cxts) :
          [cxts[k] EXCEPT !.opened = FALSE, !.held = FALSE] \in Context
  <2>1. \A c \in Context : [c EXCEPT !.opened = FALSE, !.held = FALSE] \in Context
    BY DEF Context
  <2>2. QED
    BY <1>1, <2>1, ElementOfSeq
<1>3. cxts' \in [1..Len(cxts) -> Context]
  BY <1>1, <1>2 DEF ResetContexts
<1>4. cxts' \in Seq(Context)
  BY <1>1, <1>3, FunctionIsSeq
<1>5. QED
  BY <1>1, <1>3, <1>4, LenProperties

LEMMA FieldSet ==
    ASSUME FollowerType, main.k > 0, NEW b \in BOOLEAN, NEW n \in Nat,
           \/ cxts' = [cxts EXCEPT ![main.k].opened = b]
           \/ cxts' = [cxts EXCEPT ![main.k].channel = n]
           \/ cxts' = [cxts EXCEPT ![main.k].held = b]
    PROVE  cxts' \in Seq(Context) /\ Len(cxts') = Len(cxts)
<1> DEFINE k == main.k
<1>1. k \in DOMAIN cxts /\ k \in Nat /\ cxts[k] \in Context /\ cxts \in Seq(Context)
  BY AtContext, LenProperties DEF FollowerType, cxt
<1> HIDE DEF k
<1>2. /\ [cxts[k] EXCEPT !.opened = b] \in Context
      /\ [cxts[k] EXCEPT !.channel = n] \in Context
      /\ [cxts[k] EXCEPT !.held = b] \in Context
  BY <1>1 DEF Context
<1>3. \/ cxts' = [cxts EXCEPT ![k] = [cxts[k] EXCEPT !.opened = b]]
      \/ cxts' = [cxts EXCEPT ![k] = [cxts[k] EXCEPT !.channel = n]]
      \/ cxts' = [cxts EXCEPT ![k] = [cxts[k] EXCEPT !.held = b]]
  BY DEF k
<1>4. PICK c \in Context : cxts' = [cxts EXCEPT ![k] = c]
  BY <1>2, <1>3
<1>5. QED
  BY <1>1, <1>4, ContextSet

(* Main loop: it goes on at the same context, or to the next one. *)
Goes(l) == main' = [main EXCEPT !.pc = l]

LEMMA GoesType ==
    ASSUME FollowerType, NEW l \in PCs, Goes(l), MainAtContext,
           l \in {"serve", "run", "reconnect"} \/ main.k > 0,
           Len(cxts') = Len(cxts)
    PROVE  main' \in [pc : PCs, k : 0..Len(cxts')] /\ MainAtContext'
<1>1. main \in [pc : PCs, k : 0..Len(cxts)]
  BY DEF FollowerType
<1>2. main' \in [pc : PCs, k : 0..Len(cxts')] /\ main'.pc = l /\ main'.k = main.k
  BY <1>1 DEF Goes
<1>3. QED
  BY <1>2 DEF MainAtContext

LEMMA NextContextType ==
    ASSUME FollowerType, NextContext, main.k > 0, Len(cxts') = Len(cxts)
    PROVE  main' \in [pc : PCs, k : 0..Len(cxts')] /\ MainAtContext'
<1>1. main.k \in 0..Len(cxts) /\ Len(cxts) \in Nat
  BY LenProperties DEF FollowerType
<1>2. main.k - 1 \in 0..Len(cxts')
  BY <1>1
<1>3. main' = [pc |-> "run", k |-> main.k - 1]
  BY DEF NextContext
<1>4. main'.pc = "run" /\ main' \in [pc : PCs, k : 0..Len(cxts')]
  BY <1>2, <1>3 DEF PCs
<1>5. QED
  BY <1>4 DEF MainAtContext

LEMMA MainStepType ==
    ASSUME TypeOK, MainAtContext, MainStep
    PROVE  TypeOK' /\ MainAtContext'
<1>1. day \in 0..MaxDay /\ FollowerType /\ ConnectionType
  BY TypeParts
<1> SUFFICES /\ day' \in 0..MaxDay
             /\ cxts' \in Seq(Context)
             /\ main' \in [pc : PCs, k : 0..Len(cxts')] /\ MainAtContext'
             /\ rc' \in BOOLEAN
             /\ sig' \in [p : 0..Len(Patterns), day : 0..MaxDay, waits : BOOLEAN]
             /\ ConnectionType'
  BY Zenon DEF TypeOK, FollowerType, ConnectionType, PCs
<1>2. /\ day' = day
      /\ sig' = sig
      /\ sig' \in [p : 0..Len(Patterns), day : 0..MaxDay, waits : BOOLEAN]
  BY <1>1 DEF FollowerType, MainStep, Serve, NotConnected, NoFileYet, OpenFile,
     SendInit, InitAnswered, InitFails, ReadText, NothingToRead, SendData,
     DataAnswered, DataFails, EndOfWalk, Reconnect, ReconnectFails
<1>3. cxts \in Seq(Context) /\ Len(cxts) \in Nat /\ rc \in BOOLEAN
  BY <1>1, LenProperties DEF FollowerType
<1>4. UNCHANGED connection => ConnectionType'
  BY <1>1 DEF ConnectionType, connection
<1>5. CASE Serve
  <2>1. main' = [pc |-> "run", k |-> Len(cxts)] /\ cxts' = cxts /\ rc' = FALSE
    BY <1>5 DEF Serve
  <2>2. main' \in [pc : PCs, k : 0..Len(cxts')] /\ main'.pc = "run"
    BY <1>3, <2>1 DEF PCs
  <2>3. MainAtContext'
    BY <2>2 DEF MainAtContext
  <2>4. QED
    BY <1>1, <1>2, <1>3, <1>4, <1>5, <2>1, <2>2, <2>3 DEF Serve
<1>6. CASE NotConnected \/ NoFileYet
  <2>1. main.k > 0 /\ NextContext /\ cxts' = cxts /\ rc' \in BOOLEAN /\ UNCHANGED connection
    BY <1>3, <1>6 DEF NotConnected, NoFileYet, Running
  <2>2. QED
    BY <1>1, <1>2, <1>3, <1>4, <2>1, NextContextType
<1>7. CASE OpenFile
  <2>1. /\ main.k > 0
        /\ Goes("init")
        /\ cxts' = [cxts EXCEPT ![main.k].opened = TRUE]
        /\ rc' = rc
        /\ UNCHANGED connection
    BY <1>7 DEF OpenFile, Running, Goto, Goes
  <2>2. cxts' \in Seq(Context) /\ Len(cxts') = Len(cxts)
    BY <1>1, <2>1, FieldSet
  <2>3. QED
    BY <1>1, <1>2, <1>3, <1>4, <2>1, <2>2, GoesType DEF PCs
<1>8. CASE SendInit
  <2>1. /\ main.pc \in {"init", "init again"}
        /\ cxts' = cxts
        /\ rc' = rc
        /\ SendSucceeds(Message("INIT", 0)) \/ SendFails
        /\ \/ Goes("init answer") \/ Goes("init again answer")
           \/ Goes("read") \/ Goes("send")
    BY <1>8 DEF SendInit, At, Goto, Goes, AfterInit
  <2>2. main.k > 0
    BY <2>1 DEF MainAtContext
  <2>3. Message("INIT", 0) \in Request
    BY <2>2, MessageType
  <2>4. ConnectionType'
    BY <2>1, <2>3, SendType DEF ConnectionType
  <2>5. QED
    BY <1>1, <1>2, <1>3, <2>1, <2>2, <2>4, GoesType DEF PCs
<1>9. CASE InitAnswered
  <2>1. /\ main.pc \in {"init answer", "init again answer"}
        /\ rc' = rc
        /\ ReceiveSucceeds
        /\ Goes("read") \/ Goes("send")
    BY <1>9 DEF InitAnswered, At, Goto, Goes, AfterInit
  <2>2. main.k > 0
    BY <2>1 DEF MainAtContext
  <2>3. ConnectionType'
    BY <2>1, ReceiveType DEF ConnectionType
  <2>4. Head(resp).channel \in Nat
    <3>1. resp \in Seq(Reply) /\ resp # << >>
      BY <1>1, <2>1 DEF ConnectionType, ReceiveSucceeds
    <3>2. Head(resp) \in Reply
      BY <3>1, HeadTailProperties
    <3>3. QED
      BY <3>2 DEF Reply
  <2>5. \/ cxts' = [cxts EXCEPT ![main.k].channel = Head(resp).channel]
        \/ cxts' = cxts
    BY <1>9 DEF InitAnswered
  <2>6. cxts' \in Seq(Context) /\ Len(cxts') = Len(cxts)
    BY <1>1, <1>3, <2>2, <2>4, <2>5, FieldSet
  <2>7. QED
    BY <1>1, <1>2, <1>3, <2>1, <2>2, <2>3, <2>6, GoesType DEF PCs
<1>10. CASE InitFails
  <2>1. /\ main.pc \in {"init answer", "init again answer"}
        /\ cxts' = cxts
        /\ rc' = rc
        /\ ReceiveFails
        /\ Goes("read") \/ Goes("send")
    BY <1>10 DEF InitFails, At, Goto, Goes, AfterInit
  <2>2. main.k > 0
    BY <2>1 DEF MainAtContext
  <2>3. ConnectionType'
    BY <2>1, ReceiveType DEF ConnectionType
  <2>4. QED
    BY <1>1, <1>2, <1>3, <2>1, <2>2, <2>3, GoesType DEF PCs
<1>11. CASE ReadText \/ NothingToRead
  <2>1. /\ AtRead
        /\ cxts' = cxts
        /\ rc' = rc
        /\ UNCHANGED connection
        /\ Goes("init again") \/ Goes("send") \/ NextContext
    BY <1>11 DEF ReadText, NothingToRead, Goto, Goes
  <2>2. main.k > 0
    BY <2>1 DEF AtRead, At, Running, MainAtContext
  <2>3. QED
    BY <1>1, <1>2, <1>3, <1>4, <2>1, <2>2, GoesType, NextContextType DEF PCs
<1>12. CASE SendData
  <2>1. /\ main.pc = "send"
        /\ cxts' = [cxts EXCEPT ![main.k].held = TRUE]
        /\ SendSucceeds(Message("DATA", cxt.channel)) \/ SendFails
        /\ Goes("data answer") \/ NextContext
        /\ rc' = rc \/ rc' = TRUE
    BY <1>12 DEF SendData, At, Goto, Goes
  <2>2. main.k > 0
    BY <2>1 DEF MainAtContext
  <2>3. cxt.channel \in Nat
    BY <1>1, <2>2, AtContext DEF Context
  <2>4. Message("DATA", cxt.channel) \in Request
    BY <2>2, <2>3, MessageType
  <2>5. ConnectionType'
    BY <2>1, <2>4, SendType DEF ConnectionType
  <2>6. cxts' \in Seq(Context) /\ Len(cxts') = Len(cxts)
    BY <1>1, <2>1, <2>2, FieldSet
  <2>7. rc' \in BOOLEAN
    BY <1>3, <2>1
  <2>8. QED
    BY <1>1, <1>2, <2>1, <2>2, <2>5, <2>6, <2>7, GoesType, NextContextType DEF PCs
<1>13. CASE DataAnswered
  <2>1. /\ main.pc = "data answer"
        /\ ReceiveSucceeds
        /\ cxts' = [cxts EXCEPT ![main.k].held = ~Head(resp).ok]
        /\ NextContext
        /\ rc' = rc
    BY <1>13 DEF DataAnswered, At
  <2>2. main.k > 0
    BY <2>1 DEF MainAtContext
  <2>3. ConnectionType'
    BY <2>1, ReceiveType DEF ConnectionType
  <2>4. (~Head(resp).ok) \in BOOLEAN
    OBVIOUS
  <2>5. cxts' \in Seq(Context) /\ Len(cxts') = Len(cxts)
    BY <1>1, <2>1, <2>2, <2>4, FieldSet
  <2>6. QED
    BY <1>1, <1>2, <1>3, <2>1, <2>2, <2>3, <2>5, NextContextType
<1>14. CASE DataFails
  <2>1. /\ main.pc = "data answer"
        /\ ReceiveFails
        /\ cxts' = cxts
        /\ NextContext
        /\ rc' = TRUE
    BY <1>14 DEF DataFails, At
  <2>2. main.k > 0
    BY <2>1 DEF MainAtContext
  <2>3. ConnectionType'
    BY <2>1, ReceiveType DEF ConnectionType
  <2>4. QED
    BY <1>1, <1>2, <1>3, <2>1, <2>2, <2>3, NextContextType
<1>15. CASE EndOfWalk
  <2>1. /\ Goes("reconnect") \/ Goes("serve")
        /\ cxts' = cxts
        /\ rc' = rc
        /\ UNCHANGED connection
    BY <1>15 DEF EndOfWalk, Goto, Goes
  <2>2. QED
    BY <1>1, <1>2, <1>3, <1>4, <2>1, GoesType DEF PCs
<1>16. CASE Reconnect \/ ReconnectFails
  <2>1. ResetContexts /\ Goes("serve") /\ rc' = rc
    BY <1>16 DEF Reconnect, ReconnectFails, Goto, Goes
  <2>2. cxts' \in Seq(Context) /\ Len(cxts') = Len(cxts)
    BY <1>3, <2>1, ResetType
  <2>3. ConnectionType'
    <3>1. CASE Reconnect
      <4>1. nconn + 1 \in 0..MaxConn
        BY <1>1, <3>1, BoundsAssumption DEF Reconnect, ConnectionType
      <4>2. /\ sock' = "up" /\ nconn' = nconn + 1 /\ edge' = FALSE
            /\ req' = << >> /\ resp' = << >> /\ table' = << >>
        BY <3>1 DEF Reconnect
      <4>3. << >> \in Seq(Request) /\ << >> \in Seq(Reply) /\ << >> \in Seq(Channel)
        OBVIOUS
      <4>4. QED
        BY <4>1, <4>2, <4>3 DEF ConnectionType
    <3>2. CASE ReconnectFails
      BY <1>4, <3>2 DEF ReconnectFails
    <3>3. QED
      BY <1>16, <3>1, <3>2
  <2>4. QED
    BY <1>1, <1>2, <1>3, <2>1, <2>2, <2>3, GoesType DEF PCs
<1>17. QED
  BY <1>5, <1>6, <1>7, <1>8, <1>9, <1>10, <1>11, <1>12, <1>13, <1>14, <1>15, <1>16
     DEF MainStep

LEMMA HandlerStepType ==
    ASSUME TypeOK, MainAtContext, HandlerAtPattern, HandlerStep
    PROVE  TypeOK' /\ MainAtContext' /\ HandlerAtPattern'
<1>1. day \in 0..MaxDay /\ FollowerType /\ ConnectionType
  BY TypeParts
<1> SUFFICES /\ cxts' \in Seq(Context) /\ Len(cxts') >= Len(cxts)
             /\ sig' \in [p : 0..Len(Patterns), day : 0..MaxDay, waits : BOOLEAN]
             /\ HandlerAtPattern'
             /\ ConnectionType'
  <2>1. day' = day /\ main' = main /\ rc' = rc
    BY DEF HandlerStep, Alarm, Following, NotFollowed, NothingToRelease, Release,
       ReleaseFails, Released
  <2>2. MainAtContext'
    BY <2>1 DEF MainAtContext
  <2>3. ASSUME cxts' \in Seq(Context), Len(cxts') >= Len(cxts)
        PROVE  main' \in [pc : PCs, k : 0..Len(cxts')]
    <3>1. Len(cxts) \in Nat /\ Len(cxts') \in Nat
      BY <1>1, <2>3, LenProperties DEF FollowerType
    <3>2. main \in [pc : PCs, k : 0..Len(cxts)]
      BY <1>1 DEF FollowerType
    <3>3. 0..Len(cxts) \subseteq 0..Len(cxts')
      BY <2>3, <3>1
    <3>4. QED
      BY <2>1, <3>2, <3>3
  <2>4. rc' \in BOOLEAN
    BY <1>1, <2>1 DEF FollowerType
  <2>5. QED
    BY <1>1, <2>1, <2>2, <2>3, <2>4 DEF TypeOK, PCs, ConnectionType
<1>2. /\ cxts \in Seq(Context)
      /\ Len(cxts) \in Nat
      /\ sig \in [p : 0..Len(Patterns), day : 0..MaxDay, waits : BOOLEAN]
      /\ Len(Patterns) \in Nat /\ Len(Patterns) >= 1
  BY <1>1, LenProperties, PatternsAssumption, EmptySeq DEF FollowerType
<1>3. ASSUME NextPattern, sig.p # 0
      PROVE  /\ sig' \in [p : 0..Len(Patterns), day : 0..MaxDay, waits : BOOLEAN]
             /\ HandlerAtPattern'
  <2>1. sig.p \in 0..Len(Patterns) /\ sig.day \in 0..MaxDay
    BY <1>2
  <2>2. (IF sig.p = Len(Patterns) THEN 0 ELSE sig.p + 1) \in 0..Len(Patterns)
    BY <1>2, <2>1
  <2>3. sig' = [p |-> IF sig.p = Len(Patterns) THEN 0 ELSE sig.p + 1,
                day |-> sig.day, waits |-> FALSE]
    BY <1>3 DEF NextPattern
  <2>4. QED
    BY <2>1, <2>2, <2>3 DEF HandlerAtPattern
<1>4. ASSUME Add, sig.p # 0
      PROVE  cxts' \in Seq(Context) /\ Len(cxts') >= Len(cxts)
  <2>1. sig.p \in Pattern /\ sig.day \in 0..MaxDay
    BY <1>2, <1>4 DEF Pattern
  <2>2. NewContext(sig.p, sig.day) \in Context
    BY <2>1, NamesType
  <2>3. QED
    BY <1>2, <1>4, <2>2, AppendProperties DEF Add
<1>5. UNCHANGED connection => ConnectionType'
  BY <1>1 DEF ConnectionType, connection
<1>6. CASE Alarm
  <2>1. /\ sig' = [p |-> 1, day |-> day, waits |-> FALSE]
        /\ cxts' = cxts
        /\ UNCHANGED connection
    BY <1>6 DEF Alarm
  <2>2. 1 \in 0..Len(Patterns)
    BY <1>2
  <2>3. QED
    BY <1>1, <1>2, <1>5, <2>1, <2>2 DEF HandlerAtPattern
<1>7. CASE Following
  <2>1. sig.p # 0 /\ NextPattern /\ cxts' = cxts /\ UNCHANGED connection
    BY <1>7 DEF Following, AtPattern
  <2>2. QED
    BY <1>2, <1>3, <1>5, <2>1
<1>8. CASE NotFollowed \/ NothingToRelease
  <2>1. sig.p # 0 /\ NextPattern /\ Add /\ UNCHANGED connection
    BY <1>8 DEF NotFollowed, NothingToRelease, AtPattern
  <2>2. QED
    BY <1>3, <1>4, <1>5, <2>1
<1>9. CASE Release
  <2>1. PICK k \in SameFile :
            SendSucceeds([code |-> "RELE", channel |-> cxts[k].channel,
                          name |-> cxts[k].name])
    BY <1>9 DEF Release
  <2>2. cxts[k] \in Context
    BY <1>2, LenProperties, ElementOfSeq DEF SameFile
  <2>3. [code |-> "RELE", channel |-> cxts[k].channel, name |-> cxts[k].name] \in Request
    BY <2>2 DEF Context, Request
  <2>4. ConnectionType'
    BY <2>1, <2>3, SendType DEF ConnectionType
  <2>5. sig.p # 0 /\ cxts' = cxts /\ sig' = [sig EXCEPT !.waits = TRUE]
    BY <1>9 DEF Release, AtPattern
  <2>6. sig' \in [p : 0..Len(Patterns), day : 0..MaxDay, waits : BOOLEAN] /\ sig'.p = sig.p
    BY <1>2, <2>5
  <2>7. QED
    BY <1>2, <2>4, <2>5, <2>6 DEF HandlerAtPattern
<1>10. CASE ReleaseFails \/ Released
  <2>1. sig.p # 0 /\ NextPattern /\ Add
    BY <1>10 DEF ReleaseFails, Released, AtPattern, HandlerAtPattern
  <2>2. SendFails \/ ReceiveFails \/ ReceiveSucceeds
    BY <1>10 DEF ReleaseFails, Released
  <2>3. SendFails => ConnectionType'
    <3>1. SendFails => /\ sock' = "none"
                       /\ UNCHANGED <<nconn, req, resp, edge, table>>
      BY Zenon DEF SendFails
    <3>2. QED
      BY <1>1, <3>1 DEF ConnectionType
  <2>4. ConnectionType'
    BY <2>2, <2>3, ReceiveType DEF ConnectionType
  <2>5. QED
    BY <1>3, <1>4, <2>1, <2>4
<1>11. QED
  BY <1>6, <1>7, <1>8, <1>9, <1>10 DEF HandlerStep

(* The aggregator answers what it takes. *)
LEMMA AnswerType ==
    ASSUME ConnectionType, NEW codes, Receives(codes), NEW ok \in BOOLEAN, NEW n \in Nat
    PROVE  /\ req' \in Seq(Request)
           /\ Append(resp, [ok |-> ok, channel |-> n]) \in Seq(Reply)
           /\ edge' \in BOOLEAN
           /\ nconn' \in 0..MaxConn
           /\ Head(req) \in Request
<1>1. req \in Seq(Request) /\ resp \in Seq(Reply) /\ nconn \in 0..MaxConn
  BY DEF ConnectionType
<1>2. req # << >> /\ req' = Tail(req) /\ edge' = FALSE /\ nconn' = nconn
  BY DEF Receives
<1>3. Tail(req) \in Seq(Request) /\ Head(req) \in Request
  BY <1>1, <1>2, HeadTailProperties
<1>4. [ok |-> ok, channel |-> n] \in Reply
  BY DEF Reply
<1>5. Append(resp, [ok |-> ok, channel |-> n]) \in Seq(Reply)
  BY <1>1, <1>4, AppendProperties
<1>6. QED
  BY <1>1, <1>2, <1>3, <1>5

LEMMA AggregatorStepType ==
    ASSUME TypeOK, Decreasing(table), AggregatorStep
    PROVE  ConnectionType' /\ Decreasing(table') /\ UNCHANGED <<day, follower>>
<1>1. ConnectionType /\ table \in Seq(Channel)
  BY TypeParts DEF ConnectionType
<1>2. UNCHANGED <<day, follower>>
  BY DEF AggregatorStep, HandleInit, HandleData, HandleRele, HandleDummy,
     AggregatorDies, Receives, follower
<1>3. CASE HandleInit
  <2> DEFINE n == NextNumber
             c == [id |-> n, name |-> Head(req).name]
  <2>1. /\ Receives({"INIT"})
        /\ table' = <<c>> \o table
        /\ resp' = Append(resp, [ok |-> TRUE, channel |-> n])
        /\ sock' = sock
    BY <1>3 DEF HandleInit, Answer
  <2>2. n = IF table = << >> THEN 1 ELSE table[1].id + 1
    BY <1>1, NextNumberIs
  <2>3. Len(table) \in Nat /\ DOMAIN table = 1..Len(table)
    BY <1>1, LenProperties
  <2>4. table # << >> => 1 \in DOMAIN table /\ table[1].id \in Nat
    BY <1>1, <2>3, ChannelIds, EmptySeq
  <2>5. n \in Nat /\ n >= 1
    BY <2>2, <2>4
  <2> HIDE DEF n
  <2>6. Head(req) \in Request
    BY <1>1, <2>1, <2>5, AnswerType
  <2>7. c \in Channel
    BY <2>5, <2>6 DEF Request, Channel
  <2>8. ConnectionType'
    <3>1. table' \in Seq(Channel)
      BY <1>1, <2>1, <2>7, ConcatProperties
    <3>2. req' \in Seq(Request) /\ resp' \in Seq(Reply) /\ edge' \in BOOLEAN /\ nconn' \in 0..MaxConn
      BY <1>1, <2>1, <2>5, AnswerType
    <3>3. QED
      BY <1>1, <2>1, <3>1, <3>2 DEF ConnectionType
  <2>9. Decreasing(table')
    <3>1. ConsDecreasing(c, table)
      BY <2>2, <2>3, <2>4, <2>5 DEF ConsDecreasing
    <3>2. QED
      BY <1>1, <2>1, <2>7, <3>1, DecreasingCons
  <2>10. QED
    BY <1>2, <2>8, <2>9
<1>4. CASE HandleRele
  <2> DEFINE i == Position(Head(req).channel)
             n == Head(req).channel
  <2>1. /\ Receives({"RELE"})
        /\ table # << >>
        /\ table' = Without(table, i)
        /\ resp' = Append(resp, [ok |-> TRUE, channel |-> n])
        /\ sock' = sock
    BY <1>4 DEF HandleRele, Answer, Without
  <2>2. Head(req) \in Request
    BY <1>1, <2>1, AnswerType
  <2>3. n \in Nat
    BY <2>2 DEF Request
  <2>4. i \in DOMAIN table
    BY <1>1, <2>1, <2>3, PositionIs
  <2>5. req' \in Seq(Request) /\ resp' \in Seq(Reply) /\ edge' \in BOOLEAN /\ nconn' \in 0..MaxConn
    BY <1>1, <2>1, <2>3, AnswerType
  <2> HIDE DEF i
  <2>6. table' \in Seq(Channel) /\ Decreasing(table')
    BY <1>1, <2>1, <2>4, DecreasingWithout
  <2>7. QED
    BY <1>1, <1>2, <2>1, <2>5, <2>6 DEF ConnectionType
<1>5. CASE HandleData \/ HandleDummy
  <2> DEFINE n == Head(req).channel
  <2>1. /\ Receives({"DATA"}) \/ Receives({"DATA", "RELE"})
        /\ table' = table
        /\ sock' = sock
        /\ \/ resp' = Append(resp, [ok |-> TRUE, channel |-> n])
           \/ resp' = Append(resp, [ok |-> FALSE, channel |-> 0])
    BY <1>5 DEF HandleData, HandleDummy, Answer
  <2>2. Head(req) \in Request
    BY <1>1, <2>1, AnswerType
  <2>3. n \in Nat
    BY <2>2 DEF Request
  <2>4. req' \in Seq(Request) /\ resp' \in Seq(Reply) /\ edge' \in BOOLEAN /\ nconn' \in 0..MaxConn
    BY <1>1, <2>1, <2>3, AnswerType
  <2>5. QED
    BY <1>1, <1>2, <2>1, <2>4 DEF ConnectionType
<1>6. CASE AggregatorDies
  <2>1. /\ Receives({"DATA", "RELE"})
        /\ table' = table
        /\ sock' = "dead"
        /\ resp' = resp
    BY <1>6 DEF AggregatorDies
  <2>2. req' \in Seq(Request) /\ edge' \in BOOLEAN /\ nconn' \in 0..MaxConn
    BY <1>1, <2>1, AnswerType
  <2>3. QED
    BY <1>1, <1>2, <2>1, <2>2 DEF ConnectionType
<1>7. QED
  BY <1>3, <1>4, <1>5, <1>6 DEF AggregatorStep

----------------------------------------------------------------------------
(* Who waits for an answer. *)

WaitPCs == {"init answer", "init again answer", "data answer"}

(* Each step but a send or a receive leaves the sum as it is; a send is the   *)
(* beginning of a wait and a receive its end.                                 *)
LEMMA SendOne ==
    ASSUME ConnectionType, OneEach, NEW m, SendSucceeds(m) \/ SendFails
    PROVE  /\ sock' = "up" => SendSucceeds(m) /\ Len(req') + Len(resp') = Waiting + 1
<1>1. req \in Seq(Request) /\ resp \in Seq(Reply) /\ Len(req) \in Nat /\ Len(resp) \in Nat
  BY LenProperties DEF ConnectionType
<1>2. CASE SendFails
  BY <1>2 DEF SendFails
<1>3. CASE SendSucceeds(m)
  <2>1. sock' = "up" => sock = "up" /\ req' = Append(req, m) /\ resp' = resp
    BY <1>3 DEF SendSucceeds
  <2>2. Len(Append(req, m)) = Len(req) + 1
    BY <1>1
  <2>3. QED
    BY <1>1, <1>3, <2>1, <2>2 DEF OneEach
<1>4. QED
  BY <1>2, <1>3

LEMMA ReceiveOne ==
    ASSUME ConnectionType, OneEach, ReceiveSucceeds \/ ReceiveFails
    PROVE  sock' = "up" => Len(req') + Len(resp') = Waiting - 1
<1>1. req \in Seq(Request) /\ resp \in Seq(Reply) /\ Len(req) \in Nat /\ Len(resp) \in Nat
  BY LenProperties DEF ConnectionType
<1>2. CASE ReceiveFails
  BY <1>2 DEF ReceiveFails
<1>3. CASE ReceiveSucceeds
  <2>1. sock' = sock /\ req' = req /\ resp' = Tail(resp) /\ resp # << >>
    BY <1>3 DEF ReceiveSucceeds
  <2>2. Len(Tail(resp)) = Len(resp) - 1
    BY <1>1, <2>1, HeadTailProperties
  <2>3. QED
    BY <1>1, <2>1, <2>2 DEF OneEach
<1>4. QED
  BY <1>2, <1>3

LEMMA MainStepOneEach ==
    ASSUME ConnectionType, FollowerType, OneEach, HandlerAtPattern, MainStep
    PROVE  OneEach'
<1>1. sig.p = 0 => ~sig.waits
  BY DEF HandlerAtPattern
<1>2. sig' = sig
  BY DEF MainStep, Serve, NotConnected, NoFileYet, OpenFile,
     SendInit, InitAnswered, InitFails, ReadText, NothingToRead, SendData,
     DataAnswered, DataFails, EndOfWalk, Reconnect, ReconnectFails
<1>3. ASSUME sig.p = 0
      PROVE  /\ Waiting = IF main.pc \in WaitPCs THEN 1 ELSE 0
             /\ Waiting' = IF main'.pc \in WaitPCs THEN 1 ELSE 0
  <2>1. ~sig.waits /\ ~sig'.waits
    BY <1>1, <1>2, <1>3
  <2>2. Waiting = IF main.pc \in WaitPCs THEN 1 ELSE 0
    BY <2>1, SMT DEF Waiting, WaitPCs
  <2>3. Waiting' = IF main'.pc \in WaitPCs THEN 1 ELSE 0
    BY <2>1, SMT DEF Waiting, WaitPCs
  <2>4. QED
    BY <2>2, <2>3
<1>4. ASSUME NEW l, Goto(l)
      PROVE  main'.pc = l
  BY <1>4 DEF Goto, FollowerType
<1>5. NextContext => main'.pc = "run"
  BY DEF NextContext
<1>6. ASSUME sig.p = 0, UNCHANGED connection,
             main.pc \notin WaitPCs, main'.pc \notin WaitPCs
      PROVE  OneEach'
  BY <1>3, <1>6 DEF OneEach, connection
<1>7. ASSUME sig.p = 0, NEW m, SendSucceeds(m), main.pc \notin WaitPCs, main'.pc \in WaitPCs
      PROVE  OneEach'
  BY <1>3, <1>7, SendOne DEF OneEach
<1>8. SendFails => OneEach'
  BY DEF SendFails, OneEach
<1>9. ASSUME sig.p = 0, ReceiveSucceeds \/ ReceiveFails,
             main.pc \in WaitPCs, main'.pc \notin WaitPCs
      PROVE  OneEach'
  BY <1>3, <1>9, ReceiveOne DEF OneEach
<1>10. CASE Serve
  BY <1>6, <1>10 DEF Serve, At, WaitPCs
<1>11. CASE NotConnected \/ NoFileYet
  BY <1>5, <1>6, <1>11 DEF NotConnected, NoFileYet, Running, At, WaitPCs
<1>12. CASE OpenFile
  BY <1>4, <1>6, <1>12 DEF OpenFile, Running, At, WaitPCs
<1>13. CASE ReadText \/ NothingToRead
  <2>1. sig.p = 0 /\ UNCHANGED connection /\ main.pc \notin WaitPCs
    BY <1>13 DEF ReadText, NothingToRead, AtRead, Running, At, WaitPCs
  <2>2. Goto("init again") \/ Goto("send") \/ NextContext
    BY <1>13 DEF ReadText, NothingToRead
  <2>3. main'.pc \notin WaitPCs
    BY <1>4, <1>5, <2>2 DEF WaitPCs
  <2>4. QED
    BY <1>6, <2>1, <2>3
<1>14. CASE EndOfWalk \/ ReconnectFails
  <2>1. sig.p = 0 /\ UNCHANGED connection /\ main.pc \notin WaitPCs
    BY <1>14 DEF EndOfWalk, ReconnectFails, At, WaitPCs
  <2>2. Goto("reconnect") \/ Goto("serve")
    BY <1>14 DEF EndOfWalk, ReconnectFails
  <2>3. main'.pc \notin WaitPCs
    BY <1>4, <2>2 DEF WaitPCs
  <2>4. QED
    BY <1>6, <2>1, <2>3
<1>15. CASE SendInit
  <2>1. sig.p = 0 /\ main.pc \notin WaitPCs
    BY <1>15 DEF SendInit, At, WaitPCs
  <2>2. \/ SendFails
        \/ /\ SendSucceeds(Message("INIT", 0))
           /\ Goto("init answer") \/ Goto("init again answer")
    BY <1>15 DEF SendInit
  <2>3. QED
    BY <1>4, <1>7, <1>8, <2>1, <2>2 DEF WaitPCs
<1>16. CASE SendData
  <2>1. sig.p = 0 /\ main.pc \notin WaitPCs
    BY <1>16 DEF SendData, At, WaitPCs
  <2>2. \/ SendFails
        \/ SendSucceeds(Message("DATA", cxt.channel)) /\ Goto("data answer")
    BY <1>16 DEF SendData
  <2>3. QED
    BY <1>4, <1>7, <1>8, <2>1, <2>2 DEF WaitPCs
<1>17. CASE InitAnswered \/ InitFails
  <2>1. sig.p = 0 /\ main.pc \in WaitPCs /\ (ReceiveSucceeds \/ ReceiveFails)
    BY <1>17 DEF InitAnswered, InitFails, At, WaitPCs
  <2>2. Goto("read") \/ Goto("send")
    BY <1>17 DEF InitAnswered, InitFails, AfterInit
  <2>3. main'.pc \notin WaitPCs
    BY <1>4, <2>2 DEF WaitPCs
  <2>4. QED
    BY <1>9, <2>1, <2>3
<1>18. CASE DataAnswered \/ DataFails
  <2>1. sig.p = 0 /\ main.pc \in WaitPCs /\ (ReceiveSucceeds \/ ReceiveFails)
    BY <1>18 DEF DataAnswered, DataFails, At, WaitPCs
  <2>2. main'.pc \notin WaitPCs
    BY <1>5, <1>18 DEF DataAnswered, DataFails, WaitPCs
  <2>3. QED
    BY <1>9, <2>1, <2>2
<1>19. CASE Reconnect
  <2>1. sig.p = 0 /\ Goto("serve") /\ req' = << >> /\ resp' = << >>
    BY <1>19 DEF Reconnect, At
  <2>2. Waiting' = 0
    BY <1>3, <1>4, <2>1 DEF WaitPCs
  <2>3. Len(req') + Len(resp') = 0
    BY <2>1
  <2>4. QED
    BY <2>2, <2>3 DEF OneEach
<1>20. QED
  BY <1>10, <1>11, <1>12, <1>13, <1>14, <1>15, <1>16, <1>17, <1>18, <1>19 DEF MainStep

LEMMA HandlerStepOneEach ==
    ASSUME ConnectionType, FollowerType, OneEach, HandlerAtPattern, HandlerStep
    PROVE  OneEach'
<1>1. main' = main
  BY DEF HandlerStep, Alarm, Following, NotFollowed, NothingToRelease, Release,
     ReleaseFails, Released
<1>2. NextPattern => ~sig'.waits
  BY DEF NextPattern
<1>3. Waiting = IF main.pc \in WaitPCs THEN IF sig.waits THEN 2 ELSE 1
                                       ELSE IF sig.waits THEN 1 ELSE 0
  <2>1. CASE sig.waits
    <3>1. Waiting = IF main.pc \in WaitPCs THEN 2 ELSE 1
      BY <2>1, SMT DEF Waiting, WaitPCs
    <3>2. QED
      BY <2>1, <3>1
  <2>2. CASE ~sig.waits
    <3>1. Waiting = IF main.pc \in WaitPCs THEN 1 ELSE 0
      BY <2>2, SMT DEF Waiting, WaitPCs
    <3>2. QED
      BY <2>2, <3>1
  <2>3. QED
    BY <2>1, <2>2
<1>4. Waiting' = IF main.pc \in WaitPCs THEN IF sig'.waits THEN 2 ELSE 1
                                        ELSE IF sig'.waits THEN 1 ELSE 0
  <2>1. CASE sig'.waits
    <3>1. Waiting' = IF main.pc \in WaitPCs THEN 2 ELSE 1
      BY <1>1, <2>1, SMT DEF Waiting, WaitPCs
    <3>2. QED
      BY <2>1, <3>1
  <2>2. CASE ~sig'.waits
    <3>1. Waiting' = IF main.pc \in WaitPCs THEN 1 ELSE 0
      BY <1>1, <2>2, SMT DEF Waiting, WaitPCs
    <3>2. QED
      BY <2>2, <3>1
  <2>3. QED
    BY <2>1, <2>2
<1>5. ASSUME UNCHANGED connection, ~sig.waits, ~sig'.waits
      PROVE  OneEach'
  BY <1>3, <1>4, <1>5 DEF OneEach, connection
<1>6. CASE Alarm
  BY <1>5, <1>6 DEF Alarm, HandlerAtPattern
<1>7. CASE Following \/ NotFollowed \/ NothingToRelease
  BY <1>2, <1>5, <1>7 DEF Following, NotFollowed, NothingToRelease, AtPattern
<1>8. CASE Release
  <2>1. PICK m : SendSucceeds(m)
    BY <1>8 DEF Release
  <2>2. ~sig.waits /\ sig' = [sig EXCEPT !.waits = TRUE]
    BY <1>8 DEF Release, AtPattern
  <2>3. sig'.waits
    BY <2>2 DEF FollowerType
  <2>4. Waiting' = Waiting + 1
    BY <1>3, <1>4, <2>2, <2>3
  <2>5. QED
    BY <2>1, <2>4, SendOne DEF OneEach
<1>9. CASE ReleaseFails
  BY <1>9 DEF ReleaseFails, SendFails, ReceiveFails, OneEach
<1>10. CASE Released
  <2>1. ReceiveSucceeds /\ sig.waits /\ ~sig'.waits
    BY <1>2, <1>10 DEF Released
  <2>2. Waiting' = Waiting - 1
    BY <1>3, <1>4, <2>1
  <2>3. QED
    BY <2>1, <2>2, ReceiveOne DEF OneEach
<1>11. QED
  BY <1>6, <1>7, <1>8, <1>9, <1>10 DEF HandlerStep

LEMMA AggregatorStepOneEach ==
    ASSUME ConnectionType, OneEach, AggregatorStep
    PROVE  OneEach'
<1>1. req \in Seq(Request) /\ resp \in Seq(Reply) /\ Len(req) \in Nat /\ Len(resp) \in Nat
  BY LenProperties DEF ConnectionType
<1>2. CASE AggregatorDies
  BY <1>2 DEF AggregatorDies, OneEach
<1>3. CASE HandleInit \/ HandleData \/ HandleRele \/ HandleDummy
  <2>1. /\ req # << >>
        /\ req' = Tail(req)
        /\ \E r : resp' = Append(resp, r)
        /\ sock' = sock
        /\ Waiting' = Waiting
    BY <1>3 DEF HandleInit, HandleData, HandleRele, HandleDummy, Receives, Answer,
       follower, Waiting
  <2>2. Len(req') = Len(req) - 1
    BY <1>1, <2>1, HeadTailProperties
  <2>3. Len(resp') = Len(resp) + 1
    BY <1>1, <2>1
  <2>4. QED
    BY <1>1, <2>1, <2>2, <2>3 DEF OneEach
<1>4. QED
  BY <1>2, <1>3 DEF AggregatorStep
----------------------------------------------------------------------------
(* The invariant of Channels holds, whatever the date changes. *)
THEOREM ChannelInvariant == Spec => []ChannelInv
<1>1. Init => ChannelInv
  BY InitialState
<1>2. ChannelInv /\ [Next]_vars => ChannelInv'
  <2> SUFFICES ASSUME ChannelInv, [Next]_vars
               PROVE  ChannelInv'
    OBVIOUS
  <2>1. TypeOK /\ MainAtContext /\ HandlerAtPattern /\ Decreasing(table) /\ OneEach
    BY DEF ChannelInv
  <2>2. day \in 0..MaxDay /\ FollowerType /\ ConnectionType
    BY <2>1, TypeParts
  <2>3. CASE NewDay
    <3>1. day' \in 0..MaxDay
      BY <2>2, <2>3, BoundsAssumption DEF NewDay
    <3>2. UNCHANGED <<follower, connection>>
      BY <2>3 DEF NewDay
    <3>3. TypeOK'
      BY <2>1, <3>1, <3>2 DEF TypeOK, follower, connection
    <3>4. QED
      BY <2>1, <3>2, <3>3 DEF ChannelInv, MainAtContext, HandlerAtPattern, Decreasing,
         OneEach, Waiting, follower, connection
  <2>4. CASE MainStep
    <3>1. TypeOK' /\ MainAtContext'
      BY <2>1, <2>4, MainStepType
    <3>2. OneEach'
      BY <2>1, <2>2, <2>4, MainStepOneEach
    <3>3. sig' = sig /\ table' \in {table, << >>}
      BY <2>4 DEF MainStep, Serve, NotConnected, NoFileYet, OpenFile, SendInit,
         InitAnswered, InitFails, ReadText, NothingToRead, SendData, DataAnswered,
         DataFails, EndOfWalk, Reconnect, ReconnectFails, SendSucceeds, SendFails,
         ReceiveSucceeds, ReceiveFails, connection
    <3>4. Decreasing(<< >>)
      BY DEF Decreasing
    <3>5. QED
      BY <2>1, <3>1, <3>2, <3>3, <3>4 DEF ChannelInv, HandlerAtPattern
  <2>5. CASE HandlerStep
    <3>1. TypeOK' /\ MainAtContext' /\ HandlerAtPattern'
      BY <2>1, <2>5, HandlerStepType
    <3>2. OneEach'
      BY <2>1, <2>2, <2>5, HandlerStepOneEach
    <3>3. table' = table
      BY <2>5 DEF HandlerStep, Alarm, Following, NotFollowed, NothingToRelease, Release,
         ReleaseFails, Released, SendSucceeds, SendFails, ReceiveSucceeds, ReceiveFails,
         connection
    <3>4. QED
      BY <2>1, <3>1, <3>2, <3>3 DEF ChannelInv
  <2>6. CASE AggregatorStep
    <3>1. ConnectionType' /\ Decreasing(table') /\ UNCHANGED <<day, follower>>
      BY <2>1, <2>6, AggregatorStepType
    <3>2. FollowerType'
      BY <2>2, <3>1 DEF FollowerType, follower
    <3>3. TypeOK'
      BY <2>2, <3>1, <3>2 DEF TypeOK, FollowerType, ConnectionType, PCs
    <3>4. OneEach'
      BY <2>1, <2>2, <2>6, AggregatorStepOneEach
    <3>5. QED
      BY <2>1, <3>1, <3>3, <3>4 DEF ChannelInv, MainAtContext, HandlerAtPattern, follower
  <2>7. CASE Break
    <3>1. /\ sock' = "dead" /\ req' = << >> /\ edge' = FALSE /\ table' = << >>
          /\ UNCHANGED <<day, follower, nconn, resp>>
      BY <2>7 DEF Break
    <3>2. << >> \in Seq(Request) /\ << >> \in Seq(Channel)
      OBVIOUS
    <3>3. ConnectionType'
      BY <2>2, <3>1, <3>2 DEF ConnectionType
    <3>4. FollowerType'
      BY <2>2, <3>1 DEF FollowerType, follower
    <3>5. TypeOK'
      BY <2>2, <3>1, <3>3, <3>4 DEF TypeOK, FollowerType, ConnectionType, PCs
    <3>6. OneEach'
      BY <3>1 DEF OneEach
    <3>7. Decreasing(table')
      BY <3>1 DEF Decreasing
    <3>8. MainAtContext' /\ HandlerAtPattern'
      BY <2>1, <3>1 DEF MainAtContext, HandlerAtPattern, follower
    <3>9. QED
      BY <3>5, <3>6, <3>7, <3>8 DEF ChannelInv
  <2>8. CASE UNCHANGED vars
    <3>1. UNCHANGED <<day, follower, connection>>
      BY <2>8 DEF vars
    <3>2. TypeOK'
      BY <2>1, <3>1 DEF TypeOK, follower, connection
    <3>3. QED
      BY <2>1, <3>1, <3>2 DEF ChannelInv, MainAtContext, HandlerAtPattern, Decreasing,
         OneEach, Waiting, follower, connection
  <2>9. QED
    BY <2>3, <2>4, <2>5, <2>6, <2>7, <2>8 DEF Next
<1>3. QED
  BY <1>1, <1>2, PTL DEF Spec

(* Every variable of Channels keeps its type. *)
THEOREM TypeCorrect == Spec => []TypeOK
<1>1. ChannelInv => TypeOK
  BY DEF ChannelInv
<1>2. QED
  BY <1>1, ChannelInvariant, PTL

LEMMA IdsDistinct ==
    ASSUME ChannelInv
    PROVE  NumbersDistinct
<1> SUFFICES ASSUME NEW i \in DOMAIN table, NEW j \in DOMAIN table,
                    table[i].id = table[j].id
             PROVE  i = j
  BY DEF NumbersDistinct
<1>1. table \in Seq(Channel) /\ Decreasing(table)
  BY DEF ChannelInv, TypeOK
<1>2. DOMAIN table = 1..Len(table) /\ Len(table) \in Nat
  BY <1>1, LenProperties
<1>3. table[i].id \in Nat /\ table[j].id \in Nat
  BY <1>1, ChannelIds
<1>4. ~(i < j) /\ ~(j < i)
  <2>1. i < j => table[i].id > table[j].id
    BY <1>1 DEF Decreasing
  <2>2. j < i => table[j].id > table[i].id
    BY <1>1 DEF Decreasing
  <2>3. QED
    BY <1>3, <2>1, <2>2
<1>5. QED
  BY <1>2, <1>4

(* sc_connection_register_channel never gives a number that is in use, however *)
(* releases hit.                                                               *)
THEOREM NumbersDistinctHolds == Spec => []NumbersDistinct
<1>1. ChannelInv => NumbersDistinct
  BY IdsDistinct
<1>2. QED
  BY <1>1, ChannelInvariant, PTL

(* Main loop and signal handler, on one socket, have one request or answer     *)
(* under way for each that waits.                                              *)
THEOREM OneEachHolds == Spec => []OneEach
<1>1. ChannelInv => OneEach
  BY DEF ChannelInv
<1>2. QED
  BY <1>1, ChannelInvariant, PTL

----------------------------------------------------------------------------
(* The messages that are answered NG: those about channel 0.  Only a RELE    *)
(* can be one, for a context that was just opened, and whoever its answer    *)
(* goes to, no DATA is answered by it.                                       *)

StartPCs == {"init", "init answer"}

Refused(m) == m.code # "INIT" /\ m.channel = 0

RefusalDue == \/ sock = "up" /\ \E i \in DOMAIN req : Refused(req[i])
              \/ sock # "none" /\ \E i \in DOMAIN resp : ~resp[i].ok

RepliesBounded == sock # "none" => Len(resp) <= Waiting

OkHasNumber == \A i \in DOMAIN resp : resp[i].ok => resp[i].channel # 0

(* A newer context has the same file. *)
Superseded(k) == \E j \in DOMAIN cxts : j > k /\ cxts[j].file = cxts[k].file

(* NG is under way only while the main loop begins with a context, and then  *)
(* the handler has put a newer one in its place, or will when it is answered. *)
RefusedAtStart ==
    RefusalDue =>
        \/ main.pc = "init"
        \/ /\ main.pc = "init answer"
           /\ \/ Superseded(main.k)
              \/ sig.waits /\ cxt.file = FileOf(sig.p, sig.day)

Unnumbered ==
    sock = "up" =>
        \A k \in DOMAIN cxts : cxts[k].opened /\ cxts[k].channel = 0 =>
            Superseded(k) \/ (main.k = k /\ main.pc \in StartPCs)

SendNumbered == sock = "up" /\ main.pc = "send" => cxt.channel # 0

(* A context that holds a message was just asked about it, or will be reset. *)
HeldUntil ==
    \A k \in DOMAIN cxts : cxts[k].held =>
        (main.pc = "data answer" /\ main.k = k) \/ (rc /\ main.pc # "serve")

NumberInv == Unnumbered /\ SendNumbered
AnswerInv == RepliesBounded /\ OkHasNumber /\ RefusedAtStart /\ NumberInv /\ HeldUntil

----------------------------------------------------------------------------
LEMMA WaitingIs ==
    /\ Waiting = IF main.pc \in WaitPCs THEN IF sig.waits THEN 2 ELSE 1
                                        ELSE IF sig.waits THEN 1 ELSE 0
    /\ Waiting' = IF main'.pc \in WaitPCs THEN IF sig'.waits THEN 2 ELSE 1
                                          ELSE IF sig'.waits THEN 1 ELSE 0
<1>1. ASSUME sig.waits PROVE Waiting = IF main.pc \in WaitPCs THEN 2 ELSE 1
  BY <1>1, SMT DEF Waiting, WaitPCs
<1>2. ASSUME ~sig.waits PROVE Waiting = IF main.pc \in WaitPCs THEN 1 ELSE 0
  BY <1>2, SMT DEF Waiting, WaitPCs
<1>3. ASSUME sig'.waits PROVE Waiting' = IF main'.pc \in WaitPCs THEN 2 ELSE 1
  BY <1>3, SMT DEF Waiting, WaitPCs
<1>4. ASSUME ~sig'.waits PROVE Waiting' = IF main'.pc \in WaitPCs THEN 1 ELSE 0
  BY <1>4, SMT DEF Waiting, WaitPCs
<1>5. QED
  BY <1>1, <1>2, <1>3, <1>4

(* When nobody waits nothing is under way. *)
LEMMA NothingDue ==
    /\ ConnectionType /\ OneEach /\ RepliesBounded /\ Waiting = 0 => ~RefusalDue
    /\ (ConnectionType /\ OneEach /\ RepliesBounded /\ Waiting = 0 => ~RefusalDue)'
<1>1. ASSUME ConnectionType, OneEach, RepliesBounded, Waiting = 0 PROVE ~RefusalDue
  <2>1. Len(req) \in Nat /\ Len(resp) \in Nat /\ DOMAIN req = 1..Len(req) /\ DOMAIN resp = 1..Len(resp)
    BY <1>1, LenProperties DEF ConnectionType
  <2>2. sock # "none" => DOMAIN resp = {}
    BY <1>1, <2>1 DEF RepliesBounded
  <2>3. sock = "up" => DOMAIN req = {}
    BY <1>1, <2>1 DEF OneEach
  <2>4. QED
    BY <2>2, <2>3 DEF RefusalDue
<1>2. ASSUME ConnectionType', OneEach', RepliesBounded', Waiting' = 0 PROVE ~RefusalDue'
  <2>1. /\ Len(req') \in Nat /\ Len(resp') \in Nat
        /\ DOMAIN req' = 1..Len(req') /\ DOMAIN resp' = 1..Len(resp')
    BY <1>2, LenProperties DEF ConnectionType
  <2>2. sock' # "none" => DOMAIN resp' = {}
    BY <1>2, <2>1 DEF RepliesBounded
  <2>3. sock' = "up" => DOMAIN req' = {}
    BY <1>2, <2>1 DEF OneEach
  <2>4. QED
    BY <2>2, <2>3 DEF RefusalDue
<1>3. QED
  BY <1>1, <1>2

(* What a send and a receive do to what is under way. *)
LEMMA SendKeeps ==
    ASSUME ConnectionType, RepliesBounded, OkHasNumber,
           NEW m, SendSucceeds(m) \/ SendFails, Waiting' >= Waiting
    PROVE  /\ RepliesBounded' /\ OkHasNumber'
           /\ RefusalDue' => RefusalDue \/ (sock = "up" /\ SendSucceeds(m) /\ Refused(m))
           /\ sock' = "up" => sock = "up" /\ SendSucceeds(m)
<1>1. resp' = resp
  BY DEF SendSucceeds, SendFails
<1>2. req \in Seq(Request) /\ Len(resp) \in Nat
  BY LenProperties DEF ConnectionType
<1>3. CASE SendFails
  <2>1. sock' = "none"
    BY <1>3 DEF SendFails
  <2>2. QED
    BY <1>1, <2>1 DEF RepliesBounded, OkHasNumber, RefusalDue
<1>4. CASE SendSucceeds(m)
  <2>1. sock' = sock /\ req' = IF sock = "up" THEN Append(req, m) ELSE req
    BY <1>4 DEF SendSucceeds
  <2>2. Waiting \in Nat /\ Waiting' \in Nat
    BY WaitingIs
  <2>3. RepliesBounded'
    BY <1>1, <1>2, <2>1, <2>2 DEF RepliesBounded
  <2>4. ASSUME RefusalDue', ~RefusalDue PROVE sock = "up" /\ Refused(m)
    <3>1. sock = "up" /\ \E i \in DOMAIN req' : Refused(req'[i])
      BY <1>1, <2>1, <2>4 DEF RefusalDue
    <3>2. PICK i \in DOMAIN Append(req, m) : Refused(Append(req, m)[i])
      BY <2>1, <3>1
    <3>3. /\ DOMAIN Append(req, m) = 1..(Len(req) + 1) /\ DOMAIN req = 1..Len(req)
          /\ Len(req) \in Nat
      BY <1>2
    <3>4. \A j \in 1..Len(req) : Append(req, m)[j] = req[j]
      BY <1>2
    <3>5. Append(req, m)[Len(req) + 1] = m
      BY <1>2
    <3>6. i \in 1..Len(req) \/ i = Len(req) + 1
      BY <3>2, <3>3
    <3>7. CASE i \in 1..Len(req)
      BY <2>4, <3>1, <3>2, <3>3, <3>4, <3>7 DEF RefusalDue
    <3>8. QED
      BY <3>1, <3>2, <3>5, <3>6, <3>7
  <2>5. OkHasNumber'
    BY <1>1 DEF OkHasNumber
  <2>6. QED
    BY <1>4, <2>1, <2>3, <2>4, <2>5
<1>5. QED
  BY <1>3, <1>4

LEMMA TailOf ==
    ASSUME NEW S, NEW s \in Seq(S), s # << >>
    PROVE  /\ Len(Tail(s)) = Len(s) - 1 /\ Len(s) \in Nat \ {0}
           /\ 1 \in DOMAIN s /\ Head(s) = s[1]
           /\ \A i \in DOMAIN Tail(s) : i + 1 \in DOMAIN s /\ Tail(s)[i] = s[i + 1]
<1>1. Len(s) \in Nat \ {0} /\ DOMAIN s = 1..Len(s) /\ Head(s) = s[1]
  BY EmptySeq, LenProperties
<1>2. Tail(s) \in Seq(S) /\ Len(Tail(s)) = Len(s) - 1
  BY HeadTailProperties
<1>3. DOMAIN Tail(s) = 1..(Len(s) - 1)
  BY <1>2, LenProperties
<1>4. \A i \in 1..(Len(s) - 1) : Tail(s)[i] = s[i + 1]
  BY <1>1, HeadTailProperties
<1>5. QED
  BY <1>1, <1>2, <1>3, <1>4

LEMMA ReceiveKeeps ==
    ASSUME ConnectionType, RepliesBounded, OkHasNumber,
           \/ ReceiveSucceeds /\ Waiting' = Waiting - 1
           \/ ReceiveFails
    PROVE  /\ RepliesBounded' /\ OkHasNumber' /\ (RefusalDue' => RefusalDue)
           /\ sock' = "up" => sock = "up"
<1>1. resp \in Seq(Reply) /\ Len(resp) \in Nat /\ Waiting \in Nat /\ Waiting' \in Nat
  BY WaitingIs, LenProperties DEF ConnectionType
<1>2. CASE ReceiveFails
  <2>1. /\ UNCHANGED <<req, resp>> /\ (sock' = "none" \/ (sock' = sock /\ resp = << >>))
        /\ sock' # "up"
    BY <1>2 DEF ReceiveFails
  <2>2. sock' # "none" => Len(resp') = 0
    BY <2>1
  <2>3. QED
    BY <1>1, <2>1, <2>2 DEF RepliesBounded, OkHasNumber, RefusalDue
<1>3. CASE ReceiveSucceeds /\ Waiting' = Waiting - 1
  <2>1. sock' = sock /\ req' = req /\ resp' = Tail(resp) /\ resp # << >>
    BY <1>3 DEF ReceiveSucceeds
  <2>2. /\ Len(Tail(resp)) = Len(resp) - 1
        /\ \A i \in DOMAIN Tail(resp) : i + 1 \in DOMAIN resp /\ Tail(resp)[i] = resp[i + 1]
    BY <1>1, <2>1, TailOf
  <2>3. RepliesBounded'
    BY <1>1, <1>3, <2>1, <2>2 DEF RepliesBounded
  <2>4. OkHasNumber'
    BY <2>1, <2>2 DEF OkHasNumber
  <2>5. RefusalDue' => RefusalDue
    BY <2>1, <2>2 DEF RefusalDue
  <2>6. QED
    BY <2>1, <2>3, <2>4, <2>5
<1>4. QED
  BY <1>2, <1>3

LEMMA StillKeeps ==
    ASSUME ConnectionType, RepliesBounded, OkHasNumber, UNCHANGED connection, Waiting' >= Waiting
    PROVE  RepliesBounded' /\ OkHasNumber' /\ (RefusalDue' <=> RefusalDue)
<1>1. UNCHANGED <<sock, req, resp>>
  BY DEF connection
<1>2. Waiting \in Nat /\ Waiting' \in Nat /\ Len(resp) \in Nat
  BY WaitingIs, LenProperties DEF ConnectionType
<1>3. RepliesBounded'
  BY <1>1, <1>2 DEF RepliesBounded
<1>4. QED
  BY <1>1, <1>3 DEF OkHasNumber, RefusalDue

----------------------------------------------------------------------------
(* The main loop's steps.                                                    *)

(* No context is opened, loses its number or starts to hold a message. *)
Calm == /\ DOMAIN cxts' = DOMAIN cxts
        /\ \A k \in DOMAIN cxts : /\ cxts'[k].file = cxts[k].file
                                  /\ cxts'[k].opened => cxts[k].opened
                                  /\ cxts'[k].channel = 0 => cxts[k].channel = 0

LEMMA SupersededStays ==
    ASSUME DOMAIN cxts \subseteq DOMAIN cxts',
           \A k \in DOMAIN cxts : cxts'[k].file = cxts[k].file
    PROVE  \A k \in DOMAIN cxts : Superseded(k) => Superseded(k)'
BY DEF Superseded

LEMMA CalmNumbers ==
    ASSUME Unnumbered, Calm, sock' = "up" => sock = "up",
           main.pc \in StartPCs => main'.k = main.k /\ main'.pc \in StartPCs
    PROVE  Unnumbered'
<1> SUFFICES ASSUME sock' = "up", NEW k \in DOMAIN cxts', cxts'[k].opened, cxts'[k].channel = 0
             PROVE  Superseded(k)' \/ (main'.k = k /\ main'.pc \in StartPCs)
  BY DEF Unnumbered
<1>1. k \in DOMAIN cxts /\ cxts[k].opened /\ cxts[k].channel = 0
  BY DEF Calm
<1>2. Superseded(k) \/ (main.k = k /\ main.pc \in StartPCs)
  BY <1>1 DEF Unnumbered
<1>3. Superseded(k) => Superseded(k)'
  BY <1>1, SupersededStays DEF Calm
<1>4. QED
  BY <1>2, <1>3

LEMMA CalmHolds ==
    ASSUME HeldUntil, main.pc # "data answer", main'.pc # "serve", rc => rc',
           DOMAIN cxts' = DOMAIN cxts, \A k \in DOMAIN cxts : cxts'[k].held => cxts[k].held
    PROVE  HeldUntil'
BY DEF HeldUntil

LEMMA CalmSame == cxts' = cxts => Calm /\ \A k \in DOMAIN cxts : cxts'[k].held => cxts[k].held
BY DEF Calm

LEMMA GotoGives ==
    ASSUME FollowerType
    PROVE  /\ \A l : Goto(l) => main'.pc = l /\ main'.k = main.k
           /\ NextContext => main'.pc = "run"
BY DEF FollowerType, Goto, NextContext

(* Steps that exchange no message. *)
LEMMA MainAlone ==
    ASSUME FollowerType, MainAtContext, NumberInv, HeldUntil,
           Serve \/ NotConnected \/ NoFileYet \/ OpenFile \/ ReadText \/ NothingToRead
                 \/ EndOfWalk
    PROVE  NumberInv' /\ HeldUntil'
<1>1. UNCHANGED connection /\ sock' = sock
  BY DEF Serve, NotConnected, NoFileYet, OpenFile, ReadText, NothingToRead, EndOfWalk, connection
<1>2. CASE Serve
  <2>1. main.pc = "serve" /\ main'.pc = "run" /\ cxts' = cxts
    BY <1>2 DEF Serve, At
  <2>2. Unnumbered' /\ SendNumbered'
    BY <1>1, <2>1, CalmSame, CalmNumbers DEF NumberInv, StartPCs, SendNumbered
  <2>3. HeldUntil'
    BY <2>1 DEF HeldUntil
  <2>4. QED
    BY <2>2, <2>3 DEF NumberInv
<1>3. CASE NotConnected \/ NoFileYet \/ NothingToRead
  <2>1. main.pc \in {"run", "read"} /\ main'.pc = "run" /\ cxts' = cxts /\ (rc => rc')
    BY <1>3, GotoGives DEF NotConnected, NoFileYet, NothingToRead, AtRead, Running, At
  <2>2. Unnumbered' /\ SendNumbered'
    BY <1>1, <2>1, CalmSame, CalmNumbers DEF NumberInv, StartPCs, SendNumbered
  <2>3. HeldUntil'
    BY <2>1, CalmSame, CalmHolds
  <2>4. QED
    BY <2>2, <2>3 DEF NumberInv
<1>4. CASE ReadText
  <2>1. /\ main.pc \in {"run", "read"} /\ cxts' = cxts /\ rc' = rc
        /\ main'.pc = (IF cxt.channel = 0 THEN "init again" ELSE "send") /\ main'.k = main.k
    BY <1>4, GotoGives DEF ReadText, AtRead, Running, At
  <2>2. Unnumbered'
    BY <1>1, <2>1, CalmSame, CalmNumbers DEF NumberInv, StartPCs
  <2>3. SendNumbered'
    BY <2>1 DEF SendNumbered, cxt
  <2>4. HeldUntil'
    BY <2>1, CalmSame, CalmHolds
  <2>5. QED
    BY <2>2, <2>3, <2>4 DEF NumberInv
<1>5. CASE EndOfWalk
  <2>1. main.pc = "run" /\ main'.pc = (IF rc THEN "reconnect" ELSE "serve")
        /\ cxts' = cxts /\ rc' = rc
    BY <1>5, GotoGives DEF EndOfWalk, At
  <2>2. Unnumbered' /\ SendNumbered'
    BY <1>1, <2>1, CalmSame, CalmNumbers DEF NumberInv, StartPCs, SendNumbered
  <2>3. HeldUntil'
    BY <2>1 DEF HeldUntil
  <2>4. QED
    BY <2>2, <2>3 DEF NumberInv
<1>6. CASE OpenFile
  <2> DEFINE k0 == main.k
  <2>1. /\ main.pc = "run" /\ main'.pc = "init" /\ main'.k = k0 /\ rc' = rc
        /\ cxts' = [cxts EXCEPT ![k0].opened = TRUE] /\ main.k > 0
    BY <1>6, GotoGives DEF OpenFile, Running, At
  <2>2. k0 \in DOMAIN cxts /\ cxts[k0] \in Context /\ cxts \in Seq(Context)
    BY <2>1, AtContext DEF FollowerType, cxt
  <2> HIDE DEF k0
  <2>3. /\ DOMAIN cxts' = DOMAIN cxts
        /\ \A k \in DOMAIN cxts \ {k0} : cxts'[k] = cxts[k]
        /\ cxts'[k0].file = cxts[k0].file /\ cxts'[k0].held = cxts[k0].held
    BY <2>1, <2>2 DEF Context
  <2>4. Unnumbered'
    <3> SUFFICES ASSUME sock' = "up", NEW k \in DOMAIN cxts', cxts'[k].opened, cxts'[k].channel = 0
                 PROVE  Superseded(k)' \/ (main'.k = k /\ main'.pc \in StartPCs)
      BY DEF Unnumbered
    <3>1. CASE k = k0
      BY <2>1, <3>1 DEF StartPCs
    <3>2. CASE k # k0
      <4>1. Superseded(k)
        BY <1>1, <2>1, <2>3, <3>2 DEF NumberInv, Unnumbered, StartPCs
      <4>2. QED
        BY <2>3, <4>1, SupersededStays
    <3>3. QED
      BY <3>1, <3>2
  <2>5. SendNumbered'
    BY <2>1 DEF SendNumbered
  <2>6. HeldUntil'
    <3>1. \A k \in DOMAIN cxts : cxts'[k].held => cxts[k].held
      BY <2>3
    <3>2. QED
      BY <2>1, <2>3, <3>1, CalmHolds
  <2>7. QED
    BY <2>4, <2>5, <2>6 DEF NumberInv
<1>7. QED
  BY <1>2, <1>3, <1>4, <1>5, <1>6

LEMMA HandlerAway ==
    ASSUME HandlerAtPattern, sig.p = 0, sig' = sig
    PROVE  /\ Waiting = IF main.pc \in WaitPCs THEN 1 ELSE 0
           /\ Waiting' = IF main'.pc \in WaitPCs THEN 1 ELSE 0
<1>1. ~sig.waits /\ ~sig'.waits
  BY DEF HandlerAtPattern
<1>2. QED
  BY <1>1, WaitingIs

(* INIT is sent, or cannot be. *)
LEMMA SendInitAnswers ==
    ASSUME ConnectionType, FollowerType, HandlerAtPattern, OneEach, AnswerInv, SendInit
    PROVE  RepliesBounded' /\ OkHasNumber' /\ ~RefusalDue' /\ NumberInv' /\ HeldUntil'
<1>1. /\ main.pc \in {"init", "init again"} /\ main'.k = main.k /\ sig.p = 0
      /\ cxts' = cxts /\ rc' = rc /\ sig' = sig
      /\ \/ /\ SendSucceeds(Message("INIT", 0))
            /\ main'.pc = IF main.pc = "init" THEN "init answer" ELSE "init again answer"
         \/ /\ SendFails
            /\ main'.pc = IF main.pc = "init" THEN "read" ELSE "send"
  BY GotoGives DEF SendInit, At, AfterInit
<1>2. Waiting = 0 /\ Waiting' \in {0, 1}
  BY <1>1, HandlerAway DEF WaitPCs
<1>3. SendSucceeds(Message("INIT", 0)) \/ SendFails
  BY <1>1
<1>4. /\ RepliesBounded' /\ OkHasNumber'
      /\ RefusalDue' => RefusalDue \/ (sock = "up" /\ Refused(Message("INIT", 0)))
      /\ sock' = "up" => sock = "up" /\ SendSucceeds(Message("INIT", 0))
  BY <1>2, <1>3, SendKeeps DEF AnswerInv
<1>5. ~Refused(Message("INIT", 0))
  BY DEF Refused, Message
<1>6. ~RefusalDue
  BY <1>2, NothingDue DEF AnswerInv
<1>7. sock' = "up" => main'.pc = IF main.pc = "init" THEN "init answer" ELSE "init again answer"
  <2>1. SendFails => sock' = "none"
    BY DEF SendFails
  <2>2. QED
    BY <1>1, <2>1
<1>8. Unnumbered'
  <2>1. CASE sock' = "up"
    BY <1>1, <1>4, <1>7, <2>1, CalmSame, CalmNumbers DEF AnswerInv, NumberInv, StartPCs
  <2>2. CASE sock' # "up"
    BY <2>2 DEF Unnumbered
  <2>3. QED
    BY <2>1, <2>2
<1>9. SendNumbered'
  BY <1>7 DEF SendNumbered
<1>10. HeldUntil'
  <2>1. main.pc # "data answer" /\ main'.pc # "serve"
    BY <1>1
  <2>2. QED
    BY <1>1, <2>1, CalmSame, CalmHolds DEF AnswerInv
<1>11. QED
  BY <1>4, <1>5, <1>6, <1>8, <1>9, <1>10 DEF NumberInv

(* INIT is answered, by the answer to INIT or by another. *)
LEMMA InitAnswers ==
    ASSUME ConnectionType, FollowerType, MainAtContext, HandlerAtPattern, OneEach, OneEach',
           ConnectionType', AnswerInv, InitAnswered \/ InitFails
    PROVE  RepliesBounded' /\ OkHasNumber' /\ ~RefusalDue' /\ NumberInv' /\ HeldUntil'
<1>1. /\ main.pc \in {"init answer", "init again answer"} /\ main'.k = main.k /\ sig.p = 0
      /\ main'.pc = (IF main.pc = "init answer" THEN "read" ELSE "send")
      /\ rc' = rc /\ sig' = sig /\ (ReceiveSucceeds \/ ReceiveFails)
  BY GotoGives DEF InitAnswered, InitFails, At, AfterInit
<1>2. Waiting = 1 /\ Waiting' = 0
  BY <1>1, HandlerAway DEF WaitPCs
<1>3. /\ RepliesBounded' /\ OkHasNumber'
      /\ sock' = "up" => sock = "up"
  <2>1. Waiting' = Waiting - 1
    BY <1>2
  <2>2. ReceiveSucceeds \/ ReceiveFails
    BY <1>1
  <2>3. RepliesBounded /\ OkHasNumber
    BY DEF AnswerInv
  <2>4. QED
    BY <2>1, <2>2, <2>3, ReceiveKeeps
<1>4. ~RefusalDue'
  BY <1>2, <1>3, NothingDue
<1>5. main.pc # "data answer" /\ main'.pc # "serve"
  BY <1>1
<1>6. CASE InitFails
  <2>1. cxts' = cxts /\ sock' # "up"
    BY <1>6 DEF InitFails, ReceiveFails
  <2>2. HeldUntil'
    BY <1>1, <1>5, <2>1, CalmSame, CalmHolds DEF AnswerInv
  <2>3. QED
    BY <1>3, <1>4, <2>1, <2>2 DEF NumberInv, Unnumbered, SendNumbered
<1>7. CASE InitAnswered
  <2> DEFINE k0 == main.k
             r  == Head(resp)
  <2>1. /\ cxts' = IF r.ok THEN [cxts EXCEPT ![k0].channel = r.channel] ELSE cxts
        /\ sock # "none" /\ sock' = sock /\ resp # << >>
    BY <1>7 DEF InitAnswered, ReceiveSucceeds
  <2>2. k0 \in DOMAIN cxts /\ cxts[k0] \in Context /\ cxts \in Seq(Context)
    BY <1>1, AtContext DEF FollowerType, cxt, MainAtContext
  <2>3. 1 \in DOMAIN resp /\ r = resp[1]
    <3>1. resp \in Seq(Reply)
      BY DEF ConnectionType
    <3>2. QED
      BY <2>1, <3>1, TailOf
  <2>4. r.ok => r.channel # 0
    BY <2>3 DEF AnswerInv, OkHasNumber
  <2>5. ~r.ok => main.pc = "init answer" /\ Superseded(main.k)
    <3>1. ~sig.waits
      BY <1>1 DEF HandlerAtPattern
    <3>2. ~r.ok => RefusalDue
      BY <2>1, <2>3 DEF RefusalDue
    <3>3. QED
      BY <1>1, <3>1, <3>2 DEF AnswerInv, RefusedAtStart
  <2>6. main'.k = k0 /\ cxt' = cxts'[k0]
    BY <1>1 DEF cxt
  <2>7. main.k = k0
    OBVIOUS
  <2> HIDE DEF k0, r
  <2>8. /\ DOMAIN cxts' = DOMAIN cxts
        /\ \A k \in DOMAIN cxts \ {k0} : cxts'[k] = cxts[k]
        /\ cxts'[k0].file = cxts[k0].file /\ cxts'[k0].held = cxts[k0].held
        /\ cxts'[k0].channel = IF r.ok THEN r.channel ELSE cxts[k0].channel
    <3>1. CASE r.ok
      BY <2>1, <2>2, <3>1 DEF Context
    <3>2. CASE ~r.ok
      BY <2>1, <3>2
    <3>3. QED
      BY <3>1, <3>2
  <2>9. Unnumbered'
    <3> SUFFICES ASSUME sock' = "up", NEW k \in DOMAIN cxts', cxts'[k].opened, cxts'[k].channel = 0
                 PROVE  Superseded(k)'
      BY DEF Unnumbered
    <3>1. Superseded(k)
      <4>1. CASE k = k0
        BY <2>4, <2>5, <2>7, <2>8, <4>1
      <4>2. CASE k # k0
        BY <2>1, <2>7, <2>8, <4>2 DEF AnswerInv, NumberInv, Unnumbered
      <4>3. QED
        BY <4>1, <4>2
    <3>2. QED
      BY <2>8, <3>1, SupersededStays
  <2>10. SendNumbered'
    <3>1. main'.pc = "send" => r.ok
      BY <1>1, <2>5
    <3>2. QED
      BY <2>4, <2>6, <2>8, <3>1 DEF SendNumbered
  <2>11. HeldUntil'
    <3>1. \A k \in DOMAIN cxts : cxts'[k].held => cxts[k].held
      BY <2>8
    <3>2. QED
      BY <1>1, <1>5, <2>8, <3>1, CalmHolds DEF AnswerInv
  <2>12. QED
    BY <1>3, <1>4, <2>9, <2>10, <2>11 DEF NumberInv
<1>8. QED
  BY <1>6, <1>7

(* DATA is sent, or cannot be. *)
LEMMA SendDataAnswers ==
    ASSUME ConnectionType, FollowerType, MainAtContext, HandlerAtPattern, AnswerInv, SendData
    PROVE  RepliesBounded' /\ OkHasNumber' /\ ~RefusalDue' /\ NumberInv' /\ HeldUntil'
<1> DEFINE k0 == main.k
           m  == Message("DATA", cxt.channel)
<1>1. /\ main.pc = "send" /\ sig.p = 0 /\ sig' = sig
      /\ cxts' = [cxts EXCEPT ![k0].held = TRUE]
      /\ \/ /\ SendSucceeds(m)
            /\ main'.pc = "data answer" /\ main'.k = k0 /\ rc' = rc
         \/ /\ SendFails
            /\ main'.pc = "run" /\ rc' = TRUE
  BY GotoGives DEF SendData, At
<1>2. Waiting = 0 /\ Waiting' \in {0, 1}
  BY <1>1, HandlerAway DEF WaitPCs
<1>3. m.channel = cxt.channel
  BY DEF Message
<1>4. k0 \in DOMAIN cxts /\ cxts[k0] \in Context /\ cxts \in Seq(Context) /\ main.k = k0
  BY <1>1, AtContext DEF FollowerType, cxt, MainAtContext
<1> HIDE DEF k0, m
<1>5. /\ RepliesBounded' /\ OkHasNumber'
      /\ RefusalDue' => RefusalDue \/ (sock = "up" /\ Refused(m))
      /\ sock' = "up" => sock = "up"
  <2>1. SendSucceeds(m) \/ SendFails
    BY <1>1
  <2>2. QED
    BY <1>2, <2>1, SendKeeps DEF AnswerInv
<1>6. ~RefusalDue /\ (sock = "up" => ~Refused(m))
  BY <1>1, <1>3 DEF AnswerInv, RefusedAtStart, NumberInv, SendNumbered, Refused
<1>7. /\ DOMAIN cxts' = DOMAIN cxts
      /\ \A k \in DOMAIN cxts \ {k0} : cxts'[k] = cxts[k]
      /\ cxts'[k0].file = cxts[k0].file /\ cxts'[k0].opened = cxts[k0].opened
      /\ cxts'[k0].channel = cxts[k0].channel
  BY <1>1, <1>4 DEF Context
<1>8. Calm
  BY <1>7 DEF Calm
<1>9. Unnumbered'
  BY <1>1, <1>5, <1>8, CalmNumbers DEF AnswerInv, NumberInv, StartPCs
<1>10. SendNumbered'
  BY <1>1 DEF SendNumbered
<1>11. HeldUntil'
  <2> SUFFICES ASSUME NEW k \in DOMAIN cxts', cxts'[k].held
               PROVE  (main'.pc = "data answer" /\ main'.k = k) \/ (rc' /\ main'.pc # "serve")
    BY DEF HeldUntil
  <2>1. CASE k = k0
    BY <1>1, <2>1
  <2>2. CASE k # k0
    <3>1. rc
      BY <1>1, <1>7, <2>2 DEF AnswerInv, HeldUntil
    <3>2. QED
      BY <1>1, <3>1
  <2>3. QED
    BY <2>1, <2>2
<1>12. QED
  BY <1>5, <1>6, <1>9, <1>10, <1>11 DEF NumberInv

(* DATA is answered: OK, whoever the answer was meant for. *)
LEMMA DataAnswers ==
    ASSUME ConnectionType, FollowerType, MainAtContext, HandlerAtPattern, AnswerInv,
           DataAnswered \/ DataFails
    PROVE  RepliesBounded' /\ OkHasNumber' /\ ~RefusalDue' /\ NumberInv' /\ HeldUntil'
<1>1. /\ main.pc = "data answer" /\ main'.pc = "run" /\ sig.p = 0 /\ sig' = sig
      /\ ReceiveSucceeds \/ ReceiveFails
  BY GotoGives DEF DataAnswered, DataFails, At
<1>2. Waiting = 1 /\ Waiting' = 0
  BY <1>1, HandlerAway DEF WaitPCs
<1>3. /\ RepliesBounded' /\ OkHasNumber' /\ (RefusalDue' => RefusalDue)
      /\ sock' = "up" => sock = "up"
  <2>1. Waiting' = Waiting - 1
    BY <1>2
  <2>2. ReceiveSucceeds \/ ReceiveFails
    BY <1>1
  <2>3. RepliesBounded /\ OkHasNumber
    BY DEF AnswerInv
  <2>4. QED
    BY <2>1, <2>2, <2>3, ReceiveKeeps
<1>4. ~RefusalDue
  BY <1>1 DEF AnswerInv, RefusedAtStart
<1>5. SendNumbered'
  BY <1>1 DEF SendNumbered
<1>6. CASE DataFails
  <2>1. cxts' = cxts /\ rc' = TRUE
    BY <1>6 DEF DataFails
  <2>2. Unnumbered'
    BY <1>1, <1>3, <2>1, CalmSame, CalmNumbers DEF AnswerInv, NumberInv, StartPCs
  <2>3. HeldUntil'
    BY <1>1, <2>1 DEF HeldUntil
  <2>4. QED
    BY <1>3, <1>4, <1>5, <2>2, <2>3 DEF NumberInv
<1>7. CASE DataAnswered
  <2> DEFINE k0 == main.k
             r  == Head(resp)
  <2>1. /\ cxts' = [cxts EXCEPT ![k0].held = ~r.ok] /\ rc' = rc
        /\ sock # "none" /\ resp # << >>
    BY <1>7 DEF DataAnswered, ReceiveSucceeds
  <2>2. k0 \in DOMAIN cxts /\ cxts[k0] \in Context /\ cxts \in Seq(Context) /\ main.k = k0
    BY <1>1, AtContext DEF FollowerType, cxt, MainAtContext
  <2>3. 1 \in DOMAIN resp /\ r = resp[1]
    <3>1. resp \in Seq(Reply)
      BY DEF ConnectionType
    <3>2. QED
      BY <2>1, <3>1, TailOf
  <2>4. r.ok
    BY <1>4, <2>1, <2>3 DEF RefusalDue
  <2> HIDE DEF k0, r
  <2>5. /\ DOMAIN cxts' = DOMAIN cxts
        /\ \A k \in DOMAIN cxts \ {k0} : cxts'[k] = cxts[k]
        /\ cxts'[k0].file = cxts[k0].file /\ cxts'[k0].opened = cxts[k0].opened
        /\ cxts'[k0].channel = cxts[k0].channel /\ ~cxts'[k0].held
    BY <2>1, <2>2, <2>4 DEF Context
  <2>6. Calm
    BY <2>5 DEF Calm
  <2>7. Unnumbered'
    BY <1>1, <1>3, <2>6, CalmNumbers DEF AnswerInv, NumberInv, StartPCs
  <2>8. HeldUntil'
    <3> SUFFICES ASSUME NEW k \in DOMAIN cxts', cxts'[k].held PROVE rc'
      BY <1>1 DEF HeldUntil
    <3>1. k # k0 /\ cxts[k].held
      BY <2>5
    <3>2. QED
      BY <2>1, <2>2, <2>5, <3>1 DEF AnswerInv, HeldUntil
  <2>9. QED
    BY <1>3, <1>4, <1>5, <2>7, <2>8 DEF NumberInv
<1>8. QED
  BY <1>6, <1>7

(* The contexts are reset. *)
LEMMA ResetAnswers ==
    ASSUME ConnectionType, FollowerType, HandlerAtPattern, AnswerInv, Reconnect \/ ReconnectFails
    PROVE  RepliesBounded' /\ OkHasNumber' /\ ~RefusalDue' /\ NumberInv' /\ HeldUntil'
<1>1. /\ main.pc = "reconnect" /\ main'.pc = "serve" /\ ResetContexts /\ sig.p = 0 /\ sig' = sig
  BY GotoGives DEF Reconnect, ReconnectFails, At
<1>2. DOMAIN cxts' = DOMAIN cxts /\ \A k \in DOMAIN cxts : ~cxts'[k].opened /\ ~cxts'[k].held
  <2>1. \A k \in DOMAIN cxts : cxts[k] \in Context
    BY LenProperties, ElementOfSeq DEF FollowerType
  <2>2. QED
    BY <1>1, <2>1 DEF ResetContexts, Context
<1>3. NumberInv' /\ HeldUntil'
  BY <1>1, <1>2 DEF NumberInv, Unnumbered, SendNumbered, HeldUntil
<1>4. ~RefusalDue
  BY <1>1 DEF AnswerInv, RefusedAtStart
<1>5. Waiting \in Nat /\ Waiting' = 0 /\ Waiting = 0
  BY <1>1, HandlerAway DEF WaitPCs
<1>6. CASE Reconnect
  <2>1. req' = << >> /\ resp' = << >>
    BY <1>6 DEF Reconnect
  <2>2. RepliesBounded'
    BY <1>5, <2>1 DEF RepliesBounded
  <2>3. QED
    BY <1>3, <2>1, <2>2 DEF OkHasNumber, RefusalDue
<1>7. CASE ReconnectFails
  <2>1. UNCHANGED connection
    BY <1>7 DEF ReconnectFails
  <2>2. QED
    BY <1>3, <1>4, <1>5, <2>1, StillKeeps DEF AnswerInv
<1>8. QED
  BY <1>6, <1>7

LEMMA MainAnswers ==
    ASSUME ConnectionType, FollowerType, MainAtContext, HandlerAtPattern, OneEach, OneEach',
           ConnectionType', AnswerInv, MainStep
    PROVE  AnswerInv'
<1>1. RepliesBounded' /\ OkHasNumber' /\ ~RefusalDue' /\ NumberInv' /\ HeldUntil'
  <2>1. CASE Serve \/ NotConnected \/ NoFileYet \/ OpenFile \/ ReadText \/ NothingToRead
             \/ EndOfWalk
    <3>1. /\ main.pc \in {"serve", "run", "read"} /\ sig.p = 0 /\ sig' = sig
          /\ UNCHANGED connection
      BY <2>1 DEF Serve, NotConnected, NoFileYet, OpenFile, ReadText, NothingToRead,
         EndOfWalk, AtRead, Running, At
    <3>2. Waiting = 0 /\ Waiting' \in Nat
      BY <3>1, HandlerAway, WaitingIs DEF WaitPCs
    <3>3. ~RefusalDue
      BY <3>1 DEF AnswerInv, RefusedAtStart
    <3>4. NumberInv' /\ HeldUntil'
      BY <2>1, MainAlone DEF AnswerInv
    <3>5. QED
      BY <3>1, <3>2, <3>3, <3>4, StillKeeps DEF AnswerInv
  <2>2. CASE SendInit
    BY <2>2, SendInitAnswers
  <2>3. CASE InitAnswered \/ InitFails
    BY <2>3, InitAnswers
  <2>4. CASE SendData
    BY <2>4, SendDataAnswers
  <2>5. CASE DataAnswered \/ DataFails
    BY <2>5, DataAnswers
  <2>6. CASE Reconnect \/ ReconnectFails
    BY <2>6, ResetAnswers
  <2>7. QED
    BY <2>1, <2>2, <2>3, <2>4, <2>5, <2>6 DEF MainStep
<1>2. QED
  BY <1>1 DEF AnswerInv, RefusedAtStart

----------------------------------------------------------------------------
(* The handler's steps.                                                      *)

(* It changes no context, and may add a new one. *)
Added == \/ cxts' = cxts
         \/ \E c : cxts' = Append(cxts, c) /\ ~c.opened /\ ~c.held

LEMMA AddedIs ==
    ASSUME FollowerType, Added
    PROVE  /\ DOMAIN cxts \subseteq DOMAIN cxts'
           /\ \A k \in DOMAIN cxts : cxts'[k] = cxts[k]
           /\ \A k \in DOMAIN cxts' \ DOMAIN cxts : ~cxts'[k].opened /\ ~cxts'[k].held
<1>1. CASE cxts' = cxts
  BY <1>1
<1>2. CASE cxts' # cxts
  <2>1. PICK c : cxts' = Append(cxts, c) /\ ~c.opened /\ ~c.held
    BY <1>2 DEF Added
  <2>2. cxts \in Seq(Context) /\ Len(cxts) \in Nat
    BY LenProperties DEF FollowerType
  <2>3. DOMAIN cxts = 1..Len(cxts) /\ DOMAIN cxts' = 1..(Len(cxts) + 1)
    BY <2>1, <2>2
  <2>4. \A k \in 1..Len(cxts) : cxts'[k] = cxts[k]
    BY <2>1, <2>2
  <2>5. cxts'[Len(cxts) + 1] = c
    BY <2>1, <2>2
  <2>6. \A k \in DOMAIN cxts' \ DOMAIN cxts : k = Len(cxts) + 1
    BY <2>2, <2>3
  <2>7. QED
    BY <2>1, <2>2, <2>3, <2>4, <2>5, <2>6
<1>3. QED
  BY <1>1, <1>2

LEMMA AddedKeeps ==
    ASSUME FollowerType, MainAtContext, NumberInv, HeldUntil, Added, main' = main, rc' = rc,
           sock' = "up" => sock = "up"
    PROVE  /\ NumberInv' /\ HeldUntil'
           /\ \A k \in DOMAIN cxts : Superseded(k) => Superseded(k)'
<1>1. /\ DOMAIN cxts \subseteq DOMAIN cxts'
      /\ \A k \in DOMAIN cxts : cxts'[k] = cxts[k]
      /\ \A k \in DOMAIN cxts' \ DOMAIN cxts : ~cxts'[k].opened /\ ~cxts'[k].held
  BY AddedIs
<1>2. \A k \in DOMAIN cxts : Superseded(k) => Superseded(k)'
  BY <1>1, SupersededStays
<1>3. Unnumbered'
  <2> SUFFICES ASSUME sock' = "up", NEW k \in DOMAIN cxts', cxts'[k].opened, cxts'[k].channel = 0
               PROVE  Superseded(k)' \/ (main'.k = k /\ main'.pc \in StartPCs)
    BY DEF Unnumbered
  <2>1. k \in DOMAIN cxts /\ cxts[k].opened /\ cxts[k].channel = 0
    BY <1>1
  <2>2. Superseded(k) \/ (main.k = k /\ main.pc \in StartPCs)
    BY <2>1 DEF NumberInv, Unnumbered
  <2>3. QED
    BY <1>2, <2>1, <2>2
<1>4. SendNumbered'
  <2> SUFFICES ASSUME sock' = "up", main'.pc = "send" PROVE cxt'.channel # 0
    BY DEF SendNumbered
  <2>1. main.k \in DOMAIN cxts
    BY AtContext DEF MainAtContext
  <2>2. cxt' = cxt
    BY <1>1, <2>1 DEF cxt
  <2>3. QED
    BY <2>2 DEF NumberInv, SendNumbered
<1>5. HeldUntil'
  BY <1>1 DEF HeldUntil
<1>6. QED
  BY <1>2, <1>3, <1>4, <1>5 DEF NumberInv

LEMMA AddIs ==
    ASSUME Add
    PROVE  Added
BY DEF Add, Added, NewContext

(* A new context supersedes the one the handler found. *)
LEMMA AddSupersedes ==
    ASSUME FollowerType, Add, NEW k \in DOMAIN cxts, cxts[k].file = FileOf(sig.p, sig.day)
    PROVE  Superseded(k)'
<1>1. cxts \in Seq(Context) /\ Len(cxts) \in Nat /\ DOMAIN cxts = 1..Len(cxts)
  BY LenProperties DEF FollowerType
<1> DEFINE j == Len(cxts) + 1
<1>2. cxts' = Append(cxts, NewContext(sig.p, sig.day))
  BY DEF Add
<1>3. j \in DOMAIN cxts' /\ cxts'[j] = NewContext(sig.p, sig.day) /\ cxts'[k] = cxts[k]
  BY <1>1, <1>2
<1>4. cxts'[j].file = FileOf(sig.p, sig.day)
  BY <1>3 DEF NewContext
<1>5. j > k
  BY <1>1
<1> HIDE DEF j
<1>6. QED
  BY <1>3, <1>4, <1>5 DEF Superseded

(* Steps of the handler that exchange no message, or take its answer. *)
LEMMA HandlerQuiet ==
    ASSUME ConnectionType, FollowerType, MainAtContext, HandlerAtPattern, AnswerInv, HandlerStep,
           ~Release
    PROVE  AnswerInv'
<1>1. main' = main /\ rc' = rc
  BY DEF HandlerStep, Alarm, Following, NotFollowed, NothingToRelease, ReleaseFails, Released
<1>2. sig.waits => sig.p # 0
  BY DEF HandlerAtPattern
<1>3. ~sig'.waits
  BY <1>2 DEF HandlerStep, Alarm, Following, NotFollowed, NothingToRelease, ReleaseFails,
     Released, NextPattern
<1>4. (Add \/ cxts' = cxts) /\ (sig.waits => Add)
  BY <1>2 DEF HandlerStep, Alarm, Following, NotFollowed, NothingToRelease, ReleaseFails,
     Released, AtPattern
<1>5. Added
  BY <1>4, AddIs DEF Added
<1>6. Waiting' = IF sig.waits THEN Waiting - 1 ELSE Waiting
  BY <1>1, <1>3, WaitingIs
<1>7. \/ UNCHANGED connection /\ ~sig.waits
      \/ SendFails /\ ~sig.waits
      \/ ReceiveFails
      \/ ReceiveSucceeds /\ sig.waits
  BY <1>2 DEF HandlerStep, Alarm, Following, NotFollowed, NothingToRelease, ReleaseFails,
     Released, AtPattern
<1>8. RepliesBounded /\ OkHasNumber /\ Waiting \in Nat
  BY WaitingIs DEF AnswerInv
<1>9. /\ RepliesBounded' /\ OkHasNumber' /\ (RefusalDue' => RefusalDue)
      /\ sock' = "up" => sock = "up"
  <2>1. CASE UNCHANGED connection /\ ~sig.waits
    <3>1. Waiting' >= Waiting
      BY <1>6, <1>8, <2>1
    <3>2. sock' = sock
      BY <2>1 DEF connection
    <3>3. QED
      BY <1>8, <2>1, <3>1, <3>2, StillKeeps
  <2>2. CASE SendFails /\ ~sig.waits
    <3>1. sock' = "none" /\ resp' = resp
      BY <2>2 DEF SendFails
    <3>2. QED
      BY <1>8, <3>1 DEF RepliesBounded, OkHasNumber, RefusalDue
  <2>3. CASE ReceiveFails
    BY <1>8, <2>3, ReceiveKeeps
  <2>4. CASE ReceiveSucceeds /\ sig.waits
    <3>1. Waiting' = Waiting - 1
      BY <1>6, <2>4
    <3>2. QED
      BY <1>8, <2>4, <3>1, ReceiveKeeps
  <2>5. QED
    BY <1>7, <2>1, <2>2, <2>3, <2>4
<1>10. /\ NumberInv' /\ HeldUntil'
       /\ \A k \in DOMAIN cxts : Superseded(k) => Superseded(k)'
  BY <1>1, <1>5, <1>9, AddedKeeps DEF AnswerInv
<1>11. RefusedAtStart'
  <2> SUFFICES ASSUME RefusalDue', main.pc # "init"
               PROVE  main.pc = "init answer" /\ Superseded(main.k)'
    BY <1>1 DEF RefusedAtStart
  <2>1. /\ main.pc = "init answer"
        /\ \/ Superseded(main.k)
           \/ sig.waits /\ cxt.file = FileOf(sig.p, sig.day)
    BY <1>9 DEF AnswerInv, RefusedAtStart
  <2>2. main.k \in DOMAIN cxts
    BY <2>1, AtContext DEF MainAtContext
  <2>3. ASSUME NEW k, k = main.k PROVE Superseded(k)'
    <3>1. CASE Superseded(main.k)
      BY <1>10, <2>2, <2>3, <3>1
    <3>2. CASE sig.waits /\ cxt.file = FileOf(sig.p, sig.day)
      BY <1>4, <2>2, <2>3, <3>2, AddSupersedes DEF cxt
    <3>3. QED
      BY <2>1, <3>1, <3>2
  <2>4. \A k : k = main.k => Superseded(k)'
    BY <2>3
  <2>5. Superseded(main.k)'
    BY <1>1, <2>4 DEF Superseded
  <2>6. QED
    BY <2>1, <2>5
<1>12. QED
  BY <1>9, <1>10, <1>11 DEF AnswerInv

(* The handler sends RELE; about channel 0 only for the context the main     *)
(* loop begins with.                                                         *)
LEMMA ReleaseAnswers ==
    ASSUME ConnectionType, FollowerType, MainAtContext, HandlerAtPattern, AnswerInv, Release
    PROVE  AnswerInv'
<1>1. /\ UNCHANGED <<cxts, main, rc>> /\ sig.p # 0 /\ ~sig.waits
      /\ sig' = [sig EXCEPT !.waits = TRUE]
  BY DEF Release, AtPattern
<1>2. sig'.waits /\ sig'.p = sig.p /\ sig'.day = sig.day
  BY <1>1 DEF FollowerType
<1>3. PICK k \in SameFile : Rotated(k) /\ cxts[k].opened
          /\ SendSucceeds([code |-> "RELE", channel |-> cxts[k].channel,
                           name |-> cxts[k].name])
  BY DEF Release
<1> DEFINE m == [code |-> "RELE", channel |-> cxts[k].channel, name |-> cxts[k].name]
<1>4. m.channel = cxts[k].channel /\ SendSucceeds(m)
  BY <1>3
<1> HIDE DEF m
<1>5. Waiting' >= Waiting
  <2>1. Waiting' = Waiting + 1 /\ Waiting \in Nat
    BY <1>1, <1>2, WaitingIs
  <2>2. QED
    BY <2>1
<1>6. /\ RepliesBounded' /\ OkHasNumber'
      /\ RefusalDue' => RefusalDue \/ (sock = "up" /\ Refused(m))
      /\ sock' = "up" => sock = "up"
  BY <1>4, <1>5, SendKeeps DEF AnswerInv
<1>7. /\ NumberInv' /\ HeldUntil'
      /\ \A j \in DOMAIN cxts : Superseded(j) => Superseded(j)'
  BY <1>1, <1>6, AddedKeeps DEF AnswerInv, Added
<1>8. k \in DOMAIN cxts /\ cxts[k].file = FileOf(sig.p, sig.day) /\ cxts \in Seq(Context)
  BY DEF SameFile, FollowerType
<1>9. ~Superseded(k)
  <2> SUFFICES ASSUME NEW j \in DOMAIN cxts, j > k, cxts[j].file = cxts[k].file PROVE FALSE
    BY DEF Superseded
  <2>1. j \in SameFile
    BY <1>8 DEF SameFile
  <2>2. j <= k
    BY <1>3, <2>1 DEF Rotated, IsCurrent
  <2>3. j \in Nat /\ k \in Nat
    BY <1>8, LenProperties
  <2>4. QED
    BY <2>2, <2>3
<1>10. sock = "up" /\ Refused(m) => main.k = k /\ main.pc \in StartPCs
  BY <1>3, <1>4, <1>8, <1>9 DEF Refused, AnswerInv, NumberInv, Unnumbered
<1>11. RefusedAtStart'
  <2> SUFFICES ASSUME RefusalDue', main.pc # "init"
               PROVE  /\ main.pc = "init answer"
                      /\ Superseded(main.k)' \/ cxts[main.k].file = FileOf(sig.p, sig.day)
    BY <1>1, <1>2 DEF RefusedAtStart, cxt
  <2>1. CASE sock = "up" /\ Refused(m)
    BY <1>8, <1>10, <2>1 DEF StartPCs
  <2>2. CASE RefusalDue
    <3>1. main.pc = "init answer" /\ Superseded(main.k)
      BY <1>1, <2>2 DEF AnswerInv, RefusedAtStart
    <3>2. Superseded(main.k)'
      BY <1>1, <3>1 DEF Superseded
    <3>3. QED
      BY <3>1, <3>2
  <2>3. QED
    BY <1>6, <2>1, <2>2
<1>12. QED
  BY <1>6, <1>7, <1>11 DEF AnswerInv

----------------------------------------------------------------------------
(* The aggregator's steps.                                                   *)

LEMMA RestKeeps ==
    ASSUME AnswerInv, UNCHANGED follower, sock' = "up" => sock = "up", RefusalDue' => RefusalDue
    PROVE  RefusedAtStart' /\ NumberInv' /\ HeldUntil'
<1>1. UNCHANGED <<cxts, main, rc, sig>>
  BY DEF follower
<1>2. RefusedAtStart'
  BY <1>1 DEF AnswerInv, RefusedAtStart, Superseded, cxt
<1>3. Unnumbered'
  BY <1>1 DEF AnswerInv, NumberInv, Unnumbered, Superseded
<1>4. SendNumbered'
  BY <1>1 DEF AnswerInv, NumberInv, SendNumbered, cxt
<1>5. HeldUntil'
  BY <1>1 DEF AnswerInv, HeldUntil
<1>6. QED
  BY <1>2, <1>3, <1>4, <1>5 DEF NumberInv

LEMMA AggregatorAnswers ==
    ASSUME ConnectionType, OneEach', ConnectionType', Decreasing(table), AnswerInv,
           AggregatorStep
    PROVE  AnswerInv'
<1>1. /\ sock = "up" /\ UNCHANGED follower /\ req # << >> /\ req' = Tail(req)
  BY DEF AggregatorStep, HandleInit, HandleData, HandleRele, HandleDummy, AggregatorDies, Receives
<1>2. req \in Seq(Request) /\ resp \in Seq(Reply) /\ Len(resp) \in Nat
  BY LenProperties DEF ConnectionType
<1>3. /\ 1 \in DOMAIN req /\ Head(req) = req[1]
      /\ \A i \in DOMAIN req' : i + 1 \in DOMAIN req /\ req'[i] = req[i + 1]
  BY <1>1, <1>2, TailOf
<1>4. Waiting' = Waiting
  BY <1>1 DEF Waiting, follower
<1>5. CASE AggregatorDies
  <2>1. sock' = "dead" /\ resp' = resp
    BY <1>5 DEF AggregatorDies
  <2>2. RepliesBounded' /\ OkHasNumber' /\ (RefusalDue' => RefusalDue)
    BY <1>1, <1>4, <2>1 DEF AnswerInv, RepliesBounded, OkHasNumber, RefusalDue
  <2>3. QED
    BY <1>1, <2>1, <2>2, RestKeeps DEF AnswerInv
<1>6. CASE HandleInit \/ HandleData \/ HandleRele \/ HandleDummy
  <2>1. PICK r : /\ resp' = Append(resp, r)
                 /\ r.ok => r.channel # 0
                 /\ ~r.ok => Refused(Head(req))
    <3>1. CASE HandleInit
      <4>1. NextNumber # 0
        <5>1. table \in Seq(Channel)
          BY DEF ConnectionType
        <5>2. NextNumber = IF table = << >> THEN 1 ELSE table[1].id + 1
          BY <5>1, NextNumberIs
        <5>3. table # << >> => table[1].id \in Nat
          <6>1. table # << >> => 1 \in DOMAIN table
            BY <5>1, TailOf
          <6>2. QED
            BY <5>1, <6>1, ChannelIds
        <5>4. QED
          BY <5>2, <5>3
      <4>2. resp' = Append(resp, [ok |-> TRUE, channel |-> NextNumber])
        BY <3>1 DEF HandleInit, Answer
      <4>3. QED
        BY <4>1, <4>2
    <3>2. CASE HandleData \/ HandleRele
      <4>1. /\ resp' = Append(resp, [ok |-> TRUE, channel |-> Head(req).channel])
            /\ Head(req).channel # 0
        BY <3>2 DEF HandleData, HandleRele, Answer
      <4>2. QED
        BY <4>1
    <3>3. CASE HandleDummy
      <4>1. resp' = Append(resp, [ok |-> FALSE, channel |-> 0]) /\ Refused(Head(req))
        BY <3>3 DEF HandleDummy, Answer, Receives, Refused
      <4>2. QED
        BY <4>1
    <3>4. QED
      BY <1>6, <3>1, <3>2, <3>3
  <2>2. sock' = sock
    BY <1>6 DEF HandleInit, HandleData, HandleRele, HandleDummy
  <2>3. \A i \in DOMAIN resp' : (i \in DOMAIN resp /\ resp'[i] = resp[i]) \/ resp'[i] = r
    <3>1. DOMAIN resp = 1..Len(resp) /\ DOMAIN resp' = 1..(Len(resp) + 1)
      BY <1>2, <2>1
    <3>2. \A i \in 1..Len(resp) : resp'[i] = resp[i]
      BY <1>2, <2>1
    <3>3. resp'[Len(resp) + 1] = r
      BY <1>2, <2>1
    <3>4. \A i \in 1..(Len(resp) + 1) : i \in 1..Len(resp) \/ i = Len(resp) + 1
      BY <1>2
    <3>5. QED
      BY <3>1, <3>2, <3>3, <3>4
  <2>4. OkHasNumber'
    BY <2>1, <2>3 DEF AnswerInv, OkHasNumber
  <2>5. RefusalDue' => RefusalDue
    <3> SUFFICES ASSUME RefusalDue' PROVE RefusalDue
      OBVIOUS
    <3>1. CASE \E i \in DOMAIN req' : Refused(req'[i])
      BY <1>1, <1>3, <3>1 DEF RefusalDue
    <3>2. CASE \E i \in DOMAIN resp' : ~resp'[i].ok
      <4>1. PICK i \in DOMAIN resp' : ~resp'[i].ok
        BY <3>2
      <4>2. CASE i \in DOMAIN resp /\ resp'[i] = resp[i]
        BY <1>1, <4>1, <4>2 DEF RefusalDue
      <4>3. CASE resp'[i] = r
        BY <1>1, <1>3, <2>1, <4>1, <4>3 DEF RefusalDue
      <4>4. QED
        BY <2>3, <4>2, <4>3
    <3>3. QED
      BY <3>1, <3>2 DEF RefusalDue
  <2>6. RepliesBounded'
    <3>1. Len(req') \in Nat /\ Len(resp') \in Nat /\ Waiting' \in Nat
      BY WaitingIs, LenProperties DEF ConnectionType
    <3>2. Len(req') + Len(resp') = Waiting'
      BY <1>1, <2>2 DEF OneEach
    <3>3. QED
      BY <3>1, <3>2 DEF RepliesBounded
  <2>7. QED
    BY <1>1, <2>2, <2>4, <2>5, <2>6, RestKeeps DEF AnswerInv
<1>7. QED
  BY <1>5, <1>6 DEF AggregatorStep

(* The invariant of the answers, whatever the date changes: an NG is due only *)
(* while the main loop begins with a context the handler was just done with.  *)
THEOREM AnswerInvariant == Spec => []AnswerInv
<1>1. Init => AnswerInv
  <2> SUFFICES ASSUME Init PROVE AnswerInv
    OBVIOUS
  <2>1. /\ req = << >> /\ resp = << >> /\ main.pc = "serve" /\ DOMAIN cxts = Pattern
        /\ \A k \in Pattern : ~cxts[k].opened /\ ~cxts[k].held
    BY DEF Init, NewContext
  <2>2. RepliesBounded
    BY <2>1, WaitingIs DEF RepliesBounded
  <2>3. QED
    BY <2>1, <2>2 DEF AnswerInv, OkHasNumber, RefusedAtStart, RefusalDue, NumberInv,
       Unnumbered, SendNumbered, HeldUntil
<1>2. ChannelInv /\ ChannelInv' /\ AnswerInv /\ [Next]_vars => AnswerInv'
  <2> SUFFICES ASSUME ChannelInv, ChannelInv', AnswerInv, [Next]_vars PROVE AnswerInv'
    OBVIOUS
  <2>1. TypeOK /\ MainAtContext /\ HandlerAtPattern /\ Decreasing(table) /\ OneEach
    BY DEF ChannelInv
  <2>2. FollowerType /\ ConnectionType
    BY <2>1, TypeParts
  <2>3. OneEach' /\ ConnectionType'
    BY DEF ChannelInv, TypeOK, ConnectionType
  <2>4. CASE MainStep
    BY <2>1, <2>2, <2>3, <2>4, MainAnswers
  <2>5. CASE HandlerStep
    BY <2>1, <2>2, <2>5, HandlerQuiet, ReleaseAnswers
  <2>6. CASE AggregatorStep
    BY <2>1, <2>2, <2>3, <2>6, AggregatorAnswers
  <2>7. CASE NewDay \/ UNCHANGED vars
    <3>1. UNCHANGED follower /\ UNCHANGED connection
      BY <2>7 DEF NewDay, vars
    <3>2. UNCHANGED <<main, sig, sock>>
      BY <3>1 DEF follower, connection
    <3>3. RepliesBounded' /\ OkHasNumber' /\ (RefusalDue' => RefusalDue)
      <4>1. Waiting' >= Waiting
        <5>1. Waiting' = Waiting /\ Waiting \in Nat
          BY <3>2, WaitingIs
        <5>2. QED
          BY <5>1
      <4>2. QED
        BY <2>2, <3>1, <4>1, StillKeeps DEF AnswerInv
    <3>4. QED
      BY <3>1, <3>2, <3>3, RestKeeps DEF AnswerInv
  <2>8. CASE Break
    <3>1. sock = "up" /\ sock' = "dead" /\ req' = << >> /\ resp' = resp /\ UNCHANGED follower
      BY <2>8 DEF Break
    <3>2. Waiting' = Waiting
      BY <3>1 DEF Waiting, follower
    <3>3. RepliesBounded' /\ OkHasNumber' /\ (RefusalDue' => RefusalDue)
      BY <3>1, <3>2 DEF AnswerInv, RepliesBounded, OkHasNumber, RefusalDue
    <3>4. QED
      BY <3>1, <3>3, RestKeeps DEF AnswerInv
  <2>9. QED
    BY <2>4, <2>5, <2>6, <2>7, <2>8 DEF Next
<1>3. QED
  BY <1>1, <1>2, ChannelInvariant, PTL DEF Spec

(* No context holds a message when a walk begins: every DATA that is answered *)
(* is answered OK, so send_message never swaps a message's bytes twice.       *)
THEOREM NothingHeldHolds == Spec => []NothingHeld
<1>1. AnswerInv => NothingHeld
  BY DEF AnswerInv, HeldUntil, NothingHeld
<1>2. QED
  BY <1>1, AnswerInvariant, PTL
----------------------------------------------------------------------------
(* Routing: where names follow files. *)

(* Each name that changes with the date is that of a file that does. *)
NamesFollow == \A p \in Pattern : Patterns[p].name => Patterns[p].file

(* The list t has channel n, and it is the one of this name. *)
HomeIn(t, n, name) == \E i \in DOMAIN t : t[i].id = n /\ t[i].name = name

(* Each context follows some pattern as it is on some day. *)
Dated == \A k \in DOMAIN cxts : \E p \in Pattern, d \in 0..MaxDay :
             cxts[k].file = FileOf(p, d) /\ cxts[k].name = NameOf(p, d)

Starting(k) == main.k = k /\ main.pc \in {"init", "init answer"}

(* The channel number of an open context is that of its log, but while its    *)
(* first INIT is under way.                                                   *)
Registered ==
    \A k \in DOMAIN cxts :
        cxts[k].opened /\ cxts[k].channel # 0 =>
            Starting(k) \/ HomeIn(table, cxts[k].channel, cxts[k].name)

AtPCs == {"init", "init answer", "read", "init again", "init again answer",
          "send", "data answer"}
AtOpen == main.pc \in AtPCs => cxt.opened

SendReady == main.pc = "send" => cxt.channel # 0

InitPCs == {"init answer", "init again answer"}

InitAsked  == main.pc \in InitPCs /\ req # << >> =>
                  Head(req).code = "INIT" /\ Head(req).name = cxt.name
InitGiven  == main.pc \in InitPCs /\ resp # << >> =>
                  /\ Head(resp).ok
                  /\ Head(resp).channel # 0
                  /\ HomeIn(table, Head(resp).channel, cxt.name)
DataAsked  == main.pc = "data answer" /\ req # << >> =>
                  /\ Head(req).code = "DATA"
                  /\ Head(req).name = cxt.name
                  /\ Head(req).channel = cxt.channel
                  /\ cxt.channel # 0

RoutingInv == /\ ~sig.waits
              /\ Dated
              /\ AtOpen
              /\ sock = "up" => /\ Registered
                                /\ SendReady
                                /\ InitAsked
                                /\ InitGiven
                                /\ DataAsked

----------------------------------------------------------------------------
(* The file of a context determines its name. *)
LEMMA FileGivesName ==
    ASSUME NamesFollow,
           NEW p \in Pattern, NEW d \in 0..MaxDay, NEW q \in Pattern, NEW e \in 0..MaxDay,
           FileOf(p, d) = FileOf(q, e)
    PROVE  NameOf(p, d) = NameOf(q, e)
<1>1. p = q /\ (Patterns[p].file => d = e)
  BY DEF FileOf
<1>2. CASE Patterns[p].name
  BY <1>1, <1>2 DEF NamesFollow, NameOf
<1>3. CASE ~Patterns[p].name
  BY <1>1, <1>3 DEF NameOf
<1>4. QED
  BY <1>2, <1>3

LEMMA HomeCons ==
    ASSUME NEW t \in Seq(Channel), NEW c \in Channel
    PROVE  /\ HomeIn(<<c>> \o t, c.id, c.name)
           /\ \A n, name : HomeIn(t, n, name) => HomeIn(<<c>> \o t, n, name)
<1>1. Len(t) \in Nat /\ DOMAIN t = 1..Len(t)
  BY LenProperties
<1>2. /\ DOMAIN (<<c>> \o t) = 1..(Len(t) + 1)
      /\ (<<c>> \o t)[1] = c
      /\ \A i \in DOMAIN t : (<<c>> \o t)[i + 1] = t[i] /\ i + 1 \in 1..(Len(t) + 1)
  BY <1>1
<1>3. HomeIn(<<c>> \o t, c.id, c.name)
  BY <1>1, <1>2 DEF HomeIn
<1>4. ASSUME NEW n, NEW name, HomeIn(t, n, name)
      PROVE  HomeIn(<<c>> \o t, n, name)
  <2>1. PICK i \in DOMAIN t : t[i].id = n /\ t[i].name = name
    BY <1>4 DEF HomeIn
  <2>2. i + 1 \in DOMAIN (<<c>> \o t) /\ (<<c>> \o t)[i + 1] = t[i]
    BY <1>2, <2>1
  <2>3. QED
    BY <2>1, <2>2 DEF HomeIn
<1>5. QED
  BY <1>3, <1>4

LEMMA SumIsOne ==
    ASSUME NEW a \in Nat, NEW b \in Nat, a + b = 1
    PROVE  (a = 1 /\ b = 0) \/ (a = 0 /\ b = 1)
OBVIOUS

(* What is under way belongs to the main loop: the handler does not wait. *)
LEMMA OnlyMain ==
    ASSUME ChannelInv, RoutingInv, sock = "up"
    PROVE  /\ req # << >> \/ resp # << >> => main.pc \in WaitPCs
           /\ req # << >> => resp = << >> /\ Len(req) = 1
           /\ resp # << >> => req = << >> /\ Len(resp) = 1
<1>1. ConnectionType /\ OneEach /\ ~sig.waits
  BY TypeParts DEF ChannelInv, RoutingInv
<1>2. /\ req \in Seq(Request) /\ resp \in Seq(Reply)
      /\ Len(req) \in Nat /\ Len(resp) \in Nat
  BY <1>1, LenProperties DEF ConnectionType
<1>3. (req # << >> => Len(req) >= 1) /\ (resp # << >> => Len(resp) >= 1)
  BY <1>2, EmptySeq
<1>0. Waiting = IF main.pc \in WaitPCs THEN 1 ELSE 0
  BY <1>1, SMT DEF Waiting, WaitPCs
<1>4. sock = "up" /\ OneEach => Len(req) + Len(resp) = Waiting
  BY DEF OneEach
<1>5. (Len(req) = 0 => req = << >>) /\ (Len(resp) = 0 => resp = << >>)
  BY <1>2, EmptySeq
<1>6. CASE main.pc \in WaitPCs
  <2>1. Len(req) + Len(resp) = 1
    BY <1>0, <1>1, <1>4, <1>6
  <2>2. \/ Len(req) = 1 /\ Len(resp) = 0
        \/ Len(req) = 0 /\ Len(resp) = 1
    <3>1. Len(req) \in Nat /\ Len(resp) \in Nat
      BY <1>2
    <3>2. QED
      BY <2>1, <3>1, SumIsOne
  <2>3. QED
    BY <1>5, <1>6, <2>2
<1>7. CASE main.pc \notin WaitPCs
  <2>1. Len(req) + Len(resp) = 0
    BY <1>0, <1>1, <1>4, <1>7
  <2>2. Len(req) = 0 /\ Len(resp) = 0
    BY <1>2, <2>1
  <2>3. QED
    BY <1>5, <2>2
<1>8. QED
  BY <1>6, <1>7

----------------------------------------------------------------------------
(* The main loop. *)

(* Files and names of the contexts stay, and so does the list. *)
Kept == /\ DOMAIN cxts' = DOMAIN cxts
        /\ \A k \in DOMAIN cxts : /\ cxts'[k].file = cxts[k].file
                                  /\ cxts'[k].name = cxts[k].name

LEMMA DatedKept ==
    ASSUME Dated, Kept
    PROVE  Dated'
BY DEF Dated, Kept

(* A step of the main loop to label l, at the same context. *)
LEMMA GotoIs ==
    ASSUME FollowerType, NEW l, Goto(l)
    PROVE  main'.pc = l /\ main'.k = main.k
BY DEF FollowerType, Goto

LEMMA NextContextIs ==
    ASSUME NextContext
    PROVE  main'.pc = "run"
BY DEF NextContext

(* A step that leaves the main loop between two contexts. *)
LEMMA QuietStep ==
    ASSUME RoutingInv, UNCHANGED <<cxts, sig, connection>>,
           main.pc \notin {"init", "init answer"},
           main'.pc \in {"run", "serve", "reconnect"}
    PROVE  RoutingInv'
<1>1. Dated' /\ ~sig'.waits
  BY DEF RoutingInv, Dated
<1>2. AtOpen'
  BY DEF AtOpen, AtPCs
<1>3. ASSUME sock' = "up"
      PROVE  Registered'
  <2>1. Registered /\ table' = table /\ cxts' = cxts
    BY <1>3 DEF RoutingInv, connection
  <2>2. \A k \in DOMAIN cxts : ~Starting(k)
    BY DEF Starting
  <2>3. QED
    BY <2>1, <2>2 DEF Registered
<1>4. SendReady' /\ InitAsked' /\ InitGiven' /\ DataAsked'
  BY DEF SendReady, InitAsked, InitGiven, DataAsked, InitPCs
<1>5. QED
  BY <1>1, <1>2, <1>3, <1>4 DEF RoutingInv

LEMMA OpenFileStep ==
    ASSUME FollowerType, RoutingInv, OpenFile
    PROVE  RoutingInv'
<1>1. /\ main.pc = "run" /\ main.k > 0
      /\ cxts' = [cxts EXCEPT ![main.k].opened = TRUE]
      /\ Goto("init")
      /\ UNCHANGED <<sig, connection>>
  BY DEF OpenFile, Running, At
<1>2. main'.pc = "init" /\ main'.k = main.k
  BY <1>1, GotoIs
<1>3. /\ main.k \in DOMAIN cxts
      /\ DOMAIN cxts' = DOMAIN cxts
      /\ cxts'[main.k] = [cxts[main.k] EXCEPT !.opened = TRUE]
      /\ \A k \in DOMAIN cxts : k # main.k => cxts'[k] = cxts[k]
      /\ cxts[main.k] \in Context
  BY <1>1, AtContext DEF cxt
<1>4. /\ cxts'[main.k].opened
      /\ cxts'[main.k].file = cxts[main.k].file
      /\ cxts'[main.k].name = cxts[main.k].name
  BY <1>3 DEF Context
<1>5. Dated'
  BY <1>3, <1>4, DatedKept DEF Kept, RoutingInv
<1>6. AtOpen'
  BY <1>2, <1>4 DEF AtOpen, cxt
<1>7. ASSUME sock' = "up"
      PROVE  Registered'
  <2>1. Registered /\ table' = table
    BY <1>1, <1>7 DEF RoutingInv, connection
  <2>2. SUFFICES ASSUME NEW k \in DOMAIN cxts, k # main.k,
                        cxts'[k].opened, cxts'[k].channel # 0
                 PROVE  HomeIn(table', cxts'[k].channel, cxts'[k].name)
    BY <1>2, <1>3 DEF Registered, Starting
  <2>3. cxts'[k] = cxts[k] /\ ~Starting(k)
    BY <1>1, <1>3, <2>2 DEF Starting
  <2>4. QED
    BY <2>1, <2>2, <2>3 DEF Registered
<1>8. SendReady' /\ InitAsked' /\ InitGiven' /\ DataAsked'
  BY <1>2 DEF SendReady, InitAsked, InitGiven, DataAsked, InitPCs
<1>9. ~sig'.waits
  BY <1>1 DEF RoutingInv
<1>10. QED
  BY <1>5, <1>6, <1>7, <1>8, <1>9 DEF RoutingInv

(* The first message on a connection that had nothing under way. *)
LEMMA SentAlone ==
    ASSUME ChannelInv, RoutingInv, NEW m, SendSucceeds(m), main.pc \notin WaitPCs,
           sock' = "up"
    PROVE  /\ sock = "up"
           /\ Head(req') = m
           /\ resp' = << >>
           /\ table' = table
<1>1. sock = "up" /\ req' = Append(req, m) /\ resp' = resp /\ table' = table
  BY DEF SendSucceeds
<1>2. req = << >> /\ resp = << >>
  BY <1>1, OnlyMain
<1>3. Append(<< >>, m) = <<m>> /\ Head(<<m>>) = m
  OBVIOUS
<1>4. QED
  BY <1>1, <1>2, <1>3

LEMMA SendInitStep ==
    ASSUME ChannelInv, RoutingInv, SendInit
    PROVE  RoutingInv'
<1> DEFINE m == Message("INIT", 0)
<1>1. FollowerType /\ MainAtContext
  BY TypeParts DEF ChannelInv
<1>2. /\ main.pc \in {"init", "init again"}
      /\ cxts' = cxts
      /\ sig' = sig
      /\ \/ SendSucceeds(m) /\ Goto(IF main.pc = "init" THEN "init answer" ELSE "init again answer")
         \/ SendFails /\ Goto(AfterInit)
  BY DEF SendInit, At
<1>3. main'.k = main.k /\ cxt' = cxt
  BY <1>1, <1>2, GotoIs DEF cxt
<1>4. cxt.opened
  BY <1>2 DEF RoutingInv, AtOpen, AtPCs
<1>5. Dated' /\ AtOpen' /\ ~sig'.waits
  BY <1>2, <1>3, <1>4 DEF RoutingInv, Dated, AtOpen
<1>6. ASSUME sock' = "up"
      PROVE  Registered' /\ SendReady' /\ InitAsked' /\ InitGiven' /\ DataAsked'
  <2>1. SendSucceeds(m) /\ Goto(IF main.pc = "init" THEN "init answer" ELSE "init again answer")
    BY <1>2, <1>6 DEF SendFails
  <2>2. main'.pc = IF main.pc = "init" THEN "init answer" ELSE "init again answer"
    BY <1>1, <2>1, GotoIs
  <2>3. main.pc \notin WaitPCs
    BY <1>2 DEF WaitPCs
  <2>4. sock = "up" /\ Head(req') = m /\ resp' = << >> /\ table' = table
    BY <1>6, <2>1, <2>3, SentAlone
  <2>5. Registered
    BY <2>4 DEF RoutingInv
  <2>6. \A k \in DOMAIN cxts : Starting(k) => Starting(k)'
    BY <1>2, <1>3, <2>2 DEF Starting
  <2>7. Registered'
    BY <1>2, <2>4, <2>5, <2>6 DEF Registered
  <2>8. m.code = "INIT" /\ m.name = cxt.name
    BY DEF Message
  <2>9. InitAsked'
    BY <1>3, <2>4, <2>8 DEF InitAsked
  <2>10. SendReady' /\ DataAsked' /\ InitGiven'
    BY <1>2, <2>2, <2>4 DEF SendReady, DataAsked, InitGiven
  <2>11. QED
    BY <2>7, <2>9, <2>10
<1>7. QED
  BY <1>5, <1>6 DEF RoutingInv

LEMMA InitAnsweredStep ==
    ASSUME ChannelInv, RoutingInv, InitAnswered
    PROVE  RoutingInv'
<1> DEFINE r == Head(resp)
<1>1. FollowerType /\ ConnectionType /\ MainAtContext
  BY TypeParts DEF ChannelInv
<1>2. /\ main.pc \in InitPCs
      /\ sig' = sig
      /\ ReceiveSucceeds
      /\ Goto(AfterInit)
      /\ cxts' = IF r.ok THEN [cxts EXCEPT ![main.k].channel = r.channel] ELSE cxts
  BY DEF InitAnswered, At, InitPCs
<1>3. main'.pc = AfterInit /\ main'.k = main.k /\ main'.pc \in {"read", "send"}
  BY <1>1, <1>2, GotoIs DEF AfterInit
<1>4. main.k > 0
  BY <1>1, <1>2 DEF MainAtContext, InitPCs
<1>5. main.k \in DOMAIN cxts /\ cxts[main.k] \in Context
  BY <1>1, <1>4, AtContext DEF cxt
<1>6. /\ DOMAIN cxts' = DOMAIN cxts
      /\ \A k \in DOMAIN cxts : k # main.k => cxts'[k] = cxts[k]
      /\ cxts'[main.k] = IF r.ok THEN [cxts[main.k] EXCEPT !.channel = r.channel]
                                 ELSE cxts[main.k]
  BY <1>2, <1>5
<1>7. /\ cxts'[main.k].file = cxts[main.k].file
      /\ cxts'[main.k].name = cxts[main.k].name
      /\ cxts'[main.k].opened = cxts[main.k].opened
      /\ r.ok => cxts'[main.k].channel = r.channel
  BY <1>5, <1>6 DEF Context
<1>8. Dated'
  BY <1>6, <1>7, DatedKept DEF Kept, RoutingInv
<1>9. cxt.opened
  BY <1>2 DEF RoutingInv, AtOpen, AtPCs, InitPCs
<1>10. AtOpen' /\ ~sig'.waits
  BY <1>2, <1>3, <1>7, <1>9 DEF AtOpen, cxt, RoutingInv
<1>11. ASSUME sock' = "up"
       PROVE  Registered' /\ SendReady' /\ InitAsked' /\ InitGiven' /\ DataAsked'
  <2>1. sock = "up" /\ resp # << >> /\ table' = table
    BY <1>2, <1>11 DEF ReceiveSucceeds
  <2>2. r.ok /\ r.channel # 0 /\ HomeIn(table, r.channel, cxt.name)
    BY <1>2, <2>1 DEF RoutingInv, InitGiven
  <2>3. Registered
    BY <2>1 DEF RoutingInv
  <2>4. Registered'
    <3> SUFFICES ASSUME NEW k \in DOMAIN cxts, cxts'[k].opened, cxts'[k].channel # 0
                 PROVE  HomeIn(table', cxts'[k].channel, cxts'[k].name)
      BY <1>6 DEF Registered
    <3>1. CASE k = main.k
      BY <1>7, <2>1, <2>2, <3>1 DEF cxt
    <3>2. CASE k # main.k
      <4>1. cxts'[k] = cxts[k] /\ ~Starting(k)
        BY <1>6, <3>2 DEF Starting
      <4>2. QED
        BY <2>1, <2>3, <4>1 DEF Registered
    <3>3. QED
      BY <3>1, <3>2
  <2>5. SendReady'
    BY <1>3, <1>7, <2>2 DEF SendReady, cxt
  <2>6. InitAsked' /\ InitGiven' /\ DataAsked'
    BY <1>3 DEF InitAsked, InitGiven, DataAsked, InitPCs
  <2>7. QED
    BY <2>4, <2>5, <2>6
<1>12. QED
  BY <1>8, <1>10, <1>11 DEF RoutingInv

(* What the main loop does when the connection turns out to be lost. *)
LEMMA InitFailsStep ==
    ASSUME ChannelInv, RoutingInv, InitFails
    PROVE  RoutingInv'
<1>1. FollowerType
  BY TypeParts DEF ChannelInv
<1>2. /\ main.pc \in InitPCs
      /\ cxts' = cxts
      /\ sig' = sig
      /\ sock' # "up"
      /\ Goto(AfterInit)
  BY DEF InitFails, At, InitPCs, ReceiveFails
<1>3. cxt' = cxt
  BY <1>1, <1>2, GotoIs DEF cxt
<1>4. cxt.opened
  BY <1>2 DEF RoutingInv, AtOpen, AtPCs, InitPCs
<1>5. QED
  BY <1>2, <1>3, <1>4 DEF RoutingInv, Dated, AtOpen

LEMMA ReadTextStep ==
    ASSUME ChannelInv, RoutingInv, ReadText
    PROVE  RoutingInv'
<1>1. FollowerType
  BY TypeParts DEF ChannelInv
<1>2. /\ AtRead
      /\ cxts' = cxts
      /\ UNCHANGED <<sig, connection>>
      /\ Goto(IF cxt.channel = 0 THEN "init again" ELSE "send")
  BY DEF ReadText
<1>3. /\ main'.pc = IF cxt.channel = 0 THEN "init again" ELSE "send"
      /\ cxt' = cxt
  BY <1>1, <1>2, GotoIs DEF cxt
<1>4. main.pc \in {"read", "run"} /\ cxt.opened
  BY <1>2 DEF AtRead, At, Running, RoutingInv, AtOpen, AtPCs
<1>5. Dated' /\ AtOpen' /\ ~sig'.waits
  BY <1>2, <1>3, <1>4 DEF RoutingInv, Dated, AtOpen
<1>6. ASSUME sock' = "up"
      PROVE  Registered'
  <2>1. Registered /\ table' = table
    BY <1>2, <1>6 DEF RoutingInv, connection
  <2>2. \A k \in DOMAIN cxts : ~Starting(k)
    BY <1>4 DEF Starting
  <2>3. QED
    BY <1>2, <2>1, <2>2 DEF Registered
<1>7. SendReady'
  BY <1>3 DEF SendReady
<1>8. InitAsked' /\ InitGiven' /\ DataAsked'
  BY <1>3 DEF InitAsked, InitGiven, DataAsked, InitPCs
<1>9. QED
  BY <1>5, <1>6, <1>7, <1>8 DEF RoutingInv

(* A step that ends the round trip, or a failed one, leaves files and names. *)
LEMMA HeldStep ==
    ASSUME FollowerType, main.k > 0, NEW b,
           cxts' = [cxts EXCEPT ![main.k].held = b]
    PROVE  /\ DOMAIN cxts' = DOMAIN cxts
           /\ main.k \in DOMAIN cxts
           /\ \A k \in DOMAIN cxts : /\ cxts'[k].file = cxts[k].file
                                     /\ cxts'[k].name = cxts[k].name
                                     /\ cxts'[k].opened = cxts[k].opened
                                     /\ cxts'[k].channel = cxts[k].channel
<1>1. main.k \in DOMAIN cxts /\ cxts[main.k] \in Context
  BY AtContext DEF cxt
<1>2. /\ DOMAIN cxts' = DOMAIN cxts
      /\ cxts'[main.k] = [cxts[main.k] EXCEPT !.held = b]
      /\ \A k \in DOMAIN cxts : k # main.k => cxts'[k] = cxts[k]
  BY <1>1
<1>3. /\ cxts'[main.k].file = cxts[main.k].file
      /\ cxts'[main.k].name = cxts[main.k].name
      /\ cxts'[main.k].opened = cxts[main.k].opened
      /\ cxts'[main.k].channel = cxts[main.k].channel
  BY <1>1, <1>2 DEF Context
<1>4. QED
  BY <1>1, <1>2, <1>3

(* Registered depends on no more than this. *)
LEMMA RegisteredKept ==
    ASSUME Registered, table' = table,
           main.pc \notin {"init", "init answer"},
           DOMAIN cxts' = DOMAIN cxts,
           \A k \in DOMAIN cxts : /\ cxts'[k].name = cxts[k].name
                                  /\ cxts'[k].opened = cxts[k].opened
                                  /\ cxts'[k].channel = cxts[k].channel
    PROVE  Registered'
<1> SUFFICES ASSUME NEW k \in DOMAIN cxts, cxts'[k].opened, cxts'[k].channel # 0
             PROVE  HomeIn(table, cxts[k].channel, cxts[k].name)
  BY DEF Registered
<1>1. cxts[k].opened /\ cxts[k].channel # 0 /\ ~Starting(k)
  BY DEF Starting
<1>2. QED
  BY <1>1 DEF Registered

LEMMA SendDataStep ==
    ASSUME ChannelInv, RoutingInv, SendData
    PROVE  RoutingInv'
<1> DEFINE m == Message("DATA", cxt.channel)
<1>1. FollowerType /\ MainAtContext
  BY TypeParts DEF ChannelInv
<1>2. /\ main.pc = "send"
      /\ sig' = sig
      /\ cxts' = [cxts EXCEPT ![main.k].held = TRUE]
      /\ \/ SendSucceeds(m) /\ Goto("data answer")
         \/ SendFails /\ NextContext
  BY DEF SendData, At
<1>3. main.k > 0
  BY <1>1, <1>2 DEF MainAtContext
<1>4. /\ DOMAIN cxts' = DOMAIN cxts
      /\ main.k \in DOMAIN cxts
      /\ \A k \in DOMAIN cxts : /\ cxts'[k].file = cxts[k].file
                                /\ cxts'[k].name = cxts[k].name
                                /\ cxts'[k].opened = cxts[k].opened
                                /\ cxts'[k].channel = cxts[k].channel
  BY <1>1, <1>2, <1>3, HeldStep
<1>5. Dated' /\ ~sig'.waits
  BY <1>2, <1>4, DatedKept DEF RoutingInv, Kept
<1>6. cxt.opened
  BY <1>2 DEF RoutingInv, AtOpen, AtPCs
<1>7. CASE SendSucceeds(m) /\ Goto("data answer")
  <2>1. main'.pc = "data answer" /\ main'.k = main.k
    BY <1>1, <1>7, GotoIs
  <2>2. cxt'.opened = cxt.opened /\ cxt'.name = cxt.name /\ cxt'.channel = cxt.channel
    BY <1>4, <2>1 DEF cxt
  <2>3. AtOpen'
    BY <1>6, <2>2 DEF AtOpen
  <2>4. ASSUME sock' = "up"
        PROVE  Registered' /\ SendReady' /\ InitAsked' /\ InitGiven' /\ DataAsked'
    <3>1. main.pc \notin WaitPCs /\ main.pc \notin {"init", "init answer"}
      BY <1>2 DEF WaitPCs
    <3>2. sock = "up" /\ Head(req') = m /\ table' = table
      BY <1>7, <2>4, <3>1, SentAlone
    <3>3. Registered /\ cxt.channel # 0
      BY <1>2, <3>2 DEF RoutingInv, SendReady
    <3>4. Registered'
      BY <1>4, <3>1, <3>2, <3>3, RegisteredKept
    <3>5. m.code = "DATA" /\ m.name = cxt.name /\ m.channel = cxt.channel
      BY DEF Message
    <3>6. DataAsked'
      BY <2>2, <3>2, <3>3, <3>5 DEF DataAsked
    <3>7. SendReady' /\ InitAsked' /\ InitGiven'
      BY <2>1 DEF SendReady, InitAsked, InitGiven, InitPCs
    <3>8. QED
      BY <3>4, <3>6, <3>7
  <2>5. QED
    BY <1>5, <2>3, <2>4 DEF RoutingInv
<1>8. CASE SendFails /\ NextContext
  <2>1. sock' # "up"
    BY <1>8 DEF SendFails
  <2>2. AtOpen'
    BY <1>8, NextContextIs DEF AtOpen, AtPCs
  <2>3. QED
    BY <1>5, <2>1, <2>2 DEF RoutingInv
<1>9. QED
  BY <1>2, <1>7, <1>8

LEMMA DataAnsweredStep ==
    ASSUME ChannelInv, RoutingInv, DataAnswered
    PROVE  RoutingInv'
<1>1. FollowerType /\ MainAtContext
  BY TypeParts DEF ChannelInv
<1>2. /\ main.pc = "data answer"
      /\ sig' = sig
      /\ cxts' = [cxts EXCEPT ![main.k].held = ~Head(resp).ok]
      /\ ReceiveSucceeds
      /\ main'.pc = "run"
  BY NextContextIs DEF DataAnswered, At
<1>3. main.k > 0
  BY <1>1, <1>2 DEF MainAtContext
<1>4. /\ DOMAIN cxts' = DOMAIN cxts
      /\ main.k \in DOMAIN cxts
      /\ \A k \in DOMAIN cxts : /\ cxts'[k].file = cxts[k].file
                                /\ cxts'[k].name = cxts[k].name
                                /\ cxts'[k].opened = cxts[k].opened
                                /\ cxts'[k].channel = cxts[k].channel
  BY <1>1, <1>2, <1>3, HeldStep
<1>5. Dated' /\ ~sig'.waits
  BY <1>2, <1>4, DatedKept DEF RoutingInv, Kept
<1>6. AtOpen'
  BY <1>2 DEF AtOpen, AtPCs
<1>7. ASSUME sock' = "up"
      PROVE  Registered'
  <2>1. sock = "up" /\ table' = table
    BY <1>2, <1>7 DEF ReceiveSucceeds
  <2>2. Registered /\ main.pc \notin {"init", "init answer"}
    BY <1>2, <2>1 DEF RoutingInv
  <2>3. QED
    BY <1>4, <2>1, <2>2, RegisteredKept
<1>8. SendReady' /\ InitAsked' /\ InitGiven' /\ DataAsked'
  BY <1>2 DEF SendReady, InitAsked, InitGiven, DataAsked, InitPCs
<1>9. QED
  BY <1>5, <1>6, <1>7, <1>8 DEF RoutingInv

LEMMA DataFailsStep ==
    ASSUME RoutingInv, DataFails
    PROVE  RoutingInv'
<1>1. /\ cxts' = cxts
      /\ sig' = sig
      /\ sock' # "up"
      /\ main'.pc = "run"
  BY NextContextIs DEF DataFails, ReceiveFails
<1>2. AtOpen'
  BY <1>1 DEF AtOpen, AtPCs
<1>3. QED
  BY <1>1, <1>2 DEF RoutingInv, Dated

(* With every file closed no context is bound to a channel. *)
LEMMA ReconnectStep ==
    ASSUME ChannelInv, RoutingInv, Reconnect \/ ReconnectFails
    PROVE  RoutingInv'
<1>1. FollowerType
  BY TypeParts DEF ChannelInv
<1>2. ResetContexts /\ Goto("serve") /\ sig' = sig
  BY DEF Reconnect, ReconnectFails
<1>3. main'.pc = "serve"
  BY <1>1, <1>2, GotoIs
<1>4. /\ DOMAIN cxts' = DOMAIN cxts
      /\ \A k \in DOMAIN cxts :
            cxts'[k] = [cxts[k] EXCEPT !.opened = FALSE, !.held = FALSE]
  BY <1>2 DEF ResetContexts
<1>5. \A k \in DOMAIN cxts : cxts[k] \in Context
  BY <1>1, LenProperties, ElementOfSeq DEF FollowerType
<1>6. \A c \in Context :
          /\ [c EXCEPT !.opened = FALSE, !.held = FALSE].file = c.file
          /\ [c EXCEPT !.opened = FALSE, !.held = FALSE].name = c.name
          /\ ~[c EXCEPT !.opened = FALSE, !.held = FALSE].opened
  BY DEF Context
<1>7. \A k \in DOMAIN cxts : /\ cxts'[k].file = cxts[k].file
                             /\ cxts'[k].name = cxts[k].name
                             /\ ~cxts'[k].opened
  BY <1>4, <1>5, <1>6
<1>8. Dated' /\ ~sig'.waits
  BY <1>2, <1>4, <1>7, DatedKept DEF RoutingInv, Kept
<1>9. Registered'
  BY <1>4, <1>7 DEF Registered
<1>10. AtOpen' /\ SendReady' /\ InitAsked' /\ InitGiven' /\ DataAsked'
  BY <1>3 DEF AtOpen, AtPCs, SendReady, InitAsked, InitGiven, DataAsked, InitPCs
<1>11. QED
  BY <1>8, <1>9, <1>10 DEF RoutingInv

LEMMA MainStepRouting ==
    ASSUME ChannelInv, RoutingInv, MainStep
    PROVE  RoutingInv'
<1>1. FollowerType
  BY TypeParts DEF ChannelInv
<1>2. CASE Serve
  BY <1>2, QuietStep DEF Serve, At
<1>3. CASE NotConnected \/ NoFileYet
  <2>1. /\ UNCHANGED <<cxts, sig, connection>>
        /\ main.pc = "run"
        /\ main'.pc = "run"
    BY <1>3, NextContextIs DEF NotConnected, NoFileYet, Running, At
  <2>2. QED
    BY <2>1, QuietStep
<1>4. CASE NothingToRead
  <2>1. /\ UNCHANGED <<cxts, sig, connection>>
        /\ main.pc \in {"read", "run"}
        /\ main'.pc = "run"
    BY <1>4, NextContextIs DEF NothingToRead, AtRead, Running, At
  <2>2. QED
    BY <2>1, QuietStep
<1>5. CASE EndOfWalk
  <2>1. /\ UNCHANGED <<cxts, sig, connection>>
        /\ main.pc = "run"
        /\ main'.pc \in {"serve", "reconnect"}
    BY <1>1, <1>5, GotoIs DEF EndOfWalk, At
  <2>2. QED
    BY <2>1, QuietStep
<1>6. CASE OpenFile
  BY <1>1, <1>6, OpenFileStep
<1>7. CASE SendInit
  BY <1>7, SendInitStep
<1>8. CASE InitAnswered
  BY <1>8, InitAnsweredStep
<1>9. CASE InitFails
  BY <1>9, InitFailsStep
<1>10. CASE ReadText
  BY <1>10, ReadTextStep
<1>11. CASE SendData
  BY <1>11, SendDataStep
<1>12. CASE DataAnswered
  BY <1>12, DataAnsweredStep
<1>13. CASE DataFails
  BY <1>13, DataFailsStep
<1>14. CASE Reconnect \/ ReconnectFails
  BY <1>14, ReconnectStep
<1>15. QED
  BY <1>2, <1>3, <1>4, <1>5, <1>6, <1>7, <1>8, <1>9, <1>10, <1>11, <1>12, <1>13, <1>14
     DEF MainStep

----------------------------------------------------------------------------
(* The signal handler. *)

LEMMA SameState ==
    ASSUME RoutingInv, UNCHANGED <<cxts, main, connection>>, ~sig'.waits
    PROVE  RoutingInv'
<1>1. Dated' /\ AtOpen'
  BY DEF RoutingInv, Dated, AtOpen, cxt
<1>2. ASSUME sock' = "up"
      PROVE  Registered' /\ SendReady' /\ InitAsked' /\ InitGiven' /\ DataAsked'
  <2>1. /\ Registered /\ SendReady /\ InitAsked /\ InitGiven /\ DataAsked
        /\ table' = table /\ req' = req /\ resp' = resp
    BY <1>2 DEF RoutingInv, connection
  <2>2. QED
    BY <2>1 DEF Registered, Starting, SendReady, InitAsked, InitGiven, DataAsked, cxt
<1>3. QED
  BY <1>1, <1>2 DEF RoutingInv

LEMMA AtPatternIs ==
    ASSUME FollowerType, sig.p # 0
    PROVE  sig.p \in Pattern /\ sig.day \in 0..MaxDay
<1>1. Len(Patterns) \in Nat
  BY PatternsAssumption, LenProperties
<1>2. QED
  BY <1>1 DEF FollowerType, Pattern

(* Nothing is released: the name of a file that is still today's is too. *)
LEMMA NothingRotated ==
    ASSUME NamesFollow, FollowerType, Dated, sig.p # 0
    PROVE  \A k \in SameFile : ~Rotated(k)
<1> SUFFICES ASSUME NEW k \in SameFile, Rotated(k)
             PROVE  FALSE
  OBVIOUS
<1>1. k \in DOMAIN cxts /\ cxts[k].file = FileOf(sig.p, sig.day)
  BY DEF SameFile
<1>2. PICK p \in Pattern, d \in 0..MaxDay :
          cxts[k].file = FileOf(p, d) /\ cxts[k].name = NameOf(p, d)
  BY <1>1 DEF Dated
<1>3. cxts[k].name = NameOf(sig.p, sig.day)
  BY <1>1, <1>2, AtPatternIs, FileGivesName
<1>4. QED
  BY <1>3 DEF Rotated

(* A context added to the list is not open. *)
LEMMA AddStep ==
    ASSUME ChannelInv, RoutingInv, sig.p # 0, Add, UNCHANGED <<main, connection>>,
           ~sig'.waits
    PROVE  RoutingInv'
<1> DEFINE n == NewContext(sig.p, sig.day)
<1>1. FollowerType /\ MainAtContext
  BY TypeParts DEF ChannelInv
<1>2. sig.p \in Pattern /\ sig.day \in 0..MaxDay
  BY <1>1, AtPatternIs
<1>3. /\ n.file = FileOf(sig.p, sig.day)
      /\ n.name = NameOf(sig.p, sig.day)
      /\ ~n.opened
      /\ n \in Context
  BY <1>2, NamesType DEF NewContext
<1> HIDE DEF n
<1>4. cxts \in Seq(Context) /\ Len(cxts) \in Nat /\ DOMAIN cxts = 1..Len(cxts)
  BY <1>1, LenProperties DEF FollowerType
<1>5. cxts' = Append(cxts, n)
  BY DEF Add, n
<1>6. /\ DOMAIN cxts' = 1..(Len(cxts) + 1)
      /\ \A k \in DOMAIN cxts : cxts'[k] = cxts[k]
      /\ cxts'[Len(cxts) + 1] = n
  BY <1>3, <1>4, <1>5, AppendProperties
<1>7. \A k \in DOMAIN cxts' : k \in DOMAIN cxts \/ k = Len(cxts) + 1
  BY <1>4, <1>6
<1>8. main' = main /\ (main.k > 0 => cxt' = cxt)
  <2>1. ASSUME main.k > 0
        PROVE  cxt' = cxt
    <3>1. main.k \in DOMAIN cxts
      BY <1>1, <2>1, AtContext
    <3>2. QED
      BY <1>6, <3>1 DEF cxt
  <2>2. QED
    BY <2>1
<1>9. Dated'
  <2> SUFFICES ASSUME NEW k \in DOMAIN cxts'
               PROVE  \E p \in Pattern, d \in 0..MaxDay :
                         cxts'[k].file = FileOf(p, d) /\ cxts'[k].name = NameOf(p, d)
    BY DEF Dated
  <2>1. CASE k \in DOMAIN cxts
    BY <1>6, <2>1 DEF RoutingInv, Dated
  <2>2. CASE k = Len(cxts) + 1
    BY <1>2, <1>3, <1>6, <2>2
  <2>3. QED
    BY <1>7, <2>1, <2>2
<1>10. main.pc \in AtPCs => main.k > 0
  BY <1>1 DEF MainAtContext, AtPCs
<1>11. AtOpen'
  BY <1>8, <1>10 DEF RoutingInv, AtOpen
<1>12. ASSUME sock' = "up"
       PROVE  Registered' /\ SendReady' /\ InitAsked' /\ InitGiven' /\ DataAsked'
  <2>1. /\ Registered /\ SendReady /\ InitAsked /\ InitGiven /\ DataAsked
        /\ table' = table /\ req' = req /\ resp' = resp
    BY <1>12 DEF RoutingInv, connection
  <2>2. Registered'
    <3> SUFFICES ASSUME NEW k \in DOMAIN cxts', cxts'[k].opened, cxts'[k].channel # 0
                 PROVE  Starting(k)' \/ HomeIn(table', cxts'[k].channel, cxts'[k].name)
      BY DEF Registered
    <3>1. k \in DOMAIN cxts /\ cxts'[k] = cxts[k]
      BY <1>3, <1>6, <1>7
    <3>2. Starting(k) \/ HomeIn(table, cxts[k].channel, cxts[k].name)
      BY <2>1, <3>1 DEF Registered
    <3>3. QED
      BY <1>8, <2>1, <3>1, <3>2 DEF Starting
  <2>3. main.pc \in AtPCs => cxt' = cxt
    BY <1>8, <1>10
  <2>4. SendReady' /\ InitAsked'
    BY <1>8, <2>1, <2>3 DEF SendReady, InitAsked, InitPCs, AtPCs
  <2>5. InitGiven'
    BY <1>8, <2>1, <2>3 DEF InitGiven, InitPCs, AtPCs
  <2>6. DataAsked'
    BY <1>8, <2>1, <2>3 DEF DataAsked, AtPCs
  <2>7. QED
    BY <2>2, <2>4, <2>5, <2>6
<1>13. QED
  BY <1>9, <1>11, <1>12 DEF RoutingInv

LEMMA HandlerStepRouting ==
    ASSUME NamesFollow, ChannelInv, RoutingInv, HandlerStep
    PROVE  RoutingInv'
<1>1. FollowerType
  BY TypeParts DEF ChannelInv
<1>2. ~sig.waits /\ Dated
  BY DEF RoutingInv
<1>3. NextPattern => ~sig'.waits
  BY DEF NextPattern
<1>4. CASE Alarm
  BY <1>4, SameState DEF Alarm
<1>5. CASE Following
  BY <1>3, <1>5, SameState DEF Following
<1>6. CASE NotFollowed
  BY <1>3, <1>6, AddStep DEF NotFollowed, AtPattern
<1>7. CASE NothingToRelease \/ Release \/ ReleaseFails \/ Released
  <2>1. sig.p # 0 /\ \E k \in SameFile : Rotated(k)
    BY <1>2, <1>7 DEF NothingToRelease, Release, ReleaseFails, Released, AtPattern
  <2>2. QED
    BY <1>1, <1>2, <2>1, NothingRotated
<1>8. QED
  BY <1>4, <1>5, <1>6, <1>7 DEF HandlerStep

----------------------------------------------------------------------------
(* The aggregator. *)

(* The one message there is is taken. *)
LEMMA TakenAlone ==
    ASSUME ChannelInv, RoutingInv, NEW codes, Receives(codes)
    PROVE  /\ sock = "up" /\ req # << >> /\ Head(req) \in Request
           /\ req' = << >>
           /\ resp = << >>
           /\ main.pc \in WaitPCs
           /\ main.k > 0
           /\ Head(req).code \in codes
           /\ UNCHANGED follower
<1>1. ConnectionType /\ MainAtContext
  BY TypeParts DEF ChannelInv
<1>2. sock = "up" /\ req # << >> /\ req' = Tail(req) /\ UNCHANGED follower
      /\ Head(req).code \in codes
  BY DEF Receives
<1>3. main.pc \in WaitPCs /\ resp = << >> /\ Len(req) = 1
  BY <1>2, OnlyMain
<1>4. req \in Seq(Request) /\ Len(req) \in Nat
  BY <1>1, LenProperties DEF ConnectionType
<1>5. Head(req) \in Request /\ Tail(req) \in Seq(Request) /\ Len(Tail(req)) = Len(req) - 1
  BY <1>2, <1>4, HeadTailProperties
<1>6. Tail(req) = << >>
  <2>1. Len(Tail(req)) = 0
    BY <1>3, <1>5
  <2>2. QED
    BY <1>5, <2>1, EmptySeq
<1>7. main.k > 0
  BY <1>1, <1>3 DEF MainAtContext, WaitPCs
<1>8. QED
  BY <1>2, <1>3, <1>5, <1>6, <1>7

LEMMA AnswerAlone ==
    ASSUME resp = << >>, NEW ok, NEW n, Answer(ok, n)
    PROVE  Head(resp') = [ok |-> ok, channel |-> n]
<1>1. Append(<< >>, [ok |-> ok, channel |-> n]) = <<[ok |-> ok, channel |-> n]>>
  OBVIOUS
<1>2. QED
  BY <1>1 DEF Answer

LEMMA HandleInitStep ==
    ASSUME ChannelInv, RoutingInv, HandleInit
    PROVE  RoutingInv'
<1> DEFINE c == [id |-> NextNumber, name |-> Head(req).name]
<1>1. FollowerType /\ ConnectionType /\ Decreasing(table)
  BY TypeParts DEF ChannelInv
<1>2. Receives({"INIT"}) /\ table' = <<c>> \o table /\ Answer(TRUE, NextNumber) /\ sock' = sock
  BY DEF HandleInit
<1>3. /\ sock = "up" /\ req # << >> /\ Head(req) \in Request
      /\ req' = << >>
      /\ resp = << >>
      /\ main.pc \in WaitPCs
      /\ main.k > 0
      /\ Head(req).code = "INIT"
      /\ cxts' = cxts /\ main' = main /\ sig' = sig
  BY <1>2, TakenAlone DEF follower
<1>4. main.pc \in InitPCs
  BY <1>3 DEF RoutingInv, DataAsked, WaitPCs, InitPCs
<1>5. Head(req).name = cxt.name
  BY <1>3, <1>4 DEF RoutingInv, InitAsked
<1>6. table \in Seq(Channel)
  BY <1>1 DEF ConnectionType
<1>7. NextNumber \in Nat /\ NextNumber # 0
  <2>1. NextNumber = IF table = << >> THEN 1 ELSE table[1].id + 1
    BY <1>1, <1>6, NextNumberIs
  <2>2. CASE table = << >>
    BY <2>1, <2>2
  <2>3. CASE table # << >>
    <3>1. 1 \in DOMAIN table
      BY <1>6, <2>3, LenProperties, EmptySeq
    <3>2. table[1].id \in Nat
      BY <1>6, <3>1, ChannelIds
    <3>3. QED
      BY <2>1, <2>3, <3>2
  <2>4. QED
    BY <2>2, <2>3
<1>8. c \in Channel
  BY <1>3, <1>7 DEF Channel, Request
<1>9. /\ HomeIn(table', NextNumber, cxt.name)
      /\ \A n, name : HomeIn(table, n, name) => HomeIn(table', n, name)
  <2>1. c.id = NextNumber /\ c.name = cxt.name
    BY <1>5
  <2>2. QED
    BY <1>2, <1>6, <1>8, <2>1, HomeCons
<1>10. Head(resp') = [ok |-> TRUE, channel |-> NextNumber]
  BY <1>2, <1>3, AnswerAlone
<1>11. Dated' /\ AtOpen' /\ ~sig'.waits
  BY <1>3 DEF RoutingInv, Dated, AtOpen, cxt
<1>12. Registered'
  <2>1. Registered
    BY <1>3 DEF RoutingInv
  <2>2. QED
    BY <1>3, <1>9, <2>1 DEF Registered, Starting
<1>13. InitGiven'
  BY <1>3, <1>7, <1>9, <1>10 DEF InitGiven, cxt
<1>14. SendReady' /\ InitAsked' /\ DataAsked'
  BY <1>3, <1>4 DEF SendReady, InitAsked, DataAsked, InitPCs
<1>15. QED
  BY <1>11, <1>12, <1>13, <1>14 DEF RoutingInv

LEMMA HandleDataStep ==
    ASSUME ChannelInv, RoutingInv, HandleData \/ HandleDummy \/ AggregatorDies
    PROVE  RoutingInv'
<1>1. Receives({"DATA"}) \/ Receives({"DATA", "RELE"})
  BY DEF HandleData, HandleDummy, AggregatorDies
<1>2. /\ sock = "up" /\ req # << >>
      /\ req' = << >>
      /\ main.pc \in WaitPCs
      /\ Head(req).code # "INIT"
      /\ cxts' = cxts /\ main' = main /\ sig' = sig
      /\ table' = table
  <2>1. table' = table
    BY DEF HandleData, HandleDummy, AggregatorDies
  <2>2. PICK codes \in {{"DATA"}, {"DATA", "RELE"}} : Receives(codes)
    BY <1>1
  <2>3. /\ sock = "up" /\ req # << >>
        /\ req' = << >>
        /\ main.pc \in WaitPCs
        /\ Head(req).code \in codes
        /\ UNCHANGED follower
    BY <2>2, TakenAlone
  <2>4. QED
    BY <2>1, <2>2, <2>3 DEF follower
<1>3. main.pc = "data answer"
  BY <1>2 DEF RoutingInv, InitAsked, WaitPCs, InitPCs
<1>4. Dated' /\ AtOpen' /\ ~sig'.waits
  BY <1>2 DEF RoutingInv, Dated, AtOpen, cxt
<1>5. Registered'
  <2>1. Registered
    BY <1>2 DEF RoutingInv
  <2>2. QED
    BY <1>2, <2>1 DEF Registered, Starting
<1>6. SendReady' /\ InitAsked' /\ InitGiven' /\ DataAsked'
  BY <1>2, <1>3 DEF SendReady, InitAsked, InitGiven, DataAsked, InitPCs
<1>7. QED
  BY <1>4, <1>5, <1>6 DEF RoutingInv

LEMMA AggregatorStepRouting ==
    ASSUME ChannelInv, RoutingInv, AggregatorStep
    PROVE  RoutingInv'
<1>1. ~HandleRele
  <2> SUFFICES ASSUME HandleRele
               PROVE  FALSE
    OBVIOUS
  <2>1. Receives({"RELE"})
    BY DEF HandleRele
  <2>2. sock = "up" /\ req # << >> /\ main.pc \in WaitPCs /\ Head(req).code = "RELE"
    BY <2>1, TakenAlone
  <2>3. QED
    BY <2>2 DEF RoutingInv, InitAsked, DataAsked, WaitPCs, InitPCs
<1>2. QED
  BY <1>1, HandleInitStep, HandleDataStep DEF AggregatorStep

----------------------------------------------------------------------------
LEMMA RoutingInit ==
    ASSUME Init
    PROVE  RoutingInv
<1>1. 0 \in 0..MaxDay
  BY BoundsAssumption
<1>2. \A k \in DOMAIN cxts : /\ cxts[k].file = FileOf(k, 0)
                             /\ cxts[k].name = NameOf(k, 0)
                             /\ ~cxts[k].opened
                             /\ k \in Pattern
  BY DEF Init, NewContext
<1>3. Dated /\ Registered
  BY <1>1, <1>2 DEF Dated, Registered
<1>4. main.pc = "serve" /\ ~sig.waits
  BY DEF Init
<1>5. AtOpen /\ SendReady /\ InitAsked /\ InitGiven /\ DataAsked
  BY <1>4 DEF AtOpen, AtPCs, SendReady, InitAsked, InitGiven, DataAsked, InitPCs
<1>6. QED
  BY <1>3, <1>4, <1>5 DEF RoutingInv

(* Where names follow files, the number of an open context is that of its log  *)
(* and the handler never waits on the main loop's socket.                      *)
THEOREM RoutingInvariant == NamesFollow => (Spec => []RoutingInv)
<1> SUFFICES ASSUME NamesFollow
             PROVE  Spec => []RoutingInv
  OBVIOUS
<1>1. Init => RoutingInv
  BY RoutingInit
<1>2. ChannelInv /\ RoutingInv /\ [Next]_vars => RoutingInv'
  <2> SUFFICES ASSUME ChannelInv, RoutingInv, [Next]_vars
               PROVE  RoutingInv'
    OBVIOUS
  <2>1. ~sig.waits
    BY DEF RoutingInv
  <2>2. CASE NewDay \/ UNCHANGED vars
    BY <2>1, <2>2, SameState DEF NewDay, vars, follower
  <2>3. CASE MainStep
    BY <2>3, MainStepRouting
  <2>4. CASE HandlerStep
    BY <2>4, HandlerStepRouting
  <2>5. CASE AggregatorStep
    BY <2>5, AggregatorStepRouting
  <2>6. CASE Break
    <3>1. sock' = "dead" /\ cxts' = cxts /\ main' = main /\ sig' = sig
      BY <2>6 DEF Break, follower
    <3>2. QED
      BY <2>1, <3>1 DEF RoutingInv, Dated, AtOpen, cxt
  <2>7. QED
    BY <2>2, <2>3, <2>4, <2>5, <2>6 DEF Next
<1>3. QED
  BY <1>1, <1>2, ChannelInvariant, PTL DEF Spec

(* do_handler_data appends each text to the log it was read from, through      *)
(* rotations and reconnects, where the date changes no name without the file.  *)
THEOREM TextStaysHomeHolds == NamesFollow => (Spec => []TextStaysHome)
<1>1. ASSUME ChannelInv, RoutingInv, sock = "up", req # << >>, Head(req).code = "DATA"
      PROVE  /\ table # << >>
             /\ table[Position(Head(req).channel)].name = Head(req).name
  <2> DEFINE n == Head(req).channel
  <2>1. FollowerType /\ ConnectionType /\ MainAtContext /\ Decreasing(table)
    BY <1>1, TypeParts DEF ChannelInv
  <2>2. main.pc \in WaitPCs
    BY <1>1, OnlyMain
  <2>3. main.pc = "data answer"
    BY <1>1, <2>2 DEF RoutingInv, InitAsked, InitPCs, WaitPCs
  <2>4. Head(req).name = cxt.name /\ n = cxt.channel /\ n # 0
    BY <1>1, <2>3 DEF RoutingInv, DataAsked
  <2>5. cxt.opened
    BY <1>1, <2>3 DEF RoutingInv, AtOpen, AtPCs
  <2>6. main.k \in DOMAIN cxts /\ cxt \in Context
    BY <2>1, <2>3, AtContext DEF MainAtContext
  <2>7. HomeIn(table, n, cxt.name)
    <3>1. ~Starting(main.k)
      BY <2>3 DEF Starting
    <3>2. QED
      BY <1>1, <2>4, <2>5, <2>6, <3>1 DEF RoutingInv, Registered, cxt
  <2>8. n \in Nat
    BY <2>4, <2>6 DEF Context
  <2> HIDE DEF n
  <2>9. PICK i \in DOMAIN table : table[i].id = n /\ table[i].name = cxt.name
    BY <2>7 DEF HomeIn
  <2>10. table # << >> /\ n \in Numbers /\ table \in Seq(Channel)
    BY <2>1, <2>9 DEF Numbers, ConnectionType
  <2>11. Position(n) \in DOMAIN table /\ table[Position(n)].id = n
    BY <2>1, <2>8, <2>10, PositionIs
  <2>12. NumbersDistinct
    BY <1>1, IdsDistinct
  <2>13. Position(n) = i
    BY <2>9, <2>11, <2>12 DEF NumbersDistinct
  <2>14. QED
    BY <2>4, <2>9, <2>10, <2>13 DEF n
<1>2. ChannelInv /\ RoutingInv => TextStaysHome
  BY <1>1 DEF TextStaysHome
<1>3. QED
  BY <1>2, ChannelInvariant, RoutingInvariant, PTL
==============================================================================
