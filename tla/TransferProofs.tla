--------------------------- MODULE TransferProofs ----------------------------
(***************************************************************************)
(* What is proved about the protocol of Transfer for every value of its    *)
(* constants, in every configuration and under every failure: types, stop  *)
(* and wait, and that a DATA always finds its channel.  What is proved     *)
(* about the copy is in CopyProofs.                                        *)
(***************************************************************************)
EXTENDS Transfer, SequenceTheorems, TLAPS

----------------------------------------------------------------------------
(* Lemmas about the operators. *)

LEMMA IotaType ==
    ASSUME NEW a \in Nat, NEW b \in Nat
    PROVE  Iota(a, b) \in Seq(Nat)
BY SMT DEF Iota

LEMMA IotaLen ==
    ASSUME NEW a \in Nat, NEW b \in Nat, a <= b
    PROVE  Len(Iota(a, b)) = b - a
<1>1. b - a \in Nat
  OBVIOUS
<1>2. /\ Iota(a, b) \in Seq(Nat)
      /\ DOMAIN Iota(a, b) = 1..(b - a)
  BY IotaType DEF Iota
<1>3. QED
  BY <1>1, <1>2, LenProperties

LEMMA IotaEmpty ==
    ASSUME NEW a \in Nat
    PROVE  Iota(a, a) = << >>
BY SMT DEF Iota

LEMMA IotaConcat ==
    ASSUME NEW a \in Nat, NEW b \in Nat, NEW c \in Nat, a <= b, b <= c
    PROVE  Iota(a, b) \o Iota(b, c) = Iota(a, c)
<1> DEFINE s == Iota(a, b)
           t == Iota(b, c)
           u == Iota(a, c)
<1>1. a <= c
  OBVIOUS
<1>2. Len(s) = b - a /\ Len(t) = c - b /\ Len(u) = c - a
  BY <1>1, IotaLen
<1>3. s \in Seq(Nat) /\ t \in Seq(Nat) /\ u \in Seq(Nat)
  BY IotaType
<1>4. /\ s \o t \in Seq(Nat)
      /\ Len(s \o t) = Len(s) + Len(t)
      /\ \A i \in 1..(Len(s) + Len(t)) :
            (s \o t)[i] = IF i <= Len(s) THEN s[i] ELSE t[i - Len(s)]
  BY <1>3, ConcatProperties
<1> HIDE DEF s, t, u
<1>5. ASSUME NEW i \in 1..(c - a)
      PROVE  (s \o t)[i] = u[i]
  <2>1. u[i] = a + i
    BY DEF u, Iota
  <2>2. i \in 1..(Len(s) + Len(t))
    BY <1>2
  <2>3. (s \o t)[i] = IF i <= Len(s) THEN s[i] ELSE t[i - Len(s)]
    BY <1>4, <2>2
  <2>4. CASE i <= b - a
    <3>1. s[i] = a + i
      BY <2>4 DEF s, Iota
    <3>2. QED
      BY <1>2, <2>1, <2>3, <2>4, <3>1
  <2>5. CASE ~(i <= b - a)
    <3>1. t[i - (b - a)] = a + i
      BY <2>5 DEF t, Iota
    <3>2. QED
      BY <1>2, <2>1, <2>3, <2>5, <3>1
  <2>6. QED
    BY <2>4, <2>5
<1>6. Len(s \o t) = Len(u)
  BY <1>2, <1>4
<1>7. \A i \in 1..Len(s \o t) : (s \o t)[i] = u[i]
  BY <1>2, <1>5, <1>6
<1>8. s \o t = u
  BY <1>3, <1>4, <1>6, <1>7, SeqEqual
<1>9. QED
  BY <1>8 DEF s, t, u
----------------------------------------------------------------------------
(* The protocol. *)

Busy(c) == agg.pc # "idle" /\ agg.conn = c

HasChannel(c) == chans[c] # NoChannel

(* No message is under way, on either side of connection c. *)
Quiet(c) == req[c] = << >> /\ resp[c] = << >> /\ ~Busy(c)

(* The follower only ever speaks on the newest connection, and no other one  *)
(* is alive.                                                                 *)
OneConnection == /\ sock \in {0, nconn}
                 /\ up \subseteq {sock}
                 /\ pc \in {"reconnect", "exited", "init again"} => up = {}

(* Channels belong to accepted connections; the handler at work has one. *)
ChannelOwned ==
    /\ \A c \in Conn : c \notin conns => chans[c] = NoChannel
    /\ agg.pc # "idle" => /\ agg.conn \in conns
                          /\ HasChannel(agg.conn)
                          /\ agg.msg \in Request
                          /\ agg.msg.channel # 0
    /\ agg.pc = "merge text" => mrg # << >>

(* Stop and wait, in a form that names the three places a message can be. *)
OneMessage ==
    \A c \in Conn :
        /\ Len(req[c]) <= 1
        /\ Len(resp[c]) <= 1
        /\ req[c] # << >> => resp[c] = << >> /\ ~Busy(c)
        /\ resp[c] # << >> => ~Busy(c)

(* Requests find the channels they need. *)
RequestsKnown ==
    \A c \in Conn : req[c] # << >> =>
        IF Head(req[c]).code = "INIT"
        THEN ~HasChannel(c)
        ELSE Head(req[c]).channel # 0 /\ HasChannel(c)

(* Nothing is under way on a connection not yet made. *)
Unused == \A c \in Conn : c > nconn => req[c] = << >> /\ resp[c] = << >>

(* What the follower's thread knows where it stands. *)
Control ==
    /\ pc \in {"init", "init again", "read", "send", "data"} => opened
    /\ pc \in {"init again", "send"} => msgbuf \in Request /\ msgbuf.code = "DATA"

(* What it knows while the connection lives. *)
LiveControl ==
    \A c \in up :
        /\ pc \notin {"init", "data"} => Quiet(c)
        /\ pc = "run" /\ ~opened => ~HasChannel(c)
        /\ pc \in {"read", "send", "data"} \/ (pc = "run" /\ opened) =>
              chan # 0 /\ HasChannel(c)
        /\ pc = "init" /\ resp[c] # << >> =>
              Head(resp[c]).channel # 0 /\ HasChannel(c)

ProtocolInv ==
    /\ TypeOK
    /\ OneConnection
    /\ ChannelOwned
    /\ OneMessage
    /\ RequestsKnown
    /\ Unused
    /\ Control
    /\ LiveControl

(* A queue that holds at most one message. *)
LEMMA TakeOne ==
    ASSUME NEW S, NEW q \in Seq(S), Len(q) <= 1, q # << >>
    PROVE  Head(q) \in S /\ Tail(q) = << >> /\ Len(q) = 1
<1>1. Len(q) = 1
  <2>1. Len(q) \in Nat
    BY LenProperties
  <2>2. Len(q) # 0
    BY EmptySeq
  <2>3. QED
    BY <2>1, <2>2
<1>2. q[1] \in S
  BY <1>1, LenProperties
<1>3. Tail(q) \in Seq(S) /\ Len(Tail(q)) = 0
  BY <1>1, HeadTailProperties
<1>4. QED
  BY <1>1, <1>2, <1>3, EmptySeq, HeadTailProperties

LEMMA PutOne ==
    ASSUME NEW S, NEW m \in S
    PROVE  /\ Append(<< >>, m) \in Seq(S)
           /\ Append(<< >>, m) # << >>
           /\ Len(Append(<< >>, m)) = 1
           /\ Head(Append(<< >>, m)) = m
OBVIOUS

LEMMA ConnTypes ==
    ASSUME TypeOK
    PROVE  /\ MaxConn \in Nat /\ BufSize \in Nat /\ Room \in Nat /\ MaxLen \in Nat
           /\ nconn \in Nat /\ nconn <= MaxConn
           /\ up \subseteq 1..nconn
           /\ conns \subseteq 1..nconn
           /\ up \subseteq Conn
           /\ conns \subseteq Conn
           /\ 0 \notin up
           /\ sock \in 0..nconn
           /\ sock # 0 => sock \in Conn
<1>1. MaxConn \in Nat /\ BufSize \in Nat /\ Room \in Nat /\ MaxLen \in Nat
  BY SizesAssumption
<1>2. nconn \in 0..MaxConn /\ up \subseteq 1..nconn
  BY DEF TypeOK, NetworkType
<1>3. conns \subseteq 1..nconn
  BY DEF TypeOK, MemoryType
<1>4. sock \in 0..nconn
  BY DEF TypeOK, FollowerType
<1>5. 1..nconn \subseteq Conn
  BY <1>1, <1>2 DEF Conn
<1>6. sock # 0 => sock \in 1..nconn
  BY <1>1, <1>2, <1>4
<1>7. 0 \notin up
  BY <1>1, <1>2
<1>8. QED
  BY <1>1, <1>2, <1>3, <1>4, <1>5, <1>6, <1>7

LEMMA FetchedType ==
    ASSUME TypeOK
    PROVE  Fetched \in [lo : Nat, hi : Nat]
<1>1. buf \in [lo : Nat, hi : Nat] /\ fpos \in Nat /\ written \in 0..MaxLen
  BY DEF TypeOK, FollowerType
<1>2. Smaller(fpos + BufSize, written) \in Nat
  BY <1>1, ConnTypes DEF Smaller
<1>3. QED
  BY <1>1, <1>2 DEF Fetched

(* What sending, reading and answering one message do to the queues. *)
LEMMA SendEffect ==
    ASSUME TypeOK, OneConnection, \A c \in up : Quiet(c),
           NEW m \in Request, SendSucceeds(m)
    PROVE  /\ sock # 0
           /\ sock' = sock
           /\ req' \in [Conn -> Seq(Request)]
           /\ \A c \in Conn : \/ req'[c] = req[c]
                              \/ /\ c \in up
                                 /\ c = sock
                                 /\ req'[c] # << >>
                                 /\ Len(req'[c]) = 1
                                 /\ Head(req'[c]) = m
<1>1. sock # 0 /\ sock' = sock
  BY DEF SendSucceeds
<1>2. CASE sock \in up
  <2>1. req[sock] = << >> /\ sock \in Conn
    BY <1>2, ConnTypes DEF Quiet
  <2>2. req' = [req EXCEPT ![sock] = Append(<< >>, m)]
    BY <1>2, <2>1 DEF SendSucceeds
  <2>3. /\ Append(<< >>, m) \in Seq(Request)
        /\ Append(<< >>, m) # << >>
        /\ Len(Append(<< >>, m)) = 1
        /\ Head(Append(<< >>, m)) = m
    BY PutOne
  <2>4. QED
    BY <1>1, <1>2, <2>1, <2>2, <2>3 DEF TypeOK, NetworkType
<1>3. CASE sock \notin up
  BY <1>1, <1>3 DEF SendSucceeds, TypeOK, NetworkType
<1>4. QED
  BY <1>2, <1>3

LEMMA TakeRequestEffect ==
    ASSUME TypeOK, OneMessage, NEW c \in Conn, req[c] # << >>,
           req' = [req EXCEPT ![c] = Tail(@)]
    PROVE  /\ req' \in [Conn -> Seq(Request)]
           /\ req' = [req EXCEPT ![c] = << >>]
           /\ Head(req[c]) \in Request
           /\ resp[c] = << >>
           /\ ~Busy(c)
<1>1. req \in [Conn -> Seq(Request)]
  BY DEF TypeOK, NetworkType
<1>2. Len(req[c]) <= 1 /\ resp[c] = << >> /\ ~Busy(c)
  BY DEF OneMessage
<1>3. Tail(req[c]) = << >> /\ Head(req[c]) \in Request
  BY <1>1, <1>2, TakeOne
<1>4. << >> \in Seq(Request)
  BY EmptySeq
<1>5. QED
  BY <1>1, <1>2, <1>3, <1>4

LEMMA TakeReplyEffect ==
    ASSUME TypeOK, OneMessage, NEW c \in Conn, resp[c] # << >>,
           resp' = [resp EXCEPT ![c] = Tail(@)]
    PROVE  /\ resp' \in [Conn -> Seq(Reply)]
           /\ resp' = [resp EXCEPT ![c] = << >>]
           /\ Head(resp[c]) \in Reply
           /\ req[c] = << >>
           /\ ~Busy(c)
<1>1. resp \in [Conn -> Seq(Reply)]
  BY DEF TypeOK, NetworkType
<1>2. Len(resp[c]) <= 1 /\ req[c] = << >> /\ ~Busy(c)
  BY DEF OneMessage
<1>3. Tail(resp[c]) = << >> /\ Head(resp[c]) \in Reply
  BY <1>1, <1>2, TakeOne
<1>4. << >> \in Seq(Reply)
  BY EmptySeq
<1>5. QED
  BY <1>1, <1>2, <1>3, <1>4

LEMMA AnswerEffect ==
    ASSUME TypeOK, NEW c \in Conn, resp[c] = << >>, NEW r \in Reply, Answer(c, r)
    PROVE  /\ resp' \in [Conn -> Seq(Reply)]
           /\ \A d \in Conn : d # c => resp'[d] = resp[d]
           /\ Len(resp'[c]) <= 1
           /\ \/ resp'[c] = << >>
              \/ c \in up /\ resp'[c] # << >> /\ Head(resp'[c]) = r
<1>1. resp \in [Conn -> Seq(Reply)]
  BY DEF TypeOK, NetworkType
<1>2. CASE c \in up
  <2>1. resp' = [resp EXCEPT ![c] = Append(<< >>, r)]
    BY <1>2 DEF Answer
  <2>2. /\ Append(<< >>, r) \in Seq(Reply)
        /\ Append(<< >>, r) # << >>
        /\ Len(Append(<< >>, r)) = 1
        /\ Head(Append(<< >>, r)) = r
    BY PutOne
  <2>3. QED
    BY <1>1, <1>2, <2>1, <2>2
<1>3. CASE c \notin up
  <2>1. resp' = resp /\ Len(<< >>) <= 1
    BY <1>3, EmptySeq DEF Answer
  <2>2. QED
    BY <1>1, <2>1
<1>4. QED
  BY <1>2, <1>3

(* Writing to a channel's buffer neither opens nor closes a channel. *)
LEMMA SameChannels ==
    ASSUME TypeOK, NEW c \in Conn, HasChannel(c), NEW s \in Seq(Nat),
           chans' = [chans EXCEPT ![c] = s]
    PROVE  /\ chans' \in [Conn -> Seq(Nat) \union {NoChannel}]
           /\ \A d \in Conn : HasChannel(d)' <=> HasChannel(d)
<1>1. chans \in [Conn -> Seq(Nat) \union {NoChannel}]
  BY DEF TypeOK, MemoryType
<1>2. s # NoChannel
  BY NoChannelAssumption
<1>3. QED
  BY <1>1, <1>2 DEF HasChannel

LEMMA ChannelText ==
    ASSUME TypeOK, NEW c \in Conn, HasChannel(c)
    PROVE  chans[c] \in Seq(Nat)
BY DEF TypeOK, MemoryType, HasChannel

LEMMA HandlerAtWork ==
    ASSUME ProtocolInv, agg.pc # "idle"
    PROVE  /\ agg.conn \in Conn
           /\ HasChannel(agg.conn)
           /\ agg.msg \in Request
           /\ agg.msg.channel # 0
           /\ Text \in Seq(Nat)
           /\ req[agg.conn] = << >> /\ resp[agg.conn] = << >>
<1>1. TypeOK
  BY DEF ProtocolInv
<1>2. agg.conn \in Conn
  BY <1>1, ConnTypes DEF ProtocolInv, ChannelOwned
<1>3. agg.msg \in Request /\ agg.msg.channel # 0 /\ HasChannel(agg.conn)
  BY DEF ProtocolInv, ChannelOwned
<1>4. agg.msg.lo \in Nat /\ agg.msg.hi \in Nat
  BY <1>3 DEF Request
<1>5. Text \in Seq(Nat)
  BY <1>4, IotaType DEF Text
<1>6. req[agg.conn] = << >> /\ resp[agg.conn] = << >>
  BY <1>2 DEF ProtocolInv, OneMessage, Busy
<1>7. QED
  BY <1>2, <1>3, <1>5, <1>6

----------------------------------------------------------------------------
(* Each action preserves the protocol invariant. *)

LEMMA WriteProtocol ==
    ASSUME ProtocolInv, Write
    PROVE  ProtocolInv'
<1> USE DEF ProtocolInv, TypeOK
<1>1. written' \in 0..MaxLen
  BY DEF Write
<1>2. FollowerType'
  BY DEF FollowerType, Write, follower, network
<1>3. NetworkType'
  BY DEF NetworkType, Write, network
<1>4. MemoryType'
  BY DEF MemoryType, Write, network, memory
<1>5. DiskType'
  BY DEF DiskType, Write, disk
<1>6. OneConnection'
  BY DEF OneConnection, Write, follower, network
<1>7. ChannelOwned'
  BY DEF ChannelOwned, HasChannel, Write, memory, disk
<1>8. OneMessage'
  BY DEF OneMessage, Busy, Write, network, memory
<1>9. RequestsKnown'
  BY DEF RequestsKnown, HasChannel, Write, network, memory
<1>10. Unused'
  BY DEF Unused, Write, network
<1>11. Control'
  BY DEF Control, Write, follower
<1>12. LiveControl'
  BY DEF LiveControl, Quiet, Busy, HasChannel, Write, follower, network, memory
<1>13. QED
  BY <1>1, <1>2, <1>3, <1>4, <1>5, <1>6, <1>7, <1>8, <1>9, <1>10, <1>11, <1>12

LEMMA ReconnectProtocol ==
    ASSUME ProtocolInv, Reconnect
    PROVE  ProtocolInv'
<1> USE DEF ProtocolInv, TypeOK
<1>1. written' \in 0..MaxLen
  BY DEF Reconnect
<1>2. FollowerType'
  <2>1. /\ pc' = "run"
        /\ sock' \in 0..nconn'
        /\ opened' = FALSE
        /\ fpos' = 0
        /\ buf' = [lo |-> 0, hi |-> 0]
        /\ msgbuf' = NoMessage
        /\ chan' \in Nat
    BY ConnTypes DEF FollowerType, Reconnect, ResetContext, memory, disk
  <2>2. QED
    BY <2>1 DEF FollowerType
<1>3. NetworkType'
  BY SizesAssumption DEF NetworkType, Reconnect
<1>4. MemoryType'
  <2>1. /\ 1..nconn \subseteq 1..nconn'
        /\ UNCHANGED <<conns, chans, agg>>
    BY ConnTypes DEF Reconnect, ResetContext, memory, disk
  <2>2. QED
    BY <2>1 DEF MemoryType
<1>5. DiskType'
  BY DEF DiskType, Reconnect, disk
<1>6. OneConnection'
  BY DEF OneConnection, Reconnect, ResetContext
<1>7. ChannelOwned'
  BY DEF ChannelOwned, HasChannel, Reconnect, memory, disk
<1>8. OneMessage'
  BY DEF OneMessage, Busy, Reconnect, memory
<1>9. RequestsKnown'
  BY DEF RequestsKnown, HasChannel, Reconnect, memory
<1>10. Unused'
  <2>1. nconn' = nconn + 1 /\ UNCHANGED <<req, resp>>
    BY DEF Reconnect
  <2>2. nconn \in Nat
    BY ConnTypes
  <2>3. \A c \in Conn : c \in Nat
    BY DEF Conn
  <2>4. QED
    BY <2>1, <2>2, <2>3 DEF Unused
<1>11. Control'
  BY DEF Control, Reconnect, ResetContext
<1>12. LiveControl'
  <2>1. /\ up' = {nconn + 1}
        /\ pc' = "run" /\ opened' = FALSE
        /\ UNCHANGED <<req, resp, agg, chans>>
    BY ConnTypes DEF OneConnection, memory, Reconnect, ResetContext
  <2>2. nconn + 1 \in Conn /\ nconn + 1 \notin conns /\ nconn + 1 > nconn
    BY ConnTypes DEF Reconnect, Conn
  <2>3. /\ req[nconn + 1] = << >> /\ resp[nconn + 1] = << >>
        /\ ~HasChannel(nconn + 1) /\ ~Busy(nconn + 1)
    BY <2>2 DEF Unused, ChannelOwned, Busy, HasChannel
  <2>4. QED
    BY <2>1, <2>3 DEF LiveControl, Quiet, Busy, HasChannel
<1>13. QED
  BY <1>1, <1>2, <1>3, <1>4, <1>5, <1>6, <1>7, <1>8, <1>9, <1>10, <1>11, <1>12

LEMMA ReconnectFailsProtocol ==
    ASSUME ProtocolInv, ReconnectFails
    PROVE  ProtocolInv'
<1> USE DEF ProtocolInv, TypeOK
<1>1. written' \in 0..MaxLen
  BY DEF ReconnectFails
<1>2. FollowerType'
  BY DEF FollowerType, ReconnectFails, ResetContext, network
<1>3. NetworkType'
  BY DEF NetworkType, ReconnectFails, network
<1>4. MemoryType'
  BY DEF MemoryType, ReconnectFails, network, memory
<1>5. DiskType'
  BY DEF DiskType, ReconnectFails, disk
<1>6. OneConnection'
  BY DEF OneConnection, ReconnectFails, network
<1>7. ChannelOwned'
  BY DEF ChannelOwned, HasChannel, ReconnectFails, memory, disk
<1>8. OneMessage'
  BY DEF OneMessage, Busy, ReconnectFails, network, memory
<1>9. RequestsKnown'
  BY DEF RequestsKnown, HasChannel, ReconnectFails, network, memory
<1>10. Unused'
  BY DEF Unused, ReconnectFails, network
<1>11. Control'
  BY DEF Control, ReconnectFails, ResetContext
<1>12. LiveControl'
  BY DEF LiveControl, OneConnection, Quiet, Busy, HasChannel, ReconnectFails, network, memory
<1>13. QED
  BY <1>1, <1>2, <1>3, <1>4, <1>5, <1>6, <1>7, <1>8, <1>9, <1>10, <1>11, <1>12

LEMMA MustReconnectProtocol ==
    ASSUME ProtocolInv, MustReconnect
    PROVE  ProtocolInv'
<1> USE DEF ProtocolInv, TypeOK
<1>1. written' \in 0..MaxLen
  BY DEF MustReconnect
<1>2. FollowerType'
  BY DEF FollowerType, MustReconnect, network
<1>3. NetworkType'
  BY DEF NetworkType, MustReconnect, network
<1>4. MemoryType'
  BY DEF MemoryType, MustReconnect, network, memory
<1>5. DiskType'
  BY DEF DiskType, MustReconnect, disk
<1>6. OneConnection'
  BY DEF OneConnection, FollowerType, NetworkType, MustReconnect, network
<1>7. ChannelOwned'
  BY DEF ChannelOwned, HasChannel, MustReconnect, memory, disk
<1>8. OneMessage'
  BY DEF OneMessage, Busy, MustReconnect, network, memory
<1>9. RequestsKnown'
  BY DEF RequestsKnown, HasChannel, MustReconnect, network, memory
<1>10. Unused'
  BY DEF Unused, MustReconnect, network
<1>11. Control'
  BY DEF Control, MustReconnect
<1>12. LiveControl'
  BY DEF LiveControl, Quiet, Busy, HasChannel, MustReconnect, network, memory
<1>13. QED
  BY <1>1, <1>2, <1>3, <1>4, <1>5, <1>6, <1>7, <1>8, <1>9, <1>10, <1>11, <1>12

LEMMA OpenFileProtocol ==
    ASSUME ProtocolInv, OpenFile
    PROVE  ProtocolInv'
<1> USE DEF ProtocolInv, TypeOK
<1>1. written' \in 0..MaxLen
  BY DEF OpenFile
<1>2. FollowerType'
  <2>1. /\ pc' \in {"init", "read"}
        /\ sock' \in {0, sock}
        /\ opened' = TRUE
        /\ fpos' = 0
        /\ UNCHANGED <<buf, msgbuf, chan, nconn>>
    BY DEF OpenFile, SendSucceeds, SendFails
  <2>2. sock' \in 0..nconn'
    BY <2>1, ConnTypes
  <2>3. QED
    BY <2>1, <2>2 DEF FollowerType
<1>3. NetworkType'
  <2>1. \/ req' = req
        \/ SendSucceeds(InitMessage)
    BY DEF OpenFile, SendFails
  <2>2. \A c \in up : Quiet(c)
    BY DEF LiveControl, OpenFile
  <2>3. InitMessage \in Request
    BY DEF InitMessage, Request
  <2>4. req' \in [Conn -> Seq(Request)]
    BY <2>1, <2>2, <2>3, SendEffect DEF NetworkType
  <2>5. QED
    BY <2>4 DEF NetworkType, OpenFile
<1>4. MemoryType'
  BY DEF MemoryType, OpenFile, memory
<1>5. DiskType'
  BY DEF DiskType, OpenFile, disk
<1>6. OneConnection'
  BY DEF OneConnection, OpenFile, SendSucceeds, SendFails
<1>7. ChannelOwned'
  BY DEF ChannelOwned, HasChannel, OpenFile, memory, disk
<1>8. OneMessage'
  <2>1. \A c \in up : Quiet(c) /\ ~HasChannel(c)
    BY DEF LiveControl, OpenFile
  <2>2. InitMessage \in Request
    BY DEF InitMessage, Request
  <2>3. \A c \in Conn : \/ req'[c] = req[c]
                        \/ c \in up /\ Len(req'[c]) = 1
    BY <2>1, <2>2, SendEffect DEF OpenFile, SendFails
  <2>4. UNCHANGED <<resp, agg>>
    BY DEF OpenFile, memory
  <2>5. ASSUME NEW c \in Conn, c \in up, Len(req'[c]) = 1
        PROVE  /\ Len(req'[c]) <= 1 /\ Len(resp'[c]) <= 1
               /\ resp'[c] = << >> /\ ~Busy(c)'
    <3>1. resp[c] = << >> /\ ~Busy(c) /\ Len(resp[c]) <= 1
      BY <2>1, <2>5 DEF Quiet, OneMessage
    <3>2. QED
      BY <2>4, <2>5, <3>1 DEF Busy
  <2>6. QED
    BY <2>3, <2>4, <2>5 DEF OneMessage, Busy
<1>9. RequestsKnown'
  <2>1. \A c \in up : Quiet(c) /\ ~HasChannel(c)
    BY DEF LiveControl, OpenFile
  <2>2. InitMessage \in Request /\ InitMessage.code = "INIT"
    BY DEF InitMessage, Request
  <2>3. \A c \in Conn : \/ req'[c] = req[c]
                        \/ c \in up /\ Head(req'[c]) = InitMessage
    BY <2>1, <2>2, SendEffect DEF OpenFile, SendFails
  <2>4. QED
    BY <2>1, <2>2, <2>3 DEF RequestsKnown, HasChannel, OpenFile, memory
<1>10. Unused'
  <2>1. \A c \in Conn : c > nconn => req'[c] = req[c]
    BY ConnTypes DEF OpenFile, SendSucceeds, SendFails, NetworkType, Conn
  <2>2. QED
    BY <2>1 DEF Unused, OpenFile
<1>11. Control'
  BY DEF Control, OpenFile
<1>12. LiveControl'
  BY DEF LiveControl, OneConnection, Quiet, Busy, HasChannel, OpenFile, SendSucceeds, SendFails, memory
<1>13. QED
  BY <1>1, <1>2, <1>3, <1>4, <1>5, <1>6, <1>7, <1>8, <1>9, <1>10, <1>11, <1>12

LEMMA InitAnsweredProtocol ==
    ASSUME ProtocolInv, InitAnswered
    PROVE  ProtocolInv'
<1> USE DEF ProtocolInv, TypeOK
<1>1. written' \in 0..MaxLen
  BY DEF InitAnswered
<1>2. FollowerType'
  <2>1. /\ sock \in Conn /\ resp[sock] # << >>
        /\ resp' = [resp EXCEPT ![sock] = Tail(@)]
    BY ConnTypes DEF InitAnswered
  <2>2. /\ resp' \in [Conn -> Seq(Reply)]
        /\ resp' = [resp EXCEPT ![sock] = << >>]
        /\ Head(resp[sock]) \in Reply
        /\ req[sock] = << >> /\ ~Busy(sock)
    BY <2>1, TakeReplyEffect
  <2>3. /\ pc' \in {"read", "send"}
        /\ chan' = Head(resp[sock]).channel
        /\ fpos' = Head(resp[sock]).pos
        /\ UNCHANGED <<sock, opened, buf, msgbuf, nconn>>
    BY DEF InitAnswered, AfterInit
  <2>4. chan' \in Nat /\ fpos' \in Nat
    BY <2>2, <2>3 DEF Reply
  <2>5. QED
    BY <2>3, <2>4 DEF FollowerType
<1>3. NetworkType'
  <2>1. /\ sock \in Conn /\ resp[sock] # << >>
        /\ resp' = [resp EXCEPT ![sock] = Tail(@)]
    BY ConnTypes DEF InitAnswered
  <2>2. /\ resp' \in [Conn -> Seq(Reply)]
        /\ resp' = [resp EXCEPT ![sock] = << >>]
        /\ Head(resp[sock]) \in Reply
        /\ req[sock] = << >> /\ ~Busy(sock)
    BY <2>1, TakeReplyEffect
  <2>3. QED
    BY <2>2 DEF NetworkType, InitAnswered
<1>4. MemoryType'
  BY DEF MemoryType, InitAnswered, memory
<1>5. DiskType'
  BY DEF DiskType, InitAnswered, disk
<1>6. OneConnection'
  BY DEF OneConnection, InitAnswered, AfterInit
<1>7. ChannelOwned'
  BY DEF ChannelOwned, HasChannel, InitAnswered, memory, disk
<1>8. OneMessage'
  <2>1. /\ sock \in Conn /\ resp[sock] # << >>
        /\ resp' = [resp EXCEPT ![sock] = Tail(@)]
    BY ConnTypes DEF InitAnswered
  <2>2. /\ resp' \in [Conn -> Seq(Reply)]
        /\ resp' = [resp EXCEPT ![sock] = << >>]
        /\ Head(resp[sock]) \in Reply
        /\ req[sock] = << >> /\ ~Busy(sock)
    BY <2>1, TakeReplyEffect
  <2>3. QED
    BY <2>1, <2>2 DEF OneMessage, NetworkType, Busy, InitAnswered, memory
<1>9. RequestsKnown'
  BY DEF RequestsKnown, HasChannel, InitAnswered, memory
<1>10. Unused'
  BY DEF Unused, NetworkType, InitAnswered
<1>11. Control'
  BY DEF Control, InitAnswered, AfterInit
<1>12. LiveControl'
  <2>1. /\ sock \in Conn /\ resp[sock] # << >>
        /\ resp' = [resp EXCEPT ![sock] = Tail(@)]
    BY ConnTypes DEF InitAnswered
  <2>2. /\ resp' \in [Conn -> Seq(Reply)]
        /\ resp' = [resp EXCEPT ![sock] = << >>]
        /\ Head(resp[sock]) \in Reply
        /\ req[sock] = << >> /\ ~Busy(sock)
    BY <2>1, TakeReplyEffect
  <2>3. /\ pc' = AfterInit
        /\ chan' = Head(resp[sock]).channel
        /\ UNCHANGED <<up, req, opened, chans, agg>>
    BY DEF InitAnswered, memory
  <2>4. \A c \in up : c = sock /\ pc = "init"
    BY DEF OneConnection, InitAnswered
  <2>5. \A c \in up : chan' # 0 /\ HasChannel(c)'
    BY <2>1, <2>3, <2>4 DEF LiveControl, HasChannel
  <2>6. \A c \in up : Quiet(c)'
    BY <2>2, <2>3, <2>4 DEF Quiet, Busy, NetworkType
  <2>7. \A c \in up : pc' = "read"
    BY <2>3, <2>4 DEF AfterInit
  <2>8. QED
    BY <2>3, <2>5, <2>6, <2>7 DEF LiveControl
<1>13. QED
  BY <1>1, <1>2, <1>3, <1>4, <1>5, <1>6, <1>7, <1>8, <1>9, <1>10, <1>11, <1>12

LEMMA HashInvalidProtocol ==
    ASSUME ProtocolInv, HashInvalid
    PROVE  ProtocolInv'
<1> USE DEF ProtocolInv, TypeOK
<1>1. written' \in 0..MaxLen
  BY DEF HashInvalid
<1>2. FollowerType'
  BY DEF FollowerType, HashInvalid
<1>3. NetworkType'
  <2>1. << >> \in Seq(Reply)
    BY EmptySeq
  <2>2. QED
    BY <2>1 DEF NetworkType, HashInvalid
<1>4. MemoryType'
  BY DEF MemoryType, HashInvalid, memory
<1>5. DiskType'
  BY DEF DiskType, HashInvalid, disk
<1>6. OneConnection'
  BY DEF OneConnection, HashInvalid
<1>7. ChannelOwned'
  BY DEF ChannelOwned, HasChannel, HashInvalid, memory, disk
<1>8. OneMessage'
  BY DEF OneMessage, Busy, NetworkType, MemoryType, Conn, HashInvalid, memory
<1>9. RequestsKnown'
  BY DEF RequestsKnown, HasChannel, HashInvalid, memory
<1>10. Unused'
  BY DEF Unused, NetworkType, HashInvalid
<1>11. Control'
  BY DEF Control, HashInvalid
<1>12. LiveControl'
  BY DEF LiveControl, OneConnection, Quiet, Busy, HasChannel, HashInvalid, memory
<1>13. QED
  BY <1>1, <1>2, <1>3, <1>4, <1>5, <1>6, <1>7, <1>8, <1>9, <1>10, <1>11, <1>12

LEMMA InitFailsProtocol ==
    ASSUME ProtocolInv, InitFails
    PROVE  ProtocolInv'
<1> USE DEF ProtocolInv, TypeOK
<1>1. written' \in 0..MaxLen
  BY DEF InitFails
<1>2. FollowerType'
  <2>1. /\ pc' \in {"read", "send"}
        /\ sock' \in {0, sock}
        /\ UNCHANGED <<opened, fpos, buf, msgbuf, chan, nconn>>
    BY DEF InitFails, ReceiveFails, AfterInit, network
  <2>2. sock' \in 0..nconn'
    BY <2>1, ConnTypes
  <2>3. QED
    BY <2>1, <2>2 DEF FollowerType
<1>3. NetworkType'
  BY DEF NetworkType, InitFails, network
<1>4. MemoryType'
  BY DEF MemoryType, InitFails, network, memory
<1>5. DiskType'
  BY DEF DiskType, InitFails, disk
<1>6. OneConnection'
  BY DEF OneConnection, InitFails, ReceiveFails, AfterInit, network
<1>7. ChannelOwned'
  BY DEF ChannelOwned, HasChannel, InitFails, memory, disk
<1>8. OneMessage'
  BY DEF OneMessage, Busy, InitFails, network, memory
<1>9. RequestsKnown'
  BY DEF RequestsKnown, HasChannel, InitFails, network, memory
<1>10. Unused'
  BY DEF Unused, InitFails, network
<1>11. Control'
  BY DEF Control, InitFails, ReceiveFails, AfterInit
<1>12. LiveControl'
  BY DEF LiveControl, OneConnection, Quiet, Busy, HasChannel, InitFails, ReceiveFails, AfterInit, network, memory
<1>13. QED
  BY <1>1, <1>2, <1>3, <1>4, <1>5, <1>6, <1>7, <1>8, <1>9, <1>10, <1>11, <1>12

LEMMA ReadLineProtocol ==
    ASSUME ProtocolInv, ReadLine
    PROVE  ProtocolInv'
<1> USE DEF ProtocolInv, TypeOK
<1>1. written' \in 0..MaxLen
  BY DEF ReadLine
<1>2. FollowerType'
  <2>1. PICK e \in (Fetched.lo + 1)..Fetched.hi :
          /\ EndsPiece(e, Fetched.lo, Fetched.hi)
          /\ buf' = [Fetched EXCEPT !.lo = e]
          /\ msgbuf' = [code |-> "DATA", channel |-> chan,
                        lo |-> Fetched.lo, hi |-> e, eol |-> e \in LineEnds]
    BY DEF ReadLine
  <2>2. /\ Fetched \in [lo : Nat, hi : Nat]
        /\ chan \in Nat /\ fpos \in Nat
    BY FetchedType DEF FollowerType
  <2>3. Fetched.lo \in Nat /\ Fetched.hi \in Nat
    BY <2>2
  <2>4. e \in Nat
    BY <2>3
  <2>5. (e \in LineEnds) \in BOOLEAN
    OBVIOUS
  <2>6. msgbuf' \in Request /\ msgbuf'.code = "DATA"
    BY <2>1, <2>2, <2>3, <2>4, <2>5, Zenon DEF Request
  <2>7. buf' \in [lo : Nat, hi : Nat]
    BY <2>1, <2>2, <2>4
  <2>8. /\ pc' \in {"send", "init again"}
        /\ fpos' \in {fpos, Fetched.hi}
        /\ UNCHANGED <<opened, chan>>
    BY DEF ReadLine, SendSucceeds, SendFails
  <2>9. sock' \in 0..nconn'
    <3>1. sock' \in {0, sock} /\ nconn' = nconn
      BY DEF ReadLine, SendSucceeds, SendFails
    <3>2. QED
      BY <3>1, ConnTypes
  <2>10. fpos' \in Nat
    BY <2>2, <2>3, <2>8
  <2>11. QED
    BY <2>6, <2>7, <2>8, <2>9, <2>10 DEF FollowerType
<1>3. NetworkType'
  <2>1. \A c \in up : chan # 0
    BY DEF LiveControl, ReadLine, AtRead
  <2>2. req' = req
    BY <2>1 DEF ReadLine, SendSucceeds, SendFails
  <2>3. QED
    BY <2>2 DEF NetworkType, ReadLine
<1>4. MemoryType'
  BY DEF MemoryType, ReadLine, memory
<1>5. DiskType'
  BY DEF DiskType, ReadLine, disk
<1>6. OneConnection'
  <2>1. \A c \in up : chan # 0
    BY DEF LiveControl, ReadLine, AtRead
  <2>2. /\ sock' = sock \/ (sock' = 0 /\ sock \notin up)
        /\ pc' = "init again" => chan = 0
        /\ pc' \in {"init again", "send"}
        /\ UNCHANGED <<nconn, up>>
    BY DEF ReadLine, SendSucceeds, SendFails
  <2>3. QED
    BY <2>1, <2>2 DEF OneConnection
<1>7. ChannelOwned'
  BY DEF ChannelOwned, HasChannel, ReadLine, memory, disk
<1>8. OneMessage'
  <2>1. \A c \in up : chan # 0
    BY DEF LiveControl, ReadLine, AtRead
  <2>2. req' = req
    BY <2>1 DEF ReadLine, SendSucceeds, SendFails
  <2>3. UNCHANGED <<resp, agg>>
    BY DEF ReadLine, memory
  <2>4. QED
    BY <2>2, <2>3 DEF OneMessage, Busy
<1>9. RequestsKnown'
  <2>1. \A c \in up : chan # 0
    BY DEF LiveControl, ReadLine, AtRead
  <2>2. req' = req
    BY <2>1 DEF ReadLine, SendSucceeds, SendFails
  <2>3. UNCHANGED chans
    BY DEF ReadLine, memory
  <2>4. QED
    BY <2>2, <2>3 DEF RequestsKnown, HasChannel
<1>10. Unused'
  <2>1. \A c \in up : chan # 0
    BY DEF LiveControl, ReadLine, AtRead
  <2>2. req' = req
    BY <2>1 DEF ReadLine, SendSucceeds, SendFails
  <2>3. UNCHANGED <<nconn, resp>>
    BY DEF ReadLine
  <2>4. QED
    BY <2>2, <2>3 DEF Unused
<1>11. Control'
  <2>1. PICK e \in (Fetched.lo + 1)..Fetched.hi :
          /\ EndsPiece(e, Fetched.lo, Fetched.hi)
          /\ buf' = [Fetched EXCEPT !.lo = e]
          /\ msgbuf' = [code |-> "DATA", channel |-> chan,
                        lo |-> Fetched.lo, hi |-> e, eol |-> e \in LineEnds]
    BY DEF ReadLine
  <2>2. /\ Fetched \in [lo : Nat, hi : Nat]
        /\ chan \in Nat /\ fpos \in Nat
    BY FetchedType DEF FollowerType
  <2>3. Fetched.lo \in Nat /\ Fetched.hi \in Nat
    BY <2>2
  <2>4. e \in Nat
    BY <2>3
  <2>5. (e \in LineEnds) \in BOOLEAN
    OBVIOUS
  <2>6. msgbuf' \in Request /\ msgbuf'.code = "DATA"
    BY <2>1, <2>2, <2>3, <2>4, <2>5, Zenon DEF Request
  <2>7. opened /\ pc' \in {"send", "init again"} /\ UNCHANGED opened
    BY DEF ReadLine, AtRead, Control
  <2>8. QED
    BY <2>6, <2>7 DEF Control
<1>12. LiveControl'
  BY DEF LiveControl, Quiet, Busy, HasChannel, ReadLine, AtRead, Fetched, EndsPiece, Smaller, SendSucceeds, SendFails, memory
<1>13. QED
  BY <1>1, <1>2, <1>3, <1>4, <1>5, <1>6, <1>7, <1>8, <1>9, <1>10, <1>11, <1>12

LEMMA NothingToReadProtocol ==
    ASSUME ProtocolInv, NothingToRead
    PROVE  ProtocolInv'
<1> USE DEF ProtocolInv, TypeOK
<1>1. written' \in 0..MaxLen
  BY DEF NothingToRead
<1>2. FollowerType'
  BY DEF FollowerType, NothingToRead, network
<1>3. NetworkType'
  BY DEF NetworkType, NothingToRead, network
<1>4. MemoryType'
  BY DEF MemoryType, NothingToRead, network, memory
<1>5. DiskType'
  BY DEF DiskType, NothingToRead, disk
<1>6. OneConnection'
  BY DEF OneConnection, NothingToRead, network
<1>7. ChannelOwned'
  BY DEF ChannelOwned, HasChannel, NothingToRead, memory, disk
<1>8. OneMessage'
  BY DEF OneMessage, Busy, NothingToRead, network, memory
<1>9. RequestsKnown'
  BY DEF RequestsKnown, HasChannel, NothingToRead, network, memory
<1>10. Unused'
  BY DEF Unused, NothingToRead, network
<1>11. Control'
  BY DEF Control, NothingToRead
<1>12. LiveControl'
  <2>1. /\ pc = "read" /\ pc' = "run"
        /\ opened
        /\ UNCHANGED <<up, req, resp, opened, chan, chans, agg>>
    BY DEF NothingToRead, Control, network, memory
  <2>2. QED
    BY <2>1 DEF LiveControl, Quiet, Busy, HasChannel
<1>13. QED
  BY <1>1, <1>2, <1>3, <1>4, <1>5, <1>6, <1>7, <1>8, <1>9, <1>10, <1>11, <1>12

LEMMA SendDataProtocol ==
    ASSUME ProtocolInv, SendData
    PROVE  ProtocolInv'
<1> USE DEF ProtocolInv, TypeOK
<1>1. written' \in 0..MaxLen
  BY DEF SendData
<1>2. FollowerType'
  <2> DEFINE m == [msgbuf EXCEPT !.channel = chan]
  <2>1. m \in Request /\ m.code = "DATA" /\ m.channel = chan
    BY DEF Control, SendData, Request, FollowerType
  <2>2. \A c \in up : Quiet(c) /\ chan # 0 /\ HasChannel(c)
    BY DEF LiveControl, SendData
  <2>3. \/ SendSucceeds(m) /\ pc' = "data"
        \/ SendFails /\ pc' = "reconnect"
    BY DEF SendData
  <2>4. /\ pc' \in {"data", "reconnect"}
        /\ msgbuf' = m
        /\ sock' \in {0, sock}
        /\ UNCHANGED <<opened, fpos, buf, chan, nconn>>
    BY <2>3 DEF SendData, SendSucceeds, SendFails
  <2>5. sock' \in 0..nconn'
    BY <2>4, ConnTypes
  <2> HIDE DEF m
  <2>6. QED
    BY <2>1, <2>4, <2>5 DEF FollowerType
<1>3. NetworkType'
  <2> DEFINE m == [msgbuf EXCEPT !.channel = chan]
  <2>1. m \in Request /\ m.code = "DATA" /\ m.channel = chan
    BY DEF Control, SendData, Request, FollowerType
  <2>2. \A c \in up : Quiet(c) /\ chan # 0 /\ HasChannel(c)
    BY DEF LiveControl, SendData
  <2>3. \/ SendSucceeds(m) /\ pc' = "data"
        \/ SendFails /\ pc' = "reconnect"
    BY DEF SendData
  <2> HIDE DEF m
  <2>4. req' \in [Conn -> Seq(Request)]
    BY <2>1, <2>2, <2>3, SendEffect DEF SendFails, NetworkType
  <2>5. QED
    BY <2>4 DEF NetworkType, SendData
<1>4. MemoryType'
  BY DEF MemoryType, SendData, memory
<1>5. DiskType'
  BY DEF DiskType, SendData, disk
<1>6. OneConnection'
  BY DEF OneConnection, SendData, SendSucceeds, SendFails
<1>7. ChannelOwned'
  BY DEF ChannelOwned, HasChannel, SendData, memory, disk
<1>8. OneMessage'
  <2> DEFINE m == [msgbuf EXCEPT !.channel = chan]
  <2>1. m \in Request /\ m.code = "DATA" /\ m.channel = chan
    BY DEF Control, SendData, Request, FollowerType
  <2>2. \A c \in up : Quiet(c) /\ chan # 0 /\ HasChannel(c)
    BY DEF LiveControl, SendData
  <2>3. \/ SendSucceeds(m) /\ pc' = "data"
        \/ SendFails /\ pc' = "reconnect"
    BY DEF SendData
  <2> HIDE DEF m
  <2>4. \A c \in Conn : \/ req'[c] = req[c]
                        \/ c \in up /\ Len(req'[c]) = 1 /\ Head(req'[c]) = m
    BY <2>1, <2>2, <2>3, SendEffect DEF SendFails
  <2>5. UNCHANGED <<resp, agg, chans, nconn>>
    BY DEF SendData, memory
  <2>6. ASSUME NEW c \in Conn, c \in up, Len(req'[c]) = 1
        PROVE  /\ Len(req'[c]) <= 1 /\ Len(resp'[c]) <= 1
               /\ resp'[c] = << >> /\ ~Busy(c)'
    <3>1. resp[c] = << >> /\ ~Busy(c) /\ Len(resp[c]) <= 1
      BY <2>2, <2>6 DEF Quiet, OneMessage
    <3>2. QED
      BY <2>5, <2>6, <3>1 DEF Busy
  <2>7. QED
    BY <2>4, <2>5, <2>6 DEF OneMessage, Busy
<1>9. RequestsKnown'
  <2> DEFINE m == [msgbuf EXCEPT !.channel = chan]
  <2>1. m \in Request /\ m.code = "DATA" /\ m.channel = chan
    BY DEF Control, SendData, Request, FollowerType
  <2>2. \A c \in up : Quiet(c) /\ chan # 0 /\ HasChannel(c)
    BY DEF LiveControl, SendData
  <2>3. \/ SendSucceeds(m) /\ pc' = "data"
        \/ SendFails /\ pc' = "reconnect"
    BY DEF SendData
  <2> HIDE DEF m
  <2>4. \A c \in Conn : \/ req'[c] = req[c]
                        \/ c \in up /\ Len(req'[c]) = 1 /\ Head(req'[c]) = m
    BY <2>1, <2>2, <2>3, SendEffect DEF SendFails
  <2>5. UNCHANGED <<resp, agg, chans, nconn>>
    BY DEF SendData, memory
  <2>6. QED
    BY <2>1, <2>2, <2>4, <2>5 DEF RequestsKnown, HasChannel
<1>10. Unused'
  <2> DEFINE m == [msgbuf EXCEPT !.channel = chan]
  <2>1. m \in Request /\ m.code = "DATA" /\ m.channel = chan
    BY DEF Control, SendData, Request, FollowerType
  <2>2. \A c \in up : Quiet(c) /\ chan # 0 /\ HasChannel(c)
    BY DEF LiveControl, SendData
  <2>3. \/ SendSucceeds(m) /\ pc' = "data"
        \/ SendFails /\ pc' = "reconnect"
    BY DEF SendData
  <2> HIDE DEF m
  <2>4. \A c \in Conn : \/ req'[c] = req[c]
                        \/ c \in up /\ Len(req'[c]) = 1 /\ Head(req'[c]) = m
    BY <2>1, <2>2, <2>3, SendEffect DEF SendFails
  <2>5. UNCHANGED <<resp, agg, chans, nconn>>
    BY DEF SendData, memory
  <2>6. \A c \in up : ~(c > nconn)
    BY ConnTypes
  <2>7. QED
    BY <2>4, <2>5, <2>6 DEF Unused
<1>11. Control'
  BY DEF Control, SendData
<1>12. LiveControl'
  BY DEF LiveControl, Quiet, Busy, HasChannel, SendData, SendSucceeds, SendFails, memory
<1>13. QED
  BY <1>1, <1>2, <1>3, <1>4, <1>5, <1>6, <1>7, <1>8, <1>9, <1>10, <1>11, <1>12

LEMMA DataAnsweredProtocol ==
    ASSUME ProtocolInv, DataAnswered
    PROVE  ProtocolInv'
<1> USE DEF ProtocolInv, TypeOK
<1>1. written' \in 0..MaxLen
  BY DEF DataAnswered
<1>2. FollowerType'
  BY DEF FollowerType, DataAnswered
<1>3. NetworkType'
  <2>1. /\ sock \in Conn /\ resp[sock] # << >>
        /\ resp' = [resp EXCEPT ![sock] = Tail(@)]
    BY ConnTypes DEF DataAnswered
  <2>2. /\ resp' \in [Conn -> Seq(Reply)]
        /\ resp' = [resp EXCEPT ![sock] = << >>]
        /\ Head(resp[sock]) \in Reply
        /\ req[sock] = << >> /\ ~Busy(sock)
    BY <2>1, TakeReplyEffect
  <2>3. QED
    BY <2>2 DEF NetworkType, DataAnswered
<1>4. MemoryType'
  BY DEF MemoryType, DataAnswered, memory
<1>5. DiskType'
  BY DEF DiskType, DataAnswered, disk
<1>6. OneConnection'
  BY DEF OneConnection, DataAnswered
<1>7. ChannelOwned'
  BY DEF ChannelOwned, HasChannel, DataAnswered, memory, disk
<1>8. OneMessage'
  <2>1. /\ sock \in Conn /\ resp[sock] # << >>
        /\ resp' = [resp EXCEPT ![sock] = Tail(@)]
    BY ConnTypes DEF DataAnswered
  <2>2. /\ resp' \in [Conn -> Seq(Reply)]
        /\ resp' = [resp EXCEPT ![sock] = << >>]
        /\ Head(resp[sock]) \in Reply
        /\ req[sock] = << >> /\ ~Busy(sock)
    BY <2>1, TakeReplyEffect
  <2>3. QED
    BY <2>1, <2>2 DEF OneMessage, NetworkType, Busy, DataAnswered, memory
<1>9. RequestsKnown'
  BY DEF RequestsKnown, HasChannel, DataAnswered, memory
<1>10. Unused'
  BY DEF Unused, DataAnswered
<1>11. Control'
  BY DEF Control, DataAnswered
<1>12. LiveControl'
  <2>1. /\ sock \in Conn /\ resp[sock] # << >>
        /\ resp' = [resp EXCEPT ![sock] = Tail(@)]
    BY ConnTypes DEF DataAnswered
  <2>2. /\ resp' \in [Conn -> Seq(Reply)]
        /\ resp' = [resp EXCEPT ![sock] = << >>]
        /\ Head(resp[sock]) \in Reply
        /\ req[sock] = << >> /\ ~Busy(sock)
    BY <2>1, TakeReplyEffect
  <2>3. /\ pc = "data" /\ pc' = "run" /\ opened
        /\ UNCHANGED <<up, req, opened, chan, chans, agg>>
    BY DEF DataAnswered, Control, memory
  <2>4. \A c \in up : c = sock
    BY DEF OneConnection
  <2>5. \A c \in up : Quiet(c)'
    BY <2>2, <2>3, <2>4 DEF Quiet, Busy, NetworkType
  <2>6. QED
    BY <2>3, <2>5 DEF LiveControl, HasChannel
<1>13. QED
  BY <1>1, <1>2, <1>3, <1>4, <1>5, <1>6, <1>7, <1>8, <1>9, <1>10, <1>11, <1>12

LEMMA DataFailsProtocol ==
    ASSUME ProtocolInv, DataFails
    PROVE  ProtocolInv'
<1> USE DEF ProtocolInv, TypeOK
<1>1. written' \in 0..MaxLen
  BY DEF DataFails
<1>2. FollowerType'
  BY SizesAssumption DEF FollowerType, NetworkType, DataFails, ReceiveFails, network
<1>3. NetworkType'
  BY DEF NetworkType, DataFails, network
<1>4. MemoryType'
  BY DEF MemoryType, DataFails, network, memory
<1>5. DiskType'
  BY DEF DiskType, DataFails, disk
<1>6. OneConnection'
  BY DEF OneConnection, DataFails, ReceiveFails, network
<1>7. ChannelOwned'
  BY DEF ChannelOwned, HasChannel, DataFails, memory, disk
<1>8. OneMessage'
  BY DEF OneMessage, Busy, DataFails, network, memory
<1>9. RequestsKnown'
  BY DEF RequestsKnown, HasChannel, DataFails, network, memory
<1>10. Unused'
  BY DEF Unused, DataFails, network
<1>11. Control'
  BY DEF Control, DataFails
<1>12. LiveControl'
  BY DEF LiveControl, OneConnection, Quiet, Busy, HasChannel, DataFails, ReceiveFails, network, memory
<1>13. QED
  BY <1>1, <1>2, <1>3, <1>4, <1>5, <1>6, <1>7, <1>8, <1>9, <1>10, <1>11, <1>12

LEMMA AcceptProtocol ==
    ASSUME ProtocolInv, NEW c \in Conn, Accept(c)
    PROVE  ProtocolInv'
<1> USE DEF ProtocolInv, TypeOK
<1>1. written' \in 0..MaxLen
  BY DEF Accept
<1>2. FollowerType'
  BY DEF FollowerType, Accept, follower, network
<1>3. NetworkType'
  BY DEF NetworkType, Accept, network
<1>4. MemoryType'
  BY DEF MemoryType, Accept, network
<1>5. DiskType'
  BY DEF DiskType, Accept, disk
<1>6. OneConnection'
  BY DEF OneConnection, Accept, follower, network
<1>7. ChannelOwned'
  BY DEF ChannelOwned, HasChannel, MemoryType, Accept, disk
<1>8. OneMessage'
  BY DEF OneMessage, Busy, Accept, network
<1>9. RequestsKnown'
  <2>1. chans' = chans
    BY ConnTypes DEF Accept, ChannelOwned, MemoryType
  <2>2. UNCHANGED req
    BY DEF Accept, network
  <2>3. QED
    BY <2>1, <2>2 DEF RequestsKnown, HasChannel
<1>10. Unused'
  BY DEF Unused, Accept, network
<1>11. Control'
  BY DEF Control, Accept, follower
<1>12. LiveControl'
  <2>1. chans' = chans
    BY ConnTypes DEF Accept, ChannelOwned, MemoryType
  <2>2. UNCHANGED <<up, req, resp, pc, opened, chan, agg>>
    BY DEF Accept, follower, network
  <2>3. QED
    BY <2>1, <2>2 DEF LiveControl, HasChannel, Quiet, Busy
<1>13. QED
  BY <1>1, <1>2, <1>3, <1>4, <1>5, <1>6, <1>7, <1>8, <1>9, <1>10, <1>11, <1>12

LEMMA HandlerInitProtocol ==
    ASSUME ProtocolInv, NEW c \in Conn, HandlerInit(c)
    PROVE  ProtocolInv'
<1> USE DEF ProtocolInv, TypeOK
<1>1. written' \in 0..MaxLen
  BY DEF HandlerInit
<1>2. FollowerType'
  BY DEF FollowerType, HandlerInit, follower
<1>3. NetworkType'
  <2>1. c \in Conn /\ c \in conns /\ req[c] # << >> /\ agg.pc = "idle"
    BY ConnTypes DEF HandlerInit, Receives
  <2>2. /\ req' \in [Conn -> Seq(Request)]
        /\ req' = [req EXCEPT ![c] = << >>]
        /\ Head(req[c]) \in Request
        /\ resp[c] = << >> /\ ~Busy(c)
    BY <2>1, TakeRequestEffect DEF HandlerInit
  <2>3. InitReply(1) \in Reply /\ InitReply(1).channel # 0
    <3>1. sep \in Seq(Nat) /\ Len(sep) \in Nat
      BY LenProperties DEF DiskType
    <3>2. QED
      BY <3>1 DEF InitReply, Reply
  <2>4. /\ resp' \in [Conn -> Seq(Reply)]
        /\ \A d \in Conn : d # c => resp'[d] = resp[d]
        /\ Len(resp'[c]) <= 1
        /\ \/ resp'[c] = << >>
           \/ c \in up /\ resp'[c] # << >> /\ Head(resp'[c]) = InitReply(1)
    BY <2>1, <2>2, <2>3, AnswerEffect DEF HandlerInit
  <2>5. QED
    BY <2>2, <2>4 DEF NetworkType, HandlerInit
<1>4. MemoryType'
  <2>1. << >> \in Seq(Nat)
    BY EmptySeq
  <2>2. chans' \in [Conn -> Seq(Nat) \union {NoChannel}]
    BY <2>1 DEF MemoryType, HandlerInit
  <2>3. QED
    BY <2>2 DEF MemoryType, HandlerInit
<1>5. DiskType'
  BY DEF DiskType, HandlerInit, disk
<1>6. OneConnection'
  BY DEF OneConnection, HandlerInit, follower
<1>7. ChannelOwned'
  <2>1. c \in Conn /\ c \in conns /\ req[c] # << >> /\ agg.pc = "idle"
    BY ConnTypes DEF HandlerInit, Receives
  <2>2. /\ req' \in [Conn -> Seq(Request)]
        /\ req' = [req EXCEPT ![c] = << >>]
        /\ Head(req[c]) \in Request
        /\ resp[c] = << >> /\ ~Busy(c)
    BY <2>1, TakeRequestEffect DEF HandlerInit
  <2>3. InitReply(1) \in Reply /\ InitReply(1).channel # 0
    <3>1. sep \in Seq(Nat) /\ Len(sep) \in Nat
      BY LenProperties DEF DiskType
    <3>2. QED
      BY <3>1 DEF InitReply, Reply
  <2>4. /\ resp' \in [Conn -> Seq(Reply)]
        /\ \A d \in Conn : d # c => resp'[d] = resp[d]
        /\ Len(resp'[c]) <= 1
        /\ \/ resp'[c] = << >>
           \/ c \in up /\ resp'[c] # << >> /\ Head(resp'[c]) = InitReply(1)
    BY <2>1, <2>2, <2>3, AnswerEffect DEF HandlerInit
  <2>5. << >> # NoChannel
    BY NoChannelAssumption, EmptySeq
  <2>6. /\ HasChannel(c)'
        /\ \A d \in Conn : d # c => (HasChannel(d)' <=> HasChannel(d))
    BY <2>1, <2>5 DEF HandlerInit, HasChannel, MemoryType
  <2>7. UNCHANGED <<conns, agg, mrg>>
    BY DEF HandlerInit, disk
  <2>8. QED
    BY <2>1, <2>6, <2>7 DEF ChannelOwned, HasChannel
<1>8. OneMessage'
  <2>1. c \in Conn /\ c \in conns /\ req[c] # << >> /\ agg.pc = "idle"
    BY ConnTypes DEF HandlerInit, Receives
  <2>2. /\ req' \in [Conn -> Seq(Request)]
        /\ req' = [req EXCEPT ![c] = << >>]
        /\ Head(req[c]) \in Request
        /\ resp[c] = << >> /\ ~Busy(c)
    BY <2>1, TakeRequestEffect DEF HandlerInit
  <2>3. InitReply(1) \in Reply /\ InitReply(1).channel # 0
    <3>1. sep \in Seq(Nat) /\ Len(sep) \in Nat
      BY LenProperties DEF DiskType
    <3>2. QED
      BY <3>1 DEF InitReply, Reply
  <2>4. /\ resp' \in [Conn -> Seq(Reply)]
        /\ \A d \in Conn : d # c => resp'[d] = resp[d]
        /\ Len(resp'[c]) <= 1
        /\ \/ resp'[c] = << >>
           \/ c \in up /\ resp'[c] # << >> /\ Head(resp'[c]) = InitReply(1)
    BY <2>1, <2>2, <2>3, AnswerEffect DEF HandlerInit
  <2>5. UNCHANGED agg /\ Len(<< >>) <= 1
    BY EmptySeq DEF HandlerInit
  <2>6. req'[c] = << >> /\ ~Busy(c)'
    BY <2>2, <2>5 DEF Busy, NetworkType
  <2>7. \A d \in Conn : d # c => req'[d] = req[d] /\ resp'[d] = resp[d]
    BY <2>2, <2>4 DEF NetworkType
  <2>8. QED
    BY <2>4, <2>5, <2>6, <2>7 DEF OneMessage, Busy
<1>9. RequestsKnown'
  <2>1. c \in Conn /\ c \in conns /\ req[c] # << >> /\ agg.pc = "idle"
    BY ConnTypes DEF HandlerInit, Receives
  <2>2. /\ req' \in [Conn -> Seq(Request)]
        /\ req' = [req EXCEPT ![c] = << >>]
        /\ Head(req[c]) \in Request
        /\ resp[c] = << >> /\ ~Busy(c)
    BY <2>1, TakeRequestEffect DEF HandlerInit
  <2>3. InitReply(1) \in Reply /\ InitReply(1).channel # 0
    <3>1. sep \in Seq(Nat) /\ Len(sep) \in Nat
      BY LenProperties DEF DiskType
    <3>2. QED
      BY <3>1 DEF InitReply, Reply
  <2>4. /\ resp' \in [Conn -> Seq(Reply)]
        /\ \A d \in Conn : d # c => resp'[d] = resp[d]
        /\ Len(resp'[c]) <= 1
        /\ \/ resp'[c] = << >>
           \/ c \in up /\ resp'[c] # << >> /\ Head(resp'[c]) = InitReply(1)
    BY <2>1, <2>2, <2>3, AnswerEffect DEF HandlerInit
  <2>5. << >> # NoChannel
    BY NoChannelAssumption, EmptySeq
  <2>6. /\ HasChannel(c)'
        /\ \A d \in Conn : d # c => (HasChannel(d)' <=> HasChannel(d))
    BY <2>1, <2>5 DEF HandlerInit, HasChannel, MemoryType
  <2>7. req'[c] = << >> /\ \A d \in Conn : d # c => req'[d] = req[d]
    BY <2>2 DEF NetworkType
  <2>8. QED
    BY <2>6, <2>7 DEF RequestsKnown
<1>10. Unused'
  BY DEF Unused, HandlerInit, Receives, Answer
<1>11. Control'
  BY DEF Control, HandlerInit, follower
<1>12. LiveControl'
  <2>1. c \in Conn /\ c \in conns /\ req[c] # << >> /\ agg.pc = "idle"
    BY ConnTypes DEF HandlerInit, Receives
  <2>2. /\ req' \in [Conn -> Seq(Request)]
        /\ req' = [req EXCEPT ![c] = << >>]
        /\ Head(req[c]) \in Request
        /\ resp[c] = << >> /\ ~Busy(c)
    BY <2>1, TakeRequestEffect DEF HandlerInit
  <2>3. InitReply(1) \in Reply /\ InitReply(1).channel # 0
    <3>1. sep \in Seq(Nat) /\ Len(sep) \in Nat
      BY LenProperties DEF DiskType
    <3>2. QED
      BY <3>1 DEF InitReply, Reply
  <2>4. /\ resp' \in [Conn -> Seq(Reply)]
        /\ \A d \in Conn : d # c => resp'[d] = resp[d]
        /\ Len(resp'[c]) <= 1
        /\ \/ resp'[c] = << >>
           \/ c \in up /\ resp'[c] # << >> /\ Head(resp'[c]) = InitReply(1)
    BY <2>1, <2>2, <2>3, AnswerEffect DEF HandlerInit
  <2>5. << >> # NoChannel
    BY NoChannelAssumption, EmptySeq
  <2>6. /\ HasChannel(c)'
        /\ \A d \in Conn : d # c => (HasChannel(d)' <=> HasChannel(d))
    BY <2>1, <2>5 DEF HandlerInit, HasChannel, MemoryType
  <2>7. pc' = pc /\ UNCHANGED <<opened, chan, up>>
    BY DEF HandlerInit, follower, network
  <2>8. /\ req'[c] = << >> /\ ~Busy(c)'
        /\ \A d \in Conn : d # c => req'[d] = req[d] /\ (Busy(d)' => Busy(d))
    BY <2>1, <2>2 DEF NetworkType, Busy, HandlerInit
  <2>9. c \in up => pc \in {"init", "data"}
    BY <2>1 DEF LiveControl, Quiet
  <2>10. ASSUME NEW d \in up, d # c
         PROVE  /\ req'[d] = req[d] /\ resp'[d] = resp[d]
                /\ (Busy(d)' => Busy(d))
                /\ (HasChannel(d)' <=> HasChannel(d))
    <3>1. d \in Conn
      BY ConnTypes
    <3>2. QED
      BY <3>1, <2>4, <2>6, <2>8, <2>10
  <2>11. ASSUME c \in up, resp'[c] # << >>
         PROVE  Head(resp'[c]).channel # 0
    BY <2>3, <2>4, <2>11
  <2>12. QED
    BY <2>6, <2>7, <2>9, <2>10, <2>11 DEF LiveControl, Quiet
<1>13. QED
  BY <1>1, <1>2, <1>3, <1>4, <1>5, <1>6, <1>7, <1>8, <1>9, <1>10, <1>11, <1>12

LEMMA HandlerDataPartProtocol ==
    ASSUME ProtocolInv, NEW c \in Conn, HandlerDataPart(c)
    PROVE  ProtocolInv'
<1> USE DEF ProtocolInv, TypeOK
<1>1. written' \in 0..MaxLen
  BY DEF HandlerDataPart
<1>2. FollowerType'
  BY DEF FollowerType, HandlerDataPart, follower
<1>3. NetworkType'
  <2>1. c \in Conn /\ c \in conns /\ req[c] # << >> /\ agg.pc = "idle"
    BY ConnTypes DEF HandlerDataPart, Receives
  <2>2. /\ req' \in [Conn -> Seq(Request)]
        /\ req' = [req EXCEPT ![c] = << >>]
        /\ Head(req[c]) \in Request
        /\ resp[c] = << >> /\ ~Busy(c)
    BY <2>1, TakeRequestEffect DEF HandlerDataPart
  <2>3. DataReply(Head(req[c]).channel) \in Reply /\ DataReply(Head(req[c]).channel).channel # 0
    <3>1. Head(req[c]).channel \in Nat
      BY <2>2 DEF Request
    <3>2. Head(req[c]).channel # 0
      BY <2>1 DEF RequestsKnown, HandlerDataPart, Receives
    <3>3. << >> \in Seq(Nat)
      BY EmptySeq
    <3>4. QED
      BY <3>1, <3>2, <3>3 DEF DataReply, Reply
  <2>4. /\ resp' \in [Conn -> Seq(Reply)]
        /\ \A d \in Conn : d # c => resp'[d] = resp[d]
        /\ Len(resp'[c]) <= 1
        /\ \/ resp'[c] = << >>
           \/ c \in up /\ resp'[c] # << >> /\ Head(resp'[c]) = DataReply(Head(req[c]).channel)
    BY <2>1, <2>2, <2>3, AnswerEffect DEF HandlerDataPart
  <2>5. QED
    BY <2>2, <2>4 DEF NetworkType, HandlerDataPart
<1>4. MemoryType'
  <2>1. c \in Conn /\ c \in conns /\ req[c] # << >> /\ agg.pc = "idle"
    BY ConnTypes DEF HandlerDataPart, Receives
  <2>2. /\ req' \in [Conn -> Seq(Request)]
        /\ req' = [req EXCEPT ![c] = << >>]
        /\ Head(req[c]) \in Request
        /\ resp[c] = << >> /\ ~Busy(c)
    BY <2>1, TakeRequestEffect DEF HandlerDataPart
  <2>3. DataReply(Head(req[c]).channel) \in Reply /\ DataReply(Head(req[c]).channel).channel # 0
    <3>1. Head(req[c]).channel \in Nat
      BY <2>2 DEF Request
    <3>2. Head(req[c]).channel # 0
      BY <2>1 DEF RequestsKnown, HandlerDataPart, Receives
    <3>3. << >> \in Seq(Nat)
      BY EmptySeq
    <3>4. QED
      BY <3>1, <3>2, <3>3 DEF DataReply, Reply
  <2>4. /\ resp' \in [Conn -> Seq(Reply)]
        /\ \A d \in Conn : d # c => resp'[d] = resp[d]
        /\ Len(resp'[c]) <= 1
        /\ \/ resp'[c] = << >>
           \/ c \in up /\ resp'[c] # << >> /\ Head(resp'[c]) = DataReply(Head(req[c]).channel)
    BY <2>1, <2>2, <2>3, AnswerEffect DEF HandlerDataPart
  <2>5. HasChannel(c)
    BY <2>1 DEF RequestsKnown, HandlerDataPart, Receives
  <2>. DEFINE s == chans[c] \o Iota(Head(req[c]).lo, Head(req[c]).hi)
  <2>6. s \in Seq(Nat)
    <3>1. Head(req[c]).lo \in Nat /\ Head(req[c]).hi \in Nat
      BY <2>2 DEF Request
    <3>2. QED
      BY <3>1, <2>1, <2>5, IotaType, ChannelText, ConcatProperties
  <2>7. chans' = [chans EXCEPT ![c] = s]
    BY DEF HandlerDataPart
  <2> HIDE DEF s
  <2>8. /\ chans' \in [Conn -> Seq(Nat) \union {NoChannel}]
        /\ \A d \in Conn : HasChannel(d)' <=> HasChannel(d)
    BY <2>1, <2>5, <2>6, <2>7, SameChannels
  <2>9. QED
    BY <2>8 DEF MemoryType, HandlerDataPart
<1>5. DiskType'
  BY DEF DiskType, HandlerDataPart, disk
<1>6. OneConnection'
  BY DEF OneConnection, HandlerDataPart, follower
<1>7. ChannelOwned'
  <2>1. c \in Conn /\ c \in conns /\ req[c] # << >> /\ agg.pc = "idle"
    BY ConnTypes DEF HandlerDataPart, Receives
  <2>2. /\ req' \in [Conn -> Seq(Request)]
        /\ req' = [req EXCEPT ![c] = << >>]
        /\ Head(req[c]) \in Request
        /\ resp[c] = << >> /\ ~Busy(c)
    BY <2>1, TakeRequestEffect DEF HandlerDataPart
  <2>3. DataReply(Head(req[c]).channel) \in Reply /\ DataReply(Head(req[c]).channel).channel # 0
    <3>1. Head(req[c]).channel \in Nat
      BY <2>2 DEF Request
    <3>2. Head(req[c]).channel # 0
      BY <2>1 DEF RequestsKnown, HandlerDataPart, Receives
    <3>3. << >> \in Seq(Nat)
      BY EmptySeq
    <3>4. QED
      BY <3>1, <3>2, <3>3 DEF DataReply, Reply
  <2>4. /\ resp' \in [Conn -> Seq(Reply)]
        /\ \A d \in Conn : d # c => resp'[d] = resp[d]
        /\ Len(resp'[c]) <= 1
        /\ \/ resp'[c] = << >>
           \/ c \in up /\ resp'[c] # << >> /\ Head(resp'[c]) = DataReply(Head(req[c]).channel)
    BY <2>1, <2>2, <2>3, AnswerEffect DEF HandlerDataPart
  <2>5. HasChannel(c)
    BY <2>1 DEF RequestsKnown, HandlerDataPart, Receives
  <2>. DEFINE s == chans[c] \o Iota(Head(req[c]).lo, Head(req[c]).hi)
  <2>6. s \in Seq(Nat)
    <3>1. Head(req[c]).lo \in Nat /\ Head(req[c]).hi \in Nat
      BY <2>2 DEF Request
    <3>2. QED
      BY <3>1, <2>1, <2>5, IotaType, ChannelText, ConcatProperties
  <2>7. chans' = [chans EXCEPT ![c] = s]
    BY DEF HandlerDataPart
  <2> HIDE DEF s
  <2>8. /\ chans' \in [Conn -> Seq(Nat) \union {NoChannel}]
        /\ \A d \in Conn : HasChannel(d)' <=> HasChannel(d)
    BY <2>1, <2>5, <2>6, <2>7, SameChannels
  <2>9. UNCHANGED <<conns, agg, mrg>>
    BY DEF HandlerDataPart, disk
  <2>10. QED
    BY <2>1, <2>8, <2>9, ConnTypes DEF ChannelOwned, HasChannel
<1>8. OneMessage'
  <2>1. c \in Conn /\ c \in conns /\ req[c] # << >> /\ agg.pc = "idle"
    BY ConnTypes DEF HandlerDataPart, Receives
  <2>2. /\ req' \in [Conn -> Seq(Request)]
        /\ req' = [req EXCEPT ![c] = << >>]
        /\ Head(req[c]) \in Request
        /\ resp[c] = << >> /\ ~Busy(c)
    BY <2>1, TakeRequestEffect DEF HandlerDataPart
  <2>3. DataReply(Head(req[c]).channel) \in Reply /\ DataReply(Head(req[c]).channel).channel # 0
    <3>1. Head(req[c]).channel \in Nat
      BY <2>2 DEF Request
    <3>2. Head(req[c]).channel # 0
      BY <2>1 DEF RequestsKnown, HandlerDataPart, Receives
    <3>3. << >> \in Seq(Nat)
      BY EmptySeq
    <3>4. QED
      BY <3>1, <3>2, <3>3 DEF DataReply, Reply
  <2>4. /\ resp' \in [Conn -> Seq(Reply)]
        /\ \A d \in Conn : d # c => resp'[d] = resp[d]
        /\ Len(resp'[c]) <= 1
        /\ \/ resp'[c] = << >>
           \/ c \in up /\ resp'[c] # << >> /\ Head(resp'[c]) = DataReply(Head(req[c]).channel)
    BY <2>1, <2>2, <2>3, AnswerEffect DEF HandlerDataPart
  <2>5. UNCHANGED agg /\ Len(<< >>) <= 1
    BY EmptySeq DEF HandlerDataPart
  <2>6. req'[c] = << >> /\ ~Busy(c)'
    BY <2>2, <2>5 DEF Busy, NetworkType
  <2>7. \A d \in Conn : d # c => req'[d] = req[d] /\ resp'[d] = resp[d]
    BY <2>2, <2>4 DEF NetworkType
  <2>8. QED
    BY <2>4, <2>5, <2>6, <2>7 DEF OneMessage, Busy
<1>9. RequestsKnown'
  <2>1. c \in Conn /\ c \in conns /\ req[c] # << >> /\ agg.pc = "idle"
    BY ConnTypes DEF HandlerDataPart, Receives
  <2>2. /\ req' \in [Conn -> Seq(Request)]
        /\ req' = [req EXCEPT ![c] = << >>]
        /\ Head(req[c]) \in Request
        /\ resp[c] = << >> /\ ~Busy(c)
    BY <2>1, TakeRequestEffect DEF HandlerDataPart
  <2>3. DataReply(Head(req[c]).channel) \in Reply /\ DataReply(Head(req[c]).channel).channel # 0
    <3>1. Head(req[c]).channel \in Nat
      BY <2>2 DEF Request
    <3>2. Head(req[c]).channel # 0
      BY <2>1 DEF RequestsKnown, HandlerDataPart, Receives
    <3>3. << >> \in Seq(Nat)
      BY EmptySeq
    <3>4. QED
      BY <3>1, <3>2, <3>3 DEF DataReply, Reply
  <2>4. /\ resp' \in [Conn -> Seq(Reply)]
        /\ \A d \in Conn : d # c => resp'[d] = resp[d]
        /\ Len(resp'[c]) <= 1
        /\ \/ resp'[c] = << >>
           \/ c \in up /\ resp'[c] # << >> /\ Head(resp'[c]) = DataReply(Head(req[c]).channel)
    BY <2>1, <2>2, <2>3, AnswerEffect DEF HandlerDataPart
  <2>5. HasChannel(c)
    BY <2>1 DEF RequestsKnown, HandlerDataPart, Receives
  <2>. DEFINE s == chans[c] \o Iota(Head(req[c]).lo, Head(req[c]).hi)
  <2>6. s \in Seq(Nat)
    <3>1. Head(req[c]).lo \in Nat /\ Head(req[c]).hi \in Nat
      BY <2>2 DEF Request
    <3>2. QED
      BY <3>1, <2>1, <2>5, IotaType, ChannelText, ConcatProperties
  <2>7. chans' = [chans EXCEPT ![c] = s]
    BY DEF HandlerDataPart
  <2> HIDE DEF s
  <2>8. /\ chans' \in [Conn -> Seq(Nat) \union {NoChannel}]
        /\ \A d \in Conn : HasChannel(d)' <=> HasChannel(d)
    BY <2>1, <2>5, <2>6, <2>7, SameChannels
  <2>9. req'[c] = << >> /\ \A d \in Conn : d # c => req'[d] = req[d]
    BY <2>2 DEF NetworkType
  <2>10. QED
    BY <2>8, <2>9 DEF RequestsKnown
<1>10. Unused'
  BY DEF Unused, HandlerDataPart, Receives, Answer
<1>11. Control'
  BY DEF Control, HandlerDataPart, follower
<1>12. LiveControl'
  <2>1. c \in Conn /\ c \in conns /\ req[c] # << >> /\ agg.pc = "idle"
    BY ConnTypes DEF HandlerDataPart, Receives
  <2>2. /\ req' \in [Conn -> Seq(Request)]
        /\ req' = [req EXCEPT ![c] = << >>]
        /\ Head(req[c]) \in Request
        /\ resp[c] = << >> /\ ~Busy(c)
    BY <2>1, TakeRequestEffect DEF HandlerDataPart
  <2>3. DataReply(Head(req[c]).channel) \in Reply /\ DataReply(Head(req[c]).channel).channel # 0
    <3>1. Head(req[c]).channel \in Nat
      BY <2>2 DEF Request
    <3>2. Head(req[c]).channel # 0
      BY <2>1 DEF RequestsKnown, HandlerDataPart, Receives
    <3>3. << >> \in Seq(Nat)
      BY EmptySeq
    <3>4. QED
      BY <3>1, <3>2, <3>3 DEF DataReply, Reply
  <2>4. /\ resp' \in [Conn -> Seq(Reply)]
        /\ \A d \in Conn : d # c => resp'[d] = resp[d]
        /\ Len(resp'[c]) <= 1
        /\ \/ resp'[c] = << >>
           \/ c \in up /\ resp'[c] # << >> /\ Head(resp'[c]) = DataReply(Head(req[c]).channel)
    BY <2>1, <2>2, <2>3, AnswerEffect DEF HandlerDataPart
  <2>5. HasChannel(c)
    BY <2>1 DEF RequestsKnown, HandlerDataPart, Receives
  <2>. DEFINE s == chans[c] \o Iota(Head(req[c]).lo, Head(req[c]).hi)
  <2>6. s \in Seq(Nat)
    <3>1. Head(req[c]).lo \in Nat /\ Head(req[c]).hi \in Nat
      BY <2>2 DEF Request
    <3>2. QED
      BY <3>1, <2>1, <2>5, IotaType, ChannelText, ConcatProperties
  <2>7. chans' = [chans EXCEPT ![c] = s]
    BY DEF HandlerDataPart
  <2> HIDE DEF s
  <2>8. /\ chans' \in [Conn -> Seq(Nat) \union {NoChannel}]
        /\ \A d \in Conn : HasChannel(d)' <=> HasChannel(d)
    BY <2>1, <2>5, <2>6, <2>7, SameChannels
  <2>9. pc' = pc /\ UNCHANGED <<opened, chan, up>>
    BY DEF HandlerDataPart, follower, network
  <2>10. /\ req'[c] = << >> /\ ~Busy(c)'
        /\ \A d \in Conn : d # c => req'[d] = req[d] /\ (Busy(d)' => Busy(d))
    BY <2>1, <2>2 DEF NetworkType, Busy, HandlerDataPart
  <2>11. c \in up => pc \in {"init", "data"}
    BY <2>1 DEF LiveControl, Quiet
  <2>12. ASSUME NEW d \in up, d # c
         PROVE  /\ req'[d] = req[d] /\ resp'[d] = resp[d]
                /\ (Busy(d)' => Busy(d))
                /\ (HasChannel(d)' <=> HasChannel(d))
    <3>1. d \in Conn
      BY ConnTypes
    <3>2. QED
      BY <3>1, <2>4, <2>8, <2>10, <2>12
  <2>13. ASSUME c \in up, resp'[c] # << >>
         PROVE  Head(resp'[c]).channel # 0
    BY <2>3, <2>4, <2>13
  <2>14. QED
    BY <2>1, <2>5, <2>8, <2>9, <2>11, <2>12, <2>13 DEF LiveControl, Quiet
<1>13. QED
  BY <1>1, <1>2, <1>3, <1>4, <1>5, <1>6, <1>7, <1>8, <1>9, <1>10, <1>11, <1>12

LEMMA HandlerDataLineProtocol ==
    ASSUME ProtocolInv, NEW c \in Conn, HandlerDataLine(c)
    PROVE  ProtocolInv'
<1> USE DEF ProtocolInv, TypeOK
<1>1. written' \in 0..MaxLen
  BY DEF HandlerDataLine
<1>2. FollowerType'
  BY DEF FollowerType, HandlerDataLine, follower
<1>3. NetworkType'
  <2>1. c \in Conn /\ c \in conns /\ req[c] # << >> /\ agg.pc = "idle"
    BY ConnTypes DEF HandlerDataLine, Receives
  <2>2. /\ req' \in [Conn -> Seq(Request)]
        /\ req' = [req EXCEPT ![c] = << >>]
        /\ Head(req[c]) \in Request
        /\ resp[c] = << >> /\ ~Busy(c)
    BY <2>1, TakeRequestEffect DEF HandlerDataLine
  <2>3. QED
    BY <2>2 DEF NetworkType, HandlerDataLine
<1>4. MemoryType'
  <2>1. c \in Conn /\ c \in conns /\ req[c] # << >> /\ agg.pc = "idle"
    BY ConnTypes DEF HandlerDataLine, Receives
  <2>2. /\ req' \in [Conn -> Seq(Request)]
        /\ req' = [req EXCEPT ![c] = << >>]
        /\ Head(req[c]) \in Request
        /\ resp[c] = << >> /\ ~Busy(c)
    BY <2>1, TakeRequestEffect DEF HandlerDataLine
  <2>3. HasChannel(c) /\ Head(req[c]).channel # 0
    BY <2>1 DEF RequestsKnown, HandlerDataLine, Receives
  <2>4. /\ agg'.pc # "idle" /\ agg'.pc \in {"merge buffer", "append buffer"}
        /\ agg'.conn = c /\ agg'.msg = Head(req[c])
        /\ agg' = [pc |-> agg'.pc, conn |-> c, msg |-> Head(req[c])]
        /\ UNCHANGED <<resp, conns, chans, mrg>>
    BY DEF HandlerDataLine, disk
  <2>5. c \in 0..MaxConn
    BY <2>1, ConnTypes DEF Conn
  <2>6. agg' \in [pc : {"idle", "merge buffer", "merge text", "append buffer",
                        "append text", "answer"},
                  conn : 0..MaxConn, msg : Request \union {NoMessage}]
    BY <2>2, <2>4, <2>5
  <2>7. QED
    BY <2>4, <2>6 DEF MemoryType, HandlerDataLine
<1>5. DiskType'
  BY DEF DiskType, HandlerDataLine, disk
<1>6. OneConnection'
  BY DEF OneConnection, HandlerDataLine, follower
<1>7. ChannelOwned'
  <2>1. c \in Conn /\ c \in conns /\ req[c] # << >> /\ agg.pc = "idle"
    BY ConnTypes DEF HandlerDataLine, Receives
  <2>2. /\ req' \in [Conn -> Seq(Request)]
        /\ req' = [req EXCEPT ![c] = << >>]
        /\ Head(req[c]) \in Request
        /\ resp[c] = << >> /\ ~Busy(c)
    BY <2>1, TakeRequestEffect DEF HandlerDataLine
  <2>3. HasChannel(c) /\ Head(req[c]).channel # 0
    BY <2>1 DEF RequestsKnown, HandlerDataLine, Receives
  <2>4. /\ agg'.pc # "idle" /\ agg'.pc \in {"merge buffer", "append buffer"}
        /\ agg'.conn = c /\ agg'.msg = Head(req[c])
        /\ agg' = [pc |-> agg'.pc, conn |-> c, msg |-> Head(req[c])]
        /\ UNCHANGED <<resp, conns, chans, mrg>>
    BY DEF HandlerDataLine, disk
  <2>5. QED
    BY <2>1, <2>2, <2>3, <2>4 DEF ChannelOwned, HasChannel
<1>8. OneMessage'
  <2>1. c \in Conn /\ c \in conns /\ req[c] # << >> /\ agg.pc = "idle"
    BY ConnTypes DEF HandlerDataLine, Receives
  <2>2. /\ req' \in [Conn -> Seq(Request)]
        /\ req' = [req EXCEPT ![c] = << >>]
        /\ Head(req[c]) \in Request
        /\ resp[c] = << >> /\ ~Busy(c)
    BY <2>1, TakeRequestEffect DEF HandlerDataLine
  <2>3. HasChannel(c) /\ Head(req[c]).channel # 0
    BY <2>1 DEF RequestsKnown, HandlerDataLine, Receives
  <2>4. /\ agg'.pc # "idle" /\ agg'.pc \in {"merge buffer", "append buffer"}
        /\ agg'.conn = c /\ agg'.msg = Head(req[c])
        /\ agg' = [pc |-> agg'.pc, conn |-> c, msg |-> Head(req[c])]
        /\ UNCHANGED <<resp, conns, chans, mrg>>
    BY DEF HandlerDataLine, disk
  <2>5. /\ req'[c] = << >> /\ Len(<< >>) = 0
        /\ \A d \in Conn : d # c => req'[d] = req[d] /\ ~Busy(d)'
    BY <2>2, <2>4, EmptySeq DEF NetworkType, Busy
  <2>6. QED
    BY <2>2, <2>4, <2>5 DEF OneMessage
<1>9. RequestsKnown'
  <2>1. c \in Conn /\ c \in conns /\ req[c] # << >> /\ agg.pc = "idle"
    BY ConnTypes DEF HandlerDataLine, Receives
  <2>2. /\ req' \in [Conn -> Seq(Request)]
        /\ req' = [req EXCEPT ![c] = << >>]
        /\ Head(req[c]) \in Request
        /\ resp[c] = << >> /\ ~Busy(c)
    BY <2>1, TakeRequestEffect DEF HandlerDataLine
  <2>3. HasChannel(c) /\ Head(req[c]).channel # 0
    BY <2>1 DEF RequestsKnown, HandlerDataLine, Receives
  <2>4. /\ agg'.pc # "idle" /\ agg'.pc \in {"merge buffer", "append buffer"}
        /\ agg'.conn = c /\ agg'.msg = Head(req[c])
        /\ agg' = [pc |-> agg'.pc, conn |-> c, msg |-> Head(req[c])]
        /\ UNCHANGED <<resp, conns, chans, mrg>>
    BY DEF HandlerDataLine, disk
  <2>5. req'[c] = << >> /\ \A d \in Conn : d # c => req'[d] = req[d]
    BY <2>2 DEF NetworkType
  <2>6. QED
    BY <2>4, <2>5 DEF RequestsKnown, HasChannel
<1>10. Unused'
  BY DEF Unused, NetworkType, HandlerDataLine, Receives
<1>11. Control'
  BY DEF Control, HandlerDataLine, follower
<1>12. LiveControl'
  <2>1. c \in Conn /\ c \in conns /\ req[c] # << >> /\ agg.pc = "idle"
    BY ConnTypes DEF HandlerDataLine, Receives
  <2>2. /\ req' \in [Conn -> Seq(Request)]
        /\ req' = [req EXCEPT ![c] = << >>]
        /\ Head(req[c]) \in Request
        /\ resp[c] = << >> /\ ~Busy(c)
    BY <2>1, TakeRequestEffect DEF HandlerDataLine
  <2>3. HasChannel(c) /\ Head(req[c]).channel # 0
    BY <2>1 DEF RequestsKnown, HandlerDataLine, Receives
  <2>4. /\ agg'.pc # "idle" /\ agg'.pc \in {"merge buffer", "append buffer"}
        /\ agg'.conn = c /\ agg'.msg = Head(req[c])
        /\ agg' = [pc |-> agg'.pc, conn |-> c, msg |-> Head(req[c])]
        /\ UNCHANGED <<resp, conns, chans, mrg>>
    BY DEF HandlerDataLine, disk
  <2>5. pc' = pc /\ UNCHANGED <<opened, chan, up>>
    BY DEF HandlerDataLine, follower
  <2>6. \A d \in Conn : d # c => req'[d] = req[d] /\ ~Busy(d)'
    BY <2>2, <2>4 DEF NetworkType, Busy
  <2>7. c \in up => pc \in {"init", "data"}
    BY <2>1 DEF LiveControl, Quiet
  <2>8. QED
    BY <2>2, <2>4, <2>5, <2>6, <2>7, ConnTypes DEF LiveControl, Quiet, HasChannel
<1>13. QED
  BY <1>1, <1>2, <1>3, <1>4, <1>5, <1>6, <1>7, <1>8, <1>9, <1>10, <1>11, <1>12

LEMMA MergeBufferProtocol ==
    ASSUME ProtocolInv, MergeBuffer
    PROVE  ProtocolInv'
<1> USE DEF ProtocolInv, TypeOK
<1>1. written' \in 0..MaxLen
  BY DEF MergeBuffer
<1>2. FollowerType'
  BY DEF FollowerType, MergeBuffer, follower, network
<1>3. NetworkType'
  BY DEF NetworkType, MergeBuffer, network
<1>4. MemoryType'
  <2>1. agg.pc # "idle" /\ << >> \in Seq(Nat)
    BY EmptySeq DEF MergeBuffer
  <2>2. agg.conn \in Conn /\ HasChannel(agg.conn)
    BY <2>1, HandlerAtWork
  <2>3. /\ chans' \in [Conn -> Seq(Nat) \union {NoChannel}]
        /\ \A d \in Conn : HasChannel(d)' <=> HasChannel(d)
    BY <2>1, <2>2, SameChannels DEF MergeBuffer
  <2>4. QED
    BY <2>3 DEF MemoryType, MergeBuffer, network
<1>5. DiskType'
  <2>1. agg.pc # "idle" /\ << >> \in Seq(Nat)
    BY EmptySeq DEF MergeBuffer
  <2>2. agg.conn \in Conn /\ HasChannel(agg.conn)
    BY <2>1, HandlerAtWork
  <2>3. /\ chans' \in [Conn -> Seq(Nat) \union {NoChannel}]
        /\ \A d \in Conn : HasChannel(d)' <=> HasChannel(d)
    BY <2>1, <2>2, SameChannels DEF MergeBuffer
  <2>4. chans[agg.conn] \in Seq(Nat)
    BY <2>2, ChannelText
  <2>5. sep \in Seq(Nat) /\ mrg \in Seq(Seq(Nat))
    BY DEF DiskType
  <2>6. /\ sep' \in Seq(Nat)
        /\ mrg' \in Seq(Seq(Nat))
    BY <2>4, <2>5, AppendProperties DEF MergeBuffer
  <2>7. QED
    BY <2>6 DEF DiskType, MergeBuffer
<1>6. OneConnection'
  BY DEF OneConnection, MergeBuffer, follower, network
<1>7. ChannelOwned'
  <2>1. agg.pc # "idle" /\ << >> \in Seq(Nat)
    BY EmptySeq DEF MergeBuffer
  <2>2. agg.conn \in Conn /\ HasChannel(agg.conn)
    BY <2>1, HandlerAtWork
  <2>3. /\ chans' \in [Conn -> Seq(Nat) \union {NoChannel}]
        /\ \A d \in Conn : HasChannel(d)' <=> HasChannel(d)
    BY <2>1, <2>2, SameChannels DEF MergeBuffer
  <2>4. /\ agg'.pc = "merge text" /\ agg'.conn = agg.conn /\ agg'.msg = agg.msg
        /\ UNCHANGED conns
    BY DEF MergeBuffer, MemoryType
  <2>5. mrg' # << >>
    <3>1. mrg \in Seq(Seq(Nat)) /\ chans[agg.conn] \in Seq(Nat)
      BY <2>2, ChannelText DEF DiskType
    <3>2. mrg' = Append(mrg, chans[agg.conn])
      BY DEF MergeBuffer
    <3>3. QED
      BY <3>1, <3>2, AppendProperties
  <2>6. QED
    BY <2>1, <2>2, <2>3, <2>4, <2>5, ConnTypes DEF ChannelOwned, HasChannel
<1>8. OneMessage'
  BY DEF OneMessage, Busy, MemoryType, MergeBuffer, network
<1>9. RequestsKnown'
  <2>1. agg.pc # "idle" /\ << >> \in Seq(Nat)
    BY EmptySeq DEF MergeBuffer
  <2>2. agg.conn \in Conn /\ HasChannel(agg.conn)
    BY <2>1, HandlerAtWork
  <2>3. /\ chans' \in [Conn -> Seq(Nat) \union {NoChannel}]
        /\ \A d \in Conn : HasChannel(d)' <=> HasChannel(d)
    BY <2>1, <2>2, SameChannels DEF MergeBuffer
  <2>4. UNCHANGED req
    BY DEF MergeBuffer, network
  <2>5. QED
    BY <2>3, <2>4 DEF RequestsKnown
<1>10. Unused'
  BY DEF Unused, MergeBuffer, network
<1>11. Control'
  BY DEF Control, MergeBuffer, follower
<1>12. LiveControl'
  <2>1. agg.pc # "idle" /\ << >> \in Seq(Nat)
    BY EmptySeq DEF MergeBuffer
  <2>2. agg.conn \in Conn /\ HasChannel(agg.conn)
    BY <2>1, HandlerAtWork
  <2>3. /\ chans' \in [Conn -> Seq(Nat) \union {NoChannel}]
        /\ \A d \in Conn : HasChannel(d)' <=> HasChannel(d)
    BY <2>1, <2>2, SameChannels DEF MergeBuffer
  <2>4. /\ agg'.pc # "idle" /\ agg'.conn = agg.conn
        /\ UNCHANGED <<pc, opened, chan, up, req, resp>>
    BY DEF MergeBuffer, MemoryType, follower, network
  <2>5. QED
    BY <2>1, <2>3, <2>4, ConnTypes DEF LiveControl, Quiet, Busy
<1>13. QED
  BY <1>1, <1>2, <1>3, <1>4, <1>5, <1>6, <1>7, <1>8, <1>9, <1>10, <1>11, <1>12

LEMMA MergeTextProtocol ==
    ASSUME ProtocolInv, MergeText
    PROVE  ProtocolInv'
<1> USE DEF ProtocolInv, TypeOK
<1>1. written' \in 0..MaxLen
  BY DEF MergeText
<1>2. FollowerType'
  BY DEF FollowerType, MergeText, follower, network
<1>3. NetworkType'
  BY DEF NetworkType, MergeText, network
<1>4. MemoryType'
  BY DEF MemoryType, MergeText, AfterMerge, network
<1>5. DiskType'
  <2>1. Text \in Seq(Nat) /\ mrg # << >>
    BY HandlerAtWork DEF MergeText, ChannelOwned
  <2>2. mrg \in Seq(Seq(Nat)) /\ Len(mrg) \in 1..Len(mrg)
    BY <2>1, EmptySeq, LenProperties DEF DiskType
  <2>3. mrg[Len(mrg)] \o Text \in Seq(Nat)
    BY <2>1, <2>2, LenProperties, ConcatProperties
  <2>4. mrg' \in Seq(Seq(Nat))
    BY <2>2, <2>3, ExceptSeq DEF MergeText
  <2>5. QED
    BY <2>4 DEF DiskType, MergeText
<1>6. OneConnection'
  BY DEF OneConnection, MergeText, follower, network
<1>7. ChannelOwned'
  BY DEF ChannelOwned, HasChannel, MemoryType, MergeText, AfterMerge
<1>8. OneMessage'
  BY DEF OneMessage, Busy, MemoryType, MergeText, network
<1>9. RequestsKnown'
  BY DEF RequestsKnown, HasChannel, MergeText, network
<1>10. Unused'
  BY DEF Unused, MergeText, network
<1>11. Control'
  BY DEF Control, MergeText, follower
<1>12. LiveControl'
  BY DEF LiveControl, OneConnection, Quiet, Busy, HasChannel, MemoryType, MergeText, follower, network
<1>13. QED
  BY <1>1, <1>2, <1>3, <1>4, <1>5, <1>6, <1>7, <1>8, <1>9, <1>10, <1>11, <1>12

LEMMA AppendBufferProtocol ==
    ASSUME ProtocolInv, AppendBuffer
    PROVE  ProtocolInv'
<1> USE DEF ProtocolInv, TypeOK
<1>1. written' \in 0..MaxLen
  BY DEF AppendBuffer
<1>2. FollowerType'
  BY DEF FollowerType, AppendBuffer, follower, network
<1>3. NetworkType'
  BY DEF NetworkType, AppendBuffer, network
<1>4. MemoryType'
  <2>1. agg.pc # "idle" /\ << >> \in Seq(Nat)
    BY EmptySeq DEF AppendBuffer
  <2>2. agg.conn \in Conn /\ HasChannel(agg.conn)
    BY <2>1, HandlerAtWork
  <2>3. /\ chans' \in [Conn -> Seq(Nat) \union {NoChannel}]
        /\ \A d \in Conn : HasChannel(d)' <=> HasChannel(d)
    BY <2>1, <2>2, SameChannels DEF AppendBuffer
  <2>4. QED
    BY <2>3 DEF MemoryType, AppendBuffer, network
<1>5. DiskType'
  <2>1. agg.pc # "idle" /\ << >> \in Seq(Nat)
    BY EmptySeq DEF AppendBuffer
  <2>2. agg.conn \in Conn /\ HasChannel(agg.conn)
    BY <2>1, HandlerAtWork
  <2>3. /\ chans' \in [Conn -> Seq(Nat) \union {NoChannel}]
        /\ \A d \in Conn : HasChannel(d)' <=> HasChannel(d)
    BY <2>1, <2>2, SameChannels DEF AppendBuffer
  <2>4. chans[agg.conn] \in Seq(Nat)
    BY <2>2, ChannelText
  <2>5. sep \in Seq(Nat) /\ mrg \in Seq(Seq(Nat))
    BY DEF DiskType
  <2>6. /\ sep' \in Seq(Nat)
        /\ mrg' \in Seq(Seq(Nat))
    BY <2>4, <2>5, ConcatProperties DEF AppendBuffer
  <2>7. QED
    BY <2>6 DEF DiskType, AppendBuffer
<1>6. OneConnection'
  BY DEF OneConnection, AppendBuffer, follower, network
<1>7. ChannelOwned'
  <2>1. agg.pc # "idle" /\ << >> \in Seq(Nat)
    BY EmptySeq DEF AppendBuffer
  <2>2. agg.conn \in Conn /\ HasChannel(agg.conn)
    BY <2>1, HandlerAtWork
  <2>3. /\ chans' \in [Conn -> Seq(Nat) \union {NoChannel}]
        /\ \A d \in Conn : HasChannel(d)' <=> HasChannel(d)
    BY <2>1, <2>2, SameChannels DEF AppendBuffer
  <2>4. /\ agg'.pc = "append text" /\ agg'.conn = agg.conn /\ agg'.msg = agg.msg
        /\ UNCHANGED conns
    BY DEF AppendBuffer, MemoryType
  <2>5. agg'.pc # "merge text"
    BY <2>4
  <2>6. QED
    BY <2>1, <2>2, <2>3, <2>4, <2>5, ConnTypes DEF ChannelOwned, HasChannel
<1>8. OneMessage'
  BY DEF OneMessage, Busy, MemoryType, AppendBuffer, network
<1>9. RequestsKnown'
  <2>1. agg.pc # "idle" /\ << >> \in Seq(Nat)
    BY EmptySeq DEF AppendBuffer
  <2>2. agg.conn \in Conn /\ HasChannel(agg.conn)
    BY <2>1, HandlerAtWork
  <2>3. /\ chans' \in [Conn -> Seq(Nat) \union {NoChannel}]
        /\ \A d \in Conn : HasChannel(d)' <=> HasChannel(d)
    BY <2>1, <2>2, SameChannels DEF AppendBuffer
  <2>4. UNCHANGED req
    BY DEF AppendBuffer, network
  <2>5. QED
    BY <2>3, <2>4 DEF RequestsKnown
<1>10. Unused'
  BY DEF Unused, AppendBuffer, network
<1>11. Control'
  BY DEF Control, AppendBuffer, follower
<1>12. LiveControl'
  <2>1. agg.pc # "idle" /\ << >> \in Seq(Nat)
    BY EmptySeq DEF AppendBuffer
  <2>2. agg.conn \in Conn /\ HasChannel(agg.conn)
    BY <2>1, HandlerAtWork
  <2>3. /\ chans' \in [Conn -> Seq(Nat) \union {NoChannel}]
        /\ \A d \in Conn : HasChannel(d)' <=> HasChannel(d)
    BY <2>1, <2>2, SameChannels DEF AppendBuffer
  <2>4. /\ agg'.pc # "idle" /\ agg'.conn = agg.conn
        /\ UNCHANGED <<pc, opened, chan, up, req, resp>>
    BY DEF AppendBuffer, MemoryType, follower, network
  <2>5. QED
    BY <2>1, <2>3, <2>4, ConnTypes DEF LiveControl, Quiet, Busy
<1>13. QED
  BY <1>1, <1>2, <1>3, <1>4, <1>5, <1>6, <1>7, <1>8, <1>9, <1>10, <1>11, <1>12

LEMMA AppendTextProtocol ==
    ASSUME ProtocolInv, AppendText
    PROVE  ProtocolInv'
<1> USE DEF ProtocolInv, TypeOK
<1>1. written' \in 0..MaxLen
  BY DEF AppendText
<1>2. FollowerType'
  BY DEF FollowerType, AppendText, follower, network
<1>3. NetworkType'
  BY DEF NetworkType, AppendText, network
<1>4. MemoryType'
  BY DEF MemoryType, AppendText, network
<1>5. DiskType'
  <2>1. Text \in Seq(Nat)
    BY HandlerAtWork DEF AppendText
  <2>2. sep' \in Seq(Nat)
    BY <2>1, ConcatProperties DEF DiskType, AppendText
  <2>3. QED
    BY <2>2 DEF DiskType, AppendText
<1>6. OneConnection'
  BY DEF OneConnection, AppendText, follower, network
<1>7. ChannelOwned'
  BY DEF ChannelOwned, HasChannel, MemoryType, AppendText
<1>8. OneMessage'
  BY DEF OneMessage, Busy, MemoryType, AppendText, network
<1>9. RequestsKnown'
  BY DEF RequestsKnown, HasChannel, AppendText, network
<1>10. Unused'
  BY DEF Unused, AppendText, network
<1>11. Control'
  BY DEF Control, AppendText, follower
<1>12. LiveControl'
  BY DEF LiveControl, OneConnection, Quiet, Busy, HasChannel, MemoryType, AppendText, follower, network
<1>13. QED
  BY <1>1, <1>2, <1>3, <1>4, <1>5, <1>6, <1>7, <1>8, <1>9, <1>10, <1>11, <1>12

LEMMA WriteFailsProtocol ==
    ASSUME ProtocolInv, WriteFails
    PROVE  ProtocolInv'
<1> USE DEF ProtocolInv, TypeOK
<1>1. written' \in 0..MaxLen
  BY DEF WriteFails
<1>2. FollowerType'
  BY DEF FollowerType, WriteFails, follower, network
<1>3. NetworkType'
  BY DEF NetworkType, WriteFails, network
<1>4. MemoryType'
  BY DEF MemoryType, WriteFails, AfterMerge, network
<1>5. DiskType'
  BY DEF DiskType, WriteFails, disk
<1>6. OneConnection'
  BY DEF OneConnection, WriteFails, follower, network
<1>7. ChannelOwned'
  BY DEF ChannelOwned, HasChannel, MemoryType, WriteFails, AfterMerge, disk
<1>8. OneMessage'
  BY DEF OneMessage, Busy, MemoryType, WriteFails, network
<1>9. RequestsKnown'
  BY DEF RequestsKnown, HasChannel, WriteFails, network
<1>10. Unused'
  BY DEF Unused, WriteFails, network
<1>11. Control'
  BY DEF Control, WriteFails, follower
<1>12. LiveControl'
  BY DEF LiveControl, OneConnection, Quiet, Busy, HasChannel, MemoryType, WriteFails, follower, network
<1>13. QED
  BY <1>1, <1>2, <1>3, <1>4, <1>5, <1>6, <1>7, <1>8, <1>9, <1>10, <1>11, <1>12

LEMMA AnswerDataProtocol ==
    ASSUME ProtocolInv, AnswerData
    PROVE  ProtocolInv'
<1> USE DEF ProtocolInv, TypeOK
<1>1. written' \in 0..MaxLen
  BY DEF AnswerData
<1>2. FollowerType'
  BY DEF FollowerType, AnswerData, follower
<1>3. NetworkType'
  <2> DEFINE c == agg.conn
            r == DataReply(agg.msg.channel)
  <2>1. /\ c \in Conn /\ HasChannel(c) /\ agg.pc # "idle"
        /\ agg.msg \in Request /\ agg.msg.channel # 0
        /\ req[c] = << >> /\ resp[c] = << >>
    BY HandlerAtWork DEF AnswerData
  <2>2. r \in Reply /\ r.channel # 0
    <3>1. << >> \in Seq(Nat) /\ agg.msg.channel \in Nat
      BY <2>1, EmptySeq DEF Request
    <3>2. QED
      BY <3>1, <2>1 DEF DataReply, Reply
  <2> HIDE DEF c, r
  <2>3. Answer(c, r)
    BY DEF AnswerData, c, r
  <2>4. /\ resp' \in [Conn -> Seq(Reply)]
        /\ \A d \in Conn : d # c => resp'[d] = resp[d]
        /\ Len(resp'[c]) <= 1
        /\ \/ resp'[c] = << >>
           \/ c \in up /\ resp'[c] # << >> /\ Head(resp'[c]) = r
    BY <2>1, <2>2, <2>3, AnswerEffect
  <2>5. /\ \A d \in Conn : ~Busy(d)'
        /\ \A d \in Conn : Busy(d) => d = c
        /\ UNCHANGED <<req, chans, pc, opened, chan, up>>
    BY DEF AnswerData, MemoryType, Busy, follower, c
  <2>6. QED
    BY <2>4 DEF NetworkType, AnswerData
<1>4. MemoryType'
  BY DEF MemoryType, AnswerData
<1>5. DiskType'
  BY DEF DiskType, AnswerData, disk
<1>6. OneConnection'
  BY DEF OneConnection, AnswerData, follower
<1>7. ChannelOwned'
  BY DEF ChannelOwned, AnswerData, disk
<1>8. OneMessage'
  <2> DEFINE c == agg.conn
            r == DataReply(agg.msg.channel)
  <2>1. /\ c \in Conn /\ HasChannel(c) /\ agg.pc # "idle"
        /\ agg.msg \in Request /\ agg.msg.channel # 0
        /\ req[c] = << >> /\ resp[c] = << >>
    BY HandlerAtWork DEF AnswerData
  <2>2. r \in Reply /\ r.channel # 0
    <3>1. << >> \in Seq(Nat) /\ agg.msg.channel \in Nat
      BY <2>1, EmptySeq DEF Request
    <3>2. QED
      BY <3>1, <2>1 DEF DataReply, Reply
  <2> HIDE DEF c, r
  <2>3. Answer(c, r)
    BY DEF AnswerData, c, r
  <2>4. /\ resp' \in [Conn -> Seq(Reply)]
        /\ \A d \in Conn : d # c => resp'[d] = resp[d]
        /\ Len(resp'[c]) <= 1
        /\ \/ resp'[c] = << >>
           \/ c \in up /\ resp'[c] # << >> /\ Head(resp'[c]) = r
    BY <2>1, <2>2, <2>3, AnswerEffect
  <2>5. /\ \A d \in Conn : ~Busy(d)'
        /\ \A d \in Conn : Busy(d) => d = c
        /\ UNCHANGED <<req, chans, pc, opened, chan, up>>
    BY DEF AnswerData, MemoryType, Busy, follower, c
  <2>6. QED
    BY <2>1, <2>4, <2>5 DEF OneMessage
<1>9. RequestsKnown'
  BY DEF RequestsKnown, HasChannel, AnswerData
<1>10. Unused'
  BY DEF Unused, NetworkType, AnswerData, Answer
<1>11. Control'
  BY DEF Control, AnswerData, follower
<1>12. LiveControl'
  <2> DEFINE c == agg.conn
            r == DataReply(agg.msg.channel)
  <2>1. /\ c \in Conn /\ HasChannel(c) /\ agg.pc # "idle"
        /\ agg.msg \in Request /\ agg.msg.channel # 0
        /\ req[c] = << >> /\ resp[c] = << >>
    BY HandlerAtWork DEF AnswerData
  <2>2. r \in Reply /\ r.channel # 0
    <3>1. << >> \in Seq(Nat) /\ agg.msg.channel \in Nat
      BY <2>1, EmptySeq DEF Request
    <3>2. QED
      BY <3>1, <2>1 DEF DataReply, Reply
  <2> HIDE DEF c, r
  <2>3. Answer(c, r)
    BY DEF AnswerData, c, r
  <2>4. /\ resp' \in [Conn -> Seq(Reply)]
        /\ \A d \in Conn : d # c => resp'[d] = resp[d]
        /\ Len(resp'[c]) <= 1
        /\ \/ resp'[c] = << >>
           \/ c \in up /\ resp'[c] # << >> /\ Head(resp'[c]) = r
    BY <2>1, <2>2, <2>3, AnswerEffect
  <2>5. /\ \A d \in Conn : ~Busy(d)'
        /\ \A d \in Conn : Busy(d) => d = c
        /\ UNCHANGED <<req, chans, pc, opened, chan, up>>
    BY DEF AnswerData, MemoryType, Busy, follower, c
  <2>6. c \in up => pc \in {"init", "data"}
    BY <2>1 DEF LiveControl, Quiet, Busy, c
  <2>7. QED
    BY <2>1, <2>2, <2>4, <2>5, <2>6, ConnTypes DEF LiveControl, Quiet, HasChannel
<1>13. QED
  BY <1>1, <1>2, <1>3, <1>4, <1>5, <1>6, <1>7, <1>8, <1>9, <1>10, <1>11, <1>12

LEMMA CloseConnectionProtocol ==
    ASSUME ProtocolInv, NEW c \in Conn, CloseConnection(c)
    PROVE  ProtocolInv'
<1> USE DEF ProtocolInv, TypeOK
<1>1. written' \in 0..MaxLen
  BY DEF CloseConnection
<1>2. FollowerType'
  BY DEF FollowerType, CloseConnection, follower, network
<1>3. NetworkType'
  BY DEF NetworkType, CloseConnection, network
<1>4. MemoryType'
  BY DEF MemoryType, CloseConnection, network
<1>5. DiskType'
  BY DEF DiskType, CloseConnection, disk
<1>6. OneConnection'
  BY DEF OneConnection, CloseConnection, follower, network
<1>7. ChannelOwned'
  BY DEF ChannelOwned, HasChannel, MemoryType, CloseConnection, disk
<1>8. OneMessage'
  BY DEF OneMessage, Busy, CloseConnection, network
<1>9. RequestsKnown'
  BY DEF RequestsKnown, HasChannel, CloseConnection, network
<1>10. Unused'
  BY DEF Unused, CloseConnection, network
<1>11. Control'
  BY DEF Control, CloseConnection, follower
<1>12. LiveControl'
  <2>1. /\ \A d \in Conn : d # c => chans'[d] = chans[d]
        /\ c \notin up
        /\ UNCHANGED <<up, req, resp, pc, opened, chan, agg>>
    BY DEF CloseConnection, follower, network, MemoryType
  <2>2. QED
    BY <2>1, ConnTypes DEF LiveControl, HasChannel, Quiet, Busy
<1>13. QED
  BY <1>1, <1>2, <1>3, <1>4, <1>5, <1>6, <1>7, <1>8, <1>9, <1>10, <1>11, <1>12

LEMMA BreakProtocol ==
    ASSUME ProtocolInv, NEW c \in Conn, Break(c)
    PROVE  ProtocolInv'
<1> USE DEF ProtocolInv, TypeOK
<1>1. written' \in 0..MaxLen
  BY DEF Break
<1>2. FollowerType'
  BY DEF FollowerType, Break, follower
<1>3. NetworkType'
  <2>1. << >> \in Seq(Request) /\ << >> \in Seq(Reply)
    BY EmptySeq
  <2>2. req' \in [Conn -> Seq(Request)]
    BY <2>1 DEF NetworkType, Break
  <2>3. resp' \in [Conn -> Seq(Reply)]
    BY <2>1 DEF NetworkType, Break
  <2>4. QED
    BY <2>2, <2>3 DEF NetworkType, Break
<1>4. MemoryType'
  BY DEF MemoryType, Break, memory
<1>5. DiskType'
  BY DEF DiskType, Break, disk
<1>6. OneConnection'
  BY DEF OneConnection, Break, follower
<1>7. ChannelOwned'
  BY DEF ChannelOwned, HasChannel, Break, memory, disk
<1>8. OneMessage'
  BY DEF OneMessage, Busy, Break, memory
<1>9. RequestsKnown'
  BY DEF RequestsKnown, HasChannel, Break, memory
<1>10. Unused'
  BY DEF Unused, Break
<1>11. Control'
  BY DEF Control, Break, follower
<1>12. LiveControl'
  BY DEF LiveControl, Quiet, Busy, HasChannel, Break, follower, memory
<1>13. QED
  BY <1>1, <1>2, <1>3, <1>4, <1>5, <1>6, <1>7, <1>8, <1>9, <1>10, <1>11, <1>12

LEMMA FollowerRestartsProtocol ==
    ASSUME ProtocolInv, FollowerRestarts
    PROVE  ProtocolInv'
<1> USE DEF ProtocolInv, TypeOK
<1>1. written' \in 0..MaxLen
  BY DEF FollowerRestarts
<1>2. FollowerType'
  <2>1. /\ pc' = "reconnect" /\ sock' = 0 /\ opened' = FALSE /\ fpos' = 0
        /\ buf' = [lo |-> 0, hi |-> 0] /\ msgbuf' = NoMessage /\ chan' = 0
    BY DEF FollowerRestarts
  <2>2. sock' \in 0..nconn'
    BY <2>1, ConnTypes DEF FollowerRestarts
  <2>3. QED
    BY <2>1, <2>2 DEF FollowerType
<1>3. NetworkType'
  BY DEF NetworkType, FollowerRestarts
<1>4. MemoryType'
  BY DEF MemoryType, FollowerRestarts, memory
<1>5. DiskType'
  BY DEF DiskType, FollowerRestarts, disk
<1>6. OneConnection'
  BY DEF OneConnection, FollowerRestarts
<1>7. ChannelOwned'
  BY DEF ChannelOwned, HasChannel, FollowerRestarts, memory, disk
<1>8. OneMessage'
  BY DEF OneMessage, Busy, FollowerRestarts, memory
<1>9. RequestsKnown'
  BY DEF RequestsKnown, HasChannel, FollowerRestarts, memory
<1>10. Unused'
  BY DEF Unused, FollowerRestarts
<1>11. Control'
  BY DEF Control, FollowerRestarts
<1>12. LiveControl'
  BY DEF LiveControl, FollowerRestarts, memory
<1>13. QED
  BY <1>1, <1>2, <1>3, <1>4, <1>5, <1>6, <1>7, <1>8, <1>9, <1>10, <1>11, <1>12

LEMMA AggregatorRestartsProtocol ==
    ASSUME ProtocolInv, AggregatorRestarts
    PROVE  ProtocolInv'
<1> USE DEF ProtocolInv, TypeOK
<1>1. written' \in 0..MaxLen
  BY DEF AggregatorRestarts
<1>2. FollowerType'
  BY DEF FollowerType, AggregatorRestarts, follower
<1>3. NetworkType'
  BY DEF NetworkType, AggregatorRestarts
<1>4. MemoryType'
  <2>1. 0 \in 0..MaxConn
    BY ConnTypes
  <2>2. agg' \in [pc : {"idle", "merge buffer", "merge text", "append buffer",
                        "append text", "answer"},
                  conn : 0..MaxConn, msg : Request \union {NoMessage}]
    BY <2>1 DEF AggregatorRestarts
  <2>3. conns' = {} /\ chans' = [d \in Conn |-> NoChannel]
    BY DEF AggregatorRestarts
  <2>4. chans' \in [Conn -> Seq(Nat) \union {NoChannel}]
    BY <2>3
  <2>5. QED
    BY <2>2, <2>3, <2>4 DEF MemoryType
<1>5. DiskType'
  BY DEF DiskType, AggregatorRestarts, disk
<1>6. OneConnection'
  BY DEF OneConnection, AggregatorRestarts, follower
<1>7. ChannelOwned'
  BY DEF ChannelOwned, AggregatorRestarts, disk
<1>8. OneMessage'
  BY DEF OneMessage, Busy, AggregatorRestarts
<1>9. RequestsKnown'
  BY DEF RequestsKnown, AggregatorRestarts
<1>10. Unused'
  BY DEF Unused, AggregatorRestarts
<1>11. Control'
  BY DEF Control, AggregatorRestarts, follower
<1>12. LiveControl'
  BY DEF LiveControl, AggregatorRestarts, follower
<1>13. QED
  BY <1>1, <1>2, <1>3, <1>4, <1>5, <1>6, <1>7, <1>8, <1>9, <1>10, <1>11, <1>12

LEMMA ProtocolInit ==
    ASSUME Init
    PROVE  ProtocolInv
<1>1. /\ MaxConn \in Nat /\ 0 \in 0..nconn /\ 0 \in 0..MaxConn /\ nconn \in 0..MaxConn
  BY SizesAssumption DEF Init
<1>2. /\ << >> \in Seq(Request) /\ << >> \in Seq(Reply)
      /\ << >> \in Seq(Nat) /\ << >> \in Seq(Seq(Nat)) /\ Len(<< >>) <= 1
  BY EmptySeq
<1>3. FollowerType
  BY <1>1 DEF Init, FollowerType
<1>4. NetworkType
  BY <1>1, <1>2 DEF Init, NetworkType
<1>5. MemoryType
  BY <1>1 DEF Init, MemoryType
<1>6. DiskType /\ written \in 0..MaxLen
  BY <1>2 DEF Init, DiskType
<1>7. OneConnection /\ ChannelOwned /\ RequestsKnown /\ Unused
  BY DEF Init, OneConnection, ChannelOwned, RequestsKnown, Unused
<1>8. OneMessage
  BY <1>2 DEF Init, OneMessage
<1>9. Control /\ LiveControl
  BY DEF Init, Control, LiveControl
<1>10. QED
  BY <1>3, <1>4, <1>5, <1>6, <1>7, <1>8, <1>9 DEF ProtocolInv, TypeOK

LEMMA ProtocolStep ==
    ASSUME ProtocolInv, [Next]_vars
    PROVE  ProtocolInv'
<1>1. CASE Write
  BY <1>1, WriteProtocol
<1>2. CASE FollowerStep
  BY <1>2, MustReconnectProtocol, OpenFileProtocol, InitAnsweredProtocol,
     InitFailsProtocol, HashInvalidProtocol, ReadLineProtocol,
     NothingToReadProtocol, SendDataProtocol, DataAnsweredProtocol,
     DataFailsProtocol, ReconnectFailsProtocol DEF FollowerStep
<1>3. CASE Reconnect
  BY <1>3, ReconnectProtocol
<1>4. CASE HandlerStep
  BY <1>4, MergeBufferProtocol, MergeTextProtocol, AppendBufferProtocol,
     AppendTextProtocol, AnswerDataProtocol DEF HandlerStep
<1>5. CASE WriteFails
  BY <1>5, WriteFailsProtocol
<1>6. ASSUME NEW c \in Conn, EventStep(c) \/ Break(c)
      PROVE  ProtocolInv'
  BY <1>6, AcceptProtocol, CloseConnectionProtocol, HandlerInitProtocol,
     HandlerDataPartProtocol, HandlerDataLineProtocol, BreakProtocol DEF EventStep
<1>7. CASE FollowerRestarts
  BY <1>7, FollowerRestartsProtocol
<1>8. CASE AggregatorRestarts
  BY <1>8, AggregatorRestartsProtocol
<1>9. CASE UNCHANGED vars
  <2>1. TypeOK'
    BY <1>9 DEF ProtocolInv, TypeOK, FollowerType, NetworkType, MemoryType,
                DiskType, vars, follower, network, memory, disk
  <2>2. OneConnection' /\ ChannelOwned' /\ OneMessage' /\ RequestsKnown'
    BY <1>9 DEF ProtocolInv, OneConnection, ChannelOwned, OneMessage,
                RequestsKnown, HasChannel, Busy,
                vars, follower, network, memory, disk
  <2>3. Unused' /\ Control' /\ LiveControl'
    BY <1>9 DEF ProtocolInv, Unused, Control, LiveControl, Quiet, HasChannel,
                Busy, vars, follower, network, memory, disk
  <2>4. QED
    BY <2>1, <2>2, <2>3 DEF ProtocolInv
<1>10. QED
  BY <1>1, <1>2, <1>3, <1>4, <1>5, <1>6, <1>7, <1>8, <1>9 DEF Next

(* The protocol invariant holds in every configuration, whatever fails. *)
THEOREM ProtocolInvariant == Spec => []ProtocolInv
<1>1. Init => ProtocolInv
  BY ProtocolInit
<1>2. ProtocolInv /\ [Next]_vars => ProtocolInv'
  BY ProtocolStep
<1>3. QED
  BY <1>1, <1>2, PTL DEF Spec

(* Every variable keeps its type. *)
THEOREM TypeCorrect == Spec => []TypeOK
<1>1. ProtocolInv => TypeOK
  BY DEF ProtocolInv
<1>2. QED
  BY <1>1, ProtocolInvariant, PTL

(* At most one message of a connection exists at a time (do_receive reads one *)
(* message for each edge epoll reports).                                      *)
THEOREM StopAndWaitHolds == Spec => []StopAndWait
<1>1. ASSUME ProtocolInv
      PROVE  StopAndWait
  <2>1. TypeOK /\ OneMessage
    BY <1>1 DEF ProtocolInv
  <2>2. ASSUME NEW c \in Conn
        PROVE  Len(req[c]) + Len(resp[c])
               + (IF agg.pc # "idle" /\ agg.conn = c THEN 1 ELSE 0) <= 1
    <3> DEFINE m == Len(req[c])
               n == Len(resp[c])
               b == IF agg.pc # "idle" /\ agg.conn = c THEN 1 ELSE 0
    <3>1. req[c] \in Seq(Request) /\ resp[c] \in Seq(Reply)
      BY <2>1 DEF TypeOK, NetworkType
    <3>2. /\ m \in Nat
          /\ n \in Nat
          /\ req[c] = << >> => m = 0
          /\ resp[c] = << >> => n = 0
      BY <3>1, LenProperties, EmptySeq
    <3>3. /\ m <= 1
          /\ n <= 1
          /\ req[c] # << >> => (resp[c] = << >> /\ ~Busy(c))
          /\ resp[c] # << >> => ~Busy(c)
      BY <2>1 DEF OneMessage
    <3>4. b \in {0, 1} /\ (b = 1 => Busy(c))
      BY DEF Busy
    <3> HIDE DEF m, n, b
    <3>5. m + n + b <= 1
      BY <3>2, <3>3, <3>4
    <3>6. QED
      BY <3>5 DEF m, n, b
  <2>3. QED
    BY <2>2 DEF StopAndWait
<1>2. QED
  BY <1>1, ProtocolInvariant, PTL

(* A DATA finds its channel and an INIT finds none, so do_receive's lookup of *)
(* an unknown channel is never reached by one follower context.               *)
THEOREM ChannelKnownHolds == Spec => []ChannelKnown
<1>1. ProtocolInv => ChannelKnown
  BY DEF ProtocolInv, RequestsKnown, ChannelKnown, HasChannel
<1>2. QED
  BY <1>1, ProtocolInvariant, PTL

==============================================================================
