------------------------------ MODULE CopyProofs ------------------------------
(***************************************************************************)
(* What is proved about the separate file, for every value of the          *)
(* constants that makes the transfer Reliable: the aggregator writes       *)
(* separate files only, its opens succeed, and what an abandoned           *)
(* connection left behind is read before newer connections are.            *)
(*                                                                         *)
(* Connections still break and both processes still die at any moment.     *)
(* The invariant CopyInv says where the next byte of the log stands: in    *)
(* the file, in the channel's buffer, in the message under way or in the   *)
(* follower's buffer, each part continuing the one before.                 *)
(***************************************************************************)
EXTENDS TransferProofs

Reliable == Modes = {"separate"} /\ InOrder /\ ~MayFail

(* The same of one behaviour: it writes separate files, whatever others do. *)
Copying == mode = "separate" /\ InOrder /\ ~MayFail

(* The text held back for connection c continues the separate file up to *)
(* byte n of the log.                                                     *)
Aligned(c, n) == /\ chans[c] = Iota(Len(sep), n)
                 /\ Len(sep) <= n
                 /\ n <= written

(* Once a connection has a channel, no older one has anything to say. *)
NewestSpeaks ==
    \A c, d \in Conn : c < d /\ HasChannel(d) => req[c] = << >> /\ ~Busy(c)

(* The text of a message. *)
Piece(m) == m.lo <= m.hi /\ m.hi <= written

PendingAligned ==
    \A c \in Conn : req[c] # << >> /\ Head(req[c]).code = "DATA" =>
        Piece(Head(req[c])) /\ Aligned(c, Head(req[c]).lo)

HandlerAligned ==
    agg.pc # "idle" =>
        /\ Piece(agg.msg)
        /\ \/ agg.pc = "append buffer" /\ Aligned(agg.conn, agg.msg.lo)
           \/ /\ agg.pc = "append text"
              /\ chans[agg.conn] = << >>
              /\ Len(sep) = agg.msg.lo
           \/ /\ agg.pc = "answer"
              /\ chans[agg.conn] = << >>
              /\ Len(sep) = agg.msg.hi

ReplyMatches == \A c \in Conn : resp[c] # << >> => HashMatches(Head(resp[c]))

BufferFits == /\ buf.lo <= buf.hi
              /\ buf.hi <= written
              /\ ~opened \/ pc = "init" => buf.lo = buf.hi
              /\ up # {} /\ buf.lo < buf.hi => fpos = buf.hi

(* Where the text of live connection c stands, by the follower's control. *)
ReadAligned(c) == pc = "read" \/ (pc = "run" /\ opened) => Aligned(c, Unread)

SendAligned(c) == pc = "send" => /\ Piece(msgbuf)
                                 /\ Aligned(c, msgbuf.lo)
                                 /\ msgbuf.hi = Unread

InitAligned(c) == pc = "init" =>
                      /\ ~Busy(c)
                      /\ req[c] # << >> => Head(req[c]).code = "INIT"
                      /\ resp[c] # << >> => chans[c] = << >>
                                            /\ Head(resp[c]).pos = Len(sep)

DataAligned(c) == pc = "data" =>
                      /\ msgbuf.hi = Unread
                      /\ req[c] # << >> => Head(req[c]) = msgbuf
                      /\ Busy(c) => agg.msg = msgbuf
                      /\ resp[c] # << >> => Aligned(c, Unread)

FollowerAligned ==
    \A c \in up : /\ ReadAligned(c)
                  /\ SendAligned(c)
                  /\ InitAligned(c)
                  /\ DataAligned(c)

CopyInv == /\ SepPrefix
           /\ HashAgrees
           /\ NewestSpeaks
           /\ PendingAligned
           /\ HandlerAligned
           /\ ReplyMatches
           /\ BufferFits
           /\ FollowerAligned
----------------------------------------------------------------------------
(* Who may speak. *)

LEMMA LiveConnection ==
    ASSUME ProtocolInv, NEW c \in up
    PROVE  c = sock /\ sock # 0 /\ c = nconn /\ c \in Conn
<1>1. TypeOK /\ sock \in {0, nconn} /\ up \subseteq {sock}
  BY DEF ProtocolInv, OneConnection
<1>2. 0 \notin up /\ up \subseteq Conn
  BY <1>1, ConnTypes
<1>3. QED
  BY <1>1, <1>2

LEMMA OthersSilent ==
    ASSUME ProtocolInv, NewestSpeaks, NEW c \in up, HasChannel(c),
           NEW d \in Conn, d # c
    PROVE  req[d] = << >> /\ ~Busy(d)
<1>1. c = nconn /\ c \in Conn
  BY LiveConnection
<1>2. TypeOK /\ ChannelOwned /\ Unused
  BY DEF ProtocolInv
<1>3. nconn \in Nat /\ conns \subseteq 1..nconn /\ MaxConn \in Nat
  BY <1>2, ConnTypes
<1>4. CASE d < c
  BY <1>1, <1>4 DEF NewestSpeaks
<1>5. CASE d > c
  <2>1. req[d] = << >>
    BY <1>1, <1>2, <1>5 DEF Unused
  <2>2. ~Busy(d)
    <3>1. Busy(d) => d \in 1..nconn
      BY <1>2, <1>3 DEF ChannelOwned, Busy
    <3>2. QED
      BY <1>1, <1>3, <1>5, <3>1
  <2>3. QED
    BY <2>1, <2>2
<1>6. c \in Int /\ d \in Int
  BY <1>1, <1>3 DEF Conn
<1>7. QED
  BY <1>4, <1>5, <1>6

(* A live connection the follower reads or sends on has its channel. *)
LEMMA LiveChannel ==
    ASSUME ProtocolInv, NEW c \in up
    PROVE  /\ pc \in {"read", "send", "data"} \/ (pc = "run" /\ opened) =>
                 HasChannel(c)
           /\ pc = "init" /\ resp[c] # << >> => HasChannel(c)
           /\ pc \notin {"init", "data"} =>
                 req[c] = << >> /\ resp[c] = << >> /\ ~Busy(c)
BY DEF ProtocolInv, LiveControl, Quiet

LEMMA SeparateOnly ==
    ASSUME Copying
    PROVE  mode = "separate" /\ FSeparate /\ ~FMerge
<1>1. mode = "separate"
  BY DEF Copying
<1>2. QED
  BY <1>1 DEF FSeparate, FMerge

(* The file and the text that continues it. *)
LEMMA IotaExtend ==
    ASSUME NEW a \in Nat, NEW b \in Nat, a <= b
    PROVE  Iota(0, a) \o Iota(a, b) = Iota(0, b)
<1>1. 0 \in Nat /\ 0 <= a
  OBVIOUS
<1>2. QED
  BY <1>1, IotaConcat

----------------------------------------------------------------------------
(* What a step leaves alone stays aligned. *)

LEMMA AggregatorSame ==
    ASSUME SepPrefix, NewestSpeaks, PendingAligned, HandlerAligned,
           UNCHANGED <<written, req, chans, agg, sep>>
    PROVE  SepPrefix' /\ NewestSpeaks' /\ PendingAligned' /\ HandlerAligned'
<1>1. SepPrefix'
  BY DEF SepPrefix
<1>2. NewestSpeaks'
  BY DEF NewestSpeaks, HasChannel, Busy
<1>3. PendingAligned'
  BY DEF PendingAligned, Aligned, Piece
<1>4. HandlerAligned'
  BY DEF HandlerAligned, Aligned, Piece
<1>5. QED
  BY <1>1, <1>2, <1>3, <1>4

LEMMA RepliesSame ==
    ASSUME ReplyMatches, UNCHANGED <<written, resp>>
    PROVE  ReplyMatches'
BY DEF ReplyMatches, HashMatches

(* A message is sent. *)
LEMMA Sent ==
    ASSUME ProtocolInv, SepPrefix, NewestSpeaks, PendingAligned, HandlerAligned,
           \A c \in up : Quiet(c),
           NEW m \in Request, SendSucceeds(m),
           m.code = "DATA" => \A c \in up : Piece(m) /\ Aligned(c, m.lo),
           UNCHANGED <<written, chans, agg, sep>>
    PROVE  SepPrefix' /\ NewestSpeaks' /\ PendingAligned' /\ HandlerAligned'
<1>1. TypeOK /\ OneConnection /\ ChannelOwned
  BY DEF ProtocolInv
<1>2. \A c \in Conn : \/ req'[c] = req[c]
                      \/ c \in up /\ req'[c] # << >> /\ Head(req'[c]) = m
  BY <1>1, SendEffect
<1>3. SepPrefix'
  BY DEF SepPrefix
<1>4. NewestSpeaks'
  <2> SUFFICES ASSUME NEW c \in Conn, NEW d \in Conn, c < d, HasChannel(d)'
               PROVE  req'[c] = << >> /\ ~Busy(c)'
    BY DEF NewestSpeaks
  <2>1. HasChannel(d)
    BY DEF HasChannel
  <2>2. req[c] = << >> /\ ~Busy(c)
    BY <2>1 DEF NewestSpeaks
  <2>3. c \notin up
    <3>1. nconn \in Nat /\ conns \subseteq 1..nconn
      BY <1>1, ConnTypes
    <3>2. d \in 1..nconn
      BY <1>1, <2>1, <3>1 DEF ChannelOwned, HasChannel
    <3>3. c \in up => c = nconn
      BY LiveConnection
    <3>4. QED
      BY <3>1, <3>2, <3>3
  <2>4. QED
    BY <1>2, <2>2, <2>3 DEF Busy
<1>5. PendingAligned'
  <2> SUFFICES ASSUME NEW c \in Conn, req'[c] # << >>, Head(req'[c]).code = "DATA"
               PROVE  Piece(Head(req[c]))' /\ Aligned(c, Head(req[c]).lo)'
    BY DEF PendingAligned, Piece, Aligned
  <2>1. Piece(Head(req'[c])) /\ Aligned(c, Head(req'[c]).lo)
    BY <1>2 DEF PendingAligned
  <2>2. QED
    BY <2>1 DEF Piece, Aligned
<1>6. HandlerAligned'
  BY DEF HandlerAligned, Aligned, Piece
<1>7. QED
  BY <1>3, <1>4, <1>5, <1>6

(* An answer is taken. *)
LEMMA ReplyTaken ==
    ASSUME TypeOK, OneMessage, ReplyMatches, NEW c \in Conn, resp[c] # << >>,
           resp' = [resp EXCEPT ![c] = Tail(@)], UNCHANGED written
    PROVE  ReplyMatches'
<1>1. resp' = [resp EXCEPT ![c] = << >>] /\ resp \in [Conn -> Seq(Reply)]
  BY TakeReplyEffect DEF TypeOK, NetworkType
<1>2. \A d \in Conn : resp'[d] # << >> => resp'[d] = resp[d]
  BY <1>1
<1>3. QED
  BY <1>2 DEF ReplyMatches, HashMatches

----------------------------------------------------------------------------
(* The invariant survives each step of the application and the follower. *)

LEMMA WriteCopy ==
    ASSUME ProtocolInv, CopyInv, Write
    PROVE  CopyInv'
<1>1. /\ written \in Nat /\ written' \in Nat /\ written < written'
      /\ UNCHANGED <<pc, sock, opened, fpos, buf, msgbuf, chan>>
      /\ UNCHANGED <<nconn, up, req, resp>>
      /\ UNCHANGED <<conns, chans, agg>>
      /\ UNCHANGED <<mode, sep, mrg>>
  <2>1. written \in 0..MaxLen /\ MaxLen \in Nat
    BY ConnTypes DEF ProtocolInv, TypeOK
  <2>2. QED
    BY <2>1 DEF Write, follower, network, memory, disk
<1>2. Len(sep) \in Nat
  BY LenProperties DEF ProtocolInv, TypeOK, DiskType
<1>3. \A c, n : Aligned(c, n) /\ n \in Nat => Aligned(c, n)'
  BY <1>1 DEF Aligned
<1>4. \A m \in Request : Piece(m) => Piece(m)'
  BY <1>1 DEF Piece, Request
<1>5. SepPrefix'
  BY <1>1, <1>2 DEF CopyInv, SepPrefix
<1>6. HashAgrees'
  BY <1>1 DEF CopyInv, HashAgrees
<1>7. NewestSpeaks'
  BY <1>1 DEF CopyInv, NewestSpeaks, HasChannel, Busy
<1>8. PendingAligned'
  <2> SUFFICES ASSUME NEW c \in Conn, req[c] # << >>, Head(req[c]).code = "DATA"
               PROVE  Piece(Head(req[c]))' /\ Aligned(c, Head(req[c]).lo)'
    BY <1>1 DEF PendingAligned
  <2>1. Head(req[c]) \in Request
    BY TakeOne DEF ProtocolInv, TypeOK, NetworkType, OneMessage
  <2>2. Head(req[c]).lo \in Nat
    BY <2>1 DEF Request
  <2>3. Piece(Head(req[c])) /\ Aligned(c, Head(req[c]).lo)
    BY DEF CopyInv, PendingAligned
  <2>4. QED
    BY <1>1, <1>3, <1>4, <2>1, <2>2, <2>3 DEF Piece, Aligned
<1>9. HandlerAligned'
  <2> SUFFICES ASSUME agg.pc # "idle"
               PROVE  HandlerAligned'
    BY <1>1 DEF HandlerAligned
  <2>1. agg.msg \in Request
    BY DEF ProtocolInv, ChannelOwned
  <2>2. agg.msg.lo \in Nat
    BY <2>1 DEF Request
  <2>3. HandlerAligned
    BY DEF CopyInv
  <2>4. Piece(agg.msg)'
    BY <1>1, <1>4, <2>1, <2>3 DEF HandlerAligned, Piece
  <2>5. Aligned(agg.conn, agg.msg.lo) => Aligned(agg.conn, agg.msg.lo)'
    BY <1>1, <1>3, <2>2 DEF Aligned
  <2>6. QED
    BY <1>1, <2>3, <2>4, <2>5 DEF HandlerAligned
<1>10. ReplyMatches'
  <2> SUFFICES ASSUME NEW c \in Conn, resp[c] # << >>
               PROVE  HashMatches(Head(resp[c]))'
    BY <1>1 DEF ReplyMatches
  <2>1. Head(resp[c]) \in Reply
    BY TakeOne DEF ProtocolInv, TypeOK, NetworkType, OneMessage
  <2>2. Head(resp[c]).pos \in Nat
    BY <2>1 DEF Reply
  <2>3. HashMatches(Head(resp[c]))
    BY DEF CopyInv, ReplyMatches
  <2>4. QED
    BY <1>1, <2>2, <2>3 DEF HashMatches
<1>11. BufferFits'
  <2>1. buf.hi \in Nat
    BY DEF ProtocolInv, TypeOK, FollowerType
  <2>2. QED
    BY <1>1, <2>1 DEF CopyInv, BufferFits
<1>12. FollowerAligned'
  <2> SUFFICES ASSUME NEW c \in up
               PROVE  /\ ReadAligned(c)'
                      /\ SendAligned(c)'
                      /\ InitAligned(c)'
                      /\ DataAligned(c)'
    BY <1>1 DEF FollowerAligned
  <2>1. /\ ReadAligned(c) /\ SendAligned(c)
        /\ InitAligned(c) /\ DataAligned(c)
    BY DEF CopyInv, FollowerAligned
  <2>2. Unread \in Nat /\ Unread' = Unread
    BY <1>1 DEF Unread, ProtocolInv, TypeOK, FollowerType
  <2>3. Aligned(c, Unread) => Aligned(c, Unread)'
    BY <1>1, <1>3, <2>2 DEF Aligned
  <2>4. ReadAligned(c)'
    BY <1>1, <2>1, <2>3 DEF ReadAligned
  <2>5. SendAligned(c)'
    <3>1. CASE pc = "send"
      <4>1. msgbuf \in Request
        BY <3>1 DEF ProtocolInv, Control
      <4>2. msgbuf.lo \in Nat
        BY <4>1 DEF Request
      <4>3. Piece(msgbuf)' /\ Aligned(c, msgbuf.lo)'
        BY <1>1, <1>3, <1>4, <2>1, <3>1, <4>1, <4>2 DEF SendAligned, Piece, Aligned
      <4>4. QED
        BY <1>1, <2>1, <2>2, <3>1, <4>3 DEF SendAligned
    <3>2. CASE pc # "send"
      BY <1>1, <3>2 DEF SendAligned
    <3>3. QED
      BY <3>1, <3>2
  <2>6. InitAligned(c)'
    BY <1>1, <2>1 DEF InitAligned, Busy
  <2>7. DataAligned(c)'
    BY <1>1, <2>1, <2>2, <2>3 DEF DataAligned, Busy
  <2>8. QED
    BY <2>4, <2>5, <2>6, <2>7
<1>13. QED
  BY <1>5, <1>6, <1>7, <1>8, <1>9, <1>10, <1>11, <1>12 DEF CopyInv

LEMMA ResetCopy ==
    ASSUME ProtocolInv, CopyInv, ResetContext, up = {},
           UNCHANGED <<written, req, resp, memory, disk>>
    PROVE  CopyInv'
<1>1. UNCHANGED <<written, req, resp, chans, agg, sep>>
  BY DEF memory, disk
<1>2. SepPrefix' /\ NewestSpeaks' /\ PendingAligned' /\ HandlerAligned'
  BY <1>1, AggregatorSame DEF CopyInv
<1>3. HashAgrees' /\ ReplyMatches'
  BY <1>1, RepliesSame DEF CopyInv, HashAgrees, ResetContext
<1>4. BufferFits'
  <2>1. written \in Nat
    BY ConnTypes DEF ProtocolInv, TypeOK
  <2>2. QED
    BY <1>1, <2>1 DEF BufferFits, ResetContext
<1>5. FollowerAligned'
  BY DEF FollowerAligned, ReadAligned, SendAligned, InitAligned, DataAligned,
         ResetContext
<1>6. QED
  BY <1>2, <1>3, <1>4, <1>5 DEF CopyInv

LEMMA ReconnectCopy ==
    ASSUME ProtocolInv, CopyInv, Reconnect \/ ReconnectFails
    PROVE  CopyInv'
<1>1. up = {}
  BY DEF ProtocolInv, OneConnection, Reconnect, ReconnectFails
<1>2. ResetContext /\ UNCHANGED <<written, req, resp, memory, disk>>
  BY DEF Reconnect, ReconnectFails, network
<1>3. QED
  BY <1>1, <1>2, ResetCopy

(* A step that leaves the connections dead, or the follower without a file. *)
LEMMA NothingToAlign ==
    ASSUME ProtocolInv, CopyInv,
           up = {} \/ (pc' = "run" /\ ~opened'),
           UNCHANGED <<up, resp>>
    PROVE  FollowerAligned'
BY DEF FollowerAligned, ReadAligned, SendAligned, InitAligned, DataAligned

LEMMA MustReconnectCopy ==
    ASSUME ProtocolInv, CopyInv, MustReconnect
    PROVE  CopyInv'
<1>1. /\ UNCHANGED <<written, sock, opened, fpos, buf, msgbuf, up, req, resp>>
      /\ UNCHANGED <<chans, agg, sep>>
      /\ pc' = "reconnect"
  BY DEF MustReconnect, network, memory, disk
<1>2. up = {}
  BY LiveConnection DEF MustReconnect
<1>3. SepPrefix' /\ NewestSpeaks' /\ PendingAligned' /\ HandlerAligned'
  BY <1>1, AggregatorSame DEF CopyInv
<1>4. HashAgrees' /\ ReplyMatches'
  BY <1>1, RepliesSame DEF CopyInv, HashAgrees
<1>5. BufferFits'
  BY <1>1 DEF CopyInv, BufferFits
<1>6. FollowerAligned'
  BY <1>1, <1>2, NothingToAlign
<1>7. QED
  BY <1>3, <1>4, <1>5, <1>6 DEF CopyInv

LEMMA OpenFileCopy ==
    ASSUME ProtocolInv, CopyInv, OpenFile
    PROVE  CopyInv'
<1>1. /\ pc = "run" /\ sock # 0 /\ ~opened /\ opened' /\ fpos' = 0
      /\ UNCHANGED <<written, buf, msgbuf, up, resp>>
      /\ UNCHANGED <<chans, agg, sep>>
  BY DEF OpenFile, memory, disk
<1>2. \A c \in up : Quiet(c)
  BY <1>1 DEF ProtocolInv, LiveControl
<1>3. buf.lo = buf.hi /\ buf.lo <= buf.hi /\ buf.hi <= written
  BY <1>1 DEF CopyInv, BufferFits
<1>4. BufferFits'
  <2>1. buf.lo \in Nat /\ buf.hi \in Nat
    BY DEF ProtocolInv, TypeOK, FollowerType
  <2>2. QED
    BY <1>1, <1>3, <2>1 DEF BufferFits
<1>5. ReplyMatches'
  BY <1>1, RepliesSame DEF CopyInv
<1>6. CASE SendSucceeds(InitMessage) /\ pc' = "init"
  <2>1. InitMessage \in Request /\ InitMessage.code # "DATA"
    BY DEF InitMessage, Request
  <2>2. SepPrefix' /\ NewestSpeaks' /\ PendingAligned' /\ HandlerAligned'
    BY <1>1, <1>2, <1>6, <2>1, Sent DEF CopyInv
  <2>3. FollowerAligned'
    <3> SUFFICES ASSUME NEW c \in up
                 PROVE  InitAligned(c)'
      BY <1>1, <1>6 DEF FollowerAligned, ReadAligned, SendAligned, DataAligned
    <3>1. TypeOK /\ OneConnection /\ c \in Conn
      BY LiveConnection DEF ProtocolInv
    <3>2. req'[c] = req[c] \/ Head(req'[c]) = InitMessage
      BY <1>2, <1>6, <2>1, <3>1, SendEffect
    <3>3. Quiet(c) /\ InitMessage.code = "INIT"
      BY <1>2 DEF InitMessage
    <3>4. ~Busy(c)' /\ resp'[c] = << >>
      BY <1>1, <3>3 DEF Quiet, Busy
    <3>5. QED
      BY <3>2, <3>3, <3>4 DEF InitAligned, Quiet
  <2>4. QED
    BY <1>4, <1>5, <1>6, <2>2, <2>3 DEF CopyInv, HashAgrees
<1>7. CASE SendFails /\ pc' = "read"
  <2>1. up = {}
    BY <1>7, LiveConnection DEF SendFails
  <2>2. SepPrefix' /\ NewestSpeaks' /\ PendingAligned' /\ HandlerAligned'
    BY <1>1, <1>7, AggregatorSame DEF CopyInv, SendFails
  <2>3. FollowerAligned'
    BY <1>1, <2>1, NothingToAlign
  <2>4. QED
    BY <1>4, <1>5, <1>7, <2>2, <2>3 DEF CopyInv, HashAgrees
<1>8. QED
  BY <1>6, <1>7 DEF OpenFile

LEMMA InitAnsweredCopy ==
    ASSUME ProtocolInv, CopyInv, InitAnswered
    PROVE  CopyInv'
<1>1. /\ pc \in {"init", "init again"} /\ sock # 0 /\ resp[sock] # << >>
      /\ fpos' = Head(resp[sock]).pos
      /\ resp' = [resp EXCEPT ![sock] = Tail(@)]
      /\ pc' = AfterInit
      /\ UNCHANGED <<written, opened, buf, msgbuf, up, req>>
      /\ UNCHANGED <<chans, agg, sep>>
  BY DEF InitAnswered, memory, disk
<1>2. TypeOK /\ OneMessage /\ sock \in Conn
  BY <1>1, ConnTypes DEF ProtocolInv
<1>3. pc' \in {"read", "send"} /\ (pc' = "read" => pc = "init")
  BY <1>1 DEF AfterInit
<1>4. SepPrefix' /\ NewestSpeaks' /\ PendingAligned' /\ HandlerAligned'
  BY <1>1, AggregatorSame DEF CopyInv
<1>5. ReplyMatches'
  BY <1>1, <1>2, ReplyTaken DEF CopyInv
<1>6. pc = "init again" => up = {}
  BY DEF ProtocolInv, OneConnection
<1>7. buf.lo \in Nat /\ buf.hi \in Nat
  BY <1>2 DEF TypeOK, FollowerType
<1>8. BufferFits'
  <2>1. BufferFits
    BY DEF CopyInv
  <2>2. opened' /\ pc' # "init"
    BY <1>1, <1>3 DEF ProtocolInv, Control
  <2>3. up # {} => buf.lo = buf.hi
    BY <1>1, <1>6, <2>1 DEF BufferFits
  <2>4. up' = up /\ buf' = buf /\ written' = written
    BY <1>1
  <2>5. QED
    BY <1>7, <2>1, <2>2, <2>3, <2>4 DEF BufferFits
<1>9. FollowerAligned'
  <2> SUFFICES ASSUME NEW c \in up
               PROVE  ReadAligned(c)' /\ pc' = "read"
    BY <1>1 DEF FollowerAligned, SendAligned, InitAligned, DataAligned
  <2>1. pc = "init" /\ c = sock
    BY <1>1, <1>6, LiveConnection
  <2>2. chans[c] = << >> /\ fpos' = Len(sep)
    BY <1>1, <2>1 DEF CopyInv, FollowerAligned, InitAligned
  <2>3. buf.lo = buf.hi
    BY <2>1 DEF CopyInv, BufferFits
  <2>4. /\ buf' = buf /\ written' = written
        /\ chans' = chans /\ sep' = sep
    BY <1>1
  <2>5. Unread' = Len(sep)
    BY <1>7, <2>2, <2>3, <2>4 DEF Unread
  <2>6. Len(sep) \in Nat /\ Len(sep) <= written
    BY <1>2, LenProperties DEF TypeOK, DiskType, CopyInv, SepPrefix
  <2>7. chans[c] = Iota(Len(sep), Len(sep))
    BY <2>2, <2>6, IotaEmpty
  <2>8. Aligned(c, Unread)'
    BY <2>5, <2>6, <2>7, <2>4 DEF Aligned
  <2>9. QED
    BY <1>1, <2>1, <2>8 DEF ReadAligned, AfterInit
<1>10. QED
  BY <1>3, <1>4, <1>5, <1>8, <1>9 DEF CopyInv, HashAgrees

LEMMA HashInvalidCopy ==
    ASSUME ProtocolInv, CopyInv
    PROVE  ~HashInvalid
<1> SUFFICES ASSUME HashInvalid
             PROVE  FALSE
  OBVIOUS
<1>1. sock # 0 /\ resp[sock] # << >> /\ ~HashMatches(Head(resp[sock]))
  BY DEF HashInvalid
<1>2. sock \in Conn
  BY <1>1, ConnTypes DEF ProtocolInv
<1>3. QED
  BY <1>1, <1>2 DEF CopyInv, ReplyMatches

(* An answer that does not come means that the connection is dead. *)
LEMMA FailsCopy ==
    ASSUME ProtocolInv, CopyInv, InitFails \/ DataFails
    PROVE  CopyInv'
<1>1. /\ UNCHANGED <<written, opened, fpos, buf, up, req, resp>>
      /\ UNCHANGED <<chans, agg, sep>>
      /\ pc' \in {"read", "send", "reconnect"}
      /\ sock \notin up
  BY DEF InitFails, DataFails, ReceiveFails, AfterInit, network, memory, disk
<1>2. up = {}
  BY <1>1, LiveConnection
<1>3. SepPrefix' /\ NewestSpeaks' /\ PendingAligned' /\ HandlerAligned'
  BY <1>1, AggregatorSame DEF CopyInv
<1>4. HashAgrees' /\ ReplyMatches'
  BY <1>1, RepliesSame DEF CopyInv, HashAgrees
<1>5. BufferFits'
  BY <1>1 DEF CopyInv, BufferFits
<1>6. FollowerAligned'
  BY <1>1, <1>2, NothingToAlign
<1>7. QED
  BY <1>3, <1>4, <1>5, <1>6 DEF CopyInv

LEMMA NothingToReadCopy ==
    ASSUME ProtocolInv, CopyInv, NothingToRead
    PROVE  CopyInv'
<1>1. /\ UNCHANGED <<written, opened, fpos, buf, msgbuf, up, req, resp>>
      /\ UNCHANGED <<chans, agg, sep>>
      /\ pc = "read" /\ pc' = "run"
  BY DEF NothingToRead, network, memory, disk
<1>2. SepPrefix' /\ NewestSpeaks' /\ PendingAligned' /\ HandlerAligned'
  BY <1>1, AggregatorSame DEF CopyInv
<1>3. HashAgrees' /\ ReplyMatches'
  BY <1>1, RepliesSame DEF CopyInv, HashAgrees
<1>4. BufferFits'
  BY <1>1 DEF CopyInv, BufferFits
<1>5. FollowerAligned'
  BY <1>1 DEF CopyInv, FollowerAligned, ReadAligned, SendAligned, InitAligned,
              DataAligned, Aligned, Unread
<1>6. QED
  BY <1>2, <1>3, <1>4, <1>5 DEF CopyInv

(* The piece read is the next one. *)
LEMMA ReadLineEffect ==
    ASSUME ProtocolInv, CopyInv, ReadLine
    PROVE  /\ Unread = msgbuf'.lo
           /\ msgbuf'.lo \in Nat
           /\ msgbuf'.hi \in Nat
           /\ Piece(msgbuf')
           /\ buf' \in [lo : Nat, hi : Nat]
           /\ buf'.lo = msgbuf'.hi
           /\ buf'.lo <= buf'.hi
           /\ buf'.hi <= written
           /\ up # {} => fpos' = buf'.hi
<1>1. TypeOK /\ BufferFits
  BY DEF ProtocolInv, CopyInv
<1>2. buf \in [lo : Nat, hi : Nat] /\ fpos \in Nat /\ written \in Nat
  <2>1. written \in 0..MaxLen /\ MaxLen \in Nat
    BY <1>1, ConnTypes DEF TypeOK
  <2>2. written \in Nat
    BY <2>1
  <2>3. QED
    BY <1>1, <2>2 DEF TypeOK, FollowerType
<1>3. Fetched \in [lo : Nat, hi : Nat]
  BY <1>1, FetchedType
<1> DEFINE f == Fetched
<1>4. f.lo = Unread
  BY <1>1, <1>2 DEF Fetched, Unread, BufferFits
<1>5. f.hi <= written
  <2>1. CASE buf.lo < buf.hi
    BY <1>1, <2>1 DEF Fetched, BufferFits
  <2>2. CASE ~(buf.lo < buf.hi)
    <3>1. fpos + BufSize \in Nat
      BY <1>1, <1>2, ConnTypes
    <3>2. f.hi = Smaller(fpos + BufSize, written)
      BY <2>2 DEF Fetched
    <3>3. QED
      BY <1>2, <3>1, <3>2 DEF Smaller
  <2>3. QED
    BY <2>1, <2>2
<1>6. fpos' = IF buf.lo < buf.hi THEN fpos ELSE f.hi
  BY DEF ReadLine
<1>7. up # {} => fpos' = f.hi
  BY <1>1, <1>6 DEF Fetched, BufferFits
<1>8. PICK e \in (f.lo + 1)..f.hi :
          /\ EndsPiece(e, f.lo, f.hi)
          /\ buf' = [f EXCEPT !.lo = e]
          /\ msgbuf' = [code |-> "DATA", channel |-> chan,
                        lo |-> f.lo, hi |-> e, eol |-> e \in LineEnds]
  BY DEF ReadLine
<1> HIDE DEF f
<1>9. f \in [lo : Nat, hi : Nat]
  BY <1>3 DEF f
<1>10. /\ e \in Nat /\ f.lo \in Nat /\ f.hi \in Nat
       /\ f.lo <= e /\ e <= f.hi /\ e <= written
  BY <1>2, <1>5, <1>9
<1>11. buf' \in [lo : Nat, hi : Nat] /\ buf'.lo = e /\ buf'.hi = f.hi
  BY <1>8, <1>9, <1>10
<1>12. msgbuf'.lo = f.lo /\ msgbuf'.hi = e
  BY <1>8
<1>13. QED
  BY <1>4, <1>5, <1>7, <1>10, <1>11, <1>12 DEF Piece, f

LEMMA ReadLineCopy ==
    ASSUME ProtocolInv, CopyInv, ReadLine
    PROVE  CopyInv'
<1>1. /\ AtRead
      /\ UNCHANGED <<written, opened, chan, up, resp>>
      /\ UNCHANGED <<chans, agg, sep>>
  BY DEF ReadLine, memory, disk
<1>2. \/ chan # 0 /\ pc' = "send" /\ UNCHANGED <<sock, req>>
      \/ chan = 0 /\ SendSucceeds(InitMessage) /\ pc' = "init again"
      \/ chan = 0 /\ SendFails /\ pc' = "send"
  BY DEF ReadLine
<1>3. pc \in {"read", "run"} /\ opened /\ (pc = "run" => opened)
  BY <1>1 DEF AtRead, ProtocolInv, Control
<1>4. \A c \in up : Quiet(c) /\ chan # 0
  BY <1>3 DEF ProtocolInv, LiveControl
<1>5. SepPrefix' /\ NewestSpeaks' /\ PendingAligned' /\ HandlerAligned'
  <2>1. CASE UNCHANGED req
    BY <1>1, <2>1, AggregatorSame DEF CopyInv
  <2>2. CASE SendSucceeds(InitMessage)
    <3>1. InitMessage \in Request /\ InitMessage.code # "DATA"
      BY DEF InitMessage, Request
    <3>2. QED
      BY <1>1, <1>4, <2>2, <3>1, Sent DEF CopyInv
  <2>3. QED
    BY <1>2, <2>1, <2>2 DEF SendFails
<1>6. HashAgrees'
  BY <1>2 DEF HashAgrees
<1>7. ReplyMatches'
  BY <1>1, RepliesSame DEF CopyInv
<1>8. BufferFits'
  <2>1. opened' /\ pc' # "init" /\ up' = up /\ written' = written
    BY <1>1, <1>2, <1>3
  <2>2. QED
    BY <2>1, ReadLineEffect DEF BufferFits
<1>9. FollowerAligned'
  <2> SUFFICES ASSUME NEW c \in up
               PROVE  SendAligned(c)' /\ pc' = "send"
    BY <1>1 DEF FollowerAligned, ReadAligned, InitAligned, DataAligned
  <2>1. pc' = "send"
    BY <1>2, <1>4
  <2>2. Aligned(c, Unread)
    BY <1>3 DEF CopyInv, FollowerAligned, ReadAligned
  <2>3. written' = written /\ chans' = chans /\ sep' = sep
    BY <1>1
  <2>4. Aligned(c, msgbuf.lo)'
    BY <2>2, <2>3, ReadLineEffect DEF Aligned
  <2>5. Piece(msgbuf)'
    BY <2>3, ReadLineEffect DEF Piece
  <2>6. Unread' = msgbuf'.hi
    <3>1. /\ buf' \in [lo : Nat, hi : Nat]
          /\ buf'.lo = msgbuf'.hi
          /\ buf'.lo <= buf'.hi
          /\ fpos' = buf'.hi
      BY ReadLineEffect
    <3>2. QED
      BY <3>1 DEF Unread
  <2>7. QED
    BY <2>1, <2>4, <2>5, <2>6 DEF SendAligned
<1>10. QED
  BY <1>5, <1>6, <1>7, <1>8, <1>9 DEF CopyInv

LEMMA SendDataCopy ==
    ASSUME ProtocolInv, CopyInv, SendData
    PROVE  CopyInv'
<1> DEFINE m == [msgbuf EXCEPT !.channel = chan]
<1>1. /\ pc = "send"
      /\ msgbuf' = m
      /\ UNCHANGED <<written, opened, fpos, buf, chan, up, resp>>
      /\ UNCHANGED <<chans, agg, sep>>
  BY DEF SendData, memory, disk
<1>2. \/ SendSucceeds(m) /\ pc' = "data"
      \/ SendFails /\ pc' = "reconnect"
  BY DEF SendData
<1>3. msgbuf \in Request /\ opened /\ chan \in Nat
  BY <1>1 DEF ProtocolInv, Control, TypeOK, FollowerType
<1>4. m \in Request /\ m.lo = msgbuf.lo /\ m.hi = msgbuf.hi
  BY <1>3 DEF Request
<1> HIDE DEF m
<1>5. \A c \in up : Quiet(c) /\ SendAligned(c)
  BY <1>1 DEF ProtocolInv, LiveControl, CopyInv, FollowerAligned
<1>6. \A c \in up : Piece(m) /\ Aligned(c, m.lo) /\ m.hi = Unread
  BY <1>1, <1>4, <1>5 DEF SendAligned, Piece
<1>7. HashAgrees' /\ ReplyMatches'
  BY <1>1, <1>2, RepliesSame DEF CopyInv, HashAgrees
<1>8. BufferFits'
  BY <1>1, <1>2, <1>3 DEF CopyInv, BufferFits
<1>9. CASE SendSucceeds(m) /\ pc' = "data"
  <2>1. SepPrefix' /\ NewestSpeaks' /\ PendingAligned' /\ HandlerAligned'
    BY <1>1, <1>4, <1>5, <1>6, <1>9, Sent DEF CopyInv
  <2>2. FollowerAligned'
    <3> SUFFICES ASSUME NEW c \in up
                 PROVE  DataAligned(c)'
      BY <1>1, <1>9 DEF FollowerAligned, ReadAligned, SendAligned, InitAligned
    <3>1. m.hi = Unread' /\ Quiet(c)
      BY <1>1, <1>5, <1>6 DEF Unread
    <3>2. req'[c] # << >> => Head(req'[c]) = m
      <4>1. TypeOK /\ OneConnection /\ c \in Conn
        BY LiveConnection DEF ProtocolInv
      <4>2. req[c] = << >>
        BY <3>1 DEF Quiet
      <4>3. \/ req'[c] = req[c]
            \/ Head(req'[c]) = m
        BY <1>4, <1>5, <1>9, <4>1, SendEffect
      <4>4. QED
        BY <4>2, <4>3
    <3>3. QED
      BY <1>1, <3>1, <3>2 DEF DataAligned, Quiet, Busy
  <2>3. QED
    BY <1>7, <1>8, <2>1, <2>2 DEF CopyInv
<1>10. CASE SendFails /\ pc' = "reconnect"
  <2>1. up = {}
    BY <1>10, LiveConnection DEF SendFails
  <2>2. SepPrefix' /\ NewestSpeaks' /\ PendingAligned' /\ HandlerAligned'
    BY <1>1, <1>10, AggregatorSame DEF CopyInv, SendFails
  <2>3. FollowerAligned'
    BY <1>1, <2>1, NothingToAlign
  <2>4. QED
    BY <1>7, <1>8, <2>2, <2>3 DEF CopyInv
<1>11. QED
  BY <1>2, <1>9, <1>10

LEMMA DataAnsweredCopy ==
    ASSUME ProtocolInv, CopyInv, DataAnswered
    PROVE  CopyInv'
<1>1. /\ pc = "data" /\ sock # 0 /\ resp[sock] # << >>
      /\ resp' = [resp EXCEPT ![sock] = Tail(@)]
      /\ pc' = "run"
      /\ UNCHANGED <<written, opened, fpos, buf, chan, up, req>>
      /\ UNCHANGED <<chans, agg, sep>>
  BY DEF DataAnswered, memory, disk
<1>2. TypeOK /\ OneMessage /\ sock \in Conn
  BY <1>1, ConnTypes DEF ProtocolInv
<1>3. SepPrefix' /\ NewestSpeaks' /\ PendingAligned' /\ HandlerAligned'
  BY <1>1, AggregatorSame DEF CopyInv
<1>4. HashAgrees' /\ ReplyMatches'
  BY <1>1, <1>2, ReplyTaken DEF CopyInv, HashAgrees
<1>5. BufferFits'
  <2>1. opened' /\ pc' # "init"
    BY <1>1 DEF ProtocolInv, Control
  <2>2. up' = up /\ buf' = buf /\ written' = written /\ fpos' = fpos
    BY <1>1
  <2>3. QED
    BY <2>1, <2>2 DEF CopyInv, BufferFits
<1>6. FollowerAligned'
  <2> SUFFICES ASSUME NEW c \in up
               PROVE  ReadAligned(c)'
    BY <1>1 DEF FollowerAligned, SendAligned, InitAligned, DataAligned
  <2>1. c = sock
    BY LiveConnection
  <2>2. DataAligned(c)
    BY DEF CopyInv, FollowerAligned
  <2>3. Aligned(c, Unread)
    BY <1>1, <2>1, <2>2 DEF DataAligned
  <2>4. Aligned(c, Unread)'
    BY <1>1, <2>3 DEF Aligned, Unread
  <2>5. QED
    BY <2>4 DEF ReadAligned
<1>7. QED
  BY <1>3, <1>4, <1>5, <1>6 DEF CopyInv

----------------------------------------------------------------------------
(* The invariant survives each step of the aggregator. *)

(* What the step does not touch stays aligned for a live connection. *)
LEMMA SameAligned ==
    ASSUME ProtocolInv, CopyInv, NEW c \in up,
           UNCHANGED <<written, pc, opened, fpos, buf, msgbuf>>,
           HasChannel(c) => chans'[c] = chans[c] /\ sep' = sep,
           req'[c] = req[c], resp'[c] = resp[c],
           Busy(c)' => Busy(c) /\ agg'.msg = agg.msg
    PROVE  /\ ReadAligned(c)'
           /\ SendAligned(c)'
           /\ InitAligned(c)'
           /\ DataAligned(c)'
<1>1. /\ ReadAligned(c) /\ SendAligned(c)
      /\ InitAligned(c) /\ DataAligned(c)
  BY DEF CopyInv, FollowerAligned
<1>2. Unread' = Unread
  BY DEF Unread
<1>3. HasChannel(c) => \A n : Aligned(c, n) => Aligned(c, n)'
  BY DEF Aligned
<1>4. CASE HasChannel(c)
  <2>1. ReadAligned(c)'
    BY <1>1, <1>2, <1>4 DEF ReadAligned, Aligned
  <2>2. SendAligned(c)'
    BY <1>1, <1>2, <1>4 DEF SendAligned, Aligned, Piece
  <2>3. InitAligned(c)'
    BY <1>1, <1>4 DEF InitAligned
  <2>4. DataAligned(c)'
    BY <1>1, <1>2, <1>4 DEF DataAligned, Aligned
  <2>5. QED
    BY <2>1, <2>2, <2>3, <2>4
<1>5. CASE ~HasChannel(c)
  <2>1. /\ pc \notin {"read", "send", "data"}
        /\ ~(pc = "run" /\ opened)
        /\ pc = "init" => resp[c] = << >>
    BY <1>5, LiveChannel
  <2>2. ReadAligned(c)' /\ SendAligned(c)' /\ DataAligned(c)'
    BY <2>1 DEF ReadAligned, SendAligned, DataAligned
  <2>3. InitAligned(c)'
    BY <1>1, <2>1 DEF InitAligned
  <2>4. QED
    BY <2>2, <2>3
<1>6. QED
  BY <1>4, <1>5

(* The follower and the log stay as they are in every step of the aggregator. *)
LEMMA FollowerSame ==
    ASSUME CopyInv, UNCHANGED <<written, follower, up>>
    PROVE  HashAgrees' /\ BufferFits'
<1>1. UNCHANGED <<pc, opened, fpos, buf>>
  BY DEF follower
<1>2. QED
  BY <1>1 DEF CopyInv, HashAgrees, BufferFits

(* An answer is given. *)
LEMMA ReplyGiven ==
    ASSUME TypeOK, ReplyMatches, NEW c \in Conn, resp[c] = << >>,
           NEW r \in Reply, HashMatches(r), Answer(c, r), UNCHANGED written
    PROVE  ReplyMatches'
<1>1. /\ \A d \in Conn : d # c => resp'[d] = resp[d]
      /\ resp'[c] # << >> => Head(resp'[c]) = r
  BY AnswerEffect
<1>2. ASSUME NEW d \in Conn, resp'[d] # << >>
      PROVE  HashMatches(Head(resp'[d]))
  BY <1>1, <1>2 DEF ReplyMatches
<1>3. QED
  BY <1>2 DEF ReplyMatches, HashMatches

LEMMA RepliesMatch ==
    ASSUME ProtocolInv, SepPrefix, NEW id \in Nat
    PROVE  /\ HashMatches(InitReply(id)) /\ InitReply(id) \in Reply
           /\ HashMatches(DataReply(id)) /\ DataReply(id) \in Reply
<1>1. sep \in Seq(Nat) /\ Len(sep) \in Nat /\ << >> \in Seq(Nat)
  BY LenProperties, EmptySeq DEF ProtocolInv, TypeOK, DiskType
<1>2. written \in Nat
  <2>1. written \in 0..MaxLen /\ MaxLen \in Nat
    BY ConnTypes DEF ProtocolInv, TypeOK
  <2>2. QED
    BY <2>1
<1>3. InitReply(id) \in Reply /\ DataReply(id) \in Reply
  BY <1>1 DEF InitReply, DataReply, Reply
<1>4. HashMatches(InitReply(id))
  BY DEF HashMatches, InitReply, SepPrefix
<1>5. Iota(0, 0) = << >>
  BY IotaEmpty
<1>6. HashMatches(DataReply(id))
  BY <1>2, <1>5 DEF HashMatches, DataReply
<1>7. QED
  BY <1>3, <1>4, <1>6

(* While a handler is at work no DATA waits to be read. *)
LEMMA WorkingAlone ==
    ASSUME ProtocolInv, NewestSpeaks, agg.pc # "idle",
           NEW c \in Conn, req[c] # << >>
    PROVE  Head(req[c]).code # "DATA"
<1>1. /\ agg.conn \in Conn /\ HasChannel(agg.conn) /\ Busy(agg.conn)
  BY HandlerAtWork DEF Busy
<1>2. c # agg.conn
  BY <1>1 DEF ProtocolInv, OneMessage
<1>3. ~(c < agg.conn)
  BY <1>1 DEF NewestSpeaks
<1>4. c > agg.conn => ~HasChannel(c)
  BY <1>1 DEF NewestSpeaks
<1>5. c \in Int /\ agg.conn \in Int
  BY <1>1, ConnTypes DEF ProtocolInv, Conn
<1>6. ~HasChannel(c)
  BY <1>2, <1>3, <1>4, <1>5
<1>7. QED
  BY <1>6 DEF ProtocolInv, RequestsKnown

LEMMA AcceptCopy ==
    ASSUME ProtocolInv, CopyInv, NEW d \in Conn, Accept(d) \/ CloseConnection(d)
    PROVE  CopyInv'
<1>1. /\ UNCHANGED <<written, follower, up, req, resp, agg, sep>>
      /\ UNCHANGED <<pc, opened, fpos, buf, msgbuf>>
      /\ agg.pc = "idle"
      /\ chans' = [chans EXCEPT ![d] = NoChannel]
      /\ d \notin conns \/ (d \notin up /\ req[d] = << >>)
  BY DEF Accept, CloseConnection, network, disk, follower
<1>2. chans \in [Conn -> Seq(Nat) \union {NoChannel}]
  BY DEF ProtocolInv, TypeOK, MemoryType
<1>3. \A c \in Conn : /\ c # d => chans'[c] = chans[c]
                      /\ HasChannel(c)' => HasChannel(c)
  BY <1>1, <1>2 DEF HasChannel
<1>4. d \notin conns => ~HasChannel(d)
  BY DEF ProtocolInv, ChannelOwned, HasChannel
<1>5. SepPrefix'
  BY <1>1 DEF CopyInv, SepPrefix
<1>6. NewestSpeaks'
  BY <1>1, <1>3 DEF CopyInv, NewestSpeaks, Busy
<1>7. PendingAligned'
  <2> SUFFICES ASSUME NEW c \in Conn, req[c] # << >>, Head(req[c]).code = "DATA"
               PROVE  Piece(Head(req[c])) /\ Aligned(c, Head(req[c]).lo)
                      /\ chans'[c] = chans[c]
    BY <1>1 DEF PendingAligned, Piece, Aligned
  <2>1. HasChannel(c)
    BY DEF ProtocolInv, RequestsKnown
  <2>2. c # d
    BY <1>1, <1>4, <2>1
  <2>3. QED
    BY <1>3, <2>2 DEF CopyInv, PendingAligned
<1>8. HandlerAligned'
  BY <1>1 DEF HandlerAligned
<1>9. ReplyMatches'
  BY <1>1, RepliesSame DEF CopyInv
<1>10. FollowerAligned'
  <2> SUFFICES ASSUME NEW c \in up
               PROVE  /\ ReadAligned(c)' /\ SendAligned(c)'
                      /\ InitAligned(c)' /\ DataAligned(c)'
    BY <1>1 DEF FollowerAligned
  <2>1. c \in Conn
    BY LiveConnection
  <2>2. HasChannel(c) => chans'[c] = chans[c] /\ sep' = sep
    BY <1>1, <1>3, <1>4, <2>1
  <2>3. QED
    BY <1>1, <2>2, SameAligned DEF Busy
<1>11. QED
  BY <1>1, <1>5, <1>6, <1>7, <1>8, <1>9, <1>10, FollowerSame DEF CopyInv

LEMMA HandlerInitCopy ==
    ASSUME Copying, ProtocolInv, CopyInv, NEW d \in Conn, HandlerInit(d)
    PROVE  CopyInv'
<1>1. /\ UNCHANGED <<written, follower, up, agg, sep>>
      /\ UNCHANGED <<pc, opened, fpos, buf, msgbuf>>
      /\ agg.pc = "idle" /\ req[d] # << >> /\ Head(req[d]).code = "INIT"
      /\ \A c \in 1..(d - 1) : req[c] = << >>
      /\ req' = [req EXCEPT ![d] = Tail(@)]
      /\ chans' = [chans EXCEPT ![d] = << >>]
      /\ Answer(d, InitReply(1))
  BY DEF HandlerInit, Receives, Copying, disk, follower
<1>2. TypeOK /\ OneMessage
  BY DEF ProtocolInv
<1>3. /\ req' = [req EXCEPT ![d] = << >>]
      /\ resp[d] = << >>
  BY <1>1, <1>2, TakeRequestEffect
<1>4. ~HasChannel(d)
  BY <1>1 DEF ProtocolInv, RequestsKnown
<1>5. /\ chans \in [Conn -> Seq(Nat) \union {NoChannel}]
      /\ req \in [Conn -> Seq(Request)]
  BY <1>2 DEF TypeOK, MemoryType, NetworkType
<1>6. /\ chans'[d] = << >> /\ req'[d] = << >>
      /\ \A c \in Conn : c # d => chans'[c] = chans[c] /\ req'[c] = req[c]
  BY <1>1, <1>3, <1>5
<1>7. /\ \A c \in Conn : c # d => resp'[c] = resp[c]
      /\ resp'[d] # << >> => Head(resp'[d]) = InitReply(1)
  BY <1>1, <1>2, <1>3, RepliesMatch, AnswerEffect DEF CopyInv
<1>8. SepPrefix'
  BY <1>1 DEF CopyInv, SepPrefix
<1>9. NewestSpeaks'
  <2> SUFFICES ASSUME NEW b \in Conn, NEW c \in Conn, b < c, HasChannel(c)'
               PROVE  req'[b] = << >> /\ ~Busy(b)'
    BY DEF NewestSpeaks
  <2>1. ~Busy(b)'
    BY <1>1 DEF Busy
  <2>2. CASE c = d
    <3>1. b \in 1..(d - 1)
      BY <1>2, <2>2, ConnTypes DEF Conn
    <3>2. QED
      BY <1>1, <1>6, <2>1, <3>1
  <2>3. CASE c # d
    BY <1>6, <2>1, <2>3 DEF CopyInv, NewestSpeaks, HasChannel
  <2>4. QED
    BY <2>2, <2>3
<1>10. PendingAligned'
  <2> SUFFICES ASSUME NEW c \in Conn, req'[c] # << >>, Head(req'[c]).code = "DATA"
               PROVE  Piece(Head(req[c]))' /\ Aligned(c, Head(req[c]).lo)'
    BY DEF PendingAligned
  <2>1. req'[c] = req[c] /\ chans'[c] = chans[c]
    BY <1>6
  <2>2. Piece(Head(req[c])) /\ Aligned(c, Head(req[c]).lo)
    BY <2>1 DEF CopyInv, PendingAligned
  <2>3. QED
    BY <1>1, <2>1, <2>2 DEF Piece, Aligned
<1>11. HandlerAligned'
  BY <1>1 DEF HandlerAligned
<1>12. ReplyMatches'
  BY <1>1, <1>2, <1>3, RepliesMatch, ReplyGiven DEF CopyInv
<1>13. FollowerAligned'
  <2> SUFFICES ASSUME NEW c \in up
               PROVE  /\ ReadAligned(c)' /\ SendAligned(c)'
                      /\ InitAligned(c)' /\ DataAligned(c)'
    BY <1>1 DEF FollowerAligned
  <2>1. c \in Conn
    BY LiveConnection
  <2>2. CASE c # d
    <3>1. chans'[c] = chans[c] /\ req'[c] = req[c] /\ resp'[c] = resp[c]
      BY <1>6, <1>7, <2>1, <2>2
    <3>2. QED
      BY <1>1, <3>1, SameAligned DEF Busy
  <2>3. CASE c = d
    <3>1. /\ pc \notin {"read", "send", "data"}
          /\ ~(pc = "run" /\ opened)
      BY <1>4, <2>3, LiveChannel
    <3>2. ReadAligned(c)' /\ SendAligned(c)' /\ DataAligned(c)'
      BY <1>1, <3>1 DEF ReadAligned, SendAligned, DataAligned
    <3>3. InitReply(1).pos = Len(sep)
      BY DEF InitReply
    <3>4. InitAligned(c)'
      BY <1>1, <1>6, <1>7, <2>3, <3>3 DEF InitAligned, Busy
    <3>5. QED
      BY <3>2, <3>4
  <2>4. QED
    BY <2>2, <2>3
<1>14. QED
  BY <1>1, <1>8, <1>9, <1>10, <1>11, <1>12, <1>13, FollowerSame DEF CopyInv

(* The follower waits for the answer to the DATA that is read or worked on. *)
LEMMA WaitsForAnswer ==
    ASSUME ProtocolInv, CopyInv, NEW c \in up,
           \/ req[c] # << >> /\ Head(req[c]).code = "DATA"
           \/ Busy(c)
    PROVE  /\ pc = "data"
           /\ msgbuf.hi = Unread
           /\ req[c] # << >> => Head(req[c]) = msgbuf
           /\ Busy(c) => agg.msg = msgbuf
<1>1. InitAligned(c) /\ DataAligned(c)
  BY DEF CopyInv, FollowerAligned
<1>2. pc # "init"
  BY <1>1 DEF InitAligned
<1>3. pc = "data"
  BY <1>2, LiveChannel
<1>4. QED
  BY <1>1, <1>3 DEF DataAligned

LEMMA HandlerDataPartCopy ==
    ASSUME ProtocolInv, CopyInv, NEW d \in Conn, HandlerDataPart(d)
    PROVE  CopyInv'
<1> DEFINE m == Head(req[d])
           s == chans[d] \o Iota(m.lo, m.hi)
<1>1. /\ UNCHANGED <<written, follower, up, agg, sep>>
      /\ UNCHANGED <<pc, opened, fpos, buf, msgbuf>>
      /\ agg.pc = "idle" /\ req[d] # << >> /\ m.code = "DATA"
      /\ req' = [req EXCEPT ![d] = Tail(@)]
      /\ chans' = [chans EXCEPT ![d] = s]
      /\ Answer(d, DataReply(m.channel))
  BY DEF HandlerDataPart, Receives, disk, follower
<1>2. TypeOK /\ OneMessage
  BY DEF ProtocolInv
<1>3. /\ req' = [req EXCEPT ![d] = << >>]
      /\ resp[d] = << >>
      /\ m \in Request
  BY <1>1, <1>2, TakeRequestEffect
<1>4. HasChannel(d)
  BY <1>1 DEF ProtocolInv, RequestsKnown
<1>5. m.lo \in Nat /\ m.hi \in Nat /\ m.channel \in Nat
  BY <1>3 DEF Request
<1>6. Piece(m) /\ Aligned(d, m.lo)
  BY <1>1 DEF CopyInv, PendingAligned
<1> HIDE DEF m
<1>7. Len(sep) \in Nat
  BY <1>2, LenProperties DEF TypeOK, DiskType
<1>8. s = Iota(Len(sep), m.hi) /\ Len(sep) <= m.hi /\ m.hi <= written
  <2>1. chans[d] = Iota(Len(sep), m.lo)
    BY <1>6 DEF Aligned
  <2>2. Len(sep) <= m.lo /\ m.lo <= m.hi /\ m.hi <= written
    BY <1>6 DEF Piece, Aligned
  <2>3. Iota(Len(sep), m.lo) \o Iota(m.lo, m.hi) = Iota(Len(sep), m.hi)
    BY <1>5, <1>7, <2>2, IotaConcat
  <2>4. written \in Int
    BY ConnTypes, <1>2 DEF TypeOK
  <2>5. QED
    BY <1>5, <1>7, <2>1, <2>2, <2>3, <2>4
<1>9. s \in Seq(Nat)
  BY <1>5, <1>7, <1>8, IotaType
<1> HIDE DEF s
<1>10. \A c \in Conn : HasChannel(c)' <=> HasChannel(c)
  BY <1>1, <1>2, <1>4, <1>9, SameChannels
<1>11. /\ chans \in [Conn -> Seq(Nat) \union {NoChannel}]
       /\ req \in [Conn -> Seq(Request)]
  BY <1>2 DEF TypeOK, MemoryType, NetworkType
<1>12. /\ chans'[d] = s /\ req'[d] = << >>
       /\ \A c \in Conn : c # d => chans'[c] = chans[c] /\ req'[c] = req[c]
  BY <1>1, <1>3, <1>11
<1>13. DataReply(m.channel) \in Reply /\ HashMatches(DataReply(m.channel))
  BY <1>5, RepliesMatch DEF CopyInv
<1>14. \A c \in Conn : c # d => resp'[c] = resp[c]
  BY <1>1, <1>2, <1>3, <1>13, AnswerEffect
<1>15. SepPrefix'
  BY <1>1 DEF CopyInv, SepPrefix
<1>16. NewestSpeaks'
  BY <1>1, <1>10, <1>12 DEF CopyInv, NewestSpeaks, Busy
<1>17. PendingAligned'
  <2> SUFFICES ASSUME NEW c \in Conn, req'[c] # << >>, Head(req'[c]).code = "DATA"
               PROVE  Piece(Head(req[c]))' /\ Aligned(c, Head(req[c]).lo)'
    BY DEF PendingAligned
  <2>1. req'[c] = req[c] /\ chans'[c] = chans[c]
    BY <1>12
  <2>2. Piece(Head(req[c])) /\ Aligned(c, Head(req[c]).lo)
    BY <2>1 DEF CopyInv, PendingAligned
  <2>3. QED
    BY <1>1, <2>1, <2>2 DEF Piece, Aligned
<1>18. HandlerAligned'
  BY <1>1 DEF HandlerAligned
<1>19. ReplyMatches'
  BY <1>1, <1>2, <1>3, <1>13, ReplyGiven DEF CopyInv
<1>20. FollowerAligned'
  <2> SUFFICES ASSUME NEW c \in up
               PROVE  /\ ReadAligned(c)' /\ SendAligned(c)'
                      /\ InitAligned(c)' /\ DataAligned(c)'
    BY <1>1 DEF FollowerAligned
  <2>1. c \in Conn
    BY LiveConnection
  <2>2. CASE c # d
    <3>1. chans'[c] = chans[c] /\ req'[c] = req[c] /\ resp'[c] = resp[c]
      BY <1>12, <1>14, <2>1, <2>2
    <3>2. QED
      BY <1>1, <3>1, SameAligned DEF Busy
  <2>3. CASE c = d
    <3>1. pc = "data" /\ msgbuf.hi = Unread /\ m = msgbuf
      BY <1>1, <2>3, WaitsForAnswer DEF m
    <3>2. Unread' = Unread
      BY <1>1 DEF Unread
    <3>3. Aligned(c, Unread)'
      BY <1>1, <1>8, <1>12, <2>3, <3>1, <3>2 DEF Aligned
    <3>4. DataAligned(c)'
      BY <1>1, <1>12, <2>3, <3>1, <3>2, <3>3 DEF DataAligned, Busy
    <3>5. QED
      BY <1>1, <3>1, <3>4 DEF ReadAligned, SendAligned, InitAligned
  <2>4. QED
    BY <2>2, <2>3
<1>21. QED
  BY <1>1, <1>15, <1>16, <1>17, <1>18, <1>19, <1>20, FollowerSame DEF CopyInv

LEMMA HandlerDataLineCopy ==
    ASSUME Copying, ProtocolInv, CopyInv, NEW d \in Conn, HandlerDataLine(d)
    PROVE  CopyInv'
<1> DEFINE m == Head(req[d])
<1>1. /\ UNCHANGED <<written, follower, up, resp, chans, sep>>
      /\ UNCHANGED <<pc, opened, fpos, buf, msgbuf>>
      /\ agg.pc = "idle" /\ req[d] # << >> /\ m.code = "DATA"
      /\ req' = [req EXCEPT ![d] = Tail(@)]
  BY DEF HandlerDataLine, Receives, disk, follower
<1>2. TypeOK /\ OneMessage
  BY DEF ProtocolInv
<1>3. agg' = [pc |-> "append buffer", conn |-> d, msg |-> m]
  BY <1>2, SeparateOnly DEF HandlerDataLine
<1>4. req' = [req EXCEPT ![d] = << >>]
  BY <1>1, <1>2, TakeRequestEffect
<1>5. req \in [Conn -> Seq(Request)]
  BY <1>2 DEF TypeOK, NetworkType
<1>6. /\ req'[d] = << >>
      /\ \A c \in Conn : c # d => req'[c] = req[c]
  BY <1>4, <1>5
<1>7. Piece(m) /\ Aligned(d, m.lo)
  BY <1>1 DEF CopyInv, PendingAligned
<1>8. SepPrefix'
  BY <1>1 DEF CopyInv, SepPrefix
<1>9. NewestSpeaks'
  <2> SUFFICES ASSUME NEW b \in Conn, NEW c \in Conn, b < c, HasChannel(c)'
               PROVE  req'[b] = << >> /\ ~Busy(b)'
    BY DEF NewestSpeaks
  <2>1. req[b] = << >>
    BY <1>1 DEF CopyInv, NewestSpeaks, HasChannel
  <2>2. b # d
    BY <1>1, <2>1
  <2>3. QED
    BY <1>3, <1>6, <2>1, <2>2 DEF Busy
<1>10. PendingAligned'
  <2> SUFFICES ASSUME NEW c \in Conn, req'[c] # << >>, Head(req'[c]).code = "DATA"
               PROVE  Piece(Head(req[c]))' /\ Aligned(c, Head(req[c]).lo)'
    BY DEF PendingAligned
  <2>1. req'[c] = req[c]
    BY <1>6
  <2>2. Piece(Head(req[c])) /\ Aligned(c, Head(req[c]).lo)
    BY <2>1 DEF CopyInv, PendingAligned
  <2>3. QED
    BY <1>1, <2>1, <2>2 DEF Piece, Aligned
<1>11. HandlerAligned'
  <2>1. /\ agg'.pc = "append buffer" /\ agg'.conn = d /\ agg'.msg = m
        /\ UNCHANGED <<written, chans, sep>>
    BY <1>1, <1>3
  <2> HIDE DEF m
  <2>2. QED
    BY <1>7, <2>1 DEF HandlerAligned, Piece, Aligned
<1>12. ReplyMatches'
  BY <1>1, RepliesSame DEF CopyInv
<1>13. FollowerAligned'
  <2> SUFFICES ASSUME NEW c \in up
               PROVE  /\ ReadAligned(c)' /\ SendAligned(c)'
                      /\ InitAligned(c)' /\ DataAligned(c)'
    BY <1>1 DEF FollowerAligned
  <2>1. c \in Conn
    BY LiveConnection
  <2>2. CASE c # d
    <3>1. req'[c] = req[c] /\ ~Busy(c)'
      BY <1>3, <1>6, <2>1, <2>2 DEF Busy
    <3>2. QED
      BY <1>1, <3>1, SameAligned
  <2>3. CASE c = d
    <3>1. pc = "data" /\ msgbuf.hi = Unread /\ m = msgbuf
      BY <1>1, <2>3, WaitsForAnswer
    <3>2. Unread' = Unread
      BY <1>1 DEF Unread
    <3>3. resp'[c] = << >>
      BY <1>1, <2>1, <2>3 DEF ProtocolInv, OneMessage
    <3>4. agg'.msg = m
      BY <1>3
    <3> HIDE DEF m
    <3>5. DataAligned(c)'
      BY <1>1, <1>6, <2>3, <3>1, <3>2, <3>3, <3>4 DEF DataAligned
    <3>6. QED
      BY <1>1, <3>1, <3>5 DEF ReadAligned, SendAligned, InitAligned
  <2>4. QED
    BY <2>2, <2>3
<1>14. QED
  BY <1>1, <1>8, <1>9, <1>10, <1>11, <1>12, <1>13, FollowerSame DEF CopyInv

(* The two writes of _do_append_file. *)
LEMMA AppendCopy ==
    ASSUME ProtocolInv, CopyInv, AppendBuffer \/ AppendText
    PROVE  CopyInv'
<1> DEFINE d == agg.conn
           m == agg.msg
           n == IF agg.pc = "append buffer" THEN m.lo ELSE m.hi
<1>1. /\ UNCHANGED <<written, follower, up, req, resp>>
      /\ UNCHANGED <<pc, opened, fpos, buf, msgbuf>>
      /\ agg.pc \in {"append buffer", "append text"}
      /\ agg' = [agg EXCEPT !.pc = IF agg.pc = "append buffer"
                                   THEN "append text" ELSE "answer"]
      /\ \/ /\ agg.pc = "append buffer"
            /\ sep' = sep \o chans[d]
            /\ chans' = [chans EXCEPT ![d] = << >>]
         \/ /\ agg.pc = "append text"
            /\ sep' = sep \o Text
            /\ chans' = chans
  BY DEF AppendBuffer, AppendText, network, follower
<1>2. /\ agg.pc # "idle" /\ d \in Conn /\ HasChannel(d) /\ m \in Request
  BY <1>1, HandlerAtWork
<1>3. TypeOK /\ OneMessage
  BY DEF ProtocolInv
<1>4. m.lo \in Nat /\ m.hi \in Nat /\ n \in Nat
  BY <1>2 DEF Request
<1>5. agg'.pc # "idle" /\ agg'.conn = d /\ agg'.msg = m
  BY <1>1, <1>3 DEF TypeOK, MemoryType
<1>6. chans'[d] = << >> /\ \A c \in Conn : c # d => chans'[c] = chans[c]
  <2>1. chans \in [Conn -> Seq(Nat) \union {NoChannel}]
    BY <1>3 DEF TypeOK, MemoryType
  <2>2. agg.pc = "append text" => chans[d] = << >>
    BY <1>2 DEF CopyInv, HandlerAligned
  <2>3. QED
    BY <1>1, <1>2, <2>1, <2>2
<1>7. Piece(m) /\ HandlerAligned
  BY <1>2 DEF CopyInv, HandlerAligned
<1>8. Len(sep) \in Nat /\ written \in Int
  BY <1>3, ConnTypes, LenProperties DEF TypeOK, DiskType
<1>9. sep = Iota(0, Len(sep))
  BY DEF CopyInv, SepPrefix
<1>10. sep' = Iota(0, n) /\ n <= written
  <2>1. CASE agg.pc = "append buffer"
    <3>1. Aligned(d, m.lo) /\ n = m.lo
      BY <1>7, <2>1 DEF HandlerAligned
    <3>2. sep' = Iota(0, Len(sep)) \o Iota(Len(sep), m.lo)
      BY <1>1, <1>9, <2>1, <3>1 DEF Aligned
    <3>3. Len(sep) <= m.lo /\ m.lo <= written
      BY <3>1 DEF Aligned
    <3>4. Iota(0, Len(sep)) \o Iota(Len(sep), m.lo) = Iota(0, m.lo)
      BY <1>4, <1>8, <3>3, IotaExtend
    <3>5. QED
      BY <3>1, <3>2, <3>3, <3>4
  <2>2. CASE agg.pc = "append text"
    <3>1. Len(sep) = m.lo /\ n = m.hi
      BY <1>7, <2>2 DEF HandlerAligned
    <3>2. sep' = Iota(0, m.lo) \o Iota(m.lo, m.hi)
      BY <1>1, <1>9, <2>2, <3>1 DEF Text
    <3>3. m.lo <= m.hi /\ m.hi <= written
      BY <1>7 DEF Piece
    <3>4. Iota(0, m.lo) \o Iota(m.lo, m.hi) = Iota(0, m.hi)
      BY <1>4, <3>3, IotaExtend
    <3>5. QED
      BY <3>1, <3>2, <3>3, <3>4
  <2>3. QED
    BY <1>1, <2>1, <2>2
<1>11. Len(sep') = n
  <2> HIDE DEF n
  <2>1. Len(Iota(0, n)) = n - 0
    BY <1>4, IotaLen
  <2>2. QED
    BY <1>4, <1>10, <2>1
<1>12. SepPrefix'
  BY <1>1, <1>10, <1>11 DEF SepPrefix
<1>13. NewestSpeaks'
  <2>1. \A c \in Conn : HasChannel(c)' => HasChannel(c)
    BY <1>2, <1>6 DEF HasChannel
  <2>2. \A c \in Conn : Busy(c)' => Busy(c)
    BY <1>2, <1>5 DEF Busy
  <2>3. QED
    BY <1>1, <2>1, <2>2 DEF CopyInv, NewestSpeaks
<1>14. PendingAligned'
  <2> SUFFICES ASSUME NEW c \in Conn, req[c] # << >>
               PROVE  Head(req[c]).code # "DATA"
    BY <1>1 DEF PendingAligned
  <2>1. QED
    BY <1>2, WorkingAlone DEF CopyInv
<1>15. HandlerAligned'
  <2>1. agg'.pc = IF agg.pc = "append buffer" THEN "append text" ELSE "answer"
    BY <1>1, <1>3 DEF TypeOK, MemoryType
  <2>2. Piece(m)'
    BY <1>1, <1>5, <1>7 DEF Piece
  <2>3. chans'[agg'.conn] = << >>
    BY <1>5, <1>6
  <2>4. QED
    BY <1>1, <1>5, <1>11, <2>1, <2>2, <2>3 DEF HandlerAligned
<1>16. ReplyMatches'
  BY <1>1, RepliesSame DEF CopyInv
<1>17. FollowerAligned'
  <2> SUFFICES ASSUME NEW c \in up
               PROVE  /\ ReadAligned(c)' /\ SendAligned(c)'
                      /\ InitAligned(c)' /\ DataAligned(c)'
    BY <1>1 DEF FollowerAligned
  <2>1. c \in Conn
    BY LiveConnection
  <2>2. CASE c # d
    <3>1. ~HasChannel(c)
      BY <1>2, <2>2, OthersSilent DEF CopyInv, Busy
    <3>2. ~Busy(c)'
      BY <1>5, <2>2 DEF Busy
    <3>3. QED
      BY <1>1, <3>1, <3>2, SameAligned
  <2>3. CASE c = d
    <3>1. pc = "data" /\ msgbuf.hi = Unread /\ m = msgbuf
      BY <1>2, <2>3, WaitsForAnswer DEF Busy
    <3>2. Unread' = Unread
      BY <1>1 DEF Unread
    <3>3. req'[c] = << >> /\ resp'[c] = << >>
      BY <1>1, <1>2, <2>1, <2>3 DEF ProtocolInv, OneMessage, Busy
    <3>4. DataAligned(c)'
      BY <1>1, <1>5, <3>1, <3>2, <3>3 DEF DataAligned
    <3>5. QED
      BY <1>1, <3>1, <3>4 DEF ReadAligned, SendAligned, InitAligned
  <2>4. QED
    BY <2>2, <2>3
<1>18. QED
  BY <1>1, <1>12, <1>13, <1>14, <1>15, <1>16, <1>17, FollowerSame DEF CopyInv

LEMMA AnswerDataCopy ==
    ASSUME ProtocolInv, CopyInv, AnswerData
    PROVE  CopyInv'
<1> DEFINE d == agg.conn
           m == agg.msg
<1>1. /\ UNCHANGED <<written, follower, up, req, chans, sep>>
      /\ UNCHANGED <<pc, opened, fpos, buf, msgbuf>>
      /\ agg.pc = "answer"
      /\ agg' = [agg EXCEPT !.pc = "idle"]
      /\ Answer(d, DataReply(m.channel))
  BY DEF AnswerData, disk, follower
<1>2. agg.pc # "idle" /\ d \in Conn /\ HasChannel(d) /\ m \in Request
  BY <1>1, HandlerAtWork
<1>3. TypeOK /\ OneMessage
  BY DEF ProtocolInv
<1>4. m.lo \in Nat /\ m.hi \in Nat /\ m.channel \in Nat
  BY <1>2 DEF Request
<1>5. agg'.pc = "idle"
  BY <1>1, <1>3 DEF TypeOK, MemoryType
<1>6. req[d] = << >> /\ resp[d] = << >>
  BY <1>2 DEF ProtocolInv, OneMessage, Busy
<1>7. DataReply(m.channel) \in Reply /\ HashMatches(DataReply(m.channel))
  BY <1>4, RepliesMatch DEF CopyInv
<1>8. \A c \in Conn : c # d => resp'[c] = resp[c]
  BY <1>1, <1>2, <1>3, <1>6, <1>7, AnswerEffect
<1>9. Piece(m) /\ chans[d] = << >> /\ Len(sep) = m.hi
  BY <1>1, <1>2 DEF CopyInv, HandlerAligned
<1>10. SepPrefix'
  BY <1>1 DEF CopyInv, SepPrefix
<1>11. NewestSpeaks'
  BY <1>1, <1>5 DEF CopyInv, NewestSpeaks, HasChannel, Busy
<1>12. PendingAligned'
  BY <1>1 DEF CopyInv, PendingAligned, Piece, Aligned
<1>13. HandlerAligned'
  BY <1>5 DEF HandlerAligned
<1>14. ReplyMatches'
  BY <1>1, <1>2, <1>3, <1>6, <1>7, ReplyGiven DEF CopyInv
<1>15. FollowerAligned'
  <2> SUFFICES ASSUME NEW c \in up
               PROVE  /\ ReadAligned(c)' /\ SendAligned(c)'
                      /\ InitAligned(c)' /\ DataAligned(c)'
    BY <1>1 DEF FollowerAligned
  <2>1. c \in Conn
    BY LiveConnection
  <2>2. CASE c # d
    <3>1. resp'[c] = resp[c] /\ ~Busy(c)'
      BY <1>5, <1>8, <2>1, <2>2 DEF Busy
    <3>2. QED
      BY <1>1, <3>1, SameAligned
  <2>3. CASE c = d
    <3>1. pc = "data" /\ msgbuf.hi = Unread /\ m = msgbuf
      BY <1>2, <2>3, WaitsForAnswer DEF Busy
    <3>2. Unread' = Unread
      BY <1>1 DEF Unread
    <3>3. req'[c] = << >> /\ ~Busy(c)'
      BY <1>1, <1>5, <1>6, <2>3 DEF Busy
    <3>4. Aligned(c, Unread)'
      <4>1. Iota(m.hi, m.hi) = << >>
        BY <1>4, IotaEmpty
      <4>2. Unread' = m.hi
        BY <3>1, <3>2
      <4>3. written' = written /\ chans' = chans /\ sep' = sep
        BY <1>1
      <4> HIDE DEF m
      <4>4. QED
        BY <1>4, <1>9, <2>3, <4>1, <4>2, <4>3 DEF Aligned, Piece
    <3>5. DataAligned(c)'
      BY <1>1, <3>1, <3>2, <3>3, <3>4 DEF DataAligned
    <3>6. QED
      BY <1>1, <3>1, <3>5 DEF ReadAligned, SendAligned, InitAligned
  <2>4. QED
    BY <2>2, <2>3
<1>16. QED
  BY <1>1, <1>10, <1>11, <1>12, <1>13, <1>14, <1>15, FollowerSame DEF CopyInv

----------------------------------------------------------------------------
(* The invariant survives failures. *)

LEMMA BreakCopy ==
    ASSUME ProtocolInv, CopyInv, NEW b \in Conn, Break(b)
    PROVE  CopyInv'
<1>1. /\ UNCHANGED <<written, follower, chans, agg, sep>>
      /\ b \in up /\ up' = up \ {b}
      /\ \E l \in {<< >>, req[b]}  : req'  = [req  EXCEPT ![b] = l]
      /\ \E l \in {<< >>, resp[b]} : resp' = [resp EXCEPT ![b] = l]
  BY DEF Break, memory, disk
<1>2. up' = {}
  BY <1>1, LiveConnection
<1>3. \A c \in Conn : /\ req'[c] # << >> => req'[c] = req[c]
                      /\ resp'[c] # << >> => resp'[c] = resp[c]
  BY <1>1 DEF ProtocolInv, TypeOK, NetworkType
<1>4. SepPrefix' /\ HashAgrees'
  BY <1>1 DEF CopyInv, SepPrefix, HashAgrees, follower
<1>5. NewestSpeaks'
  BY <1>1, <1>3 DEF CopyInv, NewestSpeaks, HasChannel, Busy
<1>6. PendingAligned'
  BY <1>1, <1>3 DEF CopyInv, PendingAligned, Piece, Aligned
<1>7. HandlerAligned'
  BY <1>1 DEF CopyInv, HandlerAligned, Piece, Aligned
<1>8. ReplyMatches'
  BY <1>1, <1>3 DEF CopyInv, ReplyMatches, HashMatches
<1>9. BufferFits'
  BY <1>1, <1>2 DEF CopyInv, BufferFits, follower
<1>10. FollowerAligned'
  BY <1>2 DEF FollowerAligned
<1>11. QED
  BY <1>4, <1>5, <1>6, <1>7, <1>8, <1>9, <1>10 DEF CopyInv

LEMMA FollowerRestartsCopy ==
    ASSUME ProtocolInv, CopyInv, FollowerRestarts
    PROVE  CopyInv'
<1>1. /\ UNCHANGED <<written, chans, agg, sep>>
      /\ pc' = "reconnect" /\ up' = {}
      /\ buf' = [lo |-> 0, hi |-> 0]
      /\ \E L \in SUBSET up : req' = [c \in Conn |-> IF c \in L THEN << >> ELSE req[c]]
      /\ resp' = [c \in Conn |-> << >>]
  BY DEF FollowerRestarts, memory, disk
<1>2. \A c \in Conn : req'[c] # << >> => req'[c] = req[c]
  BY <1>1
<1>3. SepPrefix' /\ HashAgrees'
  BY <1>1 DEF CopyInv, SepPrefix, HashAgrees
<1>4. NewestSpeaks'
  BY <1>1, <1>2 DEF CopyInv, NewestSpeaks, HasChannel, Busy
<1>5. PendingAligned'
  BY <1>1, <1>2 DEF CopyInv, PendingAligned, Piece, Aligned
<1>6. HandlerAligned'
  BY <1>1 DEF CopyInv, HandlerAligned, Piece, Aligned
<1>7. ReplyMatches'
  BY <1>1 DEF ReplyMatches
<1>8. BufferFits'
  <2>1. written \in Nat
    BY ConnTypes DEF ProtocolInv, TypeOK
  <2>2. QED
    BY <1>1, <2>1 DEF BufferFits
<1>9. FollowerAligned'
  BY <1>1 DEF FollowerAligned
<1>10. QED
  BY <1>3, <1>4, <1>5, <1>6, <1>7, <1>8, <1>9 DEF CopyInv

LEMMA AggregatorRestartsCopy ==
    ASSUME ProtocolInv, CopyInv, AggregatorRestarts
    PROVE  CopyInv'
<1>1. /\ UNCHANGED <<written, follower, sep>>
      /\ up' = {}
      /\ req' = [c \in Conn |-> << >>]
      /\ \E L \in SUBSET up : resp' = [c \in Conn |-> IF c \in L THEN << >> ELSE resp[c]]
      /\ chans' = [c \in Conn |-> NoChannel]
      /\ agg'.pc = "idle"
  BY DEF AggregatorRestarts, disk
<1>2. \A c \in Conn : resp'[c] # << >> => resp'[c] = resp[c]
  BY <1>1
<1>3. SepPrefix' /\ HashAgrees'
  BY <1>1 DEF CopyInv, SepPrefix, HashAgrees, follower
<1>4. NewestSpeaks' /\ PendingAligned' /\ HandlerAligned'
  BY <1>1 DEF NewestSpeaks, PendingAligned, HandlerAligned, Busy
<1>5. ReplyMatches'
  BY <1>1, <1>2 DEF CopyInv, ReplyMatches, HashMatches
<1>6. BufferFits'
  BY <1>1 DEF CopyInv, BufferFits, follower
<1>7. FollowerAligned'
  BY <1>1 DEF FollowerAligned
<1>8. QED
  BY <1>3, <1>4, <1>5, <1>6, <1>7 DEF CopyInv

----------------------------------------------------------------------------
(* The theorems. *)

LEMMA CopyInit ==
    ASSUME Init
    PROVE  CopyInv
<1>1. /\ written \in 0..MaxLen /\ pc = "reconnect" /\ up = {}
      /\ buf = [lo |-> 0, hi |-> 0]
      /\ req = [c \in Conn |-> << >>] /\ resp = [c \in Conn |-> << >>]
      /\ chans = [c \in Conn |-> NoChannel] /\ agg.pc = "idle"
      /\ sep = << >>
  BY DEF Init
<1>2. written \in Nat /\ Len(sep) = 0
  BY <1>1, SizesAssumption, EmptySeq
<1>3. SepPrefix
  BY <1>1, <1>2, IotaEmpty DEF SepPrefix
<1>4. NewestSpeaks /\ PendingAligned /\ HandlerAligned /\ ReplyMatches
  BY <1>1 DEF NewestSpeaks, PendingAligned, HandlerAligned, ReplyMatches, Busy
<1>5. BufferFits
  BY <1>1, <1>2 DEF BufferFits
<1>6. QED
  BY <1>1, <1>3, <1>4, <1>5 DEF CopyInv, HashAgrees, FollowerAligned

LEMMA CopyStep ==
    ASSUME Copying, ProtocolInv, CopyInv, [Next]_vars
    PROVE  CopyInv'
<1>1. CASE Write
  BY <1>1, WriteCopy
<1>2. CASE FollowerStep
  BY <1>2, MustReconnectCopy, OpenFileCopy, InitAnsweredCopy, FailsCopy,
     HashInvalidCopy, ReadLineCopy, NothingToReadCopy, SendDataCopy,
     DataAnsweredCopy, ReconnectCopy DEF FollowerStep
<1>3. CASE Reconnect
  BY <1>3, ReconnectCopy
<1>4. CASE HandlerStep
  <2>1. ~MergeBuffer /\ ~MergeText
    BY DEF CopyInv, HandlerAligned, MergeBuffer, MergeText
  <2>2. QED
    BY <1>4, <2>1, AppendCopy, AnswerDataCopy DEF HandlerStep
<1>5. ~WriteFails
  BY DEF WriteFails, Copying
<1>6. CASE \E c \in Conn : EventStep(c) \/ Break(c)
  <2> PICK c \in Conn : EventStep(c) \/ Break(c)
    BY <1>6
  <2>1. CASE Break(c)
    BY <2>1, BreakCopy
  <2>2. CASE EventStep(c)
    BY <2>2, AcceptCopy, HandlerInitCopy, HandlerDataPartCopy,
       HandlerDataLineCopy DEF EventStep
  <2>3. QED
    BY <2>1, <2>2
<1>7. CASE FollowerRestarts
  BY <1>7, FollowerRestartsCopy
<1>8. CASE AggregatorRestarts
  BY <1>8, AggregatorRestartsCopy
<1>9. CASE UNCHANGED vars
  <2>1. /\ UNCHANGED <<written, pc, opened, fpos, buf, msgbuf, up, req, resp>>
        /\ UNCHANGED <<chans, agg, sep>>
    BY <1>9 DEF vars, follower, network, memory, disk
  <2>2. SepPrefix' /\ NewestSpeaks' /\ PendingAligned' /\ HandlerAligned'
    BY <2>1, AggregatorSame DEF CopyInv
  <2>3. HashAgrees' /\ ReplyMatches'
    BY <2>1, RepliesSame DEF CopyInv, HashAgrees
  <2>4. BufferFits'
    BY <2>1 DEF CopyInv, BufferFits
  <2>5. FollowerAligned'
    BY <2>1 DEF CopyInv, FollowerAligned, ReadAligned, SendAligned, InitAligned,
                DataAligned, Aligned, Piece, Unread, Busy
  <2>6. QED
    BY <2>2, <2>3, <2>4, <2>5 DEF CopyInv
<1>10. QED
  BY <1>1, <1>2, <1>3, <1>4, <1>5, <1>6, <1>7, <1>8, <1>9 DEF Next

(* The configuration of a running aggregator does not change. *)
LEMMA ModeKept ==
    ASSUME [Next]_vars
    PROVE  mode' = mode
BY DEF Next, FollowerStep, HandlerStep, EventStep, vars, disk, Write,
       MustReconnect, OpenFile, InitAnswered, InitFails, HashInvalid, ReadLine,
       NothingToRead, SendData, DataAnswered, DataFails, ReconnectFails,
       Reconnect, WriteFails, MergeBuffer, MergeText, AppendBuffer, AppendText,
       AnswerData, Accept, CloseConnection, HandlerInit, HandlerDataPart,
       HandlerDataLine, Break, FollowerRestarts, AggregatorRestarts

LEMMA ReliableCopying ==
    ASSUME Reliable, ProtocolInv
    PROVE  Copying
BY DEF Reliable, Copying, ProtocolInv, TypeOK, DiskType

(* The inductive invariant: the next byte of the log stands where the          *)
(* follower's control and the handler at work say it does.                     *)
THEOREM CopyInvariant == Spec => [](Copying => CopyInv)
<1>1. Init => (Copying => CopyInv)
  BY CopyInit
<1>2. ProtocolInv /\ (Copying => CopyInv) /\ [Next]_vars => (Copying => CopyInv)'
  <2> SUFFICES ASSUME ProtocolInv, Copying => CopyInv, [Next]_vars, Copying'
               PROVE  CopyInv'
    OBVIOUS
  <2>1. Copying
    BY ModeKept DEF Copying
  <2>2. QED
    BY <2>1, CopyStep
<1>3. QED
  BY <1>1, <1>2, ProtocolInvariant, PTL DEF Spec

(* The separate file is an exact prefix of the followed file, through every    *)
(* break, restart and resume: handler_init, handler_data and _init_file agree. *)
THEOREM SepPrefixHolds ==
    ASSUME Reliable
    PROVE  Spec => []SepPrefix
<1>1. ProtocolInv /\ (Copying => CopyInv) => SepPrefix
  BY ReliableCopying DEF CopyInv
<1>2. QED
  BY <1>1, CopyInvariant, ProtocolInvariant, PTL

(* The follower never exits on "mhash invalid!!!". *)
THEOREM HashAgreesHolds ==
    ASSUME Reliable
    PROVE  Spec => []HashAgrees
<1>1. ProtocolInv /\ (Copying => CopyInv) => HashAgrees
  BY ReliableCopying DEF CopyInv
<1>2. QED
  BY <1>1, CopyInvariant, ProtocolInvariant, PTL

(* While a connection lives, what the follower put behind it is in the file or *)
(* in the channel's buffer.                                                    *)
LEMMA CopyAcked ==
    ASSUME ProtocolInv, Copying, CopyInv
    PROVE  AckedStored
<1> SUFFICES ASSUME pc = "run", opened, sock \in up, chans[sock] # NoChannel,
                    NEW i \in 1..Unread
             PROVE  i \in Range(sep) \union Range(chans[sock])
  BY SeparateOnly DEF AckedStored, Stored, ProtocolInv
<1>1. Aligned(sock, Unread)
  BY DEF CopyInv, FollowerAligned, ReadAligned
<1>2. TypeOK /\ Unread \in Nat
  BY DEF ProtocolInv, TypeOK, FollowerType, Unread
<1>3. sep = Iota(0, Len(sep)) /\ Len(sep) \in Nat
  BY <1>2, LenProperties DEF CopyInv, SepPrefix, TypeOK, DiskType
<1> DEFINE n == Len(sep)
           u == Unread
<1>4. sep = Iota(0, n) /\ chans[sock] = Iota(n, u) /\ n \in Nat /\ u \in Nat
  BY <1>1, <1>2, <1>3 DEF Aligned
<1> HIDE DEF n, u
<1>5. CASE i <= n
  <2>1. i \in 1..(n - 0) /\ Iota(0, n)[i] = i
    BY <1>4, <1>5 DEF u, Iota
  <2>2. QED
    BY <1>4, <2>1 DEF Range, Iota
<1>6. CASE ~(i <= n)
  <2>1. (i - n) \in 1..(u - n) /\ Iota(n, u)[i - n] = i
    BY <1>4, <1>6 DEF u, Iota
  <2>2. QED
    BY <1>4, <2>1 DEF Range, Iota
<1>7. QED
  BY <1>5, <1>6

(* Every step ships more of the log or leaves the copy as it is: the protocol  *)
(* implements the safety part of LogCopy.                                      *)
THEOREM ImplementsCopySafety ==
    ASSUME Reliable
    PROVE  Spec => Copy!Safety
<1>1. Init => Copy!Init
  BY DEF Init, Copy!Init
<1>2. ASSUME ProtocolInv, CopyInv, CopyInv', ProtocolInv', [Next]_vars
      PROVE  [Copy!Next]_(Copy!vars)
  <2>1. CASE Write
    BY <2>1 DEF Write, disk, Copy!Next, Copy!Write
  <2>2. CASE UNCHANGED <<written, sep>>
    BY <2>2 DEF Copy!vars
  <2>3. CASE AppendBuffer \/ AppendText
    <3>1. written' = written
      BY <2>3 DEF AppendBuffer, AppendText
    <3>2. sep \in Seq(Nat) /\ Len(sep) \in Nat /\ sep' \in Seq(Nat) /\ Len(sep') \in Nat
      BY <1>2, LenProperties DEF ProtocolInv, TypeOK, DiskType
    <3>3. sep = Iota(0, Len(sep)) /\ sep' = Iota(0, Len(sep')) /\ Len(sep') <= written
      BY <1>2, <3>1 DEF CopyInv, SepPrefix
    <3>4. PICK t : t \in Seq(Nat) /\ sep' = sep \o t
      <4>1. /\ agg.pc # "idle" => agg.msg \in Request /\ agg.conn \in Conn
                                  /\ HasChannel(agg.conn)
            /\ agg.pc # "idle"
        BY <1>2, <2>3, HandlerAtWork DEF AppendBuffer, AppendText
      <4>2. chans[agg.conn] \in Seq(Nat)
        BY <1>2, <4>1, ChannelText DEF ProtocolInv
      <4>3. Text \in Seq(Nat)
        BY <4>1, IotaType DEF Text, Request
      <4>4. QED
        BY <2>3, <4>2, <4>3 DEF AppendBuffer, AppendText
    <3>5. Len(sep') >= Len(sep)
      <4>1. Len(sep') = Len(sep) + Len(t) /\ Len(t) \in Nat
        BY <3>2, <3>4, ConcatProperties, LenProperties
      <4>2. QED
        BY <3>2, <4>1
    <3>6. CASE Len(sep') = Len(sep)
      BY <3>1, <3>3, <3>6 DEF Copy!vars
    <3>7. CASE Len(sep') > Len(sep)
      <4> DEFINE n == Len(sep')
      <4>1. sep' = Copy!Bytes(n)
        <5>1. Iota(0, n) = Copy!Bytes(n)
          BY <3>2 DEF Iota, Copy!Bytes
        <5>2. QED
          BY <3>3, <5>1
      <4>2. written \in Int
        BY <1>2, ConnTypes DEF ProtocolInv, TypeOK
      <4>3. n \in (Len(sep) + 1)..written
        BY <3>2, <3>3, <3>7, <4>2
      <4> HIDE DEF n
      <4>4. Copy!Ship
        BY <3>1, <4>1, <4>3 DEF Copy!Ship
      <4>5. QED
        BY <4>4 DEF Copy!Next
    <3>8. QED
      BY <3>2, <3>5, <3>6, <3>7
  <2>4. Write \/ AppendBuffer \/ AppendText \/ UNCHANGED <<written, sep>>
    BY <1>2 DEF Next, FollowerStep, HandlerStep, EventStep, vars, disk,
          MustReconnect, OpenFile, InitAnswered, InitFails, HashInvalid,
          ReadLine, NothingToRead, SendData, DataAnswered, DataFails,
          ReconnectFails, Reconnect, WriteFails, MergeBuffer, MergeText,
          AnswerData, Accept, CloseConnection, HandlerInit, HandlerDataPart,
          HandlerDataLine, Break, FollowerRestarts, AggregatorRestarts
  <2>5. QED
    BY <2>1, <2>2, <2>3, <2>4
<1>3. ProtocolInv /\ (Copying => CopyInv) => CopyInv
  BY ReliableCopying
<1>4. QED
  BY <1>1, <1>2, <1>3, CopyInvariant, ProtocolInvariant, PTL DEF Spec, Copy!Safety
==============================================================================
