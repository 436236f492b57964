------------------------------ MODULE Transfer -------------------------------
(***************************************************************************)
(* One log file on its way from comfollower to the aggregator.             *)
(*                                                                         *)
(* The follower (src/follower/main.c, follow_context.c, connection.c)      *)
(* opens the file, asks the aggregator with INIT where to resume, then     *)
(* sends pieces of the file, one DATA message at a time, waiting for the   *)
(* answer to each.  The aggregator (src/aggregator/main.c) holds back a    *)
(* piece that does not end a line in its channel's buffer and writes the   *)
(* piece that does to the file of this log ("separate"), to the file the   *)
(* logs of all hosts share ("merge"), or to both.  Connections break,      *)
(* either process may die, and everything that is not in a file is lost.   *)
(*                                                                         *)
(* Bytes are abstracted to their offset in the followed file: byte i of    *)
(* the file is the number i, so the text (lo, hi] is Iota(lo, hi).         *)
(***************************************************************************)
EXTENDS Integers, Sequences, Functions

CONSTANTS
    MaxLen,     \* bound: length the followed file may reach
    LineEnds,   \* offsets of the file's line feeds
    BufSize,    \* capacity of the follower's read buffer (BUFSIZE)
    Room,       \* text one DATA message carries (BUFSIZE - cb0)
    MaxConn,    \* bound: connections; the last one never fails
    Modes,      \* aggregator configurations: "separate", "merge", "both"
    MayFail,    \* may open() of a destination file fail?
    InOrder,    \* are an abandoned connection's bytes read before newer ones?
    NoChannel   \* "this connection has no channel"

ASSUME SizesAssumption == /\ MaxLen \in Nat
                          /\ LineEnds \subseteq Nat
                          /\ BufSize \in Nat \ {0}
                          /\ Room \in Nat \ {0}
                          /\ MaxConn \in Nat \ {0}
ASSUME ModesAssumption == /\ Modes \subseteq {"separate", "merge", "both"}
                          /\ Modes # {}
                          /\ MayFail \in BOOLEAN
                          /\ InOrder \in BOOLEAN
ASSUME NoChannelAssumption == NoChannel \notin Seq(Nat)

VARIABLES
    written,  \* length of the followed file
    \* ---- follower process
    pc,       \* where its only thread is
    sock,     \* the socket of sc_aggregator_connection, 0 for -1
    opened,   \* does the context hold an open file (_fd)?
    fpos,     \* file offset of _fd
    buf,      \* unread bytes of the context's buffer: (lo, hi]
    msgbuf,   \* the context's message_buffer
    chan,     \* the context's channel number, 0 before the first INIT
    \* ---- TCP
    nconn,    \* connections made so far; they are numbered in order
    up,       \* connections whose two ends can still talk
    req,      \* per connection, bytes sent and not yet read by the aggregator
    resp,     \* per connection, bytes sent and not yet read by the follower
    \* ---- aggregator process
    conns,    \* accepted connections (sc_connection objects)
    chans,    \* per connection, the buffer of its channel, or NoChannel
    agg,      \* where its only thread is
    \* ---- aggregator's disk
    mode,     \* f_separate and f_merge of the matching aggregate context
    sep,      \* the separate file
    mrg       \* the merged file: one sequence of bytes for each "host: "

follower == <<pc, sock, opened, fpos, buf, msgbuf, chan>>
network  == <<nconn, up, req, resp>>
memory   == <<conns, chans, agg>>
disk     == <<mode, sep, mrg>>
vars     == <<written, follower, network, memory, disk>>

Conn == 1..MaxConn

(* The bytes lo+1 .. hi of the followed file. *)
Iota(lo, hi) == [i \in 1..(hi - lo) |-> lo + i]

Smaller(m, n) == IF m < n THEN m ELSE n

----------------------------------------------------------------------------
(* Messages.  lo, hi, eol: the text of a DATA and its "line completed" bit. *)

Request == [code : {"INIT", "DATA"}, channel : Nat,
            lo : Nat, hi : Nat, eol : BOOLEAN]

Reply == [code : {"OK"}, channel : Nat, pos : Nat, hash : Seq(Nat)]

NoMessage == [code |-> "NONE", channel |-> 0, lo |-> 0, hi |-> 0, eol |-> FALSE]

InitMessage == [code |-> "INIT", channel |-> 0, lo |-> 0, hi |-> 0, eol |-> FALSE]

(* pos and hash: what an INIT is answered with.  The digest stands for what *)
(* it is computed from, the content of the separate file; a missing file    *)
(* and an empty one are alike here, the follower compares neither.          *)
InitReply(id) == [code |-> "OK", channel |-> id, pos |-> Len(sep), hash |-> sep]

DataReply(id) == [code |-> "OK", channel |-> id, pos |-> 0, hash |-> << >>]

----------------------------------------------------------------------------
Init ==
    /\ written \in 0..MaxLen
    /\ pc = "reconnect"
    /\ sock = 0
    /\ opened = FALSE
    /\ fpos = 0
    /\ buf = [lo |-> 0, hi |-> 0]
    /\ msgbuf = NoMessage
    /\ chan = 0
    /\ nconn = 0
    /\ up = {}
    /\ req = [c \in Conn |-> << >>]
    /\ resp = [c \in Conn |-> << >>]
    /\ conns = {}
    /\ chans = [c \in Conn |-> NoChannel]
    /\ agg = [pc |-> "idle", conn |-> 0, msg |-> NoMessage]
    /\ mode \in Modes
    /\ sep = << >>
    /\ mrg = << >>

----------------------------------------------------------------------------
(* The application that owns the log. *)

Write ==
    /\ written' \in (written + 1)..MaxLen
    /\ UNCHANGED <<follower, network, memory, disk>>

----------------------------------------------------------------------------
(* The follower. *)

(* sc_aggregator_connection_send_message: the message is under way, or it is *)
(* lost on a dead connection that TCP has not reported yet, or the send      *)
(* fails and the socket is closed.                                           *)
SendSucceeds(m) ==
    /\ sock # 0
    /\ req' = IF sock \in up THEN [req EXCEPT ![sock] = Append(@, m)] ELSE req
    /\ UNCHANGED sock

(* Mutant: the closed socket is stored as -1 and tested as 0. *)
MutantSendFails ==
    /\ sock \notin up
    /\ sock' = -1
    /\ UNCHANGED req

SendFails ==
    /\ sock \notin up
    /\ sock' = 0
    /\ UNCHANGED req

(* sc_aggregator_connection_receive_message finds no answer: recvall returned *)
(* an error and the socket is closed, or it returned 0 and the socket stays.  *)
ReceiveFails ==
    /\ sock \notin up
    /\ sock # 0 => resp[sock] = << >>
    /\ sock' \in {0, sock}

(* Mutant: the file stays open, so no INIT follows. *)
MutantResetKeepsFile ==
    /\ fpos' = 0
    /\ buf' = [lo |-> 0, hi |-> 0]
    /\ msgbuf' = NoMessage
    /\ pc' = "run"
    /\ UNCHANGED <<opened, chan>>

(* Mutant: az_buffer_reset forgotten. *)
MutantResetKeepsBuffer ==
    /\ opened' = FALSE
    /\ fpos' = 0
    /\ msgbuf' = NoMessage
    /\ pc' = "run"
    /\ UNCHANGED <<buf, chan>>

(* sc_follow_context_reset, for every context, then                          *)
(* sc_aggregator_connection_open.  A connect that fails leaves the socket     *)
(* what it was, a dead one included.                                          *)
ResetContext ==
    /\ opened' = FALSE
    /\ fpos' = 0
    /\ buf' = [lo |-> 0, hi |-> 0]
    /\ msgbuf' = NoMessage
    /\ pc' = "run"
    /\ UNCHANGED chan

Reconnect ==
    /\ pc = "reconnect"
    /\ nconn < MaxConn
    /\ ResetContext
    /\ nconn' = nconn + 1
    /\ sock' = nconn + 1
    /\ up' = up \union {nconn + 1}
    /\ UNCHANGED <<written, req, resp, memory, disk>>

ReconnectFails ==
    /\ pc = "reconnect"
    /\ ResetContext
    /\ UNCHANGED <<written, sock, network, memory, disk>>

(* Mutant: the result ERR_MUST_RECONNECT is dropped. *)
MutantMustReconnect ==
    /\ pc = "run"
    /\ sock = 0
    /\ UNCHANGED vars

(* _run_follow_context on a connection known to be closed. *)
MustReconnect ==
    /\ pc = "run"
    /\ sock = 0
    /\ pc' = "reconnect"
    /\ UNCHANGED <<written, sock, opened, fpos, buf, msgbuf, chan,
                   network, memory, disk>>

(* _run_follow_context opens the file and _init_file sends INIT.  A failed    *)
(* INIT is ignored: control goes on to the read.                              *)
OpenFile ==
    /\ pc = "run"
    /\ sock # 0
    /\ ~opened
    /\ opened' = TRUE
    /\ fpos' = 0
    /\ \/ SendSucceeds(InitMessage) /\ pc' = "init"
       \/ SendFails /\ pc' = "read"
    /\ UNCHANGED <<written, buf, msgbuf, chan, nconn, up, resp, memory, disk>>

(* _init_file checks the digest of the aggregator's copy against the first    *)
(* pos bytes of the followed file.                                            *)
HashMatches(r) == /\ r.pos <= written
                  /\ r.hash = Iota(0, r.pos)

AfterInit == IF pc = "init" THEN "read" ELSE "send"

(* Mutant: the lseek to the resume position is forgotten. *)
MutantInitAnswered ==
    /\ pc \in {"init", "init again"}
    /\ sock # 0
    /\ resp[sock] # << >>
    /\ HashMatches(Head(resp[sock]))
    /\ chan' = Head(resp[sock]).channel
    /\ resp' = [resp EXCEPT ![sock] = Tail(@)]
    /\ pc' = AfterInit
    /\ UNCHANGED <<written, sock, opened, fpos, buf, msgbuf, nconn, up, req,
                   memory, disk>>

(* _init_file takes the answer: channel and resume position. *)
InitAnswered ==
    /\ pc \in {"init", "init again"}
    /\ sock # 0
    /\ resp[sock] # << >>
    /\ LET r == Head(resp[sock])
       IN  /\ HashMatches(r)
           /\ chan' = r.channel
           /\ fpos' = r.pos
    /\ resp' = [resp EXCEPT ![sock] = Tail(@)]
    /\ pc' = AfterInit
    /\ UNCHANGED <<written, sock, opened, buf, msgbuf, nconn, up, req,
                   memory, disk>>

(* "mhash invalid!!!": the follower exits. *)
HashInvalid ==
    /\ pc \in {"init", "init again"}
    /\ sock # 0
    /\ resp[sock] # << >>
    /\ ~HashMatches(Head(resp[sock]))
    /\ pc' = "exited"
    /\ up' = up \ {sock}
    /\ resp' = [resp EXCEPT ![sock] = << >>]
    /\ UNCHANGED <<written, sock, opened, fpos, buf, msgbuf, chan, nconn, req,
                   memory, disk>>

InitFails ==
    /\ pc \in {"init", "init again"}
    /\ ReceiveFails
    /\ pc' = AfterInit
    /\ UNCHANGED <<written, opened, fpos, buf, msgbuf, chan, network,
                   memory, disk>>

(* az_buffer_fetch_file refills an empty buffer from the file. *)
Fetched == IF buf.lo < buf.hi
           THEN buf
           ELSE [lo |-> fpos, hi |-> Smaller(fpos + BufSize, written)]

(* az_buffer_read_line: a piece ends at the first line feed, at the end of    *)
(* what was fetched, or when the message is full.                             *)
EndsPiece(e, lo, hi) ==
    /\ e \in (lo + 1)..Smaller(lo + Room, hi)
    /\ e \in LineEnds \/ e = Smaller(lo + Room, hi)
    /\ \A k \in (lo + 1)..(e - 1) : k \notin LineEnds

(* Is control at _sc_follow_context_read_line?  From "run" the file is open   *)
(* and the message buffer free; from "read" an INIT has just been tried.      *)
AtRead == \/ pc = "read"
          \/ pc = "run" /\ sock # 0 /\ opened

(* A piece is read into the message buffer.  With no channel yet, INIT is     *)
(* tried again before the message is sent.                                    *)
ReadLine ==
    /\ AtRead
    /\ Fetched.lo < Fetched.hi
    /\ \E e \in (Fetched.lo + 1)..Fetched.hi :
          /\ EndsPiece(e, Fetched.lo, Fetched.hi)
          /\ buf' = [Fetched EXCEPT !.lo = e]
          /\ msgbuf' = [code |-> "DATA", channel |-> chan,
                        lo |-> Fetched.lo, hi |-> e, eol |-> e \in LineEnds]
    /\ fpos' = IF buf.lo < buf.hi THEN fpos ELSE Fetched.hi
    /\ \/ /\ chan # 0
          /\ pc' = "send"
          /\ UNCHANGED <<sock, req>>
       \/ /\ chan = 0
          /\ \/ SendSucceeds(InitMessage) /\ pc' = "init again"
             \/ SendFails /\ pc' = "send"
    /\ UNCHANGED <<written, opened, chan, nconn, up, resp, memory, disk>>

(* End of file after an INIT: back to the main loop. *)
NothingToRead ==
    /\ pc = "read"
    /\ Fetched.lo >= Fetched.hi
    /\ pc' = "run"
    /\ UNCHANGED <<written, sock, opened, fpos, buf, msgbuf, chan,
                   network, memory, disk>>

(* Mutant: the next piece is sent without waiting for the answer. *)
MutantSendData ==
    /\ pc = "send"
    /\ msgbuf' = NoMessage
    /\ \/ SendSucceeds([msgbuf EXCEPT !.channel = chan]) /\ pc' = "run"
       \/ SendFails /\ pc' = "reconnect"
    /\ UNCHANGED <<written, opened, fpos, buf, chan, nconn, up, resp,
                   memory, disk>>

(* _sc_follow_context_proc_data sends the message; its channel field is the   *)
(* one the latest INIT gave.                                                  *)
SendData ==
    /\ pc = "send"
    /\ msgbuf' = [msgbuf EXCEPT !.channel = chan]
    /\ \/ SendSucceeds([msgbuf EXCEPT !.channel = chan]) /\ pc' = "data"
       \/ SendFails /\ pc' = "reconnect"
    /\ UNCHANGED <<written, opened, fpos, buf, chan, nconn, up, resp,
                   memory, disk>>

(* The answer is OK: the message buffer is free again. *)
DataAnswered ==
    /\ pc = "data"
    /\ sock # 0
    /\ resp[sock] # << >>
    /\ resp' = [resp EXCEPT ![sock] = Tail(@)]
    /\ msgbuf' = NoMessage
    /\ pc' = "run"
    /\ UNCHANGED <<written, sock, opened, fpos, buf, chan, nconn, up, req,
                   memory, disk>>

DataFails ==
    /\ pc = "data"
    /\ ReceiveFails
    /\ pc' = "reconnect"
    /\ UNCHANGED <<written, opened, fpos, buf, msgbuf, chan, network,
                   memory, disk>>

----------------------------------------------------------------------------
(* The aggregator.  One thread; "idle" is epoll_wait. *)

FSeparate == mode \in {"separate", "both"}
FMerge    == mode \in {"merge", "both"}

(* run_main: accept, sc_connection_new.  A connection that died and left       *)
(* nothing to read would be accepted and closed at once: it is left out.       *)
Accept(c) ==
    /\ agg.pc = "idle"
    /\ c \in 1..nconn
    /\ c \notin conns
    /\ c \in up \/ req[c] # << >>
    /\ conns' = conns \union {c}
    /\ chans' = [chans EXCEPT ![c] = NoChannel]
    /\ UNCHANGED <<written, follower, network, agg, disk>>

(* Mutant: a second thread serves connections while a handler is at work. *)
MutantReceives(c, code) ==
    /\ c \in conns
    /\ req[c] # << >>
    /\ Head(req[c]).code = code
    /\ InOrder => \A d \in 1..(c - 1) : req[d] = << >>

(* do_receive is called for connection c and a whole message is there. *)
Receives(c, code) ==
    /\ agg.pc = "idle"
    /\ c \in conns
    /\ req[c] # << >>
    /\ Head(req[c]).code = code
    /\ InOrder => \A d \in 1..(c - 1) : req[d] = << >>

(* sendall of an answer; on a dead connection it goes nowhere. *)
Answer(c, r) == resp' = IF c \in up THEN [resp EXCEPT ![c] = Append(@, r)] ELSE resp

(* handler_init: a new channel, answered with the size of the separate file. *)
HandlerInit(c) ==
    /\ Receives(c, "INIT")
    /\ req' = [req EXCEPT ![c] = Tail(@)]
    /\ chans' = [chans EXCEPT ![c] = << >>]
    /\ Answer(c, InitReply(1))
    /\ UNCHANGED <<written, follower, nconn, up, conns, agg, disk>>

(* Mutant: a piece that does not fit the buffer is dropped. *)
MutantHandlerDataPart(c) ==
    /\ Receives(c, "DATA")
    /\ ~Head(req[c]).eol
    /\ Answer(c, DataReply(Head(req[c]).channel))
    /\ req' = [req EXCEPT ![c] = Tail(@)]
    /\ UNCHANGED <<written, follower, nconn, up, memory, disk>>

(* handler_data, line not completed: the text waits in the channel's buffer. *)
HandlerDataPart(c) ==
    /\ Receives(c, "DATA")
    /\ LET m == Head(req[c])
       IN  /\ ~m.eol
           /\ chans' = [chans EXCEPT ![c] = @ \o Iota(m.lo, m.hi)]
           /\ Answer(c, DataReply(m.channel))
    /\ req' = [req EXCEPT ![c] = Tail(@)]
    /\ UNCHANGED <<written, follower, nconn, up, conns, agg, disk>>

(* Mutant: separate, else merge. *)
MutantHandlerDataLine(c) ==
    /\ Receives(c, "DATA")
    /\ Head(req[c]).eol
    /\ agg' = [pc |-> IF FSeparate THEN "append buffer" ELSE "merge buffer",
               conn |-> c, msg |-> Head(req[c])]
    /\ req' = [req EXCEPT ![c] = Tail(@)]
    /\ UNCHANGED <<written, follower, nconn, up, resp, conns, chans, disk>>

(* handler_data, line completed: the writes follow one by one. *)
HandlerDataLine(c) ==
    /\ Receives(c, "DATA")
    /\ Head(req[c]).eol
    /\ agg' = [pc |-> IF FMerge THEN "merge buffer" ELSE "append buffer",
               conn |-> c, msg |-> Head(req[c])]
    /\ req' = [req EXCEPT ![c] = Tail(@)]
    /\ UNCHANGED <<written, follower, nconn, up, resp, conns, chans, disk>>

AfterMerge == IF FSeparate THEN "append buffer" ELSE "answer"

Text == Iota(agg.msg.lo, agg.msg.hi)

(* Mutant: the held back text is dropped. *)
MutantMergeDrops ==
    /\ agg.pc = "merge buffer"
    /\ mrg' = Append(mrg, << >>)
    /\ chans' = [chans EXCEPT ![agg.conn] = << >>]
    /\ agg' = [agg EXCEPT !.pc = "merge text"]
    /\ UNCHANGED <<written, follower, network, conns, mode, sep>>

(* Mutant: az_buffer_reset forgotten. *)
MutantMergeKeeps ==
    /\ agg.pc = "merge buffer"
    /\ mrg' = Append(mrg, chans[agg.conn])
    /\ agg' = [agg EXCEPT !.pc = "merge text"]
    /\ UNCHANGED <<written, follower, network, conns, chans, mode, sep>>

(* _do_merge_file: "host: ", then the held back text, and the buffer is reset. *)
MergeBuffer ==
    /\ agg.pc = "merge buffer"
    /\ mrg' = Append(mrg, chans[agg.conn])
    /\ chans' = [chans EXCEPT ![agg.conn] = << >>]
    /\ agg' = [agg EXCEPT !.pc = "merge text"]
    /\ UNCHANGED <<written, follower, network, conns, mode, sep>>

(* _do_merge_file: the text of the message. *)
MergeText ==
    /\ agg.pc = "merge text"
    /\ mrg' = [mrg EXCEPT ![Len(mrg)] = @ \o Text]
    /\ agg' = [agg EXCEPT !.pc = AfterMerge]
    /\ UNCHANGED <<written, follower, network, conns, chans, mode, sep>>

(* Mutant: az_buffer_reset forgotten. *)
MutantAppendKeeps ==
    /\ agg.pc = "append buffer"
    /\ sep' = sep \o chans[agg.conn]
    /\ agg' = [agg EXCEPT !.pc = "append text"]
    /\ UNCHANGED <<written, follower, network, conns, chans, mode, mrg>>

(* _do_append_file: the held back text, and the buffer is reset. *)
AppendBuffer ==
    /\ agg.pc = "append buffer"
    /\ sep' = sep \o chans[agg.conn]
    /\ chans' = [chans EXCEPT ![agg.conn] = << >>]
    /\ agg' = [agg EXCEPT !.pc = "append text"]
    /\ UNCHANGED <<written, follower, network, conns, mode, mrg>>

(* _do_append_file: the text of the message. *)
AppendText ==
    /\ agg.pc = "append text"
    /\ sep' = sep \o Text
    /\ agg' = [agg EXCEPT !.pc = "answer"]
    /\ UNCHANGED <<written, follower, network, conns, chans, mode, mrg>>

(* Either open() fails: nothing is written, the buffer is kept, and           *)
(* handler_data does not look at the result.                                  *)
WriteFails ==
    /\ MayFail
    /\ \/ agg.pc = "merge buffer"  /\ agg' = [agg EXCEPT !.pc = AfterMerge]
       \/ agg.pc = "append buffer" /\ agg' = [agg EXCEPT !.pc = "answer"]
    /\ UNCHANGED <<written, follower, network, conns, chans, disk>>

(* Mutant: handler_data returns before it answers. *)
MutantAnswerData ==
    /\ agg.pc = "answer"
    /\ agg' = [agg EXCEPT !.pc = "idle"]
    /\ UNCHANGED <<written, follower, network, conns, chans, disk>>

(* The end of handler_data: OK in any case. *)
AnswerData ==
    /\ agg.pc = "answer"
    /\ Answer(agg.conn, DataReply(agg.msg.channel))
    /\ agg' = [agg EXCEPT !.pc = "idle"]
    /\ UNCHANGED <<written, follower, nconn, up, req, conns, chans, disk>>

(* do_receive at end of file or on an error: close, sc_connection_destroy. *)
CloseConnection(c) ==
    /\ agg.pc = "idle"
    /\ c \in conns
    /\ c \notin up
    /\ req[c] = << >>
    /\ conns' = conns \ {c}
    /\ chans' = [chans EXCEPT ![c] = NoChannel]
    /\ UNCHANGED <<written, follower, network, agg, disk>>

----------------------------------------------------------------------------
(* Failures. *)

(* A connection breaks.  What was under way may be lost; what the aggregator's *)
(* kernel already holds can still be read.                                     *)
Break(c) ==
    /\ c \in up
    /\ c < MaxConn
    /\ up' = up \ {c}
    /\ \E l \in {<< >>, req[c]}  : req'  = [req  EXCEPT ![c] = l]
    /\ \E l \in {<< >>, resp[c]} : resp' = [resp EXCEPT ![c] = l]
    /\ UNCHANGED <<written, follower, nconn, memory, disk>>

(* The follower dies and is started again. *)
FollowerRestarts ==
    /\ nconn < MaxConn
    /\ pc' = "reconnect"
    /\ sock' = 0
    /\ opened' = FALSE
    /\ fpos' = 0
    /\ buf' = [lo |-> 0, hi |-> 0]
    /\ msgbuf' = NoMessage
    /\ chan' = 0
    /\ up' = {}
    /\ \E L \in SUBSET up : req' = [c \in Conn |-> IF c \in L THEN << >> ELSE req[c]]
    /\ resp' = [c \in Conn |-> << >>]
    /\ UNCHANGED <<written, nconn, memory, disk>>

(* The aggregator dies, between any two of its writes, and is started again. *)
AggregatorRestarts ==
    /\ MaxConn \notin up
    /\ up' = {}
    /\ req' = [c \in Conn |-> << >>]
    /\ \E L \in SUBSET up : resp' = [c \in Conn |-> IF c \in L THEN << >> ELSE resp[c]]
    /\ conns' = {}
    /\ chans' = [c \in Conn |-> NoChannel]
    /\ agg' = [pc |-> "idle", conn |-> 0, msg |-> NoMessage]
    /\ UNCHANGED <<written, follower, nconn, disk>>

----------------------------------------------------------------------------
FollowerStep == \/ MustReconnect \/ OpenFile
                \/ InitAnswered \/ InitFails \/ HashInvalid
                \/ ReadLine \/ NothingToRead
                \/ SendData \/ DataAnswered \/ DataFails
                \/ ReconnectFails

HandlerStep == MergeBuffer \/ MergeText \/ AppendBuffer \/ AppendText \/ AnswerData

EventStep(c) == \/ Accept(c) \/ CloseConnection(c)
                \/ HandlerInit(c) \/ HandlerDataPart(c) \/ HandlerDataLine(c)

Next == \/ Write
        \/ FollowerStep
        \/ Reconnect
        \/ HandlerStep
        \/ WriteFails
        \/ \E c \in Conn : EventStep(c) \/ Break(c)
        \/ FollowerRestarts
        \/ AggregatorRestarts

(* Both processes keep running; a listening aggregator is reached by one of   *)
(* infinitely many attempts to connect.                                       *)
Fairness == /\ WF_vars(FollowerStep)
            /\ SF_vars(Reconnect)
            /\ WF_vars(HandlerStep)
            /\ \A c \in Conn : WF_vars(EventStep(c))

Spec == Init /\ [][Next]_vars /\ Fairness
----------------------------------------------------------------------------
(* Properties. *)

FollowerType ==
    /\ pc \in {"run", "init", "init again", "read", "send", "data",
              "reconnect", "exited"}
    /\ sock \in 0..nconn
    /\ opened \in BOOLEAN
    /\ fpos \in Nat
    /\ buf \in [lo : Nat, hi : Nat]
    /\ msgbuf \in Request \union {NoMessage}
    /\ chan \in Nat

NetworkType ==
    /\ nconn \in 0..MaxConn
    /\ up \in SUBSET (1..nconn)
    /\ req \in [Conn -> Seq(Request)]
    /\ resp \in [Conn -> Seq(Reply)]

MemoryType ==
    /\ conns \in SUBSET (1..nconn)
    /\ chans \in [Conn -> Seq(Nat) \union {NoChannel}]
    /\ agg \in [pc : {"idle", "merge buffer", "merge text", "append buffer",
                      "append text", "answer"},
                conn : 0..MaxConn, msg : Request \union {NoMessage}]

DiskType ==
    /\ mode \in Modes
    /\ sep \in Seq(Nat)
    /\ mrg \in Seq(Seq(Nat))

(* Every variable has its type. *)
TypeOK == /\ written \in 0..MaxLen
          /\ FollowerType
          /\ NetworkType
          /\ MemoryType
          /\ DiskType

(* The separate file is an exact prefix of the followed file: whatever breaks, *)
(* no byte is lost, repeated or moved (handler_init's position, handler_data's *)
(* buffer, and the resume in _init_file agree).                                *)
SepPrefix == sep = Iota(0, Len(sep)) /\ Len(sep) <= written

(* The follower never finds that the aggregator's copy differs from its file   *)
(* (main.c exits on "mhash invalid!!!").                                       *)
HashAgrees == pc # "exited"

(* While a connection lives, every byte the follower has put behind it was     *)
(* stored: it is in a file or waits in this connection's channel, so answering *)
(* OK before the line is complete loses nothing.                               *)
Unread == IF buf.lo < buf.hi THEN buf.lo ELSE fpos

Merged == UNION {Range(mrg[i]) : i \in DOMAIN mrg}

Stored == (IF FMerge THEN Merged ELSE Range(sep)) \union
          (IF chans[sock] = NoChannel THEN {} ELSE Range(chans[sock]))

AckedStored ==
    pc = "run" /\ opened /\ sock \in up /\ chans[sock] # NoChannel =>
        1..Unread \subseteq Stored

(* Stop and wait: between the follower and the handler at work at most one     *)
(* message of a connection exists.  do_receive reads one message for each edge *)
(* epoll reports, so a second one would lie unread.                            *)
StopAndWait ==
    \A c \in Conn : Len(req[c]) + Len(resp[c])
                      + (IF agg.pc # "idle" /\ agg.conn = c THEN 1 ELSE 0) <= 1

(* A DATA finds its channel, and an INIT finds none: do_receive never looks up *)
(* a channel its connection does not have, and no connection has two.          *)
ChannelKnown ==
    \A c \in Conn : req[c] # << >> =>
        LET m == Head(req[c])
        IN  IF m.code = "INIT" THEN chans[c] = NoChannel
            ELSE m.channel # 0 /\ chans[c] # NoChannel

(* The bytes of the separate file are in the order of the followed file and    *)
(* none is there twice, whatever the mode.                                     *)
SepIncreasing == \A i \in 1..(Len(sep) - 1) : sep[i] < sep[i + 1]

(* After each "host: " of the merged file stands the beginning of one line of  *)
(* the followed file, the whole line unless the aggregator died meanwhile: two *)
(* lines are never joined nor is the start of one missing.                     *)
OneLine(t) ==
    t # << >> =>
        /\ t = Iota(t[1] - 1, t[1] - 1 + Len(t))
        /\ t[1] - 1 \in LineEnds \union {0}
        /\ \A i \in 1..(Len(t) - 1) : t[i] \notin LineEnds

MergedRecords == \A i \in DOMAIN mrg : OneLine(mrg[i])

(* handler_data merges before it appends: a crash between the two repeats a    *)
(* line in the merged file and never loses it there.                           *)
MergedCoversSep == FMerge => Range(sep) \subseteq Merged

(* Only the newest connection that got a channel still changes the files: a    *)
(* message of an abandoned connection is never written behind the back of the  *)
(* INIT that fixed the resume position.                                        *)
NoStaleWrite ==
    [][<<sep, mrg>>' # <<sep, mrg>> =>
          \A c \in Conn : c > agg.conn => chans[c] = NoChannel]_vars

(* The separate file implements the log copy. *)
Copy == INSTANCE LogCopy WITH copy <- sep

ImplementsCopy == Copy!Spec

(* Every line the application finishes reaches the merged file. *)
MergedEventually ==
    \A e \in LineEnds \cap 1..MaxLen :
        (mode = "merge" /\ written >= e) ~> (e \in Merged)
==============================================================================
