------------------------------- MODULE Framing -------------------------------
(***************************************************************************)
(* Messages over byte streams.  A follower writes a message with sendall    *)
(* and waits for the answer; the network delivers any part of what was      *)
(* written; the aggregator, one thread for all connections, reads a header  *)
(* and then the content it announces with recvall, which polls until all of *)
(* it is there or the stream has ended, and reads one message for each      *)
(* event of an edge-triggered epoll.  On a follower that rotates names, the *)
(* SIGALRM handler sends a message and waits for an answer of its own       *)
(* between any two system calls of the main loop.                           *)
(*                                                                         *)
(* A stream is all that was ever written to it; what has arrived and what   *)
(* was read are numbers.  A unit of it knows which message it belongs to,   *)
(* its place in it and the length the header announces.  What messages say  *)
(* and how a follower reconnects are in Transfer and Channels.              *)
(***************************************************************************)
EXTENDS Integers, Sequences, FiniteSetsExt

CONSTANTS
    Conns,     \* connections, each of one follower
    Rotating,  \* those on which the SIGALRM handler sends RELE
    Roomy,     \* those whose socket takes any message at once
    HeadLen,   \* units of a header
    Contents,  \* lengths of a content
    RespLen,   \* length of an answer's content
    MaxMsgs,   \* bound: messages written, on all connections
    MaxOver,   \* bound: connections that end
    NoConn     \* a value that is not a connection

(* BUFSIZE and the header are less than the least send buffer of a socket,   *)
(* and at most two messages are under way on a connection.                   *)
ASSUME RoomAssumption == Rotating \subseteq Roomy /\ Roomy \subseteq Conns
ASSUME LengthAssumption ==
    HeadLen \in Nat \ {0} /\ Contents \subseteq Nat /\ RespLen \in Nat
ASSUME NoConnAssumption == NoConn \notin Conns
ASSUME BoundAssumption == MaxMsgs \in Nat /\ MaxOver \in Nat

VARIABLES
    \* ---- followers
    call,     \* the exchange main loop and handler are in
    \* ---- network
    out,      \* the bytes written by the follower
    arrived,  \* how many of them the aggregator's socket has
    back,     \* the bytes written by the aggregator
    heard,    \* how many of them the follower has read
    over,     \* "no", "closed" by the follower, "reset", or "mute": its host is gone
    eof,      \* connections whose end has reached the aggregator
    \* ---- aggregator
    agg,      \* where its thread is
    taken,    \* bytes it has read
    ready,    \* connections epoll has an event for
    batch,    \* those the last epoll_wait returned and do_receive was not called for
    closed,   \* connections closed and destroyed
    handled   \* history: the messages handlers were called with

network    == <<out, arrived, back, heard, over, eof>>
aggregator == <<agg, taken, ready, batch, closed, handled>>
vars       == <<call, network, aggregator>>

(* A length that nobody meant: longer than all that will ever come. *)
Huge == 1000000
Lengths == Contents \cup {0, RespLen, Huge}

Unit == [msg : Nat, at : Nat, len : Contents \cup {RespLen}]

Units(m, len, from, to) ==
    [i \in 1..(to - from) |-> [msg |-> m, at |-> from + i - 1, len |-> len]]
LastMsg(s) == IF s = << >> THEN 0 ELSE s[Len(s)].msg
(* An exchange: sending (n units of message msg are written), or reading the *)
(* header or the content of an answer (n units of it read), of: whose.       *)
Frame == [at : {"idle", "send", "head", "body"}, msg : Nat, n : Nat,
          len : Lengths, of : Nat]
Idle  == [at |-> "idle", msg |-> 0, n |-> 0, len |-> 0, of |-> 0]

Waiting == [at |-> "wait", conn |-> NoConn, msg |-> 0, n |-> 0, len |-> 0]

Init ==
    /\ call = [c \in Conns |-> [main |-> Idle, sig |-> Idle]]
    /\ out = [c \in Conns |-> << >>]
    /\ arrived = [c \in Conns |-> 0]
    /\ back = [c \in Conns |-> << >>]
    /\ heard = [c \in Conns |-> 0]
    /\ over = [c \in Conns |-> "no"]
    /\ eof = {}
    /\ agg = Waiting
    /\ taken = [c \in Conns |-> 0]
    /\ ready = {}
    /\ batch = {}
    /\ closed = {}
    /\ handled = [c \in Conns |-> << >>]

----------------------------------------------------------------------------
(* The followers.  The main loop stands still while the handler runs.        *)

Top(c) == IF call[c].sig.at # "idle" THEN "sig" ELSE "main"
At(c, at) == call[c][Top(c)].at = at
Goto(c, frame) == call' = [call EXCEPT ![c][Top(c)] = frame]

(* Messages written, and those about to be: for the bound. *)
Begun == MapThenSumSet(LAMBDA c :
    LastMsg(out[c]) + Cardinality({p \in {"main", "sig"} :
                                      call[c][p].at = "send" /\ call[c][p].n = 0}), Conns)

(* Mutant: a message may follow before the answer to the last one is read. *)
MutantBegin(c) ==
    /\ over[c] = "no"
    /\ call[c].main.at \in {"idle", "head"}
    /\ Begun < MaxMsgs
    /\ \E len \in Contents : Goto(c, [Idle EXCEPT !.at = "send", !.len = len])
    /\ UNCHANGED <<network, aggregator>>

(* The main loop has an INIT or a DATA to send. *)
Begin(c) ==
    /\ over[c] = "no"
    /\ At(c, "idle")
    /\ Begun < MaxMsgs
    /\ \E len \in Contents : Goto(c, [Idle EXCEPT !.at = "send", !.len = len])
    /\ UNCHANGED <<network, aggregator>>

(* sc_follow_context_close: a RELE. *)
Alarm(c) ==
    /\ over[c] = "no"
    /\ c \in Rotating
    /\ call[c].sig.at = "idle"
    /\ Begun < MaxMsgs
    /\ call' = [call EXCEPT ![c].sig = [Idle EXCEPT !.at = "send", !.len = RespLen]]
    /\ UNCHANGED <<network, aggregator>>

AwaitAnswer(m) == [Idle EXCEPT !.at = "head", !.msg = m]

(* One send of sendall: as much as the socket takes, then on with the rest.  *)
SendTo(c, m, frame, k) ==
    /\ out' = [out EXCEPT ![c] = @ \o Units(m, frame.len, frame.n, k)]
    /\ Goto(c, IF k = HeadLen + frame.len THEN AwaitAnswer(m)
               ELSE [frame EXCEPT !.n = k, !.msg = m])

(* Mutant: no socket takes a message at once. *)
MutantSendSome(c) ==
    LET frame == call[c][Top(c)]
        m     == IF frame.n = 0 THEN LastMsg(out[c]) + 1 ELSE frame.msg IN
    /\ over[c] = "no"
    /\ At(c, "send")
    /\ \E k \in (frame.n + 1)..(HeadLen + frame.len) : SendTo(c, m, frame, k)
    /\ UNCHANGED <<arrived, back, heard, over, eof, aggregator>>

SendSome(c) ==
    LET frame == call[c][Top(c)]
        m     == IF frame.n = 0 THEN LastMsg(out[c]) + 1 ELSE frame.msg
        size  == HeadLen + frame.len IN
    /\ over[c] = "no"
    /\ At(c, "send")
    /\ \E k \in (IF c \in Roomy THEN {size} ELSE (frame.n + 1)..size) :
           SendTo(c, m, frame, k)
    /\ UNCHANGED <<arrived, back, heard, over, eof, aggregator>>

(* sendall returns what it has sent, if anything, and that is no error.      *)
SendFails(c) ==
    LET frame == call[c][Top(c)] IN
    /\ over[c] = "reset"
    /\ At(c, "send")
    /\ Goto(c, IF frame.n > 0 THEN AwaitAnswer(frame.msg) ELSE Idle)
    /\ UNCHANGED <<network, aggregator>>

Unheard(c) == Len(back[c]) - heard[c]

(* What a header announces: read across the start of a message, or short,    *)
(* it is bytes of something else.                                            *)
Announced(s, upto) ==
    IF upto >= HeadLen /\ s[upto - HeadLen + 1].at = 0
    THEN {[msg |-> s[upto - HeadLen + 1].msg, len |-> s[upto - HeadLen + 1].len]}
    ELSE {[msg |-> 0, len |-> len] : len \in {0, Huge}}

(* Mutant: the content of an answer is not read. *)
MutantHearHead(c) ==
    LET frame == call[c][Top(c)]
        k     == Min({Unheard(c), HeadLen - frame.n}) IN
    /\ over[c] \in {"no", "reset"}
    /\ At(c, "head")
    /\ k > 0
    /\ heard' = [heard EXCEPT ![c] = @ + k]
    /\ IF frame.n + k < HeadLen
       THEN Goto(c, [frame EXCEPT !.n = @ + k])
       ELSE \E head \in Announced(back[c], heard[c] + k) :
                Goto(c, [frame EXCEPT !.at = "body", !.n = head.len, !.len = head.len,
                                      !.of = head.msg])
    /\ UNCHANGED <<out, arrived, back, over, eof, aggregator>>

(* receive_message's first recvall. *)
HearHead(c) ==
    LET frame == call[c][Top(c)]
        k     == Min({Unheard(c), HeadLen - frame.n}) IN
    /\ over[c] \in {"no", "reset"}
    /\ At(c, "head")
    /\ k > 0
    /\ heard' = [heard EXCEPT ![c] = @ + k]
    /\ IF frame.n + k < HeadLen
       THEN Goto(c, [frame EXCEPT !.n = @ + k])
       ELSE \E head \in Announced(back[c], heard[c] + k) :
                Goto(c, [frame EXCEPT !.at = "body", !.n = 0, !.len = head.len,
                                      !.of = head.msg])
    /\ UNCHANGED <<out, arrived, back, over, eof, aggregator>>

(* ... its second. *)
HearBody(c) ==
    LET frame == call[c][Top(c)]
        k     == Min({Unheard(c), frame.len - frame.n}) IN
    /\ over[c] \in {"no", "reset"}
    /\ At(c, "body")
    /\ k > 0
    /\ heard' = [heard EXCEPT ![c] = @ + k]
    /\ Goto(c, [frame EXCEPT !.n = @ + k])
    /\ UNCHANGED <<out, arrived, back, over, eof, aggregator>>

(* receive_message returns 0: also when the end came in the content. *)
Heard(c) ==
    LET frame == call[c][Top(c)] IN
    /\ over[c] \in {"no", "reset"}
    /\ At(c, "body")
    /\ \/ frame.n = frame.len
       \/ over[c] = "reset" /\ Unheard(c) = 0 /\ frame.n > 0
    /\ Goto(c, Idle)
    /\ UNCHANGED <<network, aggregator>>

(* The stream ends at its start (-1 or -4), or between header and content    *)
(* (-3); a header cut short is read as it is.                                *)
HearEnd(c) ==
    LET frame == call[c][Top(c)] IN
    /\ over[c] = "reset"
    /\ Unheard(c) = 0
    /\ \/ /\ At(c, "head") \/ (At(c, "body") /\ frame.len > 0)
          /\ frame.n = 0
          /\ Goto(c, Idle)
       \/ /\ At(c, "head")
          /\ frame.n > 0
          /\ \E len \in {0, Huge} :
                 Goto(c, [frame EXCEPT !.at = "body", !.n = 0, !.len = len])
    /\ UNCHANGED <<network, aggregator>>

----------------------------------------------------------------------------
(* The network and the ends of connections.                                  *)

Arrive(c) ==
    /\ over[c] \in {"no", "closed"}
    /\ \E n \in (arrived[c] + 1)..Len(out[c]) :
           arrived' = [arrived EXCEPT ![c] = n]
    /\ ready' = ready \cup {c}
    /\ UNCHANGED <<call, out, back, heard, over, eof,
                   agg, taken, batch, closed, handled>>

(* The end comes with the last bytes or after them. *)
EndArrives(c) ==
    /\ over[c] = "closed"
    /\ c \notin eof
    /\ arrived' = [arrived EXCEPT ![c] = Len(out[c])]
    /\ eof' = eof \cup {c}
    /\ ready' = ready \cup {c}
    /\ UNCHANGED <<call, out, back, heard, over,
                   agg, taken, batch, closed, handled>>

MayEnd(c) ==
    /\ over[c] = "no"
    /\ Cardinality({d \in Conns : over[d] # "no"}) < MaxOver

(* What the follower was doing and had not read is gone with it. *)
Gone(c) ==
    /\ call' = [call EXCEPT ![c] = [main |-> Idle, sig |-> Idle]]
    /\ back' = [back EXCEPT ![c] = << >>]
    /\ heard' = [heard EXCEPT ![c] = 0]

(* The follower is killed, or exits: what it wrote still arrives. *)
FollowerDies(c) ==
    /\ MayEnd(c)
    /\ over' = [over EXCEPT ![c] = "closed"]
    /\ Gone(c)
    /\ UNCHANGED <<out, arrived, eof, aggregator>>

(* The connection is reset: what has not arrived is lost, both ways. *)
Reset(c) ==
    /\ MayEnd(c)
    /\ over' = [over EXCEPT ![c] = "reset"]
    /\ out' = [out EXCEPT ![c] = SubSeq(@, 1, arrived[c])]
    /\ \E n \in heard[c]..Len(back[c]) :
           back' = [back EXCEPT ![c] = SubSeq(@, 1, n)]
    /\ eof' = eof \cup {c}
    /\ ready' = ready \cup {c}
    /\ UNCHANGED <<call, arrived, heard, agg, taken, batch, closed, handled>>

(* The host vanishes; there is no keepalive that would tell. *)
HostVanishes(c) ==
    /\ MayEnd(c)
    /\ over' = [over EXCEPT ![c] = "mute"]
    /\ out' = [out EXCEPT ![c] = SubSeq(@, 1, arrived[c])]
    /\ Gone(c)
    /\ UNCHANGED <<arrived, eof, aggregator>>

----------------------------------------------------------------------------
(* The aggregator: run_main and do_receive.                                  *)

Unread(c) == arrived[c] - taken[c]

(* Mutant: one connection is served for each return of epoll_wait. *)
MutantEpollWait ==
    /\ agg = Waiting
    /\ batch = {}
    /\ ready # {}
    /\ \E c \in ready : batch' = {c} \ closed
    /\ ready' = {}
    /\ UNCHANGED <<call, network, agg, taken, closed, handled>>

(* Edge triggered: of the sockets something happened to, those that have     *)
(* something to read.                                                        *)
EpollWait ==
    /\ agg = Waiting
    /\ batch = {}
    /\ ready # {}
    /\ batch' = {c \in ready \ closed : Unread(c) > 0 \/ c \in eof}
    /\ ready' = {}
    /\ UNCHANGED <<call, network, agg, taken, closed, handled>>

Receive(c) ==
    /\ agg = Waiting
    /\ c \in batch
    /\ batch' = batch \ {c}
    /\ agg' = [Waiting EXCEPT !.at = "head", !.conn = c]
    /\ UNCHANGED <<call, network, taken, ready, closed, handled>>

(* Mutant: all of a header is taken for read. *)
MutantRecvHead(c) ==
    /\ agg.at = "head" /\ agg.conn = c
    /\ Unread(c) > 0
    /\ taken' = [taken EXCEPT ![c] = @ + HeadLen]
    /\ \E head \in Announced(out[c], taken[c] + HeadLen) :
           agg' = [agg EXCEPT !.at = "body", !.n = 0, !.msg = head.msg, !.len = head.len]
    /\ UNCHANGED <<call, network, ready, batch, closed, handled>>

(* recvall: until all is there; no data is no reason to give up. *)
RecvHead(c) ==
    LET k == Min({Unread(c), HeadLen - agg.n}) IN
    /\ agg.at = "head" /\ agg.conn = c
    /\ k > 0
    /\ taken' = [taken EXCEPT ![c] = @ + k]
    /\ IF agg.n + k < HeadLen
       THEN agg' = [agg EXCEPT !.n = @ + k]
       ELSE \E head \in Announced(out[c], taken[c] + k) :
                agg' = [agg EXCEPT !.at = "body", !.n = 0, !.msg = head.msg,
                                   !.len = head.len]
    /\ UNCHANGED <<call, network, ready, batch, closed, handled>>

RecvBody(c) ==
    LET k == Min({Unread(c), agg.len - agg.n}) IN
    /\ agg.at = "body" /\ agg.conn = c
    /\ k > 0
    /\ taken' = [taken EXCEPT ![c] = @ + k]
    /\ agg' = [agg EXCEPT !.n = @ + k]
    /\ UNCHANGED <<call, network, ready, batch, closed, handled>>

Ended(c) == c \in eof /\ Unread(c) = 0

(* Mutant: the end of a connection is no reason to close it. *)
MutantCloseConnection(c) ==
    /\ agg.at = "head" /\ agg.conn = c
    /\ agg.n = 0
    /\ Ended(c)
    /\ agg' = Waiting
    /\ UNCHANGED <<call, network, taken, ready, batch, closed, handled>>

(* recvall returns 0, or an error, at the start of a header. *)
CloseConnection(c) ==
    /\ agg.at = "head" /\ agg.conn = c
    /\ agg.n = 0
    /\ Ended(c)
    /\ closed' = closed \cup {c}
    /\ agg' = Waiting
    /\ UNCHANGED <<call, network, taken, ready, batch, handled>>

(* A header cut short is taken for a header. *)
ShortHead(c) ==
    /\ agg.at = "head" /\ agg.conn = c
    /\ agg.n > 0
    /\ Ended(c)
    /\ \E len \in {0, Huge} :
           agg' = [agg EXCEPT !.at = "body", !.n = 0, !.len = len]
    /\ UNCHANGED <<call, network, taken, ready, batch, closed, handled>>

(* Every unit of the content belongs to the message its header announced. *)
IsWhole(c) ==
    /\ agg.msg > 0
    /\ agg.n = agg.len
    /\ \A i \in (taken[c] - agg.len + 1)..taken[c] : out[c][i].msg = agg.msg

(* The answer, written at once.  A follower that is gone answers with a      *)
(* reset, which is an event; there may be no answer to a code nobody sends.  *)
Answer(c) ==
    /\ back' = IF over[c] = "no"
               THEN [back EXCEPT ![c] = @ \o Units(agg.msg, RespLen, 0, HeadLen + RespLen)]
               ELSE back
    /\ ready' \in IF over[c] # "closed" THEN {ready}
                  ELSE IF agg.msg = 0 THEN {ready, ready \cup {c}}
                  ELSE {ready \cup {c}}

(* Mutant: the handler is called for a message and again for what follows. *)
MutantHandle(c) ==
    /\ agg.at = "body" /\ agg.conn = c
    /\ agg.n = agg.len \/ Ended(c)
    /\ handled' = [handled EXCEPT ![c] =
           Append(@, [msg |-> agg.msg, whole |-> IsWhole(c)])]
    /\ Answer(c)
    /\ agg' \in {Waiting, agg}
    /\ UNCHANGED <<call, out, arrived, heard, over, eof, taken, batch, closed>>

(* The content is read, or what there was of it: the handler is called. *)
Handle(c) ==
    /\ agg.at = "body" /\ agg.conn = c
    /\ agg.n = agg.len \/ Ended(c)
    /\ handled' = [handled EXCEPT ![c] =
           Append(@, [msg |-> agg.msg, whole |-> IsWhole(c)])]
    /\ Answer(c)
    /\ agg' = Waiting
    /\ UNCHANGED <<call, out, arrived, heard, over, eof, taken, batch, closed>>

----------------------------------------------------------------------------
FollowerNext(c) == SendSome(c) \/ SendFails(c) \/ HearHead(c) \/ HearBody(c)
                   \/ Heard(c) \/ HearEnd(c)

Deliver(c) == Arrive(c) \/ EndArrives(c)

AggregatorNext ==
    \/ EpollWait
    \/ \E c \in Conns : Receive(c) \/ RecvHead(c) \/ RecvBody(c)
                        \/ CloseConnection(c) \/ ShortHead(c) \/ Handle(c)

Next ==
    \/ \E c \in Conns : Begin(c) \/ Alarm(c) \/ FollowerNext(c)
    \/ \E c \in Conns : Deliver(c)
    \/ \E c \in Conns : FollowerDies(c) \/ Reset(c) \/ HostVanishes(c)
    \/ AggregatorNext

(* TCP delivers, the processes run; nothing has to be sent, or to fail. *)
Fairness ==
    /\ \A c \in Conns : WF_vars(Deliver(c)) /\ WF_vars(FollowerNext(c))
    /\ WF_vars(AggregatorNext)

Spec == Init /\ [][Next]_vars /\ Fairness

----------------------------------------------------------------------------
TypeOK ==
    /\ call \in [Conns -> [main : Frame, sig : Frame]]
    /\ out \in [Conns -> Seq(Unit)]
    /\ arrived \in [Conns -> Nat] /\ taken \in [Conns -> Nat] /\ heard \in [Conns -> Nat]
    /\ \A c \in Conns : /\ taken[c] <= arrived[c] /\ arrived[c] <= Len(out[c])
                         /\ heard[c] <= Len(back[c])
    /\ over \in [Conns -> {"no", "closed", "reset", "mute"}]
    /\ eof \in SUBSET Conns /\ ready \in SUBSET Conns
    /\ batch \in SUBSET Conns /\ closed \in SUBSET Conns
    /\ agg \in [at : {"wait", "head", "body"}, conn : Conns \cup {NoConn},
                msg : Nat, n : Nat, len : Lengths]
    /\ handled \in [Conns -> Seq([msg : Nat, whole : BOOLEAN])]

(* Every message a handler is called with is the next one the follower wrote *)
(* and is whole, in spite of signals and of arrivals in parts; only the last *)
(* of a connection whose end was reached may be cut short.                   *)
WholeOrLast ==
    \A c \in Conns : \A i \in DOMAIN handled[c] :
        \/ handled[c][i] = [msg |-> i, whole |-> TRUE]
        \/ i = Len(handled[c]) /\ Ended(c)

(* Where no handler sends, the answer that is read is to what was asked. *)
AnswersOwn ==
    \A c \in Conns \ Rotating :
        call[c].main.at = "body" /\ over[c] = "no" => call[c].main.of = call[c].main.msg

AtBoundary(s, n) == n = 0 \/ s[n].at = HeadLen + s[n].len - 1

(* An exchange that has read a part of an answer. *)
Amid(frame) ==
    (frame.at = "head" /\ frame.n > 0) \/ (frame.at = "body" /\ frame.n < frame.len)

(* The follower has read as far as it believes to have; under a handler, the *)
(* main loop too believes to be between two answers.                         *)
InStep(c) ==
    LET frame == call[c][Top(c)] IN
    /\ Top(c) = "sig" => ~Amid(call[c].main)
    /\ CASE frame.at = "head" /\ frame.n > 0 -> back[c][heard[c]].at = frame.n - 1
         [] frame.at = "body" /\ frame.n < frame.len ->
                frame.of > 0 /\ back[c][heard[c]].at = HeadLen + frame.n - 1
         [] OTHER -> AtBoundary(back[c], heard[c])

(* Only one thing puts a follower out of step with the answers: the alarm    *)
(* that falls between the reads of one answer.                               *)
OutOfStep ==
    [][\A c \in Conns :
          InStep(c) /\ ~InStep(c)' /\ over'[c] = "no" =>
              /\ call[c].sig.at = "idle" /\ call'[c].sig.at = "send"
              /\ Amid(call[c].main)]_vars

(* The thread waits for the rest of a message that will not come. *)
StuckOn(c) ==
    /\ agg.conn = c
    /\ agg.at = "head" \/ agg.n < agg.len
    /\ over[c] = "mute"
    /\ Unread(c) = 0

WrittenWhole(c, m) ==
    \E i \in DOMAIN out[c] : out[c][i].msg = m /\ out[c][i].at = HeadLen + out[c][i].len - 1

(* Half a message stops the aggregator for everyone, but only when its       *)
(* sender's host has vanished: otherwise every message written whole is      *)
(* handled, one event a message is enough, and a slow sender delays only.    *)
Served ==
    \A c \in Conns \ Rotating : \A m \in 1..MaxMsgs :
        WrittenWhole(c, m) ~> \/ m <= Len(handled[c])
                              \/ over[c] \in {"reset", "mute"}
                              \/ \E d \in Conns : StuckOn(d)

(* The end of a follower is noticed although a cut message, or a whole one,  *)
(* took the event its end gave; not after a header cut short, whose answer   *)
(* nobody may ever send.                                                     *)
Reaped ==
    \A c \in Conns :
        over[c] = "closed" ~> \/ c \in closed
                              \/ \E i \in DOMAIN handled[c] : handled[c][i].msg = 0
                              \/ \E d \in Conns : StuckOn(d)

Spoilt == {c \in Conns : \E i \in DOMAIN handled[c] : ~handled[c][i].whole}

Queue == INSTANCE MessageQueue WITH
    written <- [c \in Conns |-> LastMsg(out[c])],
    done    <- [c \in Conns |-> Len(handled[c]) - IF c \in Spoilt THEN 1 ELSE 0],
    spoilt  <- Spoilt

(* The aggregator's handlers see a queue of messages, not bytes. *)
ImplementsQueue == Queue!QSpec
=============================================================================
