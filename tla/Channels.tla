------------------------------ MODULE Channels -------------------------------
(***************************************************************************)
(* Several logs on one connection: the channel numbers that tell them      *)
(* apart, and the rotation that takes them away.                           *)
(*                                                                         *)
(* The follower's main loop walks its contexts, one request at a time.     *)
(* Each second a SIGALRM handler runs between two of its steps: where the  *)
(* date has changed a file name it adds a context; where it has changed    *)
(* only the name the aggregator files the log under, it first releases the *)
(* old context's channel, on the same socket the main loop may be waiting  *)
(* on.  The aggregator numbers the channels, finds them by number, and     *)
(* reads one message for each event of an edge-triggered epoll.            *)
(*                                                                         *)
(* What a message says and where in the file a context is are the business *)
(* of Transfer; here a text is known by the name it should be stored under.*)
(* Files are readable once open.  A message is read or sent in one piece.  *)
(***************************************************************************)
EXTENDS Integers, Sequences

CONSTANTS
    Patterns,  \* the "path" entries: does the date change the file, the name?
    MaxDay,    \* bound: changes of the date
    MaxConn    \* bound: connections; the network keeps the last one

ASSUME PatternsAssumption ==
    Patterns \in Seq([file : BOOLEAN, name : BOOLEAN]) /\ Patterns # << >>
ASSUME BoundsAssumption == MaxDay \in Nat /\ MaxConn \in Nat \ {0}

VARIABLES
    day,    \* the date
    \* ---- follower process
    cxts,   \* g_context_list from its end: the newest context is the last
    main,   \* where the main loop is; k: the context it is at
    rc,     \* "reconnect when the walk is over"
    sig,    \* the SIGALRM handler; p: the pattern it is at, 0 when not running
    sock,   \* the socket: "none" for -1, "up", or "dead" and not known to be
    nconn,  \* connections made so far
    \* ---- this connection
    req,    \* messages sent and not yet read by the aggregator
    resp,   \* answers sent and not yet read by the follower
    edge,   \* does epoll have an event for the aggregator?
    \* ---- aggregator process
    table   \* channel_list of this connection, newest first

follower   == <<cxts, main, rc, sig>>
connection == <<sock, nconn, req, resp, edge, table>>
vars       == <<day, follower, connection>>

Pattern == 1..Len(Patterns)

(* strftime of a pattern's path and displayName *)
FileOf(p, d) == <<p, IF Patterns[p].file THEN d ELSE 0>>
NameOf(p, d) == <<p, IF Patterns[p].name THEN d ELSE 0>>

Name == Pattern \X (0..MaxDay)

----------------------------------------------------------------------------
(* name: the log a message is about *)
Request == [code : {"INIT", "DATA", "RELE"}, channel : Nat, name : Name]
Reply   == [ok : BOOLEAN, channel : Nat]
Channel == [id : Nat, name : Name]

(* held: its message buffer holds a message that was not answered OK *)
Context == [file : Name, name : Name, opened : BOOLEAN, channel : Nat,
            held : BOOLEAN]

(* sc_follow_context_new *)
NewContext(p, d) == [file |-> FileOf(p, d), name |-> NameOf(p, d),
                     opened |-> FALSE, channel |-> 0, held |-> FALSE]

Init ==
    /\ day = 0
    /\ cxts = [p \in Pattern |-> NewContext(p, 0)]
    /\ main = [pc |-> "serve", k |-> 0]
    /\ rc = FALSE
    /\ sig = [p |-> 0, day |-> 0, waits |-> FALSE]
    /\ \/ sock = "none" /\ nconn = 0
       \/ sock = "up" /\ nconn = 1
    /\ req = << >>
    /\ resp = << >>
    /\ edge = FALSE
    /\ table = << >>

NewDay ==
    /\ day < MaxDay
    /\ day' = day + 1
    /\ UNCHANGED <<follower, connection>>

----------------------------------------------------------------------------
(* sc_aggregator_connection_send_message; a message on a dead connection     *)
(* goes nowhere until TCP has reported the loss.                             *)
SendSucceeds(m) ==
    /\ sock # "none"
    /\ req' = IF sock = "up" THEN Append(req, m) ELSE req
    /\ edge' = (edge \/ sock = "up")
    /\ UNCHANGED <<sock, nconn, resp, table>>

SendFails ==
    /\ sock # "up"
    /\ sock' = "none"
    /\ UNCHANGED <<nconn, req, resp, edge, table>>

(* Mutant: the wait for an answer is given up, the connection kept. *)
MutantReceiveFails ==
    /\ sock # "none" => resp = << >>
    /\ UNCHANGED connection

(* sc_aggregator_connection_receive_message: the first answer there is,      *)
(* whoever it was meant for; or an error, or end of file, which leaves the   *)
(* socket in place.                                                          *)
ReceiveSucceeds ==
    /\ sock # "none"
    /\ resp # << >>
    /\ resp' = Tail(resp)
    /\ UNCHANGED <<sock, nconn, req, edge, table>>

ReceiveFails ==
    /\ sock # "up"
    /\ sock # "none" => resp = << >>
    /\ sock' \in {"none", sock}
    /\ UNCHANGED <<nconn, req, resp, edge, table>>

----------------------------------------------------------------------------
(* The main loop.  It stands still while the handler runs.                   *)

At(pc) == main.pc = pc /\ sig.p = 0
Goto(pc) == main' = [main EXCEPT !.pc = pc]
NextContext == main' = [pc |-> "run", k |-> main.k - 1]

cxt == cxts[main.k]
Message(code, channel) == [code |-> code, channel |-> channel, name |-> cxt.name]

(* Mutant: the walk starts one too far. *)
MutantServe ==
    /\ At("serve")
    /\ main' = [pc |-> "run", k |-> Len(cxts) + 1]
    /\ rc' = FALSE
    /\ UNCHANGED <<day, cxts, sig, connection>>

(* The walk starts at the head of the list; what the handler adds before     *)
(* that waits for the next round.                                            *)
Serve ==
    /\ At("serve")
    /\ main' = [pc |-> "run", k |-> Len(cxts)]
    /\ rc' = FALSE
    /\ UNCHANGED <<day, cxts, sig, connection>>

Running == At("run") /\ main.k > 0

(* Mutant: the loop stays at a context until there is a connection. *)
MutantNotConnected ==
    /\ Running
    /\ sock = "none"
    /\ rc' = TRUE
    /\ UNCHANGED <<day, cxts, main, sig, connection>>

(* _run_follow_context.  A context that holds a message would send it again,  *)
(* its fields in network byte order already, so that they are swapped back:   *)
(* there is no such step, NothingHeld says that none is ever due.             *)
NotConnected ==
    /\ Running
    /\ sock = "none"
    /\ rc' = TRUE
    /\ NextContext
    /\ UNCHANGED <<day, cxts, sig, connection>>

NoFileYet ==
    /\ Running
    /\ sock # "none"
    /\ ~cxt.held
    /\ ~cxt.opened
    /\ NextContext
    /\ UNCHANGED <<day, cxts, rc, sig, connection>>

OpenFile ==
    /\ Running
    /\ sock # "none"
    /\ ~cxt.held
    /\ ~cxt.opened
    /\ cxts' = [cxts EXCEPT ![main.k].opened = TRUE]
    /\ Goto("init")
    /\ UNCHANGED <<day, rc, sig, connection>>

(* _init_file, called for a file just opened ("init") and for a text read    *)
(* while the context has no channel ("init again"); its result is ignored.   *)
AfterInit == IF main.pc \in {"init", "init answer"} THEN "read" ELSE "send"

SendInit ==
    /\ At("init") \/ At("init again")
    /\ \/ /\ SendSucceeds(Message("INIT", 0))
          /\ Goto(IF main.pc = "init" THEN "init answer" ELSE "init again answer")
       \/ /\ SendFails
          /\ Goto(AfterInit)
    /\ UNCHANGED <<day, cxts, rc, sig>>

InitAnswered ==
    /\ At("init answer") \/ At("init again answer")
    /\ ReceiveSucceeds
    /\ cxts' = IF Head(resp).ok
               THEN [cxts EXCEPT ![main.k].channel = Head(resp).channel]
               ELSE cxts
    /\ Goto(AfterInit)
    /\ UNCHANGED <<day, rc, sig>>

InitFails ==
    /\ At("init answer") \/ At("init again answer")
    /\ ReceiveFails
    /\ Goto(AfterInit)
    /\ UNCHANGED <<day, cxts, rc, sig>>

AtRead == \/ At("read")
          \/ Running /\ sock # "none" /\ cxt.opened /\ ~cxt.held

ReadText ==
    /\ AtRead
    /\ Goto(IF cxt.channel = 0 THEN "init again" ELSE "send")
    /\ UNCHANGED <<day, cxts, rc, sig, connection>>

NothingToRead ==
    /\ AtRead
    /\ NextContext
    /\ UNCHANGED <<day, cxts, rc, sig, connection>>

(* _sc_follow_context_proc_data and what _run_follow_context makes of it *)
SendData ==
    /\ At("send")
    /\ cxts' = [cxts EXCEPT ![main.k].held = TRUE]
    /\ \/ /\ SendSucceeds(Message("DATA", cxt.channel))
          /\ Goto("data answer")
          /\ UNCHANGED rc
       \/ /\ SendFails
          /\ NextContext
          /\ rc' = TRUE
    /\ UNCHANGED <<day, sig>>

DataAnswered ==
    /\ At("data answer")
    /\ ReceiveSucceeds
    /\ cxts' = [cxts EXCEPT ![main.k].held = ~Head(resp).ok]
    /\ NextContext
    /\ UNCHANGED <<day, rc, sig>>

DataFails ==
    /\ At("data answer")
    /\ ReceiveFails
    /\ NextContext
    /\ rc' = TRUE
    /\ UNCHANGED <<day, cxts, sig>>

EndOfWalk ==
    /\ At("run")
    /\ main.k = 0
    /\ Goto(IF rc THEN "reconnect" ELSE "serve")
    /\ UNCHANGED <<day, cxts, rc, sig, connection>>

(* Mutant: the files stay open, so no INIT follows. *)
MutantResetContexts ==
    cxts' = [k \in DOMAIN cxts |-> [cxts[k] EXCEPT !.held = FALSE]]

(* Mutant: the message buffer keeps its message. *)
MutantResetKeepsMessage ==
    cxts' = [k \in DOMAIN cxts |-> [cxts[k] EXCEPT !.opened = FALSE]]

(* sc_follow_context_reset for every context; their channel numbers stay *)
ResetContexts ==
    cxts' = [k \in DOMAIN cxts |->
                [cxts[k] EXCEPT !.opened = FALSE, !.held = FALSE]]

Reconnect ==
    /\ At("reconnect")
    /\ nconn < MaxConn
    /\ ResetContexts
    /\ Goto("serve")
    /\ sock' = "up"
    /\ nconn' = nconn + 1
    /\ req' = << >>
    /\ resp' = << >>
    /\ edge' = FALSE
    /\ table' = << >>
    /\ UNCHANGED <<day, rc, sig>>

(* A connect that fails leaves the socket what it was. *)
ReconnectFails ==
    /\ At("reconnect")
    /\ ResetContexts
    /\ Goto("serve")
    /\ UNCHANGED <<day, rc, sig, connection>>

----------------------------------------------------------------------------
(* The SIGALRM handler, do_rotate: a step for each pattern, two where a       *)
(* channel is released.                                                       *)

Follows(p, d) ==
    \E k \in DOMAIN cxts : cxts[k].file = FileOf(p, d) /\ cxts[k].name = NameOf(p, d)

(* An alarm that finds everything followed changes nothing: it is left out. *)
Alarm ==
    /\ sig.p = 0
    /\ \E p \in Pattern : ~Follows(p, day)
    /\ sig' = [p |-> 1, day |-> day, waits |-> FALSE]
    /\ UNCHANGED <<day, cxts, main, rc, connection>>

AtPattern == sig.p # 0 /\ ~sig.waits

(* The first context of the list, the newest, with today's file: its index. *)
SameFile == {k \in DOMAIN cxts : cxts[k].file = FileOf(sig.p, sig.day)}
IsCurrent(k) == k \in SameFile /\ \A j \in SameFile : j <= k

(* Mutant: the handler is done after the first pattern. *)
MutantNextPattern == sig' = [p |-> 0, day |-> sig.day, waits |-> FALSE]

NextPattern == sig' = [p     |-> IF sig.p = Len(Patterns) THEN 0 ELSE sig.p + 1,
                       day   |-> sig.day,
                       waits |-> FALSE]

Add == cxts' = Append(cxts, NewContext(sig.p, sig.day))

Following ==
    /\ AtPattern
    /\ \E k \in SameFile : IsCurrent(k) /\ cxts[k].name = NameOf(sig.p, sig.day)
    /\ NextPattern
    /\ UNCHANGED <<day, cxts, main, rc, connection>>

NotFollowed ==
    /\ AtPattern
    /\ SameFile = {}
    /\ Add
    /\ NextPattern
    /\ UNCHANGED <<day, main, rc, connection>>

(* The name has rotated: context k is to be closed, its file stays open and   *)
(* it stays in the list.                                                      *)
Rotated(k) == IsCurrent(k) /\ cxts[k].name # NameOf(sig.p, sig.day)

(* sc_follow_context_close has nothing to release *)
NothingToRelease ==
    /\ AtPattern
    /\ \E k \in SameFile : Rotated(k) /\ (sock = "none" \/ ~cxts[k].opened)
    /\ Add
    /\ NextPattern
    /\ UNCHANGED <<day, main, rc, connection>>

Release ==
    /\ AtPattern
    /\ \E k \in SameFile :
          /\ Rotated(k)
          /\ cxts[k].opened
          /\ SendSucceeds([code |-> "RELE", channel |-> cxts[k].channel,
                           name |-> cxts[k].name])
    /\ sig' = [sig EXCEPT !.waits = TRUE]
    /\ UNCHANGED <<day, cxts, main, rc>>

ReleaseFails ==
    /\ \/ /\ AtPattern
          /\ \E k \in SameFile : Rotated(k) /\ cxts[k].opened
          /\ sock = "dead"
          /\ SendFails
       \/ /\ sig.waits
          /\ ReceiveFails
    /\ Add
    /\ NextPattern
    /\ UNCHANGED <<day, main, rc>>

Released ==
    /\ sig.waits
    /\ ReceiveSucceeds
    /\ Add
    /\ NextPattern
    /\ UNCHANGED <<day, main, rc>>

----------------------------------------------------------------------------
(* The aggregator: do_receive, once for each event. *)

Receives(codes) ==
    /\ sock = "up"
    /\ edge
    /\ req # << >>
    /\ Head(req).code \in codes
    /\ edge' = FALSE
    /\ req' = Tail(req)
    /\ UNCHANGED <<nconn, day, follower>>

Answer(ok, channel) == resp' = Append(resp, [ok |-> ok, channel |-> channel])

Numbers == {table[i].id : i \in DOMAIN table}

(* Mutant: channels are numbered by how many there are. *)
MutantNextNumber == Len(table) + 1

(* sc_connection_register_channel: one more than the largest number in use *)
NextNumber ==
    1 + (CHOOSE n \in Numbers \cup {0} : \A m \in Numbers \cup {0} : m <= n)

HandleInit ==
    /\ Receives({"INIT"})
    /\ table' = <<[id |-> NextNumber, name |-> Head(req).name]>> \o table
    /\ Answer(TRUE, NextNumber)
    /\ UNCHANGED sock

(* sc_connection_channel: a number that is not there finds the last channel   *)
(* of the list; only an empty list finds none.                                *)
Position(id) ==
    IF id \in Numbers
    THEN CHOOSE i \in DOMAIN table :
            table[i].id = id /\ \A j \in 1..(i - 1) : table[j].id # id
    ELSE Len(table)

HandleData ==
    /\ Receives({"DATA"})
    /\ Head(req).channel # 0
    /\ table # << >>
    /\ Answer(TRUE, Head(req).channel)
    /\ UNCHANGED <<sock, table>>

HandleRele ==
    /\ Receives({"RELE"})
    /\ Head(req).channel # 0
    /\ table # << >>
    /\ LET i == Position(Head(req).channel)
       IN  table' = SubSeq(table, 1, i - 1) \o SubSeq(table, i + 1, Len(table))
    /\ Answer(TRUE, Head(req).channel)
    /\ UNCHANGED sock

HandleDummy ==
    /\ Receives({"DATA", "RELE"})
    /\ Head(req).channel = 0
    /\ Answer(FALSE, 0)
    /\ UNCHANGED <<sock, table>>

(* A message that finds no channel takes the aggregator down (NULL); started  *)
(* again, it knows nothing of this connection.                                *)
AggregatorDies ==
    /\ Receives({"DATA", "RELE"})
    /\ Head(req).channel # 0
    /\ table = << >>
    /\ sock' = "dead"
    /\ UNCHANGED <<resp, table>>

(* The connection is lost; what was not yet read at the other end is lost too, *)
(* answers that had arrived are not.                                          *)
Break ==
    /\ sock = "up"
    /\ nconn < MaxConn
    /\ sock' = "dead"
    /\ req' = << >>
    /\ edge' = FALSE
    /\ table' = << >>
    /\ UNCHANGED <<day, follower, nconn, resp>>

----------------------------------------------------------------------------
MainStep == \/ Serve \/ NotConnected \/ NoFileYet \/ OpenFile
            \/ SendInit \/ InitAnswered \/ InitFails
            \/ ReadText \/ NothingToRead
            \/ SendData \/ DataAnswered \/ DataFails
            \/ EndOfWalk \/ Reconnect \/ ReconnectFails

HandlerStep == \/ Alarm \/ Following \/ NotFollowed \/ NothingToRelease
               \/ Release \/ ReleaseFails \/ Released

AggregatorStep == \/ HandleInit \/ HandleData \/ HandleRele \/ HandleDummy
                  \/ AggregatorDies

Next == NewDay \/ MainStep \/ HandlerStep \/ AggregatorStep \/ Break

(* Both processes keep running, and the timer is armed again after each alarm. *)
Fairness == WF_vars(MainStep) /\ WF_vars(HandlerStep) /\ WF_vars(AggregatorStep)

Spec == Init /\ [][Next]_vars /\ Fairness

----------------------------------------------------------------------------
(* Every variable has its type. *)
TypeOK ==
    /\ day \in 0..MaxDay
    /\ cxts \in Seq(Context)
    /\ main \in [pc : {"serve", "run", "init", "init answer", "read",
                       "init again", "init again answer", "send",
                       "data answer", "reconnect"},
                 k : 0..Len(cxts)]
    /\ rc \in BOOLEAN
    /\ sig \in [p : 0..Len(Patterns), day : 0..MaxDay, waits : BOOLEAN]
    /\ sock \in {"none", "up", "dead"}
    /\ nconn \in 0..MaxConn
    /\ req \in Seq(Request)
    /\ resp \in Seq(Reply)
    /\ edge \in BOOLEAN
    /\ table \in Seq(Channel)

(* No two channels of a connection have the same number, although numbers are  *)
(* given again after a release and a release can hit another channel than the  *)
(* one it names.                                                               *)
NumbersDistinct == \A i, j \in DOMAIN table : table[i].id = table[j].id => i = j

(* Main loop and handler share the socket, and each may take the other's       *)
(* answer; still there is exactly one message or answer under way for each of  *)
(* them that waits, and so none when nobody waits.  That counts only: it does  *)
(* not say whose answer it is, nor that a message will be read, and it holds   *)
(* of a main loop that waits for ever beside a message nobody reads.           *)
Waiting == (IF main.pc \in {"init answer", "init again answer", "data answer"}
            THEN 1 ELSE 0) + (IF sig.waits THEN 1 ELSE 0)

OneEach == sock = "up" => Len(req) + Len(resp) = Waiting

(* When the walk begins no context holds a message of an earlier one: no DATA  *)
(* is ever answered NG, and what a reset leaves behind is not sent.            *)
NothingHeld == main.pc = "serve" => \A k \in DOMAIN cxts : ~cxts[k].held

(* A text always finds the channel of the log it was read from.  (Holds where  *)
(* the date changes no name without the file; see the README for the rest.)    *)
TextStaysHome ==
    sock = "up" /\ req # << >> /\ Head(req).code = "DATA" =>
        /\ table # << >>
        /\ table[Position(Head(req).channel)].name = Head(req).name

(* Main loop and handler do not wait for ever for an answer.                   *)
KeepsRunning == []<>(main.pc = "serve")

(* After the date changes, each log is soon followed under today's file and    *)
(* name, even when the main loop waits for an answer that does not come.       *)
FollowsToday ==
    \A d \in 0..MaxDay :
        (day = d) ~> \/ day > d
                     \/ \A p \in Pattern : Follows(p, d)

(* aggregator/main.c:592 says of a number without a channel                    *)
(* "assert(code == SCM_MSG_INIT)".                                             *)
UnknownIsInit ==
    sock = "up" /\ req # << >> /\ Head(req).channel # 0
       /\ Head(req).channel \notin Numbers => Head(req).code = "INIT"
==============================================================================
