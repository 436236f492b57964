---------------------------- MODULE FollowerLoop -----------------------------
(***************************************************************************)
(* comfollower's main loop: the control socket, the walk over the list of   *)
(* contexts and the deletion of one whose file cannot be read, each of them *)
(* interrupted by the SIGALRM handler, which adds a context to the same     *)
(* list for every configured log that has none.                             *)
(*                                                                         *)
(* The list is the memory it is: cells with a next pointer.  g_context_list *)
(* is read, az_list_add or az_list_delete works, and the result is assigned,*)
(* with a signal between any two of these.  A freed cell is as the allocator *)
(* leaves it until it is handed out again, and the walk goes on from it, to  *)
(* wherever it leads.  What is done with the object of a free cell is not    *)
(* followed: it ends in a crash, or the walk goes on.                       *)
(* What runs in a context is in Transfer, what rotation releases in         *)
(* Channels.  comlogger is the client of the control socket.                *)
(***************************************************************************)
EXTENDS Integers, Sequences, FiniteSets, Functions

CONSTANTS
    Patterns,  \* the configured logs, in the order of g_config_patterns
    Dated,     \* those whose file name has the date in it
    Faulty,    \* those whose file can be opened but may not be readable
    Clients,   \* processes that run comlogger, numbered as they connect
    Option,    \* "-d", the path that OPEN gives, whoever the client
    Lines,     \* lines comlogger is given
    NCells,    \* bound: cells of memory for the list
    MaxDay,    \* bound: midnights
    MaxFds,    \* descriptors the process may have
    Nil, Wild  \* no cell, and a pointer that is junk

Logs  == Range(Patterns)
Cells == 1..NCells

ASSUME LogsAssumption == /\ Dated \subseteq Logs /\ Faulty \subseteq Logs
                         /\ Patterns \in Seq(Logs) \ {<< >>} /\ IsInjective(Patterns)
                         /\ Option \notin Logs
ASSUME PointersAssumption == Nil # Wild /\ Cells \cap {Nil, Wild} = {}
ASSUME ClientsAssumption == Clients \subseteq Nat /\ Nil \notin Clients
ASSUME BoundsAssumption ==
    {NCells, MaxDay, MaxFds, Lines} \subseteq Nat /\ NCells >= Len(Patterns)

VARIABLES
    mem,      \* the cells: allocated, next, and the context they point to
    head,     \* g_context_list
    pc, li,   \* the main loop: where it is, and its cursor in the list
    arg,      \* g_context_list as az_list_add or az_list_delete was given it
    rest,     \* the next pointer of the cell az_list_delete freed
    prev,     \* the cell before that one, on the stack of az_list_delete
    contr,    \* the client whose connection was accepted
    sig,      \* the pattern the SIGALRM handler is at, 0 when it is not running
    rung,     \* it has run since g_context_list was read, to be assigned
    day,      \* the date
    leaked,   \* descriptors that nothing will close
    pending,  \* connections not accepted yet
    at, sent, \* clients: what each is doing, and the lines it has sent
    dead      \* "no", "crash", or "hang": the handler never returns

list    == <<mem, head>>
main    == <<pc, li, arg, rest, prev, contr>>
clients == <<pending, at, sent>>
vars    == <<list, main, sig, rung, day, leaked, clients, dead>>

(* The name of a file: what a context is for.  OPEN names one for all. *)
Names == [log : Logs \cup {Option}, day : 0..MaxDay]
Name(p) == [log |-> p, day |-> IF p \in Dated THEN day ELSE 0]
Opened == [log |-> Option, day |-> 0]

(* by: the client that asked for the context, a history that nothing reads. *)
Pointers == Cells \cup {Nil, Wild}
Cell == [live : BOOLEAN, next : Pointers, name : Names, open : BOOLEAN,
         by : Clients \cup {Nil}]

(* The pointers that are met on the way from p. *)
Follow(m, q) == IF q \in Cells THEN m[q].next ELSE q
ChainIn(m, p) ==
    LET met[k \in 0..NCells] ==
            IF k = 0 THEN {p} ELSE UNION {{q, Follow(m, q)} : q \in met[k - 1]}
    IN  met[NCells]
Reach(p) == ChainIn(mem, p)

Blank == [live |-> FALSE, next |-> Nil, name |-> [log |-> Patterns[1], day |-> 0],
          open |-> FALSE, by |-> Nil]

(* Cells that nothing leads to, freed or lost, are as good as new. *)
Forget(m, roots) ==
    LET held == UNION {ChainIn(m, p) : p \in roots}
    IN  [c \in Cells |-> IF c \in held THEN m[c] ELSE Blank]

(* Memory that malloc may return: new, where one cell is as good as another, *)
(* or a freed cell that something points to.                                 *)
Held == Cells \cap UNION {Reach(p) : p \in {head, li, arg, rest}}
New(unheld) == {c \in unheld : \A d \in unheld : c <= d}
Malloc == New(Cells \ Held) \cup {c \in Held : ~mem[c].live}

(* main up to the loop: do_rotate has made a context for every pattern. *)
Init ==
    /\ mem = [c \in Cells |->
                 IF c > Len(Patterns) THEN Blank
                 ELSE [live |-> TRUE, next |-> IF c = 1 THEN Nil ELSE c - 1,
                       name |-> [log |-> Patterns[c], day |-> 0], open |-> FALSE,
                       by |-> Nil]]
    /\ head = Len(Patterns)
    /\ pc = "poll" /\ li = Nil /\ arg = Nil /\ rest = Nil /\ prev = Nil /\ contr = Nil
    /\ sig = 0 /\ rung = FALSE
    /\ day = 0
    /\ leaked = 0
    /\ pending = << >>
    /\ at = [c \in Clients |-> "off"]
    /\ sent = [c \in Clients |-> 0]
    /\ dead = "no"

----------------------------------------------------------------------------
(* The list. *)

(* az_list_add: a new cell in front of what the list was. *)
Link(cell, name, by, next) ==
    [mem EXCEPT ![cell] = [live |-> TRUE, next |-> next, name |-> name, open |-> FALSE,
                           by |-> by]]

(* The context a cell pointed to is still there, or nothing can be told. *)
Open == {c \in Cells \cap Reach(head) : mem[c].live /\ mem[c].open}
MayOpen == leaked + Cardinality(Open) < MaxFds

----------------------------------------------------------------------------
(* The main loop.  It stands still while the handler runs. *)

Running(at_pc) == dead = "no" /\ sig = 0 /\ pc = at_pc

(* Mutant: epoll_wait waits for a connection. *)
MutantPoll ==
    /\ Running("poll")
    /\ pending # << >> /\ MayOpen
    /\ contr' = Head(pending)
    /\ pending' = Tail(pending)
    /\ pc' = "recv"
    /\ UNCHANGED <<list, li, arg, rest, prev, sig, rung, day, leaked, at, sent, dead>>

(* do_server_socket, which does not wait: it accepts one connection, if it   *)
(* can.                                                                      *)
Poll ==
    /\ Running("poll")
    /\ IF pending = << >> \/ ~MayOpen
       THEN pc' = "start" /\ UNCHANGED <<contr, pending>>
       ELSE /\ contr' = Head(pending)
            /\ pending' = Tail(pending)
            /\ pc' = "recv"
    /\ UNCHANGED <<list, li, arg, rest, prev, sig, rung, day, leaked, at, sent, dead>>

(* Mutant: the connection does not block, and nothing to read ends it. *)
MutantReceive ==
    /\ Running("recv")
    /\ \/ sent[contr] > 0 /\ pc' = "open" /\ leaked' = leaked + 1
       \/ sent[contr] = 0 /\ pc' = "start" /\ UNCHANGED leaked
    /\ UNCHANGED <<list, li, arg, rest, prev, contr, sig, rung, day, clients, dead>>

(* do_receive_0: waits for the client.  A connection is closed when it ends  *)
(* without a line, and otherwise left as it is, for good.                    *)
Receive ==
    /\ Running("recv")
    /\ \/ sent[contr] > 0 /\ pc' = "open" /\ leaked' = leaked + 1
       \/ sent[contr] = 0 /\ at[contr] = "gone" /\ pc' = "start" /\ UNCHANGED leaked
    /\ UNCHANGED <<list, li, arg, rest, prev, contr, sig, rung, day, clients, dead>>

(* OPEN: the context, and the list it is to be added to. *)
OpenContext ==
    /\ Running("open")
    /\ arg' = head
    /\ pc' = "add"
    /\ UNCHANGED <<list, li, rest, prev, contr, sig, rung, day, leaked, clients, dead>>

(* Mutant: the connection is read again when there is more. *)
MutantOpenAdds ==
    /\ Running("add")
    /\ \E cell \in Malloc :
           /\ mem' = Forget(Link(cell, Opened, contr, arg), {cell})
           /\ head' = cell
    /\ at' = [at EXCEPT ![contr] = "idle"]
    /\ pending' = Append(pending, contr)
    /\ contr' = Nil /\ arg' = Nil /\ rung' = FALSE
    /\ pc' = "start"
    /\ UNCHANGED <<li, rest, prev, sig, day, leaked, sent, dead>>

(* ... the list with it in front, and OK. *)
OpenAdds ==
    /\ Running("add")
    /\ \E cell \in Malloc :
           /\ mem' = Forget(Link(cell, Opened, contr, arg), {cell})
           /\ head' = cell
    /\ at' = [at EXCEPT ![contr] = "idle"]
    /\ contr' = Nil /\ arg' = Nil /\ rung' = FALSE
    /\ pc' = "start"
    /\ UNCHANGED <<li, rest, prev, sig, day, leaked, pending, sent, dead>>

(* The cursor is moved to p: to a context, to the end, or to nowhere. *)
GoTo(p) ==
    IF p \in Cells THEN li' = p /\ pc' = "run" /\ UNCHANGED dead
    ELSE IF p = Nil THEN li' = Nil /\ pc' = "poll" /\ UNCHANGED dead
    ELSE dead' = "crash" /\ UNCHANGED <<li, pc>>

StartWalk ==
    /\ Running("start")
    /\ GoTo(head)
    /\ UNCHANGED <<list, arg, rest, prev, contr, sig, rung, day, leaked, clients>>

(* _run_follow_context: it opens the file, if it can, and reads. *)
Run(failed) ==
    /\ Running("run")
    /\ mem[li].live
    /\ LET name  == mem[li].name
           opens == name.log \in Logs /\ (mem[li].open \/ MayOpen) IN
       /\ failed => opens /\ name.log \in Faulty
       /\ mem' = [mem EXCEPT ![li].open = opens]
    /\ pc' = IF failed THEN "del" ELSE "next"
    /\ UNCHANGED <<head, li, arg, rest, prev, contr, sig, rung, day, leaked, clients, dead>>

(* The walk is at a cell that is free: it goes on to whatever is where the    *)
(* next pointer would be, or ends in a crash.                                *)
RunFreed ==
    /\ Running("run")
    /\ ~mem[li].live
    /\ \E next \in {mem[li].next, Nil, Wild} \cup Malloc :
           GoTo(next) /\ mem' = Forget(mem, {head, next})
    /\ UNCHANGED <<head, arg, rest, prev, contr, sig, rung, day, leaked, clients>>

(* g_context_list = az_list_delete(g_context_list, cxt): the list it is      *)
(* called with, *)
DeleteFrom ==
    /\ Running("del")
    /\ arg' = head
    /\ pc' = "free"
    /\ UNCHANGED <<list, li, rest, prev, contr, sig, rung, day, leaked, clients, dead>>

(* the cell that is freed, which keeps its bytes, or gets another next       *)
(* pointer: to a cell that was free before, NULL or junk,                    *)
DeleteFrees ==
    /\ Running("free")
    /\ li \in Reach(arg)
    /\ rest' = mem[li].next
    /\ \E next \in {mem[li].next, Nil, Wild} \cup Malloc :
           mem' = [mem EXCEPT ![li].live = FALSE, ![li].next = next]
    /\ \/ arg = li /\ pc' = "assign" /\ UNCHANGED prev
       \/ /\ arg # li /\ pc' = "relink"
          /\ \E c \in Cells \cap Reach(arg) : mem[c].next = li /\ prev' = c
    /\ UNCHANGED <<head, li, arg, contr, sig, rung, day, leaked, clients, dead>>

(* or is not found: az_list_delete goes on behind the end,                   *)
DeleteFails ==
    /\ Running("free")
    /\ li \notin Reach(arg)
    /\ dead' = "crash"
    /\ UNCHANGED <<list, main, sig, rung, day, leaked, clients>>

(* Mutant: the cell before it still leads to it. *)
MutantDeleteRelinks ==
    /\ Running("relink")
    /\ prev' = Nil
    /\ pc' = "assign"
    /\ UNCHANGED <<list, li, arg, rest, contr, sig, rung, day, leaked, clients, dead>>

(* the cell before it, *)
DeleteRelinks ==
    /\ Running("relink")
    /\ mem' = [mem EXCEPT ![prev].next = rest]
    /\ prev' = Nil
    /\ pc' = "assign"
    /\ UNCHANGED <<head, li, arg, rest, contr, sig, rung, day, leaked, clients, dead>>

(* Mutant: the list begins behind the cell wherever that was. *)
MutantDeleteAssigns ==
    /\ Running("assign")
    /\ head' = rest
    /\ leaked' = leaked + 1
    /\ arg' = Nil /\ rest' = Nil /\ rung' = FALSE
    /\ mem' = Forget(mem, {head', li})
    /\ pc' = "next"
    /\ UNCHANGED <<li, prev, contr, sig, day, clients, dead>>

(* and the list.  The context is destroyed, with its file open. *)
DeleteAssigns ==
    /\ Running("assign")
    /\ head' = IF arg = li THEN rest ELSE arg
    /\ leaked' = leaked + 1
    /\ arg' = Nil /\ rest' = Nil /\ rung' = FALSE
    /\ mem' = Forget(mem, {head', li})
    /\ pc' = "next"
    /\ UNCHANGED <<li, prev, contr, sig, day, clients, dead>>

Advance ==
    /\ Running("next")
    /\ GoTo(mem[li].next)
    /\ mem' = Forget(mem, {head, mem[li].next})
    /\ UNCHANGED <<head, arg, rest, prev, contr, sig, rung, day, leaked, clients>>

----------------------------------------------------------------------------
(* The SIGALRM handler: do_rotate. *)

Handling == dead = "no" /\ sig > 0

(* Mutant: the loop over the patterns has no end. *)
MutantNextPattern == sig' = sig + 1

NextPattern == sig' = IF sig < Len(Patterns) THEN sig + 1 ELSE 0

(* The walk of the handler comes to a context of that name, which the cell    *)
(* that was just freed may still lead to,                                    *)
IsListed(name) ==
    \E p \in Cells \cap Reach(head) :
        (mem[p].live \/ p = li) /\ mem[p].next # Wild /\ mem[p].name = name

(* or goes on from that one to a cell that is free, where it may find         *)
(* anything, or crash, or never come to an end.                              *)
Strays == \E p \in Cells \cap Reach(head) : ~mem[p].live /\ p # li

(* g_context_list was read and is yet to be assigned: a few instructions, in  *)
(* which there is one alarm at most, a second after the last.                *)
InWindow == pc \in {"add", "free", "relink", "assign"}

Alarm ==
    /\ dead = "no"
    /\ sig = 0
    /\ ~rung
    /\ sig' = 1
    /\ rung' = InWindow
    /\ UNCHANGED <<list, main, day, leaked, clients, dead>>

(* Mutant: a context that is found ends the loop over the patterns. *)
MutantHandlerFinds ==
    /\ Handling
    /\ IsListed(Name(Patterns[sig])) \/ Strays
    /\ sig' = 0
    /\ UNCHANGED <<list, main, rung, day, leaked, clients, dead>>

HandlerFinds ==
    /\ Handling
    /\ IsListed(Name(Patterns[sig])) \/ Strays
    /\ NextPattern
    /\ UNCHANGED <<list, main, rung, day, leaked, clients, dead>>

HandlerAdds ==
    /\ Handling
    /\ ~IsListed(Name(Patterns[sig]))
    /\ Nil \in Reach(head)
    /\ \E cell \in Malloc :
           /\ mem' = Link(cell, Name(Patterns[sig]), Nil, head)
           /\ head' = cell
    /\ NextPattern
    /\ UNCHANGED <<main, rung, day, leaked, clients, dead>>

(* main was in malloc or free, with its lock, or the list has no end. *)
HandlerHangs ==
    /\ Handling
    /\ ~IsListed(Name(Patterns[sig]))
    /\ \/ pc \in {"open", "add", "run", "free", "next"}
       \/ Strays \/ Reach(head) \subseteq Cells
    /\ dead' = "hang"
    /\ UNCHANGED <<list, main, sig, rung, day, leaked, clients>>

HandlerCrashes ==
    /\ Handling
    /\ Strays \/ (~IsListed(Name(Patterns[sig])) /\ Wild \in Reach(head))
    /\ dead' = "crash"
    /\ UNCHANGED <<list, main, sig, rung, day, leaked, clients>>

Midnight ==
    /\ dead = "no"
    /\ day < MaxDay
    /\ sig = 0
    /\ day' = day + 1
    /\ UNCHANGED <<list, main, sig, rung, leaked, clients, dead>>

----------------------------------------------------------------------------
(* comlogger: it connects before it has a line, and sends OPEN for each. *)

Connect(c) ==
    /\ dead = "no"
    /\ at[c] = "off" /\ \A d \in Clients : d < c => at[d] # "off"
    /\ at' = [at EXCEPT ![c] = "idle"]
    /\ pending' = Append(pending, c)
    /\ UNCHANGED <<list, main, sig, rung, day, leaked, sent, dead>>

SendLine(c) ==
    /\ dead = "no"
    /\ at[c] = "idle"
    /\ sent[c] < Lines
    /\ sent' = [sent EXCEPT ![c] = @ + 1]
    /\ at' = [at EXCEPT ![c] = "wait"]
    /\ UNCHANGED <<list, main, sig, rung, day, leaked, pending, dead>>

(* The end of its input, or of itself.  After a line that is nothing to the  *)
(* follower, which never reads that connection again.                        *)
Quit(c) ==
    /\ dead = "no"
    /\ at[c] = "idle"
    /\ sent[c] = 0
    /\ at' = [at EXCEPT ![c] = "gone"]
    /\ UNCHANGED <<list, main, sig, rung, day, leaked, pending, sent, dead>>

----------------------------------------------------------------------------
MainNext ==
    \/ Poll \/ Receive \/ OpenContext \/ OpenAdds
    \/ StartWalk \/ Run(FALSE) \/ Run(TRUE) \/ RunFreed \/ Advance
    \/ DeleteFrom \/ DeleteFrees \/ DeleteFails \/ DeleteRelinks \/ DeleteAssigns

HandlerNext == HandlerFinds \/ HandlerAdds \/ HandlerHangs \/ HandlerCrashes

Next ==
    \/ MainNext
    \/ Alarm \/ HandlerNext
    \/ Midnight
    \/ \E c \in Clients : Connect(c) \/ SendLine(c) \/ Quit(c)

AlarmElsewhere == ~InWindow /\ Alarm

(* The loop and the handler run; a second is longer than both, and the       *)
(* alarm does not fall into the few instructions of a window each time.      *)
Fairness == SF_vars(MainNext) /\ WF_vars(HandlerNext) /\ SF_vars(AlarmElsewhere)

Spec == Init /\ [][Next]_vars /\ Fairness

----------------------------------------------------------------------------
TypeOK ==
    /\ mem \in [Cells -> Cell]
    /\ {head, li, arg, rest, prev} \subseteq Pointers
    /\ pc \in {"poll", "recv", "open", "add", "start", "run", "next",
               "del", "free", "relink", "assign"}
    /\ contr \in Clients \cup {Nil}
    /\ sig \in 0..Len(Patterns) /\ rung \in BOOLEAN /\ day \in 0..MaxDay /\ leaked \in Nat
    /\ pending \in Seq(Clients)
    /\ at \in [Clients -> {"off", "idle", "wait", "gone"}]
    /\ sent \in [Clients -> 0..Lines]
    /\ dead \in {"no", "crash", "hang"}

(* No cell is freed that the list still leads to. *)
Settled == pc \notin {"relink", "assign"}

(* The list is sound wherever a signal or a walk starts, but between the     *)
(* free of a cell and the assignment, and wherever a walk that went on from  *)
(* a freed cell has come to: it ends, its cells are allocated, and no two    *)
(* contexts have one file, but those of two clients.                         *)
ListSound ==
    Settled =>
        /\ Reach(head) \ Cells = {Nil}
        /\ \A c, d \in Cells \cap Reach(head) :
               /\ mem[c].live
               /\ c # d => mem[c].name # mem[d].name \/ mem[c].by # mem[d].by

(* Each client that was told its context is open has one in the list, although *)
(* the handler may add between the reading and the assignment of             *)
(* g_context_list.                                                           *)
OpenedStays ==
    \A k \in Clients : Settled /\ (sent[k] > 1 \/ (sent[k] = 1 /\ at[k] = "idle")) =>
        \E c \in Cells \cap Reach(head) :
            mem[c].live /\ mem[c].name = Opened /\ mem[c].by = k

(* Only the first line of a comlogger is ever answered. *)
OnlyFirstLine ==
    \A c \in Clients : sent[c] > 1 => at[c] = "wait"

(* Whatever is lost between a read of g_context_list and its assignment, a   *)
(* context for every configured log is made again.                           *)
AlwaysListed ==
    \A p \in Logs : []<>(IsListed(Name(p)) \/ dead # "no")

(* The main loop waits for a client that has connected and has not sent.     *)
Silent == pc = "recv" /\ sent[contr] = 0 /\ at[contr] # "gone"

(* The cursor is in memory that is free, or was handed out again. *)
Trapped == li \in Cells /\ li \notin Reach(head)

RunOf(p) == pc = "run" /\ mem[li].live /\ mem[li].name = Name(p)

(* Every log is run again and again: neither deletions nor clients, only one *)
(* that is silent, a walk that does not come back from freed cells, or the   *)
(* end of the process keep the loop from it.                                 *)
RunAgain ==
    \A p \in Logs : []<>(RunOf(p) \/ dead # "no") \/ <>[]Silent \/ <>[]Trapped

(* A client's first line is answered: with two clients or more nobody waits  *)
(* for ever behind another, but for one that is silent, a walk that is       *)
(* trapped, descriptors that are used up, or the end of the process.         *)
FirstLineAnswered ==
    \A c \in Clients :
        []<>(at[c] # "wait" \/ sent[c] > 1 \/ dead # "no" \/ ~MayOpen)
            \/ <>[]Silent \/ <>[]Trapped
=============================================================================
