-------------------------- MODULE FollowerLoopProofs --------------------------
(***************************************************************************)
(* What is proved about FollowerLoop for any logs, clients, memory and      *)
(* descriptors: types, which include that the main loop never works on a    *)
(* cursor that is no cell; that only one line of a client is answered; that *)
(* the list in memory is sound wherever a walk or an alarm starts; and that *)
(* what a client opened stays in it.                                        *)
(*                                                                         *)
(* ChainIn(m, p), the pointers on the way from p, is described by the sets  *)
(* that the next pointers do not lead out of: it is the least of them that  *)
(* has p (ChainLeast), so what holds on the way is proved by naming such a  *)
(* set.  That the recursive function behind it exists, and the two          *)
(* directions of that fact, rest on LeastNumber.                            *)
(***************************************************************************)
EXTENDS FollowerLoop, SequenceTheorems, FiniteSetTheorems, WellFoundedInduction, TLAPS

----------------------------------------------------------------------------
(* Lemmas about the operators. *)

LEMMA LogsType == /\ \A i \in 1..Len(Patterns) : Patterns[i] \in Logs
                  /\ Len(Patterns) \in Nat \ {0}
<1>1. Patterns \in Seq(Logs) /\ Patterns # << >>
  BY LogsAssumption
<1>2. QED
  BY <1>1, ElementOfSeq, EmptySeq, LenProperties

LEMMA BoundsType == /\ NCells \in Nat /\ MaxDay \in Nat /\ MaxFds \in Nat /\ Lines \in Nat
                    /\ NCells >= Len(Patterns)
  BY BoundsAssumption

LEMMA NamesType ==
    /\ \A p \in Logs : day \in 0..MaxDay => Name(p) \in Names
    /\ Opened \in Names /\ Opened.log \notin Logs
  BY BoundsType, LogsAssumption DEF Name, Names, Opened

LEMMA BlankType == Blank \in Cell
<1>1. Patterns[1] \in Logs /\ 0 \in 0..MaxDay
  BY LogsType, BoundsType
<1>2. [log |-> Patterns[1], day |-> 0] \in Names
  BY <1>1 DEF Names
<1>3. QED
  BY <1>2 DEF Blank, Cell, Pointers

LEMMA ForgetType ==
    ASSUME NEW m \in [Cells -> Cell], NEW roots
    PROVE  Forget(m, roots) \in [Cells -> Cell]
  BY BlankType DEF Forget

LEMMA LinkType ==
    ASSUME mem \in [Cells -> Cell], NEW c \in Cells, NEW name \in Names, NEW next \in Pointers,
           NEW by \in Clients \cup {Nil}
    PROVE  Link(c, name, by, next) \in [Cells -> Cell]
<1>1. [live |-> TRUE, next |-> next, name |-> name, open |-> FALSE, by |-> by] \in Cell
  BY DEF Cell
<1>2. QED
  BY <1>1 DEF Link

LEMMA MallocType == Malloc \subseteq Cells /\ Malloc \subseteq Pointers
  BY DEF Malloc, New, Held, Pointers

----------------------------------------------------------------------------
(* Types.  Where the main loop works on the context under its cursor the     *)
(* cursor is a cell, and where it works on a connection there is one.        *)

AtCell == pc \in {"run", "next", "del", "free", "relink", "assign"}
Serving == pc \in {"recv", "open", "add"}

TypeInv ==
    /\ TypeOK
    /\ AtCell => li \in Cells
    /\ Serving => contr \in Clients

LEMMA InitType == Init => TypeInv
<1> SUFFICES ASSUME Init PROVE TypeInv
  OBVIOUS
<1>1. mem \in [Cells -> Cell]
  <2>1. ASSUME NEW c \in Cells, ~(c > Len(Patterns))
        PROVE  [live |-> TRUE, next |-> IF c = 1 THEN Nil ELSE c - 1,
                name |-> [log |-> Patterns[c], day |-> 0], open |-> FALSE,
                by |-> Nil] \in Cell
    <3>1. c \in 1..Len(Patterns) /\ (c # 1 => c - 1 \in Cells)
      BY <2>1, LogsType, BoundsType DEF Cells
    <3>2. [log |-> Patterns[c], day |-> 0] \in Names
      BY <3>1, LogsType, BoundsType DEF Names
    <3>3. (IF c = 1 THEN Nil ELSE c - 1) \in Pointers
      BY <3>1 DEF Pointers
    <3>4. QED
      BY <3>2, <3>3 DEF Cell
  <2>2. QED
    BY <2>1, BlankType DEF Init
<1>2. head \in Pointers /\ Nil \in Pointers
  BY LogsType, BoundsType DEF Init, Pointers, Cells
<1>3. /\ pending \in Seq(Clients) /\ sent \in [Clients -> 0..Lines]
      /\ at \in [Clients -> {"off", "idle", "wait", "gone"}]
  BY BoundsType, EmptySeq DEF Init
<1>4. sig \in 0..Len(Patterns) /\ day \in 0..MaxDay /\ leaked \in Nat
  <2>1. sig = 0 /\ day = 0 /\ leaked = 0
    BY DEF Init
  <2>2. QED
    BY <2>1, LogsType, BoundsType
<1>5. rung \in BOOLEAN
  BY DEF Init
<1>6. QED
  BY <1>1, <1>2, <1>3, <1>4, <1>5 DEF Init, TypeInv, TypeOK, AtCell, Serving

(* A step of the main loop that leaves the memory and the clients alone. *)
LEMMA PollType == TypeInv /\ Poll => TypeInv'
<1> SUFFICES ASSUME TypeInv, Poll PROVE TypeInv'
  OBVIOUS
<1>1. UNCHANGED <<list, li, arg, rest, prev, sig, rung, day, leaked, at, sent, dead>>
  BY DEF Poll
<1>2. CASE pending = << >> \/ ~MayOpen
  <2>1. pc' = "start" /\ UNCHANGED <<contr, pending>>
    BY <1>2 DEF Poll
  <2>2. QED
    BY <1>1, <2>1 DEF TypeInv, TypeOK, list, AtCell, Serving
<1>3. CASE ~(pending = << >> \/ ~MayOpen)
  <2>1. contr' = Head(pending) /\ pending' = Tail(pending) /\ pc' = "recv"
    BY <1>3 DEF Poll
  <2>2. contr' \in Clients /\ pending' \in Seq(Clients)
    <3>1. pending \in Seq(Clients) /\ pending # << >>
      BY <1>3 DEF TypeInv, TypeOK
    <3>2. QED
      BY <2>1, <3>1, HeadTailProperties
  <2>3. QED
    BY <1>1, <2>1, <2>2 DEF TypeInv, TypeOK, list, AtCell, Serving
<1>4. QED
  BY <1>2, <1>3

LEMMA ReceiveType == TypeInv /\ Receive => TypeInv'
<1> SUFFICES ASSUME TypeInv, Receive PROVE TypeInv'
  OBVIOUS
<1>1. UNCHANGED <<list, li, arg, rest, prev, contr, sig, rung, day, clients, dead>>
  BY DEF Receive
<1>2. pc = "recv" /\ pc' \in {"open", "start"} /\ leaked' \in Nat
  BY DEF Receive, Running, TypeInv, TypeOK
<1>3. QED
  BY <1>1, <1>2 DEF TypeInv, TypeOK, list, clients, AtCell, Serving

LEMMA OpenType == TypeInv /\ (OpenContext \/ OpenAdds) => TypeInv'
<1>1. ASSUME TypeInv, OpenContext PROVE TypeInv'
  BY <1>1 DEF OpenContext, Running, TypeInv, TypeOK, list, clients, AtCell, Serving
<1>2. ASSUME TypeInv, OpenAdds PROVE TypeInv'
  <2>1. /\ UNCHANGED <<li, rest, prev, sig, day, leaked, pending, sent, dead>>
        /\ contr' = Nil /\ arg' = Nil /\ rung' = FALSE /\ pc' = "start"
        /\ at' = [at EXCEPT ![contr] = "idle"]
        /\ pc = "add"
    BY <1>2 DEF OpenAdds, Running
  <2>2. PICK c \in Malloc :
            /\ mem' = Forget(Link(c, Opened, contr, arg), {c})
            /\ head' = c
    BY <1>2 DEF OpenAdds
  <2>3. mem' \in [Cells -> Cell] /\ head' \in Pointers
    <3>1. contr \in Clients /\ arg \in Pointers /\ mem \in [Cells -> Cell]
      BY <1>2, <2>1 DEF TypeInv, TypeOK, Serving
    <3>2. Link(c, Opened, contr, arg) \in [Cells -> Cell]
      BY <3>1, MallocType, NamesType, LinkType
    <3>3. QED
      BY <2>2, <3>2, MallocType, ForgetType DEF Pointers
  <2>4. at' \in [Clients -> {"off", "idle", "wait", "gone"}]
    BY <1>2, <2>1 DEF TypeInv, TypeOK
  <2>5. QED
    BY <1>2, <2>1, <2>3, <2>4 DEF TypeInv, TypeOK, AtCell, Serving, Pointers
<1>3. QED
  BY <1>1, <1>2

(* What GoTo leaves is a cursor on a cell wherever a context is run next. *)
LEMMA GoToType ==
    ASSUME TypeInv, NEW p \in Pointers, GoTo(p), pc \in {"start", "next", "run"}
    PROVE  /\ li' \in Pointers
           /\ pc' \in {"run", "poll", "start", "next"}
           /\ AtCell' => li' \in Cells
           /\ dead' \in {"no", "crash", "hang"}
           /\ ~Serving'
<1>1. CASE p \in Cells
  BY <1>1 DEF GoTo, TypeInv, TypeOK, AtCell, Serving
<1>2. CASE p \notin Cells /\ p = Nil
  BY <1>2 DEF GoTo, TypeInv, TypeOK, AtCell, Serving, Pointers
<1>3. CASE p \notin Cells /\ p # Nil
  BY <1>3 DEF GoTo, TypeInv, TypeOK, AtCell, Serving
<1>4. QED
  BY <1>1, <1>2, <1>3

LEMMA WalkType == TypeInv /\ (StartWalk \/ Advance) => TypeInv'
<1>1. ASSUME TypeInv, StartWalk PROVE TypeInv'
  <2>1. /\ UNCHANGED <<list, arg, rest, prev, contr, sig, rung, day, leaked, clients>>
        /\ GoTo(head) /\ pc = "start"
    BY <1>1 DEF StartWalk, Running
  <2>2. head \in Pointers
    BY <1>1 DEF TypeInv, TypeOK
  <2>3. /\ li' \in Pointers /\ pc' \in {"run", "poll", "start", "next"}
        /\ AtCell' => li' \in Cells
        /\ dead' \in {"no", "crash", "hang"} /\ ~Serving'
    BY <1>1, <2>1, <2>2, GoToType
  <2>4. QED
    BY <1>1, <2>1, <2>3 DEF TypeInv, TypeOK, list, clients
<1>2. ASSUME TypeInv, Advance PROVE TypeInv'
  <2>1. /\ UNCHANGED <<head, arg, rest, prev, contr, sig, rung, day, leaked, clients>>
        /\ GoTo(mem[li].next) /\ pc = "next"
        /\ mem' = Forget(mem, {head, mem[li].next})
    BY <1>2 DEF Advance, Running
  <2>2. mem[li].next \in Pointers
    BY <1>2, <2>1 DEF TypeInv, TypeOK, AtCell, Cell
  <2>3. /\ li' \in Pointers /\ pc' \in {"run", "poll", "start", "next"}
        /\ AtCell' => li' \in Cells
        /\ dead' \in {"no", "crash", "hang"} /\ ~Serving'
    BY <1>2, <2>1, <2>2, GoToType
  <2>4. mem' \in [Cells -> Cell]
    BY <1>2, <2>1, ForgetType DEF TypeInv, TypeOK
  <2>5. QED
    BY <1>2, <2>1, <2>3, <2>4 DEF TypeInv, TypeOK, clients
<1>3. QED
  BY <1>1, <1>2

LEMMA RunType == TypeInv /\ ((\E failed \in BOOLEAN : Run(failed)) \/ RunFreed) => TypeInv'
<1>1. ASSUME TypeInv, NEW failed \in BOOLEAN, Run(failed) PROVE TypeInv'
  <2>1. /\ UNCHANGED <<head, li, arg, rest, prev, contr, sig, rung, day, leaked, clients, dead>>
        /\ pc = "run" /\ pc' \in {"del", "next"}
    BY <1>1 DEF Run, Running
  <2>2. PICK opens \in BOOLEAN : mem' = [mem EXCEPT ![li].open = opens]
    BY <1>1 DEF Run
  <2>3. mem' \in [Cells -> Cell]
    BY <1>1, <2>1, <2>2 DEF TypeInv, TypeOK, AtCell, Cell
  <2>4. QED
    BY <1>1, <2>1, <2>3 DEF TypeInv, TypeOK, clients, AtCell, Serving
<1>2. ASSUME TypeInv, RunFreed PROVE TypeInv'
  <2>1. /\ UNCHANGED <<head, arg, rest, prev, contr, sig, rung, day, leaked, clients>>
        /\ pc = "run"
    BY <1>2 DEF RunFreed, Running
  <2>2. PICK next \in {mem[li].next, Nil, Wild} \cup Malloc :
            GoTo(next) /\ mem' = Forget(mem, {head, next})
    BY <1>2 DEF RunFreed
  <2>3. li \in Cells /\ mem[li] \in Cell /\ mem \in [Cells -> Cell]
    BY <1>2, <2>1 DEF TypeInv, TypeOK, AtCell
  <2>4. next \in Pointers
    BY <2>2, <2>3, MallocType DEF Cell, Pointers
  <2>5. /\ li' \in Pointers /\ pc' \in {"run", "poll", "start", "next"}
        /\ AtCell' => li' \in Cells
        /\ dead' \in {"no", "crash", "hang"} /\ ~Serving'
    BY <1>2, <2>1, <2>2, <2>4, GoToType
  <2>6. mem' \in [Cells -> Cell]
    BY <2>2, <2>3, ForgetType
  <2>7. QED
    BY <1>2, <2>1, <2>5, <2>6 DEF TypeInv, TypeOK, clients
<1>3. QED
  BY <1>1, <1>2

LEMMA DeleteType ==
    TypeInv /\ (DeleteFrom \/ DeleteFrees \/ DeleteFails \/ DeleteRelinks \/ DeleteAssigns)
        => TypeInv'
<1>1. ASSUME TypeInv, DeleteFrom \/ DeleteFails PROVE TypeInv'
  BY <1>1 DEF DeleteFrom, DeleteFails, Running, TypeInv, TypeOK, list, main, clients,
              AtCell, Serving
<1>2. ASSUME TypeInv, DeleteFrees PROVE TypeInv'
  <2>1. /\ UNCHANGED <<head, li, arg, contr, sig, rung, day, leaked, clients, dead>>
        /\ rest' = mem[li].next
        /\ pc = "free" /\ pc' \in {"assign", "relink"}
    BY <1>2 DEF DeleteFrees, Running
  <2>2. PICK next \in {mem[li].next, Nil, Wild} \cup Malloc :
            mem' = [mem EXCEPT ![li].live = FALSE, ![li].next = next]
    BY <1>2 DEF DeleteFrees
  <2>3. li \in Cells /\ mem[li] \in Cell /\ mem \in [Cells -> Cell]
    BY <1>2, <2>1 DEF TypeInv, TypeOK, AtCell
  <2>4. rest' \in Pointers /\ next \in Pointers
    BY <2>1, <2>2, <2>3, MallocType DEF Cell, Pointers
  <2>7. prev' \in Pointers
    BY <1>2 DEF DeleteFrees, TypeInv, TypeOK, Pointers
  <2>5. mem' \in [Cells -> Cell]
    BY <2>2, <2>3, <2>4 DEF Cell
  <2>6. QED
    BY <1>2, <2>1, <2>4, <2>5, <2>7 DEF TypeInv, TypeOK, clients, AtCell, Serving
<1>3. ASSUME TypeInv, DeleteRelinks PROVE TypeInv'
  <2>1. /\ UNCHANGED <<head, li, arg, rest, contr, sig, rung, day, leaked, clients, dead>>
        /\ pc = "relink" /\ pc' = "assign" /\ prev' = Nil
    BY <1>3 DEF DeleteRelinks, Running
  <2>2. mem' = [mem EXCEPT ![prev].next = rest]
    BY <1>3 DEF DeleteRelinks
  <2>3. mem' \in [Cells -> Cell]
    BY <1>3, <2>2 DEF TypeInv, TypeOK, Cell
  <2>4. QED
    BY <1>3, <2>1, <2>3 DEF TypeInv, TypeOK, clients, AtCell, Serving, Pointers
<1>4. ASSUME TypeInv, DeleteAssigns PROVE TypeInv'
  <2>1. /\ UNCHANGED <<li, prev, contr, sig, day, clients, dead>>
        /\ arg' = Nil /\ rest' = Nil /\ rung' = FALSE
        /\ head' \in {rest, arg} /\ leaked' = leaked + 1
        /\ mem' = Forget(mem, {head', li})
        /\ pc = "assign" /\ pc' = "next"
    BY <1>4 DEF DeleteAssigns, Running
  <2>2. mem' \in [Cells -> Cell]
    BY <1>4, <2>1, ForgetType DEF TypeInv, TypeOK
  <2>3. head' \in Pointers /\ Nil \in Pointers
    BY <1>4, <2>1 DEF TypeInv, TypeOK, Pointers
  <2>4. leaked' \in Nat
    BY <1>4, <2>1 DEF TypeInv, TypeOK
  <2>5. QED
    BY <1>4, <2>1, <2>2, <2>3, <2>4 DEF TypeInv, TypeOK, clients, AtCell, Serving
<1>5. QED
  BY <1>1, <1>2, <1>3, <1>4

LEMMA HandlerType == TypeInv /\ (Alarm \/ HandlerNext) => TypeInv'
<1>1. ASSUME TypeInv, Alarm PROVE TypeInv'
  <2>1. InWindow \in BOOLEAN
    BY DEF InWindow
  <2>2. QED
    BY <1>1, <2>1, LogsType DEF Alarm, TypeInv, TypeOK, list, main, clients, AtCell, Serving
<1>2. ASSUME TypeInv, HandlerFinds PROVE TypeInv'
  <2>1. sig' \in 0..Len(Patterns)
    BY <1>2, LogsType DEF HandlerFinds, NextPattern, TypeInv, TypeOK, Handling
  <2>2. QED
    BY <1>2, <2>1 DEF HandlerFinds, TypeInv, TypeOK, list, main, clients, AtCell, Serving
<1>3. ASSUME TypeInv, HandlerAdds PROVE TypeInv'
  <2>1. /\ sig' \in 0..Len(Patterns) /\ sig \in 1..Len(Patterns)
        /\ UNCHANGED <<main, rung, day, leaked, clients, dead>>
    BY <1>3, LogsType DEF HandlerAdds, NextPattern, TypeInv, TypeOK, Handling
  <2>2. PICK c \in Malloc : mem' = Link(c, Name(Patterns[sig]), Nil, head) /\ head' = c
    BY <1>3 DEF HandlerAdds
  <2>3. mem' \in [Cells -> Cell] /\ head' \in Pointers
    <3>1. Name(Patterns[sig]) \in Names /\ head \in Pointers /\ mem \in [Cells -> Cell]
      BY <1>3, <2>1, LogsType, NamesType DEF TypeInv, TypeOK
    <3>2. QED
      BY <2>2, <3>1, MallocType, LinkType DEF Pointers
  <2>4. QED
    BY <1>3, <2>1, <2>3 DEF TypeInv, TypeOK, main, clients, AtCell, Serving
<1>4. ASSUME TypeInv, HandlerHangs \/ HandlerCrashes PROVE TypeInv'
  BY <1>4 DEF HandlerHangs, HandlerCrashes, TypeInv, TypeOK, list, main, clients,
              AtCell, Serving
<1>5. QED
  BY <1>1, <1>2, <1>3, <1>4 DEF HandlerNext

LEMMA ClientType ==
    ASSUME TypeInv, NEW c \in Clients, Connect(c) \/ SendLine(c) \/ Quit(c)
    PROVE  TypeInv'
<1>1. UNCHANGED <<list, main, sig, rung, day, leaked, dead>>
  BY DEF Connect, SendLine, Quit
<1>2. at' \in [Clients -> {"off", "idle", "wait", "gone"}]
  BY DEF Connect, SendLine, Quit, TypeInv, TypeOK
<1>3. sent' \in [Clients -> 0..Lines]
  <2>1. sent \in [Clients -> 0..Lines] /\ Lines \in Nat
    BY BoundsType DEF TypeInv, TypeOK
  <2>2. sent' = sent \/ (sent[c] < Lines /\ sent' = [sent EXCEPT ![c] = @ + 1])
    BY DEF Connect, SendLine, Quit
  <2>3. sent[c] < Lines => sent[c] + 1 \in 0..Lines
    BY <2>1
  <2>4. QED
    BY <2>1, <2>2, <2>3
<1>4. pending' \in Seq(Clients)
  <2>1. pending \in Seq(Clients)
    BY DEF TypeInv, TypeOK
  <2>2. pending' = pending \/ pending' = Append(pending, c)
    BY DEF Connect, SendLine, Quit
  <2>3. QED
    BY <2>1, <2>2, AppendProperties
<1>5. QED
  BY <1>1, <1>2, <1>3, <1>4 DEF TypeInv, TypeOK, list, main, AtCell, Serving

LEMMA NextType == TypeInv /\ [Next]_vars => TypeInv'
<1>1. ASSUME TypeInv, Midnight PROVE TypeInv'
  BY <1>1, BoundsType DEF Midnight, TypeInv, TypeOK, list, main, clients, AtCell, Serving
<1>2. ASSUME TypeInv, UNCHANGED vars PROVE TypeInv'
  BY <1>2 DEF vars, TypeInv, TypeOK, list, main, clients, AtCell, Serving
<1>3. QED
  BY <1>1, <1>2, PollType, ReceiveType, OpenType, WalkType, RunType, DeleteType,
     HandlerType, ClientType DEF Next, MainNext

(* The type invariant of FollowerLoop holds for any logs, clients and memory. *)
THEOREM TypeCorrect == Spec => []TypeOK
<1>1. Spec => []TypeInv
  BY InitType, NextType, PTL DEF Spec
<1>2. TypeInv => TypeOK
  BY DEF TypeInv
<1>3. QED
  BY <1>1, <1>2, PTL

----------------------------------------------------------------------------
(* Only the first line of a client is answered: a connection is accepted    *)
(* once, and read once, before its client can have sent a second line.      *)

Queued(c) == \E i \in 1..Len(pending) : pending[i] = c
Served(c) == Serving /\ contr = c

(* Nobody is queued who has not connected, nobody twice, and nobody who is   *)
(* served; whoever waits to be served has sent one line at most; more than   *)
(* one leaves a client waiting for good.                                     *)
LineInv ==
    /\ \A i, j \in 1..Len(pending) : pending[i] = pending[j] => i = j
    /\ \A c \in Clients :
           /\ at[c] = "off" => sent[c] = 0 /\ ~Queued(c) /\ ~Served(c)
           /\ Queued(c) => ~Served(c)
           /\ Queued(c) \/ Served(c) =>
                  sent[c] <= 1 /\ (sent[c] = 1 => at[c] = "wait")
           /\ sent[c] > 1 => at[c] = "wait"

LEMMA LineInit == Init => LineInv
  BY EmptySeq DEF Init, LineInv, Queued, Served, Serving

(* Steps that leave the clients alone and serve nobody new. *)
LEMMA LineFrame ==
    ASSUME TypeInv, LineInv, UNCHANGED clients,
           Serving' => Serving /\ contr' = contr
    PROVE  LineInv'
<1>1. \A c \in Clients : Queued(c)' = Queued(c) /\ (Served(c)' => Served(c))
  BY DEF clients, Queued, Served
<1>2. UNCHANGED <<pending, at, sent>>
  BY DEF clients
<1>3. QED
  BY <1>1, <1>2 DEF LineInv

LEMMA LinePoll == TypeInv /\ LineInv /\ Poll => LineInv'
<1> SUFFICES ASSUME TypeInv, LineInv, Poll PROVE LineInv'
  OBVIOUS
<1>1. UNCHANGED <<at, sent>> /\ pc = "poll"
  BY DEF Poll, Running
<1>2. CASE pending = << >> \/ ~MayOpen
  <2>1. UNCHANGED pending /\ ~Serving'
    BY <1>2 DEF Poll, Serving
  <2>2. QED
    BY <1>1, <2>1, LineFrame DEF clients
<1>3. CASE ~(pending = << >> \/ ~MayOpen)
  <2>1. contr' = Head(pending) /\ pending' = Tail(pending)
    BY <1>3 DEF Poll
  <2>2. /\ Len(pending) \in Nat \ {0} /\ contr' = pending[1]
        /\ Len(pending') = Len(pending) - 1
        /\ \A i \in 1..Len(pending') : pending'[i] = pending[i + 1]
    <3>1. pending \in Seq(Clients) /\ pending # << >>
      BY <1>3 DEF TypeInv, TypeOK
    <3>2. QED
      BY <2>1, <3>1, HeadTailProperties, EmptySeq, LenProperties
  <2>3. \A i, j \in 1..Len(pending') : pending'[i] = pending'[j] => i = j
    BY <2>2 DEF LineInv
  <2>4. \A c \in Clients : /\ Queued(c)' => Queued(c)
                           /\ Served(c)' => Queued(c) /\ ~Queued(c)'
    <3>1. ASSUME NEW c \in Clients, Queued(c)' PROVE Queued(c) /\ c # contr'
      <4>1. PICK i \in 1..Len(pending') : pending'[i] = c
        BY <3>1 DEF Queued
      <4>2. i + 1 \in 1..Len(pending) /\ 1 \in 1..Len(pending) /\ pending[i + 1] = c
        BY <2>2, <4>1
      <4>3. QED
        BY <2>2, <4>2 DEF LineInv, Queued
    <3>2. ASSUME NEW c \in Clients, Served(c)' PROVE Queued(c) /\ c = contr'
      <4>1. c = contr' /\ pending[1] = c
        BY <2>2, <3>2 DEF Served
      <4>2. 1 \in 1..Len(pending)
        BY <2>2
      <4>3. QED
        BY <4>1, <4>2 DEF Queued
    <3>3. QED
      BY <3>1, <3>2
  <2>5. QED
    BY <1>1, <2>3, <2>4 DEF LineInv
<1>4. QED
  BY <1>2, <1>3

LEMMA LineAnswer == TypeInv /\ LineInv /\ OpenAdds => LineInv'
<1> SUFFICES ASSUME TypeInv, LineInv, OpenAdds PROVE LineInv'
  OBVIOUS
<1>1. /\ UNCHANGED <<pending, sent>> /\ ~Serving' /\ Serving
      /\ at' = [at EXCEPT ![contr] = "idle"]
  BY DEF OpenAdds, Running, Serving
<1>2. \A c \in Clients : Queued(c)' = Queued(c) /\ ~Served(c)'
  BY <1>1 DEF Queued, Served
<1>3. contr \in Clients /\ Served(contr)
  BY <1>1 DEF TypeInv, Served
<1>4. sent[contr] <= 1 /\ ~Queued(contr) /\ sent[contr] \in 0..Lines /\ Lines \in Nat
  BY <1>3, BoundsType DEF LineInv, TypeInv, TypeOK
<1>5. /\ \A c \in Clients \ {contr} : at'[c] = at[c]
      /\ at'[contr] = "off" => at[contr] = "off"
  BY <1>1, <1>3 DEF TypeInv, TypeOK
<1>6. \A c \in Clients :
         /\ at'[c] = "off" => sent[c] = 0 /\ ~Queued(c)
         /\ Queued(c) => sent[c] <= 1 /\ (sent[c] = 1 => at'[c] = "wait")
         /\ sent[c] > 1 => at'[c] = "wait"
  <2>1. \A c \in Clients : sent[c] \in Nat
    BY BoundsType DEF TypeInv, TypeOK
  <2>2. ASSUME NEW c \in Clients, c # contr
        PROVE  /\ at'[c] = "off" => sent[c] = 0 /\ ~Queued(c)
               /\ Queued(c) => sent[c] <= 1 /\ (sent[c] = 1 => at'[c] = "wait")
               /\ sent[c] > 1 => at'[c] = "wait"
    BY <1>5, <2>2 DEF LineInv
  <2>3. ~(sent[contr] > 1)
    BY <1>3, <1>4, <2>1
  <2>4. QED
    BY <1>3, <1>4, <1>5, <2>2, <2>3 DEF LineInv
<1>7. QED
  BY <1>1, <1>2, <1>6 DEF LineInv

LEMMA LineClient ==
    ASSUME TypeInv, LineInv, NEW c \in Clients, Connect(c) \/ SendLine(c) \/ Quit(c)
    PROVE  LineInv'
<1>1. UNCHANGED <<pc, contr>>
  BY DEF Connect, SendLine, Quit, main
<1>2. \A d \in Clients : sent[d] \in Nat
  BY BoundsType DEF TypeInv, TypeOK
<1>3. ASSUME Connect(c) PROVE LineInv'
  <2>1. /\ at[c] = "off" /\ pending' = Append(pending, c) /\ UNCHANGED sent
        /\ at' = [at EXCEPT ![c] = "idle"] /\ at \in [Clients -> {"off", "idle", "wait", "gone"}]
    BY <1>3 DEF Connect, TypeInv, TypeOK
  <2>2. sent[c] = 0 /\ ~Queued(c) /\ ~Served(c)
    BY <2>1 DEF LineInv
  <2>3. /\ Len(pending) \in Nat /\ Len(pending') = Len(pending) + 1
        /\ \A i \in 1..Len(pending) : pending'[i] = pending[i]
        /\ pending'[Len(pending) + 1] = c
    BY <2>1, AppendProperties, LenProperties DEF TypeInv, TypeOK
  <2>4. \A i, j \in 1..Len(pending') : pending'[i] = pending'[j] => i = j
    BY <2>2, <2>3 DEF LineInv, Queued
  <2>5. \A d \in Clients : Queued(d)' => Queued(d) \/ d = c
    BY <2>3 DEF Queued
  <2>6. \A d \in Clients : Served(d)' = Served(d)
    BY <1>1 DEF Served, Serving
  <2>7. ASSUME NEW d \in Clients
        PROVE  /\ at'[d] = "off" => sent'[d] = 0 /\ ~Queued(d)' /\ ~Served(d)'
               /\ Queued(d)' => ~Served(d)'
               /\ Queued(d)' \/ Served(d)' =>
                      sent'[d] <= 1 /\ (sent'[d] = 1 => at'[d] = "wait")
               /\ sent'[d] > 1 => at'[d] = "wait"
    <3>1. CASE d = c
      BY <2>1, <2>2, <2>6, <3>1
    <3>2. CASE d # c
      BY <2>1, <2>5, <2>6, <3>2 DEF LineInv
    <3>3. QED
      BY <3>1, <3>2
  <2>8. QED
    BY <2>4, <2>7 DEF LineInv
<1>4. ASSUME SendLine(c) \/ Quit(c) PROVE LineInv'
  <2>1. /\ UNCHANGED pending /\ at[c] # "off"
        /\ \A d \in Clients \ {c} : at'[d] = at[d] /\ sent'[d] = sent[d]
        /\ at'[c] = "wait" \/ (at'[c] = "gone" /\ sent'[c] = 0)
    BY <1>4 DEF SendLine, Quit, TypeInv, TypeOK
  <2>2. \A d \in Clients : Queued(d)' = Queued(d) /\ Served(d)' = Served(d)
    BY <1>1, <2>1 DEF Queued, Served, Serving
  <2>3. Queued(c) \/ Served(c) => sent'[c] <= 1
    <3>1. ASSUME SendLine(c), Queued(c) \/ Served(c) PROVE sent'[c] <= 1
      <4>1. at[c] = "idle" /\ sent'[c] = sent[c] + 1
        BY <3>1 DEF SendLine, TypeInv, TypeOK
      <4>2. sent[c] <= 1 /\ sent[c] # 1
        BY <3>1, <4>1 DEF LineInv
      <4>3. QED
        BY <1>2, <4>1, <4>2
    <3>2. ASSUME Quit(c), Queued(c) \/ Served(c) PROVE sent'[c] <= 1
      BY <3>2 DEF Quit, LineInv
    <3>3. QED
      BY <1>4, <3>1, <3>2
  <2>4. QED
    BY <2>1, <2>2, <2>3 DEF LineInv
<1>5. QED
  BY <1>3, <1>4

LEMMA LineNext == TypeInv /\ LineInv /\ [Next]_vars => LineInv'
<1> SUFFICES ASSUME TypeInv, LineInv, [Next]_vars PROVE LineInv'
  OBVIOUS
<1>1. ASSUME Receive \/ OpenContext PROVE LineInv'
  <2>1. UNCHANGED clients /\ UNCHANGED contr /\ Serving
    BY <1>1 DEF Receive, OpenContext, Running, Serving
  <2>2. QED
    BY <2>1, LineFrame
<1>2. ASSUME StartWalk \/ Advance \/ Run(FALSE) \/ Run(TRUE) \/ RunFreed \/ DeleteFrom
             \/ DeleteFrees \/ DeleteFails \/ DeleteRelinks \/ DeleteAssigns
      PROVE  LineInv'
  <2>1. ASSUME StartWalk \/ Advance \/ RunFreed PROVE UNCHANGED clients /\ (Serving' => FALSE)
    <3>1. UNCHANGED clients /\ pc \in {"start", "next", "run"}
      BY <2>1 DEF StartWalk, Advance, RunFreed, Running
    <3>2. pc' \in {"run", "poll"} \/ pc' = pc
      BY <2>1 DEF StartWalk, Advance, RunFreed, GoTo
    <3>3. QED
      BY <3>1, <3>2 DEF Serving
  <2>2. ASSUME Run(FALSE) \/ Run(TRUE) \/ DeleteFrom \/ DeleteFrees
               \/ DeleteRelinks \/ DeleteAssigns
        PROVE  UNCHANGED clients /\ ~Serving'
    BY <2>2 DEF Run, DeleteFrom, DeleteFrees, DeleteRelinks, DeleteAssigns, Serving
  <2>3. ASSUME DeleteFails PROVE UNCHANGED clients /\ ~Serving'
    BY <2>3 DEF DeleteFails, Running, main, Serving
  <2>4. QED
    BY <1>2, <2>1, <2>2, <2>3, LineFrame
<1>3. ASSUME Alarm \/ HandlerNext \/ Midnight \/ UNCHANGED vars PROVE LineInv'
  <2>1. UNCHANGED clients /\ UNCHANGED <<pc, contr>>
    BY <1>3 DEF Alarm, HandlerNext, HandlerFinds, HandlerAdds, HandlerHangs,
                HandlerCrashes, Midnight, vars, main
  <2>2. QED
    BY <2>1, LineFrame DEF Serving
<1>4. QED
  BY <1>1, <1>2, <1>3, LinePoll, LineAnswer, LineClient DEF Next, MainNext

(* Whatever the list, the alarms and the other clients do, only the first     *)
(* line of a comlogger is ever answered.                                     *)
THEOREM OnlyFirstLineHolds == Spec => []OnlyFirstLine
<1>1. Spec => [](TypeInv /\ LineInv)
  BY InitType, NextType, LineInit, LineNext, PTL DEF Spec
<1>2. LineInv => OnlyFirstLine
  BY DEF LineInv, OnlyFirstLine
<1>3. QED
  BY <1>1, <1>2, PTL

----------------------------------------------------------------------------
(* What induction is for sets: there is a least number that is different. *)
LEMMA LeastNumber ==
    ASSUME NEW T, T \subseteq Nat, T # {}
    PROVE  \E n \in T : \A k \in T : n <= k
<1> DEFINE Below == {ss \in Nat \X Nat : ss[1] < ss[2]}
<1>1. IsWellFoundedOn(Below, Nat)
  BY NatLessThanWellFounded DEF OpToRel
<1> HIDE DEF Below
<1>2. PICK n \in T : \A k \in T : <<k, n>> \notin Below
  BY <1>1, WFMin
<1>3. \A k \in T : ~(k < n)
  BY <1>2 DEF Below
<1>4. QED
  BY <1>3

LEMMA CellsFinite == /\ NCells \in Nat
                     /\ IsFiniteSet(Cells) /\ Cardinality(Cells) = NCells
                     /\ IsFiniteSet(0..NCells) /\ Cardinality(0..NCells) = NCells + 1
                     /\ Nil \notin Cells /\ Wild \notin Cells /\ Nil # Wild
<1>1. NCells \in Nat
  BY BoundsAssumption
<1>2. /\ IsFiniteSet(1..NCells) /\ Cardinality(1..NCells) = NCells
      /\ IsFiniteSet(0..NCells) /\ Cardinality(0..NCells) = NCells + 1
  BY <1>1, FS_Interval
<1>3. QED
  BY <1>1, <1>2, PointersAssumption DEF Cells

(* The walk from p, by numbers. *)
Path(m, p, go, n) == go = [k \in 0..n |-> IF k = 0 THEN p ELSE Follow(m, go[k - 1])]

LEMMA PathExists ==
    ASSUME NEW m, NEW p, NEW n \in Nat
    PROVE  \E go : Path(m, p, go, n)
<1> DEFINE T == {i \in Nat : ~ \E go : Path(m, p, go, i)}
<1> SUFFICES ASSUME T # {} PROVE FALSE
  OBVIOUS
<1>1. PICK i \in T : \A k \in T : i <= k
  BY LeastNumber
<1>2. i # 0
  <2> DEFINE g == [k \in 0..0 |-> p]
  <2>1. Path(m, p, g, 0)
    BY DEF Path
  <2>2. QED
    BY <1>1, <2>1
<1>3. i - 1 \in Nat /\ ~(i <= i - 1)
  BY <1>2
<1>4. PICK g : Path(m, p, g, i - 1)
  BY <1>1, <1>3
<1> DEFINE go == [k \in 0..i |-> IF k = 0 THEN p ELSE Follow(m, g[k - 1])]
<1>5. \A k \in 0..(i - 1) : go[k] = g[k]
  BY <1>3, <1>4 DEF Path
<1>6. \A k \in 0..i : k # 0 => k - 1 \in 0..(i - 1) /\ go[k] = Follow(m, g[k - 1])
  BY <1>3
<1>7. \A k \in 0..i : k # 0 => go[k] = Follow(m, go[k - 1])
  BY <1>5, <1>6
<1>8. Path(m, p, go, i)
  <2>1. 0 \in 0..i /\ go[0] = p
    BY <1>3
  <2>2. QED
    BY <1>7, <2>1 DEF Path
<1>9. QED
  BY <1>1, <1>8

LEMMA ChainPath ==
    ASSUME NEW m, NEW p
    PROVE  \E go : /\ ChainIn(m, p) = {go[k] : k \in 0..NCells}
                   /\ go[0] = p
                   /\ \A k \in 0..NCells : k # 0 => go[k] = Follow(m, go[k - 1])
<1>1. PICK go : Path(m, p, go, NCells)
  BY PathExists, CellsFinite
<1>2. go[0] = p /\ \A k \in 0..NCells : k # 0 => go[k] = Follow(m, go[k - 1])
  BY <1>1, CellsFinite DEF Path
<1> DEFINE met[k \in 0..NCells] ==
               IF k = 0 THEN {p} ELSE UNION {{q, Follow(m, q)} : q \in met[k - 1]}
           Gone(k) == {go[i] : i \in 0..k}
<1>3. ChainIn(m, p) = met[NCells]
  BY DEF ChainIn
<1>4. \A k \in 0..NCells : k # 0 =>
          Gone(k) = UNION {{q, Follow(m, q)} : q \in Gone(k - 1)}
  <2>1. SUFFICES ASSUME NEW k \in 0..NCells, k # 0
                 PROVE  Gone(k) = UNION {{q, Follow(m, q)} : q \in Gone(k - 1)}
    OBVIOUS
  <2>2. k \in Nat /\ k - 1 \in 0..NCells
    BY <2>1, CellsFinite
  <2>3. ASSUME NEW i \in 0..k
        PROVE  \E q \in Gone(k - 1) : go[i] \in {q, Follow(m, q)}
    <3>1. CASE i = k
      <4>1. go[k - 1] \in Gone(k - 1) /\ go[i] = Follow(m, go[k - 1])
        BY <1>2, <2>1, <2>2, <3>1
      <4>2. QED
        BY <4>1
    <3>2. CASE i # k
      <4>1. i \in 0..(k - 1)
        BY <2>2, <3>2
      <4>2. QED
        BY <4>1
    <3>3. QED
      BY <3>1, <3>2
  <2>4. ASSUME NEW i \in 0..(k - 1)
        PROVE  go[i] \in Gone(k) /\ Follow(m, go[i]) \in Gone(k)
    <3>1. i \in 0..k /\ i + 1 \in 0..k /\ i + 1 \in 0..NCells /\ i + 1 # 0 /\ (i + 1) - 1 = i
      BY <2>2, CellsFinite
    <3>2. go[i + 1] = Follow(m, go[i])
      BY <1>2, <3>1
    <3>3. QED
      BY <3>1, <3>2
  <2>5. QED
    BY <2>3, <2>4
<1>5. Gone(0) = {p}
  BY <1>2
<1>6. met = [k \in 0..NCells |->
                IF k = 0 THEN {p} ELSE UNION {{q, Follow(m, q)} : q \in met[k - 1]}]
  <2> DEFINE f == [k \in 0..NCells |-> Gone(k)]
  <2>1. \A k \in 0..NCells : k # 0 => k - 1 \in 0..NCells
    BY CellsFinite
  <2> HIDE DEF Gone
  <2>2. f = [k \in 0..NCells |->
                IF k = 0 THEN {p} ELSE UNION {{q, Follow(m, q)} : q \in f[k - 1]}]
    BY <1>4, <1>5, <2>1
  <2> HIDE DEF f
  <2>3. \E g : g = [k \in 0..NCells |->
                       IF k = 0 THEN {p} ELSE UNION {{q, Follow(m, q)} : q \in g[k - 1]}]
    BY <2>2
  <2>4. QED
    BY <2>3
<1> HIDE DEF Gone, met
<1>7. \A k \in 0..NCells : met[k] = Gone(k)
  <2> DEFINE T == {k \in 0..NCells : met[k] # Gone(k)}
  <2>1. SUFFICES ASSUME T # {} PROVE FALSE
    OBVIOUS
  <2>2. T \subseteq Nat
    BY CellsFinite
  <2> HIDE DEF T
  <2>3. PICK k \in T : \A j \in T : k <= j
    BY <2>1, <2>2, LeastNumber
  <2>4. k \in 0..NCells /\ k # 0 /\ met[k] # Gone(k)
    BY <1>5, <1>6, <2>3, CellsFinite DEF T
  <2>5. k - 1 \in 0..NCells /\ ~(k <= k - 1)
    BY <2>4, CellsFinite
  <2>6. met[k - 1] = Gone(k - 1)
    BY <2>3, <2>5 DEF T
  <2>7. met[k] = UNION {{q, Follow(m, q)} : q \in met[k - 1]}
    BY <1>6, <2>4
  <2>8. QED
    BY <1>4, <2>4, <2>6, <2>7
<1>8. ChainIn(m, p) = {go[k] : k \in 0..NCells}
  BY <1>3, <1>7, CellsFinite DEF Gone
<1>9. QED
  BY <1>2, <1>8

Closed(m, S) == \A q \in Cells \cap S : m[q].next \in S

LEMMA ChainFirst ==
    ASSUME NEW m, NEW p
    PROVE  p \in ChainIn(m, p)
<1>1. 0 \in 0..NCells
  BY CellsFinite
<1>2. QED
  BY <1>1, ChainPath

LEMMA ChainLeast ==
    ASSUME NEW m, NEW p, NEW S, p \in S, Closed(m, S)
    PROVE  ChainIn(m, p) \subseteq S
<1>1. PICK go : /\ ChainIn(m, p) = {go[k] : k \in 0..NCells}
                /\ go[0] = p
                /\ \A k \in 0..NCells : k # 0 => go[k] = Follow(m, go[k - 1])
  BY ChainPath
<1> DEFINE T == {k \in 0..NCells : go[k] \notin S}
<1>2. ASSUME T # {} PROVE FALSE
  <2>1. PICK k \in T : \A j \in T : k <= j
    <3>1. T \subseteq Nat
      BY CellsFinite
    <3> HIDE DEF T
    <3>2. QED
      BY <1>2, <3>1, LeastNumber
  <2>2. k # 0 /\ k \in 0..NCells
    BY <1>1, <2>1
  <2>3. k - 1 \in 0..NCells /\ ~(k <= k - 1)
    BY <2>2, CellsFinite
  <2>4. go[k - 1] \in S
    BY <2>1, <2>3
  <2>5. go[k] = Follow(m, go[k - 1])
    BY <1>1, <2>2
  <2>6. go[k] \in S
    BY <2>4, <2>5 DEF Follow, Closed
  <2>7. QED
    BY <2>1, <2>6
<1>3. QED
  BY <1>1, <1>2

LEMMA ChainNext ==
    ASSUME NEW m, NEW p
    PROVE  Closed(m, ChainIn(m, p))
<1>1. PICK go : /\ ChainIn(m, p) = {go[k] : k \in 0..NCells}
                /\ go[0] = p
                /\ \A k \in 0..NCells : k # 0 => go[k] = Follow(m, go[k - 1])
  BY ChainPath
<1> SUFFICES ASSUME NEW k \in 0..NCells, go[k] \in Cells
             PROVE  m[go[k]].next \in ChainIn(m, p)
  BY <1>1 DEF Closed
<1>2. \A i \in 0..NCells : i + 1 \in 0..NCells => go[i + 1] = Follow(m, go[i])
  BY <1>1, CellsFinite
<1>3. CASE k # NCells
  <2>1. k + 1 \in 0..NCells
    BY <1>3, CellsFinite
  <2>2. go[k + 1] = m[go[k]].next
    BY <1>2, <2>1 DEF Follow
  <2>3. QED
    BY <1>1, <2>1, <2>2
<1>4. CASE k = NCells
  <2>1. ASSUME NEW i \in 0..NCells, go[i] \notin Cells PROVE FALSE
    <3> DEFINE T == {j \in i..NCells : go[j] # go[i]}
    <3>1. T \subseteq Nat /\ NCells \in T
      BY <1>4, <2>1, CellsFinite
    <3>2. PICK j \in T : \A l \in T : j <= l
      BY <3>1, LeastNumber
    <3>3. /\ j \in i..NCells /\ j # i /\ j \in 0..NCells /\ j # 0
          /\ j - 1 \in i..NCells /\ ~(j <= j - 1)
      BY <3>2, CellsFinite
    <3>4. go[j - 1] = go[i] /\ go[j] = Follow(m, go[j - 1])
      BY <1>1, <3>2, <3>3
    <3>5. go[j] = go[i]
      BY <2>1, <3>4 DEF Follow
    <3>6. QED
      BY <3>2, <3>5
  <2> DEFINE f == [i \in 0..NCells |-> go[i]]
  <2>2. f \in [0..NCells -> Cells]
    BY <2>1
  <2>3. NCells < NCells + 1
    BY CellsFinite
  <2>4. \E x, y \in 0..NCells : x # y /\ f[x] = f[y]
    <3> HIDE DEF f
    <3>1. QED
      BY <2>2, <2>3, CellsFinite, FS_PigeonHole
  <2>5. PICK x, y \in 0..NCells : x < y /\ go[x] = go[y]
    <3>1. PICK x, y \in 0..NCells : x # y /\ f[x] = f[y]
      BY <2>4
    <3>2. go[x] = go[y]
      BY <3>1
    <3>3. x < y \/ y < x
      BY <3>1, CellsFinite
    <3>4. QED
      BY <3>2, <3>3
  <2> DEFINE T == {d \in 0..(NCells - y) : go[x + d] # go[y + d]}
  <2>6. T = {}
    <3> SUFFICES ASSUME T # {} PROVE FALSE
      OBVIOUS
    <3>1. T \subseteq Nat
      BY CellsFinite
    <3>2. PICK d \in T : \A l \in T : d <= l
      BY <3>1, LeastNumber
    <3>3. d \in 0..(NCells - y) /\ go[x + d] # go[y + d]
      BY <3>2
    <3>4. d # 0
      <4>1. x + 0 = x /\ y + 0 = y
        BY <2>5, CellsFinite
      <4>2. QED
        BY <2>5, <3>3, <4>1
    <3>5. d - 1 \in 0..(NCells - y) /\ ~(d <= d - 1)
      BY <3>3, <3>4, CellsFinite
    <3>6. go[x + (d - 1)] = go[y + (d - 1)]
      BY <3>2, <3>5
    <3>7. /\ x + (d - 1) \in 0..NCells /\ y + (d - 1) \in 0..NCells
          /\ x + d \in 0..NCells /\ y + d \in 0..NCells
          /\ x + d = (x + (d - 1)) + 1 /\ y + d = (y + (d - 1)) + 1
      BY <2>5, <3>3, <3>4, CellsFinite
    <3>8. go[x + d] = Follow(m, go[x + (d - 1)]) /\ go[y + d] = Follow(m, go[y + (d - 1)])
      BY <1>2, <3>7
    <3>9. QED
      BY <3>3, <3>6, <3>8
  <2>7. /\ NCells - y \in 0..(NCells - y) /\ y + (NCells - y) = NCells
        /\ x + (NCells - y) \in 0..NCells /\ (x + (NCells - y)) + 1 \in 0..NCells
    BY <2>5, CellsFinite
  <2>8. go[x + (NCells - y)] = go[NCells]
    BY <2>6, <2>7
  <2>9. go[(x + (NCells - y)) + 1] = m[go[k]].next
    BY <1>2, <1>4, <2>7, <2>8 DEF Follow
  <2>10. QED
    BY <1>1, <2>7, <2>9
<1>5. QED
  BY <1>3, <1>4

LEMMA ChainWithin ==
    ASSUME NEW m, NEW p, NEW q \in ChainIn(m, p)
    PROVE  ChainIn(m, q) \subseteq ChainIn(m, p)
<1>1. Closed(m, ChainIn(m, p))
  BY ChainNext
<1> HIDE DEF Closed
<1>2. QED
  BY <1>1, ChainLeast

LEMMA ChainTail ==
    ASSUME NEW m, NEW q \in Cells
    PROVE  /\ m[q].next \in ChainIn(m, q)
           /\ ChainIn(m, q) = {q} \cup ChainIn(m, m[q].next)
<1>1. q \in ChainIn(m, q) /\ m[q].next \in ChainIn(m, m[q].next)
  BY ChainFirst
<1>2. m[q].next \in ChainIn(m, q)
  BY <1>1, ChainNext DEF Closed
<1>3. ChainIn(m, m[q].next) \subseteq ChainIn(m, q)
  BY <1>2, ChainWithin
<1> DEFINE S == {q} \cup ChainIn(m, m[q].next)
<1>4. Closed(m, ChainIn(m, m[q].next))
  BY ChainNext
<1>5. q \in S /\ Closed(m, S)
  BY <1>1, <1>4 DEF Closed
<1>6. ChainIn(m, q) \subseteq S
  <2> HIDE DEF S
  <2>1. QED
    BY <1>5, ChainLeast
<1>7. QED
  BY <1>1, <1>2, <1>3, <1>6

LEMMA ChainEnd ==
    ASSUME NEW m, NEW q, q \notin Cells
    PROVE  ChainIn(m, q) = {q}
<1>1. Closed(m, {q})
  BY DEF Closed
<1>2. QED
  BY <1>1, ChainFirst, ChainLeast

LEMMA ChainType ==
    ASSUME NEW m \in [Cells -> Cell], NEW p \in Pointers
    PROVE  ChainIn(m, p) \subseteq Pointers
<1>1. Closed(m, Pointers)
  BY DEF Closed, Cell
<1>2. QED
  BY <1>1, ChainLeast

(* Of any two pointers on the way one comes after the other. *)
LEMMA ChainOrder ==
    ASSUME NEW m, NEW p, NEW x \in ChainIn(m, p), NEW y \in ChainIn(m, p)
    PROVE  y \in ChainIn(m, x) \/ x \in ChainIn(m, y)
<1> DEFINE S == {z \in ChainIn(m, p) : z \in ChainIn(m, x) \/ x \in ChainIn(m, z)}
<1>1. p \in S
  BY ChainFirst
<1>2. ASSUME NEW q \in Cells \cap S PROVE m[q].next \in S
  <2>1. m[q].next \in ChainIn(m, p)
    BY ChainNext DEF Closed
  <2>2. CASE q \in ChainIn(m, x)
    <3>1. m[q].next \in ChainIn(m, x)
      BY <2>2, ChainNext DEF Closed
    <3>2. QED
      BY <2>1, <3>1
  <2>3. CASE x \in ChainIn(m, q) /\ x # q
    <3>1. x \in ChainIn(m, m[q].next)
      BY <2>3, ChainTail
    <3>2. QED
      BY <2>1, <3>1
  <2>4. CASE x = q
    BY <2>1, <2>4, ChainTail
  <2>5. QED
    BY <2>2, <2>3, <2>4
<1>3. ChainIn(m, p) \subseteq S
  <2>1. Closed(m, S)
    BY <1>2 DEF Closed
  <2> HIDE DEF S
  <2>2. QED
    BY <1>1, <2>1, ChainLeast
<1>4. QED
  BY <1>3

(* A way that ends at Nil ends nowhere else, and comes to no cell twice. *)
LEMMA ChainOneEnd ==
    ASSUME NEW m, NEW p, Nil \in ChainIn(m, p)
    PROVE  /\ ChainIn(m, p) \ Cells = {Nil}
           /\ \A q \in ChainIn(m, p) : Nil \in ChainIn(m, q)
<1>1. ChainIn(m, Nil) = {Nil}
  BY ChainEnd, CellsFinite
<1>2. ASSUME NEW q \in ChainIn(m, p) PROVE Nil \in ChainIn(m, q)
  <2>1. Nil \in ChainIn(m, q) \/ q \in ChainIn(m, Nil)
    BY ChainOrder
  <2>2. QED
    BY <1>1, <2>1, ChainFirst
<1>3. ASSUME NEW q \in ChainIn(m, p) \ Cells PROVE q = Nil
  BY <1>2, ChainEnd
<1>4. QED
  BY <1>2, <1>3, CellsFinite

LEMMA ChainOnce ==
    ASSUME NEW m, NEW p, Nil \in ChainIn(m, p), NEW q \in Cells \cap ChainIn(m, p)
    PROVE  q \notin ChainIn(m, m[q].next)
<1> SUFFICES ASSUME q \in ChainIn(m, m[q].next) PROVE FALSE
  OBVIOUS
<1> DEFINE S == {x \in ChainIn(m, q) : q \in ChainIn(m, x)}
<1>1. q \in S
  BY ChainFirst
<1>2. ASSUME NEW x \in Cells \cap S PROVE m[x].next \in S
  <2>1. m[x].next \in ChainIn(m, q)
    BY ChainNext DEF Closed
  <2>2. q \in ChainIn(m, m[x].next)
    BY ChainTail
  <2>3. QED
    BY <2>1, <2>2
<1>3. ChainIn(m, q) \subseteq S
  <2>1. Closed(m, S)
    BY <1>2 DEF Closed
  <2> HIDE DEF S
  <2>2. QED
    BY <1>1, <2>1, ChainLeast
<1>4. Nil \in ChainIn(m, q)
  BY ChainOneEnd
<1>5. q \in ChainIn(m, Nil)
  BY <1>3, <1>4
<1>6. QED
  BY <1>5, ChainEnd, CellsFinite

(* What leads to one cell is one cell. *)
LEMMA ChainBefore ==
    ASSUME NEW m, NEW p, Nil \in ChainIn(m, p),
           NEW c \in Cells \cap ChainIn(m, p), NEW d \in Cells \cap ChainIn(m, p),
           m[c].next = m[d].next
    PROVE  c = d
<1> SUFFICES ASSUME c # d PROVE FALSE
  OBVIOUS
<1>1. c \notin ChainIn(m, m[c].next) /\ d \notin ChainIn(m, m[d].next)
  BY ChainOnce
<1>2. d \in ChainIn(m, c) \/ c \in ChainIn(m, d)
  BY ChainOrder
<1>3. d \in ChainIn(m, m[c].next) \/ c \in ChainIn(m, m[d].next)
  BY <1>2, ChainTail
<1>4. QED
  BY <1>1, <1>3

LEMMA ChainPrevious ==
    ASSUME NEW m, NEW p, NEW q \in ChainIn(m, p), q # p
    PROVE  \E c \in Cells \cap ChainIn(m, p) : m[c].next = q
<1> SUFFICES ASSUME \A c \in Cells \cap ChainIn(m, p) : m[c].next # q PROVE FALSE
  OBVIOUS
<1> DEFINE S == ChainIn(m, p) \ {q}
<1>1. p \in S
  BY ChainFirst
<1>2. Closed(m, S)
  BY ChainNext DEF Closed
<1>3. ChainIn(m, p) \subseteq S
  <2> HIDE DEF S
  <2>1. QED
    BY <1>1, <1>2, ChainLeast
<1>4. QED
  BY <1>3

(* Memory that is the same along the way leads the same way. *)
LEMMA ChainSame ==
    ASSUME NEW m, NEW n, NEW p, \A q \in Cells \cap ChainIn(m, p) : n[q].next = m[q].next
    PROVE  ChainIn(n, p) = ChainIn(m, p)
<1>1. ChainIn(n, p) \subseteq ChainIn(m, p)
  <2>1. Closed(m, ChainIn(m, p))
    BY ChainNext
  <2>2. Closed(n, ChainIn(m, p))
    BY <2>1 DEF Closed
  <2>3. QED
    BY <2>2, ChainFirst, ChainLeast
<1>2. ChainIn(m, p) \subseteq ChainIn(n, p)
  <2>1. Closed(n, ChainIn(n, p))
    BY ChainNext
  <2>2. Closed(m, ChainIn(n, p))
    BY <1>1, <2>1 DEF Closed
  <2>3. QED
    BY <2>2, ChainFirst, ChainLeast
<1>3. QED
  BY <1>1, <1>2

(* One cell led elsewhere: the ways are the old ones, and those from there. *)
LEMMA ChainMoved ==
    ASSUME NEW m, NEW n, NEW p, NEW c \in Cells,
           \A q \in Cells \ {c} : n[q].next = m[q].next
    PROVE  /\ c \notin ChainIn(m, p) => ChainIn(n, p) = ChainIn(m, p)
           /\ ChainIn(n, p) \subseteq ChainIn(m, p) \cup ChainIn(m, n[c].next)
           /\ \A S : p \in S /\ Closed(m, S) /\ n[c].next \in S => ChainIn(n, p) \subseteq S
<1>1. c \notin ChainIn(m, p) => ChainIn(n, p) = ChainIn(m, p)
  BY ChainSame
<1>2. ASSUME NEW S, p \in S, Closed(m, S), n[c].next \in S
      PROVE  ChainIn(n, p) \subseteq S
  <2>1. Closed(n, S)
    BY <1>2 DEF Closed
  <2>2. QED
    BY <1>2, <2>1, ChainLeast
<1> DEFINE S == ChainIn(m, p) \cup ChainIn(m, n[c].next)
<1>3. Closed(m, S)
  <2>1. Closed(m, ChainIn(m, p)) /\ Closed(m, ChainIn(m, n[c].next))
    BY ChainNext
  <2>2. QED
    BY <2>1 DEF Closed
<1>4. p \in S /\ n[c].next \in S
  BY ChainFirst
<1>5. ChainIn(n, p) \subseteq S
  <2> HIDE DEF S
  <2>1. QED
    BY <1>2, <1>3, <1>4
<1>6. QED
  BY <1>1, <1>2, <1>5

(* What something leads to is not forgotten. *)
LEMMA ForgetKeeps ==
    ASSUME NEW m, NEW roots, NEW r \in roots, NEW p \in ChainIn(m, r)
    PROVE  /\ ChainIn(Forget(m, roots), p) = ChainIn(m, p)
           /\ \A c \in Cells \cap ChainIn(m, p) : Forget(m, roots)[c] = m[c]
<1>1. ChainIn(m, p) \subseteq ChainIn(m, r)
  BY ChainWithin
<1>2. ASSUME NEW c \in Cells \cap ChainIn(m, p) PROVE Forget(m, roots)[c] = m[c]
  BY <1>1 DEF Forget
<1>3. QED
  BY <1>2, ChainSame

LEMMA ForgetRoot ==
    ASSUME NEW m, NEW roots, NEW r \in roots
    PROVE  /\ ChainIn(Forget(m, roots), r) = ChainIn(m, r)
           /\ \A c \in Cells \cap ChainIn(m, r) : Forget(m, roots)[c] = m[c]
<1>1. r \in ChainIn(m, r)
  BY ChainFirst
<1>2. QED
  BY <1>1, ForgetKeeps

----------------------------------------------------------------------------
(* The list in memory, as a predicate of what it depends on: the memory m,   *)
(* the list h, the cursor l, the arguments a, r and v of what is at work on  *)
(* the list (arg, rest and prev), and where the main loop is, q.             *)

Working(q) == q \in {"add", "free", "relink", "assign"}

(* The memory before cell l was freed. *)
Rejoined(m, l, r) == [m EXCEPT ![l].next = r]

(* The list that g_context_list will be when what is at work is done. *)
Result(h, l, a, r, q) ==
    IF q = "assign" /\ a = l THEN r ELSE IF Working(q) THEN a ELSE h

(* ... and its cells. *)
Lasting(m, h, l, a, r, q) ==
    IF q = "relink" THEN (Cells \cap ChainIn(Rejoined(m, l, r), a)) \ {l}
    ELSE Cells \cap ChainIn(m, Result(h, l, a, r, q))

HeldIn(m, h, l, a, r) == Cells \cap UNION {ChainIn(m, p) : p \in {h, l, a, r}}

NoTwins(m, S) ==
    \A c, d \in S : m[c].name = m[d].name /\ m[c].by = m[d].by => c = d

(* A list that ends, of cells that are allocated, with no file twice but for *)
(* two clients.                                                              *)
Good(m, p) ==
    /\ Nil \in ChainIn(m, p)
    /\ \A c \in Cells \cap ChainIn(m, p) : m[c].live
    /\ NoTwins(m, Cells \cap ChainIn(m, p))

(* Which of the pointers are in use. *)
InUse(l, a, r, q) ==
    /\ ~Working(q) => a = Nil
    /\ q \notin {"relink", "assign"} => r = Nil
    /\ q \in {"poll", "recv", "open", "add", "start"} => l = Nil
    /\ q \in {"run", "next", "del", "free", "relink", "assign"} => l \in Cells

(* Cell l is freed, and v is the one before it in the list that was given:   *)
(* without l that is a list as it should be, wherever the bytes of l lead,   *)
(* and whatever the handler has made of the list or of l since.              *)
Parting(m, h, l, a, r, v) ==
    /\ a # l
    /\ v \in Cells \cap ChainIn(Rejoined(m, l, r), a) /\ v # l /\ m[v].next = l
    /\ Nil \in ChainIn(Rejoined(m, l, r), a)
    /\ \A c \in Lasting(m, h, l, a, r, "relink") : m[c].live
    /\ NoTwins(m, Lasting(m, h, l, a, r, "relink"))

(* The list is as it should be, but while a cell is taken out, and then what *)
(* it will be is.                                                            *)
Heap(m, h, l, a, r, v, q) ==
    /\ InUse(l, a, r, q)
    /\ q \notin {"relink", "assign"} => Good(m, h)
    /\ q \in {"add", "free"} => a \in ChainIn(m, h)
    /\ q = "relink" => Parting(m, h, l, a, r, v)
    /\ q = "assign" => Good(m, Result(h, l, a, r, q))

(* Memory that is the same in a set of cells, but for what the contexts do. *)
Alike(m, n, S) ==
    \A c \in S : /\ n[c].live = m[c].live /\ n[c].next = m[c].next
                 /\ n[c].name = m[c].name /\ n[c].by = m[c].by

LEMMA LastingIs ==
    ASSUME NEW m, NEW h, NEW l, NEW a, NEW r, NEW q
    PROVE  /\ q \in {"add", "free"} => Lasting(m, h, l, a, r, q) = Cells \cap ChainIn(m, a)
           /\ ~Working(q) => Lasting(m, h, l, a, r, q) = Cells \cap ChainIn(m, h)
           /\ Lasting(m, h, l, a, r, q) \subseteq Cells
  BY DEF Lasting, Result, Working

LEMMA GoodSame ==
    ASSUME NEW m, NEW n, NEW p, Good(m, p), Alike(m, n, Cells \cap ChainIn(m, p))
    PROVE  ChainIn(n, p) = ChainIn(m, p) /\ Good(n, p)
<1>1. ChainIn(n, p) = ChainIn(m, p)
  BY ChainSame DEF Alike
<1>2. \A c \in Cells \cap ChainIn(m, p) : n[c].live
  BY DEF Good, Alike
<1>3. NoTwins(n, Cells \cap ChainIn(m, p))
  BY DEF Good, Alike, NoTwins
<1>4. Nil \in ChainIn(m, p)
  BY DEF Good
<1>5. QED
  BY <1>1, <1>2, <1>3, <1>4 DEF Good

(* What a list leads to is a list. *)
LEMMA GoodWithin ==
    ASSUME NEW m, NEW p, Good(m, p), NEW q \in ChainIn(m, p)
    PROVE  ChainIn(m, q) \subseteq ChainIn(m, p) /\ Good(m, q)
<1>1. ChainIn(m, q) \subseteq ChainIn(m, p)
  BY ChainWithin
<1>2. Nil \in ChainIn(m, q)
  BY ChainOneEnd DEF Good
<1>3. NoTwins(m, Cells \cap ChainIn(m, q))
  BY <1>1 DEF Good, NoTwins
<1>4. QED
  BY <1>1, <1>2, <1>3 DEF Good

(* A new cell x in front of a list. *)
LEMMA GoodAdd ==
    ASSUME NEW m, NEW n, NEW p, Good(m, p), NEW x \in Cells, x \notin ChainIn(m, p),
           Alike(m, n, Cells \cap ChainIn(m, p)), n[x].next = p, n[x].live,
           \A c \in Cells \cap ChainIn(m, p) : m[c].name # n[x].name \/ m[c].by # n[x].by
    PROVE  ChainIn(n, x) = {x} \cup ChainIn(m, p) /\ Good(n, x)
<1>1. ChainIn(n, p) = ChainIn(m, p) /\ Good(n, p)
  BY GoodSame
<1>2. ChainIn(n, x) = {x} \cup ChainIn(m, p)
  BY <1>1, ChainTail
<1>3. Nil \in ChainIn(n, x)
  BY <1>1, <1>2 DEF Good
<1>4. \A c \in Cells \cap ChainIn(n, x) : n[c].live
  BY <1>1, <1>2 DEF Good
<1>5. NoTwins(n, Cells \cap ChainIn(n, x))
  <2>1. NoTwins(n, Cells \cap ChainIn(m, p))
    BY <1>1 DEF Good
  <2>2. \A c \in Cells \cap ChainIn(m, p) : n[c].name # n[x].name \/ n[c].by # n[x].by
    BY DEF Alike
  <2>3. QED
    BY <1>2, <2>1, <2>2 DEF NoTwins
<1>6. QED
  BY <1>2, <1>3, <1>4, <1>5 DEF Good

LEMMA HeldHas ==
    ASSUME NEW m, NEW h, NEW l, NEW a, NEW r
    PROVE  \A p \in {h, l, a, r} : Cells \cap ChainIn(m, p) \subseteq HeldIn(m, h, l, a, r)
  BY DEF HeldIn

LEMMA RejoinedSame ==
    ASSUME NEW m \in [Cells -> Cell], NEW l \in Cells, NEW r
    PROVE  /\ \A c \in Cells \ {l} : Rejoined(m, l, r)[c] = m[c]
           /\ Rejoined(m, l, r)[l].next = r
<1>1. m[l] \in Cell
  OBVIOUS
<1>2. QED
  BY <1>1 DEF Rejoined, Cell

(* The cells of the list before one was freed are all held. *)
LEMMA RejoinedHeld ==
    ASSUME NEW m \in [Cells -> Cell], NEW h, NEW l \in Cells, NEW a, NEW r
    PROVE  Cells \cap ChainIn(Rejoined(m, l, r), a) \subseteq HeldIn(m, h, l, a, r)
<1> DEFINE M == Rejoined(m, l, r)
<1>1. (\A c \in Cells \ {l} : M[c].next = m[c].next) /\ M[l].next = r
  BY RejoinedSame
<1> HIDE DEF M
<1>2. ChainIn(M, a) \subseteq ChainIn(m, a) \cup ChainIn(m, r)
  BY <1>1, ChainMoved
<1>3. QED
  BY <1>2, HeldHas DEF M

(* A cell that nothing leads to, or a free one, is not of the list. *)
LEMMA AddCell ==
    ASSUME NEW m \in [Cells -> Cell], NEW h, NEW l, NEW a, NEW r, NEW v, NEW q,
           Heap(m, h, l, a, r, v, q),
           NEW x \in Cells, x \notin HeldIn(m, h, l, a, r) \/ ~m[x].live
    PROVE  /\ x \notin Lasting(m, h, l, a, r, q)
           /\ q \notin {"relink", "assign"} => x \notin ChainIn(m, h)
<1>1. q \notin {"relink", "assign"} => x \notin ChainIn(m, h)
  <2>1. x \notin HeldIn(m, h, l, a, r) => x \notin ChainIn(m, h)
    BY HeldHas
  <2>2. QED
    BY <2>1 DEF Heap, Good
<1>2. x \notin Lasting(m, h, l, a, r, q)
  <2>1. CASE q = "relink"
    <3>1. l \in Cells /\ Parting(m, h, l, a, r, v)
      BY <2>1 DEF Heap, InUse
    <3>2. \A c \in Lasting(m, h, l, a, r, q) : m[c].live
      BY <2>1, <3>1 DEF Parting
    <3>3. Lasting(m, h, l, a, r, q) \subseteq HeldIn(m, h, l, a, r)
      BY <2>1, <3>1, RejoinedHeld DEF Lasting
    <3>4. QED
      BY <3>2, <3>3
  <2>2. CASE q = "assign"
    <3>1. Lasting(m, h, l, a, r, q) = Cells \cap ChainIn(m, Result(h, l, a, r, q))
      BY <2>2 DEF Lasting
    <3>2. Good(m, Result(h, l, a, r, q)) /\ Result(h, l, a, r, q) \in {a, r}
      BY <2>2 DEF Heap, Result, Working
    <3>3. Lasting(m, h, l, a, r, q) \subseteq HeldIn(m, h, l, a, r)
      BY <3>1, <3>2, HeldHas
    <3>4. QED
      BY <3>1, <3>2, <3>3 DEF Good
  <2>3. CASE q \in {"add", "free"}
    <3>1. a \in ChainIn(m, h)
      BY <2>3 DEF Heap
    <3>2. Lasting(m, h, l, a, r, q) = Cells \cap ChainIn(m, a)
      BY <2>3, LastingIs
    <3>3. ChainIn(m, a) \subseteq ChainIn(m, h)
      BY <3>1, ChainWithin
    <3>4. QED
      BY <1>1, <2>3, <3>2, <3>3
  <2>4. CASE ~Working(q)
    BY <1>1, <2>4, LastingIs DEF Working
  <2>5. QED
    BY <2>1, <2>2, <2>3, <2>4 DEF Working
<1>3. QED
  BY <1>1, <1>2

(* What the list will be does not change with cells that are not of it. *)
LEMMA PartingSame ==
    ASSUME NEW m \in [Cells -> Cell], NEW h, NEW l \in Cells, NEW a, NEW r, NEW v,
           Parting(m, h, l, a, r, v),
           NEW n \in [Cells -> Cell], NEW h2,
           Alike(m, n, Lasting(m, h, l, a, r, "relink"))
    PROVE  /\ Parting(n, h2, l, a, r, v)
           /\ Lasting(n, h2, l, a, r, "relink") = Lasting(m, h, l, a, r, "relink")
<1> DEFINE M == Rejoined(m, l, r)
           N == Rejoined(n, l, r)
           S == Lasting(m, h, l, a, r, "relink")
<1>1. /\ (\A c \in Cells \ {l} : M[c] = m[c]) /\ M[l].next = r
      /\ (\A c \in Cells \ {l} : N[c] = n[c]) /\ N[l].next = r
  <2>1. (\A c \in Cells \ {l} : M[c] = m[c]) /\ M[l].next = r
    BY RejoinedSame
  <2>2. (\A c \in Cells \ {l} : N[c] = n[c]) /\ N[l].next = r
    BY RejoinedSame
  <2>3. QED
    BY <2>1, <2>2
<1>2. S = (Cells \cap ChainIn(M, a)) \ {l}
  BY DEF Lasting
<1>3. Alike(m, n, S)
  OBVIOUS
<1>4. ChainIn(N, a) = ChainIn(M, a)
  <2> HIDE DEF M, N, S
  <2>1. \A c \in Cells \cap ChainIn(M, a) : N[c].next = M[c].next
    BY <1>1, <1>2, <1>3 DEF Alike
  <2>2. QED
    BY <2>1, ChainSame
<1>5. Lasting(n, h2, l, a, r, "relink") = S
  BY <1>2, <1>4 DEF Lasting
<1>6. /\ a # l /\ v \in Cells \cap ChainIn(M, a) /\ v # l /\ m[v].next = l
      /\ Nil \in ChainIn(M, a) /\ (\A c \in S : m[c].live) /\ NoTwins(m, S)
  BY DEF Parting
<1> HIDE DEF S
<1>7. v \in S /\ n[v].next = l
  <2>1. v \in S
    BY <1>2, <1>6
  <2>2. QED
    BY <1>3, <1>6, <2>1 DEF Alike
<1>8. (\A c \in S : n[c].live) /\ NoTwins(n, S)
  BY <1>3, <1>6 DEF Alike, NoTwins
<1>9. Parting(n, h2, l, a, r, v)
  BY <1>4, <1>5, <1>6, <1>7, <1>8 DEF Parting
<1>10. QED
  BY <1>5, <1>9 DEF S

(* az_list_add of the handler: the list with x in front, or the same list     *)
(* where the main loop has read it and will write it.                        *)
LEMMA HeapAdd ==
    ASSUME NEW m \in [Cells -> Cell], NEW h, NEW l, NEW a, NEW r, NEW v, NEW q,
           Heap(m, h, l, a, r, v, q),
           NEW x \in Cells, x \notin HeldIn(m, h, l, a, r) \/ ~m[x].live,
           NEW n \in [Cells -> Cell], \A c \in Cells \ {x} : n[c] = m[c],
           n[x].next = h, n[x].live,
           q \notin {"relink", "assign"} =>
               \A c \in Cells \cap ChainIn(m, h) :
                   m[c].name # n[x].name \/ m[c].by # n[x].by
    PROVE  /\ Heap(n, x, l, a, r, v, q)
           /\ x \notin Lasting(m, h, l, a, r, q)
           /\ Lasting(n, x, l, a, r, q) =
                  Lasting(m, h, l, a, r, q) \cup (IF Working(q) THEN {} ELSE {x})
<1>1. /\ x \notin Lasting(m, h, l, a, r, q)
      /\ q \notin {"relink", "assign"} => x \notin ChainIn(m, h)
  BY AddCell
<1>2. \A S : x \notin S => Alike(m, n, Cells \cap S)
  BY DEF Alike
<1>3. InUse(l, a, r, q)
  BY DEF Heap
<1>4. CASE q \notin {"relink", "assign"}
  <2>1. Good(m, h) /\ x \notin ChainIn(m, h) /\ Alike(m, n, Cells \cap ChainIn(m, h))
    BY <1>1, <1>2, <1>4 DEF Heap
  <2>2. ChainIn(n, x) = {x} \cup ChainIn(m, h) /\ Good(n, x)
    BY <1>4, <2>1, GoodAdd
  <2>3. CASE q \in {"add", "free"}
    <3>1. a \in ChainIn(m, h)
      BY <2>3 DEF Heap
    <3>2. ChainIn(m, a) \subseteq ChainIn(m, h) /\ Good(m, a)
      BY <2>1, <3>1, GoodWithin
    <3>3. Alike(m, n, Cells \cap ChainIn(m, a))
      BY <2>1, <3>2, <1>2
    <3>4. ChainIn(n, a) = ChainIn(m, a)
      BY <3>2, <3>3, GoodSame
    <3>5. Lasting(n, x, l, a, r, q) = Lasting(m, h, l, a, r, q)
      <4>1. Lasting(n, x, l, a, r, q) = Cells \cap ChainIn(n, a)
        BY <2>3, LastingIs
      <4>2. Lasting(m, h, l, a, r, q) = Cells \cap ChainIn(m, a)
        BY <2>3, LastingIs
      <4>3. QED
        BY <3>4, <4>1, <4>2
    <3>6. Heap(n, x, l, a, r, v, q)
      BY <1>3, <2>2, <2>3, <3>1 DEF Heap
    <3>7. QED
      BY <1>1, <2>3, <3>5, <3>6 DEF Working
  <2>4. CASE q \notin {"add", "free"}
    <3>1. ~Working(q)
      BY <1>4, <2>4 DEF Working
    <3>2. /\ Lasting(n, x, l, a, r, q) = Cells \cap ChainIn(n, x)
          /\ Lasting(m, h, l, a, r, q) = Cells \cap ChainIn(m, h)
      BY <3>1, LastingIs
    <3>3. Heap(n, x, l, a, r, v, q)
      BY <1>3, <1>4, <2>2, <2>4 DEF Heap
    <3>4. QED
      BY <1>1, <2>2, <3>1, <3>2, <3>3
  <2>5. QED
    BY <2>3, <2>4
<1>5. CASE q = "relink"
  <2>1. l \in Cells /\ Parting(m, h, l, a, r, v)
    BY <1>5 DEF Heap, InUse
  <2>2. Lasting(m, h, l, a, r, "relink") \subseteq Cells
    BY LastingIs
  <2>3. Alike(m, n, Lasting(m, h, l, a, r, "relink"))
    BY <1>1, <1>5, <2>2 DEF Alike
  <2>4. /\ Parting(n, x, l, a, r, v)
        /\ Lasting(n, x, l, a, r, "relink") = Lasting(m, h, l, a, r, "relink")
    BY <2>1, <2>3, PartingSame
  <2>5. Heap(n, x, l, a, r, v, q)
    BY <1>3, <1>5, <2>4 DEF Heap
  <2>6. QED
    BY <1>1, <1>5, <2>4, <2>5 DEF Working
<1>6. CASE q = "assign"
  <2> DEFINE p == Result(h, l, a, r, q)
  <2>1. Good(m, p) /\ Lasting(m, h, l, a, r, q) = Cells \cap ChainIn(m, p)
    BY <1>6 DEF Heap, Lasting
  <2>2. Result(x, l, a, r, q) = p
    BY <1>6 DEF Result, Working
  <2> HIDE DEF p
  <2>3. Alike(m, n, Cells \cap ChainIn(m, p))
    BY <1>1, <1>2, <2>1
  <2>4. ChainIn(n, p) = ChainIn(m, p) /\ Good(n, p)
    BY <2>1, <2>3, GoodSame
  <2>5. Lasting(n, x, l, a, r, q) = Cells \cap ChainIn(n, p)
    BY <1>6, <2>2 DEF Lasting
  <2>6. Heap(n, x, l, a, r, v, q)
    BY <1>3, <1>6, <2>2, <2>4 DEF Heap
  <2>7. QED
    BY <1>1, <1>6, <2>1, <2>4, <2>5, <2>6 DEF Working
<1>7. QED
  BY <1>4, <1>5, <1>6

(* az_list_delete frees the cell, wherever its bytes lead then. *)
Frees(m, n, l, a, v) ==
    /\ l \in ChainIn(m, a)
    /\ n \in [Cells -> Cell] /\ \A c \in Cells \ {l} : n[c] = m[c]
    /\ a # l => v \in Cells \cap ChainIn(m, a) /\ m[v].next = l

LEMMA HeapFrees ==
    ASSUME NEW m \in [Cells -> Cell], NEW h, NEW l \in Cells, NEW a, NEW r, NEW v,
           Heap(m, h, l, a, r, v, "free"),
           NEW n, NEW v2, Frees(m, n, l, a, v2),
           NEW q, q = IF a = l THEN "assign" ELSE "relink"
    PROVE  /\ Heap(n, h, l, a, m[l].next, v2, q)
           /\ Lasting(n, h, l, a, m[l].next, q) = Lasting(m, h, l, a, r, "free") \ {l}
<1> DEFINE s == m[l].next
<1>0. /\ l \in ChainIn(m, a)
      /\ n \in [Cells -> Cell] /\ \A c \in Cells \ {l} : n[c] = m[c]
      /\ a # l => v2 \in Cells \cap ChainIn(m, a) /\ m[v2].next = l
  BY DEF Frees
<1>1. Good(m, h) /\ a \in ChainIn(m, h)
  BY DEF Heap
<1>2. ChainIn(m, a) \subseteq ChainIn(m, h) /\ Good(m, a)
  BY <1>1, GoodWithin
<1>3. Lasting(m, h, l, a, r, "free") = Cells \cap ChainIn(m, a)
  BY LastingIs
<1>4. l \notin ChainIn(m, s)
  BY <1>2, <1>0, ChainOnce DEF Good
<1>5. ChainIn(m, l) = {l} \cup ChainIn(m, s)
  BY ChainTail
<1>6. InUse(l, a, s, q)
  BY DEF Heap, InUse, Working
<1>7. CASE a = l
  <2>1. Result(h, l, a, s, q) = s
    BY <1>7 DEF Result
  <2>2. s \in ChainIn(m, a)
    BY <1>7, ChainTail
  <2>3. Good(m, s)
    BY <1>2, <2>2, GoodWithin
  <2>4. Alike(m, n, Cells \cap ChainIn(m, s))
    BY <1>4, <1>0 DEF Alike
  <2>5. ChainIn(n, s) = ChainIn(m, s) /\ Good(n, s)
    BY <2>3, <2>4, GoodSame
  <2>6. Lasting(n, h, l, a, s, q) = Cells \cap ChainIn(m, s)
    BY <1>7, <2>1, <2>5 DEF Lasting
  <2>7. Heap(n, h, l, a, s, v2, q)
    BY <1>6, <1>7, <2>1, <2>5 DEF Heap
  <2>8. QED
    BY <1>3, <1>4, <1>5, <1>7, <2>6, <2>7
<1>8. CASE a # l
  <2> DEFINE N == Rejoined(n, l, s)
  <2>1. (\A c \in Cells \ {l} : N[c] = n[c]) /\ N[l].next = s
    BY <1>0, RejoinedSame
  <2>2. ChainIn(N, a) = ChainIn(m, a)
    <3> HIDE DEF N
    <3>1. \A c \in Cells \cap ChainIn(m, a) : N[c].next = m[c].next
      BY <1>0, <2>1
    <3>2. QED
      BY <3>1, ChainSame
  <2>3. Lasting(n, h, l, a, s, "relink") = (Cells \cap ChainIn(m, a)) \ {l}
    BY <2>2 DEF Lasting
  <2>4. v2 \in Cells \cap ChainIn(m, a) /\ m[v2].next = l
    BY <1>8, <1>0
  <2>5. v2 # l
    BY <1>4, <2>4, ChainFirst
  <2>6. \A c \in Lasting(n, h, l, a, s, "relink") : n[c] = m[c] /\ c \in Cells \cap ChainIn(m, a)
    BY <1>0, <2>3
  <2>7. (\A c \in Lasting(n, h, l, a, s, "relink") : n[c].live)
        /\ NoTwins(n, Lasting(n, h, l, a, s, "relink"))
    <3> DEFINE S == Lasting(n, h, l, a, s, "relink")
    <3>1. \A c \in S : n[c] = m[c] /\ c \in Cells \cap ChainIn(m, a)
      BY <2>6
    <3> HIDE DEF S
    <3>2. (\A c \in S : n[c].live) /\ NoTwins(n, S)
      BY <1>2, <3>1 DEF Good, NoTwins
    <3>3. QED
      BY <3>2 DEF S
  <2>8. n[v2].next = l
    BY <1>0, <2>4, <2>5
  <2>9. Parting(n, h, l, a, s, v2)
    BY <1>2, <1>8, <2>2, <2>4, <2>5, <2>7, <2>8 DEF Parting, Good
  <2>10. Heap(n, h, l, a, s, v2, q)
    BY <1>6, <1>8, <2>9 DEF Heap
  <2>11. QED
    BY <1>3, <1>8, <2>3, <2>10
<1>9. QED
  BY <1>7, <1>8

(* ... and leads the cell before it past it. *)
LEMMA HeapRelinks ==
    ASSUME NEW m \in [Cells -> Cell], NEW h, NEW l \in Cells, NEW a, NEW r, NEW b,
           Heap(m, h, l, a, r, b, "relink"),
           NEW n \in [Cells -> Cell], \A c \in Cells \ {b} : n[c] = m[c],
           n[b].live = m[b].live, n[b].next = r, n[b].name = m[b].name, n[b].by = m[b].by,
           NEW v
    PROVE  /\ Heap(n, h, l, a, r, v, "assign")
           /\ Lasting(n, h, l, a, r, "assign") = Lasting(m, h, l, a, r, "relink")
<1> DEFINE M == Rejoined(m, l, r)
<1>1. (\A c \in Cells \ {l} : M[c] = m[c]) /\ M[l].next = r
  BY RejoinedSame
<1>2. /\ a # l /\ Nil \in ChainIn(M, a)
      /\ b \in Cells \cap ChainIn(M, a) /\ b # l /\ m[b].next = l
  BY DEF Heap, Parting
<1>3. /\ \A c \in Lasting(m, h, l, a, r, "relink") : m[c].live
      /\ NoTwins(m, Lasting(m, h, l, a, r, "relink"))
  BY DEF Heap, Parting
<1> HIDE DEF M
<1>4. M[b].next = l /\ l \in ChainIn(M, a)
  <2>1. M[b].next = l
    BY <1>1, <1>2
  <2>2. QED
    BY <1>2, <2>1, ChainNext DEF Closed
<1>5. l \notin ChainIn(M, r)
  BY <1>1, <1>2, <1>4, ChainOnce
<1>6. \A c \in Cells : n[c].live = m[c].live /\ n[c].name = m[c].name /\ n[c].by = m[c].by
  OBVIOUS
<1>7. ChainIn(n, a) \subseteq ChainIn(M, a) \ {l}
  <2> DEFINE S == ChainIn(M, a) \ {l}
  <2>1. a \in S
    BY <1>2, ChainFirst
  <2>2. ASSUME NEW c \in Cells \cap S PROVE n[c].next \in S
    <3>1. CASE c = b
      <4>1. r \in ChainIn(M, a)
        BY <1>1, <1>2, ChainNext DEF Closed
      <4>2. r # l
        BY <1>5, ChainFirst
      <4>3. QED
        BY <3>1, <4>1, <4>2
    <3>2. CASE c # b
      <4>1. n[c] = M[c]
        BY <1>1, <2>2, <3>2
      <4>2. M[c].next \in ChainIn(M, a)
        BY <2>2, ChainNext DEF Closed
      <4>3. M[c].next # l
        BY <1>2, <1>4, <2>2, <3>2, ChainBefore
      <4>4. QED
        BY <4>1, <4>2, <4>3
    <3>3. QED
      BY <3>1, <3>2
  <2>3. Closed(n, S)
    BY <2>2 DEF Closed
  <2>4. ChainIn(n, a) \subseteq S
    <3> HIDE DEF S
    <3>1. QED
      BY <2>1, <2>3, ChainLeast
  <2>5. QED
    BY <2>4
<1>8. ChainIn(M, a) \ {l} \subseteq ChainIn(n, a)
  <2> DEFINE S == ChainIn(n, a) \cup (IF b \in ChainIn(n, a) THEN {l} ELSE {})
  <2>1. a \in S
    BY ChainFirst
  <2>2. ASSUME NEW c \in Cells \cap S PROVE M[c].next \in S
    <3>1. CASE c = b
      BY <1>2, <1>4, <1>7, <2>2, <3>1
    <3>2. CASE c = l
      <4>1. b \in ChainIn(n, a)
        BY <1>7, <2>2, <3>2
      <4>2. r \in ChainIn(n, a)
        BY <1>2, <4>1, ChainNext DEF Closed
      <4>3. QED
        BY <1>1, <3>2, <4>2
    <3>3. CASE c # b /\ c # l
      <4>1. c \in ChainIn(n, a)
        BY <2>2, <3>3
      <4>2. n[c].next \in ChainIn(n, a)
        BY <2>2, <4>1, ChainNext DEF Closed
      <4>3. n[c] = M[c]
        BY <1>1, <2>2, <3>3
      <4>4. QED
        BY <4>2, <4>3
    <3>4. QED
      BY <3>1, <3>2, <3>3
  <2>3. Closed(M, S)
    BY <2>2 DEF Closed
  <2>4. ChainIn(M, a) \subseteq S
    <3> HIDE DEF S
    <3>1. QED
      BY <2>1, <2>3, ChainLeast
  <2>5. QED
    BY <2>4
<1>9. Lasting(m, h, l, a, r, "relink") = (Cells \cap ChainIn(M, a)) \ {l}
  BY DEF Lasting, M
<1>10. Result(h, l, a, r, "assign") = a
  BY <1>2 DEF Result, Working
<1>11. Lasting(n, h, l, a, r, "assign") = Lasting(m, h, l, a, r, "relink")
       /\ Cells \cap ChainIn(n, a) = Lasting(m, h, l, a, r, "relink")
  <2>1. Lasting(n, h, l, a, r, "assign") = Cells \cap ChainIn(n, a)
    BY <1>10 DEF Lasting
  <2>2. QED
    BY <1>7, <1>8, <1>9, <2>1
<1>12. Good(n, a)
  <2>1. Nil \in ChainIn(n, a)
    BY <1>2, <1>8, CellsFinite
  <2>2. \A c \in Cells \cap ChainIn(n, a) : n[c].live
    BY <1>3, <1>6, <1>11
  <2>3. NoTwins(n, Cells \cap ChainIn(n, a))
    <3>1. NoTwins(m, Cells \cap ChainIn(n, a))
      BY <1>3, <1>11
    <3>2. QED
      BY <1>6, <3>1 DEF NoTwins
  <2>4. QED
    BY <2>1, <2>2, <2>3 DEF Good
<1>13. InUse(l, a, r, "assign")
  BY DEF Heap, InUse, Working
<1>14. QED
  BY <1>10, <1>11, <1>12, <1>13 DEF Heap

(* ... and g_context_list is the list without it. *)
LEMMA HeapAssigns ==
    ASSUME NEW m \in [Cells -> Cell], NEW h, NEW l \in Cells, NEW a, NEW r, NEW v,
           Heap(m, h, l, a, r, v, "assign"),
           NEW p, p = Result(h, l, a, r, "assign"), NEW n, n = Forget(m, {p, l})
    PROVE  /\ Heap(n, p, l, Nil, Nil, v, "next")
           /\ Lasting(n, p, l, Nil, Nil, "next") = Lasting(m, h, l, a, r, "assign")
           /\ \A c \in Lasting(m, h, l, a, r, "assign") : n[c] = m[c]
<1>1. Good(m, p) /\ Lasting(m, h, l, a, r, "assign") = Cells \cap ChainIn(m, p)
  BY DEF Heap, Lasting
<1>2. \A c \in Cells \cap ChainIn(m, p) : n[c] = m[c]
  BY ForgetRoot
<1>3. ChainIn(n, p) = ChainIn(m, p) /\ Good(n, p)
  BY <1>1, <1>2, GoodSame DEF Alike
<1>4. Lasting(n, p, l, Nil, Nil, "next") = Cells \cap ChainIn(n, p)
  BY LastingIs DEF Working
<1>5. Heap(n, p, l, Nil, Nil, v, "next")
  BY <1>3 DEF Heap, InUse, Working
<1>6. QED
  BY <1>1, <1>2, <1>3, <1>4, <1>5

(* Where nothing is at work on the list only its own cells matter: not the   *)
(* cursor, nor what is free or lost.                                         *)
LEMMA HeapQuiet ==
    ASSUME NEW m, NEW h, NEW l, NEW a, NEW r, NEW v, NEW q,
           Heap(m, h, l, a, r, v, q), ~Working(q),
           NEW n, Alike(m, n, Cells \cap ChainIn(m, h)),
           NEW l2, NEW q2, ~Working(q2), NEW v2, InUse(l2, a, r, q2)
    PROVE  /\ Heap(n, h, l2, a, r, v2, q2)
           /\ Lasting(n, h, l2, a, r, q2) = Lasting(m, h, l, a, r, q)
           /\ \A c \in Lasting(m, h, l, a, r, q) : n[c].name = m[c].name /\ n[c].by = m[c].by
<1>1. Good(m, h)
  BY DEF Heap, Working
<1>2. ChainIn(n, h) = ChainIn(m, h) /\ Good(n, h)
  BY <1>1, GoodSame
<1>3. /\ Lasting(n, h, l2, a, r, q2) = Cells \cap ChainIn(n, h)
      /\ Lasting(m, h, l, a, r, q) = Cells \cap ChainIn(m, h)
  BY LastingIs
<1>4. Heap(n, h, l2, a, r, v2, q2)
  BY <1>2 DEF Heap, Working
<1>5. QED
  BY <1>2, <1>3, <1>4 DEF Alike

(* g_context_list is read, to be assigned later. *)
LEMMA HeapReads ==
    ASSUME NEW m, NEW h, NEW l, NEW a, NEW r, NEW v, NEW q, Heap(m, h, l, a, r, v, q),
           NEW q2, <<q, q2>> \in {<<"open", "add">>, <<"del", "free">>}
    PROVE  /\ Heap(m, h, l, h, r, v, q2)
           /\ Lasting(m, h, l, h, r, q2) = Lasting(m, h, l, a, r, q)
<1>1. ~Working(q) /\ q2 \in {"add", "free"}
  BY DEF Working
<1>2. Lasting(m, h, l, h, r, q2) = Lasting(m, h, l, a, r, q)
  BY <1>1, LastingIs
<1>3. QED
  BY <1>2, ChainFirst DEF Heap, InUse, Working

(* OPEN: a context in front of the list the main loop had read. *)
Opens(m, h, l, a, r, v, x, n) ==
    /\ Heap(m, h, l, a, r, v, "add") /\ m \in [Cells -> Cell]
    /\ x \in Cells /\ (x \notin HeldIn(m, h, l, a, r) \/ ~m[x].live)
    /\ \A c \in Lasting(m, h, l, a, r, "add") : m[c].name # n[x].name \/ m[c].by # n[x].by
    /\ n \in [Cells -> Cell] /\ \A c \in Cells \ {x} : n[c] = m[c]
    /\ n[x].next = a /\ n[x].live

LEMMA HeapOpens ==
    ASSUME NEW m, NEW h, NEW l, NEW a, NEW r, NEW v, NEW x, NEW k,
           Opens(m, h, l, a, r, v, x, k), NEW n, n = Forget(k, {x})
    PROVE  /\ Heap(n, x, l, Nil, r, v, "start")
           /\ Lasting(n, x, l, Nil, r, "start") = {x} \cup Lasting(m, h, l, a, r, "add")
           /\ \A c \in Lasting(m, h, l, a, r, "add") : n[c] = m[c]
           /\ n[x] = k[x]
<1>0. /\ Heap(m, h, l, a, r, v, "add") /\ m \in [Cells -> Cell]
       /\ x \in Cells /\ (x \notin HeldIn(m, h, l, a, r) \/ ~m[x].live)
  BY DEF Opens
<1>1. Good(m, h) /\ a \in ChainIn(m, h) /\ InUse(l, a, r, "add")
  BY <1>0 DEF Heap
<1>2. Good(m, a)
  BY <1>1, GoodWithin
<1>3. Lasting(m, h, l, a, r, "add") = Cells \cap ChainIn(m, a)
  BY LastingIs
<1>4. x \notin ChainIn(m, a)
  BY <1>0, <1>3, AddCell
<1>5. Alike(m, k, Cells \cap ChainIn(m, a))
  BY <1>4 DEF Alike, Opens
<1>6. ChainIn(k, x) = {x} \cup ChainIn(m, a) /\ Good(k, x)
  <2>1. \A c \in Cells \cap ChainIn(m, a) : m[c].name # k[x].name \/ m[c].by # k[x].by
    BY <1>3 DEF Opens
  <2>2. QED
    BY <1>2, <1>4, <1>0, <1>5, <2>1, GoodAdd DEF Opens
<1>7. \A c \in Cells \cap ChainIn(k, x) : n[c] = k[c]
  BY ForgetRoot
<1>8. ChainIn(n, x) = ChainIn(k, x) /\ Good(n, x)
  <2>1. Good(k, x) /\ Alike(k, n, Cells \cap ChainIn(k, x))
    BY <1>6, <1>7 DEF Alike
  <2>2. QED
    BY <2>1, GoodSame
<1>9. Lasting(n, x, l, Nil, r, "start") = Cells \cap ChainIn(n, x)
  BY LastingIs DEF Working
<1>10. InUse(l, Nil, r, "start")
  BY <1>1 DEF InUse, Working
<1>11. Heap(n, x, l, Nil, r, v, "start")
  BY <1>8, <1>10 DEF Heap
<1>12. n[x] = k[x] /\ \A c \in Cells \cap ChainIn(m, a) : n[c] = m[c]
  BY <1>4, <1>6, <1>7, <1>0 DEF Opens
<1>13. QED
  BY <1>0, <1>3, <1>6, <1>8, <1>9, <1>11, <1>12

----------------------------------------------------------------------------
(* The list while the follower runs.                                         *)

HeapNow  == Heap(mem, head, li, arg, rest, prev, pc)
CellsNow == Lasting(mem, head, li, arg, rest, pc)

Told(c)    == sent[c] > 1 \/ (sent[c] = 1 /\ at[c] = "idle")
Unheard(c) == Queued(c) \/ Served(c) \/ at[c] = "off"

(* A client's context is in the list that lasts once its line was read, and   *)
(* is there for good when the client was told so.                            *)
Asked(m, x, c) == m[x].name = Opened /\ m[x].by = c
ClientsListed ==
    \A c \in Clients :
        /\ \A x \in CellsNow : mem[x].by = c => ~Unheard(c)
        /\ Told(c) => \E x \in CellsNow : Asked(mem, x, c)

(* Only a context of a configured log is deleted. *)
DeletesLog == pc \in {"del", "free"} => mem[li].name.log \in Logs

ListInv == HeapNow /\ ClientsListed /\ DeletesLog

(* main's contexts, each leading to the one before it, for every pattern.    *)
LEMMA ListInit == Init => ListInv
<1> SUFFICES ASSUME Init PROVE ListInv
  OBVIOUS
<1> DEFINE P == Len(Patterns)
<1>1. P \in Nat \ {0} /\ P <= NCells /\ NCells \in Nat
  BY LogsType, BoundsType
<1>2. 1..P \subseteq Cells /\ P \in Cells
  BY <1>1 DEF Cells
<1>3. \A c \in 1..P : /\ mem[c].live /\ mem[c].next = IF c = 1 THEN Nil ELSE c - 1
                      /\ mem[c].name = [log |-> Patterns[c], day |-> 0] /\ mem[c].by = Nil
  BY <1>1, <1>2 DEF Init
<1>4. ChainIn(mem, P) \subseteq 1..P \cup {Nil}
  <2>1. Closed(mem, 1..P \cup {Nil})
    <3>1. ASSUME NEW q \in 1..P PROVE mem[q].next \in 1..P \cup {Nil}
      <4>1. mem[q].next = IF q = 1 THEN Nil ELSE q - 1
        BY <1>3
      <4>2. q # 1 => q - 1 \in 1..P
        BY <1>1
      <4>3. QED
        BY <4>1, <4>2
    <3>2. QED
      BY <3>1, CellsFinite DEF Closed
  <2>2. P \in 1..P \cup {Nil}
    BY <1>1
  <2>3. QED
    BY <2>1, <2>2, ChainLeast
<1>5. \A k \in 1..P : Nil \in ChainIn(mem, k)
  <2> DEFINE T == {k \in 1..P : Nil \notin ChainIn(mem, k)}
  <2> SUFFICES ASSUME T # {} PROVE FALSE
    OBVIOUS
  <2>1. T \subseteq Nat
    BY <1>1
  <2>2. PICK k \in T : \A j \in T : k <= j
    <3> HIDE DEF T
    <3>1. QED
      BY <2>1, LeastNumber
  <2>3. k \in 1..P /\ k \in Cells
    BY <1>2, <2>2
  <2>4. ChainIn(mem, k) = {k} \cup ChainIn(mem, mem[k].next)
    BY <2>3, ChainTail
  <2>5. CASE k = 1
    BY <1>3, <2>2, <2>3, <2>4, <2>5, ChainFirst
  <2>6. CASE k # 1
    <3>1. k - 1 \in 1..P /\ ~(k <= k - 1) /\ mem[k].next = k - 1
      <4>1. mem[k].next = k - 1
        BY <1>3, <2>3, <2>6
      <4>2. k - 1 \in 1..P /\ ~(k <= k - 1)
        BY <1>1, <2>3, <2>6
      <4>3. QED
        BY <4>1, <4>2
    <3>2. k - 1 \notin T
      BY <2>2, <3>1
    <3>3. Nil \in ChainIn(mem, k - 1)
      BY <3>1, <3>2
    <3>4. QED
      BY <2>2, <2>4, <3>1, <3>3
  <2>7. QED
    BY <2>5, <2>6
<1> HIDE DEF P
<1>6. /\ head = P /\ pc = "poll" /\ li = Nil /\ arg = Nil /\ rest = Nil
      /\ pending = << >> /\ sent = [c \in Clients |-> 0] /\ at = [c \in Clients |-> "off"]
  BY DEF Init, P
<1>9. NoTwins(mem, Cells \cap ChainIn(mem, P))
  <2>1. Cells \cap ChainIn(mem, P) \subseteq 1..P
    BY <1>4, CellsFinite
  <2>2. \A c, d \in 1..P : Patterns[c] = Patterns[d] => c = d
    <3>1. DOMAIN Patterns = 1..P
      BY LogsAssumption, LenProperties DEF P
    <3>2. QED
      BY <3>1, LogsAssumption DEF IsInjective
  <2>3. \A c, d \in 1..P : mem[c].name = mem[d].name => c = d
    <3> SUFFICES ASSUME NEW c \in 1..P, NEW d \in 1..P, mem[c].name = mem[d].name
                 PROVE  c = d
      OBVIOUS
    <3>1. [log |-> Patterns[c], day |-> 0] = [log |-> Patterns[d], day |-> 0]
      BY <1>3
    <3>2. Patterns[c] = Patterns[d]
      BY <3>1
    <3>3. QED
      BY <2>2, <3>2
  <2>4. QED
    BY <2>1, <2>3 DEF NoTwins
<1>10. CellsNow \subseteq 1..P
  <2>1. CellsNow = Cells \cap ChainIn(mem, P)
    BY <1>6, LastingIs DEF CellsNow, Working
  <2>2. QED
    BY <1>4, <2>1, CellsFinite
<1>11. HeapNow
  <2>1. Good(mem, P)
    <3>1. P \in 1..P
      BY <1>1
    <3>2. \A c \in Cells \cap ChainIn(mem, P) : mem[c].live
      BY <1>3, <1>4, CellsFinite
    <3>3. QED
      BY <1>5, <1>9, <3>1, <3>2 DEF Good
  <2>2. QED
    BY <1>6, <2>1 DEF HeapNow, Heap, InUse, Working
<1>12. ClientsListed
  <2>1. ASSUME NEW c \in Clients, NEW x \in CellsNow PROVE mem[x].by # c
    <3>1. x \in 1..P
      BY <1>10
    <3>2. mem[x].by = Nil
      BY <1>3, <3>1
    <3>3. QED
      BY <3>2, ClientsAssumption
  <2>2. ASSUME NEW c \in Clients PROVE ~Told(c)
    BY <1>6 DEF Told
  <2>3. QED
    BY <2>1, <2>2 DEF ClientsListed
<1>13. QED
  BY <1>6, <1>11, <1>12 DEF ListInv, DeletesLog

(* Steps that add no client's context, drop none, and tell no client anything. *)
LEMMA ListedFrame ==
    ASSUME TypeInv, ClientsListed,
           \A x \in CellsNow' : \/ x \in CellsNow /\ mem'[x].by = mem[x].by
                                \/ mem'[x].by = Nil,
           \A x \in CellsNow : mem[x].name = Opened =>
               x \in CellsNow' /\ mem'[x].name = Opened /\ mem'[x].by = mem[x].by,
           \A c \in Clients : (Unheard(c)' => Unheard(c)) /\ (Told(c)' => Told(c))
    PROVE  ClientsListed'
<1>1. ASSUME NEW c \in Clients, NEW x \in CellsNow', mem'[x].by = c
      PROVE  ~Unheard(c)'
  <2>1. c # Nil
    BY ClientsAssumption
  <2>2. QED
    BY <1>1, <2>1 DEF ClientsListed
<1>2. ASSUME NEW c \in Clients, Told(c)'
      PROVE  \E x \in CellsNow' : Asked(mem', x, c)
  <2>1. PICK x \in CellsNow : Asked(mem, x, c)
    BY <1>2 DEF ClientsListed
  <2>2. x \in CellsNow' /\ Asked(mem', x, c)
    BY <2>1 DEF Asked
  <2>3. QED
    BY <2>2
<1>3. QED
  BY <1>1, <1>2 DEF ClientsListed

LEMMA UnheardFrame ==
    ASSUME UNCHANGED clients, Serving' => Serving /\ contr' = contr
    PROVE  \A c \in Clients : (Unheard(c)' => Unheard(c)) /\ (Told(c)' => Told(c))
  BY DEF clients, Unheard, Told, Queued, Served

LEMMA UnheardPoll ==
    ASSUME TypeInv, Poll
    PROVE  \A c \in Clients : (Unheard(c)' => Unheard(c)) /\ (Told(c)' => Told(c))
<1>1. UNCHANGED <<at, sent>> /\ pc = "poll"
  BY DEF Poll, Running
<1>2. CASE pending = << >> \/ ~MayOpen
  <2>1. UNCHANGED clients /\ ~Serving'
    BY <1>1, <1>2 DEF Poll, Serving, clients
  <2>2. QED
    BY <2>1, UnheardFrame
<1>3. CASE ~(pending = << >> \/ ~MayOpen)
  <2>1. /\ contr' = pending[1] /\ 1 \in 1..Len(pending)
        /\ \A i \in 1..Len(pending') : i + 1 \in 1..Len(pending)
                                       /\ pending'[i] = pending[i + 1]
    <3>1. pending \in Seq(Clients) /\ pending # << >>
      BY <1>3 DEF TypeInv, TypeOK
    <3>2. contr' = Head(pending) /\ pending' = Tail(pending)
      BY <1>3 DEF Poll
    <3>3. Len(pending) \in Nat \ {0} /\ Len(pending') = Len(pending) - 1
      BY <3>1, <3>2, HeadTailProperties, EmptySeq, LenProperties
    <3>4. \A i \in 1..Len(pending') : pending'[i] = pending[i + 1]
      BY <3>1, <3>2, <3>3, HeadTailProperties
    <3>5. \A i \in 1..Len(pending') : i + 1 \in 1..Len(pending)
      BY <3>3
    <3>6. QED
      BY <3>1, <3>2, <3>3, <3>4, <3>5
  <2>2. \A c \in Clients : (Queued(c)' => Queued(c)) /\ (Served(c)' => Queued(c))
    BY <2>1 DEF Queued, Served
  <2>3. QED
    BY <1>1, <2>2 DEF Unheard, Told
<1>4. QED
  BY <1>2, <1>3

LEMMA UnheardClient ==
    ASSUME TypeInv, LineInv, NEW c \in Clients, Connect(c) \/ SendLine(c) \/ Quit(c)
    PROVE  \A d \in Clients : (Unheard(d)' => Unheard(d)) /\ (Told(d)' => Told(d))
<1>1. UNCHANGED <<pc, contr>>
  BY DEF Connect, SendLine, Quit, main
<1>2. \A d \in Clients : /\ sent[d] \in Nat /\ (at[d] = "off" => sent[d] = 0)
                         /\ Served(d)' = Served(d)
  BY <1>1, BoundsType DEF TypeInv, TypeOK, LineInv, Served, Serving
<1>3. CASE Connect(c)
  <2>1. /\ at[c] = "off" /\ pending' = Append(pending, c) /\ UNCHANGED sent
        /\ at' = [at EXCEPT ![c] = "idle"] /\ at \in [Clients -> {"off", "idle", "wait", "gone"}]
    BY <1>3 DEF Connect, TypeInv, TypeOK
  <2>2. \A d \in Clients : Queued(d)' => Queued(d) \/ d = c
    <3>1. /\ Len(pending) \in Nat /\ Len(pending') = Len(pending) + 1
          /\ \A i \in 1..Len(pending) : pending'[i] = pending[i]
          /\ pending'[Len(pending) + 1] = c
      BY <2>1, AppendProperties, LenProperties DEF TypeInv, TypeOK
    <3>2. QED
      BY <3>1 DEF Queued
  <2>3. ASSUME NEW d \in Clients
        PROVE  (Unheard(d)' => Unheard(d)) /\ (Told(d)' => Told(d))
    <3>1. CASE d = c
      BY <1>2, <2>1, <3>1 DEF Unheard, Told
    <3>2. CASE d # c
      BY <1>2, <2>1, <2>2, <3>2 DEF Unheard, Told
    <3>3. QED
      BY <3>1, <3>2
  <2>4. QED
    BY <2>3
<1>4. CASE SendLine(c) \/ Quit(c)
  <2>1. /\ UNCHANGED pending /\ at[c] # "off" /\ at'[c] \in {"wait", "gone"}
        /\ \A d \in Clients \ {c} : at'[d] = at[d] /\ sent'[d] = sent[d]
    BY <1>4 DEF SendLine, Quit, TypeInv, TypeOK
  <2>2. sent'[c] > 1 => Told(c)
    <3>1. CASE SendLine(c)
      <4>1. at[c] = "idle" /\ sent'[c] = sent[c] + 1
        BY <3>1 DEF SendLine, TypeInv, TypeOK
      <4>2. sent'[c] > 1 => sent[c] > 1 \/ sent[c] = 1
        BY <1>2, <4>1
      <4>3. QED
        BY <4>1, <4>2 DEF Told
    <3>2. CASE Quit(c)
      BY <3>2 DEF Quit, Told
    <3>3. QED
      BY <1>4, <3>1, <3>2
  <2>3. \A d \in Clients : Queued(d)' = Queued(d)
    BY <2>1 DEF Queued
  <2>4. ASSUME NEW d \in Clients
        PROVE  (Unheard(d)' => Unheard(d)) /\ (Told(d)' => Told(d))
    <3>1. CASE d = c
      BY <1>2, <2>1, <2>2, <2>3, <3>1 DEF Unheard, Told
    <3>2. CASE d # c
      BY <1>2, <2>1, <2>3, <3>2 DEF Unheard, Told
    <3>3. QED
      BY <3>1, <3>2
  <2>5. QED
    BY <2>4
<1>5. QED
  BY <1>3, <1>4

(* Steps that leave list, cursor and place alone. *)
LEMMA ListStays ==
    ASSUME TypeInv, ListInv, UNCHANGED <<list, pc, li, arg, rest, prev>>,
           \A c \in Clients : (Unheard(c)' => Unheard(c)) /\ (Told(c)' => Told(c))
    PROVE  ListInv'
<1>1. UNCHANGED <<mem, head, pc, li, arg, rest, prev>>
  BY DEF list
<1>2. HeapNow' /\ CellsNow' = CellsNow /\ DeletesLog'
  BY <1>1 DEF ListInv, HeapNow, CellsNow, DeletesLog
<1>3. ClientsListed
  BY DEF ListInv
<1>4. ClientsListed'
  BY <1>1, <1>2, <1>3, ListedFrame
<1>5. QED
  BY <1>2, <1>4 DEF ListInv

(* Steps that change the list but add and drop nothing. *)
LEMMA ListSame ==
    ASSUME TypeInv, ListInv, UNCHANGED clients, Serving' => Serving /\ contr' = contr,
           HeapNow', CellsNow' = CellsNow, DeletesLog',
           \A x \in CellsNow : mem'[x].name = mem[x].name /\ mem'[x].by = mem[x].by
    PROVE  ListInv'
<1>1. \A c \in Clients : (Unheard(c)' => Unheard(c)) /\ (Told(c)' => Told(c))
  BY UnheardFrame
<1>2. ClientsListed
  BY DEF ListInv
<1>3. ClientsListed'
  BY <1>1, <1>2, ListedFrame
<1>4. QED
  BY <1>3 DEF ListInv

LEMMA MallocFree ==
    \A x \in Malloc : x \in Cells /\ (x \notin HeldIn(mem, head, li, arg, rest) \/ ~mem[x].live)
  BY DEF Malloc, New, Held, HeldIn, Reach

(* Nothing was at work on the list, nothing is, and no cell of it changed. *)
LEMMA ListQuiet ==
    ASSUME HeapNow, ~Working(pc), ~Working(pc'), UNCHANGED <<head, arg, rest>>,
           Alike(mem, mem', Cells \cap ChainIn(mem, head)), InUse(li', arg, rest, pc')
    PROVE  /\ HeapNow' /\ CellsNow' = CellsNow
           /\ \A x \in CellsNow : mem'[x].name = mem[x].name /\ mem'[x].by = mem[x].by
<1>1. Heap(mem, head, li, arg, rest, prev, pc)
  BY DEF HeapNow
<1>2. /\ Heap(mem', head, li', arg, rest, prev', pc')
      /\ Lasting(mem', head, li', arg, rest, pc') = Lasting(mem, head, li, arg, rest, pc)
      /\ \A c \in Lasting(mem, head, li, arg, rest, pc) :
             mem'[c].name = mem[c].name /\ mem'[c].by = mem[c].by
  BY <1>1, HeapQuiet
<1>3. QED
  BY <1>2 DEF HeapNow, CellsNow

LEMMA ListPlain == TypeInv /\ LineInv /\ ListInv /\ (Poll \/ Receive \/ OpenContext) => ListInv'
<1> SUFFICES ASSUME TypeInv, LineInv, ListInv, Poll \/ Receive \/ OpenContext
             PROVE  ListInv'
  OBVIOUS
<1>1. UNCHANGED <<mem, head, li, rest, prev>>
  BY DEF Poll, Receive, OpenContext, list
<1>2. CASE Poll
  <2>1. pc = "poll" /\ pc' \in {"start", "recv"} /\ UNCHANGED arg
    BY <1>2 DEF Poll, Running
  <2>2. HeapNow' /\ CellsNow' = CellsNow
    <3>1. HeapNow /\ InUse(li, arg, rest, pc)
      BY DEF ListInv, HeapNow, Heap
    <3>2. InUse(li', arg, rest, pc') /\ ~Working(pc) /\ ~Working(pc')
      BY <1>1, <2>1, <3>1 DEF InUse, Working
    <3>3. Alike(mem, mem', Cells \cap ChainIn(mem, head)) /\ UNCHANGED <<head, arg, rest>>
      BY <1>1, <2>1 DEF Alike
    <3>4. QED
      BY <3>1, <3>2, <3>3, ListQuiet
  <2>3. ClientsListed'
    BY <1>1, <1>2, <2>2, UnheardPoll, ListedFrame DEF ListInv
  <2>4. QED
    BY <2>1, <2>2, <2>3 DEF ListInv, DeletesLog
<1>3. CASE Receive
  <2>1. /\ pc = "recv" /\ pc' \in {"start", "open"} /\ UNCHANGED arg
        /\ UNCHANGED clients /\ UNCHANGED contr /\ Serving
    BY <1>3 DEF Receive, Running, Serving
  <2>2. HeapNow' /\ CellsNow' = CellsNow
    <3>1. HeapNow /\ InUse(li, arg, rest, pc)
      BY DEF ListInv, HeapNow, Heap
    <3>2. InUse(li', arg, rest, pc') /\ ~Working(pc) /\ ~Working(pc')
      BY <1>1, <2>1, <3>1 DEF InUse, Working
    <3>3. Alike(mem, mem', Cells \cap ChainIn(mem, head)) /\ UNCHANGED <<head, arg, rest>>
      BY <1>1, <2>1 DEF Alike
    <3>4. QED
      BY <3>1, <3>2, <3>3, ListQuiet
  <2>3. DeletesLog'
    BY <2>1 DEF DeletesLog
  <2>4. QED
    BY <1>1, <2>1, <2>2, <2>3, ListSame
<1>4. CASE OpenContext
  <2>1. /\ pc = "open" /\ pc' = "add" /\ arg' = head
        /\ UNCHANGED clients /\ UNCHANGED contr /\ Serving
    BY <1>4 DEF OpenContext, Running, Serving
  <2>2. HeapNow' /\ CellsNow' = CellsNow
    BY <1>1, <2>1, HeapReads DEF ListInv, HeapNow, CellsNow
  <2>3. DeletesLog'
    BY <2>1 DEF DeletesLog
  <2>4. QED
    BY <1>1, <2>1, <2>2, <2>3, ListSame
<1>5. QED
  BY <1>2, <1>3, <1>4

LEMMA ListOpens == TypeInv /\ LineInv /\ ListInv /\ OpenAdds => ListInv'
<1> SUFFICES ASSUME TypeInv, LineInv, ListInv, OpenAdds PROVE ListInv'
  OBVIOUS
<1>1. /\ pc = "add" /\ pc' = "start" /\ arg' = Nil /\ UNCHANGED <<li, rest, prev, pending, sent>>
      /\ at' = [at EXCEPT ![contr] = "idle"]
  BY DEF OpenAdds, Running
<1>2. PICK x \in Malloc : /\ mem' = Forget(Link(x, Opened, contr, arg), {x})
                          /\ head' = x
  BY DEF OpenAdds
<1>3. x \in Cells /\ (x \notin HeldIn(mem, head, li, arg, rest) \/ ~mem[x].live)
  BY MallocFree
<1>4. contr \in Clients /\ Served(contr) /\ ~Queued(contr) /\ at[contr] # "off"
      /\ mem \in [Cells -> Cell] /\ arg \in Pointers
  BY <1>1 DEF TypeInv, TypeOK, Serving, Served, LineInv
<1> DEFINE k == Link(x, Opened, contr, arg)
<1>5. /\ k \in [Cells -> Cell] /\ k[x].next = arg /\ k[x].live
      /\ k[x].name = Opened /\ k[x].by = contr
      /\ \A c \in Cells \ {x} : k[c] = mem[c]
  <2>1. Opened \in Names
    BY NamesType
  <2>2. k \in [Cells -> Cell]
    BY <1>3, <1>4, <2>1, LinkType
  <2>3. k[x] = [live |-> TRUE, next |-> arg, name |-> Opened, open |-> FALSE, by |-> contr]
    BY <1>3, <1>4 DEF Link
  <2>4. \A c \in Cells \ {x} : k[c] = mem[c]
    BY <1>4 DEF Link
  <2>5. QED
    BY <2>2, <2>3, <2>4
<1> HIDE DEF k
<1>6. Heap(mem, head, li, arg, rest, prev, "add") /\ CellsNow = Lasting(mem, head, li, arg, rest, "add")
  BY <1>1 DEF ListInv, HeapNow, CellsNow
<1>7. \A c \in CellsNow : mem[c].by # k[x].by
  BY <1>4, <1>5 DEF ListInv, ClientsListed, Unheard
<1>8. mem' = Forget(k, {x})
  BY <1>2 DEF k
<1>9. /\ Heap(mem', x, li, Nil, rest, prev, "start")
      /\ Lasting(mem', x, li, Nil, rest, "start") = {x} \cup CellsNow
      /\ \A c \in CellsNow : mem'[c] = mem[c]
      /\ mem'[x] = k[x]
  <2>1. \A c \in Lasting(mem, head, li, arg, rest, "add") :
            mem[c].name # k[x].name \/ mem[c].by # k[x].by
    BY <1>6, <1>7
  <2>2. Heap(mem, head, li, arg, rest, prev, "add")
    BY <1>6
  <2>3. /\ Heap(mem', x, li, Nil, rest, prev, "start")
        /\ Lasting(mem', x, li, Nil, rest, "start") =
               {x} \cup Lasting(mem, head, li, arg, rest, "add")
        /\ \A c \in Lasting(mem, head, li, arg, rest, "add") : mem'[c] = mem[c]
        /\ mem'[x] = k[x]
    <3>1. Opens(mem, head, li, arg, rest, prev, x, k)
      BY <1>3, <1>4, <1>5, <2>1, <2>2 DEF Opens
    <3>2. QED
      BY <1>8, <3>1, HeapOpens
  <2>4. QED
    BY <1>6, <2>3
<1>10. HeapNow' /\ CellsNow' = {x} \cup CellsNow
  BY <1>1, <1>2, <1>9 DEF HeapNow, CellsNow
<1>11. ClientsListed'
  <2>1. ~Serving'
    BY <1>1 DEF Serving
  <2>2. ASSUME NEW d \in Clients, d # contr
        PROVE  (Unheard(d)' => Unheard(d)) /\ (Told(d)' => Told(d))
    BY <1>1, <1>4, <2>1, <2>2 DEF Unheard, Queued, Served, Told, TypeInv, TypeOK
  <2>3. \A d \in Clients : d = contr => ~Unheard(d)'
    <3>2. at'[contr] # "off"
      BY <1>1, <1>4 DEF TypeInv, TypeOK
    <3>3. pending' = pending
      BY <1>1
    <3>4. \A d \in Clients : Unheard(d)' <=> Queued(d) \/ at'[d] = "off"
      BY <2>1, <3>3 DEF Unheard, Queued, Served
    <3>5. QED
      BY <1>4, <3>2, <3>4
  <2>4. mem'[x].name = Opened /\ mem'[x].by = contr
    BY <1>5, <1>9
  <2>5. ASSUME NEW d \in Clients, NEW y \in CellsNow', mem'[y].by = d
        PROVE  ~Unheard(d)'
    <3>1. CASE y = x
      <4>1. mem'[y].by = contr
        BY <2>4, <3>1
      <4>2. QED
        BY <2>3, <2>5, <4>1
    <3>2. CASE y # x
      <4>1. y \in CellsNow /\ mem'[y] = mem[y]
        BY <1>9, <1>10, <3>2
      <4>2. ~Unheard(d) /\ d # contr
        BY <1>4, <2>5, <4>1 DEF ListInv, ClientsListed, Unheard
      <4>3. QED
        BY <2>2, <4>2
    <3>3. QED
      BY <3>1, <3>2
  <2>6. ASSUME NEW d \in Clients, Told(d)'
        PROVE  \E y \in CellsNow' : Asked(mem', y, d)
    <3>1. CASE d = contr
      BY <1>10, <2>4, <3>1 DEF Asked
    <3>2. CASE d # contr
      <4>1. PICK y \in CellsNow : Asked(mem, y, d)
        BY <2>2, <2>6, <3>2 DEF ListInv, ClientsListed
      <4>2. y \in CellsNow' /\ mem'[y] = mem[y]
        BY <1>9, <1>10
      <4>3. QED
        BY <4>1, <4>2 DEF Asked
    <3>3. QED
      BY <3>1, <3>2
  <2>7. QED
    BY <2>5, <2>6 DEF ClientsListed
<1>12. QED
  BY <1>1, <1>10, <1>11 DEF ListInv, DeletesLog

LEMMA ListWalks == TypeInv /\ ListInv /\ (StartWalk \/ Advance) => ListInv'
<1> SUFFICES ASSUME TypeInv, ListInv, StartWalk \/ Advance PROVE ListInv'
  OBVIOUS
<1>1. /\ UNCHANGED <<head, arg, rest, contr>> /\ UNCHANGED clients /\ pc \in {"start", "next"}
  BY DEF StartWalk, Advance, Running, list
<1> DEFINE p == IF pc = "start" THEN head ELSE mem[li].next
<1>2. GoTo(p) /\ (mem' = mem \/ mem' = Forget(mem, {head, p}))
  BY DEF StartWalk, Advance, Running, list
<1> HIDE DEF p
<1>3. Alike(mem, mem', Cells \cap ChainIn(mem, head))
  <2>1. \A c \in Cells \cap ChainIn(mem, head) : mem'[c] = mem[c]
    BY <1>2, ForgetRoot
  <2>2. QED
    BY <2>1 DEF Alike
<1>4. HeapNow /\ InUse(li, arg, rest, pc)
  BY DEF ListInv, HeapNow, Heap
<1>5. /\ pc' \in {"start", "next", "run", "poll"} /\ InUse(li', arg, rest, pc')
  <2>1. \/ p \in Cells /\ li' = p /\ pc' = "run"
        \/ li' = Nil /\ pc' = "poll"
        \/ li' = li /\ pc' = pc
    BY <1>2 DEF GoTo
  <2>2. QED
    BY <1>1, <1>4, <2>1 DEF InUse, Working
<1>6. ~Working(pc) /\ ~Working(pc')
  BY <1>1, <1>5 DEF Working
<1>7. /\ HeapNow' /\ CellsNow' = CellsNow
      /\ \A x \in CellsNow : mem'[x].name = mem[x].name /\ mem'[x].by = mem[x].by
  BY <1>1, <1>3, <1>4, <1>5, <1>6, ListQuiet
<1>8. ~Serving' /\ DeletesLog'
  BY <1>5 DEF Serving, DeletesLog
<1>9. QED
  BY <1>1, <1>7, <1>8, ListSame

LEMMA ListRuns == TypeInv /\ ListInv /\ (\E failed \in BOOLEAN : Run(failed)) => ListInv'
<1> SUFFICES ASSUME TypeInv, ListInv, NEW failed \in BOOLEAN, Run(failed) PROVE ListInv'
  OBVIOUS
<1> DEFINE opens == mem[li].name.log \in Logs /\ (mem[li].open \/ MayOpen)
<1>1. /\ pc = "run" /\ pc' \in {"next", "del"} /\ UNCHANGED <<head, li, arg, rest, contr>>
      /\ UNCHANGED clients /\ mem' = [mem EXCEPT ![li].open = opens]
      /\ pc' = "del" => mem[li].name.log \in Logs
  BY DEF Run, Running
<1>2. mem \in [Cells -> Cell] /\ li \in Cells
  BY <1>1 DEF TypeInv, TypeOK, AtCell
<1> HIDE DEF opens
<1>3. Alike(mem, mem', Cells)
  <2>1. \A c \in Cells : mem[c] \in Cell
    BY <1>2
  <2>2. QED
    BY <1>1, <1>2, <2>1 DEF Cell, Alike
<1>4. /\ HeapNow' /\ CellsNow' = CellsNow
      /\ \A x \in CellsNow : mem'[x].name = mem[x].name /\ mem'[x].by = mem[x].by
  <2>1. HeapNow /\ InUse(li, arg, rest, pc)
    BY DEF ListInv, HeapNow, Heap
  <2>2. InUse(li', arg, rest, pc') /\ ~Working(pc) /\ ~Working(pc')
    BY <1>1, <2>1 DEF InUse, Working
  <2>3. Alike(mem, mem', Cells \cap ChainIn(mem, head))
    BY <1>3 DEF Alike
  <2>4. QED
    BY <1>1, <2>1, <2>2, <2>3, ListQuiet
<1>5. DeletesLog'
  BY <1>1, <1>2, <1>3 DEF DeletesLog, Alike
<1>6. ~Serving'
  BY <1>1 DEF Serving
<1>7. QED
  BY <1>1, <1>4, <1>5, <1>6, ListSame

(* A walk over what is free, which forgets nothing of the list. *)
LEMMA ListRunsFreed == TypeInv /\ ListInv /\ RunFreed => ListInv'
<1> SUFFICES ASSUME TypeInv, ListInv, RunFreed PROVE ListInv'
  OBVIOUS
<1>1. /\ UNCHANGED <<head, arg, rest, contr>> /\ UNCHANGED clients /\ pc = "run"
  BY DEF RunFreed, Running
<1>2. PICK p : GoTo(p) /\ mem' = Forget(mem, {head, p})
  BY DEF RunFreed
<1>3. Alike(mem, mem', Cells \cap ChainIn(mem, head))
  <2>1. \A c \in Cells \cap ChainIn(mem, head) : mem'[c] = mem[c]
    BY <1>2, ForgetRoot
  <2>2. QED
    BY <2>1 DEF Alike
<1>4. HeapNow /\ InUse(li, arg, rest, pc)
  BY DEF ListInv, HeapNow, Heap
<1>5. /\ pc' \in {"run", "poll"} /\ InUse(li', arg, rest, pc')
  <2>1. \/ p \in Cells /\ li' = p /\ pc' = "run"
        \/ li' = Nil /\ pc' = "poll"
        \/ li' = li /\ pc' = pc
    BY <1>2 DEF GoTo
  <2>2. QED
    BY <1>1, <1>4, <2>1 DEF InUse, Working
<1>6. ~Working(pc) /\ ~Working(pc')
  BY <1>1, <1>5 DEF Working
<1>7. /\ HeapNow' /\ CellsNow' = CellsNow
      /\ \A x \in CellsNow : mem'[x].name = mem[x].name /\ mem'[x].by = mem[x].by
  BY <1>1, <1>3, <1>4, <1>5, <1>6, ListQuiet
<1>8. ~Serving' /\ DeletesLog'
  BY <1>5 DEF Serving, DeletesLog
<1>9. QED
  BY <1>1, <1>7, <1>8, ListSame

LEMMA ListDeleteFrom == TypeInv /\ ListInv /\ (DeleteFrom \/ DeleteFails) => ListInv'
<1> SUFFICES ASSUME TypeInv, ListInv, DeleteFrom \/ DeleteFails PROVE ListInv'
  OBVIOUS
<1>1. CASE DeleteFrom
  <2>1. /\ pc = "del" /\ pc' = "free" /\ arg' = head
        /\ UNCHANGED <<mem, head, li, rest, prev, contr>> /\ UNCHANGED clients /\ ~Serving'
    BY <1>1 DEF DeleteFrom, Running, Serving, list
  <2>2. HeapNow' /\ CellsNow' = CellsNow
    BY <2>1, HeapReads DEF ListInv, HeapNow, CellsNow
  <2>3. DeletesLog'
    BY <2>1 DEF ListInv, DeletesLog
  <2>4. QED
    BY <2>1, <2>2, <2>3, ListSame
<1>2. CASE DeleteFails
  <2>1. UNCHANGED <<list, pc, li, arg, rest, prev, contr>> /\ UNCHANGED clients
    BY <1>2 DEF DeleteFails, main
  <2>2. QED
    BY <2>1, ListStays, UnheardFrame DEF Serving
<1>3. QED
  BY <1>1, <1>2

LEMMA ListFrees == TypeInv /\ ListInv /\ DeleteFrees => ListInv'
<1> SUFFICES ASSUME TypeInv, ListInv, DeleteFrees PROVE ListInv'
  OBVIOUS
<1>1. /\ pc = "free" /\ pc' = (IF arg = li THEN "assign" ELSE "relink")
      /\ UNCHANGED <<head, li, arg, contr>> /\ UNCHANGED clients
      /\ rest' = mem[li].next /\ li \in ChainIn(mem, arg)
      /\ arg # li => prev' \in Cells \cap ChainIn(mem, arg) /\ mem[prev'].next = li
  BY DEF DeleteFrees, Running, Reach
<1>2. PICK next \in {mem[li].next, Nil, Wild} \cup Malloc :
          mem' = [mem EXCEPT ![li].live = FALSE, ![li].next = next]
  BY DEF DeleteFrees
<1>3. mem \in [Cells -> Cell] /\ li \in Cells
  BY <1>1 DEF TypeInv, TypeOK, AtCell
<1>4. \A c \in Cells \ {li} : mem'[c] = mem[c]
  BY <1>2, <1>3
<1>5. mem' \in [Cells -> Cell]
  BY NextType DEF Next, MainNext, TypeInv, TypeOK
<1>6. Heap(mem, head, li, arg, rest, prev, "free") /\ CellsNow = Lasting(mem, head, li, arg, rest, "free")
  BY <1>1 DEF ListInv, HeapNow, CellsNow
<1>7. /\ Heap(mem', head, li, arg, mem[li].next, prev', pc')
      /\ Lasting(mem', head, li, arg, mem[li].next, pc') =
             Lasting(mem, head, li, arg, rest, "free") \ {li}
  <2>1. Heap(mem, head, li, arg, rest, prev, "free") /\ li \in Cells /\ mem \in [Cells -> Cell]
    BY <1>3, <1>6
  <2>2. Frees(mem, mem', li, arg, prev')
    BY <1>1, <1>4, <1>5 DEF Frees
  <2>3. pc' = IF arg = li THEN "assign" ELSE "relink"
    BY <1>1
  <2>4. QED
    BY <2>1, <2>2, <2>3, HeapFrees
<1>8. HeapNow' /\ CellsNow' = CellsNow \ {li}
  BY <1>1, <1>6, <1>7 DEF HeapNow, CellsNow
<1>9. mem[li].name # Opened
  BY <1>1, NamesType DEF ListInv, DeletesLog
<1>10. ~Serving' /\ DeletesLog'
  BY <1>1 DEF Serving, DeletesLog
<1>11. \A c \in Clients : (Unheard(c)' => Unheard(c)) /\ (Told(c)' => Told(c))
  BY <1>1, <1>10, UnheardFrame
<1>12. CellsNow \subseteq Cells
  BY <1>6 DEF Lasting
<1>13. ClientsListed'
  <2>1. \A x \in CellsNow' : x \in CellsNow /\ mem'[x].by = mem[x].by
    BY <1>4, <1>8, <1>12
  <2>2. \A x \in CellsNow : mem[x].name = Opened =>
            x \in CellsNow' /\ mem'[x].name = Opened /\ mem'[x].by = mem[x].by
    BY <1>4, <1>8, <1>9, <1>12
  <2>3. ClientsListed
    BY DEF ListInv
  <2>4. QED
    BY <1>11, <2>1, <2>2, <2>3, ListedFrame
<1>14. QED
  BY <1>8, <1>10, <1>13 DEF ListInv

LEMMA ListRelinks == TypeInv /\ ListInv /\ DeleteRelinks => ListInv'
<1> SUFFICES ASSUME TypeInv, ListInv, DeleteRelinks PROVE ListInv'
  OBVIOUS
<1>1. /\ pc = "relink" /\ pc' = "assign"
      /\ UNCHANGED <<head, li, arg, rest, contr>> /\ UNCHANGED clients
  BY DEF DeleteRelinks, Running
<1>2. mem' = [mem EXCEPT ![prev].next = rest]
  BY DEF DeleteRelinks
<1>3. mem \in [Cells -> Cell] /\ li \in Cells
  BY <1>1 DEF TypeInv, TypeOK, AtCell
<1>4. /\ mem'[prev].live = mem[prev].live /\ mem'[prev].next = rest
      /\ mem'[prev].name = mem[prev].name /\ mem'[prev].by = mem[prev].by
      /\ \A c \in Cells \ {prev} : mem'[c] = mem[c]
  <2>1. prev \in Cells
    BY <1>1 DEF ListInv, HeapNow, Heap, Parting
  <2>2. mem[prev] \in Cell
    BY <1>3, <2>1
  <2>3. QED
    BY <1>2, <1>3, <2>1, <2>2 DEF Cell
<1>5. mem' \in [Cells -> Cell]
  BY NextType DEF Next, MainNext, TypeInv, TypeOK
<1>6. /\ Heap(mem, head, li, arg, rest, prev, "relink")
      /\ CellsNow = Lasting(mem, head, li, arg, rest, "relink")
  BY <1>1 DEF ListInv, HeapNow, CellsNow
<1>7. /\ Heap(mem', head, li, arg, rest, prev', "assign")
      /\ Lasting(mem', head, li, arg, rest, "assign") =
             Lasting(mem, head, li, arg, rest, "relink")
  <2>1. Heap(mem, head, li, arg, rest, prev, "relink") /\ li \in Cells
    BY <1>3, <1>6
  <2>2. mem \in [Cells -> Cell] /\ mem' \in [Cells -> Cell]
    BY <1>3, <1>5
  <2>4. \A c \in Cells \ {prev} : mem'[c] = mem[c]
    BY <1>4
  <2>5. /\ mem'[prev].live = mem[prev].live /\ mem'[prev].next = rest
        /\ mem'[prev].name = mem[prev].name /\ mem'[prev].by = mem[prev].by
    BY <1>4
  <2>6. QED
    BY <2>1, <2>2, <2>4, <2>5, HeapRelinks
<1>8. HeapNow' /\ CellsNow' = CellsNow
  BY <1>1, <1>6, <1>7 DEF HeapNow, CellsNow
<1>9. CellsNow \subseteq Cells
  BY <1>6 DEF Lasting
<1>10. ~Serving' /\ DeletesLog'
  BY <1>1 DEF Serving, DeletesLog
<1>11. \A x \in CellsNow : mem'[x].name = mem[x].name /\ mem'[x].by = mem[x].by
  BY <1>4, <1>9
<1>12. QED
  BY <1>1, <1>8, <1>10, <1>11, ListSame

LEMMA ListAssigns == TypeInv /\ ListInv /\ DeleteAssigns => ListInv'
<1> SUFFICES ASSUME TypeInv, ListInv, DeleteAssigns PROVE ListInv'
  OBVIOUS
<1>1. /\ pc = "assign" /\ pc' = "next" /\ arg' = Nil /\ rest' = Nil
      /\ UNCHANGED <<li, prev, contr>> /\ UNCHANGED clients
      /\ head' = IF arg = li THEN rest ELSE arg
      /\ mem' = Forget(mem, {head', li})
  BY DEF DeleteAssigns, Running
<1>2. mem \in [Cells -> Cell] /\ li \in Cells
  BY <1>1 DEF TypeInv, TypeOK, AtCell
<1>3. /\ Heap(mem, head, li, arg, rest, prev, "assign")
      /\ CellsNow = Lasting(mem, head, li, arg, rest, "assign")
  BY <1>1 DEF ListInv, HeapNow, CellsNow
<1>4. head' = Result(head, li, arg, rest, "assign")
  BY <1>1 DEF Result, Working
<1>5. /\ Heap(mem', head', li, Nil, Nil, prev, "next")
      /\ Lasting(mem', head', li, Nil, Nil, "next") =
             Lasting(mem, head, li, arg, rest, "assign")
      /\ \A c \in Lasting(mem, head, li, arg, rest, "assign") : mem'[c] = mem[c]
  BY <1>1, <1>2, <1>3, <1>4, HeapAssigns
<1>6. /\ HeapNow' /\ CellsNow' = CellsNow
      /\ \A x \in CellsNow : mem'[x].name = mem[x].name /\ mem'[x].by = mem[x].by
  BY <1>1, <1>3, <1>5 DEF HeapNow, CellsNow
<1>7. ~Serving' /\ DeletesLog'
  BY <1>1 DEF Serving, DeletesLog
<1>8. QED
  BY <1>1, <1>6, <1>7, ListSame

(* A walk over a list that ends meets no junk. *)
LEMMA ListedName ==
    ASSUME Nil \in ChainIn(mem, head), NEW c \in Cells \cap ChainIn(mem, head)
    PROVE  mem[c].next # Wild
<1>1. mem[c].next \in ChainIn(mem, head)
  BY ChainNext DEF Closed
<1>2. ChainIn(mem, head) \ Cells = {Nil}
  BY ChainOneEnd
<1>3. QED
  BY <1>1, <1>2, CellsFinite

LEMMA ListHandler == TypeInv /\ ListInv /\ (Alarm \/ HandlerNext) => ListInv'
<1> SUFFICES ASSUME TypeInv, ListInv, Alarm \/ HandlerNext PROVE ListInv'
  OBVIOUS
<1>1. CASE Alarm \/ HandlerFinds \/ HandlerHangs \/ HandlerCrashes
  <2>1. UNCHANGED <<list, pc, li, arg, rest, prev, contr>> /\ UNCHANGED clients
    BY <1>1 DEF Alarm, HandlerFinds, HandlerHangs, HandlerCrashes, main
  <2>2. QED
    BY <2>1, ListStays, UnheardFrame DEF Serving
<1>2. CASE HandlerAdds
  <2> DEFINE name == Name(Patterns[sig])
  <2>1. /\ UNCHANGED <<pc, li, arg, rest, prev, contr>> /\ UNCHANGED clients
        /\ ~IsListed(name)
    BY <1>2 DEF HandlerAdds, main
  <2>2. PICK x \in Malloc : mem' = Link(x, name, Nil, head) /\ head' = x
    BY <1>2 DEF HandlerAdds
  <2>3. x \in Cells /\ (x \notin HeldIn(mem, head, li, arg, rest) \/ ~mem[x].live)
    BY MallocFree
  <2>4. mem \in [Cells -> Cell] /\ head \in Pointers
    BY DEF TypeInv, TypeOK
  <2>5. mem' \in [Cells -> Cell]
    BY <1>2, NextType DEF Next, HandlerNext, TypeInv, TypeOK
  <2>6. /\ mem'[x].next = head /\ mem'[x].live /\ mem'[x].name = name /\ mem'[x].by = Nil
        /\ \A c \in Cells \ {x} : mem'[c] = mem[c]
    <3>1. mem'[x] = [live |-> TRUE, next |-> head, name |-> name, open |-> FALSE,
                  by |-> Nil]
      BY <2>2, <2>3, <2>4 DEF Link
    <3>2. \A c \in Cells \ {x} : mem'[c] = mem[c]
      BY <2>2, <2>4 DEF Link
    <3>3. QED
      BY <3>1, <3>2
  <2>7. name.log \in Logs
    <3>1. Handling /\ sig \in 0..Len(Patterns)
      BY <1>2 DEF HandlerAdds, TypeInv, TypeOK
    <3>2. sig \in 1..Len(Patterns)
      BY <3>1, LogsType DEF Handling
    <3>3. Patterns[sig] \in Logs
      BY <3>2, LogsType
    <3>4. QED
      BY <3>3 DEF Name
  <2>8. Heap(mem, head, li, arg, rest, prev, pc)
    BY DEF ListInv, HeapNow
  <2>9. pc \notin {"relink", "assign"} =>
            \A c \in Cells \cap ChainIn(mem, head) :
                mem[c].name # mem'[x].name \/ mem[c].by # mem'[x].by
    <3> SUFFICES ASSUME pc \notin {"relink", "assign"},
                        NEW c \in Cells \cap ChainIn(mem, head), mem[c].name = name
                 PROVE  FALSE
      BY <2>6
    <3>1. Nil \in ChainIn(mem, head) /\ mem[c].live
      BY <2>8 DEF Heap, Good
    <3>2. mem[c].next # Wild
      BY <3>1, ListedName
    <3>3. QED
      BY <2>1, <3>1, <3>2 DEF IsListed, Reach
  <2> HIDE DEF name
  <2>10. /\ Heap(mem', x, li, arg, rest, prev, pc)
         /\ x \notin Lasting(mem, head, li, arg, rest, pc)
         /\ Lasting(mem', x, li, arg, rest, pc) =
                Lasting(mem, head, li, arg, rest, pc)
                    \cup (IF Working(pc) THEN {} ELSE {x})
    BY <2>3, <2>4, <2>5, <2>6, <2>8, <2>9, HeapAdd
  <2>11. HeapNow' /\ x \notin CellsNow /\ CellsNow \subseteq CellsNow'
         /\ CellsNow' \subseteq CellsNow \cup {x}
    BY <2>1, <2>2, <2>10 DEF HeapNow, CellsNow
  <2>12. CellsNow \subseteq Cells
    BY DEF CellsNow, Lasting
  <2>13. \A c \in Clients : (Unheard(c)' => Unheard(c)) /\ (Told(c)' => Told(c))
    BY <2>1, UnheardFrame DEF Serving
  <2>14. ClientsListed'
    <3>1. \A y \in CellsNow : /\ y \in CellsNow'
                              /\ mem'[y].name = mem[y].name /\ mem'[y].by = mem[y].by
      BY <2>6, <2>11, <2>12
    <3>2. \A y \in CellsNow' : \/ y \in CellsNow /\ mem'[y].by = mem[y].by
                               \/ mem'[y].by = Nil
      BY <2>6, <2>11, <3>1
    <3>3. ClientsListed
      BY DEF ListInv
    <3>4. QED
      BY <2>13, <3>1, <3>2, <3>3, ListedFrame
  <2>15. DeletesLog'
    <3> SUFFICES ASSUME pc \in {"del", "free"} PROVE mem'[li].name.log \in Logs
      BY <2>1 DEF DeletesLog
    <3>1. li \in Cells /\ mem[li].name.log \in Logs
      BY <2>8 DEF ListInv, DeletesLog, Heap, InUse
    <3>2. CASE li = x
      BY <2>6, <2>7, <3>2
    <3>3. CASE li # x
      BY <2>6, <3>1, <3>3
    <3>4. QED
      BY <3>2, <3>3
  <2>16. QED
    BY <2>11, <2>14, <2>15 DEF ListInv
<1>3. QED
  BY <1>1, <1>2 DEF HandlerNext

LEMMA ListNext == TypeInv /\ LineInv /\ ListInv /\ [Next]_vars => ListInv'
<1> SUFFICES ASSUME TypeInv, LineInv, ListInv, [Next]_vars PROVE ListInv'
  OBVIOUS
<1>1. ASSUME Midnight \/ UNCHANGED vars PROVE ListInv'
  <2>1. UNCHANGED <<list, pc, li, arg, rest, prev, contr>> /\ UNCHANGED clients
    BY <1>1 DEF Midnight, vars, main
  <2>2. QED
    BY <2>1, ListStays, UnheardFrame DEF Serving
<1>2. ASSUME NEW c \in Clients, Connect(c) \/ SendLine(c) \/ Quit(c) PROVE ListInv'
  <2>1. UNCHANGED <<list, pc, li, arg, rest, prev>>
    BY <1>2 DEF Connect, SendLine, Quit, main
  <2>2. \A d \in Clients : (Unheard(d)' => Unheard(d)) /\ (Told(d)' => Told(d))
    BY <1>2, UnheardClient
  <2>3. QED
    BY <2>1, <2>2, ListStays
<1>3. QED
  BY <1>1, <1>2, ListPlain, ListOpens, ListWalks, ListRuns, ListRunsFreed, ListDeleteFrom, ListFrees,
     ListRelinks, ListAssigns, ListHandler DEF Next, MainNext

(* The inductive invariant of the list in memory, wherever the freed cell     *)
(* leads, whatever the walk makes of it and wherever the alarm falls.        *)
THEOREM ListInvariant == Spec => [](TypeInv /\ LineInv /\ ListInv)
  BY InitType, NextType, LineInit, LineNext, ListInit, ListNext, PTL DEF Spec

(* The list that az_list_add and az_list_delete make ends, has only cells     *)
(* that are allocated, and no file twice but for two clients, even after a    *)
(* walk that went on from a freed cell to wherever that led.                  *)
THEOREM ListSoundHolds == Spec => []ListSound
<1>1. ASSUME ListInv, TypeInv PROVE ListSound
  <2> SUFFICES ASSUME Settled
               PROVE  /\ Reach(head) \ Cells = {Nil}
                      /\ \A c, d \in Cells \cap Reach(head) :
                             /\ mem[c].live
                             /\ c # d => mem[c].name # mem[d].name \/ mem[c].by # mem[d].by
    BY DEF ListSound
  <2>1. Good(mem, head)
    BY <1>1 DEF ListInv, HeapNow, Heap, Settled
  <2>2. ChainIn(mem, head) \ Cells = {Nil}
    BY <2>1, ChainOneEnd DEF Good
  <2>3. QED
    BY <2>1, <2>2 DEF Reach, Good, NoTwins
<1>2. QED
  BY <1>1, ListInvariant, PTL

(* The context a client was told of stays in the list: an alarm that falls    *)
(* between the read of g_context_list and its assignment loses what the       *)
(* handler added, never what a client asked for.                             *)
THEOREM OpenedStaysHolds == Spec => []OpenedStays
<1>1. ASSUME ListInv, TypeInv PROVE OpenedStays
  <2> SUFFICES ASSUME NEW k \in Clients, Settled, Told(k)
               PROVE  \E c \in Cells \cap Reach(head) :
                          mem[c].live /\ mem[c].name = Opened /\ mem[c].by = k
    BY DEF OpenedStays, Told
  <2>1. /\ Good(mem, head)
        /\ pc \in {"add", "free"} => arg \in ChainIn(mem, head)
    BY <1>1 DEF ListInv, HeapNow, Heap, Settled
  <2>2. PICK x \in CellsNow : Asked(mem, x, k)
    BY <1>1 DEF ListInv, ClientsListed
  <2>3. x \in Cells \cap ChainIn(mem, head)
    <3>1. CASE pc \in {"add", "free"}
      <4>1. x \in Cells \cap ChainIn(mem, arg)
        BY <3>1, LastingIs DEF CellsNow
      <4>2. QED
        BY <2>1, <3>1, <4>1, ChainWithin
    <3>2. CASE ~Working(pc)
      BY <3>2, LastingIs DEF CellsNow
    <3>3. QED
      BY <3>1, <3>2 DEF Settled, Working
  <2>4. QED
    BY <2>1, <2>2, <2>3 DEF Good, Asked, Reach
<1>2. QED
  BY <1>1, ListInvariant, PTL
===============================================================================
