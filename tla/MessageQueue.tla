---------------------------- MODULE MessageQueue -----------------------------
(***************************************************************************)
(* What the framing promises of each connection: the messages written to   *)
(* it are handled whole, in their order, each once.  When the connection   *)
(* has broken off, one more may be handled that is not whole, and it is    *)
(* the last.                                                               *)
(***************************************************************************)
EXTENDS Naturals

CONSTANT Conns

VARIABLES
    written,  \* messages the follower has begun to write
    done,     \* messages handled whole
    spoilt    \* connections on which a message was handled that was not whole

qvars == <<written, done, spoilt>>

QInit ==
    /\ written = [c \in Conns |-> 0]
    /\ done = [c \in Conns |-> 0]
    /\ spoilt = {}

Write(c) ==
    /\ written' = [written EXCEPT ![c] = @ + 1]
    /\ UNCHANGED <<done, spoilt>>

(* What a lost connection takes with it. *)
Lose(c) ==
    /\ written' \in {[written EXCEPT ![c] = n] : n \in done[c]..written[c]}
    /\ UNCHANGED <<done, spoilt>>

Handle(c) ==
    /\ c \notin spoilt
    /\ done[c] < written[c]
    /\ done' = [done EXCEPT ![c] = @ + 1]
    /\ UNCHANGED <<written, spoilt>>

Spoil(c) ==
    /\ c \notin spoilt
    /\ spoilt' = spoilt \cup {c}
    /\ UNCHANGED <<written, done>>

QNext == \E c \in Conns : Write(c) \/ Lose(c) \/ Handle(c) \/ Spoil(c)

QSpec == QInit /\ [][QNext]_qvars
=============================================================================
