------------------------------ MODULE ByteQueue -------------------------------
(***************************************************************************)
(* What az_buffer (src/common/azbuffer.h) promises its callers, stated     *)
(* without memory, cursor or sizes: bytes come out in the order in which   *)
(* they went in, every one once, and bytes pushed back come out first.     *)
(***************************************************************************)
EXTENDS Integers, Sequences

CONSTANT Byte

VARIABLES queue,  \* bytes put in and not yet taken out
          io      \* bytes of the last call, the caller's src or dst

vars == <<queue, io>>

Init == queue = << >> /\ io = << >>

(* A fetch takes the bytes it is given, or the first of them. *)
Put == /\ io' \in Seq(Byte)
       /\ \E k \in 0..Len(io') : queue' = queue \o SubSeq(io', 1, k)

Take == \E k \in 0..Len(queue) :
            /\ io' = SubSeq(queue, 1, k)
            /\ queue' = SubSeq(queue, k + 1, Len(queue))

PushBack == /\ io' \in Seq(Byte)
            /\ queue' = io' \o queue

Clear == queue' = << >> /\ UNCHANGED io

Next == Put \/ Take \/ PushBack \/ Clear

Spec == Init /\ [][Next]_vars
==============================================================================
