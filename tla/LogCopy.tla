------------------------------- MODULE LogCopy -------------------------------
(***************************************************************************)
(* What compostela promises about one followed log file, stated without    *)
(* follower, aggregator, connection or message: the copy the aggregator    *)
(* keeps is at every moment a prefix of the log, it only grows, and every  *)
(* line the application finishes reaches the copy.                         *)
(*                                                                         *)
(* A log is named by its length: byte i of the log is the number i.        *)
(***************************************************************************)
EXTENDS Integers, Sequences

CONSTANTS MaxLen,     \* bound on the length of the log
          LineEnds    \* the positions at which the log holds a line feed

VARIABLES written,    \* length of the log so far
          copy        \* the copy kept by the aggregator, a sequence of bytes

vars == <<written, copy>>

Bytes(n) == [i \in 1..n |-> i]

Init == /\ written \in 0..MaxLen
        /\ copy = << >>

(* The application appends to its log. *)
Write == /\ written' \in (written + 1)..MaxLen
         /\ UNCHANGED copy

(* The copy catches up with the log, wholly or in part. *)
Ship == /\ \E n \in (Len(copy) + 1)..written : copy' = Bytes(n)
        /\ UNCHANGED written

Next == Write \/ Ship

(* A finished line is missing from the copy. *)
LineDue == \E e \in LineEnds : Len(copy) < e /\ e <= written

Safety == Init /\ [][Next]_vars

Spec == /\ Safety
        /\ WF_vars(LineDue /\ Ship)
==============================================================================
