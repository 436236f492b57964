--------------------------- MODULE MCFollowerLoop ----------------------------
(* An instance of FollowerLoop for TLC: a log that cannot always be read      *)
(* before one whose file name has the date.                                   *)
EXTENDS FollowerLoop

CONSTANTS faulty, dated

FaultyFirst == <<faulty, dated>>
==============================================================================
