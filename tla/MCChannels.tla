----------------------------- MODULE MCChannels ------------------------------
(* Instances of Channels for TLC: a log whose name changes with its file     *)
(* beside one that keeps both, and a log whose name alone changes beside one *)
(* that keeps both.                                                          *)
EXTENDS Channels

NamesFollowFiles == <<[file |-> TRUE, name |-> TRUE], [file |-> FALSE, name |-> FALSE]>>

RotatingName == <<[file |-> FALSE, name |-> FALSE], [file |-> FALSE, name |-> TRUE]>>
==============================================================================
