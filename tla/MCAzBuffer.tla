------------------------------ MODULE MCAzBuffer ------------------------------
(* An instance of AzBuffer for TLC: a byte is a line feed or a letter, texts *)
(* have up to two bytes, allocations start with one, two or four cells.          *)
EXTENDS AzBuffer

MCTexts == UNION {[1..n -> Byte] : n \in 0..2}
==============================================================================
