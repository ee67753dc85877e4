----------------------------- MODULE MCTxParser -----------------------------
(* A scaled-down transaction format for TLC: five byte values, fields of   *)
(* one byte, wide sizes of one, two and three bytes.  Every input of up to *)
(* MaxLength bytes; and transactions of psbt.py with counts and lengths    *)
(* around every limit of a CompactSize: 1 | 2, 4 | 5 and 24 | 25.          *)
EXTENDS UnsignedTx

MCWidth == <<1, 2, 3>>
MCInCounts == {0, 1, 2, 3, 4, 5, 6, 24, 25, 26}
MCOutLists ==
  UNION {[1 .. n -> {0, 1, 2, 4, 5, 24, 25}] : n \in 0 .. 2}
    \cup {[k \in 1 .. n |-> 1] : n \in {4, 5, 24, 25, 26}}
=============================================================================
