--------------------------- MODULE MCMessageView ----------------------------
(***************************************************************************)
(* Messages for TLC: every short one over bytes of each kind, and longer   *)
(* ones whose text is about as long as its place, with one odd byte at     *)
(* every position.                                                         *)
(***************************************************************************)
EXTENDS MessageView

CONSTANTS
    Bytes,         \* of the short messages
    ShortLen, LongLen

Odd(n, k, c) == [j \in 1 .. n |-> IF j = k THEN c ELSE 65]

MCMessages ==
    UNION {[1 .. n -> Bytes] : n \in 0 .. ShortLen}
    \cup {Odd(n, k, c) : n \in 1 .. LongLen, k \in 0 .. LongLen, c \in Bytes}
=============================================================================
