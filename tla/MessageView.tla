----------------------------- MODULE MessageView ----------------------------
(***************************************************************************)
(* The page of a message review: ui_display_message and                    *)
(* make_message_visible, one byte of the message at a time.  A byte and a  *)
(* character are numbers; the terminator is left out of the text, but not  *)
(* of its size.                                                            *)
(***************************************************************************)
EXTENDS Integers, Sequences, Series

CONSTANTS
    Messages,      \* raw_msg
    OutLen,        \* bytes of g_buffers below the signer's slot
    EthLen         \* bytes of an Ethereum address

ASSUME MessageAssumption == Messages \subseteq Seq(0 .. 255)

ASSUME LengthAssumption == OutLen \in Nat \ {0} /\ EthLen \in Nat \ {0}

VARIABLES
    msg,           \* the message
    stage,         \* where the code is
    msg_pos,       \* bytes of the message that are shown
    out            \* the text so far

vars == <<msg, stage, msg_pos, out>>
-----------------------------------------------------------------------------
isprint(c) == c \in 32 .. 126

isspace(c) == c = 32 \/ c \in 9 .. 13

Spaced(c) == IF isspace(c) THEN 32 ELSE c

hex_digits(n) == IF n < 10 THEN 48 + n ELSE 55 + n

\* Fault: the low digit twice.
HexOfLowDigit(c) == <<hex_digits(c % 16), hex_digits(c % 16)>>

Hex(c) == <<hex_digits(c \div 16), hex_digits(c % 16)>>

Escaped(c) == <<92, 120>> \o Hex(c)

format_hex(bytes) == [k \in 1 .. 2 * Len(bytes) |-> Hex(bytes[(k + 1) \div 2])[2 - (k % 2)]]
-----------------------------------------------------------------------------
LooksLikeAddress(m) ==
    /\ Len(m) = EthLen /\ OutLen >= 2 * EthLen + 3
    /\ \E k \in 1 .. Len(m) : ~isprint(m[k])

More == msg_pos < Len(msg)

Char == Spaced(msg[msg_pos + 1])

\* Fault: the last byte before the terminator is not used.
LessRoom(n) == Len(out) + n < OutLen - 1

\* Fault: no room is kept for the terminator.
MoreRoom(n) == Len(out) + n <= OutLen

Room(n) == Len(out) + n <= OutLen - 1

\* The address of the signer comes first.
FailAddress ==
    /\ stage = "start"
    /\ stage' = "address_fail"
    /\ UNCHANGED <<msg, msg_pos, out>>

RefuseEmpty ==
    /\ stage = "start" /\ msg = <<>>
    /\ stage' = "parsing_fail"
    /\ UNCHANGED <<msg, msg_pos, out>>

ShowAddress ==
    /\ stage = "start" /\ LooksLikeAddress(msg)
    /\ out' = <<48, 120>> \o format_hex(msg)
    /\ stage' = "shown"
    /\ UNCHANGED <<msg, msg_pos>>

EnterLoop ==
    /\ stage = "start" /\ msg # <<>> /\ ~LooksLikeAddress(msg)
    /\ stage' = "loop"
    /\ UNCHANGED <<msg, msg_pos, out>>

Show(chars) ==
    /\ stage = "loop" /\ More /\ Room(Len(chars))
    /\ out' = out \o chars
    /\ msg_pos' = msg_pos + 1
    /\ UNCHANGED <<msg, stage>>

ShowChar == More /\ isprint(Char) /\ Show(<<Char>>)

ShowEscaped == More /\ ~isprint(Char) /\ Show(Escaped(Char))

\* Fault: the result does not depend on what is left.
AlwaysComplete == TRUE

Complete == ~More

Finish ==
    /\ stage = "loop"
    /\ More => ~Room(IF isprint(Char) THEN 1 ELSE 4)
    /\ stage' = IF Complete THEN "shown" ELSE "parsing_fail"
    /\ UNCHANGED <<msg, msg_pos, out>>
-----------------------------------------------------------------------------
Init == msg \in Messages /\ stage = "start" /\ msg_pos = 0 /\ out = <<>>

Next ==
    \/ FailAddress
    \/ RefuseEmpty
    \/ ShowAddress
    \/ EnterLoop
    \/ ShowChar
    \/ ShowEscaped
    \/ Finish

Spec == Init /\ [][Next]_vars
-----------------------------------------------------------------------------
(* Properties.                                                             *)

\* Types, and: the text and its terminator stay below the signer's slot.
TypeOK ==
    /\ msg \in Messages
    /\ stage \in {"start", "loop", "shown", "address_fail", "parsing_fail"}
    /\ msg_pos \in 0 .. Len(msg)
    /\ out \in Seq(0 .. 255) /\ Len(out) < OutLen

\* What the user should see of a byte, and of a message.
ViewOf(c) == IF isprint(Spaced(c)) THEN <<Spaced(c)>> ELSE Escaped(c)

Pieces(m) == [k \in 1 .. Len(m) |-> ViewOf(m[k])]

View(m) == IF LooksLikeAddress(m) THEN <<48, 120>> \o format_hex(m) ELSE Concat(Pieces(m))

\* A message is shown from its first byte to its last.
FullyShown == stage = "shown" => out = View(msg)

\* A message is refused only if its text with the terminator does not fit, to
\* the byte.
RefusedOnlyIfTooLong ==
    stage = "parsing_fail" => msg = <<>> \/ Len(View(msg)) >= OutLen

\* No message is refused that is shorter than a quarter of the place: four
\* characters are the most a byte takes.
ShortMessagesShown == stage = "parsing_fail" => msg = <<>> \/ 4 * Len(msg) >= OutLen

Views == [m \in Messages |-> View(m)]

\* A backslash, or 0x at the start, may be part of the message.
Plain(m) ==
    /\ \A k \in 1 .. Len(m) : m[k] # 92
    /\ Len(m) >= 2 => SubSeq(m, 1, 2) # <<48, 120>>

SameUpToSpaces(m, n) ==
    Len(m) = Len(n) /\ \A k \in 1 .. Len(m) : Spaced(m[k]) = Spaced(n[k])

\* The text tells messages apart that do not spell out escapes themselves: two
\* of them with the same text differ in nothing but kinds of white space.
ViewIdentifies ==
    stage = "shown" /\ Plain(msg) =>
        \A m \in Messages : Plain(m) /\ Views[m] = out => SameUpToSpaces(m, msg)
=============================================================================
