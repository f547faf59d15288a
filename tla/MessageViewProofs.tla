------------------------- MODULE MessageViewProofs --------------------------
(***************************************************************************)
(* Theorems about MessageView, for every set of messages and every size of *)
(* the place for their text.                                               *)
(***************************************************************************)
EXTENDS MessageView, CommonProofs

Chars == 0 .. 255

LEMMA MessageFacts ==
    ASSUME NEW m \in Messages
    PROVE  m \in Seq(Chars) /\ Len(m) \in Nat /\ \A k \in 1 .. Len(m) : m[k] \in Chars
<1>1. m \in Seq(Chars)
  BY MessageAssumption DEF Chars
<1> QED BY <1>1

\* Two digits for a byte.
LEMMA HexFacts ==
    ASSUME NEW c \in Chars
    PROVE  Hex(c) \in Seq(Chars) /\ Len(Hex(c)) = 2 /\ Hex(c)[1] \in Chars /\ Hex(c)[2] \in Chars
<1>1. c \div 16 \in 0 .. 15 /\ c % 16 \in 0 .. 15
  BY DEF Chars
<1>2. \A n \in 0 .. 15 : hex_digits(n) \in Chars
  BY DEF hex_digits, Chars
<1>3. hex_digits(c \div 16) \in Chars /\ hex_digits(c % 16) \in Chars
  BY <1>1, <1>2
<1> QED BY <1>3 DEF Hex

LEMMA SpacedFacts == ASSUME NEW c \in Chars PROVE Spaced(c) \in Chars
  BY DEF Spaced, Chars

LEMMA Joined ==
    ASSUME NEW S, NEW s \in Seq(S), NEW t \in Seq(S)
    PROVE  s \o t \in Seq(S) /\ Len(s \o t) = Len(s) + Len(t)
  OBVIOUS

\* Four characters for an escape.
LEMMA EscapedFacts ==
    ASSUME NEW c \in Chars
    PROVE  Escaped(c) \in Seq(Chars) /\ Len(Escaped(c)) = 4
<1> DEFINE prefix == <<92, 120>>
<1>1. prefix \in Seq(Chars) /\ Len(prefix) = 2
  BY DEF Chars
<1>2. Hex(c) \in Seq(Chars) /\ Len(Hex(c)) = 2
  BY HexFacts
<1>3. Escaped(c) = prefix \o Hex(c)
  BY DEF Escaped
<1> HIDE DEF prefix, Chars
<1>4. prefix \o Hex(c) \in Seq(Chars) /\ Len(prefix \o Hex(c)) = Len(prefix) + Len(Hex(c))
  BY <1>1, <1>2, Joined
<1> QED BY <1>1, <1>2, <1>3, <1>4

LEMMA FormatFacts ==
    ASSUME NEW m \in Messages
    PROVE  format_hex(m) \in Seq(Chars) /\ Len(format_hex(m)) = 2 * Len(m)
<1>1. Len(m) \in Nat /\ \A k \in 1 .. Len(m) : m[k] \in Chars
  BY MessageFacts
<1>2. ASSUME NEW k \in 1 .. 2 * Len(m)
      PROVE  Hex(m[(k + 1) \div 2])[2 - (k % 2)] \in Chars
  <2>1. (k + 1) \div 2 \in 1 .. Len(m) /\ 2 - (k % 2) \in {1, 2}
    BY <1>1
  <2>2. m[(k + 1) \div 2] \in Chars
    BY <1>1, <2>1
  <2> QED BY <2>1, <2>2, HexFacts
<1>3. 2 * Len(m) \in Nat
  BY <1>1
<1> QED BY <1>2, <1>3 DEF format_hex

\* A byte is shown as itself or as an escape.
LEMMA ViewOfFacts ==
    ASSUME NEW c \in Chars
    PROVE  /\ ViewOf(c) \in Seq(Chars) /\ Len(ViewOf(c)) \in {1, 4}
           /\ isprint(Spaced(c)) => ViewOf(c) = <<Spaced(c)>>
           /\ ~isprint(Spaced(c)) => ViewOf(c) = Escaped(Spaced(c)) /\ Spaced(c) = c
<1>1. Spaced(c) \in Chars /\ Escaped(c) \in Seq(Chars) /\ Len(Escaped(c)) = 4
  BY SpacedFacts, EscapedFacts
<1>2. ~isprint(Spaced(c)) => Spaced(c) = c
  BY DEF Spaced, isprint
<1>3. <<Spaced(c)>> \in Seq(Chars) /\ Len(<<Spaced(c)>>) = 1
  BY <1>1
<1> QED BY <1>1, <1>2, <1>3 DEF ViewOf

LEMMA PiecesFacts ==
    ASSUME NEW m \in Messages
    PROVE  /\ Pieces(m) \in Seq(Seq(Chars)) /\ Len(Pieces(m)) = Len(m)
           /\ \A k \in 1 .. Len(m) : Pieces(m)[k] = ViewOf(m[k])
<1>1. Len(m) \in Nat /\ \A k \in 1 .. Len(m) : m[k] \in Chars
  BY MessageFacts
<1>2. \A k \in 1 .. Len(m) : ViewOf(m[k]) \in Seq(Chars)
  BY <1>1, ViewOfFacts
<1> QED BY <1>1, <1>2 DEF Pieces

\* Shown(m, n) is what the first n bytes of a message look like.
Shown(m, n) == Joins(Pieces(m))[n]

LEMMA ShownFacts ==
    ASSUME NEW m \in Messages
    PROVE  /\ Shown(m, 0) = <<>> /\ Concat(Pieces(m)) = Shown(m, Len(m))
           /\ \A n \in 0 .. Len(m) : Shown(m, n) \in Seq(Chars)
           /\ \A n \in 1 .. Len(m) : Shown(m, n) = Shown(m, n - 1) \o ViewOf(m[n])
<1>1. /\ Pieces(m) \in Seq(Seq(Chars)) /\ Len(Pieces(m)) = Len(m)
      /\ \A k \in 1 .. Len(m) : Pieces(m)[k] = ViewOf(m[k])
  BY PiecesFacts
<1>2. /\ \A n \in 0 .. Len(Pieces(m)) : Joins(Pieces(m))[n] \in Seq(Chars)
      /\ Joins(Pieces(m))[0] = <<>>
      /\ \A n \in 1 .. Len(Pieces(m)) : Joins(Pieces(m))[n] = Joins(Pieces(m))[n - 1] \o Pieces(m)[n]
  BY <1>1, JoinsFacts
<1> QED BY <1>1, <1>2 DEF Shown, Concat

\* Where the view of the n-th byte stands in that of the message.
LEMMA PieceInView ==
    ASSUME NEW m \in Messages, NEW n \in 1 .. Len(m)
    PROVE  LET before == Shown(m, n - 1)
               view   == ViewOf(m[n])
               whole  == Concat(Pieces(m))
           IN  /\ whole \in Seq(Chars)
               /\ Len(before) \in Nat /\ Len(Shown(m, n)) = Len(before) + Len(view)
               /\ Len(Shown(m, n)) <= Len(whole)
               /\ \A j \in 1 .. Len(view) : whole[Len(before) + j] = view[j]
<1> DEFINE parts == Pieces(m)
<1>1. parts \in Seq(Seq(Chars)) /\ Len(parts) = Len(m) /\ parts[n] = ViewOf(m[n])
  BY PiecesFacts
<1> HIDE DEF parts
<1>2. n \in 1 .. Len(parts)
  BY <1>1
<1>3. /\ Concat(parts) \in Seq(Chars) /\ Joins(parts)[n - 1] \in Seq(Chars)
      /\ Len(Joins(parts)[n]) = Len(Joins(parts)[n - 1]) + Len(parts[n])
      /\ Len(Joins(parts)[n]) <= Len(Concat(parts))
      /\ \A j \in 1 .. Len(parts[n]) :
             Concat(parts)[Len(Joins(parts)[n - 1]) + j] = parts[n][j]
  BY <1>1, <1>2, PartInWhole
<1>4. Len(Joins(parts)[n - 1]) \in Nat
  BY <1>3
<1> QED BY <1>1, <1>3, <1>4 DEF parts, Shown
-----------------------------------------------------------------------------
\* In the loop the text is the view of the bytes before msg_pos, and at most four
\* times as long.
InLoop ==
    /\ msg # <<>> /\ ~LooksLikeAddress(msg)
    /\ out = Shown(msg, msg_pos)
    /\ Len(out) <= 4 * msg_pos

IndInv ==
    /\ TypeOK
    /\ stage = "start" => msg_pos = 0 /\ out = <<>>
    /\ stage = "loop"  => InLoop
    /\ ShortMessagesShown
    /\ FullyShown
    /\ RefusedOnlyIfTooLong

LEMMA InitInv == Init => IndInv
<1> SUFFICES ASSUME Init PROVE IndInv
  OBVIOUS
<1>1. Len(msg) \in Nat
  BY MessageFacts DEF Init
<1> QED BY <1>1, LengthAssumption
        DEF Init, IndInv, TypeOK, ShortMessagesShown, FullyShown, RefusedOnlyIfTooLong

LEMMA ShowInv ==
    ASSUME IndInv, More, Show(ViewOf(msg[msg_pos + 1]))
    PROVE  IndInv'
<1> DEFINE view == ViewOf(msg[msg_pos + 1])
           n == msg_pos + 1
<1>1. /\ out \in Seq(Chars) /\ Len(out) \in Nat /\ OutLen \in Nat
      /\ msg \in Messages /\ Len(msg) \in Nat /\ msg_pos \in Nat /\ msg_pos < Len(msg)
      /\ Len(out) <= 4 * msg_pos /\ stage = "loop"
  BY LengthAssumption, MessageFacts DEF IndInv, InLoop, TypeOK, Show, More, Chars
<1>2. n \in 1 .. Len(msg) /\ n - 1 = msg_pos
  BY <1>1
<1>3. view \in Seq(Chars) /\ Len(view) \in Nat /\ Len(view) <= 4
  <2>1. msg[n] \in Chars
    BY <1>1, <1>2, MessageFacts
  <2>2. view \in Seq(Chars) /\ Len(view) \in {1, 4}
    BY <2>1, ViewOfFacts
  <2>3. \A len \in {1, 4} : len \in Nat /\ len <= 4
    OBVIOUS
  <2> HIDE DEF view
  <2> QED BY <2>2, <2>3
<1>4. /\ out' = out \o view /\ msg_pos' = n /\ UNCHANGED <<msg, stage>>
      /\ Len(out) + Len(view) <= OutLen - 1
  BY DEF Show, Room
<1>5. out' = Shown(msg, n)
  <2>1. out = Shown(msg, n - 1)
    BY <1>1, <1>2 DEF IndInv, InLoop
  <2> QED BY <1>1, <1>2, <1>4, <2>1, ShownFacts
<1>6. msg # <<>> /\ ~LooksLikeAddress(msg)
  BY <1>1 DEF IndInv, InLoop
<1> HIDE DEF view
<1>7. out' \in Seq(Chars) /\ Len(out') = Len(out) + Len(view)
  BY <1>1, <1>3, <1>4, Joined
<1>8. Len(out') < OutLen /\ Len(out') <= 4 * msg_pos'
  BY <1>1, <1>3, <1>4, <1>7
<1>9. TypeOK'
  BY <1>1, <1>2, <1>4, <1>7, <1>8 DEF TypeOK, Chars
<1>10. InLoop'
  BY <1>4, <1>5, <1>6, <1>8 DEF InLoop, LooksLikeAddress
<1> QED BY <1>1, <1>4, <1>9, <1>10
        DEF IndInv, ShortMessagesShown, FullyShown, RefusedOnlyIfTooLong

LEMMA ShowAddressInv ==
    ASSUME IndInv, ShowAddress
    PROVE  IndInv'
<1>1. /\ out' = <<48, 120>> \o format_hex(msg) /\ stage' = "shown" /\ UNCHANGED <<msg, msg_pos>>
      /\ msg \in Messages /\ Len(msg) = EthLen /\ OutLen >= 2 * EthLen + 3
  BY DEF IndInv, TypeOK, ShowAddress, LooksLikeAddress
<1>2. <<48, 120>> \in Seq(Chars) /\ Len(<<48, 120>>) = 2
  BY DEF Chars
<1>3. format_hex(msg) \in Seq(Chars) /\ Len(format_hex(msg)) = 2 * EthLen
  BY <1>1, FormatFacts
<1>4. FullyShown'
  <2>1. LooksLikeAddress(msg) /\ msg' = msg
    BY <1>1 DEF ShowAddress
  <2>2. View(msg) = <<48, 120>> \o format_hex(msg) /\ View(msg)' = View(msg)
    BY <2>1 DEF View, LooksLikeAddress
  <2> QED BY <1>1, <2>2 DEF FullyShown
<1> HIDE DEF Chars
<1>5. out' \in Seq(Chars) /\ Len(out') = 2 + 2 * EthLen
  BY <1>1, <1>2, <1>3, LengthAssumption
<1>6. Len(out') < OutLen
  BY <1>1, <1>5, LengthAssumption
<1> QED BY <1>1, <1>4, <1>5, <1>6
        DEF IndInv, TypeOK, ShortMessagesShown, RefusedOnlyIfTooLong, Chars

\* The loop ends where the next character has no room, or at the last byte.
LEMMA FinishInv ==
    ASSUME IndInv, Finish
    PROVE  IndInv'
<1>1. /\ TypeOK /\ msg \in Messages /\ Len(msg) \in Nat /\ msg_pos \in 0 .. Len(msg)
      /\ Len(out) \in Nat /\ Len(out) <= 4 * msg_pos /\ OutLen \in Nat /\ Len(out) < OutLen
      /\ ~LooksLikeAddress(msg) /\ out = Shown(msg, msg_pos)
  BY LengthAssumption, MessageFacts DEF IndInv, InLoop, TypeOK, Finish
<1>2. UNCHANGED <<msg, msg_pos, out>> /\ stage' = IF Complete THEN "shown" ELSE "parsing_fail"
  BY DEF Finish
<1>3. View(msg) = Concat(Pieces(msg)) /\ View(msg)' = View(msg)
  BY <1>1, <1>2 DEF View
<1>4. TypeOK'
  BY <1>1, <1>2 DEF TypeOK
<1>5. ASSUME stage' = "shown" PROVE out = View(msg)
  <2>1. msg_pos = Len(msg)
    BY <1>1, <1>2, <1>5 DEF Complete, More
  <2> QED BY <1>1, <1>3, <2>1, ShownFacts
<1>6. ASSUME stage' = "parsing_fail" PROVE 4 * Len(msg) >= OutLen /\ Len(View(msg)) >= OutLen
  <2> DEFINE n == msg_pos + 1
             view == ViewOf(msg[n])
  <2>1. More /\ n \in 1 .. Len(msg) /\ n - 1 = msg_pos
    BY <1>1, <1>2, <1>6 DEF Complete, More
  <2>2. Char = Spaced(msg[n]) /\ msg[n] \in Chars
    BY <1>1, <2>1, MessageFacts DEF Char
  <2>3. Len(view) = IF isprint(Char) THEN 1 ELSE 4
    <3>1. isprint(Char) => Len(view) = 1
      BY <2>2, ViewOfFacts
    <3>2. ~isprint(Char) => Len(view) = 4
      BY <2>2, ViewOfFacts, SpacedFacts, EscapedFacts
    <3> QED BY <3>1, <3>2
  <2>4. Len(out) + Len(view) > OutLen - 1 /\ Len(view) \in Nat /\ Len(view) <= 4
    <3>1. ~Room(Len(view))
      BY <2>1, <2>3 DEF Finish
    <3> QED BY <1>1, <2>3, <3>1 DEF Room
  <2>5. /\ Len(Shown(msg, n)) = Len(out) + Len(view) /\ Len(Shown(msg, n)) <= Len(View(msg))
        /\ View(msg) \in Seq(Chars)
    BY <1>1, <1>3, <2>1, PieceInView
  <2>6. Len(View(msg)) \in Nat
    BY <2>5
  <2> HIDE DEF view
  <2> QED BY <1>1, <2>1, <2>4, <2>5, <2>6
<1> QED BY <1>2, <1>3, <1>4, <1>5, <1>6
        DEF IndInv, ShortMessagesShown, FullyShown, RefusedOnlyIfTooLong

LEMMA StepInv == IndInv /\ [Next]_vars => IndInv'
<1> SUFFICES ASSUME IndInv, [Next]_vars PROVE IndInv'
  OBVIOUS
<1>1. CASE FailAddress
  BY <1>1 DEF IndInv, TypeOK, ShortMessagesShown, FullyShown, RefusedOnlyIfTooLong, FailAddress
<1>2. CASE RefuseEmpty
  BY <1>2 DEF IndInv, TypeOK, ShortMessagesShown, FullyShown, RefusedOnlyIfTooLong, RefuseEmpty
<1>3. CASE ShowAddress
  BY <1>3, ShowAddressInv
<1>4. CASE EnterLoop
  <2>1. Len(<<>>) <= 4 * 0
    OBVIOUS
  <2>2. Shown(msg, 0) = <<>>
    BY ShownFacts DEF IndInv, TypeOK
  <2>3. InLoop'
    BY <1>4, <2>1, <2>2 DEF IndInv, InLoop, LooksLikeAddress, EnterLoop
  <2> QED BY <1>4, <2>3
          DEF IndInv, TypeOK, ShortMessagesShown, FullyShown, RefusedOnlyIfTooLong, EnterLoop
<1>5. ASSUME More PROVE msg[msg_pos + 1] \in Chars /\ Char = Spaced(msg[msg_pos + 1])
  <2>1. msg \in Messages /\ msg_pos + 1 \in 1 .. Len(msg)
    BY <1>5, MessageFacts DEF IndInv, TypeOK, More
  <2> QED BY <2>1, MessageFacts DEF Char
<1>6. CASE ShowChar
  <2>1. More /\ isprint(Char) /\ Show(<<Char>>)
    BY <1>6 DEF ShowChar
  <2>2. <<Char>> = ViewOf(msg[msg_pos + 1])
    BY <1>5, <2>1, ViewOfFacts
  <2> QED BY <2>1, <2>2, ShowInv
<1>7. CASE ShowEscaped
  <2>1. More /\ ~isprint(Char) /\ Show(Escaped(Char))
    BY <1>7 DEF ShowEscaped
  <2>2. Escaped(Char) = ViewOf(msg[msg_pos + 1])
    BY <1>5, <2>1, ViewOfFacts
  <2> QED BY <2>1, <2>2, ShowInv
<1>8. CASE Finish
  BY <1>8, FinishInv
<1>9. CASE UNCHANGED vars
  <2>1. View(msg)' = View(msg) /\ InLoop' = InLoop
    BY <1>9 DEF vars, View, InLoop, LooksLikeAddress
  <2> QED BY <1>9, <2>1
          DEF vars, IndInv, TypeOK, ShortMessagesShown, FullyShown, RefusedOnlyIfTooLong
<1> QED BY <1>1, <1>2, <1>3, <1>4, <1>6, <1>7, <1>8, <1>9 DEF Next
-----------------------------------------------------------------------------
(* The text is a code: it can be taken apart from its front.               *)

LEMMA HexIdentifies ==
    ASSUME NEW c \in Chars, NEW d \in Chars, Hex(c)[1] = Hex(d)[1], Hex(c)[2] = Hex(d)[2]
    PROVE  c = d
<1> DEFINE cq == c \div 16
           cr == c % 16
           dq == d \div 16
           dr == d % 16
<1>1. cq \in 0 .. 15 /\ cr \in 0 .. 15 /\ c = 16 * cq + cr
  BY DEF Chars
<1>2. dq \in 0 .. 15 /\ dr \in 0 .. 15 /\ d = 16 * dq + dr
  BY DEF Chars
<1>3. hex_digits(cq) = hex_digits(dq) /\ hex_digits(cr) = hex_digits(dr)
  BY DEF Hex
<1>4. \A a, b \in 0 .. 15 : hex_digits(a) = hex_digits(b) => a = b
  BY DEF hex_digits
<1> HIDE DEF cq, cr, dq, dr
<1>5. cq = dq /\ cr = dr
  BY <1>1, <1>2, <1>3, <1>4
<1> QED BY <1>1, <1>2, <1>5

LEMMA EscapedAt ==
    ASSUME NEW c \in Chars
    PROVE  Escaped(c)[1] = 92 /\ Escaped(c)[3] = Hex(c)[1] /\ Escaped(c)[4] = Hex(c)[2]
<1> DEFINE prefix == <<92, 120>>
           digits == Hex(c)
<1>1. prefix \in Seq(Chars) /\ Len(prefix) = 2 /\ prefix[1] = 92
  BY DEF Chars
<1>2. digits \in Seq(Chars) /\ Len(digits) = 2
  BY HexFacts
<1>3. Escaped(c) = prefix \o digits
  BY DEF Escaped
<1> HIDE DEF prefix, digits, Chars
<1>4. Behind(Escaped(c), prefix, digits)
  BY <1>1, <1>2, <1>3, JoinedBehind
<1>5. Escaped(c)[1] = prefix[1] /\ \A j \in 1 .. 2 : Escaped(c)[2 + j] = digits[j]
  BY <1>1, <1>2, <1>4, BehindTwo
<1> QED BY <1>1, <1>5 DEF digits

\* The first characters of a text tell which byte they show, if it is no backslash.
LEMMA PieceIdentifies ==
    ASSUME NEW c \in Chars, NEW d \in Chars, c # 92, d # 92,
           \A j \in 1 .. Len(ViewOf(c)) :
               j \in 1 .. Len(ViewOf(d)) => ViewOf(c)[j] = ViewOf(d)[j]
    PROVE  Spaced(c) = Spaced(d) /\ ViewOf(c) = ViewOf(d)
<1>1. Spaced(c) # 92 /\ Spaced(d) # 92
  BY DEF Spaced
<1>2. Len(ViewOf(c)) \in {1, 4} /\ Len(ViewOf(d)) \in {1, 4}
  BY ViewOfFacts
<1>3. ViewOf(c)[1] = ViewOf(d)[1]
  BY <1>2
<1>4. isprint(Spaced(c)) => ViewOf(c) = <<Spaced(c)>> /\ ViewOf(c)[1] = Spaced(c)
  BY ViewOfFacts
<1>5. isprint(Spaced(d)) => ViewOf(d) = <<Spaced(d)>> /\ ViewOf(d)[1] = Spaced(d)
  BY ViewOfFacts
<1>6. ~isprint(Spaced(c)) => ViewOf(c) = Escaped(c) /\ ViewOf(c)[1] = 92
  BY ViewOfFacts, EscapedAt
<1>7. ~isprint(Spaced(d)) => ViewOf(d) = Escaped(d) /\ ViewOf(d)[1] = 92
  BY ViewOfFacts, EscapedAt
<1>8. CASE isprint(Spaced(c))
  BY <1>1, <1>3, <1>4, <1>5, <1>7, <1>8
<1>9. CASE ~isprint(Spaced(c))
  <2>1. ~isprint(Spaced(d))
    BY <1>1, <1>3, <1>5, <1>6, <1>9
  <2>2. Len(ViewOf(c)) = 4 /\ Len(ViewOf(d)) = 4
    BY <1>6, <1>7, <1>9, <2>1, EscapedFacts
  <2>3. Escaped(c)[3] = Escaped(d)[3] /\ Escaped(c)[4] = Escaped(d)[4]
    BY <1>6, <1>7, <1>9, <2>1, <2>2
  <2>4. c = d
    BY <2>3, EscapedAt, HexIdentifies
  <2> QED BY <2>4
<1> QED BY <1>8, <1>9

NoBackslash(m) == \A k \in 1 .. Len(m) : m[k] # 92

\* Two messages with the same text agree as far as the shorter one goes.
LEMMA SameSoFar ==
    ASSUME NEW m \in Messages, NEW n \in Messages, NoBackslash(m), NoBackslash(n),
           Concat(Pieces(m)) = Concat(Pieces(n)),
           NEW L \in Nat, L <= Len(m), L <= Len(n)
    PROVE  /\ \A k \in 0 .. L : Shown(m, k) = Shown(n, k)
           /\ \A k \in 1 .. L : Spaced(m[k]) = Spaced(n[k])
<1> DEFINE Agree(k) == k \in 1 .. L => Spaced(m[k]) = Spaced(n[k])
           T == {k \in 0 .. L : Shown(m, k) = Shown(n, k) /\ Agree(k)}
<1>0. Len(m) \in Nat /\ Len(n) \in Nat
  BY MessageFacts
<1>1. 0 \in T
  BY ShownFacts
<1>2. ASSUME NEW k \in 1 .. L, k - 1 \in T PROVE k \in T
  <2> DEFINE c == m[k]
             d == n[k]
             at == Len(Shown(m, k - 1))
             whole == Concat(Pieces(m))
  <2>1. k \in 1 .. Len(m) /\ k \in 1 .. Len(n) /\ k \in 0 .. L
    BY <1>0
  <2>2. c \in Chars /\ d \in Chars /\ c # 92 /\ d # 92
    BY <2>1, MessageFacts DEF NoBackslash
  <2>3. Shown(m, k - 1) = Shown(n, k - 1)
    BY <1>2
  <2>4. \A j \in 1 .. Len(ViewOf(c)) : whole[at + j] = ViewOf(c)[j]
    BY <2>1, PieceInView
  <2>5. \A j \in 1 .. Len(ViewOf(d)) : whole[at + j] = ViewOf(d)[j]
    <3>1. \A j \in 1 .. Len(ViewOf(d)) : Concat(Pieces(n))[Len(Shown(n, k - 1)) + j] = ViewOf(d)[j]
      BY <2>1, PieceInView
    <3> QED BY <2>3, <3>1
  <2>6. Spaced(c) = Spaced(d) /\ ViewOf(c) = ViewOf(d)
    <3>1. \A j \in 1 .. Len(ViewOf(c)) : j \in 1 .. Len(ViewOf(d)) => ViewOf(c)[j] = ViewOf(d)[j]
      <4> HIDE DEF c, d, at, whole
      <4> QED BY <2>4, <2>5
    <3> HIDE DEF c, d
    <3> QED BY <2>2, <3>1, PieceIdentifies
  <2>7. Shown(m, k) = Shown(m, k - 1) \o ViewOf(c) /\ Shown(n, k) = Shown(n, k - 1) \o ViewOf(d)
    BY <2>1, ShownFacts
  <2> QED BY <2>1, <2>3, <2>6, <2>7
<1>3. \A k \in 0 .. L : k \in T
  <2> HIDE DEF T
  <2> QED BY <1>1, <1>2, BoundedInduction
<1>4. \A k \in 1 .. L : k \in 0 .. L
  OBVIOUS
<1> QED BY <1>3, <1>4

\* None of them goes further.
LEMMA NoLonger ==
    ASSUME NEW m \in Messages, NEW n \in Messages, NoBackslash(m), NoBackslash(n),
           Concat(Pieces(m)) = Concat(Pieces(n))
    PROVE  Len(n) <= Len(m)
<1> SUFFICES ASSUME Len(m) < Len(n) PROVE FALSE
  BY MessageFacts
<1> DEFINE L == Len(m)
<1>1. L \in Nat /\ L <= Len(m) /\ L <= Len(n) /\ L + 1 \in 1 .. Len(n) /\ (L + 1) - 1 = L
  BY MessageFacts
<1>2. Shown(n, L) = Shown(m, L)
  <2>1. L \in 0 .. L
    BY <1>1
  <2> HIDE DEF L
  <2> QED BY <1>1, <2>1, SameSoFar
<1>3. Shown(n, L) = Concat(Pieces(n))
  BY <1>2, ShownFacts
<1>4. /\ Len(Shown(n, L)) \in Nat
      /\ Len(Shown(n, L + 1)) = Len(Shown(n, L)) + Len(ViewOf(n[L + 1]))
      /\ Len(Shown(n, L + 1)) <= Len(Concat(Pieces(n)))
  <2> HIDE DEF L
  <2> QED BY <1>1, PieceInView
<1>5. Len(ViewOf(n[L + 1])) \in {1, 4}
  BY <1>1, MessageFacts, ViewOfFacts
<1> DEFINE a == Len(Shown(n, L))
           b == Len(ViewOf(n[L + 1]))
           c == Len(Shown(n, L + 1))
<1>6. a \in Nat /\ b \in {1, 4} /\ c = a + b /\ c <= a
  BY <1>3, <1>4, <1>5
<1> HIDE DEF a, b, c
<1> QED BY <1>6

LEMMA PiecesIdentify ==
    ASSUME NEW m \in Messages, NEW n \in Messages, NoBackslash(m), NoBackslash(n),
           Concat(Pieces(m)) = Concat(Pieces(n))
    PROVE  SameUpToSpaces(m, n)
<1>1. Len(m) \in Nat /\ Len(n) \in Nat
  BY MessageFacts
<1>2. Len(n) <= Len(m) /\ Len(m) <= Len(n)
  BY NoLonger
<1>3. Len(m) = Len(n)
  BY <1>1, <1>2
<1>4. \A k \in 1 .. Len(m) : Spaced(m[k]) = Spaced(n[k])
  BY <1>1, <1>2, SameSoFar
<1> QED BY <1>3, <1>4 DEF SameUpToSpaces

AddressText(m) == <<48, 120>> \o format_hex(m)

LEMMA AddressTextAt ==
    ASSUME NEW m \in Messages
    PROVE  /\ Len(AddressText(m)) = 2 + 2 * Len(m)
           /\ AddressText(m)[1] = 48 /\ AddressText(m)[2] = 120
           /\ \A k \in 1 .. 2 * Len(m) : AddressText(m)[2 + k] = format_hex(m)[k]
<1> DEFINE prefix == <<48, 120>>
           digits == format_hex(m)
<1>1. prefix \in Seq(Chars) /\ Len(prefix) = 2 /\ prefix[1] = 48 /\ prefix[2] = 120
  BY DEF Chars
<1>2. digits \in Seq(Chars) /\ Len(digits) = 2 * Len(m)
  BY FormatFacts
<1>3. AddressText(m) = prefix \o digits
  BY DEF AddressText
<1> HIDE DEF prefix, digits, Chars
<1> DEFINE text == AddressText(m)
<1>4. Behind(text, prefix, digits)
  BY <1>1, <1>2, <1>3, JoinedBehind
<1>5. Len(digits) \in Nat
  BY <1>2
<1> HIDE DEF text
<1>6. /\ Len(text) = 2 + Len(digits) /\ text[1] = prefix[1] /\ text[2] = prefix[2]
      /\ \A j \in 1 .. Len(digits) : text[2 + j] = digits[j]
  BY <1>1, <1>4, <1>5, BehindTwo
<1> QED BY <1>1, <1>2, <1>6 DEF digits, text

\* Two addresses with the same text are the same.
LEMMA AddressesIdentify ==
    ASSUME NEW m \in Messages, NEW n \in Messages, Len(m) = Len(n), AddressText(m) = AddressText(n)
    PROVE  SameUpToSpaces(m, n)
<1>0. Len(m) \in Nat
  BY MessageFacts
<1>1. ASSUME NEW k \in 1 .. Len(m) PROVE m[k] = n[k]
  <2>1. m[k] \in Chars /\ n[k] \in Chars
    BY <1>1, MessageFacts
  <2> DEFINE a == 2 * k - 1
             b == 2 * k
  <2>2. /\ a \in 1 .. 2 * Len(m) /\ (a + 1) \div 2 = k /\ 2 - (a % 2) = 1
        /\ b \in 1 .. 2 * Len(m) /\ (b + 1) \div 2 = k /\ 2 - (b % 2) = 2
    BY <1>0
  <2> HIDE DEF a, b
  <2>3. format_hex(m)[a] = format_hex(n)[a] /\ format_hex(m)[b] = format_hex(n)[b]
    <3>1. \A j \in 1 .. 2 * Len(m) : AddressText(m)[2 + j] = format_hex(m)[j]
      BY AddressTextAt
    <3>2. \A j \in 1 .. 2 * Len(n) : AddressText(n)[2 + j] = format_hex(n)[j]
      BY AddressTextAt
    <3>3. a \in 1 .. 2 * Len(n) /\ b \in 1 .. 2 * Len(n)
      BY <2>2
    <3> QED BY <2>2, <3>1, <3>2, <3>3
  <2>4. format_hex(m)[a] = Hex(m[k])[1] /\ format_hex(m)[b] = Hex(m[k])[2]
    BY <2>2 DEF format_hex
  <2>5. format_hex(n)[a] = Hex(n[k])[1] /\ format_hex(n)[b] = Hex(n[k])[2]
    BY <2>2 DEF format_hex
  <2> QED BY <2>1, <2>3, <2>4, <2>5, HexIdentifies
<1> QED BY <1>1 DEF SameUpToSpaces

\* The text of a message that does not start with 0x is not that of an address.
LEMMA AddressStands ==
    ASSUME NEW m \in Messages, NEW n \in Messages, Plain(n)
    PROVE  AddressText(m) # Concat(Pieces(n))
<1> SUFFICES ASSUME AddressText(m) = Concat(Pieces(n)) PROVE FALSE
  OBVIOUS
<1> DEFINE whole == Concat(Pieces(n))
<1>1. Len(m) \in Nat /\ Len(n) \in Nat /\ Shown(n, 0) = <<>> /\ Concat(Pieces(n)) = Shown(n, Len(n))
      /\ n \in Seq(Chars)
  BY MessageFacts, ShownFacts
<1>2. Len(whole) = 2 + 2 * Len(m) /\ whole[1] = 48 /\ whole[2] = 120
  BY AddressTextAt
<1>3. Len(n) # 0
  BY <1>1, <1>2
<1>4. 1 \in 1 .. Len(n) /\ n[1] \in Chars
  BY <1>1, <1>3, MessageFacts
<1>5. /\ Len(Shown(n, 0)) = 0
      /\ Len(Shown(n, 1)) = 0 + Len(ViewOf(n[1]))
      /\ \A j \in 1 .. Len(ViewOf(n[1])) : whole[0 + j] = ViewOf(n[1])[j]
  BY <1>1, <1>4, PieceInView
<1>6. ViewOf(n[1])[1] = 48
  <2>1. Len(ViewOf(n[1])) \in {1, 4}
    BY <1>4, ViewOfFacts
  <2> QED BY <1>2, <1>5, <2>1
<1>7. isprint(Spaced(n[1]))
  BY <1>4, <1>6, ViewOfFacts, EscapedAt
<1>8. n[1] = 48 /\ Len(ViewOf(n[1])) = 1
  <2>1. ViewOf(n[1]) = <<Spaced(n[1])>>
    BY <1>4, <1>7, ViewOfFacts
  <2>2. Spaced(n[1]) = 48
    BY <1>6, <2>1
  <2> QED BY <1>4, <2>1, <2>2 DEF Spaced
<1>9. Len(n) >= 2
  <2>0. Len(n) = 1 \/ Len(n) >= 2
    <3> DEFINE len == Len(n)
    <3>1. len \in Nat /\ len # 0
      BY <1>1, <1>3
    <3> HIDE DEF len
    <3>2. len = 1 \/ len >= 2
      BY <3>1
    <3> QED BY <3>2 DEF len
  <2>1. ASSUME Len(n) = 1 PROVE FALSE
    <3>1. whole = Shown(n, 1)
      BY <1>1, <2>1
    <3>2. Len(whole) = 1
      BY <1>5, <1>8, <3>1
    <3>3. Len(m) \in Nat /\ 1 = 2 + 2 * Len(m)
      BY <1>1, <1>2, <3>2
    <3>4. \A len \in Nat : 1 # 2 + 2 * len
      OBVIOUS
    <3> QED BY <3>3, <3>4
  <2> QED BY <2>0, <2>1
<1>10. 2 \in 1 .. Len(n) /\ n[2] \in Chars
  BY <1>1, <1>9, MessageFacts
<1>11. \A j \in 1 .. Len(ViewOf(n[2])) : whole[1 + j] = ViewOf(n[2])[j]
  <2>1. 2 - 1 = 1 /\ Len(Shown(n, 1)) = 1
    BY <1>5, <1>8
  <2>2. \A j \in 1 .. Len(ViewOf(n[2])) : whole[Len(Shown(n, 2 - 1)) + j] = ViewOf(n[2])[j]
    BY <1>10, PieceInView
  <2> QED BY <2>1, <2>2
<1>12. ViewOf(n[2])[1] = 120
  <2>1. Len(ViewOf(n[2])) \in {1, 4}
    BY <1>10, ViewOfFacts
  <2> QED BY <1>2, <1>11, <2>1
<1>13. isprint(Spaced(n[2]))
  BY <1>10, <1>12, ViewOfFacts, EscapedAt
<1>14. n[2] = 120
  <2>1. Spaced(n[2]) = 120
    BY <1>10, <1>12, <1>13, ViewOfFacts
  <2> QED BY <1>10, <2>1 DEF Spaced
<1>15. SubSeq(n, 1, 2) = <<48, 120>>
  <2>1. SubSeq(n, 1, 2) = [i \in 1 .. 2 |-> n[(1 + i) - 1]]
    BY <1>1, <1>9
  <2>2. \A i \in 1 .. 2 : n[(1 + i) - 1] = <<48, 120>>[i]
    BY <1>8, <1>14
  <2>3. <<48, 120>> = [i \in 1 .. 2 |-> <<48, 120>>[i]]
    OBVIOUS
  <2> QED BY <2>1, <2>2, <2>3
<1> QED BY <1>9, <1>15 DEF Plain

LEMMA ViewsIdentify ==
    ASSUME NEW m \in Messages, NEW n \in Messages, Plain(m), Plain(n), View(m) = View(n)
    PROVE  SameUpToSpaces(m, n)
<1>1. NoBackslash(m) /\ NoBackslash(n)
  BY DEF Plain, NoBackslash
<1>2. CASE LooksLikeAddress(m) /\ LooksLikeAddress(n)
  <2>1. Len(m) = Len(n) /\ AddressText(m) = AddressText(n)
    BY <1>2 DEF LooksLikeAddress, View, AddressText
  <2> QED BY <2>1, AddressesIdentify
<1>3. CASE LooksLikeAddress(m) /\ ~LooksLikeAddress(n)
  BY <1>3, AddressStands DEF View, AddressText
<1>4. CASE ~LooksLikeAddress(m) /\ LooksLikeAddress(n)
  BY <1>4, AddressStands DEF View, AddressText
<1>5. CASE ~LooksLikeAddress(m) /\ ~LooksLikeAddress(n)
  BY <1>1, <1>5, PiecesIdentify DEF View
<1> QED BY <1>2, <1>3, <1>4, <1>5

LEMMA InvIdentifies == IndInv => ViewIdentifies
<1> SUFFICES ASSUME IndInv, stage = "shown", Plain(msg),
                    NEW m \in Messages, Plain(m), Views[m] = out
             PROVE  SameUpToSpaces(m, msg)
  BY DEF ViewIdentifies
<1>1. msg \in Messages /\ out = View(msg)
  BY DEF IndInv, TypeOK, FullyShown
<1>2. View(m) = View(msg)
  BY <1>1 DEF Views
<1> QED BY <1>1, <1>2, ViewsIdentify
-----------------------------------------------------------------------------
(* The theorems.                                                           *)

\* Whatever the message, its text and the terminator stay below the slot of the
\* signer, at every step of make_message_visible.
THEOREM ViewFits == Spec => []TypeOK
<1>1. IndInv => TypeOK
  BY DEF IndInv
<1> QED BY <1>1, InitInv, StepInv, PTL DEF Spec

\* A message is refused for the size of its text only if it is longer than a
\* quarter of the place; with the sizes of the program, never.
THEOREM ShortOnesAreShown == Spec => []ShortMessagesShown
<1>1. IndInv => ShortMessagesShown
  BY DEF IndInv
<1> QED BY <1>1, InitInv, StepInv, PTL DEF Spec

\* A message that is shown is shown from its first byte to its last, and nothing
\* else is: make_message_visible drops no byte and adds none.
THEOREM MessagesShownWhole == Spec => []FullyShown
<1>1. IndInv => FullyShown
  BY DEF IndInv
<1> QED BY <1>1, InitInv, StepInv, PTL DEF Spec

\* No message is refused whose text has room, to the last character.
THEOREM RefusalsAreDue == Spec => []RefusedOnlyIfTooLong
<1>1. IndInv => RefusedOnlyIfTooLong
  BY DEF IndInv
<1> QED BY <1>1, InitInv, StepInv, PTL DEF Spec

\* The user can tell messages apart by their text: escapes, addresses and
\* printable characters cannot be taken for one another.
THEOREM TextsTellMessagesApart == Spec => []ViewIdentifies
  BY InvIdentifies, InitInv, StepInv, PTL DEF Spec
=============================================================================
