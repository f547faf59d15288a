--------------------------- MODULE AmountsProofs ----------------------------
(***************************************************************************)
(* Theorems of Amounts, for words of every size and numbers of every       *)
(* length: format_u128 keeps its numbers within words, divides exactly and *)
(* loses no digit, process_precision puts the point where the token's      *)
(* decimals want it, and what the page shows is the parameter's number.    *)
(*                                                                         *)
(* Neither of the two additions of a division carries, because the         *)
(* remainder of the high word, times the word's size, plus the low word is *)
(* less than ten times the word's size.  From there on the argument is     *)
(* about sums and powers: the digits so far and what is left of the number *)
(* make up the number of the bytes (Midway), and a text spells the same    *)
(* number with a point among its digits, zeros in front of them or, with   *)
(* its places accounted for, zeros cut off behind them (PlacedSpells).     *)
(***************************************************************************)
EXTENDS Amounts, CommonProofs, TLAPS

Word == 0 .. UINT64 - 1

-----------------------------------------------------------------------------
(* Arithmetic.                                                             *)

\* The word's size is a number, and P64_Q and P64_R are a tenth of it.
LEMMA WordSize ==
    /\ UINT64 \in Nat /\ UINT64 > 0
    /\ P64_Q \in Nat /\ P64_R \in 0 .. 9
    /\ UINT64 = 10 * P64_Q + P64_R
BY WordAssumption, QuotientAssumption

\* The remainder of a number that is less than the divisor.
LEMMA SmallRemainder ==
    ASSUME NEW n \in Nat, NEW d \in Nat, n < d
    PROVE  n % d = n
<1> DEFINE k == n \div d
           r == n % d
<1>1. k \in Int /\ r \in Int /\ r >= 0 /\ r < d
  OBVIOUS
<1>2. n = d * k + r
  OBVIOUS
<1> HIDE DEF k, r
<1>3. CASE k >= 1
  <2>1. d * k >= d
    BY <1>1, <1>3
  <2>2. d * k \in Int
    BY <1>1
  <2>3. QED
    BY <1>1, <1>2, <2>1, <2>2
<1>4. CASE k <= -1
  <2>1. d * k <= -d
    BY <1>1, <1>4
  <2>2. d * k \in Int
    BY <1>1
  <2>3. QED
    BY <1>1, <1>2, <2>1, <2>2
<1>5. CASE k = 0
  BY <1>1, <1>2, <1>5 DEF r
<1>6. QED
  BY <1>1, <1>3, <1>4, <1>5

\* Ten divides any number into a quotient and a digit.
LEMMA Tenths ==
    ASSUME NEW n \in Nat
    PROVE  /\ n \div 10 \in Nat /\ n % 10 \in 0 .. 9
           /\ n = 10 * (n \div 10) + (n % 10)
OBVIOUS

\* A remainder times the word's size is ten times its part of the quotient and
\* its part of the rest.
LEMMA RemainderParts ==
    ASSUME NEW r \in 0 .. 9
    PROVE  /\ r * P64_Q \in Nat /\ r * P64_R \in 0 .. 81 /\ r * UINT64 \in Nat
           /\ r * UINT64 = 10 * (r * P64_Q) + r * P64_R
           /\ r * UINT64 <= 9 * UINT64
<1>1. r = 0 \/ r = 1 \/ r = 2 \/ r = 3 \/ r = 4 \/ r = 5 \/ r = 6 \/ r = 7 \/ r = 8 \/ r = 9
  OBVIOUS
<1>2. QED
  BY <1>1, WordSize

\* What a division computes, without any carry.
LEMMA NoCarry ==
    ASSUME high \in Word, low \in Word
    PROVE  /\ Rest \in Nat /\ Carries = 0 /\ SecondSum \in Word
           /\ (high % 10) * UINT64 + low = 10 * SecondSum + (Rest % 10)
<1> DEFINE r   == high % 10
           q   == r * P64_Q
           p   == r * P64_R
           w   == r * UINT64
           lq  == low \div 10
           lr  == low % 10
           one == q + lq
           two == one + ((p + lr) \div 10)
<1>1. /\ high \in Nat /\ low \in Nat /\ low < UINT64
  BY WordSize DEF Word
<1>2. /\ r \in 0 .. 9 /\ lq \in Nat /\ lr \in 0 .. 9 /\ low = 10 * lq + lr
  BY <1>1, Tenths
<1>3. /\ q \in Nat /\ p \in 0 .. 81 /\ w \in Nat /\ w = 10 * q + p /\ w <= 9 * UINT64
  BY <1>2, RemainderParts
<1>4. /\ high_part_q = q /\ Rest = p + lr
  BY DEF high_part_q, Rest
<1>5. FirstSum = one % UINT64
  BY <1>4 DEF FirstSum
<1> HIDE DEF r, q, p, w, lq, lr
<1>6. /\ p + lr \in Nat /\ (p + lr) \div 10 \in Nat
      /\ p + lr = 10 * ((p + lr) \div 10) + ((p + lr) % 10) /\ (p + lr) % 10 \in 0 .. 9
  BY <1>2, <1>3, Tenths
<1>7. /\ one \in Nat /\ two \in Nat /\ one <= two
      /\ w + low = 10 * two + ((p + lr) % 10)
  BY <1>2, <1>3, <1>6
<1>8. two < UINT64
  BY <1>1, <1>3, <1>6, <1>7, WordSize
<1>9. one % UINT64 = one /\ two % UINT64 = two
  <2>1. one < UINT64
    BY <1>7, <1>8, WordSize
  <2>2. QED
    BY <2>1, <1>7, <1>8, WordSize, SmallRemainder
<1>10. FirstSum = one /\ SecondSum = two
  BY <1>4, <1>5, <1>9 DEF SecondSum
<1>11. ~(FirstSum < lq) /\ ~(SecondSum < (p + lr) \div 10)
  BY <1>2, <1>3, <1>6, <1>10
<1>12. Carries = 0
  BY <1>4, <1>11 DEF Carries, lq
<1>13. QED
  BY <1>4, <1>6, <1>7, <1>8, <1>10, <1>12, WordSize DEF Word, w, r
-----------------------------------------------------------------------------
(* Powers of the two bases.                                                *)

LEMMA PowerOf256 ==
    ASSUME NEW n \in Nat
    PROVE  /\ Power(256, 0) = 1 /\ Power(256, n) \in Nat /\ Power(256, n) >= 1
           /\ Power(256, n + 1) = 256 * Power(256, n)
           /\ \A m \in Nat : Power(256, m + n) = Power(256, m) * Power(256, n)
           /\ \A m \in Nat : m <= n => Power(256, m) <= Power(256, n)
  BY PowersOf

LEMMA PowerOf10 ==
    ASSUME NEW n \in Nat
    PROVE  /\ Power(10, 0) = 1 /\ Power(10, n) \in Nat /\ Power(10, n) >= 1
           /\ Power(10, n + 1) = 10 * Power(10, n)
           /\ \A m \in Nat : Power(10, m + n) = Power(10, m) * Power(10, n)
           /\ \A m \in Nat : m <= n => Power(10, m) <= Power(10, n)
  BY PowersOf

LEMMA PowerZero == Power(256, 0) = 1 /\ Power(10, 0) = 1
<1>1. 0 \in Nat
  OBVIOUS
<1> QED BY <1>1, PowerOf256, PowerOf10
-----------------------------------------------------------------------------
(* Bytes as numbers.                                                       *)

\* Bytes spell a number of so many bytes.
LEMMA LittleEndianBound ==
    ASSUME NEW bytes \in Seq(Bytes)
    PROVE  LittleEndian(bytes) \in Nat /\ LittleEndian(bytes) < Power(256, Len(bytes))
<1> DEFINE base == 256
<1>1. base \in Nat /\ base # 0 /\ Bytes = 0 .. base - 1
  BY DEF Bytes
<1> HIDE DEF base
<1>2. Worth(base, bytes) \in Nat /\ Worth(base, bytes) < Power(base, Len(bytes))
  BY <1>1, WorthBound
<1> QED BY <1>2 DEF LittleEndian, base

LEMMA ShortIsWord ==
    ASSUME NEW bytes \in Seq(Bytes), Len(bytes) <= U64
    PROVE  LittleEndian(bytes) \in Word
<1>1. Len(bytes) \in Nat /\ U64 \in Nat /\ UINT64 = Power(256, U64) /\ UINT64 \in Nat
  BY WordAssumption
<1>2. Power(256, Len(bytes)) <= Power(256, U64) /\ Power(256, Len(bytes)) \in Nat
  BY <1>1, PowerOf256
<1>3. LittleEndian(bytes) \in Nat /\ LittleEndian(bytes) < Power(256, Len(bytes))
  BY LittleEndianBound
<1> QED BY <1>1, <1>2, <1>3 DEF Word

\* Bytes behind others count for more.
LEMMA LittleEndianSplit ==
    ASSUME NEW whole \in Seq(Bytes), NEW front \in Seq(Bytes), NEW back \in Seq(Bytes),
           Behind(whole, front, back)
    PROVE  LittleEndian(whole) = LittleEndian(front) + Power(256, Len(front)) * LittleEndian(back)
<1> DEFINE base == 256
<1>1. base \in Nat /\ base # 0 /\ Bytes = 0 .. base - 1
  BY DEF Bytes
<1> HIDE DEF base
<1>2. Worth(base, whole) = Worth(base, front) + Power(base, Len(front)) * Worth(base, back)
  BY <1>1, WorthSplit
<1> QED BY <1>2 DEF LittleEndian, base

\* Up to twice as many bytes as a word has spell two words.
LEMMA TwoWords ==
    ASSUME NEW data \in Seq(Bytes), NEW s \in Nat,
           s + U64 < Len(data), Len(data) <= s + 2 * U64
    PROVE  LET front == LittleEndian(SubSeq(data, s + 1, s + U64))
               back  == LittleEndian(SubSeq(data, s + U64 + 1, Len(data)))
           IN  /\ front \in Word /\ back \in Word
               /\ LittleEndian(SubSeq(data, s + 1, Len(data))) = front + UINT64 * back
<1> DEFINE whole == SubSeq(data, s + 1, Len(data))
           front == SubSeq(data, s + 1, s + U64)
           back  == SubSeq(data, s + U64 + 1, Len(data))
<1>1. U64 \in Nat /\ Len(data) \in Nat /\ UINT64 = Power(256, U64)
  BY WordAssumption
<1>2. /\ whole \in Seq(Bytes) /\ Len(whole) = Len(data) - s
      /\ \A j \in 1 .. Len(whole) : whole[j] = data[s + j]
  BY <1>1
<1>3. /\ front \in Seq(Bytes) /\ Len(front) = U64
      /\ \A j \in 1 .. Len(front) : front[j] = data[s + j]
  BY <1>1
<1>4. /\ back \in Seq(Bytes) /\ Len(back) = Len(data) - (s + U64)
      /\ \A j \in 1 .. Len(back) : back[j] = data[(s + U64) + j]
  BY <1>1
<1> HIDE DEF whole, front, back
<1>5. Behind(whole, front, back)
  <2>1. Len(whole) = Len(front) + Len(back)
    BY <1>1, <1>2, <1>3, <1>4
  <2>2. \A j \in 1 .. Len(front) : whole[j] = front[j]
    BY <1>1, <1>2, <1>3
  <2>3. \A j \in 1 .. Len(back) : whole[Len(front) + j] = back[j]
    <3>1. ASSUME NEW j \in 1 .. Len(back) PROVE whole[Len(front) + j] = back[j]
      <4>1. U64 + j \in 1 .. Len(whole) /\ s + (U64 + j) = (s + U64) + j
        BY <1>1, <1>2, <1>4
      <4>2. whole[U64 + j] = data[s + (U64 + j)]
        BY <1>2, <4>1
      <4> QED BY <1>3, <1>4, <4>1, <4>2
    <3> QED BY <3>1
  <2> QED BY <2>1, <2>2, <2>3 DEF Behind
<1>6. Len(front) <= U64 /\ Len(back) <= U64
  BY <1>1, <1>3, <1>4
<1>7. LittleEndian(front) \in Word /\ LittleEndian(back) \in Word
  BY <1>3, <1>4, <1>6, ShortIsWord
<1>8. LittleEndian(whole) = LittleEndian(front) + UINT64 * LittleEndian(back)
  BY <1>1, <1>2, <1>3, <1>4, <1>5, LittleEndianSplit
<1> QED BY <1>7, <1>8 DEF whole, front, back

LEMMA WordHolds256 == UINT64 \in Nat /\ UINT64 >= 256
<1>1. U64 \in Nat /\ 1 <= U64 /\ UINT64 = Power(256, U64) /\ UINT64 \in Nat
  BY WordAssumption
<1>2. Power(256, 1) = 256
  <2>1. Power(256, 0 + 1) = 256 * Power(256, 0) /\ Power(256, 0) = 1
    <3>1. 0 \in Nat
      OBVIOUS
    <3> QED BY <3>1, PowerOf256
  <2> QED BY <2>1
<1>3. Power(256, 1) <= Power(256, U64)
  <2>1. 1 \in Nat
    OBVIOUS
  <2> QED BY <1>1, <2>1, PowerOf256
<1> QED BY <1>1, <1>2, <1>3

\* The two words of a parameter make up its number.
LEMMA Converted ==
    ASSUME IsRequest(request)
    PROVE  LET kind == request.kind
               data == request.data
           IN  /\ Low(kind, data) \in Word /\ High(kind, data) \in Word
               /\ High(kind, data) * UINT64 + Low(kind, data) = Number
<1> DEFINE kind == request.kind
           data == request.data
           first == data[1]
           lo == Low(kind, data)
           hi == High(kind, data)
<1>1. data \in Seq(Bytes) /\ Len(data) \in Nat /\ U64 \in Nat /\ 1 <= U64 /\ UINT64 \in Nat
      /\ UINT64 >= 256
  BY WordHolds256, WordAssumption DEF IsRequest
<1>2. CASE kind = "AMOUNT"
  <2>1. data # <<>> /\ AmountStarts(first) /\ Len(data) = AmountLength(first) /\ first \in Bytes
    BY <1>1, <1>2 DEF IsRequest
  <2>2. CASE IsPushNumber(first)
    <3>1. Len(data) = 1 /\ first \in 81 .. 96
      BY <2>1, <2>2 DEF AmountLength, IsPushNumber, OPCODE_PUSH_NUMBER
    <3>2. FitsOneWord(kind, data)
      BY <1>1, <1>2, <3>1 DEF FitsOneWord
    <3>3. hi = 0 /\ lo = first - OPCODE_PUSH_NUMBER /\ Number = first - OPCODE_PUSH_NUMBER
      BY <1>2, <2>2, <3>2 DEF Low, High, AsUint64, Number
    <3> HIDE DEF hi, lo, first
    <3>4. hi = 0 /\ lo = Number /\ lo \in Word
      BY <1>1, <3>1, <3>3 DEF OPCODE_PUSH_NUMBER, Word
    <3> QED BY <1>1, <3>4 DEF hi, lo, Word
  <2>3. CASE ~IsPushNumber(first) /\ Len(data) <= U64 + 1
    <3> DEFINE tail == Tail(data)
    <3>1. FitsOneWord(kind, data)
      BY <1>2, <2>3 DEF FitsOneWord
    <3>2. hi = 0 /\ lo = LittleEndian(tail)
      BY <2>3, <3>1 DEF Low, High, AsUint64
    <3>3. Number = LittleEndian(tail)
      <4>1. Number = LittleEndian(SubSeq(data, 2, Len(data)))
        BY <1>2, <2>3 DEF Number, Skipped
      <4>2. SubSeq(data, 2, Len(data)) = Tail(data)
        BY <1>1, <2>1
      <4> QED BY <4>1, <4>2
    <3>4. tail \in Seq(Bytes) /\ Len(tail) <= U64
      BY <1>1, <2>1, <2>3
    <3> HIDE DEF tail, hi, lo
    <3>5. LittleEndian(tail) \in Word
      BY <3>4, ShortIsWord
    <3>6. 0 \in Word /\ 0 * UINT64 = 0 /\ \A n \in Word : 0 + n = n
      BY <1>1 DEF Word
    <3> QED BY <3>2, <3>3, <3>5, <3>6 DEF hi, lo
  <2>4. CASE ~IsPushNumber(first) /\ ~(Len(data) <= U64 + 1)
    <3>1. ~FitsOneWord(kind, data) /\ Skipped(kind) = 1
      BY <1>2, <2>4 DEF FitsOneWord, Skipped
    <3>2. Len(data) <= 1 + 2 * U64 /\ 1 + U64 < Len(data)
      <4>1. first # 0
        BY <1>1, <2>1, <2>4 DEF AmountLength
      <4>2. Len(data) = first + 1 /\ first <= 2 * U64
        BY <2>1, <2>4, <4>1 DEF AmountLength, AmountStarts
      <4> HIDE DEF first
      <4>3. first \in Nat
        BY <2>1 DEF Bytes
      <4> QED BY <1>1, <2>4, <4>2, <4>3
    <3>3. /\ lo = LittleEndian(SubSeq(data, 1 + 1, 1 + U64))
          /\ hi = LittleEndian(SubSeq(data, 1 + U64 + 1, Len(data)))
          /\ Number = LittleEndian(SubSeq(data, 1 + 1, Len(data)))
      BY <2>4, <3>1 DEF Low, High, LowBytes, HighBytes, Number
    <3>4. lo \in Word /\ hi \in Word /\ Number = lo + UINT64 * hi
      <4>1. 1 \in Nat
        OBVIOUS
      <4> HIDE DEF data, lo, hi
      <4> QED BY <1>1, <3>2, <3>3, <4>1, TwoWords
    <3> HIDE DEF lo, hi
    <3>5. hi * UINT64 + lo = lo + UINT64 * hi
      BY <1>1, <3>4 DEF Word
    <3> QED BY <3>4, <3>5 DEF lo, hi
  <2> QED BY <2>2, <2>3, <2>4
<1>3. CASE kind = "UINT128"
  <2>1. Len(data) = 2 * U64 /\ kind # "AMOUNT"
    BY <1>3 DEF IsRequest
  <2>2. ~FitsOneWord(kind, data) /\ Skipped(kind) = 0
    BY <2>1 DEF FitsOneWord, Skipped
  <2>3. /\ lo = LittleEndian(SubSeq(data, 0 + 1, 0 + U64))
        /\ hi = LittleEndian(SubSeq(data, 0 + U64 + 1, Len(data)))
        /\ Number = LittleEndian(SubSeq(data, 0 + 1, Len(data)))
    BY <2>1, <2>2 DEF Low, High, LowBytes, HighBytes, Number
  <2>4. lo \in Word /\ hi \in Word /\ Number = lo + UINT64 * hi
    <3>1. 0 \in Nat /\ 0 + U64 < Len(data) /\ Len(data) <= 0 + 2 * U64
      BY <1>1, <2>1
    <3> HIDE DEF data, lo, hi
    <3> QED BY <1>1, <2>3, <3>1, TwoWords
  <2> HIDE DEF lo, hi
  <2>5. hi * UINT64 + lo = lo + UINT64 * hi
    BY <1>1, <2>4 DEF Word
  <2> QED BY <2>4, <2>5 DEF lo, hi
<1> QED BY <1>2, <1>3 DEF IsRequest
-----------------------------------------------------------------------------
(* Digits as numbers.                                                      *)

Characters == 0 .. Point

Digits == 0 .. 9

LEMMA SpelledFacts ==
    ASSUME NEW c \in Seq(Characters)
    PROVE  /\ Len(c) \in Nat /\ \A n \in 0 .. Len(c) : SpelledUpTo(c)[n] \in Nat
           /\ SpelledUpTo(c)[0] = 0
           /\ \A n \in 1 .. Len(c) :
                  SpelledUpTo(c)[n] = IF c[n] = Point THEN SpelledUpTo(c)[n - 1]
                                      ELSE 10 * SpelledUpTo(c)[n - 1] + c[n]
<1> DEFINE L == Len(c)
           Next1(before, n) == IF c[n] = Point THEN before ELSE 10 * before + c[n]
           Is(f) == f = [n \in 0 .. L |-> IF n = 0 THEN 0
                             ELSE IF c[n] = Point THEN f[n - 1] ELSE 10 * f[n - 1] + c[n]]
           step == [p \in Nat \X Nat |-> IF p[1] < L THEN Next1(p[2], p[1] + 1) ELSE p[2]]
           J == SpelledUpTo(c)
<1>0. L \in Nat /\ \A n \in 1 .. L : c[n] \in Nat
  BY DEF Characters, Point
<1>1. step \in [Nat \X Nat -> Nat]
  <2>1. ASSUME NEW p \in Nat \X Nat
        PROVE  (IF p[1] < L THEN Next1(p[2], p[1] + 1) ELSE p[2]) \in Nat
    <3>1. p[2] \in Nat /\ p[1] \in Nat
      OBVIOUS
    <3>2. p[1] < L => c[p[1] + 1] \in Nat
      BY <1>0, <3>1
    <3> QED BY <3>1, <3>2
  <2> QED BY <2>1
<1>2. \A n \in Nat, s \in Nat : n < L => step[<<n, s>>] = Next1(s, n + 1)
  OBVIOUS
<1>3. J = CHOOSE h : Is(h)
  BY DEF SpelledUpTo
<1> HIDE DEF step, L, J
<1>4. PICK f \in [0 .. L -> Nat] : IteratesTo(f, L, 0, step)
  BY <1>0, <1>1, BoundedRecursion
<1>5. f[0] = 0 /\ \A n \in 1 .. L : f[n] = step[<<n - 1, f[n - 1]>>]
  BY <1>4 DEF IteratesTo
<1>6. ASSUME NEW n \in 1 .. L PROVE f[n] = Next1(f[n - 1], n) /\ n \in 0 .. L /\ n # 0
  <2>1. n - 1 \in Nat /\ n - 1 < L /\ (n - 1) + 1 = n /\ n - 1 \in 0 .. L
    BY <1>0
  <2>2. f[n - 1] \in Nat
    BY <2>1
  <2>3. step[<<n - 1, f[n - 1]>>] = Next1(f[n - 1], (n - 1) + 1)
    BY <1>2, <2>1, <2>2
  <2> QED BY <1>5, <2>1, <2>3
<1>7. \A n \in 0 .. L : n = 0 \/ n \in 1 .. L
  BY <1>0
<1>8. Is(f)
  <2>1. ASSUME NEW n \in 0 .. L PROVE f[n] = IF n = 0 THEN 0 ELSE Next1(f[n - 1], n)
    <3> HIDE DEF Next1
    <3> QED BY <1>5, <1>6, <1>7
  <2> QED BY <2>1
<1>9. Is(J)
  <2> HIDE DEF Is
  <2> QED BY <1>3, <1>8
<1>10. J[0] = 0 /\ \A n \in 1 .. L : J[n] = Next1(J[n - 1], n)
  <2>1. 0 \in 0 .. L
    BY <1>0
  <2> QED BY <1>6, <1>9, <2>1
<1>11. \A n \in 0 .. L : J[n] \in Nat
  <2> DEFINE T == {n \in 0 .. L : J[n] \in Nat}
  <2>1. 0 \in T
    BY <1>0, <1>10
  <2>2. ASSUME NEW n \in 1 .. L, n - 1 \in T PROVE n \in T
    <3>1. J[n - 1] \in Nat /\ c[n] \in Nat /\ J[n] = Next1(J[n - 1], n)
      BY <1>0, <1>10, <2>2
    <3> QED BY <1>6, <3>1
  <2> HIDE DEF T
  <2>3. \A n \in 0 .. L : n \in T
    BY <1>0, <2>1, <2>2, BoundedInduction
  <2> QED BY <2>3 DEF T
<1> QED BY <1>0, <1>10, <1>11 DEF J, L

\* Texts that begin alike spell the same so far.
LEMMA SpelledAgree ==
    ASSUME NEW c \in Seq(Characters), NEW d \in Seq(Characters), NEW k \in 0 .. Len(c),
           k <= Len(d), \A j \in 1 .. k : c[j] = d[j]
    PROVE  SpelledUpTo(c)[k] = SpelledUpTo(d)[k]
<1> DEFINE T == {n \in 0 .. k : SpelledUpTo(c)[n] = SpelledUpTo(d)[n]}
<1>0. k \in Nat /\ Len(c) \in Nat /\ Len(d) \in Nat
  OBVIOUS
<1>1. 0 \in T
  BY <1>0, SpelledFacts
<1>2. ASSUME NEW n \in 1 .. k, n - 1 \in T PROVE n \in T
  <2>1. n \in 1 .. Len(c) /\ n \in 1 .. Len(d) /\ n \in 0 .. k
    BY <1>0
  <2>2. SpelledUpTo(c)[n] = IF c[n] = Point THEN SpelledUpTo(c)[n - 1]
                            ELSE 10 * SpelledUpTo(c)[n - 1] + c[n]
    BY <2>1, SpelledFacts
  <2>3. SpelledUpTo(d)[n] = IF d[n] = Point THEN SpelledUpTo(d)[n - 1]
                            ELSE 10 * SpelledUpTo(d)[n - 1] + d[n]
    BY <2>1, SpelledFacts
  <2>4. SpelledUpTo(c)[n - 1] = SpelledUpTo(d)[n - 1] /\ c[n] = d[n]
    BY <1>2
  <2> QED BY <2>1, <2>2, <2>3, <2>4
<1>3. \A n \in 0 .. k : n \in T
  <2> HIDE DEF T
  <2> QED BY <1>0, <1>1, <1>2, BoundedInduction
<1>4. k \in 0 .. k
  BY <1>0
<1> QED BY <1>3, <1>4

\* Zeros, and a point among them, spell nothing.
LEMMA SpelledZero ==
    ASSUME NEW c \in Seq(Characters), NEW k \in 0 .. Len(c), \A j \in 1 .. k : c[j] \in {0, Point}
    PROVE  SpelledUpTo(c)[k] = 0
<1> DEFINE T == {n \in 0 .. k : SpelledUpTo(c)[n] = 0}
<1>0. k \in Nat /\ Len(c) \in Nat
  OBVIOUS
<1>1. 0 \in T
  BY <1>0, SpelledFacts
<1>2. ASSUME NEW n \in 1 .. k, n - 1 \in T PROVE n \in T
  <2>1. n \in 1 .. Len(c) /\ n \in 0 .. k
    BY <1>0
  <2>2. SpelledUpTo(c)[n] = IF c[n] = Point THEN SpelledUpTo(c)[n - 1]
                            ELSE 10 * SpelledUpTo(c)[n - 1] + c[n]
    BY <2>1, SpelledFacts
  <2>3. SpelledUpTo(c)[n - 1] = 0 /\ c[n] \in {0, Point}
    BY <1>2
  <2> QED BY <2>1, <2>2, <2>3
<1>3. \A n \in 0 .. k : n \in T
  <2> HIDE DEF T
  <2> QED BY <1>0, <1>1, <1>2, BoundedInduction
<1>4. k \in 0 .. k
  BY <1>0
<1> QED BY <1>3, <1>4

\* Digits behind the first k characters shift these.
LEMMA SpelledShifted ==
    ASSUME NEW c \in Seq(Characters), NEW d \in Seq(Digits), NEW k \in Nat,
           Len(c) = k + Len(d), \A j \in 1 .. Len(d) : c[k + j] = d[j]
    PROVE  Spelled(c) = SpelledUpTo(c)[k] * Power(10, Len(d)) + Spelled(d)
<1> DEFINE L == Len(d)
           a == SpelledUpTo(c)[k]
           T == {n \in 0 .. L : SpelledUpTo(c)[k + n] = a * Power(10, n) + SpelledUpTo(d)[n]}
<1>0. L \in Nat /\ Len(c) = k + L /\ d \in Seq(Characters) /\ k \in 0 .. Len(c)
  BY DEF Digits, Characters, Point
<1>1. a \in Nat
  BY <1>0, SpelledFacts
<1>2. \A j \in 1 .. L : d[j] \in Nat /\ d[j] # Point
  <2>1. \A x \in Digits : x \in Nat /\ x # Point
    BY DEF Digits, Point
  <2>2. \A j \in 1 .. L : d[j] \in Digits
    OBVIOUS
  <2> QED BY <2>1, <2>2
<1>3. 0 \in T
  <2>1. k + 0 = k /\ SpelledUpTo(d)[0] = 0 /\ Power(10, 0) = 1 /\ 0 \in 0 .. L
    BY <1>0, SpelledFacts, PowerZero
  <2> HIDE DEF a
  <2>2. a * 1 + 0 = a
    BY <1>1
  <2> QED BY <2>1, <2>2 DEF a
<1>4. ASSUME NEW n \in 1 .. L, n - 1 \in T PROVE n \in T
  <2> DEFINE m == n - 1
             p == Power(10, m)
             b == SpelledUpTo(d)[m]
             x == d[n]
  <2>1. m \in Nat /\ m + 1 = n /\ n \in 0 .. L /\ m \in 0 .. L
        /\ k + n \in 1 .. Len(c) /\ (k + n) - 1 = k + m
    BY <1>0
  <2>2. SpelledUpTo(c)[k + m] = a * p + b
    BY <1>4
  <2>3. c[k + n] = x /\ x \in Nat /\ x # Point
    BY <1>2
  <2>4. SpelledUpTo(c)[k + n] = 10 * SpelledUpTo(c)[k + m] + x
    <3>1. SpelledUpTo(c)[k + n] = IF c[k + n] = Point THEN SpelledUpTo(c)[(k + n) - 1]
                                  ELSE 10 * SpelledUpTo(c)[(k + n) - 1] + c[k + n]
      BY <2>1, SpelledFacts
    <3> QED BY <2>1, <2>3, <3>1
  <2>5. SpelledUpTo(d)[n] = 10 * b + x
    <3>1. SpelledUpTo(d)[n] = IF d[n] = Point THEN SpelledUpTo(d)[n - 1]
                              ELSE 10 * SpelledUpTo(d)[n - 1] + d[n]
      BY <1>0, <2>1, SpelledFacts
    <3> QED BY <2>3, <3>1
  <2>6. b \in Nat
    BY <1>0, <2>1, SpelledFacts
  <2> HIDE DEF m, b, x, a
  <2>7. p \in Nat /\ Power(10, n) = 10 * p
    BY <2>1, PowerOf10
  <2> HIDE DEF p
  <2>8. 10 * (a * p + b) + x = a * (10 * p) + (10 * b + x)
    BY <1>1, <2>3, <2>6, <2>7
  <2> QED BY <2>1, <2>2, <2>4, <2>5, <2>7, <2>8
<1>5. \A n \in 0 .. L : n \in T
  <2> HIDE DEF T, L
  <2> QED BY <1>0, <1>3, <1>4, BoundedInduction
<1>6. L \in 0 .. L
  BY <1>0
<1> QED BY <1>0, <1>5, <1>6 DEF Spelled

LEMMA SpelledPrepended ==
    ASSUME NEW b \in Seq(Digits), NEW d \in Digits
    PROVE  /\ <<d>> \o b \in Seq(Digits) /\ Len(<<d>> \o b) = Len(b) + 1
           /\ Spelled(<<d>> \o b) = d * Power(10, Len(b)) + Spelled(b)
<1> DEFINE one == <<d>>
           c == one \o b
<1>1. one \in Seq(Digits) /\ Len(one) = 1 /\ one[1] = d /\ Len(b) \in Nat
  OBVIOUS
<1> HIDE DEF one
<1>2. c \in Seq(Digits) /\ Behind(c, one, b)
  BY <1>1, JoinedBehind
<1> HIDE DEF c
<1>3. /\ Len(c) = 1 + Len(b) /\ \A j \in 1 .. Len(b) : c[1 + j] = b[j]
  BY <1>1, <1>2 DEF Behind
<1>4. c[1] = d
  BY <1>1, <1>2 DEF Behind
<1>5. c \in Seq(Characters) /\ d # Point /\ d \in Nat
  BY <1>2 DEF Digits, Characters, Point
<1>6. SpelledUpTo(c)[1] = d
  <2>1. 1 \in 1 .. Len(c) /\ 1 - 1 = 0
    BY <1>1, <1>3
  <2>2. SpelledUpTo(c)[0] = 0
    BY <1>5, SpelledFacts
  <2>3. SpelledUpTo(c)[1] = IF c[1] = Point THEN SpelledUpTo(c)[1 - 1]
                            ELSE 10 * SpelledUpTo(c)[1 - 1] + c[1]
    BY <1>5, <2>1, SpelledFacts
  <2> QED BY <1>4, <1>5, <2>1, <2>2, <2>3
<1>7. 1 \in Nat
  OBVIOUS
<1>8. Spelled(c) = SpelledUpTo(c)[1] * Power(10, Len(b)) + Spelled(b)
  BY <1>3, <1>5, <1>7, SpelledShifted
<1> QED BY <1>1, <1>2, <1>3, <1>6, <1>8 DEF c, one
-----------------------------------------------------------------------------
(* The decimal point.                                                      *)

\* c is a text with p decimals behind a point, which stands at pt, and the only one.
HasPoint(c, p, pt) ==
    /\ c \in Seq(Characters) /\ p \in Nat /\ pt \in Nat /\ pt >= 2 /\ Len(c) = pt + p
    /\ c[pt] = Point /\ \A k \in 1 .. Len(c) : c[k] = Point => k = pt

\* As many decimals as digits or more: a zero, the point and zeros come first.
LEMMA PointInFront ==
    ASSUME NEW b \in Seq(Digits), b # <<>>, NEW p \in Nat, p >= Len(b)
    PROVE  LET c == Pointed(b, p)
           IN  HasPoint(c, p, 2) /\ Spelled(c) = Spelled(b) /\ c[1] = 0
<1> DEFINE zp == <<0, Point>>
           n == Len(b)
           z == p - n
           zs == Zeros(z)
           h == zp \o zs
           c == h \o b
<1>1. n \in Nat /\ z \in Nat /\ Pointed(b, p) = c
  BY DEF Pointed
<1>2. zp \in Seq(Characters) /\ Len(zp) = 2 /\ zp[1] = 0 /\ zp[2] = Point
  BY DEF Characters, Point
<1>3. zs \in Seq(Characters) /\ Len(zs) = z /\ \A j \in 1 .. z : zs[j] = 0
  BY <1>1 DEF Zeros, Characters, Point
<1>4. b \in Seq(Characters) /\ \A j \in 1 .. n : b[j] # Point
  <2>1. \A x \in Digits : x \in Characters /\ x # Point
    BY DEF Digits, Characters, Point
  <2>2. \A j \in 1 .. n : b[j] \in Digits
    OBVIOUS
  <2>3. b \in Seq(Characters)
    BY DEF Digits, Characters, Point
  <2> QED BY <2>1, <2>2, <2>3
<1> HIDE DEF zp, zs
<1>5. h \in Seq(Characters) /\ Behind(h, zp, zs)
  BY <1>2, <1>3, JoinedBehind
<1> HIDE DEF h
<1>6. Len(h) = 2 + z /\ h[1] = 0 /\ h[2] = Point /\ \A j \in 1 .. z : h[2 + j] = 0
  <2> HIDE DEF z
  <2>1. /\ Len(h) = 2 + Len(zs) /\ h[1] = zp[1] /\ h[2] = zp[2]
        /\ \A j \in 1 .. Len(zs) : h[2 + j] = zs[j]
    <3>1. Len(zs) \in Nat /\ Len(zp) = 2 /\ Behind(h, zp, zs)
      BY <1>1, <1>2, <1>3, <1>5
    <3> QED BY <3>1, BehindTwo
  <2> QED BY <1>2, <1>3, <2>1
<1>7. c \in Seq(Characters) /\ Behind(c, h, b)
  BY <1>4, <1>5, JoinedBehind
<1> HIDE DEF c
<1>8. /\ Len(c) = Len(h) + n
      /\ \A j \in 1 .. Len(h) : c[j] = h[j]
      /\ \A j \in 1 .. n : c[Len(h) + j] = b[j]
  BY <1>7 DEF Behind
<1>9. Len(c) = 2 + p /\ c[1] = 0 /\ c[2] = Point
  <2>1. z + n = p
    BY <1>1
  <2> HIDE DEF z, n
  <2>2. Len(c) = 2 + p
    BY <1>1, <1>6, <1>8, <2>1
  <2>3. 1 \in 1 .. Len(h) /\ 2 \in 1 .. Len(h)
    BY <1>1, <1>6
  <2> QED BY <1>6, <1>8, <2>2, <2>3
<1>10. ASSUME NEW k \in 1 .. Len(h) PROVE c[k] \in {0, Point} /\ (c[k] = Point => k = 2)
  <2>1. k = 1 \/ k = 2 \/ (k - 2 \in 1 .. z /\ 2 + (k - 2) = k)
    BY <1>1, <1>6
  <2>2. 0 # Point
    BY DEF Point
  <2>3. CASE k = 1
    BY <1>9, <2>2, <2>3
  <2>4. CASE k = 2
    BY <1>9, <2>4
  <2>5. CASE k - 2 \in 1 .. z /\ 2 + (k - 2) = k
    <3>1. h[2 + (k - 2)] = 0
      BY <1>6, <2>5
    <3> QED BY <1>8, <2>2, <2>5, <3>1
  <2> QED BY <2>1, <2>3, <2>4, <2>5
<1>11. ASSUME NEW k \in 1 .. Len(c), c[k] = Point PROVE k = 2
  <2>1. k \in 1 .. Len(h) \/ (k - Len(h) \in 1 .. n /\ Len(h) + (k - Len(h)) = k)
    BY <1>1, <1>6, <1>8
  <2>2. CASE k \in 1 .. Len(h)
    BY <1>10, <1>11, <2>2
  <2>3. CASE k - Len(h) \in 1 .. n /\ Len(h) + (k - Len(h)) = k
    <3>1. c[Len(h) + (k - Len(h))] = b[k - Len(h)] /\ b[k - Len(h)] # Point
      BY <1>4, <1>8, <2>3
    <3> QED BY <1>11, <2>3, <3>1
  <2> QED BY <2>1, <2>2, <2>3
<1>12. Spelled(c) = Spelled(b)
  <2> DEFINE k == Len(h)
  <2>1. k \in Nat /\ k \in 0 .. Len(c) /\ Len(c) = k + Len(b)
    BY <1>1, <1>6, <1>8
  <2>2. SpelledUpTo(c)[k] = 0
    <3> HIDE DEF k
    <3>1. \A j \in 1 .. k : c[j] \in {0, Point}
      BY <1>10 DEF k
    <3> QED BY <1>7, <2>1, <3>1, SpelledZero
  <2>3. \A j \in 1 .. Len(b) : c[k + j] = b[j]
    BY <1>8
  <2> HIDE DEF k, n
  <2>4. Spelled(c) = SpelledUpTo(c)[k] * Power(10, Len(b)) + Spelled(b)
    BY <1>7, <2>1, <2>3, SpelledShifted
  <2>5. Power(10, Len(b)) \in Nat /\ Spelled(b) \in Nat
    <3>1. Len(b) \in Nat /\ Len(b) \in 0 .. Len(b)
      BY <1>1 DEF n
    <3> QED BY <1>4, <3>1, PowerOf10, SpelledFacts DEF Spelled
  <2> QED BY <2>2, <2>4, <2>5
<1>13. HasPoint(c, p, 2)
  BY <1>7, <1>9, <1>11 DEF HasPoint
<1> QED BY <1>1, <1>9, <1>12, <1>13

\* Fewer decimals than digits: the point stands among these.
LEMMA PointWithin ==
    ASSUME NEW b \in Seq(Digits), NEW p \in Nat, p # 0, p < Len(b)
    PROVE  LET c == Pointed(b, p)
           IN  HasPoint(c, p, Len(b) - p + 1) /\ Spelled(c) = Spelled(b) /\ c[1] = b[1]
<1> DEFINE n == Len(b)
           q == n - p
           f == SubSeq(b, 1, q)
           g == SubSeq(b, q + 1, n)
           one == <<Point>>
           h == f \o one
           c == h \o g
<1>1. n \in Nat /\ q \in Nat /\ 1 <= q /\ q + p = n /\ Pointed(b, p) = c
  <2>1. Pointed(b, p) = WithoutZero(b, p)
    BY DEF Pointed
  <2> QED BY <2>1 DEF WithoutZero
<1>2. f \in Seq(Digits) /\ Len(f) = q /\ \A j \in 1 .. q : f[j] = b[j]
  BY <1>1
<1>3. g \in Seq(Digits) /\ Len(g) = p /\ \A j \in 1 .. p : g[j] = b[q + j]
  BY <1>1
<1>4. one \in Seq(Characters) /\ Len(one) = 1 /\ one[1] = Point
  BY DEF Characters, Point
<1>5. \A x \in Digits : x \in Characters /\ x # Point
  BY DEF Digits, Characters, Point
<1>6. b \in Seq(Characters) /\ \A j \in 1 .. n : b[j] # Point
  <2>1. \A j \in 1 .. n : b[j] \in Digits
    OBVIOUS
  <2>2. b \in Seq(Characters)
    BY DEF Digits, Characters, Point
  <2> QED BY <1>5, <2>1, <2>2
<1> HIDE DEF f, g, one
<1>7. f \in Seq(Characters) /\ g \in Seq(Characters)
  BY <1>2, <1>3 DEF Digits, Characters, Point
<1>8. h \in Seq(Characters) /\ Behind(h, f, one)
  BY <1>4, <1>7, JoinedBehind
<1> HIDE DEF h
<1>9. c \in Seq(Characters) /\ Behind(c, h, g)
  BY <1>7, <1>8, JoinedBehind
<1> HIDE DEF c
<1>10. Len(h) = q + 1 /\ h[q + 1] = Point /\ \A j \in 1 .. q : h[j] = b[j]
  <2>1. 1 \in 1 .. Len(one)
    BY <1>4
  <2>2. h[Len(f) + 1] = one[1]
    BY <1>8, <2>1 DEF Behind
  <2>3. Len(h) = Len(f) + Len(one) /\ \A j \in 1 .. q : h[j] = f[j]
    BY <1>2, <1>8 DEF Behind
  <2> QED BY <1>2, <1>4, <2>2, <2>3
<1>11. /\ Len(c) = (q + 1) + p
       /\ \A j \in 1 .. q + 1 : c[j] = h[j]
       /\ \A j \in 1 .. p : c[(q + 1) + j] = g[j]
  BY <1>3, <1>9, <1>10 DEF Behind
<1>12. c[q + 1] = Point /\ \A j \in 1 .. q : c[j] = b[j]
  BY <1>1, <1>10, <1>11
<1>13. ASSUME NEW k \in 1 .. Len(c), c[k] = Point PROVE k = q + 1
  <2>1. k \in 1 .. q \/ k = q + 1 \/ (k - (q + 1) \in 1 .. p /\ (q + 1) + (k - (q + 1)) = k)
    <3> HIDE DEF q, n
    <3> QED BY <1>1, <1>11
  <2>2. CASE k \in 1 .. q
    <3>1. c[k] = b[k] /\ k \in 1 .. n
      BY <1>1, <1>12, <2>2
    <3> QED BY <1>6, <1>13, <3>1
  <2>3. CASE k - (q + 1) \in 1 .. p /\ (q + 1) + (k - (q + 1)) = k
    <3> DEFINE j == k - (q + 1)
    <3>1. j \in 1 .. p /\ (q + 1) + j = k /\ q + j \in 1 .. n
      BY <1>1, <2>3
    <3> HIDE DEF j
    <3>2. c[k] = b[q + j]
      BY <1>3, <1>11, <3>1
    <3> QED BY <1>6, <1>13, <3>1, <3>2
  <2> QED BY <2>1, <2>2, <2>3
<1>14. HasPoint(c, p, q + 1)
  <2>1. q + 1 \in Nat /\ q + 1 >= 2
    BY <1>1
  <2> QED BY <1>9, <1>11, <1>12, <1>13, <2>1 DEF HasPoint
<1>15. Spelled(c) = Spelled(b)
  <2> HIDE DEF q, n
  <2>1. q \in 0 .. Len(c) /\ q <= Len(b) /\ Len(b) = q + Len(g) /\ Len(c) = (q + 1) + Len(g)
        /\ q + 1 \in 1 .. Len(c) /\ (q + 1) - 1 = q /\ q + 1 \in Nat
    BY <1>1, <1>3, <1>11 DEF n
  <2>2. SpelledUpTo(c)[q] = SpelledUpTo(b)[q]
    BY <1>6, <1>9, <1>12, <2>1, SpelledAgree
  <2>3. SpelledUpTo(c)[q + 1] = SpelledUpTo(c)[q]
    <3>1. SpelledUpTo(c)[q + 1] = IF c[q + 1] = Point THEN SpelledUpTo(c)[(q + 1) - 1]
                                  ELSE 10 * SpelledUpTo(c)[(q + 1) - 1] + c[q + 1]
      BY <1>9, <2>1, SpelledFacts
    <3> QED BY <1>12, <2>1, <3>1
  <2>4. Spelled(c) = SpelledUpTo(c)[q + 1] * Power(10, Len(g)) + Spelled(g)
    <3>1. \A j \in 1 .. Len(g) : c[(q + 1) + j] = g[j]
      BY <1>3, <1>11
    <3> QED BY <1>3, <1>9, <2>1, <3>1, SpelledShifted
  <2>5. Spelled(b) = SpelledUpTo(b)[q] * Power(10, Len(g)) + Spelled(g)
    <3>1. \A j \in 1 .. Len(g) : b[q + j] = g[j]
      BY <1>3
    <3> QED BY <1>1, <1>3, <1>6, <2>1, <3>1, SpelledShifted
  <2> QED BY <2>2, <2>3, <2>4, <2>5
<1>16. c[1] = b[1]
  BY <1>1, <1>12
<1> QED BY <1>1, <1>14, <1>15, <1>16

\* Where a text with a point is cut.
LastKept(c) ==
    LET last == Max({k \in 1 .. Len(c) : c[k] # 0})
    IN  IF c[last] = Point THEN last - 1 ELSE last

\* The decimals that a text without needless zeros has left.
LEMMA TrimmedFacts ==
    ASSUME NEW c, NEW p, NEW pt, HasPoint(c, p, pt)
    PROVE  LET m == LastKept(c)
               t == Trimmed(c)
           IN  /\ m \in 1 .. Len(c) /\ (m = pt - 1 \/ (m > pt /\ c[m] # 0))
               /\ \A k \in m + 1 .. Len(c) : c[k] \in {0, Point}
               /\ t \in Seq(Characters) /\ Len(t) = m /\ \A k \in 1 .. m : t[k] = c[k]
<1> DEFINE S == {k \in 1 .. Len(c) : c[k] # 0}
           last == Max(S)
           m == LastKept(c)
           t == Trimmed(c)
<1>1. /\ c \in Seq(Characters) /\ Len(c) \in Nat /\ pt \in Nat /\ p \in Nat /\ pt >= 2
      /\ Len(c) = pt + p /\ c[pt] = Point /\ \A k \in 1 .. Len(c) : c[k] = Point => k = pt
  BY DEF HasPoint
<1>2. pt \in 1 .. Len(c) /\ pt \in S /\ S \in SUBSET Nat
  <2>1. pt \in 1 .. Len(c) /\ Point # 0
    BY <1>1 DEF Point
  <2> QED BY <1>1, <2>1
<1>3. \A k \in S : k <= Len(c)
  BY <1>1
<1>4. last \in S /\ \A k \in S : last >= k
  <2> HIDE DEF S
  <2>1. \E k \in S : \A j \in S : k >= j
    BY <1>1, <1>2, <1>3, LargestElement
  <2> QED BY <2>1 DEF Max
<1>5. last \in 1 .. Len(c) /\ c[last] # 0 /\ last >= pt
  BY <1>2, <1>4
<1>6. \A k \in 1 .. Len(c) : k > last => c[k] = 0
  <2>1. ASSUME NEW k \in 1 .. Len(c), c[k] # 0 PROVE ~(k > last)
    <3>1. k \in S
      BY <2>1
    <3>2. last >= k
      BY <1>4, <3>1
    <3> HIDE DEF last
    <3> QED BY <1>1, <1>5, <3>2
  <2> QED BY <2>1
<1>7. m = IF c[last] = Point THEN last - 1 ELSE last
  BY DEF LastKept
<1> HIDE DEF last, S
<1>8. (c[last] = Point) <=> (last = pt)
  BY <1>1, <1>5
<1> HIDE DEF m
<1>9. m \in 1 .. Len(c) /\ (m = pt - 1 \/ (m > pt /\ c[m] # 0))
  <2>1. CASE last = pt
    BY <1>1, <1>5, <1>7, <1>8, <2>1
  <2>2. CASE last # pt
    BY <1>1, <1>5, <1>7, <1>8, <2>2
  <2> QED BY <2>1, <2>2
<1>10. ASSUME NEW k \in m + 1 .. Len(c) PROVE c[k] \in {0, Point}
  <2>1. k \in 1 .. Len(c) /\ (k > last \/ k = pt)
    BY <1>1, <1>5, <1>7, <1>8, <1>9
  <2> QED BY <1>1, <1>6, <2>1
<1>11. t = SubSeq(c, 1, m)
  <2>1. Point \in Range(c)
    BY <1>1, <1>2 DEF Range
  <2> QED BY <1>7, <2>1 DEF Trimmed, last, S
<1>12. t \in Seq(Characters) /\ Len(t) = m /\ \A k \in 1 .. m : t[k] = c[k]
  BY <1>1, <1>9, <1>11
<1> QED BY <1>9, <1>10, <1>12 DEF m

\* What Fraction is of a text, with a point or without.
FractionOf(t) ==
    IF Point \in Range(t) THEN Len(t) - (CHOOSE k \in 1 .. Len(t) : t[k] = Point) ELSE 0

IsCanonical(t) ==
    /\ t # <<>> /\ t[1] # Point
    /\ t[1] = 0 => Len(t) = 1 \/ t[2] = Point
    /\ Point \in Range(t) => FractionOf(t) > 0 /\ t[Len(t)] # 0

\* The zeros that are cut off count for nothing but their places.
LEMMA TrimmedSpells ==
    ASSUME NEW c, NEW p, NEW pt, HasPoint(c, p, pt), c[1] = 0 => pt = 2
    PROVE  LET t == Trimmed(c)
           IN  /\ t \in Seq(Characters) /\ Len(t) <= Len(c) /\ IsCanonical(t)
               /\ FractionOf(t) \in 0 .. p
               /\ Spelled(t) * Power(10, p - FractionOf(t)) = Spelled(c)
<1> DEFINE m == LastKept(c)
           t == Trimmed(c)
           u == SpelledUpTo(c)
<1>1. /\ c \in Seq(Characters) /\ Len(c) \in Nat /\ pt \in Nat /\ p \in Nat /\ pt >= 2
      /\ Len(c) = pt + p /\ c[pt] = Point /\ \A k \in 1 .. Len(c) : c[k] = Point => k = pt
  BY DEF HasPoint
<1>2. /\ m \in 1 .. Len(c) /\ (m = pt - 1 \/ (m > pt /\ c[m] # 0))
      /\ \A k \in m + 1 .. Len(c) : c[k] \in {0, Point}
      /\ t \in Seq(Characters) /\ Len(t) = m /\ \A k \in 1 .. m : t[k] = c[k]
  BY TrimmedFacts
<1> HIDE DEF m, t
<1>3. Spelled(t) = u[m]
  <2>1. m \in 0 .. Len(t) /\ m <= Len(c)
    BY <1>1, <1>2
  <2>2. SpelledUpTo(t)[m] = SpelledUpTo(c)[m]
    BY <1>1, <1>2, <2>1, SpelledAgree
  <2> QED BY <1>2, <2>2 DEF Spelled
\* From k on there are zeros.
<1>4. ASSUME NEW k \in Nat, k <= Len(c), \A j \in 1 .. Len(c) - k : c[k + j] = 0
      PROVE  Spelled(c) = u[k] * Power(10, Len(c) - k)
  <2> DEFINE d == Zeros(Len(c) - k)
  <2>1. d \in Seq(Digits) /\ Len(d) = Len(c) - k /\ \A j \in 1 .. Len(c) - k : d[j] = 0
    BY <1>1, <1>4 DEF Zeros, Digits
  <2> HIDE DEF d
  <2>2. Len(c) = k + Len(d) /\ \A j \in 1 .. Len(d) : c[k + j] = d[j]
    <3>1. Len(c) = k + Len(d)
      BY <1>1, <1>4, <2>1
    <3>2. \A j \in 1 .. Len(d) : c[k + j] = 0 /\ d[j] = 0
      BY <1>4, <2>1
    <3> QED BY <3>1, <3>2
  <2>3. Spelled(c) = u[k] * Power(10, Len(d)) + Spelled(d)
    BY <1>1, <2>1, <2>2, SpelledShifted
  <2>4. Spelled(d) = 0
    <3>1. d \in Seq(Characters) /\ Len(d) \in 0 .. Len(d)
      BY <1>1, <2>1 DEF Digits, Characters, Point
    <3>2. \A j \in 1 .. Len(d) : d[j] \in {0, Point}
      BY <2>1
    <3> QED BY <3>1, <3>2, SpelledZero DEF Spelled
  <2>5. u[k] \in Nat /\ Power(10, Len(d)) \in Nat
    <3>1. k \in 0 .. Len(c) /\ Len(d) \in Nat
      BY <1>1, <1>4, <2>1
    <3> QED BY <1>1, <3>1, SpelledFacts, PowerOf10
  <2> QED BY <2>1, <2>3, <2>4, <2>5
<1>5. t # <<>> /\ t[1] # Point /\ (t[1] = 0 => Len(t) = 1 \/ t[2] = Point)
  <2>1. t # <<>> /\ t[1] = c[1] /\ 1 \in 1 .. Len(c)
    BY <1>1, <1>2
  <2>2. t[1] # Point
    BY <1>1, <2>1
  <2>3. ASSUME t[1] = 0, Len(t) # 1 PROVE t[2] = Point
    <3>1. pt = 2 /\ m > 2
      BY <1>1, <1>2, <2>1, <2>3
    <3> QED BY <1>1, <1>2, <3>1
  <2> QED BY <2>1, <2>2, <2>3
<1>6. CASE m = pt - 1
  <2>1. \A k \in 1 .. Len(t) : t[k] # Point
    BY <1>1, <1>2, <1>6
  <2>2. Point \notin Range(t)
    BY <1>2, <2>1 DEF Range
  <2>3. FractionOf(t) = 0
    BY <2>2 DEF FractionOf
  <2>4. Spelled(c) = u[pt] * Power(10, Len(c) - pt)
    <3>1. \A j \in 1 .. Len(c) - pt : c[pt + j] = 0
      <4>1. ASSUME NEW j \in 1 .. Len(c) - pt PROVE c[pt + j] = 0
        <5>1. pt + j \in m + 1 .. Len(c) /\ pt + j \in 1 .. Len(c) /\ pt + j # pt
          BY <1>1, <1>2, <1>6
        <5> QED BY <1>1, <1>2, <5>1
      <4> QED BY <4>1
    <3>2. pt \in Nat /\ pt <= Len(c)
      BY <1>1
    <3> QED BY <1>4, <3>1, <3>2
  <2>5. u[pt] = u[m]
    <3>1. pt \in 1 .. Len(c) /\ pt - 1 = m
      BY <1>1, <1>2, <1>6
    <3>2. u[pt] = IF c[pt] = Point THEN u[pt - 1] ELSE 10 * u[pt - 1] + c[pt]
      BY <1>1, <3>1, SpelledFacts
    <3> QED BY <1>1, <3>1, <3>2
  <2>6. Len(c) - pt = p /\ p - 0 = p /\ m <= Len(c) /\ 0 \in 0 .. p
    BY <1>1, <1>2
  <2>7. Spelled(t) * Power(10, p - FractionOf(t)) = Spelled(c)
    BY <1>3, <2>3, <2>4, <2>5, <2>6
  <2>8. IsCanonical(t)
    BY <1>5, <2>2 DEF IsCanonical
  <2> QED BY <1>2, <2>3, <2>6, <2>7, <2>8 DEF t
<1>7. CASE m > pt /\ c[m] # 0
  <2>1. pt \in 1 .. Len(t) /\ t[pt] = Point /\ \A k \in 1 .. Len(t) : t[k] = Point => k = pt
    BY <1>1, <1>2, <1>7
  <2>2. Point \in Range(t)
    BY <1>2, <2>1 DEF Range
  <2>3. FractionOf(t) = m - pt
    <3>1. (CHOOSE k \in 1 .. Len(t) : t[k] = Point) = pt
      BY <2>1
    <3> QED BY <1>2, <2>2, <3>1 DEF FractionOf
  <2>4. Spelled(c) = u[m] * Power(10, Len(c) - m)
    <3>1. \A j \in 1 .. Len(c) - m : c[m + j] = 0
      <4>1. ASSUME NEW j \in 1 .. Len(c) - m PROVE c[m + j] = 0
        <5>1. m + j \in m + 1 .. Len(c) /\ m + j \in 1 .. Len(c) /\ m + j # pt
          BY <1>1, <1>2, <1>7
        <5> QED BY <1>1, <1>2, <5>1
      <4> QED BY <4>1
    <3>2. m \in Nat /\ m <= Len(c)
      BY <1>1, <1>2
    <3> QED BY <1>4, <3>1, <3>2
  <2>5. m - pt \in 0 .. p /\ p - (m - pt) = Len(c) - m /\ m <= Len(c) /\ m - pt > 0
    BY <1>1, <1>2, <1>7
  <2>6. Spelled(t) * Power(10, p - FractionOf(t)) = Spelled(c)
    BY <1>3, <2>3, <2>4, <2>5
  <2>7. t[Len(t)] # 0
    BY <1>2, <1>7
  <2>8. IsCanonical(t)
    BY <1>5, <2>2, <2>3, <2>5, <2>7 DEF IsCanonical
  <2> QED BY <1>2, <2>3, <2>5, <2>6, <2>8 DEF t
<1> QED BY <1>2, <1>6, <1>7

\* A number as format_u128 writes it: no zero in front, unless it is zero.
IsNumeral(b) == b \in Seq(Digits) /\ b # <<>> /\ (b[1] # 0 \/ b = <<0>>)

LEMMA PlacedSpells ==
    ASSUME NEW b, IsNumeral(b), NEW p \in Nat
    PROVE  LET t == process_precision(b, p)
           IN  /\ t \in Seq(Characters) /\ IsCanonical(t) /\ FractionOf(t) \in 0 .. p
               /\ Len(t) <= (IF p >= Len(b) THEN p + 2 ELSE Len(b) + 1)
               /\ Spelled(t) * Power(10, p - FractionOf(t)) = Spelled(b)
<1> DEFINE c == Pointed(b, p)
           t == Trimmed(c)
<1>1. b \in Seq(Digits) /\ b # <<>> /\ Len(b) \in Nat /\ (b[1] # 0 \/ b = <<0>>)
      /\ process_precision(b, p) = t
  BY DEF IsNumeral, process_precision
<1> HIDE DEF c
<1>2. CASE p >= Len(b)
  <2>1. HasPoint(c, p, 2) /\ Spelled(c) = Spelled(b)
    BY <1>1, <1>2, PointInFront DEF c
  <2>2. /\ t \in Seq(Characters) /\ Len(t) <= Len(c) /\ IsCanonical(t)
        /\ FractionOf(t) \in 0 .. p
        /\ Spelled(t) * Power(10, p - FractionOf(t)) = Spelled(c)
    BY <2>1, TrimmedSpells
  <2>3. Len(c) = 2 + p
    BY <2>1 DEF HasPoint
  <2> HIDE DEF t
  <2> QED BY <1>1, <1>2, <2>1, <2>2, <2>3
<1>3. CASE p # 0 /\ p < Len(b)
  <2> DEFINE pt == Len(b) - p + 1
  <2>1. HasPoint(c, p, pt) /\ Spelled(c) = Spelled(b) /\ c[1] = b[1]
    BY <1>1, <1>3, PointWithin DEF c
  <2>2. c[1] # 0
    <3>1. ASSUME b = << 0 >> PROVE FALSE
      <4>1. Len(b) = 1
        BY <3>1
      <4> QED BY <1>3, <4>1
    <3> QED BY <1>1, <2>1, <3>1
  <2>3. Len(c) = Len(b) + 1
    <3>1. Len(c) = pt + p
      BY <2>1 DEF HasPoint
    <3> QED BY <1>1, <3>1
  <2> HIDE DEF pt
  <2>4. /\ t \in Seq(Characters) /\ Len(t) <= Len(c) /\ IsCanonical(t)
        /\ FractionOf(t) \in 0 .. p
        /\ Spelled(t) * Power(10, p - FractionOf(t)) = Spelled(c)
    BY <2>1, <2>2, TrimmedSpells
  <2>5. ~(p >= Len(b))
    BY <1>1, <1>3
  <2> HIDE DEF t
  <2> QED BY <1>1, <2>1, <2>3, <2>4, <2>5
<1>4. CASE p = 0
  <2>1. Len(b) # 0 /\ ~(p >= Len(b))
    BY <1>1, <1>4
  <2>2. c = b
    BY <1>1, <1>4, <2>1 DEF c, Pointed
  <2>3. \A k \in 1 .. Len(b) : b[k] # Point
    <3>1. \A x \in Digits : x # Point
      BY DEF Digits, Point
    <3>2. \A k \in 1 .. Len(b) : b[k] \in Digits
      BY <1>1
    <3> QED BY <3>1, <3>2
  <2>4. Point \notin Range(b)
    BY <1>1, <2>3 DEF Range
  <2>5. t = b
    BY <2>2, <2>4 DEF Trimmed
  <2>6. FractionOf(b) = 0
    BY <2>4 DEF FractionOf
  <2>7. b \in Seq(Characters) /\ 1 \in 1 .. Len(b)
    BY <1>1, <2>1 DEF Digits, Characters, Point
  <2>8. IsCanonical(b)
    <3>1. b[1] # Point
      BY <2>3, <2>7
    <3>2. b[1] = 0 => Len(b) = 1
      <4>1. Len(<<0>>) = 1
        OBVIOUS
      <4> QED BY <1>1, <4>1
    <3> QED BY <1>1, <2>4, <3>1, <3>2 DEF IsCanonical
  <2>9. Spelled(b) * Power(10, p - 0) = Spelled(b)
    <3>1. Spelled(b) \in Nat
      <4>1. Len(b) \in 0 .. Len(b)
        BY <1>1
      <4> QED BY <2>7, <4>1, SpelledFacts DEF Spelled
    <3>2. Power(10, p - 0) = 1
      <4>1. p - 0 = 0
        BY <1>4
      <4> QED BY <4>1, PowerZero
    <3> QED BY <3>1, <3>2
  <2>10. 0 \in 0 .. p /\ Len(b) <= Len(b) + 1
    BY <1>1, <1>4
  <2> HIDE DEF t
  <2> QED BY <1>1, <2>1, <2>5, <2>6, <2>7, <2>8, <2>9, <2>10
<1>5. p >= Len(b) \/ (p # 0 /\ p < Len(b)) \/ p = 0
  BY <1>1
<1> QED BY <1>2, <1>3, <1>4, <1>5

\* The decimals are those of the token, and less than the longest number has.
LEMMA DecimalsFacts ==
    ASSUME IsRequest(request)
    PROVE  /\ Decimals \in Nat /\ Decimals < UINT128_MAX_LENGTH
           /\ ticker_length[request.contract] \in Nat
           /\ UINT128_MAX_LENGTH + 3 + ticker_length[request.contract] <= buffer_len
           /\ request.type = IntendedType(request.contract) =>
                  Decimals = Standard(request.contract, request.method)
<1> DEFINE contract == request.contract
           method == request.method
           type == request.type
<1>1. contract \in Contracts /\ method \in Methods(contract) /\ type \in ContractTypes
  BY DEF IsRequest
<1>2. \A x \in Contracts :
          /\ token_decimals[x] \in Nat /\ ticker_length[x] \in Nat
          /\ token_decimals[x] + V2_DECIMALS < UINT128_MAX_LENGTH
          /\ UINT128_MAX_LENGTH + 3 + ticker_length[x] <= buffer_len
  BY TokenAssumption, LengthAssumption
<1>3. V2_DECIMALS \in Nat /\ UINT128_MAX_LENGTH \in Nat /\ buffer_len \in Nat /\ "ONT" \in Contracts
  BY TokenAssumption, LengthAssumption DEF Contracts
<1>4. Decimals \in {token_decimals[contract], token_decimals[contract] + V2_DECIMALS,
                    token_decimals[contract] + 0, token_decimals["ONT"]}
  BY DEF Decimals
<1>5. Decimals \in Nat /\ Decimals < UINT128_MAX_LENGTH
  BY <1>1, <1>2, <1>3, <1>4
<1>6. ASSUME type = IntendedType(contract) PROVE Decimals = Standard(contract, method)
  <2>1. CASE contract \in {"ONT", "ONG"}
    <3>1. type = "NATIVE_CONTRACT"
      BY <1>6, <2>1 DEF IntendedType
    <3> QED BY <2>1, <3>1 DEF Decimals, Standard, V2Methods
  <2>2. CASE contract = "GOV"
    <3>1. type = "NATIVE_CONTRACT"
      BY <1>6, <2>2 DEF IntendedType
    <3>2. method \notin {"transferV2", "transferFromV2", "approveV2"}
      BY <1>1, <2>2 DEF Methods, GovernanceMethods, PeerMethods
    <3>3. Decimals = token_decimals["ONT"] /\ token_decimals[contract] + 0 = token_decimals[contract]
      BY <1>1, <1>2, <2>2, <3>1 DEF Decimals
    <3> QED BY <2>2, <3>2, <3>3, TokenAssumption DEF Standard
  <2>3. CASE contract \in {"WING", "STONT", "MBL"}
    <3>1. type # "NATIVE_CONTRACT"
      BY <1>6, <2>3 DEF IntendedType
    <3>2. method \notin {"transferV2", "transferFromV2", "approveV2"}
      BY <1>1, <2>3 DEF Methods
    <3>3. Decimals = token_decimals[contract] /\ token_decimals[contract] + 0 = token_decimals[contract]
      BY <1>1, <1>2, <3>1 DEF Decimals
    <3> QED BY <3>2, <3>3 DEF Standard
  <2> QED BY <1>1, <2>1, <2>2, <2>3 DEF Contracts
<1> QED BY <1>1, <1>2, <1>5, <1>6

\* A number that has room for all that may follow.
LEMMA LongestNumber ==
    /\ UINT128_MAX_LENGTH \in Nat /\ UINT128_MAX_LENGTH >= 2
    /\ \A n \in Nat : Power(10, n) < UINT64 * UINT64 => n < UINT128_MAX_LENGTH - 1
<1> DEFINE max == UINT128_MAX_LENGTH
           square == UINT64 * UINT64
<1>1. max \in Nat \ {0} /\ square <= Power(10, max - 1) /\ max - 1 \in Nat
  BY LengthAssumption
<1>2. square \in Nat /\ square >= 2
  <2>1. \A x \in Nat : x >= 256 => x * x \in Nat /\ x * x >= 2
    OBVIOUS
  <2> QED BY <2>1, WordHolds256
<1> HIDE DEF square
<1>3. Power(10, max - 1) \in Nat
  BY <1>1, PowerOf10
<1>4. max >= 2
  <2>1. ASSUME max - 1 = 0 PROVE FALSE
    BY <1>1, <1>2, <2>1, PowerZero
  <2> QED BY <1>1, <2>1
<1>5. ASSUME NEW n \in Nat, Power(10, n) < square PROVE n < max - 1
  <2>1. ASSUME max - 1 <= n PROVE FALSE
    <3>1. Power(10, max - 1) <= Power(10, n) /\ Power(10, n) \in Nat
      BY <1>1, <2>1, PowerOf10
    <3> QED BY <1>1, <1>2, <1>3, <1>5, <3>1
  <2> QED BY <1>1, <2>1
<1> QED BY <1>1, <1>4, <1>5 DEF square
-----------------------------------------------------------------------------
(* The steps.                                                              *)

\* A division keeps words and digits, and is exact.
LEMMA DivideExact ==
    ASSUME WordsAndDigits, Divide
    PROVE  /\ WordsAndDigits'
           /\ buffer'[1] \in 0 .. 9 /\ buffer' = <<buffer'[1]>> \o buffer
           /\ high * UINT64 + low = 10 * (high' * UINT64 + low') + buffer'[1]
<1> DEFINE q == high \div 10
           r == high % 10
           d == Rest % 10
<1>1. /\ high \in Word /\ low \in Word /\ buffer \in Seq(0 .. 9)
  BY DEF WordsAndDigits, Word
<1>2. /\ Rest \in Nat /\ Carries = 0 /\ SecondSum \in Word
      /\ r * UINT64 + low = 10 * SecondSum + d
  BY <1>1, NoCarry
<1>3. /\ q \in Nat /\ r \in 0 .. 9 /\ high = 10 * q + r /\ d \in 0 .. 9
  BY <1>1, <1>2, Tenths, WordSize DEF Word
<1>4. high' = q /\ low' = SecondSum
  BY <1>2, <1>3 DEF Divide, HighQuotient
<1>5. buffer' = <<d>> \o buffer
  BY DEF Divide
<1> HIDE DEF q, r, d
<1>6. buffer' \in Seq(0 .. 9) /\ buffer'[1] = d
  BY <1>1, <1>3, <1>5
<1>7. high' \in Word /\ low' \in Word
  BY <1>1, <1>2, <1>3, <1>4, WordSize DEF Word
<1>8. high * UINT64 + low = 10 * (high' * UINT64 + low') + d
  <2>1. /\ q * UINT64 \in Nat /\ r * UINT64 \in Nat
        /\ high * UINT64 = 10 * (q * UINT64) + r * UINT64
    BY <1>3, WordSize
  <2>2. low \in Nat /\ SecondSum \in Nat
    BY <1>1, <1>2, WordSize DEF Word
  <2>3. QED
    BY <1>2, <1>3, <1>4, <2>1, <2>2
<1>9. WordsAndDigits'
  BY <1>6, <1>7 DEF WordsAndDigits, IsRequest, Divide, Word
<1>10. QED
  BY <1>3, <1>5, <1>6, <1>8, <1>9

\* Every step keeps words and digits.
LEMMA Kept ==
    ASSUME WordsAndDigits, [Next]_vars
    PROVE  WordsAndDigits'
<1>1. CASE Convert
  <2>1. CASE stage' = "digits"
    <3>1. high' \in 0 .. UINT64 - 1 /\ low' \in 0 .. UINT64 - 1
      BY <1>1, <2>1, Converted DEF Convert, WordsAndDigits, Word
    <3>2. buffer' \in Seq(0 .. 9)
      <4>1. buffer' = <<0>> \/ buffer' = <<>>
        BY <1>1, <2>1 DEF Convert
      <4>2. <<0>> \in Seq(0 .. 9) /\ <<>> \in Seq(0 .. 9)
        OBVIOUS
      <4>3. QED
        BY <4>1, <4>2
    <3>3. QED
      BY <1>1, <2>1, <3>1, <3>2 DEF Convert, WordsAndDigits
  <2>2. CASE stage' = "refused"
    BY <1>1, <2>2 DEF Convert, WordsAndDigits
  <2>3. QED
    BY <1>1, <2>1, <2>2 DEF Convert
<1>2. CASE Divide
  BY <1>2, DivideExact
<1>3. CASE Place
  BY <1>3 DEF Place, WordsAndDigits
<1>4. CASE UNCHANGED vars
  BY <1>4 DEF vars, WordsAndDigits
<1>5. QED
  BY <1>1, <1>2, <1>3, <1>4 DEF Next

\* The words of format_u128 never overflow and its digits are digits.
THEOREM WordsNeverOverflow == Spec => []WordsAndDigits
<1>1. Init => WordsAndDigits
  BY RequestAssumption, WordSize DEF Init, WordsAndDigits
<1>2. WordsAndDigits /\ [Next]_vars => WordsAndDigits'
  BY Kept
<1>3. QED
  BY <1>1, <1>2, PTL DEF Spec

-----------------------------------------------------------------------------
(* From the parameter to the text.                                         *)

\* Between two divisions nothing is lost, and no digit is needless.
Midway ==
    /\ (high * UINT64 + low) * Power(10, Len(buffer)) + Spelled(buffer) = Number
    /\ Number \in Nat /\ Number < UINT64 * UINT64
    /\ high = 0 /\ low = 0 => IsNumeral(buffer)

\* The inductive invariant.
AInv ==
    /\ TypeOK
    /\ stage = "digits" => Midway
    /\ NothingCutOff
    /\ RefusedOnlyIfMismatched
    /\ ShowsTokens

\* Two words make up less than the square of a word's size.
LEMMA WordsBelowSquare ==
    ASSUME NEW a \in Word, NEW b \in Word
    PROVE  a * UINT64 + b \in Nat /\ a * UINT64 + b < UINT64 * UINT64
<1>1. UINT64 \in Nat /\ a \in Nat /\ a <= UINT64 - 1 /\ b \in Nat /\ b < UINT64
  BY WordSize DEF Word
<1>2. \A w \in Nat : a <= w - 1 => a * w <= w * w - w
  <2> SUFFICES ASSUME NEW w \in Nat, a <= w - 1 PROVE a * w <= w * w - w
    OBVIOUS
  <2>1. PICK d \in Nat : w - 1 = a + d
    BY <1>1
  <2>2. w * w - w = (w - 1) * w /\ (a + d) * w = a * w + d * w /\ d * w >= 0
    BY <1>1, <2>1
  <2>3. a * w \in Nat /\ d * w \in Nat
    BY <1>1, <2>1
  <2> QED BY <2>1, <2>2, <2>3
<1>3. a * UINT64 <= UINT64 * UINT64 - UINT64
  BY <1>1, <1>2
<1>4. a * UINT64 \in Nat /\ UINT64 * UINT64 \in Nat
  BY <1>1
<1> QED BY <1>1, <1>3, <1>4

\* A parameter in the form that the type of the call asks for can be read.
LEMMA ReadIfMatched ==
    ASSUME IsRequest(request),
           (request.kind = "UINT128") <=> (request.type = "WASMVM_CONTRACT")
    PROVE  Readable
<1> DEFINE kind == request.kind
           data == request.data
           first == data[1]
<1>1. /\ data \in Seq(Bytes) /\ Len(data) \in Nat /\ U64 \in Nat /\ 1 <= U64
      /\ Decimals <= UINT128_MAX_LENGTH - 1
  BY DecimalsFacts, LengthAssumption, WordAssumption, SMTT(30) DEF IsRequest
<1>2. CASE kind = "AMOUNT"
  <2>1. has_prefix /\ data # <<>> /\ AmountStarts(first) /\ Len(data) = AmountLength(first)
    BY <1>2 DEF has_prefix, IsRequest
  <2>2. first \in Nat
    <3>1. \A k \in 1 .. Len(data) : data[k] \in Bytes
      BY <1>1
    <3>2. 1 \in 1 .. Len(data) /\ Bytes \subseteq Nat
      BY <1>1, <2>1 DEF Bytes
    <3> QED BY <3>1, <3>2
  <2>3. CASE IsPushNumber(first) \/ first = 0
    <3>1. Len(data) = 1
      BY <2>1, <2>3 DEF AmountLength
    <3>2. FitsOneWord(kind, data) /\ convert_param_to_uint64_le(data) /\ 1 <= MaxAmountLength
      BY <1>1, <1>2, <2>3, <3>1 DEF FitsOneWord, convert_param_to_uint64_le, MaxAmountLength
    <3>3. convert_params_to_uint128_le(kind, has_prefix, data)
      BY <1>2, <2>1, <3>1, <3>2 DEF convert_params_to_uint128_le
    <3> QED BY <1>1, <2>1, <3>3 DEF Readable
  <2>4. CASE ~(IsPushNumber(first) \/ first = 0)
    <3>1. Len(data) = first + 1 /\ first >= 1 /\ first <= 2 * U64
      BY <2>1, <2>2, <2>4 DEF AmountLength, AmountStarts
    <3>2. Len(data) > 0 /\ Len(data) <= MaxAmountLength
      BY <1>1, <2>2, <3>1 DEF MaxAmountLength
    <3>3. FitsOneWord(kind, data) => convert_param_to_uint64_le(data)
      <4>1. Len(Tail(data)) = Len(data) - 1
        BY <1>1, <2>1
      <4>2. FitsOneWord(kind, data) => Len(data) \in 1 .. U64 + 1 /\ Len(Tail(data)) \in 1 .. U64
        <5> HIDE DEF data, first
        <5> QED BY <1>1, <2>2, <3>1, <4>1 DEF FitsOneWord
      <4>3. Len(data) - 1 = first
        BY <1>1, <2>2, <3>1
      <4> QED BY <2>4, <4>2, <4>3 DEF convert_param_to_uint64_le, convert_bytes_to_uint64_le
    <3>4. ~FitsOneWord(kind, data) => convert_bytes_to_uint64_le(HighBytes(kind, data))
      <4>1. HighBytes(kind, data) = SubSeq(data, 1 + U64 + 1, Len(data))
        BY <1>2 DEF HighBytes, Skipped
      <4>2. ~FitsOneWord(kind, data) => Len(data) >= U64 + 2
        BY <1>1, <1>2 DEF FitsOneWord
      <4>3. Len(data) >= U64 + 2 =>
                Len(SubSeq(data, 1 + U64 + 1, Len(data))) = Len(data) - (U64 + 1)
        BY <1>1
      <4> DEFINE back == SubSeq(data, 1 + U64 + 1, Len(data))
                 n == Len(data)
      <4>4. n >= U64 + 2 => Len(back) \in 1 .. U64
        <5> HIDE DEF back, first, n
        <5> QED BY <1>1, <2>2, <3>1, <4>3 DEF back, n
      <4> QED BY <4>1, <4>2, <4>4 DEF convert_bytes_to_uint64_le
    <3>5. convert_params_to_uint128_le(kind, has_prefix, data)
      BY <1>2, <2>1, <3>2, <3>3, <3>4 DEF convert_params_to_uint128_le
    <3> QED BY <1>1, <2>1, <3>5 DEF Readable
  <2> QED BY <2>3, <2>4
<1>3. CASE kind = "UINT128"
  <2>1. ~has_prefix /\ Len(data) = 2 * U64
    BY <1>3 DEF has_prefix, IsRequest
  <2>2. ~FitsOneWord(kind, data) /\ HighBytes(kind, data) = SubSeq(data, 0 + U64 + 1, Len(data))
    BY <1>3 DEF FitsOneWord, HighBytes, Skipped
  <2>3. Len(SubSeq(data, 0 + U64 + 1, Len(data))) = U64
    BY <1>1, <2>1
  <2>4. convert_bytes_to_uint64_le(HighBytes(kind, data))
    BY <1>1, <2>2, <2>3 DEF convert_bytes_to_uint64_le
  <2>5. convert_params_to_uint128_le(kind, has_prefix, data)
    BY <1>1, <1>3, <2>1, <2>2, <2>4 DEF convert_params_to_uint128_le
  <2> QED BY <1>1, <2>1, <2>5 DEF Readable
<1> QED BY <1>2, <1>3 DEF IsRequest

LEMMA AConvert ==
    ASSUME AInv, Convert
    PROVE  AInv'
<1>1. WordsAndDigits /\ WordsAndDigits' /\ IsRequest(request)
  BY Kept DEF AInv, TypeOK, WordsAndDigits, Next
<1>2. request' = request /\ text' = text /\ text \in Seq(0 .. Point) /\ Len(buffer) < UINT128_MAX_LENGTH
      /\ stage' \in {"digits", "refused"}
  BY DEF Convert, AInv, TypeOK
<1>3. CASE stage' = "digits"
  <2> DEFINE kind == request.kind
             data == request.data
  <2>1. low' = Low(kind, data) /\ high' = High(kind, data)
        /\ buffer' = IF high' = 0 /\ low' = 0 THEN <<0>> ELSE <<>>
    BY <1>3 DEF Convert
  <2>2. low' \in Word /\ high' \in Word /\ high' * UINT64 + low' = Number
    BY <1>1, <2>1, Converted
  <2>3. Number' = Number
    BY <1>2 DEF Number
  <2>4. Number \in Nat /\ Number < UINT64 * UINT64
    BY <2>2, WordsBelowSquare
  <2>5. CASE high' = 0 /\ low' = 0
    <3> DEFINE b == <<0>>
    <3>1. buffer' = b /\ Number = 0
      BY <2>1, <2>2, <2>5, WordSize
    <3>2. b \in Seq(Characters) /\ b \in Seq(Digits) /\ Len(b) = 1 /\ b # <<>> /\ b[1] = 0
      BY DEF Characters, Digits, Point
    <3>3. Spelled(b) = 0
      <4> HIDE DEF b
      <4>1. Len(b) \in 0 .. Len(b) /\ \A j \in 1 .. Len(b) : b[j] \in {0, Point}
        BY <3>2
      <4> QED BY <3>2, <4>1, SpelledZero DEF Spelled
    <3>4. IsNumeral(b)
      BY <3>2 DEF IsNumeral
    <3>5. Power(10, Len(b)) \in Nat
      BY <3>2, PowerOf10
    <3> HIDE DEF b
    <3>6. (high' * UINT64 + low') * Power(10, Len(buffer')) + Spelled(buffer') = Number
      BY <2>5, <3>1, <3>3, <3>5, WordSize
    <3>7. Midway' /\ Len(buffer') < UINT128_MAX_LENGTH
      BY <2>3, <2>4, <3>1, <3>2, <3>4, <3>6, LongestNumber DEF Midway
    <3> QED BY <1>1, <1>2, <1>3, <3>7
            DEF AInv, TypeOK, NothingCutOff, RefusedOnlyIfMismatched, ShowsTokens
  <2>6. CASE ~(high' = 0 /\ low' = 0)
    <3> DEFINE b == <<>>
    <3>1. buffer' = b
      BY <2>1, <2>6
    <3>2. b \in Seq(Characters) /\ Len(b) = 0
      OBVIOUS
    <3>3. Spelled(b) = 0
      BY <3>2, SpelledFacts DEF Spelled
    <3>4. Power(10, Len(b)) = 1
      BY <3>2, PowerZero
    <3> HIDE DEF b
    <3>5. (high' * UINT64 + low') * Power(10, Len(buffer')) + Spelled(buffer') = Number
      BY <2>2, <2>4, <3>1, <3>3, <3>4
    <3>6. Midway' /\ Len(buffer') < UINT128_MAX_LENGTH
      BY <2>3, <2>4, <2>6, <3>1, <3>2, <3>5, LongestNumber DEF Midway
    <3> QED BY <1>1, <1>2, <1>3, <3>6
            DEF AInv, TypeOK, NothingCutOff, RefusedOnlyIfMismatched, ShowsTokens
  <2> QED BY <2>5, <2>6
<1>4. CASE stage' = "refused"
  <2>1. ~Readable /\ buffer' = buffer
    BY <1>4 DEF Convert
  <2>2. (request.kind = "UINT128") # (request.type = "WASMVM_CONTRACT")
    BY <1>1, <2>1, ReadIfMatched
  <2>3. RefusedOnlyIfMismatched'
    BY <1>2, <2>2 DEF RefusedOnlyIfMismatched
  <2> QED BY <1>1, <1>2, <1>4, <2>1, <2>3 DEF AInv, TypeOK, NothingCutOff, ShowsTokens
<1> QED BY <1>2, <1>3, <1>4

LEMMA ADivide ==
    ASSUME AInv, Divide
    PROVE  AInv'
<1> DEFINE L == Len(buffer)
           P == Power(10, L)
           n == high * UINT64 + low
           m == high' * UINT64 + low'
           d == buffer'[1]
           S == Spelled(buffer)
<1>1. WordsAndDigits /\ WordsAndDigits' /\ IsRequest(request) /\ Midway /\ stage = "digits"
  BY Kept DEF AInv, TypeOK, WordsAndDigits, Next, Divide
<1>2. request' = request /\ text' = text /\ stage' = stage /\ text \in Seq(0 .. Point)
      /\ (high # 0 \/ low # 0)
  BY DEF Divide, AInv, TypeOK
<1>3. d \in 0 .. 9 /\ buffer' = <<d>> \o buffer /\ n = 10 * m + d
  BY <1>1, DivideExact
<1>4. high \in Word /\ low \in Word /\ high' \in Word /\ low' \in Word /\ buffer \in Seq(Digits)
      /\ L \in Nat
  BY <1>1 DEF WordsAndDigits, Word, Digits
<1>5. n \in Nat /\ m \in Nat
  BY <1>4, WordsBelowSquare
<1>6. n # 0
  <2> DEFINE h == high * UINT64
  <2>1. high \in Nat /\ low \in Nat /\ UINT64 \in Nat /\ UINT64 >= 1
    BY <1>4, WordSize DEF Word
  <2>2. high # 0 => h >= 1
    BY <2>1
  <2>3. h \in Nat
    BY <2>1
  <2> HIDE DEF h
  <2>4. h + low # 0
    BY <1>2, <2>1, <2>2, <2>3
  <2> QED BY <2>4 DEF h
<1>7. P \in Nat /\ P >= 1 /\ Power(10, L + 1) = 10 * P
  BY <1>4, PowerOf10
<1>8. /\ buffer' \in Seq(Digits) /\ Len(buffer') = L + 1
      /\ Spelled(buffer') = d * P + S
  BY <1>3, <1>4, SpelledPrepended DEF Digits
<1>9. S \in Nat
  <2>1. buffer \in Seq(Characters) /\ L \in 0 .. L
    BY <1>4 DEF Characters, Digits, Point
  <2> QED BY <2>1, SpelledFacts DEF Spelled
<1>10. n * P + S = Number /\ Number \in Nat /\ Number < UINT64 * UINT64
  BY <1>1 DEF Midway
<1>11. Number' = Number
  BY <1>2 DEF Number
<1> HIDE DEF n, m, P, S, L
<1>12. m * (10 * P) + (d * P + S) = Number
  <2>1. d \in Nat
    BY <1>3
  <2> HIDE DEF d
  <2>2. (10 * m + d) * P = m * (10 * P) + d * P
    BY <2>1, <1>5, <1>7
  <2>3. n * P = m * (10 * P) + d * P
    BY <1>3, <2>2
  <2>4. m * (10 * P) \in Nat /\ d * P \in Nat
    BY <1>5, <1>7, <2>1
  <2> QED BY <1>9, <1>10, <2>3, <2>4
<1>13. L + 1 < UINT128_MAX_LENGTH
  <2>1. n * P >= P
    BY <1>5, <1>6, <1>7
  <2>2. n * P \in Nat
    BY <1>5, <1>7
  <2>3. P <= Number
    BY <1>7, <1>9, <1>10, <2>1, <2>2
  <2>4. UINT64 * UINT64 \in Nat
    BY WordSize
  <2>5. P < UINT64 * UINT64
    BY <1>7, <1>10, <2>3, <2>4
  <2>6. L < UINT128_MAX_LENGTH - 1
    BY <1>4, <2>5, LongestNumber DEF P
  <2> QED BY <1>4, <2>6, LongestNumber
<1>14. ASSUME high' = 0, low' = 0 PROVE IsNumeral(buffer')
  <2>1. m = 0
    BY <1>14, WordSize DEF m
  <2>2. d # 0
    BY <1>3, <1>6, <2>1
  <2>3. buffer' # <<>>
    BY <1>4, <1>8
  <2> QED BY <1>8, <2>2, <2>3 DEF IsNumeral
<1>15. Midway'
  <2>1. m * Power(10, Len(buffer')) + Spelled(buffer') = Number
    BY <1>7, <1>8, <1>12
  <2> QED BY <1>10, <1>11, <1>14, <2>1 DEF Midway, m
<1> QED BY <1>1, <1>2, <1>8, <1>13, <1>15
        DEF AInv, TypeOK, NothingCutOff, RefusedOnlyIfMismatched, ShowsTokens

LEMMA APlace ==
    ASSUME AInv, Place
    PROVE  AInv'
<1> DEFINE L == Len(buffer)
           p == Decimals
           t == process_precision(buffer, p)
           max == UINT128_MAX_LENGTH
           tick == ticker_length[request.contract]
<1>1. WordsAndDigits /\ WordsAndDigits' /\ IsRequest(request) /\ Midway /\ stage = "digits"
      /\ high = 0 /\ low = 0 /\ L < max
  BY Kept DEF AInv, TypeOK, WordsAndDigits, Next, Place
<1>2. request' = request /\ buffer' = buffer /\ high' = high /\ low' = low
  BY DEF Place
<1>3. /\ p \in Nat /\ p < max /\ tick \in Nat /\ max + 3 + tick <= buffer_len
      /\ request.type = IntendedType(request.contract) =>
             p = Standard(request.contract, request.method)
  BY <1>1, DecimalsFacts
<1>4. max \in Nat /\ buffer_len \in Nat
  BY LengthAssumption
<1>5. IsNumeral(buffer) /\ Spelled(buffer) = Number
  <2>1. IsNumeral(buffer)
    BY <1>1 DEF Midway
  <2>2. (0 * UINT64 + 0) * Power(10, L) + Spelled(buffer) = Number
    BY <1>1 DEF Midway
  <2>3. buffer \in Seq(Characters) /\ L \in Nat /\ L \in 0 .. L
    BY <2>1 DEF IsNumeral, Digits, Characters, Point
  <2>4. Power(10, L) \in Nat /\ Spelled(buffer) \in Nat
    BY <2>3, PowerOf10, SpelledFacts DEF Spelled
  <2> QED BY <2>1, <2>2, <2>4, WordSize
<1>6. L \in Nat
  BY <1>5 DEF IsNumeral
<1> HIDE DEF p, tick
<1>7. /\ t \in Seq(Characters) /\ IsCanonical(t) /\ FractionOf(t) \in 0 .. p
      /\ Len(t) <= (IF p >= L THEN p + 2 ELSE L + 1)
      /\ Spelled(t) * Power(10, p - FractionOf(t)) = Spelled(buffer)
  BY <1>3, <1>5, PlacedSpells
<1> HIDE DEF L
<1>8. Len(t) \in Nat /\ Len(t) <= max + 1
  BY <1>1, <1>3, <1>4, <1>6, <1>7
<1>9. Len(buffer) + 1 <= max /\ max_len(buffer, p) + 1 <= buffer_len
  <2>1. max_len(buffer, p) = L + (IF p > L THEN p - L + 2 ELSE 1)
    BY DEF max_len, L
  <2>2. L + 1 <= max
    BY <1>1, <1>4, <1>6
  <2> QED BY <1>1, <1>3, <1>4, <1>6, <2>1, <2>2 DEF L
<1>10. stage' = "shown" /\ text' = t
  BY <1>9 DEF Place, HasRoom, p
<1> HIDE DEF t
<1>11. NothingCutOff'
  <2>1. UnitLength' = UnitLength
    BY <1>2 DEF UnitLength
  <2>2. UnitLength \in Nat /\ UnitLength <= 1 + tick
    BY <1>3 DEF UnitLength, tick
  <2>3. Len(t) + UnitLength + 1 <= buffer_len
    BY <1>3, <1>4, <1>8, <2>2
  <2> QED BY <1>10, <2>1, <2>3 DEF NothingCutOff
<1>12. ShowsTokens'
  <2>1. Number' = Number
    BY <1>2 DEF Number
  <2>2. Fraction' = FractionOf(t)
    BY <1>10 DEF Fraction, FractionOf
  <2>3. Canonical'
    BY <1>7, <1>10, <2>2 DEF Canonical, IsCanonical
  <2>4. ASSUME request.type = IntendedType(request.contract)
        PROVE  /\ FractionOf(t) <= Standard(request.contract, request.method)
               /\ Spelled(t) * Power(10, Standard(request.contract, request.method) - FractionOf(t))
                      = Number
    BY <1>3, <1>5, <1>7, <2>4
  <2> QED BY <1>2, <1>10, <2>1, <2>2, <2>3, <2>4 DEF ShowsTokens
<1>13. TypeOK' /\ RefusedOnlyIfMismatched' /\ (stage' = "digits" => Midway')
  BY <1>1, <1>2, <1>7, <1>10 DEF TypeOK, RefusedOnlyIfMismatched, Characters, L
<1> QED BY <1>11, <1>12, <1>13 DEF AInv

LEMMA Lasting == Spec => []AInv
<1>1. Init => AInv
  <2> SUFFICES ASSUME Init PROVE AInv
    OBVIOUS
  <2>1. WordsAndDigits /\ text \in Seq(0 .. Point) /\ Len(buffer) = 0 /\ stage = "convert"
    BY RequestAssumption, WordSize DEF Init, WordsAndDigits
  <2> QED BY <2>1, LengthAssumption
          DEF AInv, TypeOK, NothingCutOff, RefusedOnlyIfMismatched, ShowsTokens
<1>2. AInv /\ [Next]_vars => AInv'
  <2> SUFFICES ASSUME AInv, [Next]_vars PROVE AInv'
    OBVIOUS
  <2>1. CASE UNCHANGED vars
    <3>1. UNCHANGED <<WordsAndDigits, Midway, Number, Fraction, Canonical, UnitLength>>
      BY <2>1 DEF vars, WordsAndDigits, Midway, Number, Fraction, Canonical, UnitLength, IsRequest
    <3> QED BY <2>1, <3>1
            DEF vars, AInv, TypeOK, NothingCutOff, RefusedOnlyIfMismatched, ShowsTokens
  <2> QED BY <2>1, AConvert, ADivide, APlace DEF Next
<1> QED BY <1>1, <1>2, PTL DEF Spec

\* No digit is ever written in front of format_u128's buffer.
THEOREM TypesHold == Spec => []TypeOK
<1>1. AInv => TypeOK
  BY DEF AInv
<1> QED BY <1>1, Lasting, PTL

\* Between two divisions the digits and the two words make up the number of
\* the parameter, read at once.
THEOREM NothingIsLost == Spec => []NoneLost
<1>1. AInv => NoneLost
  BY DEF AInv, Midway, NoneLost
<1> QED BY <1>1, Lasting, PTL

\* The page shows the amount in whole tokens, exactly and in one form.
THEOREM TokensAreShown == Spec => []ShowsTokens
<1>1. AInv => ShowsTokens
  BY DEF AInv
<1> QED BY <1>1, Lasting, PTL

\* strlcat never cuts off the unit behind an amount.
THEOREM UnitsFit == Spec => []NothingCutOff
<1>1. AInv => NothingCutOff
  BY DEF AInv
<1> QED BY <1>1, Lasting, PTL

\* convert_param_to_chars refuses an amount only where the type of the call
\* and the table disagree on how amounts are written.
THEOREM MatchedAmountsAreShown == Spec => []RefusedOnlyIfMismatched
<1>1. AInv => RefusedOnlyIfMismatched
  BY DEF AInv
<1> QED BY <1>1, Lasting, PTL
=============================================================================
