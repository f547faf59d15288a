------------------------------ MODULE Amounts ------------------------------
(***************************************************************************)
(* An amount on the page: convert_param_amount_to_chars, which divides a   *)
(* number of two words by ten, digit by digit, places the decimal point    *)
(* where the token's decimals want it and trims the zeros behind it, and   *)
(* convert_param_to_chars, which adds the unit.                            *)
(*                                                                         *)
(* A text is a sequence of digits, with Point for the decimal point.  A    *)
(* request is a parameter and the call it belongs to: a record of type,    *)
(* contract, method, kind and data.                                        *)
(***************************************************************************)
EXTENDS Contracts, Conversions, Integers, FiniteSetsExt

CONSTANTS
    Requests,
    UINT128_MAX_LENGTH,       \* characters of the longest number and its end
    P64_Q, P64_R,             \* UINT64 divided by ten
    token_decimals,           \* [Contracts -> Nat], of the table
    V2_DECIMALS,              \* what the methods named V2 add
    ticker_length,            \* [Contracts -> Nat]
    buffer_len                \* of a slot of the page

ASSUME QuotientAssumption ==
    /\ P64_Q \in Nat /\ P64_R \in 0 .. 9
    /\ UINT64 = 10 * P64_Q + P64_R

\* No number of two words is longer, and a slot holds the longest number with
\* all its decimals and the longest unit.
ASSUME LengthAssumption ==
    /\ UINT128_MAX_LENGTH \in Nat \ {0} /\ buffer_len \in Nat
    /\ UINT64 * UINT64 <= Power(10, UINT128_MAX_LENGTH - 1)
    /\ \A contract \in Contracts :
           /\ token_decimals[contract] + V2_DECIMALS < UINT128_MAX_LENGTH
           /\ UINT128_MAX_LENGTH + 3 + ticker_length[contract] <= buffer_len

\* The governance contract moves ONT.
ASSUME TokenAssumption ==
    /\ token_decimals \in [Contracts -> Nat] /\ ticker_length \in [Contracts -> Nat]
    /\ token_decimals["GOV"] = token_decimals["ONT"] /\ V2_DECIMALS \in Nat

\* What parse_amount and parse_uint128 leave.
IsRequest(r) ==
    /\ r.type \in ContractTypes /\ r.contract \in Contracts /\ r.method \in Methods(r.contract)
    /\ r.data \in Seq(Bytes)
    /\ \/ /\ r.kind = "AMOUNT" /\ r.data # <<>>
          /\ AmountStarts(r.data[1]) /\ Len(r.data) = AmountLength(r.data[1])
       \/ r.kind = "UINT128" /\ Len(r.data) = 2 * U64

ASSUME RequestAssumption == \A r \in Requests : IsRequest(r)

VARIABLES
    request,
    stage,      \* where the code is
    high, low,  \* what is left of the number
    buffer,     \* its digits so far, the last one last
    text        \* the amount on the page

vars == <<request, stage, high, low, buffer, text>>
-----------------------------------------------------------------------------
(* The token's decimals, chosen while the parameters are parsed.           *)

\* Fault: an approval is forgotten.
TransfersV2 == {"transferV2", "transferFromV2"}

V2Methods == {"transferV2", "transferFromV2", "approveV2"}

Decimals ==
    IF request.type # "NATIVE_CONTRACT"
    THEN token_decimals[request.contract]
    ELSE CASE request.contract \in {"ONT", "ONG"} ->
                  token_decimals[request.contract]
                      + (IF request.method \in V2Methods THEN V2_DECIMALS ELSE 0)
           [] OTHER -> token_decimals["ONT"]

has_prefix == request.type # "WASMVM_CONTRACT"

Readable ==
    /\ has_prefix \/ Len(request.data) = 2 * U64
    /\ convert_params_to_uint128_le(request.kind, has_prefix, request.data)
    /\ Decimals <= UINT128_MAX_LENGTH - 1
-----------------------------------------------------------------------------
(* format_u128: division of high and low by ten.                           *)

high_part_q == (high % 10) * P64_Q

\* Fault: the remainder of the high word does not reach the last digit.
LowPart == low % 10

Rest == (high % 10) * P64_R + (low % 10)

\* Two additions in a word, each of which may carry.
FirstSum == (high_part_q + (low \div 10)) % UINT64

SecondSum == (FirstSum + (Rest \div 10)) % UINT64

Carries ==
    (IF FirstSum < low \div 10 THEN 1 ELSE 0) + (IF SecondSum < Rest \div 10 THEN 1 ELSE 0)

\* Fault: the high word is not divided.
Undivided == high + Carries

HighQuotient == high \div 10 + Carries
-----------------------------------------------------------------------------
(* process_precision: the decimal point.                                   *)

Point == 10       \* no digit

Zeros(n) == [k \in 1 .. n |-> 0]

\* The room asked for: one short where there are as many decimals as digits.
max_len(digits, precision) ==
    Len(digits) + (IF precision > Len(digits) THEN precision - Len(digits) + 2 ELSE 1)

WithoutZero(digits, precision) ==
    SubSeq(digits, 1, Len(digits) - precision) \o <<Point>>
        \o SubSeq(digits, Len(digits) - precision + 1, Len(digits))

\* Fault: as many zeros as decimals.
PaddedFully(digits, precision) ==
    CASE precision >= Len(digits) -> <<0, Point>> \o Zeros(precision) \o digits
      [] precision = 0 -> digits
      [] OTHER -> WithoutZero(digits, precision)

Pointed(digits, precision) ==
    CASE precision >= Len(digits) ->
             <<0, Point>> \o Zeros(precision - Len(digits)) \o digits
      [] precision = 0 -> digits
      [] OTHER -> WithoutZero(digits, precision)

\* Zeros behind the point go, and the point with them if nothing is left.
Trimmed(characters) ==
    LET last == Max({k \in 1 .. Len(characters) : characters[k] # 0})
    IN  IF Point \in Range(characters)
        THEN SubSeq(characters, 1, IF characters[last] = Point THEN last - 1 ELSE last)
        ELSE characters

process_precision(digits, precision) == Trimmed(Pointed(digits, precision))

\* The length of what follows: a percent sign, or a blank and the ticker.
UnitLength ==
    IF request.method = "setFeePercentage" THEN 1 ELSE 1 + ticker_length[request.contract]
-----------------------------------------------------------------------------
(* The steps.                                                              *)

Convert ==
    /\ stage = "convert"
    /\ \/ /\ Readable
          /\ low' = Low(request.kind, request.data) /\ high' = High(request.kind, request.data)
          /\ buffer' = IF high' = 0 /\ low' = 0 THEN <<0>> ELSE <<>>
          /\ stage' = "digits"
       \/ ~Readable /\ stage' = "refused" /\ UNCHANGED <<high, low, buffer>>
    /\ UNCHANGED <<request, text>>

Divide ==
    /\ stage = "digits" /\ (high # 0 \/ low # 0)
    /\ buffer' = <<Rest % 10>> \o buffer
    /\ high' = HighQuotient
    /\ low' = SecondSum
    /\ UNCHANGED <<request, stage, text>>

\* The digits and their end in format_u128's buffer, the text in the slot: neither
\* is too short for any amount, see RefusedOnlyIfMismatched.
HasRoom ==
    /\ Len(buffer) + 1 <= UINT128_MAX_LENGTH
    /\ max_len(buffer, Decimals) + 1 <= buffer_len

Place ==
    /\ stage = "digits" /\ high = 0 /\ low = 0
    /\ \/ /\ HasRoom
          /\ stage' = "shown" /\ text' = process_precision(buffer, Decimals)
       \/ ~HasRoom /\ stage' = "refused" /\ UNCHANGED text
    /\ UNCHANGED <<request, high, low, buffer>>
-----------------------------------------------------------------------------
Init ==
    /\ request \in Requests
    /\ stage = "convert"
    /\ high = 0 /\ low = 0
    /\ buffer = <<>> /\ text = <<>>

Next ==
    \/ Convert
    \/ Divide
    \/ Place

Spec == Init /\ [][Next]_vars
-----------------------------------------------------------------------------
(* Properties.                                                             *)

\* Numbers that fit into words, and digits.
WordsAndDigits ==
    /\ IsRequest(request)
    /\ stage \in {"convert", "digits", "shown", "refused"}
    /\ high \in 0 .. UINT64 - 1 /\ low \in 0 .. UINT64 - 1
    /\ buffer \in Seq(0 .. 9)

\* Words and digits, and no digit in front of format_u128's buffer.
TypeOK ==
    /\ WordsAndDigits
    /\ Len(buffer) < UINT128_MAX_LENGTH
    /\ text \in Seq(0 .. Point)

\* The number that digits spell, the point left out.
SpelledUpTo(characters) ==
    LET upTo[n \in 0 .. Len(characters)] ==
            IF n = 0 THEN 0
            ELSE IF characters[n] = Point THEN upTo[n - 1] ELSE 10 * upTo[n - 1] + characters[n]
    IN  upTo

Spelled(characters) == SpelledUpTo(characters)[Len(characters)]

\* The number that the bytes of the parameter spell, computed at once.
Number ==
    LET data == request.data
    IN  IF request.kind = "AMOUNT" /\ IsPushNumber(data[1])
        THEN data[1] - OPCODE_PUSH_NUMBER
        ELSE LittleEndian(SubSeq(data, Skipped(request.kind) + 1, Len(data)))

\* Between two divisions the digits and what is left make up the number: no
\* digit is lost or wrong, whatever the words carry.
NoneLost ==
    stage = "digits" => (high * UINT64 + low) * Power(10, Len(buffer)) + Spelled(buffer) = Number

\* The decimals of a token under a method, as the comment on
\* transaction_deserialize_params gives them.
Standard(contract, method) ==
    token_decimals[contract]
        + (IF method \in {"transferV2", "transferFromV2", "approveV2"} THEN V2_DECIMALS ELSE 0)

Fraction ==
    IF Point \in Range(text) THEN Len(text) - (CHOOSE k \in 1 .. Len(text) : text[k] = Point) ELSE 0

\* One way to write each number: a digit in front of the point, none needless.
Canonical ==
    /\ text # <<>> /\ text[1] # Point
    /\ text[1] = 0 => Len(text) = 1 \/ text[2] = Point
    /\ Point \in Range(text) => Fraction > 0 /\ text[Len(text)] # 0

\* What the page shows is the amount in whole tokens, exactly and in one form.
ShowsTokens ==
    stage = "shown" /\ request.type = IntendedType(request.contract) =>
        /\ Canonical
        /\ Fraction <= Standard(request.contract, request.method)
        /\ Spelled(text) * Power(10, Standard(request.contract, request.method) - Fraction) = Number

\* The unit fits behind the amount: strlcat would cut it off in silence.
NothingCutOff == stage = "shown" => Len(text) + UnitLength + 1 <= buffer_len

\* An amount is refused only when the type of the call and the table disagree on
\* how amounts are written; the lengths never stop one.
RefusedOnlyIfMismatched ==
    stage = "refused" => (request.kind = "UINT128") # (request.type = "WASMVM_CONTRACT")
=============================================================================
