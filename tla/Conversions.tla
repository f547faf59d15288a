---------------------------- MODULE Conversions ----------------------------
(***************************************************************************)
(* Bytes to numbers: the little-endian conversions of transaction/utils.c  *)
(* and the encoding of an amount that parse_amount accepts.  A uint64_t    *)
(* has U64 bytes and UINT64 values, of which the program has 8 and 2^64.   *)
(***************************************************************************)
EXTENDS Naturals, Sequences, Series

CONSTANTS U64, UINT64

ASSUME WordAssumption ==
    /\ U64 \in 1 .. 8
    /\ UINT64 \in Nat \ {0} /\ UINT64 = Power(256, U64)

Bytes == 0 .. 255

OPCODE_PUSH_NUMBER == 80

\* The number that bytes spell, the least significant first.
LittleEndian(bytes) == Worth(256, bytes)

\* PUSHN: one byte that stands for a number from 1 to 16.
IsPushNumber(byte) == byte \in OPCODE_PUSH_NUMBER + 1 .. OPCODE_PUSH_NUMBER + 16

\* Fault: the first byte may count one byte more than 128 bits have.
LongAmountStarts(byte) == IsPushNumber(byte) \/ byte <= 2 * U64 + 1

\* The length of an amount by its first byte; an amount has at most 128 bits.
AmountStarts(byte) == IsPushNumber(byte) \/ byte <= 2 * U64

AmountLength(byte) == IF IsPushNumber(byte) \/ byte = 0 THEN 1 ELSE byte + 1
-----------------------------------------------------------------------------
(* Each conversion: when it succeeds, and the number it then delivers.     *)

convert_bytes_to_uint64_le(bytes) == Len(bytes) \in 1 .. U64

\* An amount with its first byte.
convert_param_to_uint64_le(data) ==
    /\ Len(data) \in 1 .. U64 + 1
    /\ IF IsPushNumber(data[1]) \/ data[1] = 0
       THEN Len(data) = 1
       ELSE Len(data) - 1 = data[1] /\ convert_bytes_to_uint64_le(Tail(data))

AsUint64(data) ==
    IF IsPushNumber(data[1]) THEN data[1] - OPCODE_PUSH_NUMBER ELSE LittleEndian(Tail(data))

\* An AMOUNT has a first byte that is skipped; a UINT128 has none.
Skipped(kind) == IF kind = "AMOUNT" THEN 1 ELSE 0

LowBytes(kind, data) == SubSeq(data, Skipped(kind) + 1, Skipped(kind) + U64)

HighBytes(kind, data) == SubSeq(data, Skipped(kind) + U64 + 1, Len(data))

FitsOneWord(kind, data) == kind = "AMOUNT" /\ Len(data) <= U64 + 1

\* Fault: the first byte of an amount is not counted.
MaxWithoutFirst == 2 * U64

MaxAmountLength == 2 * U64 + 1

\* has_prefix is the page's idea of the first byte, from the type of the call.
convert_params_to_uint128_le(kind, has_prefix, data) ==
    /\ Len(data) > 0
    /\ kind = "AMOUNT"  => has_prefix /\ Len(data) <= MaxAmountLength
    /\ kind = "UINT128" => ~has_prefix /\ Len(data) = 2 * U64
    /\ IF FitsOneWord(kind, data)
       THEN convert_param_to_uint64_le(data)
       ELSE convert_bytes_to_uint64_le(HighBytes(kind, data))

Low(kind, data) ==
    IF FitsOneWord(kind, data) THEN AsUint64(data) ELSE LittleEndian(LowBytes(kind, data))

High(kind, data) ==
    IF FitsOneWord(kind, data) THEN 0 ELSE LittleEndian(HighBytes(kind, data))
=============================================================================
