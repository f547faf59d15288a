---------------------------- MODULE CallFormat -----------------------------
(***************************************************************************)
(* The bytes of a contract call: the opcodes of tx_types.h and, written    *)
(* front to back as the comment on top of deserialize.c gives it, the      *)
(* format that the parser takes apart.  The format is the reference which  *)
(* TxParser is compared with; no step of the parser uses it.               *)
(***************************************************************************)
EXTENDS Contracts, Conversions

CONSTANT NATIVE_INVOKE    \* the name of the native contracts' system call

OPCODE_SYSCALL      == <<0, 104>>
OPCODE_APPCALL      == <<103>>
OPCODE_PACK         == <<193>>
OPCODE_END          == <<0>>
OPCODE_ST_BEGIN     == <<0, 198, 107>>
OPCODE_ST_END       == <<108>>
OPCODE_PARAM_END    == <<106, 124, 200>>
OPCODE_PARAM_ST_END == <<106, 124, 200, 108>>
-----------------------------------------------------------------------------
\* The least significant length bytes of a number.
NumberBytes(number, length) == [k \in 1 .. length |-> (number \div Power(256, k - 1)) % 256]

WithLength(bytes) == <<Len(bytes)>> \o bytes

\* The ways to write a number as an amount of at most one word.
AmountForms(number) ==
    (IF number = 0 THEN {<<0>>} ELSE {})
        \cup (IF number \in 1 .. 16 THEN {<<OPCODE_PUSH_NUMBER + number>>} ELSE {})
        \cup {WithLength(NumberBytes(number, length)) :
                 length \in {l \in 1 .. U64 : number < Power(256, l)}}

ClosedAll(parts) == Concat([k \in 1 .. Len(parts) |-> parts[k] \o OPCODE_PARAM_END])

\* A call is a record: type, address, method and signature; the contents of its
\* entries (values); the number of pairs or transfers (n) and the way it is
\* written (count); the way the number of parameters is written (total); and
\* the identity in it (id).

\* One parameter of a call, with the values of its own entries.
Part(c, parameter, values) ==
    LET address(v) == IF c.type = "WASMVM_CONTRACT" THEN v ELSE WithLength(v)
        last       == Len(values)
    IN  CASE parameter = "ADDR"                   -> address(values[1])
          [] parameter = "PUBKEY"                 -> WithLength(values[1])
          [] parameter \in {"AMOUNT", "UINT128"}  -> values[1]
          [] parameter = "ONTID"                  -> WithLength(c.id)
          [] parameter = "TRANSFER_STATE"         ->
                 OPCODE_ST_BEGIN
                     \o ClosedAll(<<WithLength(values[1]), WithLength(values[2]), values[3]>>)
                     \o OPCODE_ST_END
          [] parameter = "PK_AMOUNT_PAIRS"        ->
                 ClosedAll(<<values[1]>> \o [k \in 1 .. c.n |-> WithLength(values[1 + k])]
                              \o <<c.count>> \o SubSeq(values, 2 + c.n, last - 1))
                     \o values[last]

\* The values of the k-th parameter of a call.
ValuesOf(c, k) ==
    LET upTo == Sums([j \in 1 .. Len(c.signature) |-> Len(Entries(c.signature[j], c.n))])
    IN  SubSeq(c.values, upTo[k - 1] + 1, upTo[k])

IsList(c) == c.signature = <<"TRANSFER_STATE_LIST">>

ParamsCode(c) ==
    LET parts  == [k \in 1 .. Len(c.signature) |-> Part(c, c.signature[k], ValuesOf(c, k))]
        states == [k \in 1 .. c.n |->
                      Part(c, "TRANSFER_STATE", SubSeq(c.values, 3 * k - 2, 3 * k))]
    IN  CASE IsList(c) -> Concat(states) \o c.count \o OPCODE_PACK
          [] ~IsList(c) /\ c.type = "NATIVE_CONTRACT" ->
                 OPCODE_ST_BEGIN \o ClosedAll(parts) \o OPCODE_ST_END
          [] c.type = "NEOVM_CONTRACT"  -> Concat(parts) \o c.total \o OPCODE_PACK
          [] c.type = "WASMVM_CONTRACT" -> Concat(parts)

\* A call with the code of its parameters: the payload and the byte behind it.
CallCode(c, body) ==
    CASE c.type = "NATIVE_CONTRACT" ->
             body \o WithLength(c.method) \o WithLength(c.address)
                 \o OPCODE_SYSCALL \o NATIVE_INVOKE \o OPCODE_END
      [] c.type = "NEOVM_CONTRACT"  ->
             body \o WithLength(c.method) \o OPCODE_APPCALL \o c.address \o OPCODE_END
      [] c.type = "WASMVM_CONTRACT" ->
             c.address \o WithLength(WithLength(c.method) \o body) \o OPCODE_END
=============================================================================
