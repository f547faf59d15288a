----------------------------- MODULE TxParser ------------------------------
(***************************************************************************)
(* transaction_deserialize: the parser that reads an uploaded transaction, *)
(* one straight piece of code or one iteration of a loop at a time.        *)
(*                                                                         *)
(* The parser leaves pointers into the buffer, no copies: a parameter is   *)
(* a kind, a position and a length.  The header's fields and the payload's *)
(* length are functions of the buffer.  Positions count from zero, as in   *)
(* the code.  Every step reads forward from the cursor (offset), except    *)
(* for contract and method, which stand at the end of the buffer.          *)
(***************************************************************************)
EXTENDS CallFormat, Integers, FiniteSetsExt

CONSTANTS
    Buffers,                  \* uploaded transactions: sequences of bytes
    U16, U32,                 \* sizeof(uint16_t), sizeof(uint32_t)
    SIZE_T,                   \* number of values of a size_t
    ADDRESS_SCRIPT_HASH_LEN,
    COMPRESSED_KEY_LEN,
    MAX_TRANSACTION_LEN,
    PARAMETERS_MAX_NUM,
    GAS_PRICE_MIN, GAS_LIMIT_MIN, TOKEN_AMOUNT,
    AddressOf,                \* [Contracts -> addresses]
    NameOf                    \* [KnownNames -> byte sequences]

KnownNames == UNION {Methods(contract) : contract \in Contracts}

ASSUME BufferAssumption == \A b \in Buffers : b \in Seq(Bytes) /\ Len(b) < SIZE_T

ASSUME SizeAssumption ==
    /\ U16 \in Nat \ {0} /\ U32 \in Nat \ {0} /\ SIZE_T \in Nat
    /\ ADDRESS_SCRIPT_HASH_LEN \in Nat \ {0} /\ COMPRESSED_KEY_LEN \in Nat \ {0}
    /\ MAX_TRANSACTION_LEN \in Nat /\ PARAMETERS_MAX_NUM \in Nat
    /\ GAS_PRICE_MIN \in Nat \ {0} /\ GAS_LIMIT_MIN \in Nat
    /\ TOKEN_AMOUNT \in 0 .. UINT64 - 1
    /\ NATIVE_INVOKE \in Seq(Bytes)

\* A list of peers that is as long as a transaction has room for leaves room in
\* method.parameters: 4096 bytes for 90 parameters, 6844 for 150, keys of 70.
ASSUME CapacityAssumption ==
    /\ MAX_TRANSACTION_LEN < (PARAMETERS_MAX_NUM - 2) * (2 * COMPRESSED_KEY_LEN + 4)
    /\ 2 * PARAMETERS_MAX_NUM < UINT64

ASSUME TableAssumption ==
    /\ \A contract \in Contracts : Len(AddressOf[contract]) = ADDRESS_SCRIPT_HASH_LEN
    /\ \A c, d \in Contracts : AddressOf[c] = AddressOf[d] => c = d
    /\ \A m, n \in KnownNames : NameOf[m] = NameOf[n] => m = n

VARIABLES
    buf,      \* the transaction
    offset,   \* buf->offset
    stage,    \* where the code is; at the end, the parser's status
    type,     \* contract.type
    addr,     \* position of contract.addr
    name,     \* method.name
    params,   \* the entries of method.parameters written so far
    cur,      \* index of the next one
    todo,     \* parameters of the method's signature not yet parsed
    num, i    \* pks_num and the loops' variable; i also counts transfers

call == <<type, addr, name>>

list == <<params, cur, todo>>

loop == <<num, i>>

vars == <<buf, offset, stage, call, list, loop>>

Statuses == {"PARSING_OK", "PARSING_TX_NOT_DEFINED", "PARSING_LENGTH_WRONG",
             "PARSING_BYTECODE_WRONG"}
-----------------------------------------------------------------------------
(* Reading.  A function of a position returns the position behind what it  *)
(* reads, or Past, from which nothing can be read, if that is not there.   *)

size == Len(buf)

Past == size + 1

Byte(at) == buf[at + 1]

Slice(at, len) == SubSeq(buf, at + 1, at + len)

buffer_can_read(at, n) == at + n <= size

buffer_seek_cur(at, n) == IF buffer_can_read(at, n) THEN at + n ELSE Past

Found(at) == at <= size

parse_check_constant(at, str) ==
    IF buffer_can_read(at, Len(str)) /\ Slice(at, Len(str)) = str THEN at + Len(str) ELSE Past

\* A byte that counts the ones behind it.
Sized(at, sizes) ==
    IF buffer_can_read(at, 1) /\ Byte(at) \in sizes
    THEN buffer_seek_cur(at + 1, Byte(at))
    ELSE Past

parse_address(at, has_length) ==
    IF has_length
    THEN Sized(at, {ADDRESS_SCRIPT_HASH_LEN})
    ELSE buffer_seek_cur(at, ADDRESS_SCRIPT_HASH_LEN)

parse_pk(at) == Sized(at, {2 * COMPRESSED_KEY_LEN})

parse_ont_id(at) == Sized(at, 1 .. 255)

parse_uint128(at) == buffer_seek_cur(at, 2 * U64)

parse_amount(at) ==
    IF buffer_can_read(at, 1) /\ AmountStarts(Byte(at))
    THEN buffer_seek_cur(at, AmountLength(Byte(at)))
    ELSE Past

IsAmount(at, number) ==
    LET data == Slice(at, parse_amount(at) - at)
    IN  /\ Found(parse_amount(at))
        /\ convert_param_to_uint64_le(data)
        /\ AsUint64(data) = number

parse_check_amount(at, number) == IF IsAmount(at, number) THEN parse_amount(at) ELSE Past
-----------------------------------------------------------------------------
(* Header and payload length.                                              *)

GasPriceAt == 2 + U32

HeaderLength == GasPriceAt + 2 * U64 + ADDRESS_SCRIPT_HASH_LEN

tx_type == Byte(1)

gas_price == LittleEndian(Slice(GasPriceAt, U64))

gas_limit == LittleEndian(Slice(GasPriceAt + U64, U64))

\* Fault: the limit has no upper bound.
NoGasLimitMax == gas_price >= GAS_PRICE_MIN /\ gas_limit >= GAS_LIMIT_MIN

GasInRange ==
    /\ gas_price >= GAS_PRICE_MIN
    /\ gas_limit >= GAS_LIMIT_MIN
    /\ gas_limit <= TOKEN_AMOUNT \div gas_price

\* The width of the payload's length behind its first byte.
Width(first) ==
    CASE first = 253 -> U16
      [] first = 254 -> U32
      [] first = 255 -> U64
      [] OTHER       -> 0

DeclaredPayload(at) ==
    IF Width(Byte(at)) = 0 THEN Byte(at) ELSE LittleEndian(Slice(at + 1, Width(Byte(at))))

\* A size_t holds it.
payload_size(at) == DeclaredPayload(at) % SIZE_T

PayloadAt(at) == at + 1 + Width(Byte(at))

LengthFits(at) == (PayloadAt(at) + payload_size(at) + 1) % SIZE_T = size
-----------------------------------------------------------------------------
(* Contract and method.                                                    *)

NATIVE_CONTRACT_CONSTANT_LENGTH ==
    1 + ADDRESS_SCRIPT_HASH_LEN + Len(OPCODE_SYSCALL) + Len(NATIVE_INVOKE) + Len(OPCODE_END)

NEOVM_CONTRACT_CONSTANT_LENGTH == 1 + ADDRESS_SCRIPT_HASH_LEN + Len(OPCODE_END)

Native == type = "NATIVE_CONTRACT"

Wasm == type = "WASMVM_CONTRACT"

ConstantLength ==
    IF Native THEN NATIVE_CONTRACT_CONSTANT_LENGTH ELSE NEOVM_CONTRACT_CONSTANT_LENGTH

IsAppCall == Byte(size - NEOVM_CONTRACT_CONSTANT_LENGTH) = OPCODE_APPCALL[1]

NativeCall ==
    LET at      == size - NATIVE_CONTRACT_CONSTANT_LENGTH
        syscall == parse_check_constant(parse_address(at, TRUE), OPCODE_SYSCALL)
        invoke  == parse_check_constant(syscall, NATIVE_INVOKE)
    IN  /\ tx_type = 209
        /\ buffer_can_read(offset, NEOVM_CONTRACT_CONSTANT_LENGTH)
        /\ ~IsAppCall
        /\ buffer_can_read(offset, NATIVE_CONTRACT_CONSTANT_LENGTH)
        /\ Found(parse_check_constant(invoke, OPCODE_END))

NeovmCall ==
    LET at      == size - NEOVM_CONTRACT_CONSTANT_LENGTH
        appcall == parse_check_constant(at, OPCODE_APPCALL)
    IN  /\ tx_type = 209
        /\ buffer_can_read(offset, NEOVM_CONTRACT_CONSTANT_LENGTH)
        /\ IsAppCall
        /\ Found(parse_check_constant(parse_address(appcall, FALSE), OPCODE_END))

WasmCall == tx_type = 210 /\ Found(parse_address(offset, FALSE))

sEnd == size - ConstantLength

\* The search backwards starts behind sEnd, with the second byte of the constant
\* part: ARRAY_LENGTH(OPCODE_PACK) - 2 is minus one.
SearchFrom == sEnd + 1

IsParamsEnd(at) ==
    Native /\ at <= sEnd - 2 /\ Found(parse_check_constant(at, OPCODE_PARAM_ST_END))

IsPack(at) == Found(parse_check_constant(at, OPCODE_PACK))

Marks == {at \in offset .. SearchFrom : IsParamsEnd(at) \/ IsPack(at)}

BehindMark(at) == at + Len(IF IsParamsEnd(at) THEN OPCODE_PARAM_ST_END ELSE OPCODE_PACK)

\* Fault: the search runs forward.
BehindFirstMark == IF Marks = {} THEN 0 ELSE BehindMark(Min(Marks))

\* Without a mark the cursor is set to the version, which is no length.
MethodAt == IF Marks = {} THEN 0 ELSE BehindMark(Max(Marks))

parse_method_name(at) == Sized(at, 1 .. 255)

Name(at) == [at |-> at + 1, len |-> Byte(at)]

\* The contract and the method that address and name are known as, if any.
KnownContract ==
    {contract \in Contracts : AddressOf[contract] = Slice(addr, ADDRESS_SCRIPT_HASH_LEN)}

KnownMethod ==
    {m \in UNION {Methods(contract) : contract \in KnownContract} :
        NameOf[m] = Slice(name.at, name.len)}

TheContract == CHOOSE contract \in Contracts : contract \in KnownContract

TheMethod == CHOOSE m \in KnownNames : m \in KnownMethod

IsTransferList ==
    /\ Native
    /\ KnownContract \subseteq {"ONT", "ONG"}
    /\ KnownMethod \cap TransferMethods # {}
-----------------------------------------------------------------------------
(* Parameters.                                                             *)

Entry(kind, at, len) == [kind |-> kind, at |-> at, len |-> len]

AddressEntry(at) == Entry("ADDR", at, ADDRESS_SCRIPT_HASH_LEN)

AmountEntry(at) == Entry("AMOUNT", at, parse_amount(at) - at)

\* Fault: a key is stored as an amount.
KeyAsAmount(at) == Entry("AMOUNT", at + 1, 2 * COMPRESSED_KEY_LEN)

KeyEntry(at) == Entry("PUBKEY", at + 1, 2 * COMPRESSED_KEY_LEN)

SimpleKinds == {"ADDR", "AMOUNT", "UINT128", "PUBKEY"}

SimpleEntry(kind, at) ==
    CASE kind = "ADDR"    -> AddressEntry(IF Wasm THEN at ELSE at + 1)
      [] kind = "AMOUNT"  -> AmountEntry(at)
      [] kind = "UINT128" -> Entry("UINT128", at, 2 * U64)
      [] kind = "PUBKEY"  -> KeyEntry(at)

SimpleEnd(kind, at) ==
    CASE kind = "ADDR"    -> parse_address(at, ~Wasm)
      [] kind = "AMOUNT"  -> parse_amount(at)
      [] kind = "UINT128" -> parse_uint128(at)
      [] kind = "PUBKEY"  -> parse_pk(at)

EndParam(at) == parse_check_constant(at, OPCODE_PARAM_END)

\* A native call ends each parameter of its signature so.
Closed(at) == IF Native THEN EndParam(at) ELSE at

\* The positions in a transfer state.
StateFrom(at) == parse_check_constant(at, OPCODE_ST_BEGIN)

StateTo(at) == EndParam(parse_address(StateFrom(at), TRUE))

StateAmount(at) == EndParam(parse_address(StateTo(at), TRUE))

StateEnd(at) == parse_check_constant(EndParam(parse_amount(StateAmount(at))), OPCODE_ST_END)

\* Fault: receiver and sender are swapped.
SwappedEntries(at) ==
    <<AddressEntry(StateTo(at) + 1), AddressEntry(StateFrom(at) + 1), AmountEntry(StateAmount(at))>>

StateEntries(at) ==
    <<AddressEntry(StateFrom(at) + 1), AddressEntry(StateTo(at) + 1), AmountEntry(StateAmount(at))>>

\* Fault: the index is compared before three are added.
RoomSoFar == cur <= PARAMETERS_MAX_NUM

RoomForState == cur + 3 <= PARAMETERS_MAX_NUM

\* The amount in front of a list of pairs; the number of entries is computed in
\* a uint64_t.
PairsCount(at) == AsUint64(Slice(at, parse_amount(at) - at))

PairsFit(at) ==
    /\ Found(EndParam(parse_amount(at)))
    /\ convert_param_to_uint64_le(Slice(at, parse_amount(at) - at))
    /\ PairsCount(at) # 0
    /\ (PairsCount(at) * 2 + 1 + cur) % UINT64 <= PARAMETERS_MAX_NUM
-----------------------------------------------------------------------------
(* The steps.                                                              *)

Stop(status) ==
    stage' = status /\ UNCHANGED <<buf, offset, call, list, loop>>

Refuse == Stop("PARSING_BYTECODE_WRONG")

GoTo(next, at) == stage' = next /\ offset' = at

Skip(next, at) == GoTo(next, at) /\ UNCHANGED <<buf, call, list, loop>>

Header ==
    /\ stage = "header"
    /\ LET fields == buffer_can_read(0, HeaderLength) /\ Byte(0) = 0 /\ GasInRange
       IN  \/ size > MAX_TRANSACTION_LEN /\ Stop("PARSING_LENGTH_WRONG")
           \/ size <= MAX_TRANSACTION_LEN /\ ~fields /\ Refuse
           \/ size <= MAX_TRANSACTION_LEN /\ fields /\ Skip("payload", HeaderLength)

PayloadSize ==
    /\ stage = "payload"
    /\ LET readable == /\ buffer_can_read(offset, 1)
                       /\ Byte(offset) # 0
                       /\ buffer_can_read(offset + 1, Width(Byte(offset)))
       IN  \/ ~readable /\ Refuse
           \/ readable /\ ~LengthFits(offset) /\ Stop("PARSING_LENGTH_WRONG")
           \/ readable /\ LengthFits(offset) /\ Skip("contract", PayloadAt(offset))

SetContract(contract_type, at, next) ==
    /\ type' = contract_type /\ addr' = at
    /\ GoTo("method", next)
    /\ UNCHANGED <<buf, name, list, loop>>

Contract ==
    /\ stage = "contract"
    /\ \/ /\ NativeCall
          /\ SetContract("NATIVE_CONTRACT", size - NATIVE_CONTRACT_CONSTANT_LENGTH + 1, offset)
       \/ /\ NeovmCall
          /\ SetContract("NEOVM_CONTRACT", size - NEOVM_CONTRACT_CONSTANT_LENGTH + 1, offset)
       \/ /\ WasmCall
          /\ SetContract("WASMVM_CONTRACT", offset, offset + ADDRESS_SCRIPT_HASH_LEN)
       \/ ~(NativeCall \/ NeovmCall \/ WasmCall) /\ Refuse

SetMethod(at, next) ==
    /\ name' = Name(at)
    /\ GoTo("lookup", next)
    /\ UNCHANGED <<buf, type, addr, list, loop>>

\* A wasm call starts with the length of the rest and the name; the others end
\* with the name, in front of the constant part.
WasmMethod ==
    /\ stage = "method" /\ Wasm
    /\ LET named == /\ buffer_can_read(offset, 1)
                    /\ Byte(offset) # 0
                    /\ Byte(offset) = size - (offset + 1) - Len(OPCODE_END)
                    /\ Found(parse_method_name(offset + 1))
       IN  \/ named /\ SetMethod(offset + 1, parse_method_name(offset + 1))
           \/ ~named /\ Refuse

Method ==
    /\ stage = "method" /\ ~Wasm
    /\ LET named == /\ sEnd >= offset
                    /\ Found(parse_method_name(MethodAt))
                    /\ Byte(MethodAt) = sEnd - 1 - MethodAt
       IN  \/ named /\ SetMethod(MethodAt, offset)
           \/ ~named /\ Refuse

StartTransfers ==
    /\ stage = "lookup" /\ IsTransferList
    /\ GoTo("transfers", offset)
    /\ i' = 0
    /\ UNCHANGED <<buf, call, list, num>>

StartParams ==
    /\ stage = "lookup" /\ ~IsTransferList
    /\ LET at == IF Native THEN parse_check_constant(offset, OPCODE_ST_BEGIN) ELSE offset
       IN  \/ ~Found(at) /\ Refuse
           \/ Found(at) /\ KnownMethod = {} /\ Stop("PARSING_TX_NOT_DEFINED")
           \/ /\ Found(at) /\ KnownMethod # {}
              /\ todo' = Signature(TheContract, TheMethod)
              /\ GoTo("params", at)
              /\ UNCHANGED <<buf, call, params, cur, num, i>>

\* Entries are written to method.parameters from an index on.
Write(index, entries) ==
    params' = [k \in DOMAIN params \cup index .. index + Len(entries) - 1 |->
                  IF k \in index .. index + Len(entries) - 1
                  THEN entries[k - index + 1]
                  ELSE params[k]]

NextIs(kinds) == stage = "params" /\ todo # <<>> /\ Head(todo) \in kinds

HasRoom == cur < PARAMETERS_MAX_NUM

SimpleParam ==
    /\ NextIs(SimpleKinds)
    /\ LET next == Closed(SimpleEnd(Head(todo), offset))
       IN  \/ /\ HasRoom /\ Found(next)
              /\ Write(cur, <<SimpleEntry(Head(todo), offset)>>)
              /\ cur' = cur + 1 /\ todo' = Tail(todo)
              /\ GoTo("params", next)
              /\ UNCHANGED <<buf, call, num, i>>
           \/ ~(HasRoom /\ Found(next)) /\ Refuse

\* An identity is skipped.
OntId ==
    /\ NextIs({"ONTID"})
    /\ LET next == Closed(parse_ont_id(offset))
       IN  \/ /\ HasRoom /\ Found(next)
              /\ todo' = Tail(todo)
              /\ GoTo("params", next)
              /\ UNCHANGED <<buf, call, params, cur, num, i>>
           \/ ~(HasRoom /\ Found(next)) /\ Refuse

TransferStateParam ==
    /\ NextIs({"TRANSFER_STATE"})
    /\ LET next == Closed(StateEnd(offset))
       IN  \/ /\ HasRoom /\ RoomForState /\ Found(next)
              /\ Write(cur, StateEntries(offset))
              /\ cur' = cur + 3 /\ todo' = Tail(todo)
              /\ GoTo("params", next)
              /\ UNCHANGED <<buf, call, num, i>>
           \/ ~(HasRoom /\ RoomForState /\ Found(next)) /\ Refuse

\* A list is parsed by Transfer, in a native call only.
ListParam == NextIs({"TRANSFER_STATE_LIST"}) /\ Refuse

StartPairs ==
    /\ NextIs({"PK_AMOUNT_PAIRS"})
    /\ \/ /\ HasRoom /\ PairsFit(offset)
          /\ Write(cur, <<AmountEntry(offset)>>)
          /\ num' = PairsCount(offset) /\ i' = 1
          /\ GoTo("keys", EndParam(parse_amount(offset)))
          /\ UNCHANGED <<buf, call, cur, todo>>
       \/ ~(HasRoom /\ PairsFit(offset)) /\ Refuse

PairKey ==
    /\ stage = "keys" /\ i <= num
    /\ LET next == EndParam(parse_pk(offset))
       IN  \/ /\ Found(next)
              /\ Write(cur + i, <<KeyEntry(offset)>>)
              /\ i' = i + 1
              /\ GoTo("keys", next)
              /\ UNCHANGED <<buf, call, cur, todo, num>>
           \/ ~Found(next) /\ Refuse

\* Between keys and amounts the number of pairs stands again.
RepeatedCount ==
    /\ stage = "keys" /\ i > num
    /\ LET next == EndParam(parse_check_amount(offset, num))
       IN  \/ /\ Found(next)
              /\ i' = 1
              /\ GoTo("amounts", next)
              /\ UNCHANGED <<buf, call, list, num>>
           \/ ~Found(next) /\ Refuse

PairAmount ==
    /\ stage = "amounts" /\ i <= num
    /\ LET end  == parse_amount(offset)
           next == IF i # num THEN EndParam(end) ELSE end
       IN  \/ /\ Found(next)
              /\ Write(cur + num + i, <<AmountEntry(offset)>>)
              /\ i' = i + 1
              /\ GoTo("amounts", next)
              /\ UNCHANGED <<buf, call, cur, todo, num>>
           \/ ~Found(next) /\ Refuse

\* Fault: the entry of the number itself is not counted.
KeysAndAmounts == 2 * num

PairsEntries == 2 * num + 1

EndPairs ==
    /\ stage = "amounts" /\ i > num
    /\ \/ /\ Found(Closed(offset))
          /\ cur' = cur + PairsEntries /\ todo' = Tail(todo)
          /\ GoTo("params", Closed(offset))
          /\ UNCHANGED <<buf, call, params, num, i>>
       \/ ~Found(Closed(offset)) /\ Refuse

\* Fault: the rest of the transaction is not measured.
Unmeasured(at) == "PARSING_OK"

\* The name and the constant part must be all that follows.
Measured(at) ==
    IF at + (IF Wasm THEN 0 ELSE name.len + 1 + ConstantLength) = size
    THEN "PARSING_OK"
    ELSE "PARSING_LENGTH_WRONG"

Close(at) ==
    \/ Found(at) /\ Skip(Measured(at), at)
    \/ ~Found(at) /\ Refuse

EndParams ==
    /\ stage = "params" /\ todo = <<>>
    /\ LET params_num == Len(Signature(TheContract, TheMethod))
       IN  Close(CASE Native -> parse_check_constant(offset, OPCODE_ST_END)
                   [] Wasm   -> parse_check_constant(offset, OPCODE_END)
                   [] OTHER  -> parse_check_constant(parse_check_amount(offset, params_num),
                                                     OPCODE_PACK))

\* The loop reads one byte without asking whether there is one.
MoreTransfers == Byte(offset) = OPCODE_ST_BEGIN[1]

\* Fault: a transfer that cannot be read is counted and does not end the loop.
TransferOrCount ==
    /\ stage = "transfers" /\ MoreTransfers
    /\ IF RoomForState /\ Found(StateEnd(offset))
       THEN /\ Write(cur, StateEntries(offset))
            /\ cur' = cur + 3 /\ i' = i + 1
            /\ GoTo("transfers", StateEnd(offset))
            /\ UNCHANGED <<buf, call, todo, num>>
       ELSE /\ i' = i + 1
            /\ UNCHANGED <<buf, offset, call, stage, params, cur, todo, num>>

Transfer ==
    /\ stage = "transfers" /\ MoreTransfers
    /\ \/ /\ RoomForState /\ Found(StateEnd(offset))
          /\ Write(cur, StateEntries(offset))
          /\ cur' = cur + 3 /\ i' = i + 1
          /\ GoTo("transfers", StateEnd(offset))
          /\ UNCHANGED <<buf, call, todo, num>>
       \/ ~(RoomForState /\ Found(StateEnd(offset))) /\ Refuse

EndTransfers ==
    /\ stage = "transfers" /\ ~MoreTransfers
    /\ Close(parse_check_constant(parse_check_amount(offset, i), OPCODE_PACK))

\* The status has been returned.
Ended == stage \in Statuses /\ UNCHANGED vars
-----------------------------------------------------------------------------
Init ==
    /\ buf \in Buffers
    /\ offset = 0 /\ stage = "header"
    /\ type = "UNKNOWN_CONTRACT" /\ addr = 0 /\ name = [at |-> 0, len |-> 0]
    /\ params = <<>> /\ cur = 0 /\ todo = <<>> /\ num = 0 /\ i = 0

Next ==
    \/ Header
    \/ PayloadSize
    \/ Contract
    \/ WasmMethod
    \/ Method
    \/ StartTransfers
    \/ StartParams
    \/ SimpleParam
    \/ OntId
    \/ TransferStateParam
    \/ ListParam
    \/ StartPairs
    \/ PairKey
    \/ RepeatedCount
    \/ PairAmount
    \/ EndPairs
    \/ EndParams
    \/ Transfer
    \/ EndTransfers
    \/ Ended

Spec == Init /\ [][Next]_vars
-----------------------------------------------------------------------------
(* Properties.                                                             *)

Accepted == stage = "PARSING_OK"

Stages == Statuses \cup {"header", "payload", "contract", "method", "lookup", "params",
                         "keys", "amounts", "transfers"}

Positions == 0 .. size

\* Types, and: the cursor stays in the transaction, the loop over transfers
\* reads no byte behind it, every entry lies in it, and no entry is written
\* behind the end of method.parameters, whatever lengths and numbers the host
\* has sent; PairsFit alone would not see to that, because its sum can wrap.
TypeOK ==
    /\ stage \in Stages
    /\ offset \in Positions
    /\ stage = "transfers" => offset < size
    /\ type \in ContractTypes \cup {"UNKNOWN_CONTRACT"}
    /\ addr \in Positions /\ name.at \in Positions /\ name.len \in Bytes
    /\ DOMAIN params \subseteq 0 .. PARAMETERS_MAX_NUM - 1
    /\ \A k \in DOMAIN params :
           /\ params[k].kind \in PARAM_KINDS
           /\ params[k].at \in Positions /\ params[k].len \in Nat
           /\ params[k].at + params[k].len \in Positions
    /\ cur \in 0 .. PARAMETERS_MAX_NUM
    /\ todo \in Seq(ParameterTypes)
    /\ num \in Nat /\ i \in Nat

\* The entries are disjoint pieces of what has been read of the payload, in the
\* order of their indices: no byte is shown as part of two values.
ApartAndInOrder ==
    /\ \A k \in DOMAIN params :
           /\ PayloadAt(HeaderLength) <= params[k].at
           /\ params[k].at + params[k].len <= offset
    /\ \A j, k \in DOMAIN params :
           j < k => params[j].at + params[j].len <= params[k].at

\* The gas fee, which the review computes in a uint64_t, does not wrap.
FeeFitsWord ==
    stage \notin Statuses \cup {"header"} => gas_price * gas_limit < UINT64
-----------------------------------------------------------------------------
\* Of a call that is accepted: its entries' contents, and the number of its
\* pairs or transfers.
Content(k) == Slice(params[k].at, params[k].len)

Values == [k \in 1 .. cur |-> Content(k - 1)]

Number == IF IsTransferList THEN i ELSE num

\* The identity stands behind the third entry.
IdentityAt == params[2].at + params[2].len + (IF Native THEN Len(OPCODE_PARAM_END) ELSE 0)

Identity ==
    IF "ONTID" \in Range(Signature(TheContract, TheMethod))
    THEN Slice(IdentityAt + 1, Byte(IdentityAt))
    ELSE <<>>

ReadAs(count, total) ==
    [type |-> type, address |-> AddressOf[TheContract], method |-> NameOf[TheMethod],
     signature |-> Signature(TheContract, TheMethod), values |-> Values,
     n |-> Number, count |-> count, total |-> total, id |-> Identity]

\* A call that is accepted is, to the last byte, the code of a call of the known
\* contract and method with the values that the entries point to: nothing is
\* signed that the parser has not understood.
Explained ==
    Accepted =>
        \E count \in AmountForms(Number), total \in AmountForms(Len(Signature(TheContract, TheMethod))) :
            LET c == ReadAs(count, total)
            IN  SubSeq(buf, PayloadAt(HeaderLength) + 1, size) = CallCode(c, ParamsCode(c))

\* The kinds of the entries are those that the tables announce, for the number
\* of pairs or transfers read.
EntriesAsTable ==
    Accepted =>
        [k \in 1 .. cur |-> params[k - 1].kind] = AllEntries(TheContract, TheMethod, Number)

Amount(k) ==
    IF params[k].kind = "AMOUNT" /\ convert_param_to_uint64_le(Content(k))
    THEN AsUint64(Content(k))
    ELSE 0

\* The transaction as ReviewPages takes it.
ParsedTx ==
    [type     |-> type,
     contract |-> IF Accepted THEN TheContract ELSE Unknown,
     method   |-> IF Accepted THEN TheMethod ELSE Unknown,
     params   |-> [k \in 1 .. IF Accepted THEN cur ELSE 0 |->
                      [kind |-> params[k - 1].kind, value |-> Amount(k - 1)]]]

\* What ReviewPages assumes of a transaction is true of those it is handed.
FeedsReviewPages ==
    stage \in {"PARSING_OK", "PARSING_TX_NOT_DEFINED"} => WellParsed(ParsedTx, PARAMETERS_MAX_NUM)

\* The page can convert every amount that the parser has let pass, provided that
\* the type of the call agrees with the table on how amounts are written.
AmountsReadable ==
    Accepted =>
        \A k \in 0 .. cur - 1 :
            (IF Wasm THEN params[k].kind = "UINT128" ELSE params[k].kind = "AMOUNT") =>
                convert_params_to_uint128_le(params[k].kind, ~Wasm, Content(k))

Early == [header |-> 21, payload |-> 20, contract |-> 19, method |-> 18, lookup |-> 17]

\* A bound on the steps that are left: the bytes that are left, three for each
\* parameter of a method, which has five at most, and the steps before them.
StepsLeft ==
    CASE stage \in Statuses   -> 0
      [] stage = "transfers"  -> size - offset + 1
      [] stage = "params"     -> size - offset + 3 * Len(todo) + 1
      [] stage = "keys"       -> size - offset + 3 * Len(todo)
      [] stage = "amounts"    -> size - offset + 3 * Len(todo) - 1
      [] OTHER                -> size - offset + Early[stage]

\* Parsing ends, and soon, also if a number of pairs close to the largest has
\* passed the check or a list is longer than the transaction: whatever step is
\* taken, in a loop or not, fewer are left.  No state but the end has none.
ParsingEnds == [][StepsLeft' < StepsLeft]_vars
=============================================================================
