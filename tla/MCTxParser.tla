---------------------------- MODULE MCTxParser -----------------------------
(***************************************************************************)
(* Values of TxParser's constants for TLC.  Addresses have 2 bytes, keys   *)
(* 12, words 3, and names one to three.  The transactions are the codes of *)
(* calls (every method of every contract under every type of call, lists   *)
(* up to and beyond the limits, each way to write a number), and the codes *)
(* of some calls with one byte changed, left out or put in.                *)
(***************************************************************************)
EXTENDS TxCalls

CONSTANT OddBytes    \* bytes put into the codes of calls

MCAddressOf ==
    [contract \in Contracts |->
        CASE contract = "ONT"   -> <<0, 1>>
          [] contract = "ONG"   -> <<0, 2>>
          [] contract = "GOV"   -> <<0, 7>>
          [] contract = "WING"  -> <<128, 239>>
          [] contract = "STONT" -> <<205, 132>>
          [] contract = "MBL"   -> <<109, 3>>]

\* Names that start with a name, as in the program.
MCNameOf ==
    [m \in KnownNames |->
        CASE m = "transfer"               -> <<116>>
          [] m = "transferV2"             -> <<116, 50>>
          [] m = "transferFrom"           -> <<116, 70>>
          [] m = "transferFromV2"         -> <<116, 70, 50>>
          [] m = "approve"                -> <<97>>
          [] m = "approveV2"              -> <<97, 50>>
          [] m = "registerCandidate"      -> <<114>>
          [] m = "quitNode"               -> <<113>>
          [] m = "addInitPos"             -> <<105>>
          [] m = "reduceInitPos"          -> <<100>>
          [] m = "changeMaxAuthorization" -> <<99>>
          [] m = "setFeePercentage"       -> <<115>>
          [] m = "authorizeForPeer"       -> <<112>>
          [] m = "unAuthorizeForPeer"     -> <<117>>
          [] m = "withdraw"               -> <<119>>
          [] m = "withdrawFee"            -> <<119, 70>>]

MCNativeInvoke == <<22, 79, 110, 116, 101>>

StrangeName == <<116, 51>>
-----------------------------------------------------------------------------
(* Values.  Addresses and keys hold bytes that mean something elsewhere.   *)

AddressValue(k) == IF k % 2 = 0 THEN <<193, 108>> ELSE <<106, 124>>

KeyValue(k) == [j \in 1 .. 2 * COMPRESSED_KEY_LEN |-> IF j = 1 THEN k ELSE 200]

WordForms == {<<0>>, <<81>>, <<96>>, <<1, 9>>, <<3, 0, 0, 193>>}

AmountValues == WordForms \cup {<<4, 0, 0, 0, 1>>, <<6, 1, 2, 3, 4, 5, 193>>}

Value(kind, k, amount) ==
    CASE kind = "ADDR"    -> AddressValue(k)
      [] kind = "PUBKEY"  -> KeyValue(k)
      [] kind = "AMOUNT"  -> amount
      [] kind = "UINT128" -> [j \in 1 .. 2 * U64 |-> IF j <= Len(amount) THEN amount[j] ELSE 0]

\* A call with n pairs or transfers, the number of which is written as count.
Call(type_, contract, method, n, count, total, amount) ==
    LET kinds  == AllEntries(contract, method, n)
        number == method \in PeerMethods
    IN  [type |-> type_, address |-> AddressOf[contract], method |-> NameOf[method],
         signature |-> Signature(contract, method),
         values |-> [k \in 1 .. Len(kinds) |->
                        IF number /\ k = 2 THEN count ELSE Value(kinds[k], k, amount)],
         n |-> n, count |-> count, total |-> total, id |-> <<193, 7>>]

\* Lists are parsed in a native call only.
IsListCall(contract, method) == contract \in {"ONT", "ONG"} /\ method \in TransferMethods

HasPairs(contract, method) == contract = "GOV" /\ method \in PeerMethods

Push(n) == <<OPCODE_PUSH_NUMBER + n>>

\* A NeoVM call gives the number of its parameters, in any form.
SimpleCallsOf(contract, method) ==
    {Call(t, contract, method, 0, <<0>>, <<0>>, amount) :
        t \in {"NATIVE_CONTRACT", "WASMVM_CONTRACT"}, amount \in AmountValues}
    \cup
    {Call("NEOVM_CONTRACT", contract, method, 0, <<0>>, total, amount) :
        total \in AmountForms(Len(Signature(contract, method))), amount \in {<<0>>, <<1, 9>>}}

SimpleCalls ==
    UNION {UNION {SimpleCallsOf(contract, m) :
                     m \in {m \in Methods(contract) :
                               ~IsListCall(contract, m) /\ ~HasPairs(contract, m)}} :
           contract \in Contracts}

ListCalls ==
    UNION {{Call("NATIVE_CONTRACT", contract, method, n, count, <<0>>, amount) :
               contract \in {"ONT", "ONG"}, method \in TransferMethods,
               count \in AmountForms(n) \ {<<0>>}, amount \in {<<0>>, <<81>>}} :
           n \in 0 .. 3}

PairCalls ==
    UNION {{Call(t, "GOV", "authorizeForPeer", n, count, Push(2), <<81>>) :
               t \in ContractTypes, count \in AmountForms(n)} :
           n \in 1 .. 3}

\* Of several ways to write a number, some fit neither the longest transaction nor
\* the first byte of the payload's length.
MCKnownCalls == SimpleCalls \cup ListCalls \cup PairCalls

\* Calls of no known contract, or of an unknown method; their parameters are any.
BlindCall(t, address, method) ==
    [type |-> t, address |-> address, method |-> method,
     signature |-> <<"ADDR">>, values |-> <<AddressValue(2)>>,
     n |-> 0, count |-> <<0>>, total |-> Push(1), id |-> <<>>]

MCBlindCalls ==
    {BlindCall(t, address, StrangeName) : t \in ContractTypes, address \in Range(AddressOf)}
        \cup {BlindCall(t, <<1, 193>>, method) : t \in ContractTypes,
                                                 method \in {StrangeName, NameOf["transfer"]}}

\* One entry more than there is room for, an amount of more than 128 bits, and a
\* number of pairs that the check's sum does not notice.
LongCalls ==
    {Call("NATIVE_CONTRACT", "ONT", "transfer", 4, Push(4), <<0>>, <<81>>),
     Call("NATIVE_CONTRACT", "GOV", "withdraw", 4, Push(4), <<0>>, <<0>>),
     Call("NEOVM_CONTRACT", "WING", "transfer", 0, <<0>>, Push(3), <<7, 1, 1, 1, 1, 1, 1, 1>>),
     Call("NATIVE_CONTRACT", "GOV", "withdraw", 2, <<3, 0, 0, 128>>, <<0>>, <<0>>)}
-----------------------------------------------------------------------------
(* Transactions.                                                           *)

MCHeader(t, price, limit) ==
    <<0, IF t = "WASMVM_CONTRACT" THEN 210 ELSE 209>> \o [k \in 1 .. U32 |-> 7]
        \o NumberBytes(price, U64) \o NumberBytes(limit, U64)
        \o [k \in 1 .. ADDRESS_SCRIPT_HASH_LEN |-> 193]

LengthForms(length) ==
    {IF form = 0 THEN <<length>>
     ELSE IF form = 253 THEN <<form>> \o NumberBytes(length, U16)
     ELSE IF form = 254 THEN <<form>> \o NumberBytes(length, U32)
     ELSE <<form>> \o NumberBytes(length, U64) :
        form \in {0, 253, 254, 255}}

\* The payload's length does not count the last byte.
ShortForm(code) == <<Len(code) - 1>>

Transaction(t, length, code) == MCHeader(t, GAS_PRICE_MIN, GAS_LIMIT_MIN) \o length \o code

CallTransaction(c) == Transaction(c.type, ShortForm(Code(c)), Code(c))

Fits(c) == Len(CallTransaction(c)) <= MAX_TRANSACTION_LEN

SomeCalls ==
    {Call("NATIVE_CONTRACT", "ONT", "transfer", 2, Push(2), <<0>>, <<81>>),
     Call("NATIVE_CONTRACT", "GOV", "withdraw", 2, Push(2), <<0>>, <<1, 9>>),
     Call("NATIVE_CONTRACT", "GOV", "registerCandidate", 0, <<0>>, <<0>>, <<81>>),
     Call("NATIVE_CONTRACT", "ONG", "transferFrom", 0, <<0>>, <<0>>, <<0>>),
     Call("NEOVM_CONTRACT", "WING", "transferFrom", 0, <<0>>, Push(4), <<1, 9>>),
     Call("WASMVM_CONTRACT", "STONT", "transfer", 0, <<0>>, <<0>>, <<1, 9>>),
     BlindCall("NEOVM_CONTRACT", <<1, 1>>, StrangeName)}

Damaged(code) ==
    {[code EXCEPT ![k] = byte] : k \in 1 .. Len(code), byte \in OddBytes}
        \cup {RemoveAt(code, k) : k \in 1 .. Len(code)}
        \cup {InsertAt(code, k, byte) : k \in 1 .. Len(code), byte \in OddBytes}

DamagedCalls ==
    UNION {{Transaction(c.type, ShortForm(code), code) : code \in Damaged(Code(c))} : c \in SomeCalls}

\* Every way to write the payload's length, a wrong one, one that only the lower
\* half of a word makes true, and cut transactions.
LengthCases ==
    LET c     == BlindCall("NEOVM_CONTRACT", <<1, 1>>, StrangeName)
        whole == CallTransaction(c)
    IN  {Transaction(c.type, length, Code(c)) : length \in LengthForms(Len(Code(c)) - 1)}
            \cup {Transaction(c.type, <<255>> \o NumberBytes(Len(Code(c)) - 1 + SIZE_T, U64), Code(c))}
            \cup {Transaction(c.type, <<length>>, Code(c)) : length \in {0, Len(Code(c))}}
            \cup {SubSeq(whole, 1, k) : k \in 1 .. Len(whole)}

GasCases ==
    LET c == BlindCall("NEOVM_CONTRACT", <<1, 1>>, StrangeName)
    IN  {MCHeader(c.type, price, limit) \o ShortForm(Code(c)) \o Code(c) :
            price \in {GAS_PRICE_MIN - 1, GAS_PRICE_MIN, GAS_PRICE_MIN + 1},
            limit \in {0, GAS_LIMIT_MIN, TOKEN_AMOUNT \div GAS_PRICE_MIN, UINT64 - 1}}

\* A list of transfers in a call of another type, which is parsed like any parameter.
ForeignLists ==
    {BlindCall(t, AddressOf["ONT"], NameOf["transfer"]) : t \in ContractTypes \ {"NATIVE_CONTRACT"}}

\* A transaction of neither type, one of another version, and none.
OtherCases == {<<>>, MCHeader("NEOVM_CONTRACT", 2, 3) \o <<1, 0, 0>>,
               [CallTransaction(BlindCall("NEOVM_CONTRACT", <<1, 1>>, StrangeName)) EXCEPT ![1] = 1],
               [CallTransaction(BlindCall("NEOVM_CONTRACT", <<1, 1>>, StrangeName)) EXCEPT ![2] = 208]}

MCBuffers ==
    {CallTransaction(c) : c \in {d \in KnownCalls : Fits(d)} \cup BlindCalls \cup LongCalls \cup ForeignLists}
        \cup DamagedCalls \cup LengthCases \cup GasCases \cup OtherCases

\* Calls of a contract whose address starts with the byte that ends parameters.
MarkedCalls == {BlindCall(t, <<193, 1>>, StrangeName) : t \in ContractTypes}

MCMarkedBuffers == {CallTransaction(c) : c \in MarkedCalls \cup BlindCalls}
-----------------------------------------------------------------------------
MarkedPairs == WithCode(MarkedCalls)

\* The comment on transaction_deserialize_params, of a contract whose address
\* starts with the byte 193.  Expected to fail: the search for the end of the
\* parameters takes that byte for it.
MarkedCallsRecognised ==
    stage \in Statuses => (Carried(MarkedPairs) # {} => stage = "PARSING_TX_NOT_DEFINED")
=============================================================================
