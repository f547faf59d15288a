------------------------------ MODULE TxCalls ------------------------------
(***************************************************************************)
(* What the parser has to make of a call that is made as it should be.     *)
(* TxParser says that whatever is accepted has been understood; this       *)
(* module states the converse.  A transaction carries a call if its header *)
(* and its length are in order and its payload is what CallFormat writes   *)
(* for the call.  If the call is one of a known contract and method, made  *)
(* of values in the form that the tables ask for, it is accepted with      *)
(* these values; if it is any other, it is left to be signed blindly.      *)
(***************************************************************************)
EXTENDS TxParser

CONSTANTS
    KnownCalls,    \* calls of known contracts and methods
    BlindCalls     \* calls of other contracts or methods

\* What the parser relies on when it searches backwards for the end of the
\* parameters and tells the two types of calls apart: a length or a character is
\* no opcode of an end, and the system call's name has no APPCALL where a NeoVM
\* call has it (the letter n of Ontology, in the program).
Characters == 0 .. 127

IsName(text) == text \in Seq(Characters) /\ Len(text) \in 1 .. 127

IsAddress(bytes) == bytes \in Seq(Bytes) /\ Len(bytes) = ADDRESS_SCRIPT_HASH_LEN

ASSUME SearchAssumption ==
    /\ ADDRESS_SCRIPT_HASH_LEN \in Characters
    /\ Len(NATIVE_INVOKE) > ADDRESS_SCRIPT_HASH_LEN
    /\ NATIVE_INVOKE[Len(NATIVE_INVOKE) - ADDRESS_SCRIPT_HASH_LEN] # OPCODE_APPCALL[1]

\* The address behind the name is searched, too, its first byte.
Unmarked(address) == address[1] # OPCODE_PACK[1]

ASSUME NameAssumption ==
    /\ \A contract \in Contracts : IsAddress(AddressOf[contract]) /\ Unmarked(AddressOf[contract])
    /\ \A m \in KnownNames : IsName(NameOf[m])
-----------------------------------------------------------------------------
(* Calls that are made as they should be.                                  *)

\* The contents of an entry.
IsValue(kind, v) ==
    /\ v \in Seq(Bytes)
    /\ kind = "ADDR"    => Len(v) = ADDRESS_SCRIPT_HASH_LEN
    /\ kind = "PUBKEY"  => Len(v) = 2 * COMPRESSED_KEY_LEN
    /\ kind = "UINT128" => Len(v) = 2 * U64
    /\ kind = "AMOUNT"  => v # <<>> /\ AmountStarts(v[1]) /\ Len(v) = AmountLength(v[1])

\* A call of a method with the values, the number of pairs or transfers and the
\* ways to write it that belong to it.  The number behind a list of transfers is
\* not written as a zero, with which another transfer would begin.
MadeFor(c, contract, method) ==
    /\ c.type \in ContractTypes
    /\ c.address = AddressOf[contract] /\ c.method = NameOf[method]
    /\ c.signature = Signature(contract, method)
    /\ c.n \in Nat
    /\ LET kinds == AllEntries(contract, method, c.n)
       IN  /\ c.values \in Seq(Seq(Bytes))
           /\ Len(c.values) = Len(kinds) /\ Len(kinds) <= PARAMETERS_MAX_NUM
           /\ \A k \in 1 .. Len(kinds) : IsValue(kinds[k], c.values[k])
    /\ c.id \in Seq(Bytes) /\ Len(c.id) \in 1 .. 255
    /\ c.type = "NEOVM_CONTRACT" => c.total \in AmountForms(Len(c.signature))
    /\ IsList(c) => c.type = "NATIVE_CONTRACT" /\ c.count \in AmountForms(c.n) \ {<<0>>}
    /\ method \in PeerMethods =>
           c.n # 0 /\ c.values[2] \in AmountForms(c.n) /\ c.count \in AmountForms(c.n)

WellMade(c) == \E contract \in Contracts : \E method \in Methods(contract) : MadeFor(c, contract, method)

ASSUME KnownCallsAssumption == \A c \in KnownCalls : WellMade(c)

\* A call that the tables do not know, with any parameters.
IsKnown(c) ==
    \E contract \in Contracts : \E method \in Methods(contract) :
        c.address = AddressOf[contract] /\ c.method = NameOf[method]

Blind(c) ==
    /\ c.type \in ContractTypes
    /\ IsAddress(c.address) /\ IsName(c.method) /\ ~IsKnown(c)
    /\ c.type # "WASMVM_CONTRACT" => Unmarked(c.address)
    /\ Len(c.signature) \in Nat \ {0} /\ ~IsList(c)
    /\ \A k \in 1 .. Len(c.signature) : Part(c, c.signature[k], ValuesOf(c, k)) \in Seq(Bytes)
    /\ c.type = "NEOVM_CONTRACT" => c.total \in Seq(Bytes)

ASSUME BlindCallsAssumption == \A c \in BlindCalls : Blind(c)
-----------------------------------------------------------------------------
(* Transactions that carry a call.                                         *)

Code(c) == CallCode(c, ParamsCode(c))

\* The fields of the header are in their ranges, and the payload is as long as
\* the length in front of it says; that does not count the last byte.
Framed ==
    /\ size <= MAX_TRANSACTION_LEN
    /\ HeaderLength < size
    /\ Byte(0) = 0 /\ GasInRange
    /\ PayloadAt(HeaderLength) <= size
    /\ PayloadAt(HeaderLength) + DeclaredPayload(HeaderLength) + 1 = size

Payload == SubSeq(buf, PayloadAt(HeaderLength) + 1, size)

TypeByte(t) == IF t = "WASMVM_CONTRACT" THEN 210 ELSE 209

\* Pairs of a call and its code, and the calls of them that the transaction carries.
WithCode(calls) == {[call |-> c, code |-> Code(c)] : c \in calls}

Carried(pairs) ==
    IF Framed
    THEN {m.call : m \in {p \in pairs : TypeByte(p.call.type) = tx_type /\ p.code = Payload}}
    ELSE {}

KnownPairs == WithCode(KnownCalls)

BlindPairs == WithCode(BlindCalls)
-----------------------------------------------------------------------------
(* Properties.                                                             *)

\* A call of a known contract and method that respects the limits is accepted,
\* and its entries are the values that it was made of.
KnownCallsAccepted ==
    stage \in Statuses =>
        \A c \in Carried(KnownPairs) :
            /\ Accepted
            /\ type = c.type /\ Values = c.values
            /\ AddressOf[TheContract] = c.address /\ NameOf[TheMethod] = c.method

\* The comment on transaction_deserialize_params: a call of another contract or
\* method is recognised as one to be signed blindly.
BlindCallsRecognised ==
    stage \in Statuses => (Carried(BlindPairs) # {} => stage = "PARSING_TX_NOT_DEFINED")
=============================================================================
