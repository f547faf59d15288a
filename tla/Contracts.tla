----------------------------- MODULE Contracts -----------------------------
(***************************************************************************)
(* The contracts and methods the application knows (contract.c), the       *)
(* parameters the parser leaves in method.parameters for each (parse.c),   *)
(* and the places at which they are shown (tx_init.c).                     *)
(***************************************************************************)
EXTENDS Naturals, Sequences, SequencesExt, Series

ContractTypes == {"NATIVE_CONTRACT", "NEOVM_CONTRACT", "WASMVM_CONTRACT"}

Contracts == {"ONT", "ONG", "GOV", "WING", "STONT", "MBL"}

\* The type of contract the methods of an address were written for.
IntendedType(contract) ==
    CASE contract \in {"ONT", "ONG", "GOV"} -> "NATIVE_CONTRACT"
      [] contract \in {"WING", "MBL"}       -> "NEOVM_CONTRACT"
      [] contract = "STONT"                 -> "WASMVM_CONTRACT"

PeerMethods == {"authorizeForPeer", "unAuthorizeForPeer", "withdraw"}

TransferMethods == {"transfer", "transferV2"}

TransferFromMethods == {"transferFrom", "transferFromV2"}

ApproveMethods == {"approve", "approveV2"}

GovernanceMethods ==
    {"registerCandidate", "quitNode", "addInitPos", "reduceInitPos",
     "changeMaxAuthorization", "setFeePercentage", "withdrawFee"} \cup PeerMethods

Methods(contract) ==
    CASE contract \in {"ONT", "ONG"} -> TransferMethods \cup TransferFromMethods \cup ApproveMethods
      [] contract = "GOV"            -> GovernanceMethods
      [] contract \in {"WING", "STONT", "MBL"} -> {"transfer", "transferFrom", "approve"}

\* What a signature consists of, its end mark aside.
ParameterTypes ==
    {"ADDR", "PUBKEY", "AMOUNT", "UINT128", "ONTID", "PK_AMOUNT_PAIRS", "TRANSFER_STATE",
     "TRANSFER_STATE_LIST"}

native_token(method) ==
    CASE method \in TransferMethods     -> <<"TRANSFER_STATE_LIST">>
      [] method \in TransferFromMethods -> <<"ADDR", "TRANSFER_STATE">>
      [] method \in ApproveMethods      -> <<"ADDR", "ADDR", "AMOUNT">>

neovm_oep4_token(method) ==
    IF method = "transferFrom" THEN <<"AMOUNT", "ADDR", "ADDR", "ADDR">>
                               ELSE <<"AMOUNT", "ADDR", "ADDR">>

wasmvm_oep4_token(method) ==
    IF method = "transferFrom" THEN <<"ADDR", "ADDR", "ADDR", "UINT128">>
                               ELSE <<"ADDR", "ADDR", "UINT128">>

native_governance(method) ==
    CASE method = "registerCandidate" -> <<"PUBKEY", "ADDR", "AMOUNT", "ONTID", "AMOUNT">>
      [] method = "quitNode"          -> <<"PUBKEY", "ADDR">>
      [] method \in {"addInitPos", "reduceInitPos", "changeMaxAuthorization"}
                                      -> <<"PUBKEY", "ADDR", "AMOUNT">>
      [] method = "setFeePercentage"  -> <<"PUBKEY", "ADDR", "AMOUNT", "AMOUNT">>
      [] method \in PeerMethods       -> <<"ADDR", "PK_AMOUNT_PAIRS">>
      [] method = "withdrawFee"       -> <<"ADDR">>

Signature(contract, method) ==
    CASE contract \in {"ONT", "ONG"}  -> native_token(method)
      [] contract = "GOV"             -> native_governance(method)
      [] contract \in {"WING", "MBL"} -> neovm_oep4_token(method)
      [] contract = "STONT"           -> wasmvm_oep4_token(method)

Times(n, part) == [k \in 1 .. n * Len(part) |-> part[((k - 1) % Len(part)) + 1]]

\* The entries of method.parameters that one parsed parameter fills; n is the
\* number of transfers of a list, or of pairs.
Entries(parameter, n) ==
    CASE parameter = "ONTID"               -> <<>>
      [] parameter = "TRANSFER_STATE"      -> <<"ADDR", "ADDR", "AMOUNT">>
      [] parameter = "TRANSFER_STATE_LIST" -> Times(n, <<"ADDR", "ADDR", "AMOUNT">>)
      [] parameter = "PK_AMOUNT_PAIRS"     ->
             <<"AMOUNT">> \o Times(n, <<"PUBKEY">>) \o Times(n, <<"AMOUNT">>)
      [] OTHER                             -> <<parameter>>

AllEntries(contract, method, n) ==
    LET signature == Signature(contract, method)
    IN  Concat([k \in 1 .. Len(signature) |-> Entries(signature[k], n)])
-----------------------------------------------------------------------------
(* What the parser leaves to the pages.                                    *)

\* The kinds of entries.
PARAM_KINDS == {"ADDR", "PUBKEY", "AMOUNT", "UINT128"}

Unknown == "unknown"     \* the method of a transaction that is signed blindly

\* A transaction that the parser has accepted, and of which the pages rely on
\* this much: its entries are those of a known method, if it has one, and the
\* second entry of a list of peers is their number.  The value of an entry is
\* that of an amount which a word can hold.
WellParsed(t, max) ==
    /\ t.type \in ContractTypes
    /\ t.params \in Seq([kind : PARAM_KINDS, value : Nat])
    /\ Len(t.params) <= max
    /\ t.method # Unknown =>
           /\ t.contract \in Contracts /\ t.method \in Methods(t.contract)
           /\ \E n \in 0 .. max :
                  /\ [k \in 1 .. Len(t.params) |-> t.params[k].kind]
                         = AllEntries(t.contract, t.method, n)
                  /\ t.method \in PeerMethods => t.params[2].value = n
-----------------------------------------------------------------------------
(* The label and the position of each parameter on the page.               *)

Items ==
    {"FROM", "TO", "SPENDER", "AMOUNT", "STAKE_ADDRESS", "PEER_PUBKEY", "STAKE_AMOUNT",
     "MAX_AUTHORIZE", "PEER_INCENTIVE", "USER_INCENTIVE"}

At(item, pos) == [item |-> item, pos |-> pos]

\* A NeoVM call pushes its parameters in the reverse order.
Reversed(type, method) ==
    type = "NEOVM_CONTRACT" /\ method \in {"transfer", "transferFrom", "approve"}

init_dipslay_pos_and_item(type, method) ==
    CASE Reversed(type, method) /\ method # "transferFrom" ->
             <<At("AMOUNT", 1), At("TO", 2), At("FROM", 0)>>
      [] Reversed(type, method) /\ method = "transferFrom" ->
             <<At("AMOUNT", 2), At("TO", 3), At("FROM", 1), At("SPENDER", 0)>>
      [] ~Reversed(type, method) /\ method \in TransferMethods \cup ApproveMethods ->
             <<At("FROM", 0), At("TO", 2), At("AMOUNT", 1)>>
      [] ~Reversed(type, method) /\ method \in TransferFromMethods ->
             <<At("SPENDER", 0), At("FROM", 1), At("TO", 3), At("AMOUNT", 2)>>
      [] method \in {"registerCandidate", "addInitPos"} ->
             <<At("PEER_PUBKEY", 1), At("STAKE_ADDRESS", 0), At("STAKE_AMOUNT", 2)>>
      [] method = "reduceInitPos" ->
             <<At("PEER_PUBKEY", 1), At("STAKE_ADDRESS", 0), At("AMOUNT", 2)>>
      [] method = "changeMaxAuthorization" ->
             <<At("PEER_PUBKEY", 1), At("STAKE_ADDRESS", 0), At("MAX_AUTHORIZE", 2)>>
      [] method = "setFeePercentage" ->
             <<At("PEER_PUBKEY", 1), At("STAKE_ADDRESS", 0),
               At("PEER_INCENTIVE", 2), At("USER_INCENTIVE", 3)>>
      [] method = "quitNode" ->
             <<At("PEER_PUBKEY", 1), At("STAKE_ADDRESS", 0)>>
      [] method \in PeerMethods \cup {"withdrawFee"} ->
             <<At("STAKE_ADDRESS", 0)>>
      [] OTHER -> <<>>                       \* NULL

\* What kind of value a label announces.
Announces(item) ==
    CASE item \in {"FROM", "TO", "SPENDER", "STAKE_ADDRESS"} -> {"ADDR"}
      [] item = "PEER_PUBKEY"                                -> {"PUBKEY"}
      [] OTHER                                               -> {"AMOUNT", "UINT128"}
=============================================================================
