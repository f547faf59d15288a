----------------------------- MODULE MCAmounts ------------------------------
(***************************************************************************)
(* Values of Amounts' constants for TLC: words of one byte, so that a      *)
(* number has at most five digits; amounts in every form that parse_amount *)
(* lets pass, all of them under one call and some under one call for each  *)
(* way in which decimals and unit are chosen.                              *)
(***************************************************************************)
EXTENDS Amounts

MCDecimals ==
    [contract \in Contracts |->
        CASE contract = "ONG"              -> 3
          [] contract \in {"WING", "MBL"}  -> 2
          [] contract = "STONT"            -> 3
          [] OTHER                         -> 0]

MCTickerLength == [contract \in Contracts |-> IF contract = "STONT" THEN 5 ELSE 3]

Words(bytes) == {<<first, second>> : first \in bytes, second \in bytes}

Forms(bytes) ==
    {<<0>>} \cup {<<OPCODE_PUSH_NUMBER + n>> : n \in 1 .. 16}
        \cup {<<1, byte>> : byte \in bytes} \cup {<<2>> \o word : word \in Words(bytes)}

EdgeBytes == {0, 1, 3, 9, 10, 100, 232, 255}

Method(contract) ==
    CASE contract \in {"ONT", "ONG"} -> Methods(contract)
      [] contract = "GOV"            -> {"addInitPos", "setFeePercentage"}
      [] OTHER                       -> {"transfer"}

Of(contract, type, kind, datas) ==
    {[type |-> type, contract |-> contract, method |-> method, kind |-> kind, data |-> data] :
        method \in Method(contract), data \in datas}

\* All amounts under one call, and some amounts under every call.
MCRequests ==
    {[type |-> "NATIVE_CONTRACT", contract |-> "ONG", method |-> "approve", kind |-> "AMOUNT",
      data |-> data] : data \in Forms(Bytes)}
        \cup UNION {Of(contract, type, "AMOUNT", Forms(EdgeBytes)) :
                        contract \in Contracts \ {"STONT"}, type \in ContractTypes}
        \cup UNION {Of("STONT", type, "UINT128", Words(EdgeBytes)) : type \in ContractTypes}
=============================================================================
