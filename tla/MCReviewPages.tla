--------------------------- MODULE MCReviewPages ---------------------------
(***************************************************************************)
(* Values of ReviewPages' constants for TLC: every method of every known   *)
(* contract under every type of call that the parser accepts, lists of     *)
(* transfers and of peers up to the longest that fit PARAMETERS_MAX_NUM,   *)
(* and one call that is signed blindly.                                    *)
(***************************************************************************)
EXTENDS ReviewPages

CONSTANT Amounts         \* of a peer

Call(type, contract, method, n, values) ==
    LET entries == AllEntries(contract, method, n)
    IN  [type |-> type, contract |-> contract, method |-> method,
         params |-> [k \in 1 .. Len(entries) |-> [kind |-> entries[k], value |-> values[k]]]]

Zeros == [k \in 1 .. PARAMETERS_MAX_NUM |-> 0]

\* A list of transfers is parsed in a native call only, and may be empty.
TransferLists ==
    {Call("NATIVE_CONTRACT", contract, method, n, Zeros) :
        contract \in {"ONT", "ONG"}, method \in TransferMethods,
        n \in 0 .. PARAMETERS_MAX_NUM \div 3}

\* The address, the number of peers, their keys and their amounts.
PeerValues(n, amounts) ==
    [k \in 1 .. PARAMETERS_MAX_NUM |->
        CASE k = 2                         -> n
          [] k \in 3 + n .. 2 + 2 * n      -> amounts[k - n - 2]
          [] OTHER                         -> 0]

PeerCalls ==
    UNION {{Call(type, "GOV", method, n, PeerValues(n, amounts)) :
               type \in ContractTypes, method \in PeerMethods, amounts \in [1 .. n -> Amounts]} :
           n \in 1 .. (PARAMETERS_MAX_NUM - 2) \div 2}

OtherCalls ==
    UNION {{Call(type, contract, method, 0, Zeros) :
               type \in ContractTypes,
               method \in Methods(contract) \ (PeerMethods \cup
                             IF contract \in {"ONT", "ONG"} THEN TransferMethods ELSE {})} :
           contract \in Contracts}

BlindCall ==
    [type |-> "NEOVM_CONTRACT", contract |-> "WING", method |-> Unknown, params |-> <<>>]

MCTransactions == TransferLists \cup PeerCalls \cup OtherCalls \cup {BlindCall}
=============================================================================
