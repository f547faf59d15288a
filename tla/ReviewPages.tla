---------------------------- MODULE ReviewPages ----------------------------
(***************************************************************************)
(* The pages of a transaction review: ui_display_transaction,              *)
(* handle_params and the two functions that open the review, one loop      *)
(* iteration at a time.                                                    *)
(*                                                                         *)
(* Texts are laid out in g_buffers; the pairs of g_pairs point to them.  A *)
(* text is known by its place, its size and what it says; writing a text   *)
(* destroys those it overlaps.  g_pairs is not cleared between reviews: at *)
(* the start every pair is whatever an earlier review left (Stale).        *)
(***************************************************************************)
EXTENDS Contracts, Integers

CONSTANTS
    Transactions,        \* parsed transactions: see TransactionAssumption
    PARAMETERS_MAX_NUM,
    FeeSizes,            \* sizes of the gas fee's text
    WordSize             \* number of values of a uint64_t

MAX_BUFFER_LEN == 67     \* bytes of a slot
AMOUNT_SIZE    == 50     \* of them for the total amount
ADDRESS_SIZE   == 35     \* an address and its terminator

NUM_PAIRS == PARAMETERS_MAX_NUM + 2

\* Fault: three keys are taken for few enough to show six.
ShowMoreKeys == 6

MAX_PUBKEY_DISPLAY == 3

ASSUME SlotAssumption == PARAMETERS_MAX_NUM \in Nat /\ PARAMETERS_MAX_NUM >= 14

ASSUME FeeAssumption == FeeSizes \subseteq 1 .. MAX_BUFFER_LEN /\ WordSize \in Nat \ {0}

ASSUME TransactionAssumption ==
    \A t \in Transactions : WellParsed(t, PARAMETERS_MAX_NUM)

VARIABLES
    tx,         \* the transaction
    stage,      \* where the code is
    texts,      \* the intact texts of g_buffers
    pairs,      \* g_pairs
    nbPairs,    \* g_pairList.nbPairs
    i,          \* the loops' variable
    curr,       \* next slot of the peers' texts
    total       \* amount

vars == <<tx, stage, texts, pairs, nbPairs, i, curr, total>>
-----------------------------------------------------------------------------
(* Texts and pairs.                                                        *)

Slot(k) == k * MAX_BUFFER_LEN

Says(what, index) == [what |-> what, index |-> index]

Text(at, size, what, index) == [at |-> at, size |-> size, says |-> Says(what, index)]

Fixed(item) == Text(0, 0, item, 0)       \* a string constant of the program

Apart(t, u) == t.at + t.size <= u.at \/ u.at + u.size <= t.at

Overwrite(old, new) == {t \in old : \A u \in new : Apart(t, u)} \cup new

Pair(item, value) == [item |-> item, value |-> value]

Stale == Pair(Fixed("stale"), Fixed("stale"))

Fee(size) == Text(Slot(PARAMETERS_MAX_NUM) + AMOUNT_SIZE, size, "GAS_FEE", 0)

Signer == Text(Slot(PARAMETERS_MAX_NUM + 1), ADDRESS_SIZE, "SIGNER", 0)

Total == Text(Slot(PARAMETERS_MAX_NUM), AMOUNT_SIZE, "TOTAL", 0)

\* A parameter is cleared and written as a whole slot.
Param(slot, k) == Text(Slot(slot), MAX_BUFFER_LEN, "param", k)
-----------------------------------------------------------------------------
(* The transaction.  Parameters are counted from zero.                     *)

HasParam(k) == k < Len(tx.params)

Kind(k) == tx.params[k + 1].kind

Value(k) == tx.params[k + 1].value

\* convert_param_to_chars: what it can write, if nothing else fails.
Convertible(k) ==
    /\ HasParam(k)
    /\ Kind(k) = "AMOUNT"  => tx.type # "WASMVM_CONTRACT"
    /\ Kind(k) = "UINT128" => tx.type = "WASMVM_CONTRACT"

Native == tx.type = "NATIVE_CONTRACT"

Blind == tx.method = Unknown

\* Fault: the order of a NeoVM call is not reversed.
LayoutOfNative == init_dipslay_pos_and_item("NATIVE_CONTRACT", tx.method)

Layout == init_dipslay_pos_and_item(tx.type, tx.method)

pubkey_num == Value(1)

Peers == Native /\ tx.method \in PeerMethods

Displayed == IF pubkey_num < MAX_PUBKEY_DISPLAY THEN pubkey_num ELSE MAX_PUBKEY_DISPLAY
-----------------------------------------------------------------------------
(* The steps.                                                              *)

At_(s) == stage = s /\ UNCHANGED tx

\* Any conversion may fail, in the operating system's hash if nowhere else.
Refuse ==
    /\ stage \in {"start", "params", "peers", "amounts", "transfers"}
    /\ stage' = "refused"
    /\ UNCHANGED <<tx, texts, pairs, nbPairs, i, curr, total>>

DrawFees ==
    /\ At_("start")
    /\ \E size \in FeeSizes : texts' = Overwrite({Fee(size)}, {Signer})
    /\ i' = 0
    /\ IF Blind THEN stage' = "blind" /\ nbPairs' = 0
                ELSE stage' = "params" /\ nbPairs' = Len(Layout)
    /\ UNCHANGED <<pairs, curr, total>>

ui_display_bs_transaction ==
    /\ At_("blind")
    /\ LET address == Param(0, 0)
       IN  /\ texts' = Overwrite(texts, {address})
           /\ pairs' = [pairs EXCEPT ![0] = Pair(Fixed("BLIND_SIGN_TX"), Fixed("BLIND_SIGNING")),
                                     ![1] = Pair(Fixed("CONTRACT_ADDRESS"), address)]
    /\ nbPairs' = 2
    /\ stage' = "closing"
    /\ UNCHANGED <<i, curr, total>>

PlaceParam ==
    /\ At_("params") /\ i < Len(Layout) /\ Convertible(i)
    /\ texts' = Overwrite(texts, {Param(i, i)})
    /\ pairs' = [pairs EXCEPT ![Layout[i + 1].pos] = Pair(Fixed(Layout[i + 1].item), Param(i, i))]
    /\ i' = i + 1
    /\ UNCHANGED <<stage, nbPairs, curr, total>>

\* A method without a layout is refused.
ParamsPlaced == At_("params") /\ i = Len(Layout) /\ Layout # <<>>

FinishParams ==
    /\ ParamsPlaced
    /\ Native => tx.method \notin PeerMethods \cup TransferMethods \cup {"registerCandidate"}
    /\ stage' = "closing"
    /\ UNCHANGED <<texts, pairs, nbPairs, i, curr, total>>

AddStakeFee ==
    /\ ParamsPlaced /\ Native /\ tx.method = "registerCandidate"
    /\ pairs' = [pairs EXCEPT ![nbPairs] = Pair(Fixed("STAKE_FEE"), Fixed("STAKE_FEE_ONG"))]
    /\ nbPairs' = nbPairs + 1
    /\ stage' = "closing"
    /\ UNCHANGED <<texts, i, curr, total>>

EnterPeers ==
    /\ ParamsPlaced /\ Peers /\ pubkey_num # 0
    /\ stage' = "peers" /\ i' = 0 /\ curr' = nbPairs
    /\ UNCHANGED <<texts, pairs, nbPairs, total>>

\* One key, and its amount if few enough are shown.  A single key has fixed
\* labels; otherwise each label takes a slot before its value.
Label(slot, item) ==
    IF i = 0 /\ pubkey_num = 1 THEN Fixed(item)
                               ELSE Text(Slot(slot), MAX_BUFFER_LEN, item, i + 1)

LabelSlots == IF i = 0 /\ pubkey_num = 1 THEN 0 ELSE 1

\* Fault: the slot of the label is used again for the value.
SlotOfLabel == curr

KeySlot == curr + LabelSlots

PlacePeer ==
    /\ At_("peers") /\ i < Displayed
    /\ LET key         == Param(KeySlot, i + 2)
           amount      == Param(KeySlot + 1 + LabelSlots, i + 2 + pubkey_num)
           key_label   == Label(curr, "PEER_PUBKEY")
           amount_label == Label(KeySlot + 1, "PEER_AMOUNT")
           keys        == Overwrite(Overwrite(texts, {key_label}), {key})
           both        == pubkey_num <= MAX_PUBKEY_DISPLAY
       IN  /\ Convertible(i + 2)
           /\ both => Convertible(i + 2 + pubkey_num)
           /\ texts' = IF both THEN Overwrite(Overwrite(keys, {amount_label}), {amount})
                               ELSE keys
           /\ pairs' = IF both THEN [pairs EXCEPT ![nbPairs] = Pair(key_label, key),
                                                  ![nbPairs + 1] = Pair(amount_label, amount)]
                               ELSE [pairs EXCEPT ![nbPairs] = Pair(key_label, key)]
           /\ nbPairs' = nbPairs + (IF both THEN 2 ELSE 1)
           /\ curr' = KeySlot + 1 + (IF both THEN LabelSlots + 1 ELSE 0)
    /\ i' = i + 1
    /\ UNCHANGED <<stage, total>>

FinishPeers ==
    /\ At_("peers") /\ i = Displayed /\ pubkey_num <= MAX_PUBKEY_DISPLAY
    /\ stage' = "closing"
    /\ UNCHANGED <<texts, pairs, nbPairs, i, curr, total>>

\* More keys than are shown: how many remain, and the sum of all amounts.
PlaceRest ==
    /\ At_("peers") /\ i = Displayed /\ pubkey_num > MAX_PUBKEY_DISPLAY
    /\ LET rest == Text(Slot(curr), MAX_BUFFER_LEN, "NODE_AMOUNT", pubkey_num - MAX_PUBKEY_DISPLAY)
       IN  /\ texts' = Overwrite(texts, {rest})
           /\ pairs' = [pairs EXCEPT ![nbPairs] = Pair(Fixed("NODE_AMOUNT"), rest)]
    /\ nbPairs' = nbPairs + 1
    /\ curr' = curr + 1
    /\ stage' = "amounts" /\ i' = 0 /\ total' = 0

\* Fault: the index does not skip the keys.
KeyForAmount == Value(i + 2)

Amount == Value(i + 2 + pubkey_num)

AddAmount ==
    /\ At_("amounts") /\ i < pubkey_num
    /\ Kind(i + 2 + pubkey_num) = "AMOUNT"
    /\ total' = (total + Amount) % WordSize
    /\ i' = i + 1
    /\ UNCHANGED <<stage, texts, pairs, nbPairs, curr>>

PlaceTotal ==
    /\ At_("amounts") /\ i = pubkey_num
    /\ texts' = Overwrite(texts, {Total})
    /\ pairs' = [pairs EXCEPT ![nbPairs] = Pair(Fixed("TOTAL"), Total)]
    /\ nbPairs' = nbPairs + 1
    /\ stage' = "closing"
    /\ UNCHANGED <<i, curr, total>>

EnterTransfers ==
    /\ ParamsPlaced /\ Native /\ tx.method \in TransferMethods
    /\ stage' = "transfers" /\ i' = 1
    /\ UNCHANGED <<texts, pairs, nbPairs, curr, total>>

\* Fault: one transfer less than there is room for.
OneTransferLess == HasParam(3 * i) /\ 3 * i + 3 < PARAMETERS_MAX_NUM

\* The code reads parameters[3 * i] before it compares the index with the size
\* of the array; the comparison then decides alone.
MoreTransfers == HasParam(3 * i) /\ 3 * i + 2 < PARAMETERS_MAX_NUM

\* Fault: the pairs of a transfer start one too late.
PositionAfter(pos) == pos + 3 * i + 1

Position(pos) == pos + 3 * i

PlaceTransfer ==
    /\ At_("transfers") /\ MoreTransfers
    /\ \A k \in 0 .. 2 : Convertible(3 * i + k)
    /\ texts' = Overwrite(texts, {Param(3 * i + k, 3 * i + k) : k \in 0 .. 2})
    /\ LET placed == {Position(Layout[k].pos) : k \in 1 .. 3}
           entry(p) == CHOOSE k \in 0 .. 2 : Position(Layout[k + 1].pos) = p
       IN  pairs' = [p \in DOMAIN pairs \cup placed |->
                        IF p \in placed
                        THEN Pair(Fixed(Layout[entry(p) + 1].item),
                                  Param(3 * i + entry(p), 3 * i + entry(p)))
                        ELSE pairs[p]]
    /\ nbPairs' = nbPairs + 3
    /\ i' = i + 1
    /\ UNCHANGED <<stage, curr, total>>

FinishTransfers ==
    /\ At_("transfers") /\ ~MoreTransfers
    /\ stage' = "closing"
    /\ UNCHANGED <<texts, pairs, nbPairs, i, curr, total>>

\* The fee and the signer; the size of the fee's text does not matter to the
\* pair, which is a pointer.
Close ==
    /\ At_("closing")
    /\ pairs' = [pairs EXCEPT ![nbPairs] = Pair(Fixed("GAS_FEE"), Fee(0)),
                              ![nbPairs + 1] = Pair(Fixed("SIGNER"), Signer)]
    /\ nbPairs' = nbPairs + 2
    /\ stage' = "shown"
    /\ UNCHANGED <<texts, i, curr, total>>
-----------------------------------------------------------------------------
Init ==
    /\ tx \in Transactions
    /\ stage = "start"
    /\ texts = {}
    /\ pairs = [p \in 0 .. NUM_PAIRS - 1 |-> Stale]
    /\ nbPairs = 0 /\ i = 0 /\ curr = 0 /\ total = 0

Next ==
    \/ DrawFees
    \/ Refuse
    \/ ui_display_bs_transaction
    \/ PlaceParam
    \/ FinishParams
    \/ AddStakeFee
    \/ EnterPeers
    \/ PlacePeer
    \/ FinishPeers
    \/ PlaceRest
    \/ AddAmount
    \/ PlaceTotal
    \/ EnterTransfers
    \/ PlaceTransfer
    \/ FinishTransfers
    \/ Close

Spec == Init /\ [][Next]_vars
-----------------------------------------------------------------------------
(* Properties.                                                             *)

Whats == Items \cup
    {"param", "PEER_AMOUNT", "NODE_AMOUNT", "TOTAL", "STAKE_FEE", "STAKE_FEE_ONG", "GAS_FEE",
     "SIGNER", "BLIND_SIGN_TX", "BLIND_SIGNING", "CONTRACT_ADDRESS", "stale"}

Texts == [at : Nat, size : Nat, says : [what : Whats, index : Nat]]

\* Types, and: every text lies in g_buffers and every pair in g_pairs, for the
\* longest list of transfers and of peers the parser accepts.
TypeOK ==
    /\ stage \in {"start", "blind", "params", "peers", "amounts", "transfers",
                  "closing", "shown", "refused"}
    /\ texts \subseteq Texts
    /\ \A t \in texts : t.at + t.size <= Slot(NUM_PAIRS)
    /\ pairs \in [0 .. NUM_PAIRS - 1 -> [item : Texts, value : Texts]]
    /\ nbPairs \in 0 .. NUM_PAIRS
    /\ i \in Nat /\ curr \in Nat /\ total \in 0 .. WordSize - 1

Shown == stage = "shown"

ShownPairs == {pairs[p] : p \in 0 .. nbPairs - 1}

\* Every pair the review is told to show was set for this transaction: loops
\* that place pairs by position and the counter nbPairs agree, and nothing an
\* earlier review left in g_pairs is shown.
PairsComplete == Shown => Stale \notin ShownPairs

Intact(text) == text.size = 0 \/ text \in texts

\* No later text of the page has overwritten a label or a value it shows; the
\* fee is FeeIntact's matter.
ParametersIntact ==
    Shown => \A pair \in ShownPairs :
                 pair.item.says.what # "GAS_FEE" => Intact(pair.item) /\ Intact(pair.value)

ShownParams == {k \in 0 .. Len(tx.params) - 1 :
                   \E pair \in ShownPairs : pair.value.says = Says("param", k)}

\* What the page leaves out on purpose: the key index of a candidate; the number
\* of peers and, of more than three, all amounts and the fourth key onwards.
LeftOut ==
    CASE tx.method = "registerCandidate" -> {3}
      [] Peers /\ pubkey_num <= 3        -> {1}
      [] Peers /\ pubkey_num > 3         -> {1} \cup 5 .. Len(tx.params) - 1
      [] OTHER                           -> {}

Intended == tx.type = IntendedType(tx.contract)

\* A call of a known contract, made as a call of its type: every parameter that
\* the parser's table announces is on the page, in particular every transfer of
\* a list; the peers that are not are counted, and their amounts totalled.
EverythingShown ==
    Shown /\ ~Blind /\ Intended =>
        /\ 0 .. Len(tx.params) - 1 \subseteq ShownParams \cup LeftOut
        /\ Peers /\ pubkey_num > 3 =>
               {Says("NODE_AMOUNT", pubkey_num - 3), Says("TOTAL", 0)}
                   \subseteq {pair.value.says : pair \in ShownPairs}

\* A label announces the kind of value it stands before, and a numbered label
\* stands before the key or the amount of the peer with that number.
Labelled(pair) ==
    pair.value.says.what = "param" =>
        LET k == pair.value.says.index
            n == pair.item.says.index
        IN  /\ Kind(k) \in Announces(pair.item.says.what)
            /\ n > 0 => k = n + 1 + (IF pair.item.says.what = "PEER_PUBKEY" THEN 0 ELSE pubkey_num)

\* The tables of contract.c and tx_init.c agree: on the page of a call made as a
\* call of its contract's type no value stands under another value's label.
LabelsMatch ==
    Shown /\ ~Blind /\ Intended => \A pair \in ShownPairs : Labelled(pair)

AmountsOfPeers == [k \in 1 .. pubkey_num |-> Value(1 + pubkey_num + k)]

SumOfAmounts == SumOf(AmountsOfPeers)

TotalShown == Shown /\ Total.says \in {pair.value.says : pair \in ShownPairs}

\* The total is the sum of the amounts of all peers, those not shown included,
\* as far as a uint64_t can hold it.
TotalCountsAll == TotalShown => total = SumOfAmounts % WordSize

\* The comment on g_buffers gives the fee and the signer a place each.  Expected
\* to fail: the fee's text is written with the size of a whole slot but 17 bytes
\* before the signer's, which then replaces its end and its terminator.
FeeIntact == Shown => \E t \in texts : t.says.what = "GAS_FEE"

\* The loop over the transfers tests parameters[3 * i] before 3 * i + 2 <
\* PARAMETERS_MAX_NUM: what it tests should be an entry of the array.  Expected
\* to fail: a list that fills the array is followed by no entry.
TransfersReadInArray == stage = "transfers" => 3 * i < PARAMETERS_MAX_NUM

\* LabelsMatch for every transaction the parser accepts.  Expected to fail: the
\* type of the call is not compared with the type of the contract it names.
LabelsAlwaysMatch == Shown /\ ~Blind => \A pair \in ShownPairs : Labelled(pair)
=============================================================================
